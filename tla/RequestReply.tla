---------------------------- MODULE RequestReply ----------------------------
(***************************************************************************)
(* What the callers of handle_reply_message take it for: a request is      *)
(* processed once by the tracker and its own reply comes back, and nobody  *)
(* asks meanwhile.  While the connection is broken nothing is promised; a  *)
(* request may find it mended.                                             *)
(***************************************************************************)
EXTENDS Naturals

CONSTANTS Threads, Request(_, _), ReplyTo(_), Nothing

VARIABLES
    asked,      \* the number of requests of each thread
    pending,    \* the request being made, if there is one
    served,     \* the requests that were processed
    got,        \* the last reply to each thread
    broken

vars == <<asked, pending, served, got, broken>>

Init ==
    /\ asked = [t \in Threads |-> 0] /\ got = [t \in Threads |-> Nothing]
    /\ pending = {} /\ served = {} /\ broken = FALSE

Ask(t) ==
    /\ pending = {}
    /\ asked' = [asked EXCEPT ![t] = @ + 1] /\ got' = [got EXCEPT ![t] = Nothing]
    /\ pending' = {Request(t, asked[t] + 1)}
    /\ UNCHANGED served

Serve == \E m \in pending \ served : /\ served' = served \cup {m}
                                      /\ UNCHANGED <<asked, pending, got>>

Answer(t) ==
    /\ pending = {Request(t, asked[t])} /\ pending \subseteq served
    /\ got' = [got EXCEPT ![t] = ReplyTo(Request(t, asked[t]))]
    /\ pending' = {}
    /\ UNCHANGED <<asked, served>>

Next == \/ broken'
        \/ ~broken' /\ \E t \in Threads : Ask(t)
        \/ ~broken /\ ~broken' /\ (Serve \/ \E t \in Threads : Answer(t))

Spec == Init /\ [][Next]_vars
=============================================================================
