---------------------------- MODULE TrackerLink ----------------------------
(***************************************************************************)
(* The connection between a client and the tracker: the threads of the     *)
(* client that call handle_reply_message on its one socket, without a lock,*)
(* and the tracker's handler of the connection, which the reactor's thread *)
(* runs.  A request and its reply are packs of module NetPack.             *)
(*                                                                         *)
(* What the tracker does with a request is module Tracker; its statements  *)
(* succeed here.  The code in a reply changes nothing but a log line.      *)
(***************************************************************************)
EXTENDS Naturals, Sequences, FiniteSets

CONSTANTS
    Threads,    \* job threads, the report routine, main
    Queriers,   \* those that call RequestClients
    Handler,    \* the tracker's handler of this connection
    MaxAsks,    \* bound: the requests of each thread
    Longest,    \* bound: see NetPack
    Blank, Nothing

ASSUME LinkAssumption ==
    /\ Queriers \subseteq Threads /\ Handler \notin Threads
    /\ MaxAsks \in [Threads -> Nat] /\ Longest \in Nat

VARIABLES
    at,         \* where each end is in sendBy or receiveFrom
    pack,       \* the pack it sends, or whose header it has read
    size,       \* how much it is going to read
    wire,       \* the bytes on their way to each side
    open,       \* the sides that have not closed the connection
    asked,      \* the number of requests of each thread
    got,        \* what the last exchange of each thread gave, if it has ended
    served,     \* history: the requests the tracker has processed; and, since a request
                \* was last made on a quiet connection, whether
    overlapped, \*  - two exchanges have overlapped
    misread,    \*  - a read was shorter than asked for
    failed      \*  - an exchange gave no reply, or the handler outlived an exception

histVars == <<served, overlapped, misread, failed>>
vars     == <<at, pack, size, wire, open, asked, got, histVars>>

Ends  == Threads \cup {Handler}
Sides == {"client", "tracker"}
SideOf(x) == IF x = Handler THEN "tracker" ELSE "client"
FarOf(x)  == IF x = Handler THEN "client" ELSE "tracker"

Sending   == {"sendLength", "sendHeader", "sendPayload"}
Receiving == {"length", "header", "payload"}
Stages    == {"idle", "dead", "gone"} \cup Sending \cup Receiving

\* A QueryPeer and its reply have required fields of different types, which the bytes of
\* no other message here make; a report or another request has one or more strings, and
\* its reply one number.
Loose == {"plain", "plainReply"}

INSTANCE NetPack

Request(t, n) == [type |-> IF t \in Queriers THEN "query" ELSE "plain", from |-> t, n |-> n]
ReplyTo(m)    == [type |-> IF m.type = "query" THEN "queryReply" ELSE "plainReply", to |-> m]

Requests == [type : {"query", "plain"}, from : Threads, n : Nat]
Replies  == [type : {"queryReply", "plainReply"}, to : Requests \cup [type : {"plain"}]]

ASSUME PacksAssumption ==
    /\ Blank # Nothing
    /\ \A p \in {Blank, Nothing} : p \notin Requests \cup Replies

\* handle_reply_message, from the first byte sent to its return.
InExchange(t) == at[t] \in Sending \cup Receiving

\* Nobody asks, and nothing is left of earlier exchanges: no byte is unread, and the handler
\* waits for the beginning of a request.
Quiet == /\ \A t \in Threads : ~InExchange(t)
         /\ at[Handler] = "length" /\ wire["tracker"] = << >> /\ wire["client"] = << >>

Init ==
    /\ at = [x \in Ends |-> IF x = Handler THEN "length" ELSE "idle"]
    /\ pack = [x \in Ends |-> Nothing] /\ size = [x \in Ends |-> 2]
    /\ wire = [s \in Sides |-> << >>] /\ open = Sides
    /\ asked = [t \in Threads |-> 0] /\ got = [t \in Threads |-> Nothing]
    /\ served = {} /\ overlapped = FALSE /\ misread = FALSE /\ failed = FALSE

Goto(x, stage, p, n) == /\ at' = [at EXCEPT ![x] = stage]
                        /\ pack' = [pack EXCEPT ![x] = p]
                        /\ size' = [size EXCEPT ![x] = n]
-----------------------------------------------------------------------------
(* Sending: NetPack::sendBy.                                               *)

\* handle_reply_message takes the socket that all threads share.
Ask(t) ==
    /\ at[t] = "idle" /\ asked[t] < MaxAsks[t]
    /\ asked' = [asked EXCEPT ![t] = @ + 1] /\ got' = [got EXCEPT ![t] = Nothing]
    /\ Goto(t, "sendLength", Request(t, asked[t] + 1), 2)
    /\ overlapped' = (~Quiet /\ (overlapped \/ \E u \in Threads : InExchange(u)))
    /\ misread' = (misread /\ ~Quiet) /\ failed' = (failed /\ ~Quiet)
    /\ UNCHANGED <<wire, open, served>>

PartSent == [sendLength |-> "length", sendHeader |-> "header", sendPayload |-> "payload"]
After    == [sendLength |-> "sendHeader", sendHeader |-> "sendPayload", sendPayload |-> "length"]

Send(x) ==
    /\ at[x] \in Sending
    /\ wire' = IF FarOf(x) \in open
               THEN [wire EXCEPT ![FarOf(x)] = @ \o Part(pack[x], PartSent[at[x]])]
               ELSE wire
    /\ Goto(x, After[at[x]], IF at[x] = "sendPayload" THEN Nothing ELSE pack[x], 2)
    /\ UNCHANGED <<open, asked, got, histVars>>
-----------------------------------------------------------------------------
(* The ends of an exchange, and of a request at the tracker; left is what  *)
(* the read has left on the wire.                                          *)

\* RequestClients asks the reply for its clients before it tests anything, and a null
\* one ends the thread; the other callers return.
Finish(t, result) ==
    /\ got' = [got EXCEPT ![t] = result]
    /\ Goto(t, IF t \in Queriers /\ result = Nothing THEN "dead" ELSE "idle", Nothing, 2)
    /\ failed' = (failed \/ result = Nothing)

\* An exception leaves the thread's function.
Die(t) == /\ got' = [got EXCEPT ![t] = Nothing] /\ failed' = TRUE
          /\ Goto(t, "dead", Nothing, 2)

\* delete this: the socket closes, and what is unread at that time may reset the
\* connection and take with it what has been sent.
KeepTracker(left) == wire' = left /\ UNCHANGED open
CloseTracker(left) ==
    /\ open' = open \ {"tracker"}
    /\ \/ wire' = [left EXCEPT !["tracker"] = << >>]
       \/ left["tracker"] # << >> /\ wire' = [s \in Sides |-> << >>]

\* receiveFrom returns an error.  A log line asks for the peer's address, which a
\* socket that was reset does not have.
Error(x, left) ==
    \/ /\ x = Handler /\ CloseTracker(left) /\ Goto(x, "gone", Nothing, 2)
       /\ UNCHANGED <<got, failed>>
    \/ /\ x # Handler /\ wire' = left /\ UNCHANGED open
       /\ Finish(x, Nothing) \/ ("tracker" \notin open /\ Die(x))

\* receiveFrom throws: the reactor goes on, and a thread of the client ends.
Throw(x, left) ==
    /\ wire' = left /\ UNCHANGED open
    /\ \/ x = Handler /\ Goto(x, "length", Nothing, 2) /\ failed' = TRUE /\ UNCHANGED got
       \/ x # Handler /\ Die(x)

\* cast<ReplyMessageType> of a reply.
AnyType(t, m) == m
Cast(t, m)    == IF m # Nothing /\ (m.type = "queryReply") = (t \in Queriers) THEN m ELSE Nothing

\* Process leaves the reply Blank when there is no message.
ReplyAnyway(m) == IF m = Nothing THEN Nothing ELSE ReplyTo(m)
ReplyUnset(m)  == Blank
Reply(m)       == IF m = Nothing THEN Blank ELSE ReplyTo(m)
-----------------------------------------------------------------------------
(* Receiving: NetPack::receiveFrom, called by the reactor when something   *)
(* can be read, and by a thread that has sent its request.                 *)

ReceiveHeaderLength(x, bytes, left) ==
    /\ at[x] = "length"
    /\ \/ LengthMayFail(bytes) /\ Error(x, left)
       \/ LengthMayThrow(bytes) /\ Throw(x, left)
       \/ \E n \in HeaderLengths(bytes) : /\ Goto(x, "header", Nothing, n)
                                          /\ wire' = left /\ UNCHANGED <<open, got, failed>>
    /\ UNCHANGED served

ReceiveHeader(x, bytes, left) ==
    /\ at[x] = "header"
    /\ \/ HeaderMayFail(bytes) /\ Error(x, left)
       \/ HeaderMayThrow(bytes) /\ Throw(x, left)
       \/ \E h \in Headers(bytes) : /\ Goto(x, "payload", h.pack, h.size)
                                    /\ wire' = left /\ UNCHANGED <<open, got, failed>>
    /\ UNCHANGED served

ReceivePayload(x, bytes, left) ==
    /\ at[x] = "payload"
    /\ \/ Len(bytes) # size[x] /\ Error(x, left) /\ UNCHANGED served
       \/ /\ Len(bytes) = size[x] /\ wire' = left /\ UNCHANGED open
          /\ \E m \in Messages(pack[x], bytes) :
             \/ /\ x = Handler /\ served' = served \cup ({m} \cap Requests)
                /\ Goto(x, "sendLength", Reply(m), 2)
                /\ UNCHANGED <<got, failed>>
             \/ /\ x # Handler /\ UNCHANGED served
                /\ Finish(x, Cast(x, m))

Receive(x) ==
    /\ SideOf(x) \in open
    /\ \E k \in Reads(wire[SideOf(x)], size[x], FarOf(x) \notin open) :
        LET bytes == First(wire[SideOf(x)], k)
            left  == [wire EXCEPT ![SideOf(x)] = Rest(@, k)]
        IN /\ misread' = (misread \/ k < size[x])
           /\ \/ ReceiveHeaderLength(x, bytes, left) \/ ReceiveHeader(x, bytes, left)
              \/ ReceivePayload(x, bytes, left)
    /\ UNCHANGED <<asked, overlapped>>

\* A socket whose other end has closed: sendBytes or receiveBytes throws.
Reset(x) ==
    /\ at[x] \in Sending \cup Receiving /\ FarOf(x) \notin open
    /\ Throw(x, wire) /\ misread' = TRUE
    /\ UNCHANGED <<asked, served, overlapped>>

\* The tracker stops, between two calls of the handler.
Stop ==
    /\ at[Handler] = "length" /\ CloseTracker(wire) /\ Goto(Handler, "gone", Nothing, 2)
    /\ UNCHANGED <<asked, got, histVars>>

\* The process of the client ends, in the middle of anything.
Exit ==
    /\ "client" \in open /\ open' = open \ {"client"}
    /\ at' = [x \in Ends |-> IF x = Handler THEN at[x] ELSE "dead"]
    /\ UNCHANGED <<pack, size, wire, asked, got, histVars>>

Step(x) == Send(x) \/ Receive(x) \/ Reset(x)

Next == Stop \/ Exit \/ (\E t \in Threads : Ask(t)) \/ (\E x \in Ends : Step(x))

Spec == Init /\ [][Next]_vars

\* The threads of the client run, and the reactor takes what can be read.  Its one thread
\* serves every connection with reads that block: it comes back to this one only while no
\* other connection stops in the middle of a request (netpack.cc:64), which is assumed here.
FairSpec == Spec /\ \A x \in Ends : WF_vars(Step(x))
-----------------------------------------------------------------------------
(* What the connection promises.                                           *)

\* Every variable has its type.
Byte == [pack : Requests \cup Replies \cup {Blank}, part : {"length", "header", "payload"},
         half : 1..2]
TypeOK ==
    /\ at \in [Ends -> Stages] /\ size \in [Ends -> Nat]
    /\ pack \in [Ends -> Requests \cup Replies \cup {Blank, Nothing}]
    /\ wire \in [Sides -> Seq(Byte)] /\ open \subseteq Sides
    /\ asked \in [Threads -> Nat] /\ \A t \in Threads : asked[t] <= MaxAsks[t]
    /\ got \in [Threads -> Replies \cup {Nothing} \cup [type : {"plainReply"}]]
    /\ served \subseteq Requests
    /\ overlapped \in BOOLEAN /\ misread \in BOOLEAN /\ failed \in BOOLEAN

\* With one job's thread on the connection, however its exchanges are disturbed, the job
\* takes no answer for a list of owners but the one to its own last query: where it takes
\* the reply to another request, or finds the rest of an old one, its thread ends instead
\* (client.cc:305).  Nothing is claimed of two jobs: RequestClients looks at the type of a
\* reply only and not at the file it is about, so that they may take each other's.
OwnersAreAnswers ==
    \A q \in Queriers : Queriers = {q} /\ got[q] # Nothing =>
        got[q] = ReplyTo(Request(q, asked[q]))

\* An exchange that begins on a quiet connection, or follows on one that did, and that no
\* other overlaps, ends: however a request or a reply is cut by the reads, no two ends wait
\* for each other, although no read has a timeout.  Nothing is said of the exchanges after
\* an overlap, a null reply or an exception at the tracker, whose assertion on a length
\* that was not read (netpack.cc:69) lets the handler go on in the middle of a request,
\* until one begins with nothing left on the connection.
ExchangeEnds ==
    \A t \in Threads : (InExchange(t) /\ ~failed /\ ~overlapped)
                          ~> (~InExchange(t) \/ failed \/ overlapped)

\* In particular, while it lasts, the thread or the handler has a step to take: it sends,
\* it reads what has arrived or a part without bytes, or it finds the other side closed.
Ready(x) == \/ at[x] \in Sending
            \/ at[x] \in Receiving /\ FarOf(x) \notin open
            \/ /\ at[x] \in Receiving /\ SideOf(x) \in open
               /\ wire[SideOf(x)] # << >> \/ size[x] = 0
ExchangeMoves ==
    \A t \in Threads : InExchange(t) /\ ~failed /\ ~overlapped => Ready(t) \/ Ready(Handler)

\* And every step, whoever takes it, leaves less of the exchange: what the thread has to
\* send, what each side has to read, where they are, each with a weight such that bytes
\* to the tracker outweigh what it may make of them: a reply for every byte.
ThreadWeight(stage) ==
    CASE stage = "sendLength" -> 81 [] stage = "sendHeader" -> 54 [] stage = "sendPayload" -> 27
      [] stage = "length" -> 2 [] stage = "header" -> 1 [] OTHER -> 0
HandlerWeight(stage) ==
    CASE stage = "header" -> 12 [] stage = "payload" -> 11 [] stage = "sendLength" -> 10
      [] stage = "sendHeader" -> 7 [] stage = "sendPayload" -> 4 [] stage = "length" -> 1
      [] OTHER -> 0
Remaining(t) == ThreadWeight(at[t]) + HandlerWeight(at[Handler])
                    + 12 * Len(wire["tracker"]) + Len(wire["client"])
\* A step of an exchange with no other beside it, at either end, leaves less of it, whatever
\* has happened on the connection before.
Lone(t)     == \A u \in Threads \ {t} : ~InExchange(u)
LessRemains == \A t \in Threads :
                  InExchange(t) /\ InExchange(t)' /\ Lone(t) /\ Lone(t)'
                      => Remaining(t)' < Remaining(t)
ExchangeShrinks == [][LessRemains]_vars

\* What handle_reply_message and the tracker do with a request can neither stop half-way
\* nor go round: a step of an exchange brings its end nearer and leaves one to be taken.
ExchangeProceeds == [][ExchangeMoves' /\ LessRemains]_vars

\* From a request made on a quiet connection, while no two exchanges overlap, every read is
\* complete and nobody closes the connection, handle_reply_message is a call: one request
\* at a time, processed once, and its own reply returned.
Disturbed == overlapped \/ misread \/ open # Sides
Pending   == {Request(t, asked[t]) : t \in {u \in Threads : InExchange(u)}}

Call == INSTANCE RequestReply WITH
            pending <- IF Disturbed THEN {} ELSE Pending,
            broken  <- Disturbed
LinkIsCall == Call!Spec
=============================================================================
