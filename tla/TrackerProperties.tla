------------------------- MODULE TrackerProperties -------------------------
(***************************************************************************)
(* What Tracker promises.                                                  *)
(***************************************************************************)
EXTENDS Tracker

Reply == [asker : Clients, file : Files, percentage : Percents, need : Needs,
          list : Seq(Clients)]

\* Every variable has its type, and a connection without a handler has nobody at its
\* far end.
TypeOK ==
    /\ up \in BOOLEAN
    /\ handler \in [Conns -> Clients \cup {NoClient, Gone}]
    /\ link \in [Conns -> Clients \cup {NoClient}]
    /\ \A k \in Conns : handler[k] = Gone => link[k] = NoClient
    /\ isonline \in [Clients -> {NoRow, 0, 1}]
    /\ owner \in [Files -> [Clients -> {NoRow} \cup 0..100]]
    /\ known \in [Clients -> [Files -> SUBSET Clients]]
    /\ reply \in Reply \cup {NoReply}
    /\ left \subseteq Clients /\ overlap \subseteq Clients /\ refused \subseteq Clients
    /\ stops \in Nat /\ faults \in Nat

\* A client the tables call online has a handler that will take it offline when its
\* connection ends, or was online when the tracker last stopped: onShutdown deletes
\* the handlers and leaves the rows (tracker_connection_handler.cc:81).
OnlineHasHandler ==
    \A c \in Online : c \in left \/ \E k \in Conns : handler[k] = c

\* A client that is logged in over a live connection is hidden from the others only
\* if its login was refused, or came while the tracker still held an earlier
\* connection of the same client, whose end takes the client offline.
HiddenNeedsOverlap ==
    \A k \in Conns : Session(k) => link[k] \in Online \cup overlap \cup refused

\* Every name in an answer is one the asker can use: a client that is online and has
\* a row for the file, not the asker itself, and not one the asker already lists.
AnswersUsable ==
    [][reply' # NoReply =>
         LET r == reply' IN
         \A i \in DOMAIN r.list :
            /\ r.list[i] \in Online \ {r.asker}
            /\ owner[r.file][r.list[i]] # NoRow
            /\ r.list[i] \notin known[r.asker][r.file]]_vars

\* An answer is empty only when no online client could be named, although a search
\* with several rows loses one; a client without a byte asks for others ahead of it.
EmptyMeansNone ==
    [][reply' # NoReply =>
         LET r == reply' IN
         r.list = << >> =>
            \A c \in Online \ {r.asker} :
               \/ owner[r.file][c] = NoRow \/ c \in known[r.asker][r.file]
               \/ owner[r.file][c] = 0 /\ r.percentage = 0]_vars

\* Both searches together return at most the number of clients asked for.
AnswerFits == reply # NoReply => Len(reply.list) <= reply.need
=============================================================================
