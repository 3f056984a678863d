----------------------------- MODULE JobRemoval -----------------------------
(***************************************************************************)
(* What becomes of the threads of a job that the user removes.             *)
(***************************************************************************)
EXTENDS JobProperties

VARIABLE late   \* history: the threads RemoveJob came too late, or too early, for

\* The threads that RemoveJob's signals do not reach: the pool threads that have read
\* a flag and have not entered the wait, and the job thread when it is stopped, since
\* nobody signals download_stop_cond.
JobThread == "job"
Missed == {w \in Workers : task[w].stage \in {"goPause", "goLimit"}}
            \cup {t \in {JobThread} : jpc \in {"goStop", "stopWait"}}

RemovalInit == Init /\ late = {}

RemovalNext == Next /\ late' = IF removed' # removed THEN Missed ELSE late

RemovalSpec == RemovalInit /\ [][RemovalNext]_<<vars, late>> /\ Fairness

\* The threads of a removed job end, all but the ones that RemoveJob missed: those
\* wait for ever, since a removed job is neither resumed nor visited by the collector.
RemovedEnds == removed ~> (jpc \in {"idle", "dead"} \/ ~up \/ late # {})

\* The job thread and a pool thread have a step to take.  The job thread's waits for the
\* pool are over when a thread is free, or all are; the one for the user throws in time.
Moves == \/ jpc \notin {"idle", "dead", "stopWait", "sockWait", "pool", "join"}
         \/ jpc = "pool" /\ Available
         \/ jpc = "join" /\ AllJoined
TaskMoves(w) == task[w].stage \notin {"idle", "pauseWait", "limitWait"}

\* What RemovedEnds rests on: after a removal that missed nobody, whatever fails, the job
\* has ended or one of its threads has a step to take, unless the job thread waits for a
\* peer that has a dead socket.  No thread comes to a wait that RemoveJob would have had
\* to signal once more.
RemovedMoves ==
    removed /\ late = {} /\ up /\ MaxConn >= Cardinality(Workers) =>
        \/ jpc \in {"idle", "dead"}
        \/ Moves \/ \E w \in Workers : TaskMoves(w)
        \/ jpc = "sockWait" /\ DeadSock(peer)
=============================================================================
