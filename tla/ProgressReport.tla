--------------------------- MODULE ProgressReport ---------------------------
(***************************************************************************)
(* How the tracker learns of a client's progress.  A timer thread runs the *)
(* collector every second, which counts down the seconds to the next       *)
(* report of each job and hands a list of percentages to the report        *)
(* routine.  The routine has a thread of its own and sends them, one       *)
(* request at a time.  The two share progress_info_to_report_ and a        *)
(* condition that is waited for under a mutex of the waiter's own.         *)
(*                                                                         *)
(* One file stands for the files of a job: a report puts an entry for each *)
(* of them into the same list.  Jobs of different torrents that contain    *)
(* the same file, whose reports share a row, are left out.                 *)
(*                                                                         *)
(* One life of the client, for whose jobs the tracker has no row yet.      *)
(* After a crash the tracker's row remains, and may be ahead of the bits   *)
(* that the client has saved.                                              *)
(***************************************************************************)
EXTENDS Integers, FiniteSets

CONSTANTS
    Jobs,           \* the handles of jobs
    Chunks,         \* the chunks of a job
    report_period,
    MaxFaults       \* bound: how often a report fails

ASSUME JobsAssumption  == Jobs \subseteq Nat /\ Chunks \in Nat \ {0}
ASSUME BoundAssumption == report_period \in Nat \ {0} /\ MaxFaults \in Nat

NoRow == -1

VARIABLES
    listed,         \* jobs_: the handles in the map
    removed,        \* removed_jobs_
    running,        \* Job::is_running_
    count,          \* DownloadInfo::bitmap_map: how many bits are set
    time_to_next_report,
    to_report,      \* progress_info_to_report_
    signalling,     \* the collector has yet to signal the routine
    pc,             \* where the report routine is
    sending,        \* its own list, without what it has sent
    exiting_,
    collecting,     \* the collector's timer has not been stopped
    row,            \* the tracker's percentage for each job, or NoRow
    faults

jobVars     == <<listed, removed, running, count>>
routineVars == <<pc, sending, row, faults>>
vars == <<jobVars, time_to_next_report, to_report, signalling, routineVars,
          exiting_, collecting>>

\* The collector truncates the percentage.
PercentUndivided(bits) == bits * 100
PercentWithNext(bits)  == ((bits + 1) * 100) \div Chunks
Percent(bits)          == (bits * 100) \div Chunks

ProgressInfo(j, bits) == [job |-> j, percentage |-> Percent(bits)]

Init ==
    /\ listed = {} /\ removed = {} /\ running = {} /\ count = [j \in Jobs |-> 0]
    /\ time_to_next_report = [j \in Jobs |-> report_period]
    /\ to_report = {} /\ signalling = FALSE
    /\ pc = "check" /\ sending = {}
    /\ exiting_ = FALSE /\ collecting = TRUE
    /\ row = [j \in Jobs |-> NoRow] /\ faults = 0
-----------------------------------------------------------------------------
(* Jobs.                                                                   *)

\* Job::run sets is_running_ first and clears it last.
Run(j) ==
    /\ j \in listed \ running /\ ~exiting_ /\ running' = running \cup {j}
    /\ UNCHANGED <<listed, removed, count>>

Return(j) ==
    /\ j \in running /\ running' = running \ {j} /\ UNCHANGED <<listed, removed, count>>

FinishChunk(j) ==
    /\ j \in running /\ count[j] < Chunks /\ count' = [count EXCEPT ![j] = @ + 1]
    /\ UNCHANGED <<listed, removed, running>>

\* Handles are never given twice.
AddNewJob(j) ==
    /\ j \in Jobs \ (listed \cup removed) /\ ~exiting_ /\ listed' = listed \cup {j}
    /\ UNCHANGED <<removed, running, count>>

RemoveJob(j) ==
    /\ j \in listed /\ ~exiting_
    /\ listed' = listed \ {j} /\ removed' = removed \cup {j}
    /\ UNCHANGED <<running, count>>

JobStep ==
    /\ \E j \in Jobs : \/ AddNewJob(j) \/ RemoveJob(j)
                       \/ Run(j) \/ FinishChunk(j) \/ Return(j)
    /\ UNCHANGED <<time_to_next_report, to_report, signalling, routineVars,
                   exiting_, collecting>>
-----------------------------------------------------------------------------
(* The collector.  Below zero a countdown goes on, and never comes back.   *)

Due(j) == j \in listed \cap running /\ time_to_next_report[j] = 1

\* Reset to the period when a report is due, and only then.
NoReset(j)   == IF time_to_next_report[j] < 0 THEN -1 ELSE time_to_next_report[j] - 1
Countdown(j) == IF Due(j) THEN report_period
                ELSE IF time_to_next_report[j] < 0 THEN -1 ELSE time_to_next_report[j] - 1

onJobInfoCollectorWakeUp ==
    /\ collecting /\ ~signalling
    /\ time_to_next_report' = [j \in Jobs |-> IF j \in listed THEN Countdown(j)
                                              ELSE time_to_next_report[j]]
    /\ IF \E j \in Jobs : Due(j)
       THEN /\ to_report' = {ProgressInfo(j, count[j]) : j \in {i \in Jobs : Due(i)}}
            /\ signalling' = TRUE
       ELSE UNCHANGED <<to_report, signalling>>
    /\ UNCHANGED <<jobVars, routineVars, exiting_, collecting>>

\* A signal reaches a thread that is in wait(), and no other.
Woken == IF pc = "wait" THEN "check" ELSE pc

Signal ==
    /\ signalling /\ signalling' = FALSE /\ pc' = Woken
    /\ UNCHANGED <<jobVars, time_to_next_report, to_report, sending, row, faults,
                   exiting_, collecting>>
-----------------------------------------------------------------------------
(* The report routine.                                                     *)

\* It looks at the size of the list and at exiting_ without a lock.
WaitsAnyway == to_report = {}
Waits       == to_report = {} /\ ~exiting_

Check ==
    /\ pc = "check"
    /\ pc' = IF Waits THEN "enter" ELSE IF exiting_ THEN "exited" ELSE "take"
    /\ UNCHANGED <<to_report, sending, row, faults>>

EnterWait ==
    /\ pc = "enter" /\ pc' = "wait" /\ UNCHANGED <<to_report, sending, row, faults>>

\* The swap with an empty list of its own.
TakeOldBack == {[job |-> j, percentage |-> row[j]] : j \in {i \in Jobs : row[i] # NoRow}}
TakeBack    == {}

Take ==
    /\ pc = "take" /\ pc' = "send"
    /\ sending' = to_report /\ to_report' = TakeBack
    /\ UNCHANGED <<row, faults>>

Fault == faults < MaxFaults /\ faults' = faults + 1

\* The list is in the order of the handles.
IsNext(e) == e \in sending /\ \A o \in sending : e.job <= o.job

Stored(e) == row' = [row EXCEPT ![e.job] = e.percentage]

\* The tracker stores the percentage and replies.  A request that cannot be sent
\* and a reply that cannot be used return an error, which is logged.  An exception
\* of the socket ends the thread, and a reply that never comes holds it, whether
\* the tracker has stored the percentage or not.
ReportProgress(e) ==
    /\ sending' = sending \ {e}
    /\ \/ Stored(e) /\ UNCHANGED <<pc, faults>>
       \/ Fault /\ UNCHANGED <<row, pc>>
       \/ Fault /\ pc' \in {"dead", "held"} /\ (Stored(e) \/ UNCHANGED row)

Send ==
    /\ pc = "send" /\ UNCHANGED to_report
    /\ \/ \E e \in sending : IsNext(e) /\ ReportProgress(e)
       \/ sending = {} /\ pc' = "check" /\ UNCHANGED <<sending, row, faults>>

ReportProgressRoutine ==
    /\ Check \/ EnterWait \/ Take \/ Send
    /\ UNCHANGED <<jobVars, time_to_next_report, signalling, exiting_, collecting>>
-----------------------------------------------------------------------------
(* uninitialize: after main, whatever the threads are doing.               *)

Exit ==
    /\ ~exiting_ /\ exiting_' = TRUE
    /\ UNCHANGED <<jobVars, time_to_next_report, to_report, signalling, routineVars,
                   collecting>>

\* The collector's thread is signalled until it has stopped its timer, which waits
\* for the callback.
JoinCollector ==
    /\ exiting_ /\ collecting /\ ~signalling /\ collecting' = FALSE
    /\ UNCHANGED <<jobVars, time_to_next_report, to_report, signalling, routineVars,
                   exiting_>>

\* Then the report routine is signalled, once a second, until it ends.
JoinRoutine ==
    /\ ~collecting /\ pc = "wait" /\ pc' = Woken
    /\ UNCHANGED <<jobVars, time_to_next_report, to_report, signalling, sending, row,
                   faults, exiting_, collecting>>

uninitialize == Exit \/ JoinCollector \/ JoinRoutine

Next ==
    \/ JobStep \/ onJobInfoCollectorWakeUp \/ Signal
    \/ ReportProgressRoutine \/ uninitialize

Spec == Init /\ [][Next]_vars

\* The timer goes off, threads run, and uninitialize repeats its signals; nothing
\* is assumed of jobs or of the user.
FairSpec ==
    /\ Spec
    /\ WF_vars(onJobInfoCollectorWakeUp) /\ WF_vars(Signal)
    /\ WF_vars(ReportProgressRoutine) /\ WF_vars(JoinCollector) /\ WF_vars(JoinRoutine)
-----------------------------------------------------------------------------
TypeOK ==
    /\ listed \subseteq Jobs /\ removed \subseteq Jobs /\ running \subseteq Jobs
    /\ count \in [Jobs -> 0..Chunks]
    /\ time_to_next_report \in [Jobs -> -1..report_period]
    /\ to_report \subseteq [job : Jobs, percentage : 0..100]
    /\ sending \subseteq [job : Jobs, percentage : 0..100]
    /\ pc \in {"check", "enter", "wait", "take", "send", "exited", "dead", "held"}
    /\ row \in [Jobs -> {NoRow} \cup 0..100] /\ faults \in 0..MaxFaults
    /\ signalling \in BOOLEAN /\ exiting_ \in BOOLEAN /\ collecting \in BOOLEAN

\* Within one life of the client, the tracker never believes more of it than it has: a
\* peer that is told of an owner at some percentage finds at least so much there.
NeverAhead == \A j \in Jobs : row[j] * Chunks <= count[j] * 100

\* Within one life of the client, what the tracker knows of it never goes back, although
\* two threads pass the lists and each may overtake the other.
NeverBack == [][\A j \in Jobs : row'[j] >= row[j]]_vars

\* When no report fails, a job that runs before its countdown has passed zero gets
\* every percentage it reaches to the tracker, unless it ends first: a lost signal of
\* reportProgressCond_ is made good by the next report.
ProgressArrives ==
    \A j \in Jobs, n \in 1..Chunks :
        (j \in listed \cap running /\ time_to_next_report[j] > 0 /\ count[j] >= n)
        ~> (row[j] >= Percent(n) \/ j \notin listed \cap running \/ exiting_ \/ faults > 0)

\* The process can exit: the report routine ends whatever it was doing, unless a
\* reply never comes.
RoutineEnds == exiting_ ~> pc \in {"exited", "dead", "held"}
=============================================================================
