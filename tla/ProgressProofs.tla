--------------------------- MODULE ProgressProofs ---------------------------
(***************************************************************************)
(* What the tracker knows of a client is never too much and never goes     *)
(* back, for any number of jobs, chunks and failures and any period.       *)
(***************************************************************************)
EXTENDS ProgressReport, TLAPS

LEMMA DivBounds ==
    ASSUME NEW x \in Nat, NEW n \in Nat \ {0}
    PROVE  x \div n \in Nat /\ (x \div n) * n <= x /\ x < (x \div n + 1) * n
  OBVIOUS

LEMMA DivMonotone ==
    ASSUME NEW x \in Nat, NEW y \in Nat, NEW n \in Nat \ {0}, x <= y
    PROVE  x \div n <= y \div n
<1> DEFINE p == x \div n
           q == y \div n
<1>1. p \in Nat /\ q \in Nat /\ p * n <= x /\ y < (q + 1) * n
  BY DivBounds
<1> HIDE DEF p, q
<1>2. p * n < (q + 1) * n
  BY <1>1
<1>3. p < q + 1
  BY <1>1, <1>2
<1>4. QED
  BY <1>1, <1>3 DEF p, q

\* The percentage of a number of bits: it is one, it does not exceed the part of the
\* chunks that is there, and it grows with the bits.
LEMMA PercentBounds ==
    ASSUME NEW n \in 0..Chunks
    PROVE  Percent(n) \in 0..100 /\ Percent(n) * Chunks <= n * 100
<1> DEFINE p == Percent(n)
<1>1. Chunks \in Nat \ {0} /\ n \in Nat /\ n * 100 \in Nat /\ n * 100 <= Chunks * 100
  BY JobsAssumption
<1>2. p \in Nat /\ p * Chunks <= n * 100
  BY <1>1, DivBounds DEF Percent
<1> HIDE DEF p
<1>3. p * Chunks <= 100 * Chunks
  BY <1>1, <1>2
<1>4. p <= 100
  BY <1>1, <1>2, <1>3
<1>5. QED
  BY <1>2, <1>4 DEF p

LEMMA PercentGrows ==
    ASSUME NEW n \in 0..Chunks, NEW m \in 0..Chunks, n <= m
    PROVE  Percent(n) <= Percent(m)
<1>1. n * 100 \in Nat /\ m * 100 \in Nat /\ n * 100 <= m * 100 /\ Chunks \in Nat \ {0}
  BY JobsAssumption
<1>2. QED
  BY <1>1, DivMonotone DEF Percent
-----------------------------------------------------------------------------
\* No list, and not the tracker, says more of a job than its bitmap does.
Honest ==
    /\ \A e \in to_report : e.percentage <= Percent(count[e.job])
    /\ \A e \in sending : e.percentage <= Percent(count[e.job])
    /\ \A j \in Jobs : row[j] <= Percent(count[j])

\* The further a percentage is from the collector, the older it is; a list has one
\* entry for a job.
InOrder ==
    /\ \A e \in to_report, o \in to_report : e.job = o.job => e = o
    /\ \A e \in sending, o \in sending : e.job = o.job => e = o
    /\ \A e \in to_report : row[e.job] <= e.percentage
    /\ \A e \in sending : row[e.job] <= e.percentage
    /\ \A e \in sending, n \in to_report : e.job = n.job => e.percentage <= n.percentage

IInv == TypeOK /\ Honest /\ InOrder

LEMMA InitInv == Init => IInv
<1> SUFFICES ASSUME Init PROVE IInv
  OBVIOUS
<1>1. 0 \in 0..Chunks /\ report_period \in -1..report_period /\ 0 \in 0..MaxFaults
  BY JobsAssumption, BoundAssumption
<1>2. TypeOK /\ InOrder
  BY <1>1 DEF Init, TypeOK, InOrder, NoRow
<1>3. \A j \in Jobs : count[j] = 0 /\ row[j] = -1
  BY DEF Init, NoRow
<1>4. Percent(0) \in 0..100
  BY <1>1, PercentBounds
<1>5. Honest
  BY <1>3, <1>4 DEF Init, Honest
<1>6. QED
  BY <1>2, <1>5 DEF IInv

LEMMA JobInv == IInv /\ JobStep => IInv'
<1> SUFFICES ASSUME IInv, NEW i \in Jobs,
                    AddNewJob(i) \/ RemoveJob(i) \/ Run(i) \/ FinishChunk(i) \/ Return(i),
                    UNCHANGED <<time_to_next_report, to_report, signalling, routineVars,
                                exiting_, collecting>>
             PROVE  IInv'
  BY DEF JobStep
<1> USE DEF IInv
<1>a. listed' \subseteq Jobs /\ removed' \subseteq Jobs /\ running' \subseteq Jobs
  BY DEF TypeOK, AddNewJob, RemoveJob, Run, FinishChunk, Return
<1>b. count' = count \/ (count[i] < Chunks /\ count' = [count EXCEPT ![i] = @ + 1])
  BY DEF AddNewJob, RemoveJob, Run, FinishChunk, Return
<1>c. count \in [Jobs -> 0..Chunks] /\ Chunks \in Nat
  BY JobsAssumption DEF TypeOK
<1>d. count' \in [Jobs -> 0..Chunks]
  BY <1>b, <1>c
<1>1. TypeOK'
  BY <1>a, <1>d DEF TypeOK, routineVars
<1>2. \A j \in Jobs : count'[j] \in 0..Chunks /\ count[j] \in 0..Chunks /\ count[j] <= count'[j]
  BY <1>b, <1>c, <1>d
<1>3. \A j \in Jobs : /\ Percent(count[j]) <= Percent(count'[j])
                      /\ Percent(count[j]) \in Int /\ Percent(count'[j]) \in Int
  BY <1>2, PercentGrows, PercentBounds
<1>4. UNCHANGED <<to_report, sending, row>>
  BY DEF routineVars
<1>5. Honest'
  BY <1>3, <1>4 DEF Honest, TypeOK, NoRow
<1>6. InOrder'
  BY <1>4 DEF InOrder
<1>7. QED
  BY <1>1, <1>5, <1>6

LEMMA CollectorInv == IInv /\ onJobInfoCollectorWakeUp => IInv'
<1> SUFFICES ASSUME IInv, onJobInfoCollectorWakeUp PROVE IInv'
  OBVIOUS
<1> USE DEF IInv
<1>1. \A j \in Jobs : count[j] \in 0..Chunks /\ Percent(count[j]) \in 0..100
  BY PercentBounds DEF TypeOK
<1>2. UNCHANGED <<listed, removed, running, count, pc, sending, row, faults, exiting_, collecting>>
  BY DEF onJobInfoCollectorWakeUp, jobVars, routineVars
<1>3. \A e \in to_report' : /\ e \in [job : Jobs, percentage : 0..100]
                            /\ \/ to_report' = to_report
                               \/ e.percentage = Percent(count[e.job])
  BY <1>1 DEF onJobInfoCollectorWakeUp, ProgressInfo, TypeOK
<1>4. time_to_next_report' \in [Jobs -> -1..report_period]
  BY BoundAssumption DEF onJobInfoCollectorWakeUp, Countdown, Due, TypeOK
<1>5. TypeOK'
  BY <1>2, <1>3, <1>4 DEF TypeOK, onJobInfoCollectorWakeUp
<1>6. CASE to_report' = to_report
  BY <1>2, <1>5, <1>6 DEF Honest, InOrder
<1>7. CASE to_report' # to_report
  <2>1. \A e \in to_report' : /\ e.job \in Jobs /\ e.percentage = Percent(count[e.job])
                              /\ e = [job |-> e.job, percentage |-> e.percentage]
    BY <1>3, <1>7
  <2>2. Honest'
    BY <1>1, <1>2, <2>1 DEF Honest
  <2>3. InOrder'
    BY <1>1, <1>2, <2>1 DEF Honest, InOrder, TypeOK
  <2>4. QED
    BY <1>5, <2>2, <2>3
<1>8. QED
  BY <1>6, <1>7

LEMMA RoutineInv == IInv /\ ReportProgressRoutine => IInv' /\ \A j \in Jobs : row'[j] >= row[j]
<1> SUFFICES ASSUME IInv, ReportProgressRoutine
             PROVE  IInv' /\ \A j \in Jobs : row'[j] >= row[j]
  OBVIOUS
<1> USE DEF IInv
<1>1. \A j \in Jobs : row[j] \in Int /\ count[j] \in 0..Chunks /\ Percent(count[j]) \in Int
  BY PercentBounds DEF TypeOK, NoRow
<1>2. UNCHANGED <<listed, removed, running, count, time_to_next_report, signalling,
                  exiting_, collecting>>
  BY DEF ReportProgressRoutine, jobVars
<1>3. CASE Check \/ EnterWait \/ (Send /\ sending = {} /\ UNCHANGED row)
  <2>1. UNCHANGED <<to_report, row, faults>> /\ UNCHANGED sending
    BY <1>3 DEF Check, EnterWait, Send
  <2>2. TypeOK'
    BY <1>2, <1>3, <2>1 DEF TypeOK, Check, EnterWait, Send
  <2>3. QED
    BY <1>1, <1>2, <2>1, <2>2 DEF Honest, InOrder
<1>4. CASE Take
  <2>1. sending' = to_report /\ to_report' = {} /\ row' = row
    BY <1>4 DEF Take, TakeBack
  <2>2. TypeOK'
    BY <1>2, <1>4, <2>1 DEF TypeOK, Take
  <2>3. Honest' /\ InOrder'
    BY <1>2, <2>1 DEF Honest, InOrder
  <2>4. QED
    BY <1>1, <2>1, <2>2, <2>3
<1>5. ASSUME Send, NEW e \in sending, ReportProgress(e)
      PROVE  IInv' /\ \A j \in Jobs : row'[j] >= row[j]
  <2>1. /\ to_report' = to_report /\ sending' = sending \ {e}
        /\ row' = row \/ row' = [row EXCEPT ![e.job] = e.percentage]
    BY <1>5 DEF Send, ReportProgress, Stored
  <2>2. e.job \in Jobs /\ e.percentage \in 0..100 /\ row[e.job] <= e.percentage
    BY DEF TypeOK, InOrder
  <2>3. row' \in [Jobs -> {NoRow} \cup 0..100]
    BY <2>1, <2>2 DEF TypeOK
  <2>4. TypeOK'
    BY <1>2, <1>5, <2>1, <2>3, BoundAssumption DEF TypeOK, ReportProgress, Send, Fault
  <2>5. \A j \in Jobs : row'[j] = row[j] \/ (j = e.job /\ row'[j] = e.percentage)
    BY <2>1, <2>2 DEF TypeOK
  <2>6. Honest'
    BY <1>1, <1>2, <2>1, <2>2, <2>5 DEF Honest, TypeOK
  <2>7. InOrder'
    <3>1. \A n \in to_report : row'[n.job] <= n.percentage
      BY <2>1, <2>2, <2>5 DEF InOrder, TypeOK
    <3>2. \A n \in sending' : row'[n.job] <= n.percentage
      BY <2>1, <2>2, <2>5 DEF InOrder, TypeOK
    <3>3. QED
      BY <2>1, <3>1, <3>2 DEF InOrder
  <2>8. QED
    BY <1>1, <2>2, <2>4, <2>5, <2>6, <2>7
<1>6. QED
  BY <1>3, <1>4, <1>5 DEF ReportProgressRoutine, Send

LEMMA SignalInv == IInv /\ (Signal \/ uninitialize \/ UNCHANGED vars) => IInv' /\ UNCHANGED row
<1> SUFFICES ASSUME IInv, Signal \/ uninitialize \/ UNCHANGED vars PROVE IInv' /\ UNCHANGED row
  OBVIOUS
<1> USE DEF IInv, uninitialize
<1>1. UNCHANGED <<listed, removed, running, count, time_to_next_report, to_report, sending,
                  row, faults>>
  BY DEF Signal, Exit, JoinCollector, JoinRoutine, vars, jobVars, routineVars
<1>2. TypeOK'
  BY <1>1 DEF TypeOK, Signal, Exit, JoinCollector, JoinRoutine, Woken, vars, routineVars
<1>3. QED
  BY <1>1, <1>2 DEF Honest, InOrder

LEMMA StepInv == IInv /\ [Next]_vars => IInv' /\ \A j \in Jobs : row'[j] >= row[j]
<1> SUFFICES ASSUME IInv, [Next]_vars PROVE IInv' /\ \A j \in Jobs : row'[j] >= row[j]
  OBVIOUS
<1>1. \A j \in Jobs : row[j] \in Int
  BY DEF IInv, TypeOK, NoRow
<1>2. CASE JobStep
  BY <1>1, <1>2, JobInv DEF JobStep, routineVars
<1>3. CASE onJobInfoCollectorWakeUp
  BY <1>1, <1>3, CollectorInv DEF onJobInfoCollectorWakeUp, routineVars
<1>4. CASE ReportProgressRoutine
  BY <1>4, RoutineInv
<1>5. CASE Signal \/ uninitialize \/ UNCHANGED vars
  BY <1>1, <1>5, SignalInv
<1>6. QED
  BY <1>2, <1>3, <1>4, <1>5 DEF Next

LEMMA InvAlways == Spec => []IInv
<1>1. IInv /\ [Next]_vars => IInv'
  BY StepInv
<1>2. QED
  BY InitInv, <1>1, PTL DEF Spec
-----------------------------------------------------------------------------
\* Every variable keeps its type.
THEOREM TypeCorrect == Spec => []TypeOK
<1>1. IInv => TypeOK
  BY DEF IInv
<1>2. QED
  BY InvAlways, <1>1, PTL

\* The tracker never believes more of a client than it has.
THEOREM NeverAheadAlways == Spec => []NeverAhead
<1>1. IInv => NeverAhead
  <2> SUFFICES ASSUME IInv, NEW j \in Jobs PROVE row[j] * Chunks <= count[j] * 100
    BY DEF NeverAhead
  <2> DEFINE p == Percent(count[j])
  <2>1. /\ row[j] \in Int /\ count[j] \in 0..Chunks /\ row[j] <= p
        /\ Chunks \in Nat \ {0}
    BY JobsAssumption DEF IInv, TypeOK, Honest, NoRow
  <2>2. p \in 0..100 /\ p * Chunks <= count[j] * 100
    BY <2>1, PercentBounds
  <2> HIDE DEF p
  <2>3. row[j] * Chunks <= p * Chunks
    BY <2>1, <2>2
  <2>4. row[j] * Chunks \in Int /\ p * Chunks \in Int /\ count[j] * 100 \in Int
    BY <2>1, <2>2
  <2>5. QED
    BY <2>2, <2>3, <2>4
<1>2. QED
  BY InvAlways, <1>1, PTL

\* What the tracker knows of a client never goes back.
THEOREM NeverBackAlways == Spec => NeverBack
<1>1. IInv /\ [Next]_vars => [\A j \in Jobs : row'[j] >= row[j]]_vars
  BY StepInv
<1>2. QED
  BY InvAlways, <1>1, PTL DEF Spec, NeverBack
=============================================================================
