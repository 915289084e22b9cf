------------------------- MODULE PipelineRunsProofs -------------------------
(***************************************************************************)
(* Theorems about PipelineRuns, for any number of threads, calls, crashes  *)
(* and uploaded contents.                                                  *)
(***************************************************************************)
EXTENDS PipelineRuns, TLAPS

InRun == Body \cup {"adopt", "clear", "release"}

\* What the threads may be doing in each phase of the process.
PhaseInv ==
    /\ phase = "down" => \A t \in Threads : pc[t] = "idle"
    /\ phase = "starting" =>
          /\ \A t \in Threads \ {Startup} : pc[t] = "idle"
          /\ pc[Startup] \in HoldsPipe \cup {"boot", "elect", "pipe"}
    /\ phase = "serving" =>
          \A t \in Threads : pc[t] \notin {"boot", "hydrate", "unboot"}

\* The pipeline lock is held exactly where the code stands between its
\* acquire and its release; during start-up that includes a nested election.
Holds(t) == \/ pc[t] \in HoldsPipe
            \/ phase = "starting" /\ pc[t] \in {"elect", "pipe"}

PipeInv ==
    /\ \A t \in Threads : pipeLock = t <=> Holds(t)
    /\ pipeDepth = IF pipeLock = NoThread THEN 0
                   ELSE IF phase = "starting" /\ pc[pipeLock] \in InRun THEN 2
                   ELSE 1

\* The state lock is held exactly during an election that found no run.
StateInv == \A t \in Threads : stateLock = t <=> pc[t] \in {"pipe", "adopt"}

Begun(r) == r \in RunIds /\ runs[r] \in {"running"} \cup Terminal

\* A thread that refers to a run, and the active id, refer to one that was
\* begun; nothing is active outside a run while the process starts.
BegunInv ==
    /\ active # NoRun => Begun(active)
    /\ phase = "down" => active = NoRun
    /\ phase = "starting" /\ active # NoRun => pc[Startup] \in Body \cup {"clear"}
    /\ \A t \in Threads :
          /\ pc[t] \in Body => run[t] \in RunIds /\ runs[run[t]] = "running"
          /\ pc[t] \in {"clear", "release", "busy"} => Begun(run[t])

\* A run that may still be ingested has not been.
OnceInv ==
    /\ \A r \in RunIds :
          /\ runs[r] \in {"absent", "queued"} => ingestions[r] = 0
          /\ ingestions[r] <= 1
    /\ \A t \in Threads : pc[t] = "ingest" => ingestions[run[t]] = 0

\* An election in progress saw no active run, and none appears under it.
ElectInv ==
    /\ OneElectedWriter
    /\ \A t \in Threads : pc[t] \in {"pipe", "adopt"} => active = NoRun

IndInv ==
    /\ TypeOK /\ PhaseInv /\ PipeInv /\ StateInv
    /\ BegunInv /\ OnceInv /\ ElectInv

LEMMA StepInv ==
    ASSUME IndInv, [Next]_vars PROVE IndInv'
<1> USE ThreadsAssumption, RunsAssumption, BoundsAssumption
    DEF IndInv, TypeOK, PhaseInv, PipeInv, Holds, InRun, StateInv,
        OneElectedWriter, ElectInv, BegunInv, Begun, OnceInv, Body, HoldsPipe, Places, RunIds,
        Terminal, Statuses, locks, local, durable, observed
<1>1. CASE Start
    BY <1>1 DEF Start, Goto
<1>2. CASE Boot
    BY <1>2 DEF Boot, AcquirePipe, PipeFree, Goto
<1>3. CASE HydrateInline
    BY <1>3 DEF HydrateInline, Goto
<1>4. CASE HydrateSeed
    BY <1>4 DEF HydrateSeed, Enter, Goto
<1>5. CASE Unboot
    BY <1>5 DEF Unboot, ReleasePipe, Goto
<1>6. CASE Crash
    BY <1>6 DEF Crash
<1>7. CASE OperatorRepair
    BY <1>7 DEF OperatorRepair, Stopped, RepairStatus
<1>8. ASSUME NEW t \in Threads, CallCoalescing(t) PROVE IndInv'
    BY <1>8 DEF CallCoalescing, Serving, Enter, Goto
<1>9. ASSUME NEW t \in Threads, CallImport(t) PROVE IndInv'
    BY <1>9 DEF CallImport, Serving, Enter, Goto
<1>10. ASSUME NEW t \in Threads, Deliver(t) PROVE IndInv'
    BY <1>10 DEF Deliver, Goto
<1>11. ASSUME NEW t \in Threads, ElectBusy(t) PROVE IndInv'
    BY <1>11 DEF ElectBusy, Goto
<1>12. ASSUME NEW t \in Threads, ElectFree(t) PROVE IndInv'
    BY <1>12 DEF ElectFree, Goto
<1>13. ASSUME NEW t \in Threads, TakePipe(t) PROVE IndInv'
    BY <1>13 DEF TakePipe, AcquirePipe, PipeFree, Goto
<1>14. ASSUME NEW t \in Threads, AdoptFresh(t) PROVE IndInv'
    BY <1>14 DEF AdoptFresh, Fresh, Elected, Goto
<1>15. ASSUME NEW t \in Threads, AdoptQueued(t) PROVE IndInv'
    BY <1>15 DEF AdoptQueued, StillQueued, Elected, Goto
<1>16. ASSUME NEW t \in Threads, AdoptExisting(t) PROVE IndInv'
    BY <1>16 DEF AdoptExisting, StillQueued, ReleasePipe, Return, Goto
<1>17. ASSUME NEW t \in Threads, AdoptFails(t) PROVE IndInv'
    BY <1>17 DEF AdoptFails, ReleasePipe, Return, Goto
<1>18. ASSUME NEW t \in Threads, AnswerBusy(t) PROVE IndInv'
  <2>1. Return(t, runs[run[t]])
    BY <1>18 DEF AnswerBusy
  <2>2. run[t] \in RunIds /\ runs[run[t]] \in Statuses
    BY <1>18 DEF AnswerBusy
  <2>3. phase = "serving"
    BY <1>18 DEF AnswerBusy
  <2>4. pc' = [pc EXCEPT ![t] = "answer"]
    BY <2>1, <2>3 DEF Return, Goto
  <2>5. TypeOK'
    BY <1>18, <2>1, <2>2, <2>4 DEF AnswerBusy, Return
  <2>6. PhaseInv' /\ PipeInv' /\ StateInv'
    BY <1>18, <2>3, <2>4 DEF AnswerBusy
  <2>7. ElectInv' /\ BegunInv' /\ OnceInv'
    BY <1>18, <2>4 DEF AnswerBusy
  <2> QED
    BY <2>5, <2>6, <2>7
<1>19. ASSUME NEW t \in Threads, WaitBusy(t) PROVE IndInv'
    BY <1>19 DEF WaitBusy, Goto
<1>20. ASSUME NEW t \in Threads, BusyFails(t) PROVE IndInv'
    BY <1>20 DEF BusyFails, Return, Goto
<1>21. ASSUME NEW t \in Threads, Await(t) PROVE IndInv'
    BY <1>21 DEF Await, Goto
<1>22. ASSUME NEW t \in Threads, Ingest(t) PROVE IndInv'
  <2>1. TypeOK'
    <3>1. \/ verdict' = verdict
          \/ \E v \in Terminal : verdict' = [verdict EXCEPT ![t] = v]
      BY <1>22 DEF Ingest
    <3>2. verdict' \in [Threads -> Terminal]
      <4>1. verdict \in [Threads -> Terminal]
        OBVIOUS
      <4> QED
        BY ONLY <3>1, <4>1
    <3>3. run[t] \in RunIds /\ fileOf[run[t]] \in Files \cup {NoFile}
      BY <1>22 DEF Ingest
    <3>4. imported' \in SUBSET (Files \ Generic)
      <4>1. PICK clean \in BOOLEAN : imported' \in HistoryAfter(run[t], clean)
        BY <1>22 DEF Ingest
      <4>2. imported \in SUBSET (Files \ Generic)
        OBVIOUS
      <4> QED
        BY ONLY <3>3, <4>1, <4>2 DEF HistoryAfter, Registered, Scanned
    <3>5. PICK place \in {"classify", "fail"} : Goto(t, place)
      BY <1>22 DEF Ingest
    <3> QED
      BY <1>22, <3>2, <3>4, <3>5 DEF Ingest, Goto
  <2>2. /\ UNCHANGED <<phase, locks, coalesce, req, run, resp, runs, fileOf, calls, crashes>>
        /\ pc[t] = "ingest"
        /\ pc' = [pc EXCEPT ![t] = "classify"] \/ pc' = [pc EXCEPT ![t] = "fail"]
        /\ ingestions' = [ingestions EXCEPT ![run[t]] = @ + 1]
    BY <1>22 DEF Ingest, Goto
  <2>3. PhaseInv' /\ PipeInv' /\ StateInv'
    BY <2>2
  <2>4. ElectInv'
    BY <2>2
  <2>5. BegunInv'
    BY <2>2
  <2>6. OnceInv'
    BY <2>2
  <2> QED
    BY <2>1, <2>3, <2>4, <2>5, <2>6
<1>23. ASSUME NEW t \in Threads, Classify(t) PROVE IndInv'
  <2>1. verdict' \in [Threads -> Terminal]
    <3>1. \/ verdict' = verdict
          \/ \E v \in Terminal : verdict' = [verdict EXCEPT ![t] = v]
      BY <1>23 DEF Classify
    <3>2. verdict \in [Threads -> Terminal]
      OBVIOUS
    <3> QED
      BY ONLY <3>1, <3>2
  <2>2. PICK place \in {"publish", "fail"} : Goto(t, place)
    BY <1>23 DEF Classify
  <2>3. TypeOK' /\ PhaseInv' /\ PipeInv' /\ StateInv'
    BY <1>23, <2>1, <2>2 DEF Classify, Goto
  <2>4. ElectInv' /\ BegunInv' /\ OnceInv'
    BY <1>23, <2>2 DEF Classify, Goto
  <2> QED
    BY <2>3, <2>4
<1>24. ASSUME NEW t \in Threads, Publish(t) PROVE IndInv'
  <2>1. TypeOK'
    BY <1>24 DEF Publish, Goto
  <2>2. PhaseInv' /\ PipeInv' /\ StateInv'
    BY <1>24 DEF Publish, Goto
  <2>3. ElectInv'
    BY <1>24 DEF Publish, Goto
  <2>4. BegunInv'
    BY <1>24 DEF Publish, Goto
  <2>5. OnceInv'
    <3>1. run[t] \in RunIds /\ runs[run[t]] = "running" /\ verdict[t] \in Terminal
      BY <1>24 DEF Publish
    <3>2. \A r \in RunIds : runs'[r] \in {"absent", "queued"} => runs[r] = runs'[r]
      BY <1>24, <3>1 DEF Publish
    <3> QED
      BY <1>24, <3>2 DEF Publish, Goto
  <2> QED
    BY <2>1, <2>2, <2>3, <2>4, <2>5
<1>25. ASSUME NEW t \in Threads, PublishFails(t) PROVE IndInv'
    BY <1>25 DEF PublishFails, Goto
<1>26. ASSUME NEW t \in Threads, RecordFailure(t) PROVE IndInv'
    BY <1>26 DEF RecordFailure, Goto
<1>27. ASSUME NEW t \in Threads, RecordRaises(t) PROVE IndInv'
    BY <1>27 DEF RecordRaises, Goto
<1>28. ASSUME NEW t \in Threads, Clear(t) PROVE IndInv'
    BY <1>28 DEF Clear, Goto
<1>29. ASSUME NEW t \in Threads, Release(t) PROVE IndInv'
  <2>1. PICK answer \in Answers(run[t]) :
           Return(t, IF resp[t] = "error" THEN "error" ELSE answer)
    BY <1>29 DEF Release
  <2>2. run[t] \in RunIds /\ answer \in Statuses \cup {"error"}
    BY <1>29, <2>1 DEF Release, Answers
  <2>3. pc' = [pc EXCEPT ![t] = IF phase = "starting" THEN "unboot" ELSE "answer"]
    BY <2>1 DEF Return, Goto
  <2>4. resp' \in [Threads -> Statuses \cup {"error"}]
    BY <2>1, <2>2 DEF Return
  <2>5. TypeOK'
    <3>1. pipeLock = t /\ pipeDepth \in 1..2
      BY <1>29 DEF Release
    <3>2. pipeLock' \in Threads \cup {NoThread} /\ pipeDepth' \in 0..2
      BY <1>29, <3>1 DEF Release, ReleasePipe
    <3>3. pc' \in [Threads -> Places]
      BY <2>3
    <3> QED
      BY <1>29, <2>4, <3>2, <3>3 DEF Release
  <2>6. PhaseInv' /\ PipeInv' /\ StateInv'
    BY <1>29, <2>3 DEF Release, ReleasePipe
  <2>7. ElectInv' /\ BegunInv' /\ OnceInv'
    BY <1>29, <2>3 DEF Release
  <2> QED
    BY <2>5, <2>6, <2>7
<1>30. ASSUME NEW t \in Threads, NEW r \in RunIds, NEW f \in Files,
           QueueImport(t, r, f)
    PROVE  IndInv'
  <2>1. TypeOK' /\ PhaseInv'
    BY <1>30 DEF QueueImport, Queue, Fresh, Serving, Enter, Goto
  <2>2. PipeInv' /\ StateInv' /\ ElectInv'
    BY <1>30 DEF QueueImport, Queue, Fresh, Serving, Enter, Goto
  <2>3. BegunInv' /\ OnceInv'
    BY <1>30 DEF QueueImport, Queue, Fresh, Serving, Enter, Goto
  <2> QED
    BY <2>1, <2>2, <2>3
<1>31. ASSUME NEW t \in Threads, NEW r \in RunIds, NEW f \in Files,
           QueueImportFails(t, r, f)
    PROVE  IndInv'
  <2>1. TypeOK' /\ PhaseInv'
    BY <1>31 DEF QueueImportFails, Queue, Fresh, Serving, Enter, Goto
  <2>2. PipeInv' /\ StateInv' /\ ElectInv'
    BY <1>31 DEF QueueImportFails, Queue, Fresh, Serving, Enter, Goto
  <2>3. BegunInv' /\ OnceInv'
    BY <1>31 DEF QueueImportFails, Queue, Fresh, Serving, Enter, Goto
  <2> QED
    BY <2>1, <2>2, <2>3
<1>32. ASSUME NEW t \in Threads, NEW r \in RunIds, Reexecute(t, r)
    PROVE  IndInv'
  <2>1. TypeOK' /\ PhaseInv'
    BY <1>32 DEF Reexecute, Serving, Enter, Goto
  <2>2. PipeInv' /\ StateInv' /\ ElectInv'
    BY <1>32 DEF Reexecute, Serving, Enter, Goto
  <2>3. BegunInv' /\ OnceInv'
    BY <1>32 DEF Reexecute, Serving, Enter, Goto
  <2> QED
    BY <2>1, <2>2, <2>3
<1>33. CASE UNCHANGED vars
    BY <1>33 DEF vars
<1> QED
    BY <1>1, <1>2, <1>3, <1>4, <1>5, <1>6, <1>7, <1>8, <1>9, <1>10, <1>11, <1>12, <1>13, <1>14, <1>15, <1>16, <1>17, <1>18, <1>19, <1>20, <1>21, <1>22, <1>23, <1>24, <1>25, <1>26, <1>27, <1>28, <1>29, <1>30, <1>31, <1>32, <1>33
    DEF Next, StartUp, Call, Step, Elect, Execute, Done

LEMMA InitInv == Init => IndInv
<1> USE ThreadsAssumption, RunsAssumption, FilesAssumption, BoundsAssumption
<1> SUFFICES ASSUME Init PROVE IndInv
    OBVIOUS
<1>1. TypeOK
    BY DEF Init, TypeOK, Places, HoldsPipe, Body, Statuses, Terminal, RunIds
<1>2. PhaseInv /\ PipeInv /\ StateInv /\ ElectInv
    BY DEF Init, PhaseInv, PipeInv, Holds, StateInv, OneElectedWriter, ElectInv,
           HoldsPipe, Body
<1>3. BegunInv /\ OnceInv
    BY DEF Init, BegunInv, OnceInv, Body
<1> QED
    BY <1>1, <1>2, <1>3 DEF IndInv

THEOREM Invariance == Spec => []IndInv
<1>1. Init => IndInv
    BY InitInv
<1>2. IndInv /\ [Next]_vars => IndInv'
    BY StepInv
<1> QED
    BY <1>1, <1>2, PTL DEF Spec

\* Every variable keeps its type, whatever statements raise or processes die.
THEOREM TypeCorrect == Spec => []TypeOK
<1>1. IndInv => TypeOK
    BY DEF IndInv
<1> QED
    BY <1>1, Invariance, PTL

\* The election of _execute_pipeline: the threads inside a pipeline are
\* exactly the one that holds the pipeline lock and owns the active id.
THEOREM ElectionIsExclusive == Spec => []OneElectedWriter
<1>1. IndInv => OneElectedWriter
    BY DEF IndInv, ElectInv
<1> QED
    BY <1>1, Invariance, PTL

\* "One serialized database writer per process": two threads never are in
\* the body of a pipeline, or in start-up hydration, at the same time, even
\* when the active id is lost.
THEOREM WritersAreSerialized == Spec => []SingleWriter
<1>1. IndInv => SingleWriter
    BY DEF IndInv, PipeInv, Holds, HoldsPipe, Body, SingleWriter
<1> QED
    BY <1>1, Invariance, PTL

\* The opposite lock orders of an election and of the end of a run never
\* close a cycle: an election waits for the pipeline lock only while no run
\* is active, and the holder then is not about to take the state lock.
THEOREM LocksAreAcyclic == Spec => []NoCircularWait
<1>1. IndInv => NoCircularWait
    BY ThreadsAssumption DEF IndInv, PhaseInv, PipeInv, Holds, HoldsPipe, Body, StateInv,
       OneElectedWriter, ElectInv, NoCircularWait
<1> QED
    BY <1>1, Invariance, PTL

\* "Adopt one durable queued run and execute its upload exactly once".
THEOREM UploadsRunOnce == Spec => []IngestedAtMostOnce
<1>1. IndInv => IngestedAtMostOnce
    BY DEF IndInv, OnceInv, IngestedAtMostOnce
<1> QED
    BY <1>1, Invariance, PTL

\* A busy caller is answered with a run that was begun.
THEOREM BusyAnswersAreBegun == Spec => []CoalescedRunHasBegun
<1>1. IndInv => CoalescedRunHasBegun
    BY DEF IndInv, BegunInv, Begun, CoalescedRunHasBegun
<1> QED
    BY <1>1, Invariance, PTL

\* What a step does to the ledger's two variables, action by action.
LEMMA QuietSteps ==
    ASSUME NEW t \in Threads,
           \/ StartUp \/ Done
           \/ CallCoalescing(t) \/ CallImport(t)
           \/ \E r \in RunIds : Reexecute(t, r)
           \/ ElectBusy(t) \/ ElectFree(t) \/ TakePipe(t)
           \/ AdoptExisting(t) \/ AdoptFails(t)
           \/ AnswerBusy(t) \/ WaitBusy(t) \/ BusyFails(t) \/ Await(t)
           \/ Ingest(t) \/ Classify(t) \/ PublishFails(t) \/ RecordRaises(t)
           \/ Release(t) \/ Deliver(t)
    PROVE  UNCHANGED <<runs, active>>
BY DEF StartUp, Start, Boot, HydrateInline, HydrateSeed, Unboot, Done,
       CallCoalescing, CallImport, Reexecute, ElectBusy, ElectFree, TakePipe,
       AdoptExisting, AdoptFails, AnswerBusy, WaitBusy, BusyFails, Await,
       Ingest, Classify, PublishFails, RecordRaises, Release, Deliver,
       vars, locks, local, durable, observed

\* The run of a thread inside a pipeline is running.
LEMMA OwnedRun ==
    ASSUME IndInv, NEW t \in Threads, pc[t] \in Body
    PROVE  run[t] \in RunIds /\ runs[run[t]] = "running"
BY DEF IndInv, BegunInv

Forward ==
    \A r \in RunIds :
        \/ runs'[r] = runs[r]
        \/ runs[r] = "absent"
        \/ runs[r] = "queued" /\ runs'[r] = "running"
        \/ runs[r] = "running" /\ runs'[r] \in Terminal

LEMMA ForwardStep == IndInv /\ [Next]_vars => [Forward]_runs
<1> SUFFICES ASSUME IndInv, Next, runs' # runs PROVE Forward
  BY DEF vars, durable
<1> USE DEF Forward
<1>1. runs \in [RunIds -> Statuses]
  BY DEF IndInv, TypeOK
<1>2. CASE Crash
  BY <1>2 DEF Crash, durable
<1>3. CASE OperatorRepair
  BY <1>1, <1>3 DEF OperatorRepair, RepairStatus, Terminal
<1>4. ASSUME NEW t \in Threads, NEW r \in RunIds, NEW f \in Files,
             QueueImport(t, r, f) \/ QueueImportFails(t, r, f)
      PROVE  Forward
  BY <1>1, <1>4 DEF QueueImport, QueueImportFails, Queue, Fresh
<1>5. ASSUME NEW t \in Threads, AdoptFresh(t) PROVE Forward
  BY <1>1, <1>5 DEF AdoptFresh, Fresh, Elected
<1>6. ASSUME NEW t \in Threads, AdoptQueued(t) PROVE Forward
  BY <1>1, <1>6 DEF AdoptQueued, StillQueued, Elected
<1>7. ASSUME NEW t \in Threads, Publish(t) PROVE Forward
  <2>1. runs[run[t]] = "running" /\ verdict[t] \in Terminal
    BY <1>7, OwnedRun DEF Publish, Body, IndInv, TypeOK
  <2> QED
    BY <1>1, <1>7, <2>1 DEF Publish
<1>8. ASSUME NEW t \in Threads, RecordFailure(t) PROVE Forward
  <2>1. runs[run[t]] = "running"
    BY <1>8, OwnedRun DEF RecordFailure, Body
  <2> QED
    BY <1>1, <1>8, <2>1 DEF RecordFailure, Terminal
<1>9. ASSUME NEW t \in Threads, Clear(t) PROVE Forward
  BY <1>9 DEF Clear, durable
<1> QED
  BY QuietSteps, ThreadsAssumption, <1>2, <1>3, <1>4, <1>5, <1>6, <1>7, <1>8, <1>9
  DEF Next, Call, Step, Elect, Execute

\* Pollers of a run see its status move forward only, and settle once.
THEOREM RunsOnlyMoveForward == Spec => RunsMoveForward
<1>1. IndInv /\ [Next]_vars => [Forward]_runs
    BY ForwardStep
<1> QED
  BY <1>1, Invariance, PTL DEF Spec, RunsMoveForward, Forward

\* The ledger step that each step of the service implements.
LEMMA LedgerStep ==
    ASSUME IndInv, [Next]_vars
    PROVE  [Ledger!LedgerNext]_(Ledger!ledgerVars)
<1> SUFFICES ASSUME Next,  ~(UNCHANGED <<runs, LiveRun>>)
             PROVE  Ledger!LedgerNext
    BY DEF vars, durable, locks, LiveRun, Ledger!ledgerVars
<1> USE DEF Ledger!LedgerNext, Ledger!RunIds, RunIds
<1>1. runs \in [RunIds -> Statuses]
    BY DEF IndInv, TypeOK
<1>2. CASE Crash
  <2>1. Ledger!Lose
    BY <1>2 DEF Crash, durable, LiveRun, Ledger!Lose
  <2> QED
    BY <2>1
<1>3. CASE OperatorRepair
  <2>1. active = NoRun
    BY <1>3 DEF OperatorRepair, Stopped, IndInv, BegunInv
  <2>2. Ledger!Repair
    BY <1>3, <2>1 DEF OperatorRepair, RepairStatus, locks, LiveRun, Ledger!Repair
  <2> QED
    BY <2>2
<1>4. ASSUME NEW t \in Threads, NEW r \in RunIds, NEW f \in Files,
             QueueImport(t, r, f) \/ QueueImportFails(t, r, f)
      PROVE  Ledger!LedgerNext
  <2>1. runs[r] = "absent" /\ runs' = [runs EXCEPT ![r] = "queued"] /\ active' = active
    BY <1>4 DEF QueueImport, QueueImportFails, Queue, Fresh, locks
  <2>2. active # NoRun => active \in RunIds /\ runs[active] # "absent"
    BY DEF IndInv, BegunInv, Begun, Terminal
  <2>3. Ledger!Accept(r)
    BY <1>1, <2>1, <2>2 DEF LiveRun, Ledger!Accept
  <2> QED
    BY <2>3
<1>5. ASSUME NEW t \in Threads, AdoptFresh(t) \/ AdoptQueued(t)
      PROVE  Ledger!LedgerNext
  <2>1. active = NoRun
    BY <1>5 DEF AdoptFresh, AdoptQueued, IndInv, ElectInv
  <2>2. PICK r \in RunIds : Elected(t, r) /\ runs[r] \in {"absent", "queued"}
    BY <1>5 DEF AdoptFresh, AdoptQueued, Fresh, StillQueued, IndInv, TypeOK
  <2>3. Ledger!Begin(r)
    BY <1>1, <2>1, <2>2, RunsAssumption DEF Elected, LiveRun, Ledger!Begin
  <2> QED
    BY <2>3
<1>6. ASSUME NEW t \in Threads, Publish(t) \/ RecordFailure(t)
      PROVE  Ledger!LedgerNext
  <2>1. active = run[t] /\ run[t] \in RunIds /\ active # NoRun
        /\ runs[run[t]] = "running" /\ active' = active
    BY <1>6, OwnedRun DEF Publish, RecordFailure, Body, locks, IndInv, ElectInv,
       OneElectedWriter
  <2>2. PICK status \in Terminal : runs' = [runs EXCEPT ![run[t]] = status]
    BY <1>6 DEF Publish, RecordFailure, IndInv, TypeOK, Terminal
  <2>3. Ledger!Settle(run[t], status)
    BY <1>1, <2>1, <2>2 DEF LiveRun, Terminal, Ledger!Settle
  <2> QED
    BY <2>1, <2>2, <2>3 DEF Terminal, Ledger!Terminal
<1>7. ASSUME NEW t \in Threads, Clear(t) PROVE Ledger!LedgerNext
  <2>1. Ledger!Lose
    BY <1>7 DEF Clear, durable, LiveRun, Ledger!Lose
  <2> QED
    BY <2>1
<1>8. ASSUME UNCHANGED <<runs, active>> PROVE FALSE
    BY <1>8 DEF LiveRun
<1> QED
    BY QuietSteps, ThreadsAssumption, <1>2, <1>3, <1>4, <1>5, <1>6, <1>7, <1>8
    DEF Next, Call, Step, Elect, Execute

\* The locks, threads and uploads implement the abstract run ledger.
THEOREM LedgerImplemented == Spec => ImplementsLedger
<1>1. Init => Ledger!LedgerInit
    BY DEF Init, LiveRun, RunIds, Ledger!LedgerInit, Ledger!RunIds
<1>2. IndInv /\ [Next]_vars => [Ledger!LedgerNext]_(Ledger!ledgerVars)
    BY LedgerStep
<1> QED
    BY <1>1, <1>2, Invariance, PTL
    DEF Spec, ImplementsLedger, Ledger!LedgerSpec

\* While nothing is lost, the running runs are those that threads execute.
OwnedInv == ~Faults /\ crashes = 0 => NoOrphans

\* A thread that goes on executing keeps its run from being an orphan.
LEMMA StillExecuted ==
    ASSUME IndInv, NoOrphans, runs' = runs,
           \A t \in Threads : pc[t] \in Body => pc'[t] \in Body /\ run'[t] = run[t]
    PROVE  NoOrphans'
BY DEF NoOrphans, Orphan, Executing

LEMMA OwnedStep ==
    ASSUME IndInv, OwnedInv, [Next]_vars PROVE OwnedInv'
<1> SUFFICES ASSUME ~Faults, crashes' = 0 PROVE NoOrphans'
    BY DEF OwnedInv
<1>1. CASE Crash
    BY <1>1 DEF Crash, IndInv, TypeOK
<1>2. ASSUME ~Crash PROVE UNCHANGED crashes
    BY <1>2 DEF Next, StartUp, Start, Boot, HydrateInline, HydrateSeed, Unboot, Done,
       OperatorRepair, Call, CallCoalescing, CallImport, Reexecute, QueueImport,
       QueueImportFails, Step, Elect, ElectBusy, ElectFree, TakePipe, AdoptFresh, AdoptQueued,
       AdoptExisting, AdoptFails, AnswerBusy, WaitBusy, BusyFails, Await,
       Execute, Ingest, Classify, Publish, PublishFails, RecordFailure, RecordRaises, Clear,
       Release, Deliver, vars, observed
<1> SUFFICES ASSUME ~Crash, NoOrphans PROVE NoOrphans'
    BY <1>1, <1>2 DEF OwnedInv
<1> USE ThreadsAssumption, RunsAssumption
<1>t. /\ pc \in [Threads -> Places] /\ run \in [Threads -> RunIds \cup {NoRun}]
      /\ runs \in [RunIds -> Statuses]
    BY DEF IndInv, TypeOK
<1>3. CASE StartUp
    BY <1>3, <1>t, StillExecuted DEF StartUp, Start, Boot, HydrateInline, HydrateSeed, Unboot,
       Enter, Goto, durable, Body, IndInv, PhaseInv
<1>4. CASE OperatorRepair
    BY <1>4, <1>t DEF OperatorRepair, RepairStatus, NoOrphans, Orphan
<1>5. ASSUME NEW t \in Threads, CallCoalescing(t) \/ CallImport(t) \/ Deliver(t) PROVE NoOrphans'
    BY <1>5, <1>t, StillExecuted DEF CallCoalescing, CallImport, Deliver, Serving,
       Enter, Goto, durable, Body
<1>6. ASSUME NEW t \in Threads, NEW r \in RunIds, Reexecute(t, r) PROVE NoOrphans'
    BY <1>6, <1>t, StillExecuted DEF Reexecute, Serving, Enter, Goto, durable, Body
<1>7. ASSUME NEW t \in Threads, NEW r \in RunIds, NEW f \in Files,
             QueueImport(t, r, f) \/ QueueImportFails(t, r, f)
      PROVE  NoOrphans'
  <2>1. /\ runs' = [runs EXCEPT ![r] = "queued"] /\ run' = run
        /\ \A u \in Threads : pc[u] \in Body => pc'[u] = pc[u]
    BY <1>7, <1>t DEF QueueImport, QueueImportFails, Queue, Serving, Enter, Goto, local, Body
  <2> QED
    BY <2>1, <1>t DEF NoOrphans, Orphan, Executing
<1>8. ASSUME NEW t \in Threads,
             ElectBusy(t) \/ ElectFree(t) \/ TakePipe(t) \/ AdoptExisting(t) \/ AdoptFails(t)
             \/ AnswerBusy(t) \/ WaitBusy(t) \/ BusyFails(t) \/ Await(t) \/ Release(t)
      PROVE  NoOrphans'
  <2>1. runs' = runs
    BY <1>8, QuietSteps
  <2>2. pc[t] \notin Body /\ \E place : Goto(t, place)
    BY <1>8 DEF ElectBusy, ElectFree, TakePipe, AdoptExisting, AdoptFails, AnswerBusy,
       WaitBusy, BusyFails, Await, Release, Return, Body
  <2>3. \A u \in Threads \ {t} : run'[u] = run[u]
    BY <1>8, <1>t DEF ElectBusy, ElectFree, TakePipe, AdoptExisting, AdoptFails, AnswerBusy,
       WaitBusy, BusyFails, Await, Release
  <2> QED
    BY <2>1, <2>2, <2>3, <1>t, StillExecuted DEF Goto
<1>9. ASSUME NEW t \in Threads, AdoptFresh(t) \/ AdoptQueued(t) PROVE NoOrphans'
  <2>1. PICK r \in RunIds : Elected(t, r)
    BY <1>9 DEF AdoptFresh, AdoptQueued, IndInv, TypeOK
  <2>2. pc[t] \notin Body
    BY <1>9 DEF AdoptFresh, AdoptQueued, Body
  <2> QED
    BY <2>1, <2>2, <1>t DEF Elected, Goto, NoOrphans, Orphan, Executing, Body
<1>10. ASSUME NEW t \in Threads, Ingest(t) \/ Classify(t) \/ PublishFails(t) PROVE NoOrphans'
  <2>1. runs' = runs /\ run' = run
    BY <1>10, QuietSteps DEF Ingest, Classify, PublishFails
  <2>2. \E place \in Body : Goto(t, place)
    BY <1>10 DEF Ingest, Classify, PublishFails, Body
  <2> QED
    BY <2>1, <2>2, <1>t, StillExecuted DEF Goto
<1>11. ASSUME NEW t \in Threads, Publish(t) \/ RecordFailure(t) PROVE NoOrphans'
  <2>1. run[t] \in RunIds
    BY <1>11, OwnedRun DEF Publish, RecordFailure, Body
  <2>2. PICK s \in Terminal : runs' = [runs EXCEPT ![run[t]] = s]
    BY <1>11 DEF Publish, RecordFailure, IndInv, TypeOK, Terminal
  <2>3. run' = run /\ pc' = [pc EXCEPT ![t] = "clear"]
    BY <1>11 DEF Publish, RecordFailure, Goto
  <2> QED
    BY <2>1, <2>2, <2>3, <1>t DEF NoOrphans, Orphan, Executing, Terminal
<1>12. ASSUME NEW t \in Threads, Clear(t) PROVE NoOrphans'
    BY <1>12, <1>t, StillExecuted DEF Clear, Goto, durable, Body
<1>13. CASE UNCHANGED vars
    BY <1>13, StillExecuted DEF vars, durable, local
<1> QED
    BY <1>3, <1>4, <1>5, <1>6, <1>7, <1>8, <1>9, <1>10, <1>11, <1>12, <1>13
    DEF Next, Call, Step, Elect, Execute, Done, RecordRaises

\* A run that polls as running is executed by some thread, as long as no
\* statement raises and the process has not died.
THEOREM NothingIsOrphaned == Spec => [](~Faults /\ crashes = 0 => NoOrphans)
<1>1. Init => OwnedInv
    BY DEF Init, OwnedInv, NoOrphans, Orphan
<1>2. IndInv /\ OwnedInv /\ [Next]_vars => OwnedInv'
    BY OwnedStep
<1> QED
    BY <1>1, <1>2, Invariance, PTL DEF Spec, OwnedInv

\* Uploads that are known and requests that are made name rows that exist.
NamedInv ==
    /\ \A r \in RunIds : fileOf[r] # NoFile => runs[r] # "absent"
    /\ \A t \in Threads : req[t] # NoRun => runs[req[t]] # "absent"

\* Start-up and idle threads are not marked as imports.
MarkInv ==
    /\ phase # "serving" => coalesce[Startup]
    /\ \A t \in Threads : pc[t] = "idle" => coalesce[t]

\* A thread leaves its body with a settled run, or with the exception.
SettledInv ==
    \A t \in Threads : pc[t] \in {"clear", "release"} =>
        resp[t] = "error" \/ runs[run[t]] \in Terminal

\* The caller of an import holds an answer that is final.
FinalInv ==
    \A t \in Threads :
        pc[t] = "answer" /\ ~coalesce[t] /\ resp[t] \notin Terminal \cup {"error"}
        => run[t] \in RunIds /\ Orphan(run[t])

AnswerInv == NamedInv /\ MarkInv /\ SettledInv /\ FinalInv

\* Rows that exist go on to exist, settled ones stay as they are.
LEMMA RowsStay ==
    ASSUME IndInv, [Next]_vars, NEW r \in RunIds
    PROVE  /\ runs[r] # "absent" => runs'[r] # "absent"
           /\ runs[r] \in Terminal => runs'[r] = runs[r]
<1>1. [Forward]_runs
    BY ForwardStep
<1> QED
    BY <1>1 DEF Forward, Terminal

LEMMA NamedStep ==
    ASSUME IndInv, NamedInv, [Next]_vars PROVE NamedInv'
<1> USE RunsAssumption, ThreadsAssumption
<1>1. /\ req \in [Threads -> RunIds \cup {NoRun}] /\ fileOf \in [RunIds -> Files \cup {NoFile}]
      /\ runs \in [RunIds -> Statuses]
    BY DEF IndInv, TypeOK
<1>2. ASSUME UNCHANGED fileOf, \A t \in Threads : req'[t] \in {req[t], NoRun} PROVE NamedInv'
    BY <1>1, <1>2, RowsStay DEF NamedInv, RunIds
<1>3. CASE Crash
    BY <1>2, <1>3 DEF Crash, durable
<1>4. ASSUME NEW t \in Threads, NEW r \in RunIds, NEW f \in Files, QueueImport(t, r, f)
      PROVE  NamedInv'
    BY <1>1, <1>4 DEF QueueImport, Queue, Enter, NamedInv, RunIds
<1>5. ASSUME NEW t \in Threads, NEW r \in RunIds, NEW f \in Files, QueueImportFails(t, r, f)
      PROVE  NamedInv'
    BY <1>1, <1>5 DEF QueueImportFails, Queue, local, NamedInv, RunIds
<1>6. ASSUME NEW t \in Threads, NEW r \in RunIds, Reexecute(t, r) PROVE NamedInv'
    BY <1>1, <1>6 DEF Reexecute, Enter, durable, NamedInv, RunIds
<1>7. ASSUME NEW t \in Threads, CallCoalescing(t) \/ CallImport(t) \/ Deliver(t) PROVE NamedInv'
    BY <1>1, <1>2, <1>7 DEF CallCoalescing, CallImport, Deliver, Enter, durable
<1>8. CASE StartUp
    BY <1>1, <1>2, <1>8 DEF StartUp, Start, Boot, HydrateInline, HydrateSeed, Unboot, Enter, durable
<1>9. CASE OperatorRepair \/ Done \/ UNCHANGED vars
    BY <1>2, <1>9 DEF OperatorRepair, Done, vars, local, durable
<1>10. ASSUME NEW t \in Threads, Elect(t) \/ Execute(t) PROVE NamedInv'
  <2>1. UNCHANGED <<fileOf, req>>
    BY <1>10 DEF Elect, ElectBusy, ElectFree, TakePipe, AdoptFresh, AdoptQueued,
       AdoptExisting, AdoptFails, AnswerBusy, WaitBusy, BusyFails, Await,
       Execute, Ingest, Classify, Publish, PublishFails, RecordFailure, RecordRaises, Clear,
       Release, durable
  <2> QED
    BY <1>2, <2>1
<1> QED
    BY <1>3, <1>4, <1>5, <1>6, <1>7, <1>8, <1>9, <1>10 DEF Next, Call, Step

LEMMA MarkStep ==
    ASSUME IndInv, MarkInv, [Next]_vars PROVE MarkInv'
<1> USE ThreadsAssumption DEF MarkInv
<1>1. coalesce \in [Threads -> BOOLEAN] /\ pc \in [Threads -> Places]
    BY DEF IndInv, TypeOK
<1>2. CASE Crash
    BY <1>2 DEF Crash
<1>3. CASE Start
    BY <1>1, <1>3 DEF Start, Goto
<1>4. CASE Boot \/ HydrateInline \/ HydrateSeed \/ Unboot
    BY <1>1, <1>4 DEF Boot, HydrateInline, HydrateSeed, Unboot, Enter, Goto
<1>5. CASE OperatorRepair \/ Done \/ UNCHANGED vars
    BY <1>5 DEF OperatorRepair, Done, vars, local
<1>6. ASSUME NEW t \in Threads, NEW r \in RunIds, NEW f \in Files,
             \/ QueueImport(t, r, f) \/ QueueImportFails(t, r, f) \/ Reexecute(t, r)
             \/ CallCoalescing(t) \/ CallImport(t)
      PROVE  MarkInv'
    BY <1>1, <1>6 DEF QueueImport, QueueImportFails, Reexecute, CallCoalescing, CallImport,
       Serving, Enter, Goto, local
<1>c. ASSUME NEW t \in Threads, NEW r \in RunIds,
             Reexecute(t, r) \/ CallCoalescing(t) \/ CallImport(t)
      PROVE  MarkInv'
    BY <1>1, <1>c DEF Reexecute, CallCoalescing, CallImport, Serving, Enter, Goto
<1>7. ASSUME NEW t \in Threads, Deliver(t) PROVE MarkInv'
    BY <1>1, <1>7 DEF Deliver, Goto
<1>8. ASSUME NEW t \in Threads, Elect(t) \/ Execute(t) PROVE MarkInv'
  <2>1. UNCHANGED <<phase, coalesce>>
    BY <1>8 DEF Elect, ElectBusy, ElectFree, TakePipe, AdoptFresh, AdoptQueued,
       AdoptExisting, AdoptFails, AnswerBusy, WaitBusy, BusyFails, Await,
       Execute, Ingest, Classify, Publish, PublishFails, RecordFailure, RecordRaises, Clear,
       Release
  <2>2. \E place \in Places \ {"idle"} : Goto(t, place)
    BY <1>8 DEF Elect, ElectBusy, ElectFree, TakePipe, AdoptFresh, AdoptQueued, Elected,
       AdoptExisting, AdoptFails, AnswerBusy, WaitBusy, BusyFails, Await, Return,
       Execute, Ingest, Classify, Publish, PublishFails, RecordFailure, RecordRaises, Clear,
       Release, Places, HoldsPipe, Body
  <2> QED
    BY <1>1, <2>1, <2>2 DEF Goto
<1> QED
    BY <1>2, <1>3, <1>4, <1>5, <1>6, <1>c, <1>7, <1>8, RunsAssumption
    DEF Next, StartUp, Call, Step, RunIds

LEMMA SettledStep ==
    ASSUME IndInv, SettledInv, [Next]_vars PROVE SettledInv'
<1> USE ThreadsAssumption
<1>1. /\ pc \in [Threads -> Places] /\ run \in [Threads -> RunIds \cup {NoRun}]
      /\ runs \in [RunIds -> Statuses] /\ resp \in [Threads -> Statuses \cup {"error"}]
      /\ verdict \in [Threads -> Terminal]
    BY DEF IndInv, TypeOK
<1>2. \A t \in Threads : pc[t] \in {"clear", "release"} => run[t] \in RunIds
    BY DEF IndInv, BegunInv, Begun
<1>3. ASSUME \A t \in Threads : pc'[t] \in {"clear", "release"} =>
                /\ pc[t] \in {"clear", "release"} /\ run'[t] = run[t] /\ resp'[t] = resp[t]
      PROVE  SettledInv'
    BY <1>2, <1>3, RowsStay DEF SettledInv
<1>4. CASE StartUp \/ Crash \/ OperatorRepair \/ Done \/ UNCHANGED vars
    BY <1>1, <1>3, <1>4 DEF StartUp, Start, Boot, HydrateInline, HydrateSeed, Unboot, Crash,
       OperatorRepair, Done, vars, local, Enter, Goto
<1>5. ASSUME NEW t \in Threads, Call(t) \/ Deliver(t) PROVE SettledInv'
    BY <1>1, <1>3, <1>5 DEF Call, CallCoalescing, CallImport, Reexecute, QueueImport,
       QueueImportFails, Deliver, Enter, Goto, local
<1>6. ASSUME NEW t \in Threads,
             Elect(t) \/ Ingest(t) \/ Classify(t) \/ PublishFails(t) \/ Release(t)
      PROVE  SettledInv'
  <2>1. \E place : Goto(t, place) /\ place \notin {"clear", "release"}
    <3>1. CASE Elect(t)
      BY <3>1 DEF Elect, ElectBusy, ElectFree, TakePipe, AdoptFresh, AdoptQueued, Elected,
         AdoptExisting, AdoptFails, AnswerBusy, WaitBusy, BusyFails, Await, Return
    <3>2. CASE ~Elect(t)
      <4>1. CASE Release(t)
        BY <4>1 DEF Release, Return
      <4>2. CASE Ingest(t)
        <5>1. Goto(t, "classify") \/ Goto(t, "fail")
          BY <4>2 DEF Ingest
        <5> QED
          BY <5>1
      <4>3. CASE Classify(t)
        BY <4>3 DEF Classify
      <4>4. CASE PublishFails(t)
        BY <4>4 DEF PublishFails
      <4> QED
        BY <1>6, <3>2, <4>1, <4>2, <4>3, <4>4
    <3> QED
      BY <3>1, <3>2
  <2>2. \A u \in Threads \ {t} : run'[u] = run[u] /\ resp'[u] = resp[u]
    <3>1. CASE Elect(t)
      BY <1>1, <3>1 DEF Elect, ElectBusy, ElectFree, TakePipe, AdoptFresh, AdoptQueued, Elected,
         AdoptExisting, AdoptFails, AnswerBusy, WaitBusy, BusyFails, Await, Return
    <3>2. CASE ~Elect(t)
      BY <1>1, <1>6, <3>2 DEF Ingest, Classify, PublishFails, Release, Return
    <3> QED
      BY <3>1, <3>2
  <2> QED
    BY <1>1, <1>3, <2>1, <2>2 DEF Goto
<1>9. ASSUME NEW t \in Threads, Clear(t) PROVE SettledInv'
    BY <1>1, <1>3, <1>9 DEF Clear, Goto
<1>7. ASSUME NEW t \in Threads, Publish(t) \/ RecordFailure(t) PROVE SettledInv'
  <2>1. run[t] \in RunIds
    BY <1>7, OwnedRun DEF Publish, RecordFailure, Body
  <2>2. runs'[run[t]] \in Terminal
    BY <1>1, <1>7, <2>1 DEF Publish, RecordFailure, Terminal
  <2>3. pc' = [pc EXCEPT ![t] = "clear"] /\ UNCHANGED <<run, resp>>
    BY <1>7 DEF Publish, RecordFailure, Goto
  <2> QED
    BY <1>1, <1>2, <2>2, <2>3, RowsStay DEF SettledInv
<1>8. ASSUME NEW t \in Threads, RecordRaises(t) PROVE SettledInv'
    BY <1>1, <1>2, <1>8, RowsStay DEF RecordRaises, Goto, durable, SettledInv
<1> QED
    BY <1>4, <1>5, <1>6, <1>7, <1>8, <1>9 DEF Next, Step, Execute

\* A run that nobody executes stays so as long as a thread that answers with
\* it is there: nobody adopts a run that is not queued.
LEMMA OrphanStays ==
    ASSUME IndInv, [Next]_vars, phase' # "down", NEW r \in RunIds, Orphan(r)
    PROVE  Orphan(r)'
<1> USE ThreadsAssumption, RunsAssumption
<1>1. /\ pc \in [Threads -> Places] /\ run \in [Threads -> RunIds \cup {NoRun}]
      /\ runs \in [RunIds -> Statuses]
    BY DEF IndInv, TypeOK
<1>2. ASSUME runs'[r] = runs[r],
             \A t \in Threads : pc'[t] \in Body => run'[t] # r \/ (pc[t] \in Body /\ run'[t] = run[t])
      PROVE  Orphan(r)'
    BY <1>2 DEF Orphan, Executing
<1>3. CASE StartUp \/ Done \/ UNCHANGED vars
    BY <1>1, <1>2, <1>3 DEF StartUp, Start, Boot, HydrateInline, HydrateSeed, Unboot,
       Done, vars, local, durable, Enter, Goto, Body
<1>4. ~Crash /\ ~OperatorRepair
    BY DEF Crash, OperatorRepair, Stopped
<1>5. ASSUME NEW t \in Threads, Call(t) \/ Deliver(t) PROVE Orphan(r)'
  <2>1. \A u \in Threads : pc'[u] \in Body => pc[u] \in Body /\ run'[u] = run[u]
    BY <1>1, <1>5 DEF Call, CallCoalescing, CallImport, Reexecute, QueueImport,
       QueueImportFails, Deliver, Enter, Goto, local, Body
  <2>2. runs'[r] = runs[r]
    BY <1>1, <1>5 DEF Call, CallCoalescing, CallImport, Reexecute, QueueImport,
       QueueImportFails, Queue, Fresh, Deliver, durable, Orphan
  <2> QED
    BY <1>2, <2>1, <2>2
<1>6. ASSUME NEW t \in Threads,
             ElectBusy(t) \/ ElectFree(t) \/ TakePipe(t) \/ AdoptExisting(t) \/ AdoptFails(t)
             \/ AnswerBusy(t) \/ WaitBusy(t) \/ BusyFails(t) \/ Await(t) \/ Release(t)
             \/ Clear(t) \/ RecordRaises(t)
      PROVE  Orphan(r)'
  <2>1. runs' = runs
    BY <1>6, QuietSteps DEF Clear, durable
  <2>2. \E place : Goto(t, place) /\ place \notin Body
    BY <1>6 DEF ElectBusy, ElectFree, TakePipe, AdoptExisting, AdoptFails, AnswerBusy,
       WaitBusy, BusyFails, Await, Release, Clear, RecordRaises, Return, Body
  <2>3. \A u \in Threads \ {t} : run'[u] = run[u]
    BY <1>1, <1>6 DEF ElectBusy, ElectFree, TakePipe, AdoptExisting, AdoptFails, AnswerBusy,
       WaitBusy, BusyFails, Await, Release, Clear, RecordRaises
  <2> QED
    BY <1>1, <1>2, <2>1, <2>2, <2>3 DEF Goto
<1>7. ASSUME NEW t \in Threads, AdoptFresh(t) \/ AdoptQueued(t) PROVE Orphan(r)'
  <2>1. PICK s \in RunIds : Elected(t, s) /\ runs[s] \in {"absent", "queued"}
    BY <1>7 DEF AdoptFresh, AdoptQueued, Fresh, StillQueued, IndInv, TypeOK
  <2>2. s # r
    BY <2>1 DEF Orphan
  <2> QED
    BY <1>1, <1>2, <2>1, <2>2 DEF Elected, Goto
<1>8. ASSUME NEW t \in Threads, Ingest(t) \/ Classify(t) \/ PublishFails(t) PROVE Orphan(r)'
  <2>1. runs' = runs /\ run' = run /\ pc[t] \in Body
    BY <1>8, QuietSteps DEF Ingest, Classify, PublishFails, Body
  <2>2. \E place : Goto(t, place)
    BY <1>8 DEF Ingest, Classify, PublishFails
  <2> QED
    BY <1>1, <1>2, <2>1, <2>2 DEF Goto
<1>9. ASSUME NEW t \in Threads, Publish(t) \/ RecordFailure(t) PROVE Orphan(r)'
  <2>1. run[t] # r
    BY <1>9 DEF Publish, RecordFailure, Orphan, Executing, Body
  <2>2. runs'[r] = runs[r] /\ run' = run /\ pc' = [pc EXCEPT ![t] = "clear"]
    BY <1>1, <1>9, <2>1 DEF Publish, RecordFailure, Goto
  <2> QED
    BY <1>1, <1>2, <2>2 DEF Body
<1> QED
    BY <1>3, <1>4, <1>5, <1>6, <1>7, <1>8, <1>9 DEF Next, Step, Elect, Execute

\* A step that makes a thread answer, other than the delivery of that answer.
Answering(t) ==
    Unboot \/ AdoptExisting(t) \/ AdoptFails(t) \/ AnswerBusy(t) \/ BusyFails(t) \/ Release(t)

LEMMA AnswersComeFrom ==
    ASSUME IndInv, [Next]_vars, NEW t \in Threads, pc'[t] = "answer", pc[t] # "answer"
    PROVE  Answering(t)
<1> USE ThreadsAssumption, RunsAssumption
<1>1. pc \in [Threads -> Places]
    BY DEF IndInv, TypeOK
<1>2. CASE Start \/ Boot \/ HydrateInline \/ HydrateSeed \/ Crash \/ OperatorRepair \/ Done \/ UNCHANGED vars
    BY <1>1, <1>2 DEF Start, Boot, HydrateInline, HydrateSeed, Crash,
       OperatorRepair, Done, vars, local, Enter, Goto
<1>3. ASSUME NEW u \in Threads, Call(u) \/ Deliver(u) PROVE FALSE
    BY <1>1, <1>3 DEF Call, CallCoalescing, CallImport, Reexecute, QueueImport,
       QueueImportFails, Deliver, Enter, Goto, local
<1>4. ASSUME NEW u \in Threads,
             ElectBusy(u) \/ ElectFree(u) \/ TakePipe(u) \/ AdoptFresh(u) \/ AdoptQueued(u)
             \/ WaitBusy(u) \/ Await(u)
      PROVE  FALSE
    BY <1>1, <1>4 DEF ElectBusy, ElectFree, TakePipe, AdoptFresh, AdoptQueued, Elected,
       WaitBusy, Await, Goto
<1>5. ASSUME NEW u \in Threads,
             Ingest(u) \/ Classify(u) \/ Publish(u) \/ PublishFails(u) \/ RecordFailure(u)
             \/ RecordRaises(u) \/ Clear(u)
      PROVE  FALSE
    BY <1>1, <1>5 DEF Ingest, Classify, Publish, PublishFails, RecordFailure, RecordRaises,
       Clear, Goto
<1>6. ASSUME NEW u \in Threads,
             AdoptExisting(u) \/ AdoptFails(u) \/ AnswerBusy(u) \/ BusyFails(u) \/ Release(u)
      PROVE  u = t
    BY <1>1, <1>6 DEF AdoptExisting, AdoptFails, AnswerBusy, BusyFails, Release, Return, Goto
<1>7. CASE Unboot
    BY <1>7 DEF Answering
<1> QED
    BY <1>2, <1>3, <1>4, <1>5, <1>6, <1>7 DEF Next, StartUp, Step, Elect, Execute, Answering

\* A thread that has an answer keeps it, with its run, until it is delivered.
LEMMA AnswerKept ==
    ASSUME IndInv, [Next]_vars, NEW t \in Threads, pc'[t] = "answer", pc[t] = "answer"
    PROVE  coalesce'[t] = coalesce[t] /\ run'[t] = run[t] /\ resp'[t] = resp[t] /\ phase' # "down"
<1> USE ThreadsAssumption, RunsAssumption
<1>1. /\ pc \in [Threads -> Places] /\ run \in [Threads -> RunIds \cup {NoRun}]
      /\ resp \in [Threads -> Statuses \cup {"error"}] /\ coalesce \in [Threads -> BOOLEAN]
      /\ phase # "down"
    BY DEF IndInv, TypeOK, PhaseInv
<1>2. CASE StartUp \/ Crash \/ OperatorRepair \/ Done \/ UNCHANGED vars
    BY <1>1, <1>2 DEF StartUp, Start, Boot, HydrateInline, HydrateSeed, Unboot, Crash,
       OperatorRepair, Stopped, Done, vars, local, Enter, Goto
<1>3. ASSUME NEW u \in Threads, Call(u) \/ Deliver(u)
      PROVE  coalesce'[t] = coalesce[t] /\ run'[t] = run[t] /\ resp'[t] = resp[t] /\ phase' # "down"
    BY <1>1, <1>3 DEF Call, CallCoalescing, CallImport, Reexecute, QueueImport,
       QueueImportFails, Deliver, Serving, Enter, Goto, local
<1>4. ASSUME NEW u \in Threads, Elect(u)
      PROVE  coalesce'[t] = coalesce[t] /\ run'[t] = run[t] /\ resp'[t] = resp[t] /\ phase' # "down"
    BY <1>1, <1>4 DEF Elect, ElectBusy, ElectFree, TakePipe, AdoptFresh, AdoptQueued, Elected,
       AdoptExisting, AdoptFails, AnswerBusy, WaitBusy, BusyFails, Await, Return, Goto
<1>5. ASSUME NEW u \in Threads, Execute(u)
      PROVE  coalesce'[t] = coalesce[t] /\ run'[t] = run[t] /\ resp'[t] = resp[t] /\ phase' # "down"
    BY <1>1, <1>5 DEF Execute, Ingest, Classify, Publish, PublishFails, RecordFailure,
       RecordRaises, Clear, Release, Return, Goto
<1> QED
    BY <1>2, <1>3, <1>4, <1>5 DEF Next, Step

LEMMA FinalStep ==
    ASSUME IndInv, AnswerInv, [Next]_vars PROVE FinalInv'
<1> USE ThreadsAssumption, RunsAssumption
<1> SUFFICES ASSUME NEW t \in Threads, pc'[t] = "answer", ~coalesce'[t],
                    resp'[t] \notin Terminal \cup {"error"}
             PROVE  (run[t] \in RunIds /\ Orphan(run[t]))'
    BY DEF FinalInv
<1>1. /\ pc \in [Threads -> Places] /\ run \in [Threads -> RunIds \cup {NoRun}]
      /\ runs \in [RunIds -> Statuses] /\ resp \in [Threads -> Statuses \cup {"error"}]
      /\ req \in [Threads -> RunIds \cup {NoRun}] /\ coalesce \in [Threads -> BOOLEAN]
    BY DEF IndInv, TypeOK
<1>2. CASE pc[t] = "answer"
  <2>1. /\ coalesce'[t] = coalesce[t] /\ run'[t] = run[t] /\ resp'[t] = resp[t]
        /\ phase' # "down"
    BY <1>2, AnswerKept
  <2>2. run[t] \in RunIds /\ Orphan(run[t])
    BY <1>2, <2>1 DEF AnswerInv, FinalInv
  <2>3. PICK r \in RunIds : r = run[t]
    BY <2>2
  <2>4. Orphan(r)
    BY <2>2, <2>3
  <2>5. Orphan(r)'
    BY <2>1, <2>4, OrphanStays
  <2>6. run'[t] \in RunIds /\ run'[t] = r
    BY <2>1, <2>3
  <2>7. runs'[r] = "running" /\ \A u \in Threads : ~(pc'[u] \in Body /\ run'[u] = r)
    BY <2>5 DEF Orphan, Executing
  <2>8. \A u \in Threads : ~(pc'[u] \in Body /\ run'[u] = run'[t])
    BY <2>6, <2>7
  <2>9. runs'[run'[t]] = "running" /\ run'[t] \in RunIds
    BY <2>6, <2>7
  <2> QED
    BY <2>8, <2>9, Zenon DEF Orphan, Executing
<1>3. CASE pc[t] # "answer"
  <2>1. Answering(t)
    BY <1>3, AnswersComeFrom
  <2>2. ~Unboot
    BY <1>1, <1>3 DEF Unboot, AnswerInv, MarkInv, IndInv, PhaseInv, Goto
  <2>3. ~AdoptFails(t) /\ ~BusyFails(t) /\ ~AnswerBusy(t)
    BY <1>1 DEF AdoptFails, BusyFails, AnswerBusy, MayCoalesce, Return
  <2>4. ~Release(t)
    <3> SUFFICES ASSUME Release(t) PROVE FALSE
      OBVIOUS
    <3>1. resp[t] = "error" \/ runs[run[t]] \in Terminal
      BY DEF Release, AnswerInv, SettledInv
    <3>2. PICK answer \in Answers(run[t]) : Return(t, IF resp[t] = "error" THEN "error" ELSE answer)
      BY DEF Release
    <3>3. resp'[t] = IF resp[t] = "error" THEN "error" ELSE answer
      BY <1>1, <3>2 DEF Return
    <3> QED
      BY <3>1, <3>2, <3>3 DEF Answers
  <2>5. AdoptExisting(t)
    BY <2>1, <2>2, <2>3, <2>4 DEF Answering
  <2>6. /\ run'[t] = req[t] /\ req[t] \in RunIds /\ runs' = runs
        /\ resp'[t] = runs[req[t]] /\ runs[req[t]] # "queued"
        /\ \A u \in Threads \ {t} : pc'[u] = pc[u]
    BY <1>1, <2>5 DEF AdoptExisting, StillQueued, Return, Goto, durable
  <2>7. runs[req[t]] = "running"
    BY <1>1, <2>5, <2>6 DEF AdoptExisting, AnswerInv, NamedInv, Statuses
  <2>8. \A u \in Threads : pc[u] \notin Body
    BY <2>5 DEF AdoptExisting, IndInv, ElectInv, OneElectedWriter
  <2> QED
    BY <2>6, <2>7, <2>8 DEF Orphan, Executing, Body
<1> QED
    BY <1>2, <1>3

\* An import is answered with a settled run, or with one that an earlier
\* failure left running.
THEOREM ImportsAreAnsweredFinally == Spec => []ImportAnswersAreFinal
<1>1. Init => AnswerInv
    BY ThreadsAssumption DEF Init, AnswerInv, NamedInv, MarkInv, SettledInv, FinalInv, RunIds
<1>2. IndInv /\ AnswerInv /\ [Next]_vars => AnswerInv'
    BY NamedStep, MarkStep, SettledStep, FinalStep DEF AnswerInv
<1>3. AnswerInv => ImportAnswersAreFinal
    BY DEF AnswerInv, FinalInv, ImportAnswersAreFinal
<1> QED
    BY <1>1, <1>2, <1>3, Invariance, PTL DEF Spec
=============================================================================
