---------------------------- MODULE PipelineRuns ----------------------------
(***************************************************************************)
(* GuardianService's election of one writer per process and the durable    *)
(* pipeline_runs rows (guardian_voc/application.py).  HTTP worker threads, *)
(* the scheduler thread and the start-up thread call into one service that *)
(* has a re-entrant pipeline lock, a plain run-state lock and one          *)
(* in-memory active run id.  One step of a thread is one lock operation or *)
(* one database statement together with the code around it.                *)
(***************************************************************************)
EXTENDS Naturals, FiniteSets

CONSTANTS Threads,      \* threads that call the service
          Startup,      \* the one that runs the FastAPI lifespan start-up
          NoThread,     \* "no thread" holds a lock
          NoRun,        \* no run id
          Files,        \* distinct export contents (their SHA-256)
          Generic,      \* those exported under the generic profile, which
                        \* leaves no file history
          NoFile,       \* a run that was queued for no upload
          MaxCalls,     \* bound on calls, hence on the runs ever created
          MaxCrashes,   \* bound on process deaths
          Faults        \* TRUE when a database statement may raise

ASSUME ThreadsAssumption == Startup \in Threads /\ NoThread \notin Threads
ASSUME RunsAssumption    == MaxCalls \in Nat \ {0} /\ NoRun \notin 1..MaxCalls
ASSUME FilesAssumption   == NoFile \notin Files /\ Generic \subseteq Files
ASSUME BoundsAssumption  == MaxCrashes \in Nat /\ Faults \in BOOLEAN

VARIABLES
    phase,      \* life of the process: "down", "starting", "serving"
    stateLock,  \* holder of _run_state_lock
    pipeLock,   \* holder of _pipeline_lock ...
    pipeDepth,  \* ... and how often it re-entered it
    active,     \* _active_run_id
    pc,         \* where each thread stands inside the service
    coalesce,   \* each thread's coalesce_if_busy argument
    req,        \* each thread's queued_run_id argument
    run,        \* the run a thread executes, or observed as active
    verdict,    \* the status the failure counts so far would give the run
    resp,       \* status in the RunResponse a thread returned, or "error"
    runs,       \* durable: pipeline_runs.status
    fileOf,     \* durable: content_sha256 in the run's metadata
    imported,   \* durable: contents is_imported_file answers TRUE for
    ingestions, \* how often each run's ingest callback ran (observer)
    calls,      \* calls made so far
    crashes     \* process deaths so far

locks   == <<stateLock, pipeLock, pipeDepth, active>>
local   == <<pc, coalesce, req, run, verdict, resp>>
durable == <<runs, fileOf, imported>>
observed == <<ingestions, crashes>>
vars == <<phase, locks, local, durable, observed, calls>>

RunIds   == 1..MaxCalls
Terminal == {"completed", "partial", "failed"}
Statuses == {"absent", "queued", "running"} \cup Terminal

\* Places where a thread owns the elected run and both kinds of work on it.
Body == {"ingest", "classify", "publish", "fail"}
\* Places where a thread holds the pipeline lock.
HoldsPipe == Body \cup {"adopt", "clear", "release", "hydrate", "unboot"}
Places == HoldsPipe \cup {"idle", "elect", "pipe", "busy", "await", "answer", "boot"}

TypeOK ==
    /\ phase \in {"down", "starting", "serving"}
    /\ stateLock \in Threads \cup {NoThread}
    /\ pipeLock \in Threads \cup {NoThread}
    /\ pipeDepth \in 0..2
    /\ active \in RunIds \cup {NoRun}
    /\ pc \in [Threads -> Places]
    /\ coalesce \in [Threads -> BOOLEAN]
    /\ req \in [Threads -> RunIds \cup {NoRun}]
    /\ run \in [Threads -> RunIds \cup {NoRun}]
    /\ verdict \in [Threads -> Terminal]
    /\ resp \in [Threads -> Statuses \cup {"error"}]
    /\ runs \in [RunIds -> Statuses]
    /\ fileOf \in [RunIds -> Files \cup {NoFile}]
    /\ imported \in SUBSET (Files \ Generic)
    /\ ingestions \in [RunIds -> Nat]
    /\ calls \in 0..MaxCalls
    /\ crashes \in 0..MaxCrashes

Init ==
    /\ phase = "down"
    /\ stateLock = NoThread /\ pipeLock = NoThread /\ pipeDepth = 0
    /\ active = NoRun
    /\ pc = [t \in Threads |-> "idle"]
    /\ coalesce = [t \in Threads |-> TRUE]
    /\ req = [t \in Threads |-> NoRun]
    /\ run = [t \in Threads |-> NoRun]
    /\ verdict = [t \in Threads |-> "completed"]
    /\ resp = [t \in Threads |-> "absent"]
    /\ runs = [r \in RunIds |-> "absent"]
    /\ fileOf = [r \in RunIds |-> NoFile]
    /\ imported = {}
    /\ ingestions = [r \in RunIds |-> 0]
    /\ calls = 0
    /\ crashes = 0

------------------------------------------------------------------------------
(* Locks.  _pipeline_lock is an RLock, _run_state_lock a plain Lock.        *)

PipeFree(t) == pipeLock \in {NoThread, t}

AcquirePipe(t) ==
    /\ PipeFree(t)
    /\ pipeLock' = t
    /\ pipeDepth' = pipeDepth + 1

\* Broken variant: a path gives up the lock but not its count.
LeakyRelease == pipeDepth' = pipeDepth /\ pipeLock' = NoThread

ReleasePipe ==
    /\ pipeDepth' = pipeDepth - 1
    /\ pipeLock' = IF pipeDepth = 1 THEN NoThread ELSE pipeLock

Goto(t, place) == pc' = [pc EXCEPT ![t] = place]

\* A call made from inside hydration goes on there, any other one answers.
Return(t, answer) ==
    /\ Goto(t, IF phase = "starting" THEN "unboot" ELSE "answer")
    /\ resp' = [resp EXCEPT ![t] = answer]

\* What get_run(r) gives a caller that asserts there is a row; the query
\* itself may raise.
Answers(r) == {runs[r]} \cup (IF Faults THEN {"error"} ELSE {})

\* A call reaches the election with the arguments of _execute_pipeline.
Enter(t, mayCoalesce, queued) ==
    /\ calls < MaxCalls
    /\ calls' = calls + 1
    /\ Goto(t, "elect")
    /\ coalesce' = [coalesce EXCEPT ![t] = mayCoalesce]
    /\ req' = [req EXCEPT ![t] = queued]

\* _create_pipeline_run: the next row that was never written.
Fresh(r) == runs[r] = "absent" /\ \A s \in RunIds : s < r => runs[s] # "absent"

------------------------------------------------------------------------------
(* Process life: lifespan() runs initialize() before any request is served. *)

Start ==
    /\ phase = "down"
    /\ phase' = "starting"
    /\ Goto(Startup, "boot")
    /\ UNCHANGED <<locks, coalesce, req, run, verdict, resp, durable, calls,
                   observed>>

Boot ==
    /\ pc[Startup] = "boot"
    /\ AcquirePipe(Startup)
    /\ Goto(Startup, "hydrate")
    /\ UNCHANGED <<phase, stateLock, active, coalesce, req, run, verdict, resp,
                   durable, calls, observed>>

\* Nothing to process, or classification and publication without a run row.
HydrateInline ==
    /\ pc[Startup] = "hydrate"
    /\ Goto(Startup, "unboot")
    /\ UNCHANGED <<phase, locks, coalesce, req, run, verdict, resp, durable,
                   calls, observed>>

\* Demo mode on an empty database: seed_demo() elects a run while this
\* thread already holds the pipeline lock.
HydrateSeed ==
    /\ pc[Startup] = "hydrate"
    /\ Enter(Startup, TRUE, NoRun)
    /\ UNCHANGED <<phase, locks, run, verdict, resp, durable, observed>>

\* initialize() returns, whatever the seed run answered, and requests come in.
Unboot ==
    /\ pc[Startup] = "unboot"
    /\ ReleasePipe
    /\ Goto(Startup, "answer")
    /\ phase' = "serving"
    /\ UNCHANGED <<stateLock, active, coalesce, req, run, verdict, resp,
                   durable, calls, observed>>

\* The process dies, or start-up raises out of the lifespan: memory is lost.
Crash ==
    /\ phase # "down"
    /\ crashes < MaxCrashes
    /\ crashes' = crashes + 1
    /\ phase' = "down"
    /\ stateLock' = NoThread /\ pipeLock' = NoThread /\ pipeDepth' = 0
    /\ active' = NoRun
    /\ pc' = [t \in Threads |-> "idle"]
    /\ coalesce' = [t \in Threads |-> TRUE]
    /\ req' = [t \in Threads |-> NoRun]
    /\ run' = [t \in Threads |-> NoRun]
    /\ verdict' = [t \in Threads |-> "completed"]
    /\ resp' = [t \in Threads |-> "absent"]
    /\ UNCHANGED <<durable, calls, ingestions>>

\* Broken variant: the repair runs beside the live application.
NotStopped == TRUE

\* The operator stops the application first.
Stopped == phase = "down"

\* What the repair makes of a run row.
RepairStatus(r) == IF runs[r] = "running" THEN "failed" ELSE runs[r]

\* maintenance.repair_discovery_cache, run on the stopped application.
OperatorRepair ==
    /\ Stopped
    /\ \E r \in RunIds : runs[r] = "running"
    /\ runs' = [r \in RunIds |-> RepairStatus(r)]
    /\ UNCHANGED <<phase, locks, local, fileOf, imported, calls, observed>>

------------------------------------------------------------------------------
(* Calls that enter the service once it serves.                             *)

\* Broken variant: requests are served while start-up still hydrates.
ServingEarly(t) == phase # "down" /\ pc[t] = "idle"

Serving(t) == phase = "serving" /\ pc[t] = "idle"

\* run_all, crawl, run_live_collection, a marketplace sync or a demo seed.
CallCoalescing(t) ==
    /\ Serving(t)
    /\ Enter(t, TRUE, NoRun)
    /\ UNCHANGED <<phase, locks, run, verdict, resp, durable, observed>>

\* import_bytes: the collector's and the command line's unqueued import.
CallImport(t) ==
    /\ Serving(t)
    /\ Enter(t, FALSE, NoRun)
    /\ UNCHANGED <<phase, locks, run, verdict, resp, durable, observed>>

\* queue_import_bytes: the duplicate check, then the durable queued row.  An
\* upload of the generic profile is never looked up in the file history.
Queue(r, f) ==
    /\ f \in Generic \/ f \notin imported
    /\ Fresh(r)
    /\ runs' = [runs EXCEPT ![r] = "queued"]
    /\ fileOf' = [fileOf EXCEPT ![r] = f]

\* POST /imports; its background task carries the uploaded bytes on into
\* execute_queued_import.
QueueImport(t, r, f) ==
    /\ Serving(t)
    /\ Queue(r, f)
    /\ Enter(t, FALSE, r)
    /\ UNCHANGED <<phase, locks, run, verdict, resp, imported, observed>>

\* The row is queued but reading it back fails: no task is scheduled.
QueueImportFails(t, r, f) ==
    /\ Serving(t)
    /\ Faults
    /\ Queue(r, f)
    /\ calls < MaxCalls
    /\ calls' = calls + 1
    /\ UNCHANGED <<phase, locks, local, imported, observed>>

\* execute_queued_import called again for a run that was already handed on.
Reexecute(t, r) ==
    /\ Serving(t)
    /\ fileOf[r] # NoFile
    /\ Enter(t, FALSE, r)
    /\ UNCHANGED <<phase, locks, run, verdict, resp, durable, observed>>

\* The HTTP handler, scheduler or collector takes the answer and goes on.
Deliver(t) ==
    /\ pc[t] = "answer"
    /\ Goto(t, "idle")
    /\ coalesce' = [coalesce EXCEPT ![t] = TRUE]
    /\ req' = [req EXCEPT ![t] = NoRun]
    /\ run' = [run EXCEPT ![t] = NoRun]
    /\ verdict' = [verdict EXCEPT ![t] = "completed"]
    /\ resp' = [resp EXCEPT ![t] = "absent"]
    /\ UNCHANGED <<phase, locks, durable, calls, observed>>

------------------------------------------------------------------------------
(* _execute_pipeline: the election.                                         *)

\* Under the state lock the active run is read; a busy caller lets go.
ElectBusy(t) ==
    /\ pc[t] = "elect"
    /\ stateLock = NoThread
    /\ active # NoRun
    /\ run' = [run EXCEPT ![t] = active]
    /\ Goto(t, "busy")
    /\ UNCHANGED <<phase, locks, coalesce, req, verdict, resp, durable, calls,
                   observed>>

\* No active run: the caller keeps the state lock and waits for the pipeline.
ElectFree(t) ==
    /\ pc[t] = "elect"
    /\ stateLock = NoThread
    /\ active = NoRun
    /\ stateLock' = t
    /\ Goto(t, "pipe")
    /\ UNCHANGED <<phase, pipeLock, pipeDepth, active, coalesce, req, run,
                   verdict, resp, durable, calls, observed>>

TakePipe(t) ==
    /\ pc[t] = "pipe"
    /\ AcquirePipe(t)
    /\ Goto(t, "adopt")
    /\ UNCHANGED <<phase, stateLock, active, coalesce, req, run, verdict, resp,
                   durable, calls, observed>>

\* Broken variant: the active id is never published.
ElectedSilently(t, r) ==
    /\ active' = active
    /\ run' = [run EXCEPT ![t] = r]
    /\ runs' = [runs EXCEPT ![r] = "running"]
    /\ stateLock' = NoThread
    /\ Goto(t, "ingest")

\* The elected thread owns run r and starts its body.
Elected(t, r) ==
    /\ active' = r
    /\ run' = [run EXCEPT ![t] = r]
    /\ runs' = [runs EXCEPT ![r] = "running"]
    /\ stateLock' = NoThread
    /\ Goto(t, "ingest")

\* No queued run: a fresh row is inserted as running.
AdoptFresh(t) ==
    /\ pc[t] = "adopt"
    /\ req[t] = NoRun
    /\ \E r \in RunIds : Fresh(r) /\ Elected(t, r)
    /\ UNCHANGED <<phase, pipeLock, pipeDepth, coalesce, req, verdict, resp,
                   fileOf, imported, calls, observed>>

\* Broken variant: any row that is not running is adopted.
NotRunning(t) == runs[req[t]] # "running"

\* The row is read again under both locks before it is adopted.
StillQueued(t) == runs[req[t]] = "queued"

\* The queued row becomes the running one.
AdoptQueued(t) ==
    /\ pc[t] = "adopt"
    /\ req[t] # NoRun
    /\ StillQueued(t)
    /\ Elected(t, req[t])
    /\ UNCHANGED <<phase, pipeLock, pipeDepth, coalesce, req, verdict, resp,
                   fileOf, imported, calls, observed>>

\* The row was adopted before: both locks are released, its state returned.
AdoptExisting(t) ==
    /\ pc[t] = "adopt"
    /\ req[t] # NoRun
    /\ ~StillQueued(t)
    /\ run' = [run EXCEPT ![t] = req[t]]
    /\ stateLock' = NoThread
    /\ ReleasePipe
    /\ Return(t, runs[req[t]])
    /\ UNCHANGED <<phase, active, coalesce, req, verdict, durable, calls,
                   observed>>

\* A statement of the election raises: both locks are released.
AdoptFails(t) ==
    /\ pc[t] = "adopt"
    /\ Faults
    /\ stateLock' = NoThread
    /\ ReleasePipe
    /\ Return(t, "error")
    /\ UNCHANGED <<phase, active, coalesce, req, run, verdict, durable, calls,
                   observed>>

\* Broken variant: uploads coalesce like every other call.
AlwaysCoalesce(t) == TRUE
MayCoalesce(t) == coalesce[t]

\* A busy coalescing caller answers with the run it observed.
AnswerBusy(t) ==
    /\ pc[t] = "busy"
    /\ MayCoalesce(t)
    /\ Return(t, runs[run[t]])
    /\ UNCHANGED <<phase, locks, coalesce, req, run, verdict, durable, calls,
                   observed>>

\* A busy import waits for the elected writer.
WaitBusy(t) ==
    /\ pc[t] = "busy"
    /\ ~MayCoalesce(t)
    /\ Goto(t, "await")
    /\ UNCHANGED <<phase, locks, coalesce, req, run, verdict, resp, durable,
                   calls, observed>>

\* Reading the active run raises for either of them.
BusyFails(t) ==
    /\ pc[t] = "busy"
    /\ Faults
    /\ Return(t, "error")
    /\ UNCHANGED <<phase, locks, coalesce, req, run, verdict, durable, calls,
                   observed>>

\* The wait is an empty critical section; then the election is tried again.
Await(t) ==
    /\ pc[t] = "await"
    /\ PipeFree(t)
    /\ Goto(t, "elect")
    /\ run' = [run EXCEPT ![t] = NoRun]
    /\ UNCHANGED <<phase, locks, coalesce, req, verdict, resp, durable, calls,
                   observed>>

------------------------------------------------------------------------------
(* _execute_pipeline: the body of the elected run.                          *)

\* What ingesting upload f leaves in the file history: a clean ingestion
\* records it, one with failures may also have taken over its history row
\* with a failed ingestion run, or have stopped before registering it.
Registered(f, clean) ==
    CASE f \in Generic -> {imported}
      [] f \notin Generic /\ clean -> {imported \cup {f}}
      [] OTHER -> {imported \cup {f}, imported \ {f}, imported}

\* A run that no upload was queued for may read exports as well: the one of
\* a direct import, or every file of the inbox, each registered in turn.
Scanned(clean) == {s \in SUBSET (Files \ Generic) : clean => imported \subseteq s}

\* The file history after the ingest callback of run r.
HistoryAfter(r, clean) ==
    IF fileOf[r] = NoFile THEN Scanned(clean) ELSE Registered(fileOf[r], clean)

\* ingest(), the dedupe sweep and the stage update; any of them may raise.
Ingest(t) ==
    /\ pc[t] = "ingest"
    /\ ingestions' = [ingestions EXCEPT ![run[t]] = @ + 1]
    /\ \/ /\ Goto(t, "classify")
          /\ \E clean \in BOOLEAN :
                /\ imported' \in HistoryAfter(run[t], clean)
                /\ verdict' = [verdict EXCEPT
                                  ![t] = IF clean THEN "completed" ELSE "partial"]
       \/ /\ Goto(t, "fail")
          /\ imported' \in HistoryAfter(run[t], FALSE)
          /\ UNCHANGED verdict
    /\ UNCHANGED <<phase, locks, coalesce, req, run, resp, runs, fileOf, calls,
                   crashes>>

\* _classify_pending(): no failures, some, or nothing but failures.
Classify(t) ==
    /\ pc[t] = "classify"
    /\ \/ Goto(t, "publish") /\ UNCHANGED verdict
       \/ /\ Goto(t, "publish")
          /\ \E v \in {"partial", "failed"} : verdict' = [verdict EXCEPT ![t] = v]
       \/ Goto(t, "fail") /\ UNCHANGED verdict
    /\ UNCHANGED <<phase, locks, coalesce, req, run, resp, durable, calls,
                   observed>>

\* _rebuild_insights() and the final status update ...
Publish(t) ==
    /\ pc[t] = "publish"
    /\ Goto(t, "clear")
    /\ runs' = [runs EXCEPT ![run[t]] = verdict[t]]
    /\ UNCHANGED <<phase, locks, coalesce, req, run, verdict, resp, fileOf,
                   imported, calls, observed>>

\* ... either of which may raise.
PublishFails(t) ==
    /\ pc[t] = "publish"
    /\ Goto(t, "fail")
    /\ UNCHANGED <<phase, locks, coalesce, req, run, verdict, resp, durable,
                   calls, observed>>

\* Broken variant: the failure is swallowed, the row stays running.
SwallowFailure(t) ==
    /\ pc[t] = "fail"
    /\ Goto(t, "clear")
    /\ UNCHANGED <<phase, locks, coalesce, req, run, verdict, resp, durable,
                   calls, observed>>

\* The except branch records the failure.
RecordFailure(t) ==
    /\ pc[t] = "fail"
    /\ Goto(t, "clear")
    /\ runs' = [runs EXCEPT ![run[t]] = "failed"]
    /\ UNCHANGED <<phase, locks, coalesce, req, run, verdict, resp, fileOf,
                   imported, calls, observed>>

\* That update raises too: the exception leaves through the finally clause.
RecordRaises(t) ==
    /\ pc[t] = "fail"
    /\ Faults
    /\ Goto(t, "clear")
    /\ resp' = [resp EXCEPT ![t] = "error"]
    /\ UNCHANGED <<phase, locks, coalesce, req, run, verdict, durable, calls,
                   observed>>

\* Broken variant: a settled run keeps the active id.
KeepActive(t) ==
    /\ pc[t] = "clear"
    /\ stateLock = NoThread
    /\ Goto(t, "release")
    /\ UNCHANGED <<phase, locks, coalesce, req, run, verdict, resp, durable,
                   calls, observed>>

\* finally: the active id is cleared under the state lock ...
Clear(t) ==
    /\ pc[t] = "clear"
    /\ stateLock = NoThread
    /\ active' = NoRun
    /\ Goto(t, "release")
    /\ UNCHANGED <<phase, stateLock, pipeLock, pipeDepth, coalesce, req, run,
                   verdict, resp, durable, calls, observed>>

\* ... then the pipeline lock is released and the run is read back.
Release(t) ==
    /\ pc[t] = "release"
    /\ ReleasePipe
    /\ \E answer \in Answers(run[t]) :
          Return(t, IF resp[t] = "error" THEN "error" ELSE answer)
    /\ UNCHANGED <<phase, stateLock, active, coalesce, req, run, verdict,
                   durable, calls, observed>>

------------------------------------------------------------------------------

\* Every call was made and every thread is idle: the bounded run is over.
Done ==
    /\ phase = "serving"
    /\ calls = MaxCalls
    /\ \A t \in Threads : pc[t] = "idle"
    /\ UNCHANGED vars

Call(t) ==
    \/ CallCoalescing(t) \/ CallImport(t)
    \/ \E r \in RunIds :
          \/ Reexecute(t, r)
          \/ \E f \in Files : QueueImport(t, r, f) \/ QueueImportFails(t, r, f)

Elect(t) ==
    \/ ElectBusy(t) \/ ElectFree(t) \/ TakePipe(t)
    \/ AdoptFresh(t) \/ AdoptQueued(t) \/ AdoptExisting(t) \/ AdoptFails(t)
    \/ AnswerBusy(t) \/ WaitBusy(t) \/ BusyFails(t) \/ Await(t)

Execute(t) ==
    \/ Ingest(t) \/ Classify(t) \/ Publish(t) \/ PublishFails(t)
    \/ RecordFailure(t) \/ RecordRaises(t) \/ Clear(t) \/ Release(t)

Step(t) == Elect(t) \/ Execute(t) \/ Deliver(t)

StartUp == Start \/ Boot \/ HydrateInline \/ HydrateSeed \/ Unboot

Next ==
    \/ StartUp \/ Crash \/ OperatorRepair \/ Done
    \/ \E t \in Threads : Call(t) \/ Step(t)

Spec == Init /\ [][Next]_vars

\* Running Python threads keep running; nothing obliges a client to call, a
\* process to crash or an operator to act.  A supervisor restarts the process.
FairSpec ==
    /\ Spec
    /\ WF_vars(StartUp)
    /\ \A t \in Threads : WF_vars(Step(t))

------------------------------------------------------------------------------
(* Properties.                                                              *)

Executing(t, r) == pc[t] \in Body /\ run[t] = r
Orphan(r) == runs[r] = "running" /\ \A t \in Threads : ~Executing(t, r)

\* "One serialized database writer per process": no two threads are inside
\* the body of a pipeline, or in start-up hydration, at the same time.
SingleWriter ==
    \A t, u \in Threads :
        pc[t] \in Body \cup {"hydrate"} /\ pc[u] \in Body \cup {"hydrate"} => t = u

\* One elected run.  A thread works inside a pipeline, or is about to clear
\* it, exactly when it holds the pipeline lock and its run is the active id.
\* So a busy caller always observes the run that is executing, and the
\* "defensive recovery" of _execute_pipeline is never needed.
OneElectedWriter ==
    /\ \A t \in Threads :
          pc[t] \in Body \cup {"clear"}
             => pipeLock = t /\ active = run[t] /\ active # NoRun
    /\ active # NoRun =>
          \E t \in Threads : pc[t] \in Body \cup {"clear"} /\ run[t] = active

\* No thread holds the state lock waiting for the pipeline lock while the
\* holder of the pipeline lock waits for the state lock: the two locks are
\* taken in opposite orders by an election and by the end of a run.
NoCircularWait ==
    \A t, u \in Threads :
        /\ pc[t] = "pipe" /\ stateLock = t
        /\ pipeLock = u /\ u # t
        => pc[u] \notin {"elect", "clear"}

\* "Adopt one durable queued run and execute its upload exactly once": no
\* interleaving, crash or repeated call ingests the same run twice.
IngestedAtMostOnce == \A r \in RunIds : ingestions[r] <= 1

\* An import is unique work: its caller is answered with a settled run, and
\* with a running one only if that run was orphaned by an earlier failure.
ImportAnswersAreFinal ==
    \A t \in Threads :
        pc[t] = "answer" /\ ~coalesce[t] /\ resp[t] \notin Terminal
        => resp[t] = "error" \/ Orphan(run[t])

\* A busy caller that coalesces is handed a run that was begun: never a
\* queued one that still waits, nor one that does not exist.
CoalescedRunHasBegun ==
    \A t \in Threads :
        pc[t] = "busy" => runs[run[t]] \in {"running"} \cup Terminal

\* While no statement raises and no process dies, a run that polls as
\* running is being executed by some thread.
NoOrphans == \A r \in RunIds : ~Orphan(r)

\* Pollers of a run see it move forward only, and see it settle once.
RunsMoveForward ==
    [][\A r \in RunIds :
          \/ runs'[r] = runs[r]
          \/ runs[r] = "absent"
          \/ runs[r] = "queued" /\ runs'[r] = "running"
          \/ runs[r] = "running" /\ runs'[r] \in Terminal]_runs

\* An accepted upload settles, behind any number of other writers.
QueuedRunsSettle ==
    \A r \in RunIds : runs[r] = "queued" ~> runs[r] \in Terminal

\* Whatever raises on the way, a thread leaves the service and the locks
\* it took become free again.
CallsReturn ==
    \A t \in Threads : pc[t] # "idle" ~> pc[t] = "idle"

\* The run a poller may take for live work.
LiveRun == IF active # NoRun /\ runs[active] = "running" THEN active ELSE NoRun

Ledger == INSTANCE RunLedger WITH MaxRuns <- MaxCalls, live <- LiveRun

\* The locks, threads and uploads implement the abstract run ledger.
ImplementsLedger == Ledger!LedgerSpec
=============================================================================
