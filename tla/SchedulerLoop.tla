---------------------------- MODULE SchedulerLoop ----------------------------
(***************************************************************************)
(* PipelineScheduler (guardian_voc/runtime.py) under the FastAPI lifespan  *)
(* (guardian_voc/api/main.py): the scheduler thread repeats cycles with    *)
(* bounded backoff while the lifespan starts it, serves, and finally stops *)
(* it, waits a bounded time for it and closes the database.                *)
(***************************************************************************)
EXTENDS Naturals

CONSTANTS Interval,     \* voc_scheduler_interval_seconds
          MaxBackoff,   \* voc_scheduler_max_backoff_seconds
          Calls,        \* paid calls of a cycle: 1 for the full flow, one per
                        \* crawler keyword, or none
          MaxFailures   \* failing cycles in a row are counted up to here

ASSUME DelayAssumption  == /\ Interval \in Nat \ {0}
                           /\ MaxBackoff \in Nat \ {0}
ASSUME CallsAssumption == Calls \in Nat /\ MaxFailures \in Nat
\* A fact about numbers that the provers do not know.
ASSUME PowersAssumption == \A n \in 0 .. MaxFailures : 2 ^ n \in Nat \ {0}

VARIABLES
    life,      \* the lifespan: "boot", "serving", "stopping", "joining", ...
    open,      \* the service's database handle was not closed yet
    stop,      \* _stop_event
    state,     \* _state, what GET /runtime shows
    loop,      \* where the scheduler thread stands
    failures,  \* _consecutive_failures
    collected, \* FALSE when the collector poll of this cycle failed
    left,      \* paid calls this cycle still has to make
    delay,     \* seconds the thread last went to sleep for
    streak     \* failing cycles since the last good one (observer)

loopVars == <<life, open, stop, state, loop, failures, collected, left, delay, streak>>

Cycle == {"poll", "import", "paid", "finish"}

LoopTypeOK ==
    /\ life \in {"boot", "serving", "stopping", "joining", "closing", "left", "closed"}
    /\ open \in BOOLEAN /\ stop \in BOOLEAN
    /\ state \in {"starting", "running", "idle", "backoff", "stopping", "stopped"}
    /\ loop \in {"none", "initial", "top", "sleep", "wait", "ended"} \cup Cycle
    /\ failures \in 0..MaxFailures
    /\ collected \in BOOLEAN
    /\ left \in 0..Calls
    /\ delay \in Nat
    /\ streak \in 0..MaxFailures

LoopInit ==
    /\ life = "boot"
    /\ open = TRUE /\ stop = FALSE
    /\ state = "starting"
    /\ loop = "none"
    /\ failures = 0
    /\ collected = TRUE /\ left = 0
    /\ delay = 0
    /\ streak = 0

------------------------------------------------------------------------------
(* The lifespan.                                                            *)

\* start(): a fresh event, a fresh thread.
Start ==
    /\ life = "boot"
    /\ life' = "serving"
    /\ stop' = FALSE /\ state' = "starting"
    /\ loop' = "initial"
    /\ UNCHANGED <<open, failures, collected, left, delay, streak>>

\* stop(): the state first, under the lock ...
AskToStop ==
    /\ life = "serving"
    /\ life' = "stopping"
    /\ state' = "stopping"
    /\ UNCHANGED <<open, stop, loop, failures, collected, left, delay, streak>>

\* ... then the event, outside it ...
SetEvent ==
    /\ life = "stopping"
    /\ life' = "joining"
    /\ stop' = TRUE
    /\ UNCHANGED <<open, state, loop, failures, collected, left, delay, streak>>

\* ... and a join with a timeout, which may run out at any time.
Joined ==
    /\ life = "joining"
    /\ loop = "ended"
    /\ life' = "closing"
    /\ state' = "stopped"
    /\ UNCHANGED <<open, stop, loop, failures, collected, left, delay, streak>>

\* Broken variant: the lifespan closes the service whatever join() saw.
AlwaysClose == life' = "closing"

LeaveOpen == life' = "left"

JoinTimesOut ==
    /\ life = "joining"
    /\ loop # "ended"
    /\ LeaveOpen
    /\ UNCHANGED <<open, stop, state, loop, failures, collected, left, delay,
                   streak>>

\* service.close().
Close ==
    /\ life = "closing"
    /\ life' = "closed"
    /\ open' = FALSE
    /\ UNCHANGED <<stop, state, loop, failures, collected, left, delay, streak>>

------------------------------------------------------------------------------
(* The scheduler thread.                                                    *)

Smaller(a, b) == IF a < b THEN a ELSE b

\* _delay_after_cycle.
Delay(f) == IF f = 0 THEN Interval ELSE Smaller(Interval * 2 ^ (f - 1), MaxBackoff)

\* Broken variant: the thread looks at the event in the middle of a cycle only.
EventIgnored == FALSE

Stopped == stop

\* The initial delay of _run, or the event during it.
FirstSleep ==
    /\ loop = "initial"
    /\ state' = IF state = "starting" THEN "idle" ELSE state
    /\ loop' = "wait"
    /\ UNCHANGED <<life, open, stop, failures, collected, left, delay, streak>>

\* _wait: the state is published, then the thread waits for the event.
Sleep ==
    /\ loop = "sleep"
    /\ delay' = Delay(failures)
    /\ loop' = "wait"
    /\ UNCHANGED <<life, open, stop, state, failures, collected, left, streak>>

\* The wait ends with the timeout or with the event.
Wake ==
    /\ loop = "wait"
    /\ loop' = IF Stopped THEN "ended" ELSE "top"
    /\ UNCHANGED <<life, open, stop, state, failures, collected, left, delay,
                   streak>>

\* while not _stop_event.is_set(): run_once().
Begin ==
    /\ loop = "top"
    /\ IF Stopped THEN loop' = "ended" /\ state' = state
                  ELSE loop' = "poll" /\ state' = "running"
    /\ UNCHANGED <<life, open, stop, failures, collected, left, delay, streak>>

\* collector.poll(), its failure is kept for the end of the cycle; a set
\* event ends the cycle right here, with the state left as it is.
Collect ==
    /\ loop = "poll"
    /\ collected' \in BOOLEAN
    /\ loop' = IF stop THEN "sleep" ELSE "import"
    /\ UNCHANGED <<life, open, stop, state, failures, left, delay, streak>>

\* run_all() was published; the paid calls of this cycle come next.
ImportInbox ==
    /\ loop = "import"
    /\ loop' = "paid"
    /\ left' = Calls
    /\ UNCHANGED <<life, open, stop, state, failures, collected, delay, streak>>

MorePaid == left > 0 /\ ~stop

\* A live collection or the crawl of one keyword, not after the event.
CallPaid ==
    /\ loop = "paid"
    /\ MorePaid
    /\ left' = left - 1
    /\ UNCHANGED <<life, open, stop, state, loop, failures, collected, delay,
                   streak>>

Counted(n) == Smaller(n + 1, MaxFailures)

CollectedWell == collected

\* Every call of the cycle succeeded.
Succeed ==
    /\ loop = "paid" /\ ~MorePaid
    /\ CollectedWell
    /\ failures' = 0
    /\ streak' = IF collected THEN 0 ELSE Counted(streak)
    /\ state' = "idle"
    /\ loop' = "sleep"
    /\ left' = 0
    /\ UNCHANGED <<life, open, stop, collected, delay>>

\* Broken variant: the exception leaves run_once() and ends the thread.
EndThread == loop' = "ended"

KeepLooping == loop' = "sleep"

\* A run was busy, failed or raised, or else the collector had failed.
Fail ==
    /\ \/ loop = "import"
       \/ loop = "paid" /\ (MorePaid \/ ~collected)
    /\ failures' = Counted(failures) /\ streak' = Counted(streak)
    /\ state' = "backoff"
    /\ KeepLooping
    /\ left' = 0
    /\ UNCHANGED <<life, open, stop, collected, delay>>

------------------------------------------------------------------------------

\* The lifespan is over; what is left of the thread dies with the process.
Over ==
    /\ life \in {"left", "closed"} /\ loop = "ended"
    /\ UNCHANGED loopVars

LoopStep ==
    \/ FirstSleep \/ Sleep \/ Wake \/ Begin \/ Collect \/ ImportInbox
    \/ CallPaid \/ Succeed \/ Fail

Shutdown == SetEvent \/ Joined \/ Close

LoopNext == Start \/ AskToStop \/ Shutdown \/ JoinTimesOut \/ LoopStep \/ Over

LoopSpec == LoopInit /\ [][LoopNext]_loopVars

\* The thread goes on, since the calls it makes return (CallsReturn of
\* PipelineRuns), and a shutdown that began is completed; nothing obliges
\* anyone to begin one.
FairLoopSpec == LoopSpec /\ WF_loopVars(LoopStep) /\ WF_loopVars(Start) /\ WF_loopVars(Shutdown)

------------------------------------------------------------------------------
(* Properties.                                                              *)

\* "Do not close its active DuckDB connection underneath an in-flight network
\* pipeline": no cycle ever runs on a closed handle.
OpenWhileWorking == loop \in Cycle => open

\* What GET /ready answers from the scheduler's snapshot.
Ready == loop \in {"none", "ended"} => state \in {"starting", "stopping"}

\* Whatever its cycles run into, a serving container stays ready: only a
\* shutdown ends the scheduler thread.
ReadyWhileServing == life = "serving" => Ready

\* "Continuously run ... with bounded backoff": a failing scheduler never
\* sleeps beyond the bound, nor, if the bound is no shorter than the interval
\* (the settings do not demand it), less than a healthy one.
DelayWithinBounds ==
    delay # 0 => /\ delay <= MaxBackoff \/ delay = Interval
                 /\ Interval <= MaxBackoff => delay >= Interval

\* "A malformed optional file snapshot remains failed and retryable, but must
\* not suppress" the rest of the cycle: the rest succeeding does not make the
\* cycle a good one either.
FailuresAreCounted == failures = streak

\* The event ends the thread, wherever it arrives.
StopEndsTheThread == stop ~> loop = "ended"

\* A failed cycle is tried again unless the service shuts down.
FailedCyclesAreRetried == state = "backoff" ~> loop = "poll" \/ stop
\* A stop that times out closes nothing under a cycle, a serving container
\* stays ready, and failures are counted and slept off within bounds.
CyclesAreSafe ==
    /\ LoopTypeOK
    /\ OpenWhileWorking /\ ReadyWhileServing
    /\ DelayWithinBounds /\ FailuresAreCounted
=============================================================================
