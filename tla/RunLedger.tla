----------------------------- MODULE RunLedger -----------------------------
(***************************************************************************)
(* What the durable pipeline_runs table promises to whoever polls it: a    *)
(* run is created queued or running, at most one run is being worked on,   *)
(* a run settles once, and work that is lost with the process leaves its   *)
(* row behind until an operator repairs it.  Locks, threads and uploads    *)
(* are not visible here; PipelineRuns implements this module.              *)
(***************************************************************************)
EXTENDS Naturals

CONSTANTS MaxRuns,      \* bound on the pipeline runs ever created
          NoRun         \* "no run", outside the run identifiers

VARIABLES runs,         \* durable status of each run identifier
          live          \* the run some thread is working on, or NoRun

ledgerVars == <<runs, live>>

RunIds   == 1..MaxRuns
Terminal == {"completed", "partial", "failed"}
Statuses == {"absent", "queued", "running"} \cup Terminal

LedgerInit ==
    /\ runs = [r \in RunIds |-> "absent"]
    /\ live = NoRun

\* An upload is accepted: its run is durable before any work starts.
Accept(r) ==
    /\ runs[r] = "absent"
    /\ runs' = [runs EXCEPT ![r] = "queued"]
    /\ UNCHANGED live

\* A run is elected, either fresh or adopted from the queue.
Begin(r) ==
    /\ live = NoRun
    /\ runs[r] \in {"absent", "queued"}
    /\ runs' = [runs EXCEPT ![r] = "running"]
    /\ live' = r

\* The live run settles with a terminal status.
Settle(r, status) ==
    /\ live = r
    /\ runs[r] = "running"
    /\ runs' = [runs EXCEPT ![r] = status]
    /\ live' = NoRun

\* The work is lost and the row stays "running".
Lose ==
    /\ live # NoRun
    /\ live' = NoRun
    /\ UNCHANGED runs

\* The operator marks every run left behind as failed.
Repair ==
    /\ live = NoRun
    /\ runs' = [r \in RunIds |-> IF runs[r] = "running" THEN "failed" ELSE runs[r]]
    /\ UNCHANGED live

LedgerNext ==
    \/ \E r \in RunIds : Accept(r) \/ Begin(r)
    \/ \E r \in RunIds, status \in Terminal : Settle(r, status)
    \/ Lose
    \/ Repair

LedgerSpec == LedgerInit /\ [][LedgerNext]_ledgerVars
=============================================================================
