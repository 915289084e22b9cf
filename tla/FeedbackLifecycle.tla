------------------------- MODULE FeedbackLifecycle -------------------------
(***************************************************************************)
(* The classification life of feedback_items inside one pipeline run:      *)
(* ownership, the replay sweep, quarantine, provider attempts and the two  *)
(* statements that persist each outcome (guardian_voc/application.py,      *)
(* data_layer.py, db.py).  Every step is one database statement, so a run  *)
(* can be cut off between any two of them.                                 *)
(***************************************************************************)
EXTENDS Naturals, FiniteSets

CONSTANTS Items,        \* feedback identities
          Replays,      \* those stored twice before replays were refused
          Ownable,      \* those from a verified official handle
          Codes,        \* (model, failure type, error code) of a failure
          Malformed,    \* the one of a MalformedProviderResponse
          NoItem,       \* no item in hand
          MaxPrompts,   \* bound on deployed classifier contract versions
          MaxAborts     \* bound on runs cut off by a crash or a statement

ASSUME ItemsAssumption   == Replays \subseteq Items /\ Ownable \subseteq Items
ASSUME NoItemAssumption  == NoItem \notin Items
ASSUME CodesAssumption   == Malformed \in Codes
ASSUME LimitsAssumption  == /\ MaxPrompts \in Nat \ {0}
                            /\ MaxAborts \in Nat

VARIABLES
    status,     \* durable: feedback_items.analysis_status
    duplicate,  \* durable: feedback_items.duplicate_of IS NOT NULL
    owned,      \* durable: the brand was fixed from a verified owner
    analysis,   \* durable: brand input the feedback_analyses row was made from
    failures,   \* durable: classification_failures rows
    prompt,     \* ITEM_CLASSIFIER_PROMPT_VERSION of the deployed code
    place,      \* next statement of the pipeline run
    cur,        \* item whose second statement is due
    todo,       \* rows the run selected and has not attempted yet
    aborts      \* runs cut off so far

table == <<status, duplicate, owned, analysis, failures>>
vars  == <<table, prompt, place, cur, todo, aborts>>

Settled  == {"completed", "low_confidence"}
Statuses == {"absent", "pending", "failed", "skipped"} \cup Settled
Places   == {"idle", "ingest", "drop", "requeue", "exhaust", "attempt",
             "status", "record", "mark"}

TypeOK ==
    /\ status \in [Items -> Statuses]
    /\ duplicate \in [Items -> BOOLEAN]
    /\ owned \in [Items -> BOOLEAN]
    /\ analysis \in [Items -> {"none", "unowned", "owned"}]
    /\ failures \subseteq Items \X (1..MaxPrompts) \X Codes
    /\ prompt \in 1..MaxPrompts
    /\ place \in Places
    /\ cur \in Items \cup {NoItem}
    /\ todo \subseteq Items
    /\ aborts \in 0..MaxAborts

\* Replays are left over from earlier versions, classified or not.
Init ==
    /\ \E done \in SUBSET Replays :
          /\ status = [i \in Items |-> IF i \in done THEN "completed"
                                       ELSE IF i \in Replays THEN "pending"
                                       ELSE "absent"]
          /\ analysis = [i \in Items |-> IF i \in done THEN "unowned" ELSE "none"]
    /\ duplicate = [i \in Items |-> FALSE]
    /\ owned = [i \in Items |-> FALSE]
    /\ failures = {}
    /\ prompt = 1
    /\ place = "idle" /\ cur = NoItem /\ todo = {}
    /\ aborts = 0

------------------------------------------------------------------------------
(* The rows each query of _classify_pending finds.                          *)

Stored(i) == status[i] # "absent"
Causes(i) == {c \in Codes : <<i, prompt, c>> \in failures}

\* Broken variant: the quarantine counts causes only.
CountedOnly(i)   == Cardinality(Causes(i)) >= 2

\* Two failure rows, or one malformed provider response, under this prompt.
Hopeless(i) == Cardinality(Causes(i)) >= 2 \/ Malformed \in Causes(i)

\* Skipped, but never failed under the deployed contract version.
Fresh(i) == /\ status[i] = "skipped" /\ ~duplicate[i]
            /\ analysis[i] = "none" /\ Causes(i) = {}

Exhausted(i) == /\ Stored(i) /\ analysis[i] = "none" /\ ~duplicate[i]
                /\ status[i] # "skipped" /\ Hopeless(i)

\* Broken variant: only pending rows are classified.
PendingOnly(i) == /\ status[i] = "pending" /\ analysis[i] = "none"
                  /\ ~duplicate[i]

\* No analysis yet, not a duplicate, not skipped.
Open(i) == /\ Stored(i) /\ analysis[i] = "none"
           /\ ~duplicate[i] /\ status[i] # "skipped"

------------------------------------------------------------------------------
(* One pipeline run.                                                        *)

Begin ==
    /\ place = "idle"
    /\ place' = "ingest"
    /\ UNCHANGED <<table, prompt, cur, todo, aborts>>

\* insert_feedback of an identity that is not stored yet.
Insert(i) ==
    /\ place = "ingest"
    /\ ~Stored(i)
    /\ status' = [status EXCEPT ![i] = "pending"]
    /\ UNCHANGED <<duplicate, owned, analysis, failures, prompt, place, cur,
                   todo, aborts>>

\* Broken variant: ownership leaves the status alone.
ClaimKeepsStatus(i) == UNCHANGED status

ClaimStatus(i) == status' = [status EXCEPT ![i] = "pending"]

\* apply_verified_source_ownership: the row takes its owner ...
Claim(i) ==
    /\ place = "ingest"
    /\ Stored(i) /\ i \in Ownable /\ ~owned[i]
    /\ owned' = [owned EXCEPT ![i] = TRUE]
    /\ ClaimStatus(i)
    /\ place' = "drop" /\ cur' = i
    /\ UNCHANGED <<duplicate, analysis, failures, prompt, todo, aborts>>

\* ... and then loses its analysis.
DropAnalysis ==
    /\ place = "drop"
    /\ analysis' = [analysis EXCEPT ![cur] = "none"]
    /\ place' = "ingest" /\ cur' = NoItem
    /\ UNCHANGED <<status, duplicate, owned, failures, prompt, todo,
                   aborts>>

\* mark_exact_content_duplicates, one transaction over every replay.
Sweep ==
    /\ place = "ingest"
    /\ LET swept == {i \in Replays : Stored(i) /\ ~duplicate[i]} IN
       /\ duplicate' = [i \in Items |-> duplicate[i] \/ i \in swept]
       /\ status' = [i \in Items |-> IF i \in swept THEN "skipped" ELSE status[i]]
    /\ place' = "requeue"
    /\ UNCHANGED <<owned, analysis, failures, prompt, cur, todo, aborts>>

\* A contract upgrade gives skipped rows one fresh attempt.
Requeue ==
    /\ place = "requeue"
    /\ status' = [i \in Items |-> IF Fresh(i) THEN "pending" ELSE status[i]]
    /\ place' = "exhaust"
    /\ UNCHANGED <<duplicate, owned, analysis, failures, prompt, cur, todo,
                   aborts>>

\* Rows that used up their attempts are skipped, one statement each.
Quarantine(i) ==
    /\ place = "exhaust"
    /\ Exhausted(i)
    /\ status' = [status EXCEPT ![i] = "skipped"]
    /\ UNCHANGED <<duplicate, owned, analysis, failures, prompt, place, cur,
                   todo, aborts>>

Select ==
    /\ place = "exhaust"
    /\ \A i \in Items : ~Exhausted(i)
    /\ todo' = {i \in Items : Open(i)}
    /\ place' = "attempt"
    /\ UNCHANGED <<table, prompt, cur, aborts>>

\* The provider (or a fixture or inline label) is asked about one row.
Attempt(i) ==
    /\ place = "attempt"
    /\ i \in todo
    /\ todo' = todo \ {i}
    /\ cur' = i

\* _persist_analysis: the analysis row ...
Succeed(i) ==
    /\ Attempt(i)
    /\ analysis' = [analysis EXCEPT ![i] = IF owned[i] THEN "owned" ELSE "unowned"]
    /\ place' = "status"
    /\ UNCHANGED <<status, duplicate, owned, failures, prompt, aborts>>

\* What apply_low_confidence_policy makes of a valid result.
Outcomes == {"completed", "low_confidence"}

\* ... and then the status of the item.
SetStatus ==
    /\ place = "status"
    /\ \E outcome \in Outcomes : status' = [status EXCEPT ![cur] = outcome]
    /\ place' = "attempt" /\ cur' = NoItem
    /\ UNCHANGED <<duplicate, owned, analysis, failures, prompt, todo,
                   aborts>>

\* That statement raises inside the try block: the item counts as failed.
SetStatusRaises ==
    /\ place = "status"
    /\ aborts < MaxAborts
    /\ aborts' = aborts + 1
    /\ place' = "record"
    /\ UNCHANGED <<table, prompt, cur, todo>>

\* The label is invalid, the provider fails or none is configured.
Fail(i) ==
    /\ Attempt(i)
    /\ place' = "record"
    /\ UNCHANGED <<table, prompt, aborts>>

\* _record_classification_failure: one row per item, prompt and cause.
Record ==
    /\ place = "record"
    /\ \E c \in Codes : failures' = failures \cup {<<cur, prompt, c>>}
    /\ place' = "mark"
    /\ UNCHANGED <<status, duplicate, owned, analysis, prompt, cur, todo,
                   aborts>>

MarkFailed ==
    /\ place = "mark"
    /\ status' = [status EXCEPT ![cur] = "failed"]
    /\ place' = "attempt" /\ cur' = NoItem
    /\ UNCHANGED <<duplicate, owned, analysis, failures, prompt, todo,
                   aborts>>

Finish ==
    /\ place = "attempt"
    /\ todo = {}
    /\ place' = "idle"
    /\ UNCHANGED <<table, prompt, cur, todo, aborts>>

\* The process dies, or a statement outside the try block raises: the run
\* ends here, with what it committed.
Abort ==
    /\ place # "idle"
    /\ aborts < MaxAborts
    /\ aborts' = aborts + 1
    /\ place' = "idle" /\ cur' = NoItem /\ todo' = {}
    /\ UNCHANGED <<table, prompt>>

\* A deployment with a new classifier contract, between two runs.
Deploy ==
    /\ place = "idle"
    /\ prompt < MaxPrompts
    /\ prompt' = prompt + 1
    /\ UNCHANGED <<table, place, cur, todo, aborts>>

RunStep ==
    \/ Begin \/ DropAnalysis \/ Sweep \/ Requeue \/ Select
    \/ SetStatus \/ Record \/ MarkFailed \/ Finish
    \/ \E i \in Items : \/ Claim(i) \/ Quarantine(i)
                        \/ Succeed(i) \/ Fail(i)

Next ==
    \/ RunStep \/ SetStatusRaises \/ Abort \/ Deploy
    \/ \E i \in Items : Insert(i)

Spec == Init /\ [][Next]_vars

\* The scheduler keeps starting runs and a run goes on until it ends.
FairSpec == Spec /\ WF_vars(RunStep)

------------------------------------------------------------------------------
(* Properties.                                                              *)

\* Reports that count completed items join feedback_analyses: wherever a run
\* is cut off, an item never reads as classified without its analysis.
CompletedIsAnalysed ==
    \A i \in Items : status[i] \in Settled => analysis[i] # "none"

\* Before rows are selected, a skipped row is a duplicate, is analysed, or
\* failed under the deployed contract: an upgrade gave the others a chance.
SkippedIsEarned ==
    place \in {"exhaust", "attempt"} =>
        \A i \in Items : status[i] = "skipped" =>
            duplicate[i] \/ analysis[i] # "none" \/ Causes(i) # {}

\* No row collects a third cause of failure under one contract.
AtMostTwoCauses == \A i \in Items : Cardinality(Causes(i)) <= 2

\* Between runs, as long as none was cut off, a row that has an analysis says
\* so: such a row is never selected again, so nothing else would repair it.
AnalysedIsCompleted ==
    place = "idle" /\ aborts = 0 =>
        \A i \in Items :
            analysis[i] # "none" /\ ~duplicate[i] => status[i] \in Settled

\* A failed row is selected again or quarantined; it is never forgotten.
FailedIsRevisited ==
    \A i \in Items :
        status[i] = "failed" /\ analysis[i] = "none" /\ ~duplicate[i]
            ~> i \in todo \/ status[i] # "failed"

\* "Existing analyses are invalidated because brand attribution is part of the
\* classifier's trusted input" (apply_verified_source_ownership): between runs,
\* as long as none was cut off between its two statements, an owned row has no
\* analysis of the time before.
AnalysesKnowTheOwner ==
    place = "idle" /\ aborts = 0 =>
        \A i \in Items : owned[i] => analysis[i] # "unowned"

\* What the rows say of each other, whatever was cut off: classified rows have
\* an analysis, skips were earned, two causes are enough for a quarantine; and
\* while nothing was cut off analyses, statuses and owners agree.
RowsAgree ==
    /\ TypeOK
    /\ CompletedIsAnalysed /\ AnalysedIsCompleted
    /\ SkippedIsEarned /\ AtMostTwoCauses /\ AnalysesKnowTheOwner

\* The provider is never asked about a replay that was swept, although
\* ownership may have put its status back to pending, nor again about a row
\* whose answer was malformed under this contract: "a record-level quarantine",
\* even after a cut-off run.
AttemptsAreDue ==
    [][\A i \in Items :
          place = "attempt" /\ cur' = i /\ prompt' = prompt
             => ~duplicate[i] /\ Malformed \notin Causes(i)]_vars
=============================================================================
