-------------------------- MODULE IngestRepository --------------------------
(***************************************************************************)
(* Ingestion into feedback_items and the audit rows beside it              *)
(* (guardian_voc/db.py GuardianVocRepository, application.py               *)
(* _ingest_raw_rows and is_imported_file).  The elected pipeline writer is *)
(* the only caller; one step is one statement, or the statements of one    *)
(* row, and the run can be cut off after any of them.                      *)
(***************************************************************************)
EXTENDS Naturals, Sequences

CONSTANTS Rows,       \* feedback identities the connectors yield
          Url, Hash,  \* canonical_url of social rows, and content_hash
          NoUrl,      \* rows outside the social group, or without a URL
          Units,      \* rows a trusted page extractor identified
          Files,      \* contents handed to a connector, by SHA-256
          RowsIn,     \* valid rows of each file
          Foreign,    \* rows the vietnamese_only option filters out
          Faulty,     \* files with rows that are quarantined
          Generic,    \* files in the canonical form, ingested row by row
          Legacies,   \* what earlier versions may have stored, oldest first
          NoRow, NoFile, NoRun,
          MaxRuns,    \* bound on ingestion runs
          MaxFaults   \* bound on raising statements and process deaths

RunIds == 1..MaxRuns

ASSUME RowsAssumption  == /\ NoRow \notin Rows /\ Units \subseteq Rows /\ Foreign \subseteq Rows
                          /\ Legacies \subseteq Seq(Rows)
                          /\ \A table \in Legacies : \A m, n \in 1..Len(table) :
                                table[m] = table[n] => m = n
ASSUME FilesAssumption == /\ NoFile \notin Files
                          /\ RowsIn \in [Files -> SUBSET Rows]
                          /\ Faulty \subseteq Files /\ Generic \subseteq Files
ASSUME LimitsAssumption == MaxRuns \in Nat /\ MaxFaults \in Nat /\ NoRun \notin RunIds

VARIABLES
    stored,      \* durable: feedback_items, oldest ingested_at first
    duplicateOf, \* durable: feedback_items.duplicate_of
    runs,        \* durable: ingestion_runs
    history,     \* durable: imported_files.last_ingestion_run_id
    health,      \* durable: source_status.status
    success,     \* durable: the run that set source_status.last_success_at
    place,       \* next statement of the run
    run,         \* the ingestion run in progress
    todo,        \* its rows still to insert
    some,        \* inserted or skipped > 0
    lost,        \* failed > 0
    faults       \* raising statements and process deaths so far

vars == <<stored, duplicateOf, runs, history, health, success, place, run, todo,
          some, lost, faults>>

Has(table, x) == \E n \in 1..Len(table) : table[n] = x

TypeOK ==
    /\ stored \in Seq(Rows)
    /\ duplicateOf \in [Rows -> Rows \cup {NoRow}]
    /\ runs \in [RunIds -> [status : {"absent", "running", "completed", "partial", "failed"},
                            file : Files \cup {NoFile}, filtered : BOOLEAN]]
    /\ history \in [Files -> RunIds \cup {NoRun}]
    /\ health \in {"unknown", "healthy", "partial", "failed", "stale"}
    /\ success \in RunIds \cup {NoRun}
    /\ place \in {"idle", "rows", "quarantine", "register", "finish", "report", "sweep"}
    /\ run \in RunIds \cup {NoRun}
    /\ todo \subseteq Rows
    /\ some \in BOOLEAN /\ lost \in BOOLEAN
    /\ faults \in 0..MaxFaults

Init ==
    /\ stored \in Legacies
    /\ duplicateOf = [x \in Rows |-> NoRow]
    /\ runs = [r \in RunIds |-> [status |-> "absent", file |-> NoFile, filtered |-> FALSE]]
    /\ history = [f \in Files |-> NoRun]
    /\ health = "unknown" /\ success = NoRun
    /\ place = "idle" /\ run = NoRun /\ todo = {}
    /\ some = FALSE /\ lost = FALSE
    /\ faults = 0

------------------------------------------------------------------------------
(* Identity.                                                                *)

\* Broken variant: replays under a new unit identifier are not recognised.
SameIdentity(x, y) ==
    \/ x = y
    \/ /\ Url[x] # NoUrl /\ Url[y] = Url[x]
       /\ x \notin Units

\* _existing_feedback_id(x) finds y: the identity itself, the same content
\* at the same social URL, or, for an ordinary record, the URL alone.
SameRow(x, y) ==
    \/ x = y
    \/ /\ Url[x] # NoUrl /\ Url[y] = Url[x]
       /\ Hash[y] = Hash[x] \/ x \notin Units

Known(table, x) == \E n \in 1..Len(table) : SameRow(x, table[n])

Inserted(table, x) == IF Known(table, x) THEN table ELSE Append(table, x)

\* Rows of a file that the import asked for.
Wanted(f, filtered) == IF filtered THEN RowsIn[f] \ Foreign ELSE RowsIn[f]

\* is_imported_file.
Imported(f) ==
    history[f] # NoRun /\ runs[history[f]].status \in {"completed", "partial"}

------------------------------------------------------------------------------
(* ingest_connector and _ingest_raw_rows.                                   *)

Fault == faults < MaxFaults /\ faults' = faults + 1

\* create_ingestion_run.  Only queue_import_bytes asks is_imported_file
\* before; the inbox, the collector and the command line do not.
Create(r, f, filtered) ==
    /\ place = "idle"
    /\ runs[r].status = "absent" /\ \A s \in 1..(r - 1) : runs[s].status # "absent"
    /\ runs' = [runs EXCEPT ![r] = [status |-> "running", file |-> f,
                                    filtered |-> filtered]]
    /\ run' = r
    /\ todo' = Wanted(f, filtered)
    /\ some' = FALSE /\ lost' = FALSE
    /\ place' = "rows"
    /\ UNCHANGED <<stored, duplicateOf, history, health, success, faults>>

file == runs[run].file

\* insert_feedback of one row, new or known.
Insert(x) ==
    /\ place = "rows"
    /\ x \in todo
    /\ stored' = Inserted(stored, x)
    /\ todo' = todo \ {x}
    /\ some' = TRUE
    /\ UNCHANGED <<duplicateOf, runs, history, health, success, place, run,
                   lost, faults>>

\* Normalisation or a statement raises for one row; the row may have been
\* written all the same.  A canonical file goes on, a connector stops.
InsertFails(x) ==
    /\ place = "rows"
    /\ x \in todo
    /\ Fault
    /\ stored' \in {stored, Inserted(stored, x)}
    /\ lost' = TRUE
    /\ IF file \in Generic THEN todo' = todo \ {x} /\ place' = "rows"
                           ELSE todo' = {} /\ place' = "finish"
    /\ UNCHANGED <<duplicateOf, runs, history, health, success, run, some>>

AllRowsDone == todo = {}

EndRows ==
    /\ place = "rows"
    /\ AllRowsDone
    /\ place' = IF file \in Generic THEN "finish" ELSE "quarantine"
    /\ UNCHANGED <<stored, duplicateOf, runs, history, health, success, run,
                   todo, some, lost, faults>>

\* record_quarantine for every row the parser refused.
Quarantine ==
    /\ place = "quarantine"
    /\ lost' = (file \in Faulty)
    /\ place' = "register"
    /\ UNCHANGED <<stored, duplicateOf, runs, history, health, success, run,
                   todo, some, faults>>

\* register_import_file: the history row names the last run of this content.
Register ==
    /\ place = "register"
    /\ history' = [history EXCEPT ![file] = run]
    /\ place' = "finish"
    /\ UNCHANGED <<stored, duplicateOf, runs, health, success, run, todo, some,
                   lost, faults>>

\* Either of them raises inside the try block.
AuditFails ==
    /\ place \in {"quarantine", "register"}
    /\ Fault
    /\ lost' = TRUE
    /\ place' = "finish"
    /\ UNCHANGED <<stored, duplicateOf, runs, history, health, success, run,
                   todo, some>>

\* Broken variant: a run that wrote something is completed.
LenientStatus == IF some \/ ~lost THEN "completed" ELSE "failed"

FinalStatus ==
    IF ~lost THEN "completed" ELSE IF some THEN "partial" ELSE "failed"

\* finish_ingestion_run: the run row ...
Finish ==
    /\ place = "finish"
    /\ runs' = [runs EXCEPT ![run].status = FinalStatus]
    /\ place' = "report"
    /\ UNCHANGED <<stored, duplicateOf, history, health, success, run, todo,
                   some, lost, faults>>

IsSuccess == runs[run].status = "completed"

\* ... then the health of its source (update_source_status).
Report ==
    /\ place = "report"
    /\ health' = CASE runs[run].status = "completed" -> "healthy"
                   [] runs[run].status = "partial"   -> "partial"
                   [] runs[run].status = "failed"    -> "failed"
    /\ success' = IF IsSuccess THEN run ELSE success
    /\ place' = "sweep"
    /\ UNCHANGED <<stored, duplicateOf, runs, history, run, todo, some, lost,
                   faults>>

Replay(m, n) ==
    /\ Url[stored[n]] # NoUrl
    /\ Url[stored[m]] = Url[stored[n]] /\ Hash[stored[m]] = Hash[stored[n]]

\* The rank query: the oldest row of the same content at the same URL.
Oldest(n) == CHOOSE m \in 1..n : Replay(m, n) /\ \A k \in 1..(m - 1) : ~Replay(k, n)

\* Broken variant: each replay points at the one before it.
Previous(n) == CHOOSE m \in 1..(n - 1) : Replay(m, n) /\ \A k \in (m + 1)..(n - 1) : ~Replay(k, n)

Canonical(n) == Oldest(n)

IsReplay(n) == \E m \in 1..(n - 1) : Replay(m, n)

\* mark_exact_content_duplicates, one transaction over all replays.
Sweep ==
    /\ place = "sweep"
    /\ duplicateOf' =
          [x \in Rows |->
             IF \E n \in 1..Len(stored) : stored[n] = x /\ IsReplay(n) /\ duplicateOf[x] = NoRow
             THEN stored[Canonical(CHOOSE n \in 1..Len(stored) : stored[n] = x)]
             ELSE duplicateOf[x]]
    /\ place' = "idle"
    /\ UNCHANGED <<stored, runs, history, health, success, run, todo, some,
                   lost, faults>>

\* A statement outside the try block raises, or the process dies.
CutOff ==
    /\ place # "idle"
    /\ Fault
    /\ place' = "idle" /\ todo' = {}
    /\ UNCHANGED <<stored, duplicateOf, runs, history, health, success, run,
                   some, lost>>

\* mark_stale_sources: no success for too long.
MarkStale ==
    /\ place = "idle"
    /\ health \in {"healthy", "partial"}
    /\ health' = "stale"
    /\ UNCHANGED <<stored, duplicateOf, runs, history, success, place, run,
                   todo, some, lost, faults>>

\* Every run of the bounded instance was made.
Done ==
    /\ place = "idle"
    /\ \A r \in RunIds : runs[r].status # "absent"
    /\ UNCHANGED vars

Next ==
    \/ \E r \in RunIds, f \in Files, filtered \in BOOLEAN : Create(r, f, filtered)
    \/ \E x \in Rows : Insert(x) \/ InsertFails(x)
    \/ EndRows \/ Quarantine \/ Register \/ AuditFails \/ Finish \/ Report
    \/ Sweep \/ CutOff \/ MarkStale \/ Done

Spec == Init /\ [][Next]_vars

------------------------------------------------------------------------------
(* Properties.                                                              *)

AllKnown(f, filtered) == \A x \in Wanted(f, filtered) : Known(stored, x)

\* A file the upload check refuses holds no row that was wanted by its last
\* import and is not stored: a failed or cut-off import can be repeated.
ImportedIsStored ==
    \A f \in Files : Imported(f) => AllKnown(f, runs[history[f]].filtered)

\* "While preserving partial success": a run that reads completed stored, or
\* already had, every row of its file and quarantined none.
CompletedIsWhole ==
    \A r \in RunIds : runs[r].status = "completed" =>
        AllKnown(runs[r].file, runs[r].filtered) /\ runs[r].file \notin Faulty \ Generic

\* "Collapse historical exact replays while retaining distinct page units":
\* a duplicate points at a row that counts, and what counts is never two
\* rows of one content at one URL once a sweep has run.
ReplaysAreCollapsed ==
    /\ \A x \in Rows : duplicateOf[x] # NoRow =>
          /\ duplicateOf[duplicateOf[x]] = NoRow
          /\ Has(stored, duplicateOf[x])
    /\ (\E x \in Rows : duplicateOf[x] # NoRow) =>
          \A m, n \in 1..Len(stored) :
             m < n /\ Replay(m, n) => duplicateOf[stored[n]] # NoRow

\* The success time of a source is that of a completed run, also when later
\* attempts failed or were cut off.
SuccessIsEarned == success # NoRun => runs[success].status = "completed"

\* No row enters the table beside a row of the same content at the same URL,
\* whatever identifier the extractor gave it this time.
ReplaysAreRefused ==
    [][\A n \in (Len(stored) + 1)..Len(stored') :
          \A m \in 1..(n - 1) :
             ~(/\ Url[stored'[n]] # NoUrl /\ Url[stored'[m]] = Url[stored'[n]]
               /\ Hash[stored'[m]] = Hash[stored'[n]])]_stored

\* The audit agrees with what is stored, wherever a run raised or was cut off.
AuditAgrees == TypeOK /\ ImportedIsStored /\ CompletedIsWhole /\ SuccessIsEarned
=============================================================================
