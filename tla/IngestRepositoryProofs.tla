----------------------- MODULE IngestRepositoryProofs -----------------------
(***************************************************************************)
(* Theorems about IngestRepository, for any number of rows, files, runs,   *)
(* legacies and faults.                                                    *)
(***************************************************************************)
EXTENDS IngestRepository, WellFoundedInduction, TLAPS

\* A run is in progress exactly up to its Finish, and an ordinary connector
\* inserts rows only while nothing was lost.
RunInv ==
    /\ place # "idle" => run \in RunIds /\ file \in Files
    /\ place \in {"rows", "quarantine", "register", "finish"} => runs[run].status = "running"
    /\ place \in {"report", "sweep"} => runs[run].status \in {"completed", "partial", "failed"}
    /\ place \in {"rows", "quarantine"} /\ file \notin Generic => ~lost

\* The rows a run has behind it are stored unless one of them was lost.
StoredInv ==
    /\ place = "rows" /\ ~lost =>
          \A x \in Wanted(file, runs[run].filtered) \ todo : Known(stored, x)
    /\ place \in {"quarantine", "register"} => AllKnown(file, runs[run].filtered)
    /\ place = "finish" /\ ~lost => AllKnown(file, runs[run].filtered)

\* No loss means that no row of the file was quarantined.
QuarantineInv ==
    /\ place \in {"quarantine", "register"} => file \notin Generic
    /\ place \in {"register", "finish"} /\ ~lost => file \notin Faulty \ Generic

\* A file is in the history once its rows are stored.
HistoryInv == \A f \in Files : history[f] # NoRun =>
    runs[history[f]].status # "absent" /\ AllKnown(f, runs[history[f]].filtered)

\* A run that was begun names its file.
FileInv == \A r \in RunIds : runs[r].status # "absent" => runs[r].file \in Files

\* All rows of a file that were wanted can be found in a table.
Holds(table, f, filtered) == \A x \in Wanted(f, filtered) : Known(table, x)

IndInv ==
    /\ TypeOK /\ RunInv /\ StoredInv /\ QuarantineInv /\ HistoryInv /\ FileInv
    /\ CompletedIsWhole /\ SuccessIsEarned

-----------------------------------------------------------------------------

\* A row that was found once is found for ever, and an inserted one is found.
LEMMA KnownStays ==
    ASSUME NEW table \in Seq(Rows), NEW x \in Rows
    PROVE  /\ Inserted(table, x) \in Seq(Rows) /\ Known(Inserted(table, x), x)
           /\ \A y : Known(table, y) => Known(Inserted(table, x), y)
<1>1. CASE Known(table, x)
    BY <1>1 DEF Inserted
<1>2. CASE ~Known(table, x)
  <2> DEFINE longer == Append(table, x)
  <2>1. /\ longer \in Seq(Rows) /\ Len(longer) = Len(table) + 1 /\ Len(table) \in Nat
        /\ longer[Len(table) + 1] = x
        /\ \A n \in 1 .. Len(table) : longer[n] = table[n]
    OBVIOUS
  <2>2. Known(longer, x)
    BY <2>1 DEF Known, SameRow
  <2>3. \A y : Known(table, y) => Known(longer, y)
    BY <2>1 DEF Known
  <2> QED
    BY <1>2, <2>1, <2>2, <2>3 DEF Inserted
<1> QED
    BY <1>1, <1>2

\* The oldest row of the content of a replay exists.
LEMMA OldestExists ==
    ASSUME stored \in Seq(Rows), NEW n \in 1 .. Len(stored), Url[stored[n]] # NoUrl
    PROVE  /\ Oldest(n) \in 1 .. n /\ Replay(Oldest(n), n)
           /\ \A k \in 1 .. (Oldest(n) - 1) : ~Replay(k, n)
<1> DEFINE S == {m \in 1 .. n : Replay(m, n)}
<1>1. n \in S /\ S \subseteq Nat
    BY DEF Replay
<1>2. PICK m \in S : \A k \in S : ~ <<k, m>> \in OpToRel(<, Nat)
    BY <1>1, NatLessThanWellFounded, WFMin
<1>3. \A k \in S : ~ k < m
    BY <1>1, <1>2 DEF OpToRel
<1>4. \A k \in 1 .. (m - 1) : ~Replay(k, n)
    BY <1>1, <1>3
<1> QED
    BY <1>4 DEF Oldest

\* A sweep marks rows with rows.
LEMMA SweepTyped ==
    ASSUME TypeOK, Sweep
    PROVE  duplicateOf' \in [Rows -> Rows \cup {NoRow}]
<1>1. ASSUME NEW x \in Rows, NEW n \in 1 .. Len(stored), stored[n] = x, IsReplay(n)
      PROVE  stored[Canonical(CHOOSE k \in 1 .. Len(stored) : stored[k] = x)] \in Rows
  <2> DEFINE k == CHOOSE i \in 1 .. Len(stored) : stored[i] = x
  <2>1. k \in 1 .. Len(stored) /\ stored[k] = x
    BY <1>1
  <2>2. Url[x] # NoUrl
    BY <1>1 DEF IsReplay, Replay
  <2>3. stored \in Seq(Rows)
    BY DEF TypeOK
  <2> HIDE DEF k
  <2>4. Oldest(k) \in 1 .. k
    BY <2>1, <2>2, <2>3, OldestExists
  <2>5. stored[Oldest(k)] \in Rows
    BY <2>1, <2>3, <2>4
  <2> QED
    BY <2>5 DEF Canonical, k
<1> QED
    BY <1>1 DEF Sweep, TypeOK

LEMMA InitInv == Init => IndInv
<1> SUFFICES ASSUME Init PROVE IndInv
    OBVIOUS
<1>1. stored \in Seq(Rows) /\ duplicateOf \in [Rows -> Rows \cup {NoRow}]
    BY RowsAssumption DEF Init
<1>2. runs \in [RunIds -> [status : {"absent", "running", "completed", "partial", "failed"},
                           file : Files \cup {NoFile}, filtered : BOOLEAN]]
    BY DEF Init
<1>3. some \in BOOLEAN /\ lost \in BOOLEAN
    BY Zenon DEF Init
<1>4. TypeOK
    BY <1>1, <1>2, <1>3, LimitsAssumption DEF Init, TypeOK
<1>5. \A r \in RunIds : runs[r].status = "absent"
    BY DEF Init
<1> QED
    BY <1>4, <1>5 DEF Init, IndInv, RunInv, StoredInv, QuarantineInv, HistoryInv, FileInv,
       CompletedIsWhole, SuccessIsEarned

LEMMA TypeStep == TypeOK /\ RunInv /\ [Next]_vars => TypeOK'
<1> SUFFICES ASSUME TypeOK, RunInv, [Next]_vars PROVE TypeOK'
    OBVIOUS
<1>1. ASSUME NEW r \in RunIds, NEW f \in Files, NEW filtered \in BOOLEAN, Create(r, f, filtered)
      PROVE  TypeOK'
  <2>1. runs' \in [RunIds -> [status : {"absent", "running", "completed", "partial", "failed"},
                              file : Files \cup {NoFile}, filtered : BOOLEAN]]
    BY <1>1 DEF Create, TypeOK
  <2>2. todo' \subseteq Rows
    BY <1>1, FilesAssumption DEF Create, Wanted
  <2>3. some' \in BOOLEAN /\ lost' \in BOOLEAN
    BY <1>1, Zenon DEF Create
  <2> QED
    BY <1>1, <2>1, <2>2, <2>3, Zenon DEF Create, TypeOK
<1>2. ASSUME NEW x \in Rows, Insert(x) PROVE TypeOK'
  <2>1. stored' \in Seq(Rows)
    BY <1>2, KnownStays DEF Insert, TypeOK
  <2>2. todo' \subseteq Rows
    BY <1>2 DEF Insert, TypeOK
  <2>3. some' \in BOOLEAN
    BY <1>2, Zenon DEF Insert
  <2> QED
    BY <1>2, <2>1, <2>2, <2>3, Zenon DEF Insert, TypeOK
<1>3. ASSUME Fault PROVE faults' \in 0 .. MaxFaults
    BY <1>3, LimitsAssumption DEF Fault, TypeOK
<1>4. ASSUME NEW x \in Rows, InsertFails(x) PROVE TypeOK'
  <2>1. stored' \in Seq(Rows)
    BY <1>4, KnownStays DEF InsertFails, TypeOK
  <2>2. todo' \subseteq Rows /\ place' \in {"rows", "finish"}
    BY <1>4 DEF InsertFails, TypeOK
  <2>3. lost' \in BOOLEAN
    BY <1>4, Zenon DEF InsertFails
  <2>4. faults' \in 0 .. MaxFaults
    BY <1>3, <1>4 DEF InsertFails
  <2> QED
    BY <1>4, <2>1, <2>2, <2>3, <2>4, Zenon DEF InsertFails, TypeOK
<1>5. CASE EndRows
  <2>1. place' \in {"finish", "quarantine"}
    BY <1>5 DEF EndRows
  <2> QED
    BY <1>5, <2>1, Zenon DEF EndRows, TypeOK
<1>6. CASE Quarantine
  <2>1. lost' \in BOOLEAN
    BY <1>6 DEF Quarantine
  <2> QED
    BY <1>6, <2>1, Zenon DEF Quarantine, TypeOK
<1>7. CASE Register
  <2>1. history' \in [Files -> RunIds \cup {NoRun}]
    BY <1>7 DEF Register, TypeOK, RunInv
  <2> QED
    BY <1>7, <2>1, Zenon DEF Register, TypeOK
<1>8. CASE AuditFails
  <2>1. lost' \in BOOLEAN
    BY <1>8, Zenon DEF AuditFails
  <2>2. faults' \in 0 .. MaxFaults
    BY <1>3, <1>8 DEF AuditFails
  <2> QED
    BY <1>8, <2>1, <2>2, Zenon DEF AuditFails, TypeOK
<1>9. CASE Finish
  <2>1. FinalStatus \in {"completed", "partial", "failed"}
    BY DEF FinalStatus
  <2>2. runs' \in [RunIds -> [status : {"absent", "running", "completed", "partial", "failed"},
                              file : Files \cup {NoFile}, filtered : BOOLEAN]]
    BY <1>9, <2>1 DEF Finish, TypeOK
  <2> QED
    BY <1>9, <2>2, Zenon DEF Finish, TypeOK
<1>10. CASE Report
  <2>1. health' \in {"healthy", "partial", "failed"}
    BY <1>10 DEF Report, RunInv
  <2>2. success' \in RunIds \cup {NoRun}
    BY <1>10 DEF Report, RunInv, TypeOK
  <2> QED
    BY <1>10, <2>1, <2>2, Zenon DEF Report, TypeOK
<1>11. CASE Sweep
    BY <1>11, SweepTyped, Zenon DEF Sweep, TypeOK
<1>12. CASE CutOff
  <2>1. faults' \in 0 .. MaxFaults /\ todo' = {} /\ place' = "idle"
    BY <1>3, <1>12 DEF CutOff
  <2>2. todo' \subseteq Rows
    BY <2>1
  <2> QED
    BY <1>12, <2>1, <2>2, Zenon DEF CutOff, TypeOK
<1>13. CASE MarkStale
    BY <1>13, Zenon DEF MarkStale, TypeOK
<1>14. CASE Done \/ UNCHANGED vars
    BY <1>14, Zenon DEF Done, vars, TypeOK
<1> QED
    BY <1>1, <1>2, <1>4, <1>5, <1>6, <1>7, <1>8, <1>9, <1>10, <1>11, <1>12, <1>13, <1>14
       DEF Next

\* Steps that leave the run rows alone, and lose no stored row, keep what
\* the tables say of runs and files.
LEMMA AuditStays ==
    ASSUME IndInv, UNCHANGED <<runs, history>>,
           \A x \in Rows : Known(stored, x) => Known(stored, x)'
    PROVE  /\ HistoryInv' /\ FileInv' /\ CompletedIsWhole'
           /\ \A f \in Files, filtered \in BOOLEAN :
                 AllKnown(f, filtered) => AllKnown(f, filtered)'
<1>1. \A f \in Files : \A filtered : Wanted(f, filtered) \subseteq Rows
    BY FilesAssumption DEF Wanted
<1>2. \A f \in Files : \A filtered : AllKnown(f, filtered) => AllKnown(f, filtered)'
    BY <1>1 DEF AllKnown, Wanted
<1>3. HistoryInv'
    BY <1>2 DEF IndInv, HistoryInv
<1>4. FileInv'
    BY DEF IndInv, FileInv
<1>5. CompletedIsWhole'
    BY <1>2 DEF IndInv, CompletedIsWhole, FileInv
<1> QED
    BY <1>2, <1>3, <1>4, <1>5

LEMMA StepInv == IndInv /\ [Next]_vars => IndInv'
<1> SUFFICES ASSUME IndInv, [Next]_vars PROVE IndInv'
    OBVIOUS
<1> USE DEF IndInv
<1>1. TypeOK'
    BY TypeStep
<1>2. ASSUME UNCHANGED <<stored, runs, history>>
      PROVE  HistoryInv' /\ FileInv' /\ CompletedIsWhole'
  <2>1. \A x \in Rows : Known(stored, x) => Known(stored, x)'
    BY <1>2
  <2> QED
    BY <1>2, <2>1, AuditStays
<1>3. ASSUME NEW r \in RunIds, NEW f \in Files, NEW filtered \in BOOLEAN, Create(r, f, filtered)
      PROVE  IndInv'
  <2>1. /\ runs[r].status = "absent" /\ run' = r /\ place' = "rows" /\ UNCHANGED <<stored, history, success>>
        /\ runs' = [runs EXCEPT ![r] = [status |-> "running", file |-> f, filtered |-> filtered]]
        /\ todo' = Wanted(f, filtered)
    BY <1>3 DEF Create
  <2>2. lost' = FALSE
    BY <1>3, Zenon DEF Create
  <2>3. /\ runs'[r] = [status |-> "running", file |-> f, filtered |-> filtered]
        /\ \A s \in RunIds \ {r} : runs'[s] = runs[s]
    BY <2>1 DEF TypeOK
  <2>4. file' = f
    BY <2>1, <2>3 DEF file
  <2>5. RunInv'
    <3>1. ~lost'
      BY <2>2, Zenon
    <3> QED
      BY <2>1, <2>3, <2>4, <3>1 DEF RunInv
  <2>6. StoredInv'
    BY <2>1, <2>3, <2>4 DEF StoredInv, Wanted
  <2>7. QuarantineInv'
    BY <2>1 DEF QuarantineInv
  <2>8. HistoryInv'
    <3>1. ASSUME NEW g \in Files, history[g] # NoRun
          PROVE  history[g] \in RunIds \ {r}
      BY <2>1, <3>1 DEF HistoryInv, TypeOK
    <3> QED
      BY <2>1, <2>3, <3>1 DEF HistoryInv, AllKnown, Wanted, Known
  <2>9. FileInv' /\ CompletedIsWhole'
    BY <2>1, <2>3 DEF FileInv, CompletedIsWhole, AllKnown, Wanted, Known
  <2>10. SuccessIsEarned'
    BY <2>1, <2>3 DEF SuccessIsEarned, TypeOK
  <2> QED
    BY <1>1, <2>5, <2>6, <2>7, <2>8, <2>9, <2>10
<1>4. ASSUME NEW x \in Rows, Insert(x) PROVE IndInv'
  <2>1. /\ place = "rows" /\ stored' = Inserted(stored, x) /\ todo' = todo \ {x}
        /\ UNCHANGED <<runs, history, success, place, run, lost>>
    BY <1>4 DEF Insert
  <2>2. UNCHANGED file
    BY <2>1 DEF file
  <2>3. /\ Known(stored, x)'
        /\ \A y \in Rows : Known(stored, y) => Known(stored, y)'
    BY <2>1, KnownStays DEF TypeOK
  <2>4. Wanted(file, runs[run].filtered) \subseteq Rows
    BY <2>1, FilesAssumption DEF RunInv, Wanted
  <2>5. StoredInv'
    BY <2>1, <2>2, <2>3, <2>4 DEF StoredInv, Wanted
  <2>6. RunInv' /\ QuarantineInv' /\ SuccessIsEarned'
    BY <2>1, <2>2 DEF RunInv, QuarantineInv, SuccessIsEarned
  <2> QED
    BY <1>1, <2>1, <2>3, <2>5, <2>6, AuditStays
<1>5. ASSUME NEW x \in Rows, InsertFails(x) PROVE IndInv'
  <2>1. /\ place = "rows" /\ stored' \in {stored, Inserted(stored, x)}
        /\ (file \in Generic /\ place' = "rows") \/ (file \notin Generic /\ place' = "finish")
        /\ UNCHANGED <<runs, history, success, run>>
    BY <1>5 DEF InsertFails
  <2>2. lost' = TRUE
    BY <1>5, Zenon DEF InsertFails
  <2>3. UNCHANGED file
    BY <2>1 DEF file
  <2>4. \A y \in Rows : Known(stored, y) => Known(stored, y)'
    BY <2>1, KnownStays DEF TypeOK
  <2>5. StoredInv' /\ QuarantineInv'
    BY <2>1, <2>2 DEF StoredInv, QuarantineInv
  <2>6. RunInv' /\ SuccessIsEarned'
    BY <2>1, <2>3 DEF RunInv, SuccessIsEarned
  <2> QED
    BY <1>1, <2>1, <2>4, <2>5, <2>6, AuditStays
<1>6. CASE EndRows
  <2>1. /\ place = "rows" /\ todo = {} /\ UNCHANGED <<stored, runs, history, success, run, lost>>
        /\ (file \in Generic /\ place' = "finish") \/ (file \notin Generic /\ place' = "quarantine")
    BY <1>6 DEF EndRows, AllRowsDone
  <2>2. UNCHANGED file
    BY <2>1 DEF file
  <2>3. ~lost => AllKnown(file, runs[run].filtered)
    BY <2>1 DEF StoredInv, AllKnown
  <2>4. file \notin Generic => ~lost
    BY <2>1 DEF RunInv
  <2>5. ~lost => AllKnown(file, runs[run].filtered)'
    BY <2>1, <2>2, <2>3 DEF AllKnown, Known, Wanted
  <2>6. StoredInv'
    BY <2>1, <2>2, <2>4, <2>5 DEF StoredInv
  <2>7. RunInv' /\ QuarantineInv' /\ SuccessIsEarned'
    BY <2>1, <2>2 DEF RunInv, QuarantineInv, SuccessIsEarned
  <2> QED
    BY <1>1, <1>2, <2>1, <2>6, <2>7
<1>7. CASE Quarantine
  <2>1. /\ place = "quarantine" /\ place' = "register"
        /\ UNCHANGED <<stored, runs, history, success, run>>
    BY <1>7 DEF Quarantine
  <2>2. lost' <=> file \in Faulty
    BY <1>7, Zenon DEF Quarantine
  <2>3. UNCHANGED file
    BY <2>1 DEF file
  <2>4. AllKnown(file, runs[run].filtered)'
    BY <2>1, <2>3 DEF StoredInv, AllKnown, Known, Wanted
  <2>5. StoredInv' /\ QuarantineInv'
    BY <2>1, <2>2, <2>3, <2>4 DEF StoredInv, QuarantineInv
  <2>6. RunInv' /\ SuccessIsEarned'
    BY <2>1, <2>3 DEF RunInv, SuccessIsEarned
  <2> QED
    BY <1>1, <1>2, <2>1, <2>5, <2>6
<1>8. CASE Register
  <2>1. /\ place = "register" /\ place' = "finish" /\ history' = [history EXCEPT ![file] = run]
        /\ UNCHANGED <<stored, runs, success, run, lost>>
    BY <1>8 DEF Register
  <2>2. UNCHANGED file
    BY <2>1 DEF file
  <2>3. AllKnown(file, runs[run].filtered) /\ runs[run].status = "running"
    BY <2>1 DEF StoredInv, RunInv
  <2>4. file \in Files
    BY <2>1 DEF RunInv
  <2>5. Holds(stored, file, runs[run].filtered)
    BY <2>3 DEF AllKnown, Holds
  <2>6. StoredInv' /\ QuarantineInv'
    BY <2>1, <2>2, <2>5 DEF StoredInv, QuarantineInv, AllKnown, Holds
  <2>7. HistoryInv'
    <3>1. ASSUME NEW f \in Files, history'[f] # NoRun
          PROVE  /\ runs[history'[f]].status # "absent"
                 /\ Holds(stored, f, runs[history'[f]].filtered)
      <4>1. CASE f = file
        <5>1. history'[f] = run
          BY <2>1, <2>4, <4>1 DEF TypeOK
        <5> QED
          BY <2>3, <2>5, <4>1, <5>1
      <4>2. CASE f # file
        <5>1. history'[f] = history[f]
          BY <2>1, <3>1, <4>2 DEF TypeOK
        <5> QED
          BY <3>1, <5>1 DEF HistoryInv, AllKnown, Holds
      <4> QED
        BY <4>1, <4>2
    <3> QED
      BY <2>1, <3>1 DEF HistoryInv, AllKnown, Holds
  <2>8. FileInv' /\ CompletedIsWhole'
    BY <2>1 DEF FileInv, CompletedIsWhole, AllKnown, Known, Wanted
  <2>9. RunInv' /\ SuccessIsEarned'
    BY <2>1, <2>2 DEF RunInv, SuccessIsEarned
  <2> QED
    BY <1>1, <2>6, <2>7, <2>8, <2>9
<1>9. CASE AuditFails
  <2>1. /\ place' = "finish" /\ place \in {"quarantine", "register"}
        /\ UNCHANGED <<stored, runs, history, success, run>>
    BY <1>9 DEF AuditFails
  <2>2. lost' = TRUE
    BY <1>9, Zenon DEF AuditFails
  <2>3. StoredInv' /\ QuarantineInv'
    BY <2>1, <2>2 DEF StoredInv, QuarantineInv
  <2>4. RunInv' /\ SuccessIsEarned'
    BY <2>1 DEF RunInv, SuccessIsEarned, file
  <2> QED
    BY <1>1, <1>2, <2>1, <2>3, <2>4
<1>10. CASE Finish
  <2>1. /\ place = "finish" /\ place' = "report" /\ UNCHANGED <<stored, history, success, run>>
        /\ runs' = [runs EXCEPT ![run].status = FinalStatus]
    BY <1>10 DEF Finish
  <2>2. run \in RunIds /\ file \in Files /\ runs[run].status = "running"
    BY <2>1 DEF RunInv
  <2>3. /\ runs'[run].status = FinalStatus /\ runs'[run].file = file
        /\ runs'[run].filtered = runs[run].filtered
        /\ \A s \in RunIds \ {run} : runs'[s] = runs[s]
    BY <2>1, <2>2 DEF TypeOK, file
  <2>4. UNCHANGED stored
    BY <2>1
  <2>5. /\ FinalStatus \in {"completed", "partial", "failed"}
        /\ FinalStatus = "completed" => ~lost
    BY DEF FinalStatus
  <2>6. RunInv'
    <3>1. file' = file
      BY <2>1, <2>3 DEF file
    <3> QED
      BY <2>1, <2>2, <2>3, <2>5, <3>1 DEF RunInv
  <2>7. StoredInv' /\ QuarantineInv'
    BY <2>1 DEF StoredInv, QuarantineInv
  <2>8. FinalStatus = "completed" =>
           Holds(stored, file, runs[run].filtered) /\ file \notin Faulty \ Generic
    BY <2>1, <2>5 DEF StoredInv, QuarantineInv, AllKnown, Holds
  <2>9. CompletedIsWhole'
    <3>1. ASSUME NEW r \in RunIds, runs'[r].status = "completed"
          PROVE  /\ Holds(stored, runs'[r].file, runs'[r].filtered)
                 /\ runs'[r].file \notin Faulty \ Generic
      <4>1. CASE r = run
        BY <2>3, <2>8, <3>1, <4>1
      <4>2. CASE r # run
        BY <2>3, <3>1, <4>2 DEF CompletedIsWhole, AllKnown, Holds
      <4> QED
        BY <4>1, <4>2
    <3> QED
      BY <2>4, <3>1 DEF CompletedIsWhole, AllKnown, Holds
  <2>10. FileInv'
    BY <2>2, <2>3 DEF FileInv
  <2>11. HistoryInv'
    <3>1. ASSUME NEW f \in Files, history[f] # NoRun
          PROVE  /\ runs'[history[f]].status # "absent"
                 /\ Holds(stored, f, runs'[history[f]].filtered)
      <4>1. history[f] \in RunIds
        BY <3>1 DEF TypeOK
      <4>2. Holds(stored, f, runs[history[f]].filtered) /\ runs[history[f]].status # "absent"
        BY <3>1 DEF HistoryInv, AllKnown, Holds
      <4> QED
        BY <2>2, <2>3, <2>5, <4>1, <4>2
    <3> QED
      BY <2>1, <3>1 DEF HistoryInv, AllKnown, Holds
  <2>12. SuccessIsEarned'
    BY <2>1, <2>2, <2>3 DEF SuccessIsEarned, TypeOK
  <2> QED
    BY <1>1, <2>6, <2>7, <2>9, <2>10, <2>11, <2>12
<1>11. CASE Report
  <2>1. /\ place = "report" /\ place' = "sweep" /\ UNCHANGED <<stored, runs, history, run, lost>>
        /\ success' = success \/ (success' = run /\ runs[run].status = "completed")
    BY <1>11 DEF Report, IsSuccess
  <2>2. RunInv' /\ StoredInv' /\ QuarantineInv' /\ SuccessIsEarned'
    BY <2>1 DEF RunInv, StoredInv, QuarantineInv, SuccessIsEarned, file
  <2> QED
    BY <1>1, <1>2, <2>1, <2>2
<1>12. CASE Sweep \/ CutOff
  <2>1. place' = "idle" /\ UNCHANGED <<stored, runs, history, success>>
    BY <1>12 DEF Sweep, CutOff
  <2>2. RunInv' /\ StoredInv' /\ QuarantineInv' /\ SuccessIsEarned'
    BY <2>1 DEF RunInv, StoredInv, QuarantineInv, SuccessIsEarned
  <2> QED
    BY <1>1, <1>2, <2>1, <2>2
<1>13. CASE MarkStale \/ Done \/ UNCHANGED vars
  <2>1. UNCHANGED <<stored, runs, history, success, place, run, todo, lost>>
    BY <1>13 DEF MarkStale, Done, vars
  <2>2. UNCHANGED file
    BY <2>1 DEF file
  <2>3. RunInv' /\ QuarantineInv' /\ SuccessIsEarned'
    BY <2>1, <2>2 DEF RunInv, QuarantineInv, SuccessIsEarned
  <2>4. StoredInv'
    BY <2>1, <2>2 DEF StoredInv, AllKnown, Known, Wanted
  <2> QED
    BY <1>1, <1>2, <2>1, <2>3, <2>4
<1> QED
    BY <1>3, <1>4, <1>5, <1>6, <1>7, <1>8, <1>9, <1>10, <1>11, <1>12, <1>13 DEF Next

-----------------------------------------------------------------------------
(* The audit. *)

\* Wherever a run raises or is cut off, a file in the history is stored, a
\* completed run stored and quarantined nothing less than its file, and the
\* success of a source is that of a completed run.
THEOREM AuditAlwaysAgrees == Spec => []AuditAgrees
<1>1. IndInv => AuditAgrees
    BY DEF IndInv, AuditAgrees, ImportedIsStored, Imported, HistoryInv
<1> QED
    BY <1>1, InitInv, StepInv, PTL DEF Spec

-----------------------------------------------------------------------------
(* Replays. *)

\* Ids are unique; a marked row points at the oldest row of its content and
\* URL; and once rows are marked, every replay is.
CollapseInv ==
    /\ \A m, n \in 1 .. Len(stored) : stored[m] = stored[n] => m = n
    /\ \A x \in Rows : duplicateOf[x] # NoRow =>
          \E n \in 1 .. Len(stored), o \in 1 .. Len(stored) :
             /\ o < n /\ stored[n] = x /\ stored[o] = duplicateOf[x] /\ Replay(o, n)
             /\ \A k \in 1 .. (o - 1) : ~Replay(k, n)
    /\ (\E x \in Rows : duplicateOf[x] # NoRow) =>
          \A m, n \in 1 .. Len(stored) : m < n /\ Replay(m, n) => duplicateOf[stored[n]] # NoRow

LEMMA WhoStores ==
    ASSUME [Next]_vars
    PROVE  /\ UNCHANGED stored \/ \E x \in Rows : stored' = Inserted(stored, x)
           /\ UNCHANGED duplicateOf \/ (Sweep /\ UNCHANGED stored)
<1>1. CASE \E x \in Rows : Insert(x) \/ InsertFails(x)
    BY <1>1 DEF Insert, InsertFails
<1>2. CASE \E r \in RunIds, f \in Files, filtered \in BOOLEAN : Create(r, f, filtered)
    BY <1>2 DEF Create
<1>3. CASE EndRows \/ Quarantine \/ Register \/ AuditFails \/ Finish \/ Report
    BY <1>3 DEF EndRows, Quarantine, Register, AuditFails, Finish, Report
<1>4. CASE Sweep \/ CutOff \/ MarkStale \/ Done \/ UNCHANGED vars
    BY <1>4 DEF Sweep, CutOff, MarkStale, Done, vars
<1> QED
    BY <1>1, <1>2, <1>3, <1>4 DEF Next

\* What an insert does to a table: nothing, or one row more that is no replay.
LEMMA InsertedRow ==
    ASSUME stored \in Seq(Rows), NEW x \in Rows, stored' = Inserted(stored, x),
           NEW last, last = Len(stored) + 1
    PROVE  \/ UNCHANGED stored
           \/ /\ Len(stored') = last /\ stored'[last] = x
              /\ \A n \in 1 .. Len(stored) : stored'[n] = stored[n]
              /\ \A m \in 1 .. Len(stored) : stored[m] # x /\ ~Replay(m, last)'
<1>1. CASE Known(stored, x)
    BY <1>1 DEF Inserted
<1>2. CASE ~Known(stored, x)
  <2>1. stored' = Append(stored, x)
    BY <1>2 DEF Inserted
  <2>2. /\ Len(stored') = Len(stored) + 1 /\ stored'[Len(stored) + 1] = x
        /\ \A n \in 1 .. Len(stored) : stored'[n] = stored[n]
    BY <2>1
  <2>3. \A m \in 1 .. Len(stored) : ~SameRow(x, stored[m])
    BY <1>2 DEF Known
  <2>4. \A m \in 1 .. Len(stored) : stored[m] # x /\ ~Replay(m, last)'
    BY <2>2, <2>3 DEF SameRow, Replay
  <2> QED
    BY <2>2, <2>4
<1> QED
    BY <1>1, <1>2

\* A sweep marks every replay with the oldest row of its content and URL.
LEMMA SweepMarks ==
    ASSUME TypeOK, CollapseInv, Sweep
    PROVE  /\ \A x \in Rows : duplicateOf[x] # NoRow => duplicateOf'[x] = duplicateOf[x]
           /\ \A n \in 1 .. Len(stored) : IsReplay(n) => duplicateOf'[stored[n]] # NoRow
           /\ \A x \in Rows : duplicateOf[x] = NoRow /\ duplicateOf'[x] # NoRow =>
                 \E n \in 1 .. Len(stored) :
                    stored[n] = x /\ IsReplay(n) /\ duplicateOf'[x] = stored[Oldest(n)]
<1>1. \A n \in 1 .. Len(stored) : stored[n] \in Rows
    BY DEF TypeOK
<1>2. ASSUME NEW n \in 1 .. Len(stored)
      PROVE  (CHOOSE k \in 1 .. Len(stored) : stored[k] = stored[n]) = n
    BY DEF CollapseInv
<1>3. ASSUME NEW x \in Rows
      PROVE  duplicateOf'[x] =
             IF \E n \in 1 .. Len(stored) : stored[n] = x /\ IsReplay(n) /\ duplicateOf[x] = NoRow
             THEN stored[Canonical(CHOOSE n \in 1 .. Len(stored) : stored[n] = x)]
             ELSE duplicateOf[x]
    BY DEF Sweep
<1>4. ASSUME NEW n \in 1 .. Len(stored), IsReplay(n), duplicateOf[stored[n]] = NoRow
      PROVE  duplicateOf'[stored[n]] = stored[Oldest(n)]
    BY <1>1, <1>2, <1>3, <1>4 DEF Canonical
<1>5. ASSUME NEW n \in 1 .. Len(stored), IsReplay(n)
      PROVE  stored[Oldest(n)] \in Rows /\ stored[Oldest(n)] # NoRow
  <2>1. Url[stored[n]] # NoUrl /\ stored \in Seq(Rows)
    BY <1>5 DEF IsReplay, Replay, TypeOK
  <2>2. Oldest(n) \in 1 .. n
    BY <2>1, OldestExists
  <2>3. Oldest(n) \in 1 .. Len(stored)
    BY <2>1, <2>2
  <2> QED
    BY <1>1, <2>3, RowsAssumption
<1>6. \A x \in Rows : duplicateOf[x] # NoRow => duplicateOf'[x] = duplicateOf[x]
    BY <1>3
<1>7. \A n \in 1 .. Len(stored) : IsReplay(n) => duplicateOf'[stored[n]] # NoRow
    BY <1>1, <1>4, <1>5, <1>6
<1>8. ASSUME NEW x \in Rows, duplicateOf[x] = NoRow, duplicateOf'[x] # NoRow
      PROVE  \E n \in 1 .. Len(stored) :
                stored[n] = x /\ IsReplay(n) /\ duplicateOf'[x] = stored[Oldest(n)]
    BY <1>3, <1>4, <1>8
<1> QED
    BY <1>6, <1>7, <1>8

LEMMA CollapseStep == TypeOK /\ CollapseInv /\ [Next]_vars => CollapseInv'
<1> SUFFICES ASSUME TypeOK, CollapseInv, [Next]_vars PROVE CollapseInv'
    OBVIOUS
<1>1. stored \in Seq(Rows) /\ Len(stored) \in Nat
    BY DEF TypeOK
<1>2. CASE UNCHANGED <<stored, duplicateOf>>
    BY <1>2 DEF CollapseInv, Replay
<1>3. ASSUME UNCHANGED duplicateOf, NEW x \in Rows, stored' = Inserted(stored, x),
             stored' # stored
      PROVE  CollapseInv'
  <2>0. PICK last : last = Len(stored) + 1
    OBVIOUS
  <2>1. /\ Len(stored') = last /\ stored'[last] = x
        /\ \A n \in 1 .. Len(stored) : stored'[n] = stored[n]
        /\ \A m \in 1 .. Len(stored) : stored[m] # x
    BY <1>1, <1>3, <2>0, InsertedRow
  <2>2. \A m \in 1 .. Len(stored) : ~Replay(m, last)'
    BY <1>1, <1>3, <2>0, InsertedRow
  <2>3. \A m, n \in 1 .. Len(stored) : Replay(m, n)' <=> Replay(m, n)
    BY <2>1 DEF Replay
  <2>4. ASSUME NEW m \in 1 .. Len(stored'), NEW n \in 1 .. Len(stored'), stored'[m] = stored'[n]
        PROVE  m = n
    BY <1>1, <2>0, <2>1, <2>4 DEF CollapseInv
  <2>5. ASSUME NEW y \in Rows, duplicateOf[y] # NoRow
        PROVE  \E n \in 1 .. Len(stored'), o \in 1 .. Len(stored') :
                  /\ o < n /\ stored'[n] = y /\ stored'[o] = duplicateOf[y] /\ Replay(o, n)'
                  /\ \A k \in 1 .. (o - 1) : ~Replay(k, n)'
    <3>1. PICK n \in 1 .. Len(stored), o \in 1 .. Len(stored) :
             /\ o < n /\ stored[n] = y /\ stored[o] = duplicateOf[y] /\ Replay(o, n)
             /\ \A k \in 1 .. (o - 1) : ~Replay(k, n)
      BY <2>5 DEF CollapseInv
    <3>2. \A k \in 1 .. (o - 1) : k \in 1 .. Len(stored)
      BY <1>1
    <3> QED
      BY <1>1, <2>0, <2>1, <2>3, <3>1, <3>2
  <2>6. ASSUME NEW y \in Rows, duplicateOf[y] # NoRow,
               NEW m \in 1 .. Len(stored'), NEW n \in 1 .. Len(stored'), m < n, Replay(m, n)'
        PROVE  duplicateOf[stored'[n]] # NoRow
    <3>1. m \in 1 .. Len(stored)
      BY <1>1, <2>0, <2>1, <2>6
    <3>2. n # last
      BY <2>2, <2>6, <3>1
    <3>3. n \in 1 .. Len(stored)
      BY <1>1, <2>0, <2>1, <3>2
    <3> QED
      BY <2>1, <2>3, <2>6, <3>1, <3>3 DEF CollapseInv
  <2> QED
    BY <1>3, <2>4, <2>5, <2>6 DEF CollapseInv
<1>4. ASSUME Sweep, UNCHANGED stored PROVE CollapseInv'
  <2>1. \A m, n : Replay(m, n)' <=> Replay(m, n)
    BY <1>4 DEF Replay
  <2>2. ASSUME NEW x \in Rows, duplicateOf'[x] # NoRow
        PROVE  \E n \in 1 .. Len(stored), o \in 1 .. Len(stored) :
                  /\ o < n /\ stored[n] = x /\ stored[o] = duplicateOf'[x] /\ Replay(o, n)
                  /\ \A k \in 1 .. (o - 1) : ~Replay(k, n)
    <3>1. CASE duplicateOf[x] # NoRow
      BY <1>4, <3>1, SweepMarks DEF CollapseInv
    <3>2. CASE duplicateOf[x] = NoRow
      <4>1. PICK n \in 1 .. Len(stored) :
               stored[n] = x /\ IsReplay(n) /\ duplicateOf'[x] = stored[Oldest(n)]
        BY <1>4, <2>2, <3>2, SweepMarks
      <4>2. PICK m \in 1 .. (n - 1) : Replay(m, n)
        BY <4>1 DEF IsReplay
      <4>3. PICK o : o = Oldest(n)
        OBVIOUS
      <4>4. /\ o \in 1 .. n /\ Replay(o, n)
            /\ \A k \in 1 .. (o - 1) : ~Replay(k, n)
        BY <1>1, <4>2, <4>3, OldestExists DEF Replay
      <4>5. o <= m
        BY <4>2, <4>4
      <4> QED
        BY <1>1, <4>1, <4>2, <4>3, <4>4, <4>5
    <3> QED
      BY <3>1, <3>2
  <2>3. \A m, n \in 1 .. Len(stored) : m < n /\ Replay(m, n) => duplicateOf'[stored[n]] # NoRow
    <3>1. ASSUME NEW m \in 1 .. Len(stored), NEW n \in 1 .. Len(stored), m < n, Replay(m, n)
          PROVE  IsReplay(n)
      BY <3>1 DEF IsReplay
    <3> QED
      BY <1>4, <3>1, SweepMarks
  <2> QED
    BY <1>4, <2>1, <2>2, <2>3 DEF CollapseInv
<1> QED
    BY <1>2, <1>3, <1>4, WhoStores

LEMMA CollapsedRows == TypeOK /\ CollapseInv => ReplaysAreCollapsed
<1> SUFFICES ASSUME TypeOK, CollapseInv PROVE ReplaysAreCollapsed
    OBVIOUS
<1>1. ASSUME NEW x \in Rows, duplicateOf[x] # NoRow
      PROVE  duplicateOf[duplicateOf[x]] = NoRow /\ Has(stored, duplicateOf[x])
  <2>1. PICK n \in 1 .. Len(stored), o \in 1 .. Len(stored) :
           /\ o < n /\ stored[n] = x /\ stored[o] = duplicateOf[x] /\ Replay(o, n)
           /\ \A k \in 1 .. (o - 1) : ~Replay(k, n)
    BY <1>1 DEF CollapseInv
  <2>2. duplicateOf[x] \in Rows
    BY <1>1 DEF TypeOK
  <2>3. ASSUME duplicateOf[duplicateOf[x]] # NoRow PROVE FALSE
    <3>1. PICK k \in 1 .. Len(stored), m \in 1 .. Len(stored) :
             m < k /\ stored[k] = duplicateOf[x] /\ Replay(m, k)
      BY <2>2, <2>3 DEF CollapseInv
    <3>2. k = o
      BY <2>1, <3>1 DEF CollapseInv
    <3>3. Replay(m, n) /\ m \in 1 .. (o - 1)
      BY <2>1, <3>1, <3>2 DEF Replay
    <3> QED
      BY <2>1, <3>3
  <2> QED
    BY <2>1, <2>3 DEF Has
<1> QED
    BY <1>1 DEF ReplaysAreCollapsed, CollapseInv

\* A duplicate points at a row that counts, whatever order rows, replays and
\* sweeps came in, and once rows were marked no content counts twice at a URL.
THEOREM ReplaysAlwaysCollapse == Spec => []ReplaysAreCollapsed
<1>1. Init => CollapseInv
  <2> SUFFICES ASSUME Init PROVE CollapseInv
    OBVIOUS
  <2>1. stored \in Legacies /\ \A x \in Rows : duplicateOf[x] = NoRow
    BY DEF Init
  <2> QED
    BY <2>1, RowsAssumption DEF CollapseInv
<1>2. IndInv => TypeOK
    BY DEF IndInv
<1> QED
    BY <1>1, <1>2, CollapseStep, CollapsedRows, InitInv, StepInv, PTL DEF Spec

\* No row is inserted beside a row of the same content at the same URL.
THEOREM ReplaysAlwaysRefused == Spec => ReplaysAreRefused
<1>1. ASSUME TypeOK, [Next]_vars, NEW n \in (Len(stored) + 1) .. Len(stored'),
             NEW m \in 1 .. (n - 1)
      PROVE  ~(/\ Url[stored'[n]] # NoUrl /\ Url[stored'[m]] = Url[stored'[n]]
               /\ Hash[stored'[m]] = Hash[stored'[n]])
  <2>1. stored \in Seq(Rows) /\ Len(stored) \in Nat
    BY <1>1 DEF TypeOK
  <2>2. PICK x \in Rows : stored' = Inserted(stored, x)
    <3>1. stored' # stored
      BY <1>1, <2>1
    <3> QED
      BY <1>1, <3>1, WhoStores
  <2>3. PICK last : last = Len(stored) + 1
    OBVIOUS
  <2>4. Len(stored') = last /\ \A k \in 1 .. Len(stored) : ~Replay(k, last)'
    BY <1>1, <2>1, <2>2, <2>3, InsertedRow
  <2>5. n = last /\ m \in 1 .. Len(stored)
    BY <1>1, <2>1, <2>3, <2>4
  <2>6. ~Replay(m, n)'
    BY <2>4, <2>5
  <2> QED
    BY <2>6 DEF Replay
<1>2. TypeOK /\ [Next]_vars =>
        [\A n \in (Len(stored) + 1)..Len(stored') :
          \A m \in 1..(n - 1) :
             ~(/\ Url[stored'[n]] # NoUrl /\ Url[stored'[m]] = Url[stored'[n]]
               /\ Hash[stored'[m]] = Hash[stored'[n]])]_stored
    BY <1>1
<1>3. IndInv => TypeOK
    BY DEF IndInv
<1> QED
    BY <1>2, <1>3, InitInv, StepInv, PTL DEF Spec, ReplaysAreRefused
=============================================================================
