---------------------------- MODULE RuntimeProofs ----------------------------
(***************************************************************************)
(* Theorems about the two loops of guardian_voc/runtime.py: the watcher of *)
(* the collector's output, for any files, contents, pages, writes and      *)
(* faults, and the scheduler under the lifespan, for any interval, bound   *)
(* and number of paid calls.                                               *)
(***************************************************************************)
EXTENDS CollectorWatcher, SchedulerLoop, TLAPS

\* A file that is there holds a snapshot it has shown, and its version counts
\* what was written to it.
DiskInv == \A f \in Files :
    /\ disk[f].version <= writes
    /\ disk[f].head = Missing <=> disk[f].tail = Missing
    /\ disk[f].head # Missing => Held(f) \in shown[f]

\* While the version has not moved since stat(), what was read so far is what
\* the file holds; a moved version never comes back.
ReadInv ==
    /\ pc \in {"head", "tail", "check"} =>
          before <= disk[file].version /\ disk[file].head # Missing
    /\ pc = "tail" /\ Stable => content[1] = disk[file].head
    /\ pc = "check" /\ Stable => content = Held(file)

Holding == {"map", "enrich", "import", "report", "commit", "save"}

\* Past the check the watcher holds a snapshot of the file.
HoldInv == pc \in Holding => content \in shown[file]

\* A snapshot that was published or that nothing can be mapped from.
Settled(f, s) == s = NoSnapshot \/ s \in imported[f] \/ ~Plain(s)

SettledInv ==
    /\ \A f \in Files : Settled(f, saved[f]) /\ Settled(f, cursor[f])
    /\ pc \in {"commit", "save"} => Settled(file, content)
    /\ pc = "save" => Settled(file, pending)

\* Only the file between its commit and its checkpoint is ahead.
AheadInv ==
    /\ pc # "down" => \A f \in Files :
          cursor[f] \in {saved[f], NoSnapshot} \/ (pc = "save" /\ f = file)
    /\ pc = "save" => pending \in {saved[file], NoSnapshot}

IndInv ==
    /\ TypeOK /\ DiskInv /\ ReadInv /\ HoldInv /\ SettledInv /\ AheadInv
    /\ ImportedSnapshotsExisted /\ \A f \in Files : shown[f] \subseteq Snapshots

-----------------------------------------------------------------------------

LEMMA FileIsFile == index \in 1 .. Len(Paths) => file \in Files
    BY DEF file, Files

LEMMA InitInv == Init => IndInv
<1> SUFFICES ASSUME Init PROVE IndInv
    OBVIOUS
<1>1. TypeOK
  <2>1. 1 \in 1 .. Len(Paths) /\ 0 \in 0 .. MaxWrites /\ 0 \in 0 .. MaxFaults
    BY PathsAssumption, LimitsAssumption
  <2>2. disk \in [Files -> [head : Contents \cup {Missing},
                            tail : Contents \cup {Missing}, version : 0 .. MaxWrites]]
    BY <2>1 DEF Init
  <2>3. shown \in [Files -> SUBSET Snapshots] /\ imported \in [Files -> SUBSET Snapshots]
    BY DEF Init
  <2>4. cursor \in [Files -> Snapshots \cup {NoSnapshot}]
        /\ saved \in [Files -> Snapshots \cup {NoSnapshot}]
    BY DEF Init
  <2>5. cached \in [Pages -> {"none", "useful", "useless"}]
        /\ reads \in [Snapshots \X Pages -> Nat]
    BY DEF Init
  <2>6. content \in (Contents \cup {Missing}) \X (Contents \cup {Missing})
    BY DEF Init, NoSnapshot
  <2> QED
    BY <2>1, <2>2, <2>3, <2>4, <2>5, <2>6 DEF Init, TypeOK
<1>2. DiskInv
    BY LimitsAssumption DEF Init, DiskInv
<1>3. file \in Files
    BY <1>1, FileIsFile DEF TypeOK
<1> QED
    BY <1>1, <1>2, <1>3 DEF Init, IndInv, ReadInv, HoldInv, Holding, SettledInv, Settled, AheadInv,
       ImportedSnapshotsExisted

-----------------------------------------------------------------------------
(* Producers. *)

\* A write keeps every type, and moves the version of its file.
LEMMA WriteInv ==
    ASSUME IndInv, NEW f \in Files, NEW h \in Contents, NEW t \in Contents, Write(f, h, t)
    PROVE  IndInv'
<1> USE DEF IndInv
<1> DEFINE row == [head |-> h, tail |-> t, version |-> disk[f].version + 1]
<1>1. /\ writes' = writes + 1 /\ writes < MaxWrites
      /\ disk' = [disk EXCEPT ![f] = row]
      /\ shown' = [shown EXCEPT ![f] = @ \cup {<<h, t>>}]
      /\ UNCHANGED <<memory, durable, poll, reads, faults>>
    BY DEF Write
<1>2. disk[f].version \in 0 .. MaxWrites /\ disk[f].version <= writes /\ writes \in 0 .. MaxWrites
    BY DEF TypeOK, DiskInv
<1>3. row.version = disk[f].version + 1 /\ row.version \in 0 .. MaxWrites
    BY <1>1, <1>2, LimitsAssumption
<1>4. disk'[f] = row /\ \A g \in Files \ {f} : disk'[g] = disk[g]
    BY <1>1 DEF TypeOK
<1>5. /\ shown'[f] = shown[f] \cup {<<h, t>>}
      /\ \A g \in Files : shown[g] \subseteq shown'[g]
      /\ \A g \in Files : shown'[g] \subseteq Snapshots
    BY <1>1 DEF TypeOK, Snapshots
<1>6. TypeOK'
  <2>1. disk' \in [Files -> [head : Contents \cup {Missing},
                            tail : Contents \cup {Missing}, version : 0 .. MaxWrites]]
    BY <1>1, <1>3 DEF TypeOK
  <2>2. shown' \in [Files -> SUBSET Snapshots] /\ writes' \in 0 .. MaxWrites
    BY <1>1, <1>2, LimitsAssumption DEF TypeOK, Snapshots
  <2> QED
    BY <1>1, <2>1, <2>2, Zenon DEF TypeOK, memory, durable, poll
<1>7. DiskInv'
  <2>1. ASSUME NEW g \in Files
        PROVE  /\ disk'[g].version <= writes'
               /\ disk'[g].head = Missing <=> disk'[g].tail = Missing
               /\ disk'[g].head # Missing => <<disk'[g].head, disk'[g].tail>> \in shown'[g]
    <3>1. CASE g = f
      BY <1>1, <1>2, <1>3, <1>4, <1>5, <3>1, ContentsAssumption
    <3>2. CASE g # f
      <4>1. disk'[g] = disk[g] /\ disk[g].version \in Nat /\ disk[g].version <= writes
        BY <1>4, <3>2 DEF TypeOK, DiskInv
      <4> QED
        BY <1>1, <1>2, <1>5, <4>1 DEF DiskInv, Held
    <3> QED
      BY <3>1, <3>2
  <2> QED
    BY <2>1 DEF DiskInv, Held
<1>8. UNCHANGED <<pc, index, before, content, todo, pending, file, cursor, saved, imported>>
    BY <1>1 DEF poll, memory, durable, file
<1>9. file \in Files
    BY FileIsFile DEF TypeOK
<1>10. ReadInv'
  <2>1. CASE file = f
    <3>1. disk'[file].version = disk[file].version + 1 /\ disk'[file].head # Missing
      BY <1>3, <1>4, <2>1, ContentsAssumption
    <3>2. before \in Nat /\ disk[file].version \in Nat
      BY <1>9 DEF TypeOK
    <3>3. pc \in {"head", "tail", "check"} => before < disk'[file].version
      BY <3>1, <3>2 DEF ReadInv
    <3> QED
      BY <1>8, <3>1, <3>2, <3>3 DEF ReadInv, Stable
  <2>2. CASE file # f
    BY <1>4, <1>8, <1>9, <2>2 DEF ReadInv, Stable, Held
  <2> QED
    BY <2>1, <2>2
<1>11. HoldInv' /\ ImportedSnapshotsExisted'
    BY <1>5, <1>8, <1>9 DEF HoldInv, ImportedSnapshotsExisted
<1>12. SettledInv' /\ AheadInv'
    BY <1>8 DEF SettledInv, Settled, AheadInv
<1> QED
    BY <1>5, <1>6, <1>7, <1>10, <1>11, <1>12

LEMMA ProduceInv == IndInv /\ Produce => IndInv'
<1> SUFFICES ASSUME IndInv, Produce PROVE IndInv'
    OBVIOUS
<1> USE DEF IndInv
<1>1. PICK f \in Files : WriteTail(f) \/ \E c \in Contents : Replace(f, c) \/ WriteHead(f, c)
    BY DEF Produce
<1>2. CASE WriteTail(f)
  <2>1. disk[f].head # Missing
    BY <1>2 DEF WriteTail, DiskInv
  <2>2. disk[f].head \in Contents
    BY <2>1 DEF TypeOK
  <2> QED
    BY <1>2, <2>2, WriteInv DEF WriteTail
<1>3. ASSUME NEW c \in Contents, Replace(f, c) PROVE IndInv'
    BY <1>3, WriteInv DEF Replace
<1>4. ASSUME NEW c \in Contents, WriteHead(f, c) PROVE IndInv'
  <2>1. disk[f].tail \in Contents
    BY <1>4 DEF WriteHead, TypeOK
  <2> QED
    BY <1>4, <2>1, WriteInv DEF WriteHead
<1> QED
    BY <1>1, <1>2, <1>3, <1>4

-----------------------------------------------------------------------------
(* The poll. *)

Places == {"down", "idle", "stat", "head", "tail", "check", "map", "enrich",
           "import", "commit", "save", "undo", "report"}

\* Where a step may leave the poll, and what it may hold.
PollTyped ==
    /\ pc \in Places /\ index \in 1 .. Len(Paths) /\ before \in 0 .. MaxWrites
    /\ content \in (Contents \cup {Missing}) \X (Contents \cup {Missing})
    /\ todo \subseteq Pages /\ pending \in Snapshots \cup {NoSnapshot}
MemoryTyped ==
    /\ cursor \in [Files -> Snapshots \cup {NoSnapshot}] /\ failed \subseteq Snapshots \X Pages
    /\ cached \in [Pages -> {"none", "useful", "useless"}]
    /\ reads \in [Snapshots \X Pages -> Nat]
DurableTyped ==
    /\ saved \in [Files -> Snapshots \cup {NoSnapshot}] /\ health \in {"none", "ok", "failed"}
    /\ imported \in [Files -> SUBSET Snapshots]

LEMMA TypeParts ==
    ASSUME UNCHANGED producer
    PROVE  /\ TypeOK => PollTyped /\ MemoryTyped /\ DurableTyped
           /\ TypeOK /\ PollTyped' /\ MemoryTyped' /\ DurableTyped' /\ faults' \in 0 .. MaxFaults
                => TypeOK'
<1>1. TypeOK => PollTyped /\ MemoryTyped /\ DurableTyped
    BY Zenon DEF TypeOK, PollTyped, MemoryTyped, DurableTyped, Places
<1>2. TypeOK /\ PollTyped' /\ MemoryTyped' /\ DurableTyped' /\ faults' \in 0 .. MaxFaults => TypeOK'
    BY Zenon DEF TypeOK, PollTyped, MemoryTyped, DurableTyped, Places, producer
<1> QED
    BY <1>1, <1>2

LEMMA PartsStay ==
    /\ PollTyped /\ UNCHANGED poll => PollTyped'
    /\ MemoryTyped /\ UNCHANGED <<memory, reads>> => MemoryTyped'
    /\ DurableTyped /\ UNCHANGED durable => DurableTyped'
    BY Zenon DEF PollTyped, MemoryTyped, DurableTyped, poll, memory, durable

\* The step drops the snapshot in hand, for the next file or the next poll.
Leaves == pc' \in {"stat", "idle", "down"} /\ index' \in 1 .. Len(Paths)

LEMMA NextFileLeaves == PollTyped /\ NextFile => Leaves
    BY PathsAssumption DEF PollTyped, NextFile, Leaves

LEMMA RaiseLeaves == Raise => Leaves /\ DropSnapshot
    BY PathsAssumption DEF Raise, Leaves

LEMMA DropTyped ==
    ASSUME Leaves, DropSnapshot
    PROVE  PollTyped'
<1>1. before' \in 0 .. MaxWrites
    BY LimitsAssumption DEF DropSnapshot
<1>2. content' \in (Contents \cup {Missing}) \X (Contents \cup {Missing})
      /\ pending' \in Snapshots \cup {NoSnapshot} /\ todo' \subseteq Pages
    BY DEF DropSnapshot, NoSnapshot
<1> QED
    BY <1>1, <1>2 DEF PollTyped, Leaves, Places

\* What the producers left stays as it is.
LEMMA DiskStays ==
    ASSUME IndInv, UNCHANGED producer
    PROVE  DiskInv' /\ \A f \in Files : shown'[f] \subseteq Snapshots
<1>1. UNCHANGED <<disk, shown, writes>>
    BY DEF producer
<1> QED
    BY <1>1 DEF IndInv, DiskInv, Held

\* A step that drops the snapshot in hand and touches no table but health.
LEMMA LeaveInv ==
    ASSUME IndInv, UNCHANGED <<producer, memory, reads, saved, imported>>, Leaves, PollTyped',
           pc \notin {"down", "save"}, health' \in {"none", "ok", "failed"},
           faults' \in 0 .. MaxFaults
    PROVE  IndInv'
<1> USE DEF IndInv
<1>1. DurableTyped'
    BY TypeParts, Zenon DEF DurableTyped
<1>2. TypeOK'
    BY <1>1, TypeParts, PartsStay
<1>3. UNCHANGED <<cursor, saved, imported, shown>>
    BY DEF memory, producer
<1>4. ReadInv' /\ HoldInv' /\ ImportedSnapshotsExisted'
    BY <1>3 DEF ReadInv, HoldInv, Holding, Leaves, ImportedSnapshotsExisted
<1>5. SettledInv' /\ AheadInv'
    BY <1>3 DEF SettledInv, Settled, AheadInv, Leaves
<1> QED
    BY <1>2, <1>4, <1>5, DiskStays

LEMMA FaultTyped == TypeOK /\ Fault => faults' \in 0 .. MaxFaults
    BY LimitsAssumption DEF TypeOK, Fault

\* The steps that end with nothing in hand.
LEMMA LeavingSteps ==
    ASSUME IndInv,
           \/ SkipMissing \/ RaiseOversized \/ Defer \/ SkipUnchanged \/ RaiseMalformed
           \/ Report \/ ReportFails \/ CommitFails
    PROVE  IndInv'
<1> USE DEF IndInv
<1>1. PollTyped /\ MemoryTyped /\ DurableTyped
    BY Zenon DEF TypeOK, PollTyped, MemoryTyped, DurableTyped, Places
<1>2. CASE SkipMissing
  <2>1. Leaves
    BY <1>1, <1>2, NextFileLeaves DEF SkipMissing
  <2>2. PollTyped'
    BY <1>1, <1>2, <2>1 DEF SkipMissing, PollTyped, Leaves, Places
  <2> QED
    BY <1>2, <2>1, <2>2, LeaveInv DEF SkipMissing, TypeOK, durable
<1>3. CASE RaiseOversized \/ RaiseMalformed
  <2>1. Raise /\ UNCHANGED <<producer, memory, durable, reads, faults>>
        /\ pc \notin {"down", "save"}
    BY <1>3 DEF RaiseOversized, RaiseMalformed
  <2> QED
    BY <2>1, RaiseLeaves, DropTyped, LeaveInv DEF TypeOK, durable
<1>4. CASE Defer \/ SkipUnchanged
  <2>1. NextFile /\ DropSnapshot /\ UNCHANGED <<producer, memory, durable, reads, faults>>
        /\ pc = "check"
    BY <1>4 DEF Defer, SkipUnchanged
  <2> QED
    BY <1>1, <2>1, NextFileLeaves, DropTyped, LeaveInv DEF TypeOK, durable
<1>5. CASE Report
    BY <1>5, RaiseLeaves, DropTyped, LeaveInv DEF Report, TypeOK
<1>6. CASE ReportFails \/ CommitFails
  <2>1. Raise /\ Fault /\ UNCHANGED <<producer, memory, durable, reads>>
        /\ pc \in {"report", "commit"}
    BY <1>6 DEF ReportFails, CommitFails
  <2> QED
    BY <2>1, RaiseLeaves, DropTyped, FaultTyped, LeaveInv DEF TypeOK, durable
<1> QED
    BY <1>2, <1>3, <1>4, <1>5, <1>6

\* A step that goes on with the file in hand and touches no table.
LEMMA GoOnInv ==
    ASSUME IndInv, UNCHANGED <<producer, cursor, durable, index>>,
           pc' \in Places, pc \notin {"down", "save"}, pc' # "save", faults' \in 0 .. MaxFaults,
           PollTyped', MemoryTyped', ReadInv', HoldInv',
           pc' = "commit" => Settled(file, content)'
    PROVE  IndInv'
<1> USE DEF IndInv
<1>1. UNCHANGED <<cursor, saved, imported, shown, file>> /\ DurableTyped'
    BY TypeParts, PartsStay DEF durable, producer, file
<1>2. TypeOK'
    BY <1>1, TypeParts
<1>3. ImportedSnapshotsExisted'
    BY <1>1 DEF ImportedSnapshotsExisted
<1>4. SettledInv' /\ AheadInv'
    BY <1>1 DEF SettledInv, Settled, AheadInv
<1> QED
    BY <1>2, <1>3, <1>4, DiskStays

\* stat(), and the two steps of the read that a write may fall between.
LEMMA ReadSteps ==
    ASSUME IndInv, Poll \/ Stat \/ ReadHead \/ ReadTail \/ Changed
    PROVE  IndInv'
<1> USE DEF IndInv
<1>1. PollTyped /\ MemoryTyped /\ DurableTyped /\ file \in Files
    BY FileIsFile, Zenon DEF TypeOK, PollTyped, MemoryTyped, DurableTyped, Places
<1>2. /\ disk[file].version \in 0 .. MaxWrites
      /\ disk[file].head \in Contents \cup {Missing} /\ disk[file].tail \in Contents \cup {Missing}
    BY <1>1 DEF TypeOK
<1>3. /\ UNCHANGED <<producer, memory, durable, index, reads, faults>>
      /\ UNCHANGED <<disk, cursor, file, shown>>
      /\ pc \notin {"down", "save"}
    BY DEF Poll, Stat, ReadHead, ReadTail, Changed, producer, memory, file
<1>4. MemoryTyped' /\ faults' \in 0 .. MaxFaults
    BY <1>1, <1>3, PartsStay DEF TypeOK
<1>5. CASE Poll
  <2>1. PollTyped'
    BY <1>1, <1>5 DEF Poll, PollTyped, Places
  <2> QED
    BY <1>3, <1>4, <1>5, <2>1, GoOnInv DEF Poll, ReadInv, HoldInv, Holding, Places
<1>6. CASE Stat
  <2>1. pc' = "head" /\ before' = disk[file].version /\ disk[file].head # Missing
        /\ UNCHANGED <<content, todo, pending>>
    BY <1>6 DEF Stat
  <2>2. PollTyped'
    BY <1>1, <1>2, <1>3, <2>1 DEF PollTyped, Places
  <2>3. ReadInv' /\ HoldInv'
    BY <1>2, <1>3, <2>1 DEF ReadInv, HoldInv, Holding
  <2> QED
    BY <1>3, <1>4, <2>1, <2>2, <2>3, GoOnInv DEF Places
<1>7. CASE ReadHead
  <2>1. pc = "head" /\ pc' = "tail" /\ content' = <<disk[file].head, content[2]>>
        /\ UNCHANGED <<before, todo, pending>>
    BY <1>7 DEF ReadHead
  <2>2. PollTyped'
    BY <1>1, <1>2, <1>3, <2>1 DEF PollTyped, Places
  <2>3. ReadInv' /\ HoldInv'
    BY <1>3, <2>1 DEF ReadInv, HoldInv, Holding, Stable
  <2> QED
    BY <1>3, <1>4, <2>1, <2>2, <2>3, GoOnInv DEF Places
<1>8. CASE ReadTail
  <2>1. pc = "tail" /\ pc' = "check" /\ content' = <<content[1], disk[file].tail>>
        /\ UNCHANGED <<before, todo, pending>>
    BY <1>8 DEF ReadTail
  <2>2. PollTyped'
    BY <1>1, <1>2, <1>3, <2>1 DEF PollTyped, Places
  <2>3. ReadInv' /\ HoldInv'
    BY <1>3, <2>1 DEF ReadInv, HoldInv, Holding, Stable, Held
  <2> QED
    BY <1>3, <1>4, <2>1, <2>2, <2>3, GoOnInv DEF Places
<1>9. CASE Changed
  <2>1. pc = "check" /\ Stable /\ pc' = "map" /\ UNCHANGED <<before, content, todo, pending>>
    BY <1>9 DEF Changed
  <2>2. PollTyped'
    BY <1>1, <1>3, <2>1 DEF PollTyped, Places
  <2>3. content \in shown[file]
    BY <1>1, <2>1 DEF ReadInv, DiskInv
  <2>4. ReadInv' /\ HoldInv'
    BY <1>3, <2>1, <2>3 DEF ReadInv, HoldInv, Holding
  <2> QED
    BY <1>3, <1>4, <2>1, <2>2, <2>4, GoOnInv DEF Places
<1> QED
    BY <1>5, <1>6, <1>7, <1>8, <1>9

\* Steps between the check and the commit that keep the snapshot in hand.
LEMMA HoldSteps ==
    ASSUME IndInv,
           \/ RejectExport \/ MapExport \/ StartEnrichment \/ FinishEnrichment \/ ImportFails
           \/ \E p \in Pages : EnrichPage(p)
    PROVE  IndInv'
<1> USE DEF IndInv
<1>1. PollTyped /\ MemoryTyped /\ DurableTyped /\ file \in Files
    BY FileIsFile, Zenon DEF TypeOK, PollTyped, MemoryTyped, DurableTyped, Places
<1>2. /\ UNCHANGED <<producer, cursor, durable, index, content, file, shown, before, pending>>
      /\ pc \in {"map", "enrich", "import"}
      /\ pc' \in {"enrich", "import", "commit", "report"}
    BY DEF RejectExport, MapExport, StartEnrichment, FinishEnrichment, ImportFails, EnrichPage,
       producer, memory, file, RejectRun
<1>3. faults' \in 0 .. MaxFaults
    BY FaultTyped DEF RejectExport, MapExport, StartEnrichment, FinishEnrichment, ImportFails,
       EnrichPage, TypeOK
<1>4. content \in shown[file] /\ content \in Snapshots
    BY <1>1, <1>2 DEF HoldInv, Holding
<1>5. HoldInv' /\ ReadInv'
    BY <1>2, <1>4 DEF HoldInv, Holding, ReadInv
<1>6. PollTyped'
  <2>1. todo' \subseteq Pages
    <3>1. Candidates(content) \subseteq Pages
      BY <1>4, ContentsAssumption DEF Candidates, PagesIn, Halves, Snapshots
    <3> QED
      BY <1>1, <3>1 DEF RejectExport, MapExport, StartEnrichment, FinishEnrichment, ImportFails,
         EnrichPage, PollTyped
  <2> QED
    BY <1>1, <1>2, <2>1 DEF PollTyped, Places
<1>7. MemoryTyped'
  <2>1. CASE RejectExport \/ MapExport \/ StartEnrichment \/ FinishEnrichment \/ ImportFails
    BY <1>1, <2>1, PartsStay DEF RejectExport, MapExport, StartEnrichment, FinishEnrichment,
       ImportFails
  <2>2. ASSUME NEW p \in Pages, EnrichPage(p) PROVE MemoryTyped'
    <3>1. PICK result \in {"useful", "useless", "raised"} :
            /\ cached' = IF result = "raised" THEN cached ELSE [cached EXCEPT ![p] = result]
            /\ failed' = IF result = "useful" THEN failed ELSE failed \cup {<<content, p>>}
            /\ reads' = IF result = "useful" \/ cached[p] # "none" THEN reads
                        ELSE [reads EXCEPT ![<<content, p>>] = @ + 1]
      BY <1>1, <2>2 DEF EnrichPage, MemoryTyped
    <3>2. cached' \in [Pages -> {"none", "useful", "useless"}]
      BY <1>1, <3>1 DEF MemoryTyped
    <3>3. failed' \subseteq Snapshots \X Pages
      BY <1>1, <1>4, <3>1 DEF MemoryTyped
    <3>4. reads' \in [Snapshots \X Pages -> Nat]
      BY <1>1, <1>4, <3>1 DEF MemoryTyped
    <3> QED
      BY <1>1, <1>2, <3>2, <3>3, <3>4 DEF MemoryTyped
  <2> QED
    BY <2>1, <2>2
<1>8. pc' = "commit" => ~Plain(content)
  <2>1. pc' = "commit" => ~Mapped(file, content)
    BY DEF RejectExport, MapExport, StartEnrichment, FinishEnrichment, ImportFails, EnrichPage,
       RejectRun
  <2> QED
    BY <2>1 DEF Mapped
<1>9. pc' = "commit" => Settled(file, content)'
    BY <1>2, <1>8 DEF Settled, Plain
<1> QED
    BY <1>2, <1>3, <1>5, <1>6, <1>7, <1>9, GoOnInv DEF Places

LEMMA ImportInv ==
    ASSUME IndInv, Import
    PROVE  IndInv'
<1> USE DEF IndInv
<1>1. /\ pc = "import" /\ pc' = "commit" /\ imported' = [imported EXCEPT ![file] = @ \cup {content}]
      /\ UNCHANGED <<producer, memory, saved, health, index, before, content, todo, pending,
                     reads, faults, file, shown, cursor>>
    BY DEF Import, file, producer, memory
<1>2. PollTyped /\ MemoryTyped /\ DurableTyped /\ file \in Files
    BY FileIsFile, Zenon DEF TypeOK, PollTyped, MemoryTyped, DurableTyped, Places
<1>3. content \in shown[file] /\ content \in Snapshots
    BY <1>1, <1>2 DEF HoldInv, Holding
<1>4. /\ imported'[file] = imported[file] \cup {content}
      /\ \A f \in Files \ {file} : imported'[f] = imported[f]
      /\ imported' \in [Files -> SUBSET Snapshots]
    BY <1>1, <1>2, <1>3 DEF DurableTyped
<1>5. TypeOK'
  <2>1. PollTyped'
    BY <1>1, <1>2 DEF PollTyped, Places
  <2>2. DurableTyped' /\ MemoryTyped'
    BY <1>1, <1>2, <1>4, PartsStay DEF DurableTyped
  <2> QED
    BY <1>1, <2>1, <2>2, TypeParts DEF TypeOK
<1>6. ReadInv' /\ HoldInv'
    BY <1>1, <1>3 DEF ReadInv, HoldInv, Holding
<1>7. ImportedSnapshotsExisted'
    BY <1>1, <1>3, <1>4 DEF ImportedSnapshotsExisted
<1>8. \A f \in Files : imported[f] \subseteq imported'[f]
    BY <1>4
<1>9. SettledInv'
    BY <1>1, <1>2, <1>4, <1>8 DEF SettledInv, Settled
<1>10. AheadInv'
    BY <1>1 DEF AheadInv
<1> QED
    BY <1>1, <1>5, <1>6, <1>7, <1>9, <1>10, DiskStays

LEMMA CommitInv ==
    ASSUME IndInv, Commit
    PROVE  IndInv'
<1> USE DEF IndInv
<1>1. /\ pc = "commit" /\ pc' = "save" /\ pending' = cursor[file] /\ health' = "ok"
      /\ cursor' = [cursor EXCEPT ![file] = content]
      /\ UNCHANGED <<producer, failed, cached, saved, imported, index, before, content, todo,
                     reads, faults, file, shown>>
    BY DEF Commit, file, producer
<1>2. PollTyped /\ MemoryTyped /\ DurableTyped /\ file \in Files
    BY FileIsFile, Zenon DEF TypeOK, PollTyped, MemoryTyped, DurableTyped, Places
<1>3. content \in shown[file] /\ content \in Snapshots
    BY <1>1, <1>2 DEF HoldInv, Holding
<1>4. /\ cursor'[file] = content /\ \A f \in Files \ {file} : cursor'[f] = cursor[f]
      /\ cursor' \in [Files -> Snapshots \cup {NoSnapshot}]
    BY <1>1, <1>2, <1>3 DEF MemoryTyped
<1>5. TypeOK'
  <2>1. PollTyped'
    BY <1>1, <1>2 DEF PollTyped, MemoryTyped, Places
  <2>2. DurableTyped' /\ MemoryTyped'
    BY <1>1, <1>2, <1>4, Zenon DEF DurableTyped, MemoryTyped
  <2> QED
    BY <1>1, <2>1, <2>2, TypeParts DEF TypeOK
<1>6. ReadInv' /\ HoldInv' /\ ImportedSnapshotsExisted'
    BY <1>1, <1>3 DEF ReadInv, HoldInv, Holding, ImportedSnapshotsExisted
<1>7. SettledInv'
  <2>1. Settled(file, content) /\ \A f \in Files : Settled(f, saved[f]) /\ Settled(f, cursor[f])
    BY <1>1 DEF SettledInv
  <2> QED
    BY <1>1, <1>2, <1>4, <2>1 DEF SettledInv, Settled
<1>8. AheadInv'
    BY <1>1, <1>2, <1>4 DEF AheadInv
<1> QED
    BY <1>1, <1>5, <1>6, <1>7, <1>8, DiskStays

LEMMA SaveInv ==
    ASSUME IndInv, Save \/ SaveFails
    PROVE  IndInv'
<1> USE DEF IndInv
<1>1. PollTyped /\ MemoryTyped /\ DurableTyped /\ file \in Files /\ pc = "save"
    BY FileIsFile, Zenon DEF TypeOK, PollTyped, MemoryTyped, DurableTyped, Places, Save, SaveFails
<1>2. /\ Leaves /\ DropSnapshot
      /\ UNCHANGED <<producer, cached, health, imported, shown>>
    BY <1>1, NextFileLeaves, RaiseLeaves DEF Save, SaveFails, memory, durable, producer
<1>3. PollTyped'
    BY <1>2, DropTyped
<1>4. faults' \in 0 .. MaxFaults
    BY FaultTyped DEF Save, SaveFails, TypeOK
<1>5. ReadInv' /\ HoldInv' /\ ImportedSnapshotsExisted'
    BY <1>2 DEF ReadInv, HoldInv, Holding, Leaves, ImportedSnapshotsExisted
<1>6. CASE Save
  <2>1. saved' = cursor /\ cursor' = cursor /\ failed' \subseteq failed
        /\ reads' = [a \in Snapshots \X Pages |-> IF a[1] = content THEN 0 ELSE reads[a]]
    BY <1>6 DEF Save
  <2>2. reads' \in [Snapshots \X Pages -> Nat]
    BY <1>1, <2>1 DEF MemoryTyped
  <2>3. failed' \subseteq Snapshots \X Pages
    BY <1>1, <2>1 DEF MemoryTyped
  <2>4. MemoryTyped' /\ DurableTyped'
    BY <1>1, <1>2, <2>1, <2>2, <2>3, Zenon DEF MemoryTyped, DurableTyped
  <2>5. SettledInv' /\ AheadInv'
    BY <1>2, <2>1 DEF SettledInv, Settled, AheadInv, Leaves
  <2> QED
    BY <1>2, <1>3, <1>4, <1>5, <2>4, <2>5, TypeParts, DiskStays
<1>7. CASE SaveFails
  <2>1. cursor' = [cursor EXCEPT ![file] = pending]
        /\ UNCHANGED <<failed, saved, reads>>
    BY <1>7 DEF SaveFails, RestoreCursor, durable
  <2>2. cursor' \in [Files -> Snapshots \cup {NoSnapshot}]
    BY <1>1, <2>1 DEF MemoryTyped, PollTyped
  <2>3. MemoryTyped' /\ DurableTyped'
    BY <1>1, <1>2, <2>1, <2>2, Zenon DEF MemoryTyped, DurableTyped
  <2>4. cursor'[file] = pending /\ \A f \in Files \ {file} : cursor'[f] = cursor[f]
    BY <1>1, <2>1 DEF MemoryTyped
  <2>5. SettledInv'
    BY <1>1, <1>2, <2>1, <2>4 DEF SettledInv, Settled, Leaves
  <2>6. AheadInv'
    BY <1>1, <1>2, <2>1, <2>4 DEF AheadInv, Leaves
  <2> QED
    BY <1>2, <1>3, <1>4, <1>5, <2>3, <2>5, <2>6, TypeParts, DiskStays
<1> QED
    BY <1>6, <1>7

\* A new process, with the checkpoint or without it, and the end of one.
LEMMA ProcessInv ==
    ASSUME IndInv, Load(TRUE) \/ Load(FALSE) \/ Crash
    PROVE  IndInv'
<1> USE DEF IndInv
<1>1. PollTyped /\ MemoryTyped /\ DurableTyped
    BY Zenon DEF TypeOK, PollTyped, MemoryTyped, DurableTyped, Places
<1>2. /\ UNCHANGED <<producer, durable, saved, imported, shown>> /\ pc' \in {"idle", "down"}
      /\ cursor' = saved \/ cursor' = [f \in Files |-> NoSnapshot]
    BY DEF Load, Crash, durable, producer
<1>3. PollTyped'
  <2>1. CASE Load(TRUE) \/ Load(FALSE)
    BY <1>1, <2>1 DEF Load, PollTyped, Places
  <2>2. CASE Crash
    BY <2>2, PathsAssumption, DropTyped DEF Crash, Leaves
  <2> QED
    BY <2>1, <2>2
<1>4. MemoryTyped'
  <2>1. cursor' \in [Files -> Snapshots \cup {NoSnapshot}]
    BY <1>1, <1>2 DEF DurableTyped
  <2>2. cached' \in [Pages -> {"none", "useful", "useless"}]
    BY <1>1 DEF Load, Crash, MemoryTyped
  <2>3. reads' \in [Snapshots \X Pages -> Nat] /\ failed' \subseteq Snapshots \X Pages
    BY <1>1 DEF Load, Crash, MemoryTyped
  <2> QED
    BY <2>1, <2>2, <2>3 DEF MemoryTyped
<1>5. faults' \in 0 .. MaxFaults
    BY FaultTyped DEF Load, Crash, TypeOK
<1>6. ReadInv' /\ HoldInv' /\ ImportedSnapshotsExisted'
    BY <1>2 DEF ReadInv, HoldInv, Holding, ImportedSnapshotsExisted
<1>7. SettledInv' /\ AheadInv'
    BY <1>2 DEF SettledInv, Settled, AheadInv
<1> QED
    BY <1>1, <1>2, <1>3, <1>4, <1>5, <1>6, <1>7, TypeParts, PartsStay, DiskStays

LEMMA StepInv == IndInv /\ [Next]_vars => IndInv'
<1>1. IndInv /\ PollStep => IndInv'
    BY LeavingSteps, ReadSteps, HoldSteps, ImportInv, CommitInv, SaveInv, ProcessInv DEF PollStep
<1>2. IndInv /\ Failure => IndInv'
    BY LeavingSteps, HoldSteps, SaveInv, ProcessInv DEF Failure
<1>3. IndInv /\ UNCHANGED vars => IndInv'
  <2> SUFFICES ASSUME IndInv, UNCHANGED vars PROVE IndInv'
    OBVIOUS
  <2>1. UNCHANGED <<producer, memory, durable, poll, reads, faults, file>>
        /\ UNCHANGED <<disk, shown, writes, cursor, saved, imported, pc, index, before, content,
                       pending>>
    BY DEF vars, producer, memory, durable, poll, file
  <2>2. TypeOK'
    BY <2>1, TypeParts, PartsStay DEF IndInv, TypeOK
  <2> QED
    BY <2>1, <2>2, DiskStays DEF IndInv, ReadInv, HoldInv, SettledInv, Settled, AheadInv,
       ImportedSnapshotsExisted, Held, Stable
<1> QED
    BY <1>1, <1>2, <1>3, ProduceInv DEF Next

-----------------------------------------------------------------------------
(* The checkpoint. *)

\* However producers rewrite files between the steps of a read, and wherever an
\* import, a commit or the process fails: what was imported was in its file, what
\* is checkpointed was published, and between polls nothing is held for done that
\* the checkpoint does not hold.
THEOREM CheckpointIsAlwaysTrue == Spec => []CheckpointIsTrue
<1>1. IndInv => CheckpointIsTrue
    BY DEF IndInv, CheckpointIsTrue, CheckpointIsPublished, SettledInv, Settled,
       MemoryNeverAhead, AheadInv
<1> QED
    BY <1>1, InitInv, StepInv, PTL DEF Spec

-----------------------------------------------------------------------------
(* Failed reads. *)

\* A page that was read in vain for a snapshot is remembered, and the pages that
\* are still to read were not read in vain.
FailedInv ==
    /\ \A a \in Snapshots \X Pages : reads[a] = 0 \/ (reads[a] = 1 /\ a \in failed)
    /\ pc = "enrich" => \A p \in todo : <<content, p>> \notin failed

LEMMA FailedStep ==
    ASSUME IndInv, FailedInv, [Next]_vars
    PROVE  FailedInv'
<1> USE DEF IndInv
<1>1. CASE UNCHANGED <<failed, reads, todo, content>> /\ (pc' = "enrich" => pc = "enrich")
    BY <1>1 DEF FailedInv
<1>2. CASE UNCHANGED <<failed, reads>> /\ pc' # "enrich"
    BY <1>2 DEF FailedInv
<1>3. CASE StartEnrichment
  <2>1. UNCHANGED <<failed, reads, content>> /\ todo' = Candidates(content)
    BY <1>3 DEF StartEnrichment, memory
  <2> QED
    BY <2>1 DEF FailedInv, Candidates
<1>4. ASSUME NEW p \in Pages, EnrichPage(p) PROVE FailedInv'
  <2> DEFINE a == <<content, p>>
  <2>1. /\ pc = "enrich" /\ p \in todo /\ todo' = todo \ {p} /\ UNCHANGED <<pc, content>>
        /\ \/ failed' = failed /\ reads' = reads
           \/ /\ failed' = failed \cup {a}
              /\ reads' = reads \/ reads' = [reads EXCEPT ![a] = @ + 1]
    BY <1>4 DEF EnrichPage
  <2>2. a \in Snapshots \X Pages
    <3>1. content \in Snapshots
      BY <2>1, FileIsFile DEF HoldInv, Holding, TypeOK
    <3> QED
      BY <3>1
  <2>3. a \notin failed /\ reads[a] = 0
    BY <2>1, <2>2 DEF FailedInv
  <2>4. \A b \in Snapshots \X Pages : b # a => reads'[b] = reads[b]
    BY <2>1, <2>2 DEF TypeOK
  <2>5. reads'[a] = 0 \/ (reads'[a] = 1 /\ a \in failed')
    BY <2>1, <2>2, <2>3 DEF TypeOK
  <2>6. failed \subseteq failed' /\ failed' \subseteq failed \cup {a}
    BY <2>1
  <2>7. ASSUME NEW b \in Snapshots \X Pages
        PROVE  reads'[b] = 0 \/ (reads'[b] = 1 /\ b \in failed')
    BY <2>4, <2>5, <2>6 DEF FailedInv
  <2>8. \A q \in todo' : <<content, q>> \notin failed'
    BY <2>1, <2>6 DEF FailedInv
  <2> QED
    BY <2>1, <2>7, <2>8 DEF FailedInv
<1>5. CASE Save
  <2>1. /\ failed' = {a \in failed : a[1] # content}
        /\ reads' = [a \in Snapshots \X Pages |-> IF a[1] = content THEN 0 ELSE reads[a]]
        /\ pc' # "enrich"
    BY <1>5 DEF Save, NextFile
  <2> QED
    BY <2>1 DEF FailedInv
<1>6. CASE Crash
    BY <1>6 DEF Crash, FailedInv
<1>7. CASE Load(TRUE) \/ Load(FALSE) \/ Poll \/ SkipMissing \/ Stat \/ ReadHead \/ ReadTail
           \/ Changed \/ RejectExport \/ MapExport \/ FinishEnrichment \/ Import \/ Commit
           \/ ImportFails
    BY <1>2, <1>7 DEF Load, Poll, SkipMissing, Stat, ReadHead, ReadTail, Changed, RejectExport,
       MapExport, FinishEnrichment, Import, Commit, ImportFails, RejectRun, NextFile, memory
<1>8. CASE RaiseOversized \/ Defer \/ SkipUnchanged \/ RaiseMalformed \/ Report \/ ReportFails
           \/ CommitFails \/ SaveFails
    BY <1>2, <1>8 DEF RaiseOversized, Defer, SkipUnchanged, RaiseMalformed, Report, ReportFails,
       CommitFails, SaveFails, Raise, NextFile, memory
<1>9. CASE Produce \/ UNCHANGED vars
    BY <1>1, <1>9 DEF Produce, Replace, WriteHead, WriteTail, Write, memory, poll, vars
<1> QED
    BY <1>3, <1>4, <1>5, <1>6, <1>7, <1>8, <1>9 DEF Next, PollStep, Failure

\* A page whose read failed is read once for a snapshot, however many imports
\* and commits of it are tried again.
THEOREM FailedReadsAreNeverRepeated == Spec => []FailedReadsAreNotRepeated
<1>1. Init => FailedInv
    BY DEF Init, FailedInv
<1>2. FailedInv => FailedReadsAreNotRepeated
    BY DEF FailedInv, FailedReadsAreNotRepeated
<1>3. IndInv /\ FailedInv /\ [Next]_vars => FailedInv'
    BY FailedStep
<1> QED
    BY <1>1, <1>2, <1>3, InitInv, StepInv, PTL DEF Spec

-----------------------------------------------------------------------------
(* The scheduler. *)

\* The event is set exactly when the lifespan has come to the join, and only
\* the event ends the thread.
StopInv ==
    /\ stop <=> life \in {"joining", "closing", "left", "closed"}
    /\ loop = "none" <=> life = "boot"
    /\ loop = "ended" => stop

\* Only a thread that ended lets the lifespan close the handle.
OpenInv ==
    /\ open <=> life # "closed"
    /\ life \in {"closing", "closed"} => loop = "ended"

LoopInv == LoopTypeOK /\ StopInv /\ OpenInv /\ FailuresAreCounted /\ DelayWithinBounds

\* _delay_after_cycle returns seconds within the bounds.
LEMMA DelayBounded ==
    ASSUME NEW f \in 0 .. MaxFailures
    PROVE  /\ Delay(f) \in Nat
           /\ Delay(f) <= MaxBackoff \/ Delay(f) = Interval
           /\ Interval <= MaxBackoff => Delay(f) >= Interval
<1> USE DelayAssumption, CallsAssumption
<1>1. CASE f = 0
    BY <1>1 DEF Delay
<1>2. CASE f # 0
  <2>1. f - 1 \in 0 .. MaxFailures
    BY <1>2
  <2>2. PICK p \in Nat \ {0} : p = 2 ^ (f - 1)
    BY <2>1, PowersAssumption
  <2>3. Interval * p \in Nat /\ Interval * p >= Interval
    <3>1. p - 1 \in Nat
      BY <2>2
    <3>2. Interval * (p - 1) \in Nat
      BY <3>1
    <3>3. Interval * p = Interval * (p - 1) + Interval
      BY <2>2
    <3> QED
      BY <3>2, <3>3
  <2>4. Delay(f) = Smaller(Interval * p, MaxBackoff)
    BY <1>2, <2>2 DEF Delay
  <2> QED
    BY <2>3, <2>4 DEF Smaller
<1> QED
    BY <1>1, <1>2

LEMMA LoopInitInv == LoopInit => LoopInv
<1> SUFFICES ASSUME LoopInit PROVE LoopInv
    OBVIOUS
<1>1. LoopTypeOK
  <2>1. open \in BOOLEAN /\ stop \in BOOLEAN /\ collected \in BOOLEAN
    BY DEF LoopInit
  <2>2. failures \in 0 .. MaxFailures /\ left \in 0 .. Calls /\ streak \in 0 .. MaxFailures
    BY CallsAssumption DEF LoopInit
  <2>3. delay \in Nat
    BY DEF LoopInit
  <2> QED
    BY <2>1, <2>2, <2>3 DEF LoopInit, LoopTypeOK
<1>2. StopInv
    BY DEF LoopInit, StopInv
<1>3. OpenInv
    BY DEF LoopInit, OpenInv
<1>4. FailuresAreCounted /\ DelayWithinBounds
    BY DEF LoopInit, FailuresAreCounted, DelayWithinBounds
<1> QED
    BY <1>1, <1>2, <1>3, <1>4 DEF LoopInv

LEMMA LoopStepInv == LoopInv /\ [LoopNext]_loopVars => LoopInv'
<1> USE DelayAssumption, CallsAssumption
    DEF LoopInv, LoopTypeOK, Cycle, StopInv, OpenInv, FailuresAreCounted, DelayWithinBounds
<1> SUFFICES ASSUME LoopInv, [LoopNext]_loopVars PROVE LoopInv'
    OBVIOUS
<1>1. CASE Start
    BY <1>1 DEF Start
<1>2. CASE AskToStop
    BY <1>2 DEF AskToStop
<1>3. CASE Shutdown
    BY <1>3 DEF Shutdown, SetEvent, Joined, Close
<1>4. CASE JoinTimesOut
    BY <1>4 DEF JoinTimesOut, LeaveOpen
<1>5. CASE FirstSleep
    BY <1>5 DEF FirstSleep
<1>6. CASE Sleep
    BY <1>6, DelayBounded DEF Sleep
<1>7. CASE Wake
    BY <1>7 DEF Wake, Stopped
<1>8. CASE Begin
    BY <1>8 DEF Begin, Stopped
<1>9. CASE Collect
    BY <1>9 DEF Collect
<1>10. CASE ImportInbox
    BY <1>10 DEF ImportInbox
<1>11. CASE CallPaid
    BY <1>11 DEF CallPaid, MorePaid
<1>12. CASE Succeed
    BY <1>12 DEF Succeed, CollectedWell
<1>13. CASE Fail
  <2>1. Counted(failures) \in 0 .. MaxFailures
    BY DEF Counted, Smaller
  <2> QED
    BY <1>13, <2>1 DEF Fail, KeepLooping
<1>14. CASE Over \/ UNCHANGED loopVars
    BY <1>14 DEF Over, loopVars
<1> QED
    BY <1>1, <1>2, <1>3, <1>4, <1>5, <1>6, <1>7, <1>8, <1>9, <1>10, <1>11, <1>12, <1>13, <1>14
    DEF LoopNext, LoopStep

\* Cycles never run on a closed handle, a serving container stays ready, and
\* failures are counted and slept off within bounds: the scheduler thread and
\* the lifespan of runtime.py and api/main.py.
THEOREM SchedulerIsSafe == LoopSpec => []CyclesAreSafe
<1>1. LoopInv => CyclesAreSafe
    BY DEF LoopInv, CyclesAreSafe, LoopTypeOK, Cycle, StopInv, OpenInv, OpenWhileWorking,
           ReadyWhileServing, Ready
<1> QED
    BY <1>1, LoopInitInv, LoopStepInv, PTL DEF LoopSpec
=============================================================================
