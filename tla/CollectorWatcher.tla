-------------------------- MODULE CollectorWatcher --------------------------
(***************************************************************************)
(* CollectorOutputWatcher (guardian_voc/runtime.py): each poll reads the   *)
(* crawler's output files, enriches and imports the snapshots that changed *)
(* and moves a cursor kept in memory and in a checkpoint file.  Producers  *)
(* rewrite the files at any time, the process may die between two steps.   *)
(***************************************************************************)
EXTENDS Naturals, FiniteSets, Sequences

CONSTANTS Paths,        \* the watched files, in the order poll() visits them
          Verified,     \* those that are trusted strict exports
          Contents,     \* what a producer writes
          Missing,      \* no file, or no content
          Broken,       \* contents the parser refuses
          Oversized,    \* contents above voc_max_import_bytes
          Direct,       \* contents with a row that maps without its page
          Pages,        \* public pages named by guardian candidates
          PagesOf,      \* pages to read for each content
          MaxWrites,    \* bound on what the producers write
          MaxFaults     \* bound on raising calls and process deaths

Files == {Paths[n] : n \in 1..Len(Paths)}

ASSUME PathsAssumption    == /\ Paths \in Seq(Files) /\ Len(Paths) > 0
                             /\ \A m, n \in 1..Len(Paths) :
                                   Paths[m] = Paths[n] => m = n
                             /\ Verified \subseteq Files
ASSUME ContentsAssumption == /\ Missing \notin Contents
                             /\ Broken \subseteq Contents
                             /\ Oversized \subseteq Contents
                             /\ Direct \subseteq Contents
                             /\ PagesOf \in [Contents -> SUBSET Pages]
ASSUME LimitsAssumption   == MaxWrites \in Nat /\ MaxFaults \in Nat

VARIABLES
    disk,     \* producers' files: both halves and a version (inode, mtime, size)
    writes,   \* writes of all producers so far
    shown,    \* snapshots each file has ever held (observer)
    cursor,   \* _fingerprints
    saved,    \* durable: fingerprints in the checkpoint file
    failed,   \* _failed_enrichment_attempts
    cached,   \* what CachedPageReader holds for a page
    reads,    \* reads of a page that failed, per snapshot (observer)
    health,   \* durable: source_status of collector_public_social
    imported, \* durable: snapshots whose import run was published
    pc,       \* where the poll stands
    index,    \* the file the poll looks at
    before,   \* version that stat() saw before the read
    content,  \* what the read returned so far
    todo,     \* pages still to read for that content
    pending,  \* cursor value to restore when the commit fails
    faults    \* raising calls and process deaths so far

producer == <<disk, shown, writes>>
memory   == <<cursor, failed, cached>>
durable  == <<saved, health, imported>>
poll     == <<pc, index, before, content, todo, pending>>
vars     == <<producer, memory, durable, poll, reads, faults>>

\* A snapshot is what one read returns: the two halves of the file.
Snapshots == Contents \X Contents
NoSnapshot == <<Missing, Missing>>

file == Paths[index]

\* What a reader finds when no write interferes.
Held(f) == <<disk[f].head, disk[f].tail>>

TypeOK ==
    /\ disk \in [Files -> [head : Contents \cup {Missing},
                           tail : Contents \cup {Missing}, version : 0..MaxWrites]]
    /\ writes \in 0..MaxWrites
    /\ shown \in [Files -> SUBSET Snapshots]
    /\ cursor \in [Files -> Snapshots \cup {NoSnapshot}]
    /\ saved \in [Files -> Snapshots \cup {NoSnapshot}]
    /\ failed \subseteq Snapshots \X Pages
    /\ cached \in [Pages -> {"none", "useful", "useless"}]
    /\ reads \in [Snapshots \X Pages -> Nat]
    /\ health \in {"none", "ok", "failed"}
    /\ imported \in [Files -> SUBSET Snapshots]
    /\ pc \in {"down", "idle", "stat", "head", "tail", "check", "map", "enrich",
               "import", "commit", "save", "undo", "report"}
    /\ index \in 1..Len(Paths)
    /\ before \in 0..MaxWrites
    /\ content \in (Contents \cup {Missing}) \X (Contents \cup {Missing})
    /\ todo \subseteq Pages
    /\ pending \in Snapshots \cup {NoSnapshot}
    /\ faults \in 0..MaxFaults

Init ==
    /\ disk = [f \in Files |-> [head |-> Missing, tail |-> Missing, version |-> 0]]
    /\ writes = 0
    /\ shown = [f \in Files |-> {}]
    /\ cursor = [f \in Files |-> NoSnapshot]
    /\ saved = [f \in Files |-> NoSnapshot]
    /\ failed = {}
    /\ cached = [p \in Pages |-> "none"]
    /\ reads = [a \in Snapshots \X Pages |-> 0]
    /\ health = "none"
    /\ imported = [f \in Files |-> {}]
    /\ pc = "down"
    /\ index = 1 /\ before = 0
    /\ content = NoSnapshot /\ todo = {} /\ pending = NoSnapshot
    /\ faults = 0

------------------------------------------------------------------------------
(* Producers, outside this code: a file is replaced whole, or written in    *)
(* place, the second half after the first.                                  *)

Write(f, h, t) ==
    /\ writes < MaxWrites
    /\ writes' = writes + 1
    /\ disk' = [disk EXCEPT ![f] = [head |-> h, tail |-> t, version |-> @.version + 1]]
    /\ shown' = [shown EXCEPT ![f] = @ \cup {<<h, t>>}]
    /\ UNCHANGED <<memory, durable, poll, reads, faults>>

Replace(f, c) == Write(f, c, c)

WriteHead(f, c) ==
    /\ disk[f].head = disk[f].tail /\ disk[f].head # Missing
    /\ writes < MaxWrites - 1
    /\ Write(f, c, disk[f].tail)

WriteTail(f) ==
    /\ disk[f].head # disk[f].tail
    /\ Write(f, disk[f].head, disk[f].head)

------------------------------------------------------------------------------
(* What a snapshot holds.  A mix of two contents parses when both do.       *)

Halves(s) == {s[1], s[2]}
Refused(s)  == Halves(s) \cap Broken # {}
TooLarge(s) == Halves(s) \cap Oversized # {}
PagesIn(s)  == UNION {PagesOf[c] : c \in Halves(s)}
Plain(s)    == Halves(s) \cap Direct # {}

\* counts["mapped_rows"]: verified exports keep every row, discovery rows
\* need a page that was read.
Mapped(f, s) ==
    \/ Plain(s)
    \/ f \notin Verified
       /\ \E p \in PagesIn(s) : cached[p] = "useful" /\ <<s, p>> \notin failed

------------------------------------------------------------------------------
(* The poll.                                                                *)

\* Broken variant: an unchanged or missing file ends the poll.
StopThere == pc' = "idle" /\ index' = 1

\* The loop goes on with the next file or the poll returns.
NextFile ==
    IF index < Len(Paths) THEN pc' = "stat" /\ index' = index + 1
                          ELSE pc' = "idle" /\ index' = 1

\* Nothing of the snapshot in hand survives the step.
DropSnapshot ==
    before' = 0 /\ content' = NoSnapshot /\ todo' = {} /\ pending' = NoSnapshot

\* An exception leaves poll(): later files wait for the next cycle.
Raise == pc' = "idle" /\ index' = 1 /\ DropSnapshot

Fault == faults < MaxFaults /\ faults' = faults + 1

\* The watcher is built: the checkpoint is loaded, unless it is unreadable.
Load(readable) ==
    /\ pc = "down"
    /\ IF readable THEN UNCHANGED faults ELSE Fault
    /\ cursor' = IF readable THEN saved ELSE [f \in Files |-> NoSnapshot]
    /\ pc' = "idle"
    /\ UNCHANGED <<producer, failed, cached, durable, index, before, content,
                   todo, pending, reads>>

Poll ==
    /\ pc = "idle"
    /\ pc' = "stat"
    /\ UNCHANGED <<producer, memory, durable, index, before, content, todo,
                   pending, reads, faults>>

SkipMissing ==
    /\ pc = "stat"
    /\ disk[file].head = Missing
    /\ NextFile
    /\ UNCHANGED <<producer, memory, durable, before, content, todo, pending,
                   reads, faults>>

\* _stable_read: stat, the bytes (two steps, a write may fall between), stat.
Stat ==
    /\ pc = "stat"
    /\ disk[file].head # Missing /\ ~TooLarge(Held(file))
    /\ before' = disk[file].version
    /\ pc' = "head"
    /\ UNCHANGED <<producer, memory, durable, index, content, todo, pending,
                   reads, faults>>

RaiseOversized ==
    /\ pc = "stat"
    /\ disk[file].head # Missing /\ TooLarge(Held(file))
    /\ Raise
    /\ UNCHANGED <<producer, memory, durable, reads, faults>>

ReadHead ==
    /\ pc = "head"
    /\ content' = <<disk[file].head, content[2]>>
    /\ pc' = "tail"
    /\ UNCHANGED <<producer, memory, durable, index, before, todo, pending,
                   reads, faults>>

ReadTail ==
    /\ pc = "tail"
    /\ content' = <<content[1], disk[file].tail>>
    /\ pc' = "check"
    /\ UNCHANGED <<producer, memory, durable, index, before, todo, pending,
                   reads, faults>>

Stable == disk[file].version = before

Defer ==
    /\ pc = "check"
    /\ ~Stable
    /\ NextFile
    /\ DropSnapshot
    /\ UNCHANGED <<producer, memory, durable, reads, faults>>

Known == cursor[file] = content

SkipUnchanged ==
    /\ pc = "check"
    /\ Stable /\ Known
    /\ NextFile
    /\ DropSnapshot
    /\ UNCHANGED <<producer, memory, durable, reads, faults>>

Changed ==
    /\ pc = "check"
    /\ Stable /\ ~Known
    /\ pc' = "map"
    /\ UNCHANGED <<producer, memory, durable, index, before, content, todo,
                   pending, reads, faults>>

\* _canonical_payload of a malformed discovery file raises out of the poll.
RaiseMalformed ==
    /\ pc = "map"
    /\ file \notin Verified /\ Refused(content)
    /\ Raise
    /\ UNCHANGED <<producer, memory, durable, reads, faults>>

\* A malformed strict export is reported first.
RejectExport ==
    /\ pc = "map"
    /\ file \in Verified /\ Refused(content)
    /\ pc' = "report"
    /\ UNCHANGED <<producer, memory, durable, index, before, content, todo,
                   pending, reads, faults>>

MapExport ==
    /\ pc = "map"
    /\ file \in Verified /\ ~Refused(content)
    /\ pc' = IF Mapped(file, content) THEN "import" ELSE "commit"
    /\ UNCHANGED <<producer, memory, durable, index, before, content, todo,
                   pending, reads, faults>>

\* Broken variant: every candidate page is read again.
AllPages(s) == PagesIn(s)

\* Pages whose read already failed for this snapshot are not read again.
Candidates(s) == {p \in PagesIn(s) : <<s, p>> \notin failed}

StartEnrichment ==
    /\ pc = "map"
    /\ file \notin Verified /\ ~Refused(content)
    /\ todo' = Candidates(content)
    /\ pc' = "enrich"
    /\ UNCHANGED <<producer, memory, durable, index, before, content, pending,
                   reads, faults>>

\* One page of the gather; pages come back in any order.  A page without
\* text is cached all the same, an exception is not.
EnrichPage(p) ==
    /\ pc = "enrich"
    /\ p \in todo
    /\ todo' = todo \ {p}
    /\ \E result \in IF cached[p] = "none" THEN {"useful", "useless", "raised"}
                     ELSE {cached[p]} :
          /\ cached' = IF result = "raised" THEN cached
                       ELSE [cached EXCEPT ![p] = result]
          /\ failed' = IF result = "useful" THEN failed
                       ELSE failed \cup {<<content, p>>}
          /\ reads' = IF result = "useful" \/ cached[p] # "none" THEN reads
                      ELSE [reads EXCEPT ![<<content, p>>] = @ + 1]
    /\ UNCHANGED <<producer, cursor, durable, pc, index, before, content,
                   pending, faults>>

FinishEnrichment ==
    /\ pc = "enrich"
    /\ todo = {}
    /\ pc' = IF Mapped(file, content) THEN "import" ELSE "commit"
    /\ UNCHANGED <<producer, memory, durable, index, before, content, todo,
                   pending, reads, faults>>

\* import_bytes answers "completed" or "partial".
Import ==
    /\ pc = "import"
    /\ imported' = [imported EXCEPT ![file] = @ \cup {content}]
    /\ pc' = "commit"
    /\ UNCHANGED <<producer, memory, saved, health, index, before, content,
                   todo, pending, reads, faults>>

\* Broken variant: whatever the run answered, the snapshot is done.
AcceptFailure == pc' = "commit"

RejectRun == pc' = "report"

\* import_bytes raises, or its run failed.
ImportFails ==
    /\ pc = "import"
    /\ Fault
    /\ RejectRun
    /\ UNCHANGED <<producer, memory, durable, index, before, content, todo,
                   pending, reads>>

\* _record_failed_source_status, then the exception.
Report ==
    /\ pc = "report"
    /\ health' = "failed"
    /\ Raise
    /\ UNCHANGED <<producer, memory, saved, imported, reads, faults>>

ReportFails ==
    /\ pc = "report"
    /\ Fault
    /\ Raise
    /\ UNCHANGED <<producer, memory, durable, reads>>

\* _commit_snapshot: the cursor in memory and the source status ...
Commit ==
    /\ pc = "commit"
    /\ pending' = cursor[file]
    /\ cursor' = [cursor EXCEPT ![file] = content]
    /\ health' = "ok"
    /\ pc' = "save"
    /\ UNCHANGED <<producer, failed, cached, saved, imported, index, before,
                   content, todo, reads, faults>>

CommitFails ==
    /\ pc = "commit"
    /\ Fault
    /\ Raise
    /\ UNCHANGED <<producer, memory, durable, reads>>

\* ... then the checkpoint file; failed reads of the snapshot are forgotten.
Save ==
    /\ pc = "save"
    /\ saved' = cursor
    /\ failed' = {a \in failed : a[1] # content}
    /\ reads' = [a \in Snapshots \X Pages |-> IF a[1] = content THEN 0 ELSE reads[a]]
    /\ NextFile
    /\ DropSnapshot
    /\ UNCHANGED <<producer, cursor, cached, health, imported, faults>>

RestoreCursor == cursor' = [cursor EXCEPT ![file] = pending]

SaveFails ==
    /\ pc = "save"
    /\ Fault
    /\ RestoreCursor
    /\ Raise
    /\ UNCHANGED <<producer, failed, cached, durable, reads>>

\* The process dies; what the watcher held in memory is gone.
Crash ==
    /\ pc # "down"
    /\ Fault
    /\ pc' = "down" /\ index' = 1 /\ DropSnapshot
    /\ cursor' = [f \in Files |-> NoSnapshot]
    /\ failed' = {}
    /\ cached' = [p \in Pages |-> "none"]
    /\ reads' = [a \in Snapshots \X Pages |-> 0]
    /\ UNCHANGED <<producer, durable>>

------------------------------------------------------------------------------

PollStep ==
    \/ Load(TRUE) \/ Poll \/ SkipMissing \/ Stat \/ RaiseOversized
    \/ ReadHead \/ ReadTail \/ Defer \/ SkipUnchanged \/ Changed
    \/ RaiseMalformed \/ RejectExport \/ MapExport
    \/ StartEnrichment \/ FinishEnrichment \/ \E p \in Pages : EnrichPage(p)
    \/ Import \/ Report \/ Commit \/ Save

Failure ==
    \/ Load(FALSE) \/ ImportFails \/ ReportFails \/ CommitFails \/ SaveFails
    \/ Crash

Produce ==
    \E f \in Files :
       \/ WriteTail(f)
       \/ \E c \in Contents : Replace(f, c) \/ WriteHead(f, c)

Next == PollStep \/ Failure \/ Produce

Spec == Init /\ [][Next]_vars

\* The scheduler polls in every cycle; producers owe nothing.
FairSpec == Spec /\ WF_vars(PollStep)

------------------------------------------------------------------------------
(* Properties.                                                              *)

\* A snapshot is checkpointed only after an import run published it, or
\* because nothing in it maps without a page that could not be read: a crash
\* or a failed run between import and checkpoint never loses a snapshot.
CheckpointIsPublished ==
    \A f \in Files : saved[f] # NoSnapshot =>
        saved[f] \in imported[f] \/ ~Plain(saved[f])

\* What is imported was in the file at one moment: "or defer when a producer
\* is replacing it", however writes and the two halves of a read interleave.
ImportedSnapshotsExisted == \A f \in Files : imported[f] \subseteq shown[f]

\* Between two polls the watcher never holds a file for done that the
\* checkpoint does not: otherwise a failed commit would not be tried again.
MemoryNeverAhead ==
    pc = "idle" => \A f \in Files : cursor[f] \in {saved[f], NoSnapshot}

\* "Failed paid reads are not repeated for the same immutable source
\* snapshot when a later import step needs a retry".
FailedReadsAreNotRepeated == \A a \in Snapshots \X Pages : reads[a] <= 1

\* Once every file holds something the parser accepts, each file's last
\* snapshot is published, however many runs, commits or processes failed
\* before.  A malformed file delays the files after it only while it stays.
LastSnapshotIsPublished ==
    <>[](\A f \in Files : Held(f) # NoSnapshot
                             => ~Refused(Held(f)) /\ ~TooLarge(Held(f)))
    => <>[](\A f \in Files : Held(f) # NoSnapshot /\ Plain(Held(f))
                                => Held(f) \in imported[f])
\* What was imported existed, what is checkpointed was published, and what is
\* held for done is checkpointed, wherever an import, a commit or the process
\* failed.
CheckpointIsTrue ==
    TypeOK /\ ImportedSnapshotsExisted /\ CheckpointIsPublished /\ MemoryNeverAhead
=============================================================================
