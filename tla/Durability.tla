----------------------------- MODULE Durability -----------------------------
(***************************************************************************)
(* What a loss of power leaves of the configuration's files. Contents are  *)
(* synced before they get their name, so a name is never without its       *)
(* content; but the names themselves are operations on directories that    *)
(* wait in a journal. crates/lungyam-core/src/store.rs syncs the directory *)
(* of the active file; revision.rs and revision_state.rs sync none.        *)
(*                                                                         *)
(* On an ordered file system the operations become durable in the order    *)
(* they were made, those of both directories together (ext4, XFS);         *)
(* otherwise each on its own, and a sync is of one directory only.         *)
(***************************************************************************)
EXTENDS Naturals, Sequences, FiniteSets, FiniteSetsExt

CONSTANTS None, Configs, InitialConfig, MaxRevision, MaxLosses

ASSUME ConfigAssumption == None \notin Nat /\ InitialConfig \in Configs

ASSUME BoundAssumption == MaxRevision \in Nat /\ MaxLosses \in Nat

VARIABLES
    ordered,    \* the kind of file system
    disk,       \* the durable files: name -> content
    journal,    \* the operations since the last loss of power
    synced,     \* the places of those that have become durable by a sync
    task,       \* the call under way
    losses      \* losses of power so far

storage == <<disk, journal, synced>>
vars == <<ordered, storage, task, losses>>

\* The active file, the state file, the directory of the revisions, and what is in it.
Active == <<"active", 0>>
State == <<"state", 0>>
Root == <<"root", 0>>
Revision(n) == <<"revision", n>>

NoTask == [pc |-> "idle", config |-> None, revision |-> None]

NoReferences == [active |-> None, pending |-> None]

Init ==
    /\ ordered \in BOOLEAN
    /\ disk = [f \in {Active} |-> InitialConfig]
    /\ journal = <<>>
    /\ synced = {}
    /\ task = NoTask
    /\ losses = 0

----------------------------------------------------------------------------
(* The file system *)

\* What the last of the operations at the given places gives a file.
Content(f, places) ==
    LET writes == {i \in places : journal[i].file = f}
    IN IF writes = {} THEN disk[f] ELSE journal[Max(writes)].value

\* The files when only the operations at the given places have been done; with
\* the directory of the revisions goes what is in it.
Files(places) ==
    LET names == DOMAIN disk \cup {journal[i].file : i \in places}
    IN [f \in (IF Root \in names THEN names ELSE {Active}) |-> Content(f, places)]

\* What the program sees.
Seen == Files(DOMAIN journal)

Numbers(files) == {n \in 1..MaxRevision : Revision(n) \in DOMAIN files}

References(files) == IF State \in DOMAIN files THEN files[State] ELSE NoReferences

\* Mutant: the sync of systems that are not Unix.
SyncParentDirectoryElsewhere == UNCHANGED storage

\* sync_parent_directory of the active file, which is in the directory the root is in
SyncParentDirectory ==
    /\ synced' = IF ordered THEN DOMAIN journal
                 ELSE synced \cup {i \in DOMAIN journal : journal[i].file \in {Root, Active}}
    /\ UNCHANGED <<disk, journal>>

Write(ops) == journal' = journal \o ops /\ UNCHANGED <<disk, synced>>

Op(file, value) == [file |-> file, value |-> value]

----------------------------------------------------------------------------
(* The lifecycle *)

\* Mutant: an activation records its success first.
SuccessorRecordFirst(pc) ==
    CASE pc = "stage" -> "mark" [] pc = "activate" -> "record"
      [] pc = "mark" -> "idle" [] pc = "record" -> "save"
      [] pc = "save" -> "sync" [] pc = "sync" -> "idle"

\* What follows each step of stage_inner and of activate_revision_inner.
Successor(pc) ==
    CASE pc = "stage" -> "mark" [] pc = "activate" -> "save"
      [] pc = "mark" -> "idle" [] pc = "save" -> "sync"
      [] pc = "sync" -> "record" [] pc = "record" -> "idle"

NextRevision == IF Numbers(Seen) = {} THEN 1 ELSE Max(Numbers(Seen)) + 1

Goto(pc) == task' = IF pc = "idle" THEN NoTask ELSE [task EXCEPT !.pc = pc]

CreateRevision ==
    /\ task.pc = "idle" /\ NextRevision <= MaxRevision
    /\ \E config \in Configs :
         /\ task' = [pc |-> Successor("stage"), config |-> config, revision |-> NextRevision]
         /\ Write((IF Root \in DOMAIN Seen THEN <<>> ELSE <<Op(Root, None)>>)
                  \o <<Op(Revision(NextRevision), config)>>)
    /\ UNCHANGED losses

Known(references, files) ==
    {references.active, references.pending} \subseteq Numbers(files) \cup {None}

\* FileRevisionStateStore::save: the references are checked, the directory is
\* not synced.
SaveState(pc, references) ==
    /\ task.pc = pc
    /\ IF Known(references, Seen) THEN Write(<<Op(State, references)>>) /\ Goto(Successor(pc))
       ELSE UNCHANGED storage /\ Goto("idle")
    /\ UNCHANGED losses

MarkPending ==
    SaveState("mark", [active |-> References(Seen).active, pending |-> task.revision])

LoadPending ==
    LET pending == References(Seen).pending
    IN /\ task.pc = "idle"
       /\ pending \in Numbers(Seen)
       /\ task' = [pc |-> Successor("activate"), revision |-> pending,
                   config |-> Seen[Revision(pending)]]
       /\ UNCHANGED <<storage, losses>>

RenameActive ==
    /\ task.pc = "save"
    /\ Write(<<Op(Active, task.config)>>)
    /\ Goto(Successor("save"))
    /\ UNCHANGED losses

SyncActive ==
    /\ task.pc = "sync"
    /\ SyncParentDirectory
    /\ Goto(Successor("sync"))
    /\ UNCHANGED losses

RecordActive == SaveState("record", [active |-> task.revision, pending |-> None])

\* What was synced survives and, of the rest, a prefix or any part.
PowerLoss ==
    /\ losses < MaxLosses
    /\ losses' = losses + 1
    /\ \E places \in IF ordered THEN {1..n : n \in 0..Len(journal)} ELSE SUBSET DOMAIN journal :
         synced \subseteq places /\ disk' = Files(places)
    /\ journal' = <<>>
    /\ synced' = {}
    /\ task' = NoTask

Next ==
    /\ \/ CreateRevision \/ MarkPending
       \/ LoadPending \/ RenameActive \/ SyncActive \/ RecordActive
       \/ PowerLoss
    /\ UNCHANGED ordered

Spec == Init /\ [][Next]_vars

----------------------------------------------------------------------------

\* Once its directory is synced the active file survives, and with it every
\* activation that has returned Ok, on any file system.
ActiveSurvives ==
    [][losses' # losses /\ task.pc # "sync" => Seen'[Active] = Seen[Active]]_vars

\* On an ordered file system revisions are lost from the end, so their numbers have
\* no gaps; the state file never names one that is lost, and when nothing is pending
\* the active file is the revision it names.
RecordsHold ==
    ordered =>
      LET references == References(Seen)
      IN /\ Numbers(Seen) = 1..Cardinality(Numbers(Seen))
         /\ Known(references, Seen)
         /\ task.pc = "idle" /\ references.pending = None /\ references.active # None =>
              Seen[Revision(references.active)] = Seen[Active]
=============================================================================
