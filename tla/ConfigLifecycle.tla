--------------------------- MODULE ConfigLifecycle ---------------------------
(***************************************************************************)
(* FileConfigLifecycle (crates/lungyam-core/src/lifecycle.rs) over the     *)
(* three stores it writes: the active configuration file (store.rs), the   *)
(* numbered revision directories (revision.rs) and the revision state file *)
(* (revision_state.rs).                                                    *)
(*                                                                         *)
(* Threads of one process call stage, activate_pending and rollback_to.    *)
(* A step ends where the file system has changed, where a lock is taken or *)
(* released, or where state that another step may change has been read.    *)
(* A call may fail at every fallible system call, and the process may      *)
(* crash between any two steps and be started again.                       *)
(***************************************************************************)
EXTENDS Naturals, FiniteSets, FiniteSetsExt, TLC

CONSTANTS
    Threads,        \* the callers
    Configs,        \* configurations, up to the equality of ConfigDiff
    ValidConfigs,   \* those Config::validate accepts
    InitialConfig,  \* what the active file holds when the gateway is deployed
    None,           \* Option::None
    MaxRevision,    \* u64::MAX, where next_revision runs out of numbers
    MaxCrashes,     \* bound: crashes of the process
    MaxFaults       \* bound: system calls that return an error

ASSUME ConfigAssumption ==
    /\ ValidConfigs \subseteq Configs
    /\ InitialConfig \in ValidConfigs
    /\ None \notin Configs \cup Threads \cup Nat

ASSUME BoundAssumption ==
    /\ MaxRevision \in Nat \ {0}
    /\ MaxCrashes \in Nat
    /\ MaxFaults \in Nat

VARIABLES
    activeFile,     \* the configuration in lungyam.yaml
    revisions,      \* published directories revisions/NNNNNN: number -> configuration
    stateFile,      \* revisions/state.yaml (absent is both references None)
    temps,          \* names of temporary files and directories on disk
    sequence,       \* the TEMP_SEQUENCE counter of each store's module
    lifecycleLock,  \* LIFECYCLE_LOCK
    revisionLock,   \* REVISION_LOCK
    task,           \* what each thread is doing
    crashes, faults,    \* how much of each bound is used
    refused,        \* auxiliary: operations refused since the start of the
                    \* process because a temporary name was already on disk
    drift           \* auxiliary: the last crash or error that hit between the
                    \* write of the active file and that of the state file
                    \* has not yet been followed by a successful activation

disk == <<activeFile, revisions, stateFile>>
locks == <<lifecycleLock, revisionLock>>
bounds == <<crashes, faults>>
aux == <<refused, drift>>
vars == <<disk, temps, sequence, locks, task, bounds, aux>>

----------------------------------------------------------------------------
Revisions == 1..MaxRevision
Reference == Revisions \cup {None}
RevisionState == [active: Reference, pending: Reference]
NoReferences == [active |-> None, pending |-> None]

Stores == {"active", "revision", "state"}

\* Temporary names carry the process id, which a restarted container reuses
\* (its process is always number 1), and the store's sequence number.
TempNames == [store: Stores, rev: Reference, seq: Nat]
TempName(store, rev) == [store |-> store, rev |-> rev, seq |-> sequence[store]]

Phases == {"stage", "activate", "restore"}
Results == {"none", "ok", "noPending", "config", "revision", "state", "recovery"}
PCs == {"idle", "acquire",
        "create", "publish", "readState",               \* stage_inner
        "readPending", "readHistorical", "readRevision",
        "openActive", "renameActive", "syncActive",     \* FileConfigStore::save
        "openState", "renameState"}                     \* FileRevisionStateStore::save

Task == [pc: PCs,
         op: {"stage", "activate", "rollback"},
         phase: Phases,
         wanted: Configs \cup Revisions \cup {None},    \* argument of the call
         cand: Configs \cup {None},                     \* candidate
         prev: Configs \cup {None},                     \* previous active configuration
         rev: Reference,                                \* revision staged or activated
         st: RevisionState,                             \* state about to be saved
         temp: TempNames \cup {None},                   \* temporary name in use
         before: [file: Configs, state: RevisionState], \* auxiliary: at lock acquisition
         result: Results]

Idle(result) ==
    [pc |-> "idle", op |-> "stage", phase |-> "stage", wanted |-> None,
     cand |-> None, prev |-> None, rev |-> None, st |-> NoReferences, temp |-> None,
     before |-> [file |-> InitialConfig, state |-> NoReferences], result |-> result]

References(st) == {st.active, st.pending} \ {None}

\* The active file holds a candidate that the state file does not record yet.
InWindow(k) ==
    \/ k.phase = "activate" /\ k.pc \in {"syncActive", "openState", "renameState"}
    \/ k.phase = "restore" /\ k.pc \in {"openActive", "renameActive"}

----------------------------------------------------------------------------
Init ==
    /\ activeFile = InitialConfig
    /\ revisions = [r \in {} |-> InitialConfig]
    /\ stateFile = NoReferences
    /\ temps = {}
    /\ sequence = [s \in Stores |-> 1]
    /\ lifecycleLock = None
    /\ revisionLock = None
    /\ task = [t \in Threads |-> Idle("none")]
    /\ crashes = 0
    /\ faults = 0
    /\ refused = 0
    /\ drift = FALSE

At(t, pc) == task[t].pc = pc
Become(t, k) == task' = [task EXCEPT ![t] = k]

\* The call returns and its guard, the lifecycle lock, is dropped.
Return(t, result) ==
    /\ Become(t, Idle(result))
    /\ lifecycleLock' = None

\* A system call returns an error.
Fault ==
    /\ faults < MaxFaults
    /\ faults' = faults + 1
    /\ UNCHANGED crashes

\* Mutant: the counter is read and never advanced.
TakeSequenceStuck(store) == UNCHANGED sequence

TakeSequence(store) == sequence' = [sequence EXCEPT ![store] = @ + 1]

\* create_new or create_dir found the temporary name on disk.
Refused == refused' = refused + 1

----------------------------------------------------------------------------
(* The calls, and the lock they all take first. *)

Call(t, op, phase, wanted, cand) ==
    /\ At(t, "idle")
    /\ Become(t, [Idle("none") EXCEPT
                    !.pc = "acquire", !.op = op, !.phase = phase,
                    !.wanted = wanted, !.cand = cand])
    /\ UNCHANGED <<disk, temps, sequence, locks, bounds, aux>>

Stage(t, c) == Call(t, "stage", "stage", c, c)
ActivatePending(t) == Call(t, "activate", "activate", None, None)
RollbackTo(t, r) == Call(t, "rollback", "stage", r, None)

FirstStep(op) ==
    CASE op = "stage" -> "create"
      [] op = "activate" -> "readPending"
      [] op = "rollback" -> "readHistorical"

\* Mutant: the calls do not exclude one another.
AcquireLifecycleUnlocked(t) ==
    /\ At(t, "acquire")
    /\ lifecycleLock' = t
    /\ Become(t, [task[t] EXCEPT
                    !.pc = FirstStep(task[t].op),
                    !.before = [file |-> activeFile, state |-> stateFile]])
    /\ UNCHANGED <<disk, temps, sequence, revisionLock, bounds, aux>>

AcquireLifecycle(t) ==
    /\ At(t, "acquire")
    /\ lifecycleLock = None
    /\ lifecycleLock' = t
    /\ Become(t, [task[t] EXCEPT
                    !.pc = FirstStep(task[t].op),
                    !.before = [file |-> activeFile, state |-> stateFile]])
    /\ UNCHANGED <<disk, temps, sequence, revisionLock, bounds, aux>>

----------------------------------------------------------------------------
(* Reads of the state file and of revisions. *)

ReadPending(t) ==
    /\ At(t, "readPending")
    /\ IF stateFile.pending = None
       THEN Return(t, "noPending")
       ELSE /\ Become(t, [task[t] EXCEPT !.pc = "readRevision", !.rev = stateFile.pending])
            /\ UNCHANGED lifecycleLock
    /\ UNCHANGED <<disk, temps, sequence, revisionLock, bounds, aux>>

ReadHistorical(t) ==
    /\ At(t, "readHistorical")
    /\ IF task[t].wanted \in DOMAIN revisions
       THEN /\ Become(t, [task[t] EXCEPT !.pc = "create", !.cand = revisions[task[t].wanted]])
            /\ UNCHANGED lifecycleLock
       ELSE Return(t, "revision")
    /\ UNCHANGED <<disk, temps, sequence, revisionLock, bounds, aux>>

\* The candidate comes from the revision, the previous configuration from the
\* active file; saving the candidate comes next.
ReadRevision(t) ==
    /\ At(t, "readRevision")
    /\ task[t].rev \in DOMAIN revisions
    /\ Become(t, [task[t] EXCEPT !.pc = "openActive",
                                 !.cand = revisions[task[t].rev],
                                 !.prev = activeFile])
    /\ UNCHANGED <<disk, temps, sequence, locks, bounds, aux>>

ReadState(t) ==
    /\ At(t, "readState")
    /\ Become(t, [task[t] EXCEPT !.pc = "openState",
                                 !.st = [stateFile EXCEPT !.pending = task[t].rev]])
    /\ UNCHANGED <<disk, temps, sequence, locks, bounds, aux>>

\* The error a failed read is reported as: a revision that cannot be read, an
\* active file that cannot, or the state file.
ReadError(pc) ==
    CASE pc = "readRevision" -> {"revision", "config"}
      [] pc = "readHistorical" -> {"revision"}
      [] OTHER -> {"state"}

ReadFails(t) ==
    /\ task[t].pc \in {"readPending", "readHistorical", "readRevision", "readState"}
    /\ Fault
    /\ \E e \in ReadError(task[t].pc) : Return(t, e)
    /\ UNCHANGED <<disk, temps, sequence, revisionLock, aux>>

----------------------------------------------------------------------------
(* FileRevisionStore::create, entered from stage_inner. *)

\* Mutant: numbers follow the state file's references, not the directories.
HighestReferenced ==
    IF References(stateFile) = {} THEN 0 ELSE Max(References(stateFile))

HighestRevision ==
    IF DOMAIN revisions = {} THEN 0 ELSE Max(DOMAIN revisions)

NextRevision == HighestRevision + 1

\* Mutant: the addition is not checked.
NeverExhausted == FALSE

Exhausted == HighestRevision = MaxRevision

RejectCandidate(t) ==
    /\ At(t, "create")
    /\ task[t].cand \notin ValidConfigs
    /\ Return(t, "config")
    /\ UNCHANGED <<disk, temps, sequence, revisionLock, bounds, aux>>

RevisionsExhausted(t) ==
    /\ At(t, "create")
    /\ task[t].cand \in ValidConfigs
    /\ revisionLock = None
    /\ Exhausted
    /\ Return(t, "revision")
    /\ UNCHANGED <<disk, temps, sequence, revisionLock, bounds, aux>>

\* Takes REVISION_LOCK, picks the number and creates the temporary directory.
CreateRevision(t) ==
    /\ At(t, "create")
    /\ task[t].cand \in ValidConfigs
    /\ revisionLock = None
    /\ ~Exhausted
    /\ TakeSequence("revision")
    /\ LET name == TempName("revision", NextRevision) IN
       IF name \in temps
       THEN /\ Return(t, "revision")
            /\ Refused
            /\ UNCHANGED <<temps, revisionLock>>
       ELSE /\ temps' = temps \cup {name}
            /\ revisionLock' = t
            /\ Become(t, [task[t] EXCEPT !.pc = "publish", !.rev = NextRevision,
                                         !.temp = name])
            /\ UNCHANGED <<lifecycleLock, refused>>
    /\ UNCHANGED <<disk, bounds, drift>>

\* The revisions root cannot be created or listed, or the temporary directory
\* cannot be created.
CreateRevisionFails(t) ==
    /\ At(t, "create")
    /\ task[t].cand \in ValidConfigs
    /\ revisionLock = None
    /\ Fault
    /\ TakeSequence("revision") \/ UNCHANGED sequence
    /\ Return(t, "revision")
    /\ UNCHANGED <<disk, temps, revisionLock, aux>>

\* Both files are written and the directory gets its final name, which must
\* not be in use.
PublishRevision(t) ==
    /\ At(t, "publish")
    /\ task[t].rev \notin DOMAIN revisions
    /\ revisions' = [r \in DOMAIN revisions \cup {task[t].rev} |->
                        IF r = task[t].rev THEN task[t].cand ELSE revisions[r]]
    /\ temps' = temps \ {task[t].temp}
    /\ revisionLock' = None
    /\ Become(t, [task[t] EXCEPT !.pc = "readState", !.temp = None])
    /\ UNCHANGED <<activeFile, stateFile, sequence, lifecycleLock, bounds, aux>>

\* Writing or renaming fails; so may the removal of the temporary directory,
\* whose error is ignored.
\* Mutant: the error path leaves the revision lock taken.
PublishRevisionFailsLocked(t) ==
    /\ At(t, "publish")
    /\ Fault
    /\ temps' \in {temps, temps \ {task[t].temp}}
    /\ Return(t, "revision")
    /\ UNCHANGED <<disk, sequence, revisionLock, aux>>

PublishRevisionFails(t) ==
    /\ At(t, "publish")
    /\ IF task[t].rev \in DOMAIN revisions THEN UNCHANGED bounds ELSE Fault
    /\ temps' \in {temps, temps \ {task[t].temp}}
    /\ revisionLock' = None
    /\ Return(t, "revision")
    /\ UNCHANGED <<disk, sequence, aux>>

----------------------------------------------------------------------------
(* FileRevisionStateStore::save, called by stage_inner (phase "stage") and  *)
(* by activate_revision_inner (phase "activate").                           *)

KnownReferences(st) == References(st) \subseteq DOMAIN revisions

\* What the caller does with an error: staging reports it, activation first
\* puts the previous active configuration back.
\*
\* Mutant: activation reports the error and restores nothing.
StateSaveErrorUnrestored(t) == Return(t, "state")

StateSaveError(t) ==
    IF task[t].phase = "stage"
    THEN Return(t, "state")
    ELSE /\ Become(t, [task[t] EXCEPT !.pc = "openActive", !.phase = "restore", !.temp = None])
         /\ UNCHANGED lifecycleLock

OpenState(t) ==
    /\ At(t, "openState")
    /\ KnownReferences(task[t].st)
    /\ TakeSequence("state")
    /\ LET name == TempName("state", None) IN
       IF name \in temps
       THEN /\ StateSaveError(t)
            /\ Refused
            /\ UNCHANGED temps
       ELSE /\ temps' = temps \cup {name}
            /\ Become(t, [task[t] EXCEPT !.pc = "renameState", !.temp = name])
            /\ UNCHANGED <<lifecycleLock, refused>>
    /\ UNCHANGED <<disk, revisionLock, bounds, drift>>

\* The root or the temporary file cannot be created, or the file is created
\* but cannot be written: then it stays on disk. An unknown reference is an
\* error too, and costs no fault.
OpenStateFails(t) ==
    /\ At(t, "openState")
    /\ IF KnownReferences(task[t].st) THEN Fault ELSE UNCHANGED bounds
    /\ \/ UNCHANGED <<temps, sequence>>
       \/ /\ TakeSequence("state")
          /\ temps' \in {temps, temps \cup {TempName("state", None)}}
    /\ StateSaveError(t)
    /\ UNCHANGED <<disk, revisionLock, aux>>

RenameState(t) ==
    /\ At(t, "renameState")
    /\ stateFile' = task[t].st
    /\ temps' = temps \ {task[t].temp}
    /\ IF task[t].op = "rollback" /\ task[t].phase = "stage"
       THEN /\ Become(t, [task[t] EXCEPT !.pc = "readRevision", !.phase = "activate",
                                         !.temp = None])
            /\ UNCHANGED lifecycleLock
       ELSE Return(t, "ok")
    /\ drift' = (drift /\ task[t].phase = "stage")
    /\ UNCHANGED <<activeFile, revisions, sequence, revisionLock, bounds, refused>>

RenameStateFails(t) ==
    /\ At(t, "renameState")
    /\ Fault
    /\ temps' \in {temps, temps \ {task[t].temp}}
    /\ StateSaveError(t)
    /\ UNCHANGED <<disk, sequence, revisionLock, aux>>

----------------------------------------------------------------------------
(* FileConfigStore::save: activation saves the candidate, and puts the      *)
(* previous configuration back when the state file could not be written.    *)

\* Mutant: what is put back is the configuration the gateway was deployed with.
TargetInitial(t) == IF task[t].phase = "restore" THEN InitialConfig ELSE task[t].cand

Target(t) == IF task[t].phase = "restore" THEN task[t].prev ELSE task[t].cand

ActiveSaveError(t) == Return(t, IF task[t].phase = "restore" THEN "recovery" ELSE "config")

\* atomic_replace removes the temporary name on every error, also the one
\* that create_new found on disk.
OpenActive(t) ==
    /\ At(t, "openActive")
    /\ TakeSequence("active")
    /\ LET name == TempName("active", None) IN
       IF name \in temps
       THEN /\ ActiveSaveError(t)
            /\ Refused
            /\ temps' = temps \ {name}
            /\ drift' = (drift \/ InWindow(task[t]))
       ELSE /\ temps' = temps \cup {name}
            /\ Become(t, [task[t] EXCEPT !.pc = "renameActive", !.temp = name])
            /\ UNCHANGED <<lifecycleLock, refused, drift>>
    /\ UNCHANGED <<disk, revisionLock, bounds>>

OpenActiveFails(t) ==
    /\ At(t, "openActive")
    /\ Fault
    /\ TakeSequence("active")
    /\ LET name == TempName("active", None) IN
       temps' \in {temps \ {name}, temps \cup {name}}
    /\ ActiveSaveError(t)
    /\ drift' = (drift \/ InWindow(task[t]))
    /\ UNCHANGED <<disk, revisionLock, refused>>

RenameActive(t) ==
    /\ At(t, "renameActive")
    /\ activeFile' = Target(t)
    /\ temps' = temps \ {task[t].temp}
    /\ Become(t, [task[t] EXCEPT !.pc = "syncActive", !.temp = None])
    /\ UNCHANGED <<revisions, stateFile, sequence, locks, bounds, aux>>

RenameActiveFails(t) ==
    /\ At(t, "renameActive")
    /\ Fault
    /\ temps' \in {temps, temps \ {task[t].temp}}
    /\ ActiveSaveError(t)
    /\ drift' = (drift \/ InWindow(task[t]))
    /\ UNCHANGED <<disk, sequence, revisionLock, refused>>

\* Mutant: activation does not clear the pending reference.
PendingKept(t) == [active |-> task[t].rev, pending |-> stateFile.pending]

ActivatedState(t) == [active |-> task[t].rev, pending |-> None]

\* The parent directory is synced after the rename.
SyncActive(t) ==
    /\ At(t, "syncActive")
    /\ IF task[t].phase = "restore"
       THEN Return(t, "state")
       ELSE /\ Become(t, [task[t] EXCEPT
                            !.pc = "openState",
                            !.st = ActivatedState(t)])
            /\ UNCHANGED lifecycleLock
    /\ UNCHANGED <<disk, temps, sequence, revisionLock, bounds, aux>>

\* The error comes too late: the file has been replaced already.
SyncActiveFails(t) ==
    /\ At(t, "syncActive")
    /\ Fault
    /\ ActiveSaveError(t)
    /\ drift' = (drift \/ InWindow(task[t]))
    /\ UNCHANGED <<disk, temps, sequence, revisionLock, refused>>

----------------------------------------------------------------------------
(* The process dies and is started again: locks, calls and counters start   *)
(* afresh, files stay. With another process id the names left on disk can   *)
(* never be met again and are forgotten.                                    *)
Crash ==
    /\ crashes < MaxCrashes
    /\ crashes' = crashes + 1
    /\ temps' \in {temps, {}}
    /\ sequence' = [s \in Stores |-> 1]
    /\ lifecycleLock' = None
    /\ revisionLock' = None
    /\ task' = [t \in Threads |-> Idle("none")]
    /\ refused' = 0
    /\ drift' = (drift \/ \E t \in Threads : InWindow(task[t]))
    /\ UNCHANGED <<disk, faults>>

----------------------------------------------------------------------------
Calls(t) ==
    \/ \E c \in Configs : Stage(t, c)
    \/ ActivatePending(t)
    \/ \E r \in Revisions : RollbackTo(t, r)

Reads(t) ==
    \/ ReadPending(t) \/ ReadHistorical(t) \/ ReadRevision(t) \/ ReadState(t)
    \/ ReadFails(t)

Creates(t) ==
    \/ RejectCandidate(t) \/ RevisionsExhausted(t)
    \/ CreateRevision(t) \/ CreateRevisionFails(t)
    \/ PublishRevision(t) \/ PublishRevisionFails(t)

SavesState(t) ==
    \/ OpenState(t) \/ OpenStateFails(t)
    \/ RenameState(t) \/ RenameStateFails(t)

SavesActive(t) ==
    \/ OpenActive(t) \/ OpenActiveFails(t)
    \/ RenameActive(t) \/ RenameActiveFails(t)
    \/ SyncActive(t) \/ SyncActiveFails(t)

\* A step of a call that is under way.
Proceed(t) ==
    AcquireLifecycle(t) \/ Reads(t) \/ Creates(t) \/ SavesState(t) \/ SavesActive(t)

Next == Crash \/ \E t \in Threads : Calls(t) \/ Proceed(t)

Spec == Init /\ [][Next]_vars

\* A call that holds the lifecycle lock takes its next step: no step waits for
\* input, and the operating system runs every thread.
Fairness == \A t \in Threads : WF_vars(Proceed(t))

FairSpec == Spec /\ Fairness

----------------------------------------------------------------------------
(* Properties. *)

\* Every variable keeps its type.
TypeOK ==
    /\ activeFile \in Configs
    /\ DOMAIN revisions \subseteq Revisions
    /\ revisions \in [DOMAIN revisions -> Configs]
    /\ stateFile \in RevisionState
    /\ temps \subseteq TempNames
    /\ sequence \in [Stores -> Nat]
    /\ lifecycleLock \in Threads \cup {None}
    /\ revisionLock \in Threads \cup {None}
    /\ task \in [Threads -> Task]
    /\ crashes \in Nat
    /\ faults \in Nat
    /\ refused \in Nat
    /\ drift \in BOOLEAN

\* state.yaml never names a revision that is not on disk, whatever the crash
\* or error (validate_reference, revision_state.rs:53), and a pending revision
\* is always newer than the active one: activation clears what it activates
\* (lifecycle.rs:130) and a staged revision has a number never used before.
StateFileWellFormed ==
    /\ References(stateFile) \subseteq DOMAIN revisions
    /\ stateFile.active # None /\ stateFile.pending # None
          => stateFile.active < stateFile.pending

\* The number create has picked is above every number in use, so the rename
\* that publishes it never meets an existing directory and revisions left
\* unreferenced by a failed call never block the next one (revision.rs:166).
FreshNumber ==
    \A t \in Threads : At(t, "publish") =>
        \A r \in DOMAIN revisions : r < task[t].rev

\* The configuration the state file says is active.
RecordedConfig ==
    IF stateFile.active = None THEN InitialConfig ELSE revisions[stateFile.active]

\* While no call is under way the active file holds what the state file says,
\* unless a crash, an error after the replacement or a failed restoration
\* came between the two writes (lifecycle.rs:129-142).
FilesAgreeAtRest ==
    lifecycleLock = None /\ ~drift => activeFile = RecordedConfig

\* A process meets a leftover temporary name at most once per crash or error
\* that left one: sequence numbers are never taken twice, so a crash cannot
\* make the same operation fail for ever (store.rs:69, revision.rs:133,
\* revision_state.rs:77).
BoundedRefusals == refused <= crashes + faults

\* Thread t's call returns in this step.
Returns(t) == lifecycleLock = t /\ ~At(t, "idle") /\ task'[t].pc = "idle" /\ ~crashes' > crashes

\* What a call that returns Ok has achieved, as its tests check it: stage
\* recorded the candidate as the pending revision and left the active file and
\* reference alone; activation made the active file and the active reference
\* those of the pending revision; rollback installed a new copy of the wanted
\* revision (config_lifecycle.rs:42-88).
Achieved(t) ==
    LET k == task[t] IN
    CASE k.op = "stage" ->
           /\ stateFile' = [k.before.state EXCEPT !.pending = k.rev]
           /\ revisions'[k.rev] = k.wanted
           /\ activeFile' = k.before.file
      [] k.op = "activate" ->
           /\ stateFile' = [active |-> k.before.state.pending, pending |-> None]
           /\ activeFile' = revisions'[k.before.state.pending]
      [] k.op = "rollback" ->
           /\ stateFile' = [active |-> k.rev, pending |-> None]
           /\ activeFile' = revisions'[k.rev]
           /\ revisions'[k.rev] = revisions'[k.wanted]
           /\ \A r \in References(k.before.state) : r < k.rev

OkMeansDone ==
    [][\A t \in Threads : Returns(t) /\ task'[t].result = "ok" => Achieved(t)]_vars

\* A call that returns an error has not changed the active configuration,
\* neither the file nor the reference, and one that did not stage anything
\* has not changed the pending reference either. Two errors are exceptions:
\* Recovery, and a directory sync that fails once the file is replaced.
ErrorChangesNothing ==
    [][\A t \in Threads :
         Returns(t) /\ task'[t].result \notin {"ok", "recovery"}
                    /\ ~(At(t, "syncActive") /\ task[t].phase = "activate")
            => LET before == task[t].before IN
               /\ activeFile' = before.file
               /\ stateFile'.active = before.state.active
               /\ task[t].op # "rollback" => stateFile' = before.state]_vars

\* A thread that has the lifecycle lock gives it back: the nested revision
\* lock and the error paths leave no call stuck.
LockReleased ==
    \A t \in Threads : lifecycleLock = t ~> lifecycleLock # t

----------------------------------------------------------------------------
(* The registry the lifecycle implements. Between the two writes of an      *)
(* activation the active file is ahead; the registry still shows what was   *)
(* there before, until the state file follows or the process dies.          *)

Current ==
    IF \E t \in Threads : InWindow(task[t])
    THEN task[CHOOSE t \in Threads : InWindow(task[t])].prev
    ELSE activeFile

Registry == INSTANCE ConfigRegistry WITH
    current <- Current,
    history <- revisions,
    active <- stateFile.active,
    pending <- stateFile.pending

\* Every step of the lifecycle is a step of the registry or none.
ImplementsRegistry == Registry!Spec
=============================================================================
