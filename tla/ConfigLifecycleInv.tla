-------------------------- MODULE ConfigLifecycleInv --------------------------
(***************************************************************************)
(* The inductive invariant behind the safety properties of ConfigLifecycle,*)
(* in layers: each one is proved with the help of those before it.         *)
(***************************************************************************)
EXTENDS ConfigLifecycle

\* Layer 1, who is inside: exactly the thread that holds the lifecycle lock is
\* past its acquisition, and exactly the one that holds the revision lock has
\* a revision half written.
Holding(t) == task[t].pc \notin {"idle", "acquire"}

LockInv ==
    /\ \A t \in Threads : Holding(t) <=> lifecycleLock = t
    /\ \A t \in Threads : At(t, "publish") <=> revisionLock = t

\* Layer 2, which steps belong to which phase and operation.
StepsOf(phase) ==
    CASE phase = "stage" -> {"acquire", "readHistorical", "create", "publish",
                             "readState", "openState", "renameState"}
      [] phase = "activate" -> {"acquire", "readPending", "readRevision",
                                "openActive", "renameActive", "syncActive",
                                "openState", "renameState"}
      [] phase = "restore" -> {"openActive", "renameActive", "syncActive"}

Phased(k) ==
    k.pc # "idle" =>
        /\ k.pc \in StepsOf(k.phase)
        /\ k.op = "stage" => k.phase = "stage"
        /\ k.op = "activate" => k.phase # "stage"
        /\ k.pc = "readHistorical" => k.op = "rollback"
        /\ k.pc = "readPending" => k.op = "activate"
        /\ k.op = "rollback" /\ k.pc = "acquire" => k.phase = "stage"

PhaseInv == \A t \in Threads : Phased(task[t])

\* Layer 3, numbers: what is known of the revision a call works on.
Publishing(k) == k.pc = "publish"

Recording(k) ==
    \/ k.pc = "readState"
    \/ k.phase = "stage" /\ k.pc \in {"openState", "renameState"}

Activating(k) ==
    \/ k.pc \in {"readRevision", "openActive", "renameActive", "syncActive"}
    \/ k.phase = "activate" /\ k.pc \in {"openState", "renameState"}

Numbers(k) ==
    /\ (k.pc = "create" \/ (k.pc = "acquire" /\ k.op = "stage")) => k.cand \in Configs
    /\ Publishing(k) =>
          /\ k.cand \in ValidConfigs
          /\ k.rev \in Revisions
          /\ \A r \in DOMAIN revisions : r < k.rev
    /\ Recording(k) =>
          /\ k.rev \in DOMAIN revisions
          /\ \A r \in References(stateFile) : r < k.rev
          /\ k.pc # "readState" => k.st = [stateFile EXCEPT !.pending = k.rev]
    /\ Activating(k) =>
          /\ k.rev \in DOMAIN revisions
          /\ stateFile.pending = k.rev
          /\ k.pc # "readRevision" => k.cand \in Configs /\ k.prev \in Configs
          /\ k.pc \in {"openState", "renameState"} =>
                k.st = [active |-> k.rev, pending |-> None]

NumberInv == \A t \in Threads : Numbers(task[t])

\* Layer 4, contents: what the active file holds while a call is under way,
\* and what it held when the call took the lock.
Staging(k) == k.phase = "stage" \/ k.pc \in {"readPending", "readRevision"}

Files(k) ==
    /\ stateFile.active = k.before.state.active
    /\ k.op # "rollback" => stateFile = k.before.state
    /\ Staging(k) => activeFile = k.before.file
    /\ ~Staging(k) =>
          /\ k.prev = k.before.file
          /\ k.cand = revisions[k.rev]
          /\ activeFile = IF InWindow(k) THEN k.cand ELSE k.prev
    /\ ~drift => k.before.file = RecordedConfig

FileInv ==
    /\ \A t \in Threads : Holding(t) => Files(task[t])
    /\ lifecycleLock = None /\ ~drift => activeFile = RecordedConfig

\* Layer 5, origins: the revision a call works on is the newest until it is recorded,
\* and a copy of what the call was given.
Origin(k) ==
    /\ k.op = "stage" /\ k.pc \in {"acquire", "create", "publish"} => k.cand = k.wanted
    /\ k.op = "rollback" /\ k.pc \in {"create", "publish"} =>
          k.wanted \in DOMAIN revisions /\ k.cand = revisions[k.wanted]
    /\ k.op = "rollback" /\ k.phase = "stage" /\ k.pc \notin {"idle", "acquire"} =>
          stateFile = k.before.state
    /\ Recording(k) => \A r \in DOMAIN revisions : r <= k.rev
    /\ Recording(k) /\ k.op = "stage" => revisions[k.rev] = k.wanted
    /\ (Recording(k) \/ Activating(k)) /\ k.op = "rollback" =>
          /\ k.wanted \in DOMAIN revisions
          /\ revisions[k.rev] = revisions[k.wanted]
          /\ \A r \in References(k.before.state) : r < k.rev

OriginInv == \A t \in Threads : Origin(task[t])

\* Layer 6, names: each temporary name on disk that no call is using was left by a
\* crash or an error, and so was each that the counters have yet to come to.
Using(k) == k.pc \in {"publish", "renameState", "renameActive"}

InUse == IF \E t \in Threads : Using(task[t]) THEN 1 ELSE 0

ToMeet == {name \in temps : name.seq >= sequence[name.store]}

NameInv ==
    /\ IsFiniteSet(temps)
    /\ \A t \in Threads : Using(task[t]) => task[t].temp \in temps
    /\ Cardinality(temps) <= crashes + faults + InUse
    /\ refused + Cardinality(ToMeet) <= crashes + faults

IInv ==
    /\ TypeOK /\ LockInv /\ PhaseInv /\ NumberInv /\ StateFileWellFormed /\ FileInv
    /\ OriginInv /\ NameInv
=============================================================================
