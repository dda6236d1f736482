------------------------ MODULE ConfigLifecycleProofs ------------------------
(***************************************************************************)
(* Theorems about ConfigLifecycle, for every set of threads and            *)
(* configurations and for every bound: first types, locks and temporary    *)
(* names; then what the files hold. The active file and the state file     *)
(* agree at rest (FileInv), an error leaves them as they were, Ok means    *)
(* that what was asked for is done (OriginInv), every step is one of       *)
(* ConfigRegistry or changes nothing it sees, and a leftover temporary     *)
(* name is met at most once (NameInv).                                     *)
(***************************************************************************)
EXTENDS ConfigLifecycleInv, WellFoundedInduction, FiniteSetTheorems, TLAPS

----------------------------------------------------------------------------
(* The revision number create picks. *)

\* A nonempty set of numbers up to N has a largest element: the smallest
\* distance to N belongs to it.
LEMMA MaximumExists ==
    ASSUME NEW N \in Nat, NEW S \in SUBSET (1..N), S # {}
    PROVE  \E m \in S : \A x \in S : m >= x
<1> DEFINE D == {d \in Nat : \E x \in S : d = N - x}
<1>1. D # {} /\ D \subseteq Nat
  <2>1. PICK x \in S : TRUE
    OBVIOUS
  <2>2. N - x \in D
    BY <2>1
  <2> QED
    BY <2>2
<1>2. PICK d \in D : \A e \in D : ~(<<e, d>> \in OpToRel(<, Nat))
  <2> HIDE DEF D
  <2> QED
    BY <1>1, WFMin, NatLessThanWellFounded, Zenon
<1>3. PICK m \in S : d = N - m
  OBVIOUS
<1>4. ASSUME NEW x \in S PROVE m >= x
  <2>1. N - x \in D
    OBVIOUS
  <2>2. ~(N - x < d)
    <3> HIDE DEF D
    <3> QED
      BY <1>2, <2>1, <1>1 DEF OpToRel
  <2> QED
    BY <1>3, <2>2
<1> QED
  BY <1>4

LEMMA HighestIsHighest ==
    ASSUME DOMAIN revisions \subseteq Revisions
    PROVE  /\ HighestRevision \in 0..MaxRevision
           /\ \A r \in DOMAIN revisions : r <= HighestRevision
<1>1. CASE DOMAIN revisions = {}
  BY <1>1, BoundAssumption DEF HighestRevision
<1>2. CASE DOMAIN revisions # {}
  <2>1. \E m \in DOMAIN revisions : \A x \in DOMAIN revisions : m >= x
    BY <1>2, MaximumExists, BoundAssumption DEF Revisions
  <2>2. /\ Max(DOMAIN revisions) \in DOMAIN revisions
        /\ \A x \in DOMAIN revisions : Max(DOMAIN revisions) >= x
    BY <2>1, Zenon DEF Max
  <2> QED
    BY <1>2, <2>2, BoundAssumption DEF HighestRevision, Revisions
<1> QED
  BY <1>1, <1>2

----------------------------------------------------------------------------
(* Types. *)

LEMMA IdleType ==
    ASSUME NEW result \in Results
    PROVE  Idle(result) \in Task
BY ConfigAssumption DEF Idle, Task, PCs, Phases, NoReferences, RevisionState, Reference

LEMMA NameType ==
    ASSUME TypeOK, NEW store \in Stores, NEW rev \in Reference
    PROVE  TempName(store, rev) \in TempNames
BY DEF TypeOK, TempName, TempNames

LEMMA BecomeType ==
    ASSUME TypeOK, NEW t \in Threads, NEW k \in Task, Become(t, k)
    PROVE  task' \in [Threads -> Task]
BY DEF TypeOK, Become

LEMMA ReturnType ==
    ASSUME TypeOK, NEW t \in Threads, NEW result \in Results, Return(t, result)
    PROVE  /\ task' \in [Threads -> Task]
           /\ lifecycleLock' \in Threads \cup {None}
BY IdleType, BecomeType DEF Return

LEMMA SequenceType ==
    ASSUME TypeOK, NEW store \in Stores, TakeSequence(store)
    PROVE  sequence' \in [Stores -> Nat]
BY DEF TypeOK, TakeSequence

THEOREM InitType == Init => TypeOK
<1> SUFFICES ASSUME Init PROVE TypeOK
  OBVIOUS
<1>1. task \in [Threads -> Task]
  BY IdleType DEF Init, Results
<1>2. stateFile \in RevisionState
  BY DEF Init, NoReferences, RevisionState, Reference
<1> QED
  BY <1>1, <1>2, ConfigAssumption DEF Init, TypeOK

LEMMA CallType ==
    ASSUME TypeOK, NEW t \in Threads, Calls(t)
    PROVE  TypeOK'
<1>1. ASSUME NEW op \in {"stage", "activate", "rollback"},
             NEW phase \in Phases,
             NEW wanted \in Configs \cup Revisions \cup {None},
             NEW cand \in Configs \cup {None},
             Call(t, op, phase, wanted, cand)
      PROVE  TypeOK'
  <2> DEFINE k == [Idle("none") EXCEPT
                    !.pc = "acquire", !.op = op, !.phase = phase,
                    !.wanted = wanted, !.cand = cand]
  <2>1. k \in Task
    <3>1. Idle("none") \in Task /\ "acquire" \in PCs
      BY IdleType DEF PCs, Results
    <3> QED
      BY <3>1 DEF Task
  <2>2. task' \in [Threads -> Task]
    BY <1>1, <2>1, BecomeType DEF Call
  <2> QED
    BY <1>1, <2>2 DEF TypeOK, Call, disk, locks, bounds, aux
<1> QED
  BY <1>1 DEF Calls, Stage, ActivatePending, RollbackTo, Phases

LEMMA AcquireType ==
    ASSUME TypeOK, NEW t \in Threads, AcquireLifecycle(t)
    PROVE  TypeOK'
<1> DEFINE k == [task[t] EXCEPT
                    !.pc = FirstStep(task[t].op),
                    !.before = [file |-> activeFile, state |-> stateFile]]
<1>1. k \in Task
  <2>1. task[t] \in Task /\ activeFile \in Configs /\ stateFile \in RevisionState
    BY DEF TypeOK
  <2>2. FirstStep(task[t].op) \in PCs
    BY <2>1 DEF FirstStep, Task, PCs
  <2> QED
    BY <2>1, <2>2 DEF Task
<1>2. task' \in [Threads -> Task]
  BY <1>1, BecomeType DEF AcquireLifecycle
<1> QED
  BY <1>2 DEF TypeOK, AcquireLifecycle, disk, bounds, aux

\* One field of a task changes, or a few: the result is a task again.
LEMMA TaskFields ==
    ASSUME NEW k \in Task
    PROVE  /\ \A pc \in PCs : [k EXCEPT !.pc = pc] \in Task
           /\ \A phase \in Phases : [k EXCEPT !.phase = phase] \in Task
           /\ \A rev \in Reference : [k EXCEPT !.rev = rev] \in Task
           /\ \A cand \in Configs \cup {None} : [k EXCEPT !.cand = cand] \in Task
           /\ \A prev \in Configs \cup {None} : [k EXCEPT !.prev = prev] \in Task
           /\ \A st \in RevisionState : [k EXCEPT !.st = st] \in Task
           /\ \A temp \in TempNames \cup {None} : [k EXCEPT !.temp = temp] \in Task
BY DEF Task

LEMMA ReadType ==
    ASSUME TypeOK, NEW t \in Threads, Reads(t)
    PROVE  TypeOK'
<1> DEFINE k == task[t]
<1>0. k \in Task /\ k.rev \in Reference
  BY DEF TypeOK, Task
<1>1. CASE ReadPending(t)
  <2>1. CASE stateFile.pending = None
    <3>1. Return(t, "noPending")
      BY <1>1, <2>1 DEF ReadPending
    <3> QED
      BY <3>1, <1>1, ReturnType DEF ReadPending, TypeOK, Results, disk, bounds, aux
  <2>2. CASE stateFile.pending # None
    <3>1. stateFile.pending \in Reference
      BY DEF TypeOK, RevisionState
    <3>2. [k EXCEPT !.pc = "readRevision", !.rev = stateFile.pending] \in Task
      BY <1>0, <3>1, TaskFields DEF PCs
    <3>3. task' \in [Threads -> Task]
      BY <1>1, <2>2, <3>2, BecomeType DEF ReadPending
    <3> QED
      BY <3>3, <1>1, <2>2 DEF ReadPending, TypeOK, disk, bounds, aux
  <2> QED
    BY <2>1, <2>2
<1>2. CASE ReadHistorical(t)
  <2>1. CASE k.wanted \in DOMAIN revisions
    <3>1. revisions[k.wanted] \in Configs \cup {None}
      BY <2>1 DEF TypeOK
    <3>2. [k EXCEPT !.pc = "create", !.cand = revisions[k.wanted]] \in Task
      BY <1>0, <3>1, TaskFields DEF PCs
    <3>3. task' \in [Threads -> Task]
      BY <1>2, <2>1, <3>2, BecomeType DEF ReadHistorical
    <3> QED
      BY <3>3, <1>2, <2>1 DEF ReadHistorical, TypeOK, disk, bounds, aux
  <2>2. CASE k.wanted \notin DOMAIN revisions
    <3>1. Return(t, "revision")
      BY <1>2, <2>2 DEF ReadHistorical
    <3> QED
      BY <3>1, <1>2, ReturnType DEF ReadHistorical, TypeOK, Results, disk, bounds, aux
  <2> QED
    BY <2>1, <2>2
<1>3. CASE ReadRevision(t)
  <2>1. revisions[k.rev] \in Configs \cup {None} /\ activeFile \in Configs \cup {None}
    BY <1>3 DEF TypeOK, ReadRevision
  <2>2. [k EXCEPT !.pc = "openActive", !.cand = revisions[k.rev], !.prev = activeFile] \in Task
    BY <1>0, <2>1, TaskFields DEF PCs
  <2>3. task' \in [Threads -> Task]
    BY <1>3, <2>2, BecomeType DEF ReadRevision
  <2> QED
    BY <2>3, <1>3 DEF ReadRevision, TypeOK, disk, locks, bounds, aux
<1>4. CASE ReadState(t)
  <2>1. [stateFile EXCEPT !.pending = k.rev] \in RevisionState
    BY <1>0 DEF TypeOK, RevisionState
  <2>2. [k EXCEPT !.pc = "openState", !.st = [stateFile EXCEPT !.pending = k.rev]] \in Task
    BY <1>0, <2>1, TaskFields DEF PCs
  <2>3. task' \in [Threads -> Task]
    BY <1>4, <2>2, BecomeType DEF ReadState
  <2> QED
    BY <2>3, <1>4 DEF ReadState, TypeOK, disk, locks, bounds, aux
<1>5. CASE ReadFails(t)
  <2>1. PICK e \in ReadError(k.pc) : Return(t, e)
    BY <1>5 DEF ReadFails
  <2>2. e \in Results
    BY <2>1 DEF ReadError, Results
  <2>3. faults' \in Nat /\ crashes' \in Nat
    BY <1>5 DEF ReadFails, Fault, TypeOK
  <2> QED
    BY <2>1, <2>2, <2>3, <1>5, ReturnType DEF ReadFails, TypeOK, disk, aux
<1> QED
  BY <1>1, <1>2, <1>3, <1>4, <1>5 DEF Reads

LEMMA FaultType ==
    ASSUME TypeOK, Fault
    PROVE  faults' \in Nat /\ crashes' \in Nat
BY DEF TypeOK, Fault

LEMMA NextRevisionType ==
    ASSUME TypeOK, ~Exhausted
    PROVE  NextRevision \in Revisions /\ NextRevision \in Reference
<1>1. HighestRevision \in 0..MaxRevision
  BY HighestIsHighest DEF TypeOK
<1> QED
  BY <1>1, BoundAssumption DEF Exhausted, NextRevision, Revisions, Reference

LEMMA CreateType ==
    ASSUME TypeOK, NumberInv, NEW t \in Threads, Creates(t)
    PROVE  TypeOK'
<1> DEFINE k == task[t]
<1>0. k \in Task
  BY DEF TypeOK
<1>1. CASE RejectCandidate(t)
  <2>1. Return(t, "config")
    BY <1>1 DEF RejectCandidate
  <2> QED
    BY <2>1, <1>1, ReturnType DEF RejectCandidate, TypeOK, Results, disk, bounds, aux
<1>2. CASE RevisionsExhausted(t)
  <2>1. Return(t, "revision")
    BY <1>2 DEF RevisionsExhausted
  <2> QED
    BY <2>1, <1>2, ReturnType DEF RevisionsExhausted, TypeOK, Results, disk, bounds, aux
<1>3. CASE CreateRevision(t)
  <2> DEFINE name == TempName("revision", NextRevision)
  <2>1. sequence' \in [Stores -> Nat]
    BY <1>3, SequenceType DEF CreateRevision, Stores
  <2>2. CASE name \in temps
    <3>1. Return(t, "revision")
      BY <1>3, <2>2 DEF CreateRevision
    <3> QED
      BY <2>1, <3>1, <2>2, <1>3, ReturnType
      DEF CreateRevision, Refused, TypeOK, Results, disk, bounds
  <2>3. CASE name \notin temps
    <3>1. NextRevision \in Reference
      BY <1>3, NextRevisionType DEF CreateRevision
    <3>2. name \in TempNames
      BY <3>1, NameType DEF Stores
    <3>3. [k EXCEPT !.pc = "publish", !.rev = NextRevision, !.temp = name] \in Task
      <4> HIDE DEF name
      <4> QED
        BY <1>0, <3>1, <3>2, TaskFields DEF PCs
    <3>4. task' \in [Threads -> Task]
      BY <1>3, <2>3, <3>3, BecomeType DEF CreateRevision
    <3> QED
      BY <2>1, <3>2, <3>4, <2>3, <1>3 DEF CreateRevision, TypeOK, disk, bounds
  <2> QED
    BY <2>2, <2>3
<1>4. CASE CreateRevisionFails(t)
  <2>1. sequence' \in [Stores -> Nat]
    BY <1>4, SequenceType DEF CreateRevisionFails, Stores, TypeOK
  <2>2. Return(t, "revision") /\ Fault
    BY <1>4 DEF CreateRevisionFails
  <2> QED
    BY <2>1, <2>2, <1>4, ReturnType, FaultType
    DEF CreateRevisionFails, TypeOK, Results, disk, aux
<1>5. CASE PublishRevision(t)
  <2>1. k.rev \in Revisions /\ k.cand \in Configs
    BY <1>5, ConfigAssumption DEF PublishRevision, NumberInv, Numbers, Publishing, At
  <2>2. DOMAIN revisions' \subseteq Revisions /\ revisions' \in [DOMAIN revisions' -> Configs]
    BY <2>1, <1>5 DEF TypeOK, PublishRevision
  <2>3. [k EXCEPT !.pc = "readState", !.temp = None] \in Task
    BY <1>0, TaskFields DEF PCs
  <2>4. task' \in [Threads -> Task]
    BY <1>5, <2>3, BecomeType DEF PublishRevision
  <2> QED
    BY <2>2, <2>4, <1>5 DEF PublishRevision, TypeOK, bounds, aux
<1>6. CASE PublishRevisionFails(t)
  <2>1. faults' \in Nat /\ crashes' \in Nat
    BY <1>6, FaultType DEF PublishRevisionFails, TypeOK, bounds
  <2>2. Return(t, "revision")
    BY <1>6 DEF PublishRevisionFails
  <2> QED
    BY <2>1, <2>2, <1>6, ReturnType DEF PublishRevisionFails, TypeOK, Results, disk, aux
<1> QED
  BY <1>1, <1>2, <1>3, <1>4, <1>5, <1>6 DEF Creates

LEMMA StateErrorType ==
    ASSUME TypeOK, NEW t \in Threads, StateSaveError(t)
    PROVE  /\ task' \in [Threads -> Task]
           /\ lifecycleLock' \in Threads \cup {None}
<1> DEFINE k == task[t]
<1>1. CASE k.phase = "stage"
  BY <1>1, ReturnType DEF StateSaveError, Results
<1>2. CASE k.phase # "stage"
  <2>1. [k EXCEPT !.pc = "openActive", !.phase = "restore", !.temp = None] \in Task
    BY TaskFields DEF TypeOK, PCs, Phases
  <2> QED
    BY <1>2, <2>1, BecomeType DEF StateSaveError, TypeOK
<1> QED
  BY <1>1, <1>2

LEMMA SaveStateType ==
    ASSUME TypeOK, NEW t \in Threads, SavesState(t)
    PROVE  TypeOK'
<1> DEFINE k == task[t]
           name == TempName("state", None)
<1>0. k \in Task /\ k.st \in RevisionState /\ name \in TempNames
  BY NameType DEF TypeOK, Task, Stores, Reference
<1>1. CASE OpenState(t)
  <2>1. sequence' \in [Stores -> Nat]
    BY <1>1, SequenceType DEF OpenState, Stores
  <2>2. CASE name \in temps
    <3>1. StateSaveError(t)
      BY <1>1, <2>2 DEF OpenState
    <3> QED
      BY <2>1, <2>2, <3>1, <1>1, StateErrorType DEF OpenState, Refused, TypeOK, disk, bounds
  <2>3. CASE name \notin temps
    <3>1. [k EXCEPT !.pc = "renameState", !.temp = name] \in Task
      <4> HIDE DEF name
      <4> QED
        BY <1>0, TaskFields DEF PCs
    <3>2. task' \in [Threads -> Task]
      BY <1>1, <2>3, <3>1, BecomeType DEF OpenState
    <3> QED
      BY <2>1, <2>3, <3>2, <1>0, <1>1 DEF OpenState, TypeOK, disk, bounds
  <2> QED
    BY <2>2, <2>3
<1>2. CASE OpenStateFails(t)
  <2>1. faults' \in Nat /\ crashes' \in Nat
    BY <1>2, FaultType DEF OpenStateFails, TypeOK, bounds
  <2>2. temps' \subseteq TempNames /\ sequence' \in [Stores -> Nat]
    BY <1>0, <1>2, SequenceType DEF OpenStateFails, TypeOK, Stores
  <2> QED
    BY <2>1, <2>2, <1>2, StateErrorType DEF OpenStateFails, TypeOK, disk, aux
<1>3. CASE RenameState(t)
  <2>1. task' \in [Threads -> Task] /\ lifecycleLock' \in Threads \cup {None}
    <3>1. CASE k.op = "rollback" /\ k.phase = "stage"
      <4>1. [k EXCEPT !.pc = "readRevision", !.phase = "activate", !.temp = None] \in Task
        BY <1>0, TaskFields DEF PCs, Phases
      <4> QED
        BY <3>1, <4>1, <1>3, BecomeType DEF RenameState, TypeOK
    <3>2. CASE ~(k.op = "rollback" /\ k.phase = "stage")
      BY <3>2, <1>3, ReturnType DEF RenameState, Results
    <3> QED
      BY <3>1, <3>2
  <2> QED
    BY <2>1, <1>0, <1>3 DEF RenameState, TypeOK, bounds
<1>4. CASE RenameStateFails(t)
  <2>1. faults' \in Nat /\ crashes' \in Nat
    BY <1>4, FaultType DEF RenameStateFails
  <2> QED
    BY <2>1, <1>4, StateErrorType DEF RenameStateFails, TypeOK, disk, aux
<1> QED
  BY <1>1, <1>2, <1>3, <1>4 DEF SavesState

LEMMA ActiveErrorType ==
    ASSUME TypeOK, NEW t \in Threads, ActiveSaveError(t)
    PROVE  /\ task' \in [Threads -> Task]
           /\ lifecycleLock' \in Threads \cup {None}
BY ReturnType DEF ActiveSaveError, Results

LEMMA SaveActiveType ==
    ASSUME TypeOK, NumberInv, NEW t \in Threads, SavesActive(t)
    PROVE  TypeOK'
<1> DEFINE k == task[t]
           name == TempName("active", None)
<1>0. /\ k \in Task /\ name \in TempNames
      /\ InWindow(k) \in BOOLEAN
      /\ k.cand \in Configs \cup {None} /\ k.prev \in Configs \cup {None}
  BY NameType DEF TypeOK, Task, Stores, Reference, InWindow
<1>1. CASE OpenActive(t)
  <2>1. sequence' \in [Stores -> Nat]
    BY <1>1, SequenceType DEF OpenActive, Stores
  <2>2. CASE name \in temps
    <3>1. ActiveSaveError(t)
      BY <1>1, <2>2 DEF OpenActive
    <3> QED
      BY <2>1, <2>2, <3>1, <1>0, <1>1, ActiveErrorType
      DEF OpenActive, Refused, TypeOK, disk, bounds
  <2>3. CASE name \notin temps
    <3>1. [k EXCEPT !.pc = "renameActive", !.temp = name] \in Task
      <4> HIDE DEF name
      <4> QED
        BY <1>0, TaskFields DEF PCs
    <3>2. task' \in [Threads -> Task]
      BY <1>1, <2>3, <3>1, BecomeType DEF OpenActive
    <3> QED
      BY <2>1, <2>3, <3>2, <1>0, <1>1 DEF OpenActive, TypeOK, disk, bounds
  <2> QED
    BY <2>2, <2>3
<1>2. CASE OpenActiveFails(t)
  <2>1. faults' \in Nat /\ crashes' \in Nat
    BY <1>2, FaultType DEF OpenActiveFails
  <2>2. sequence' \in [Stores -> Nat]
    BY <1>2, SequenceType DEF OpenActiveFails, Stores
  <2> QED
    BY <2>1, <2>2, <1>0, <1>2, ActiveErrorType DEF OpenActiveFails, TypeOK, disk
<1>3. CASE RenameActive(t)
  <2>1. activeFile' \in Configs
    BY <1>3 DEF RenameActive, Target, NumberInv, Numbers, Activating, At
  <2>2. [k EXCEPT !.pc = "syncActive", !.temp = None] \in Task
    BY <1>0, TaskFields DEF PCs
  <2>3. task' \in [Threads -> Task]
    BY <1>3, <2>2, BecomeType DEF RenameActive
  <2> QED
    BY <2>1, <2>3, <1>3 DEF RenameActive, TypeOK, locks, bounds, aux
<1>4. CASE RenameActiveFails(t)
  <2>1. faults' \in Nat /\ crashes' \in Nat
    BY <1>4, FaultType DEF RenameActiveFails
  <2> QED
    BY <2>1, <1>0, <1>4, ActiveErrorType DEF RenameActiveFails, TypeOK, disk
<1>5. CASE SyncActive(t)
  <2>1. task' \in [Threads -> Task] /\ lifecycleLock' \in Threads \cup {None}
    <3>1. CASE k.phase = "restore"
      BY <1>5, <3>1, ReturnType DEF SyncActive, Results
    <3>2. CASE k.phase # "restore"
      <4>1. ActivatedState(t) \in RevisionState
        BY <1>0 DEF ActivatedState, Task, RevisionState, Reference
      <4>2. [k EXCEPT !.pc = "openState", !.st = ActivatedState(t)] \in Task
        BY <1>0, <4>1, TaskFields DEF PCs
      <4> QED
        BY <3>2, <4>2, <1>5, BecomeType DEF SyncActive, TypeOK
    <3> QED
      BY <3>1, <3>2
  <2> QED
    BY <2>1, <1>5 DEF SyncActive, TypeOK, disk, bounds, aux
<1>6. CASE SyncActiveFails(t)
  <2>1. faults' \in Nat /\ crashes' \in Nat
    BY <1>6, FaultType DEF SyncActiveFails
  <2> QED
    BY <2>1, <1>0, <1>6, ActiveErrorType DEF SyncActiveFails, TypeOK, disk
<1> QED
  BY <1>1, <1>2, <1>3, <1>4, <1>5, <1>6 DEF SavesActive

LEMMA CrashType ==
    ASSUME TypeOK, Crash
    PROVE  TypeOK'
<1>1. task' \in [Threads -> Task]
  BY IdleType DEF Crash, Results
<1>2. drift' \in BOOLEAN
  <2>1. (\E t \in Threads : InWindow(task[t])) \in BOOLEAN
    OBVIOUS
  <2> QED
    BY <2>1 DEF TypeOK, Crash
<1> QED
  BY <1>1, <1>2 DEF Crash, TypeOK, disk

LEMMA TypeStep ==
    ASSUME TypeOK, NumberInv, [Next]_vars
    PROVE  TypeOK'
<1>1. CASE Crash
  BY <1>1, CrashType
<1>2. ASSUME NEW t \in Threads, Calls(t) \/ Proceed(t)
      PROVE  TypeOK'
  BY <1>2, CallType, AcquireType, ReadType, CreateType, SaveStateType, SaveActiveType
  DEF Proceed
<1>3. CASE UNCHANGED vars
  BY <1>3 DEF vars, disk, locks, bounds, aux, TypeOK
<1> QED
  BY <1>1, <1>2, <1>3 DEF Next

----------------------------------------------------------------------------
(* Who is inside. *)

LEMMA TaskChange ==
    ASSUME TypeOK, NEW t \in Threads, NEW k, Become(t, k)
    PROVE  /\ task'[t] = k
           /\ \A u \in Threads : u # t => task'[u] = task[u]
BY DEF TypeOK, Become

LEMMA IdleTask ==
    ASSUME NEW result
    PROVE  /\ Idle(result).pc = "idle"
           /\ Idle(result).result = result
BY DEF Idle


\* What a step writes into its thread's task, field by field.
LEMMA CallEffect ==
    ASSUME TypeOK, NEW t \in Threads, Calls(t)
    PROVE  /\ At(t, "idle")
           /\ task'[t].pc = "acquire"
           /\ task'[t].op = "stage" => task'[t].phase = "stage" /\ task'[t].cand \in Configs
                                       /\ task'[t].wanted = task'[t].cand
           /\ task'[t].op = "activate" => task'[t].phase = "activate"
           /\ task'[t].op = "rollback" => task'[t].phase = "stage"
           /\ \A u \in Threads : u # t => task'[u] = task[u]
           /\ UNCHANGED <<disk, temps, sequence, locks, bounds, aux>>
<1>1. ASSUME NEW op, NEW phase, NEW wanted, NEW cand, Call(t, op, phase, wanted, cand)
      PROVE  /\ At(t, "idle")
             /\ task'[t].pc = "acquire" /\ task'[t].op = op /\ task'[t].phase = phase
             /\ task'[t].wanted = wanted /\ task'[t].cand = cand
             /\ \A u \in Threads : u # t => task'[u] = task[u]
             /\ UNCHANGED <<disk, temps, sequence, locks, bounds, aux>>
  <2>1. task'[t] = [Idle("none") EXCEPT !.pc = "acquire", !.op = op, !.phase = phase,
                                        !.wanted = wanted, !.cand = cand]
    BY <1>1, TaskChange DEF Call
  <2>2. /\ task'[t].pc = "acquire" /\ task'[t].op = op /\ task'[t].phase = phase
        /\ task'[t].wanted = wanted /\ task'[t].cand = cand
    BY <2>1 DEF Idle
  <2> QED
    BY <1>1, <2>2, TaskChange DEF Call
<1> QED
  BY <1>1 DEF Calls, Stage, ActivatePending, RollbackTo

LEMMA AcquireEffect ==
    ASSUME TypeOK, NEW t \in Threads, AcquireLifecycle(t)
    PROVE  LET k == task[t]  l == task'[t] IN
           /\ k.pc = "acquire"
           /\ l.pc = FirstStep(k.op)
           /\ l.before = [file |-> activeFile, state |-> stateFile]
           /\ l.op = k.op /\ l.phase = k.phase /\ l.wanted = k.wanted /\ l.cand = k.cand
           /\ l.prev = k.prev /\ l.rev = k.rev /\ l.st = k.st
           /\ \A u \in Threads : u # t => task'[u] = task[u]
<1>1. task[t] \in Task
  BY DEF TypeOK
<1>2. task'[t] = [task[t] EXCEPT !.pc = FirstStep(task[t].op),
                                 !.before = [file |-> activeFile, state |-> stateFile]]
  BY TaskChange DEF AcquireLifecycle
<1> QED
  BY <1>1, <1>2, TaskChange DEF AcquireLifecycle, At, Task

LEMMA ReadPendingEffect ==
    ASSUME TypeOK, NEW t \in Threads, ReadPending(t), stateFile.pending # None
    PROVE  LET k == task[t]  l == task'[t] IN
           /\ k.pc = "readPending"
           /\ l.pc = "readRevision"
           /\ l.rev = stateFile.pending
           /\ l.op = k.op /\ l.phase = k.phase /\ l.wanted = k.wanted /\ l.cand = k.cand /\ l.prev = k.prev
           /\ l.st = k.st /\ l.before = k.before
           /\ \A u \in Threads : u # t => task'[u] = task[u]
<1> DEFINE k == task[t]
<1>1. k \in Task
  BY DEF TypeOK
<1>2. task'[t] = [k EXCEPT !.pc = "readRevision", !.rev = stateFile.pending]
  BY TaskChange DEF ReadPending
<1> QED
  BY <1>1, <1>2, TaskChange DEF ReadPending, At, Task

LEMMA ReadHistoricalEffect ==
    ASSUME TypeOK, NEW t \in Threads, ReadHistorical(t), task[t].wanted \in DOMAIN revisions
    PROVE  LET k == task[t]  l == task'[t] IN
           /\ k.pc = "readHistorical"
           /\ l.pc = "create"
           /\ l.cand = revisions[k.wanted]
           /\ l.op = k.op /\ l.phase = k.phase /\ l.wanted = k.wanted /\ l.prev = k.prev /\ l.rev = k.rev
           /\ l.st = k.st /\ l.before = k.before
           /\ \A u \in Threads : u # t => task'[u] = task[u]
<1> DEFINE k == task[t]
<1>1. k \in Task
  BY DEF TypeOK
<1>2. task'[t] = [k EXCEPT !.pc = "create", !.cand = revisions[k.wanted]]
  BY TaskChange DEF ReadHistorical
<1> QED
  BY <1>1, <1>2, TaskChange DEF ReadHistorical, At, Task

LEMMA ReadRevisionEffect ==
    ASSUME TypeOK, NEW t \in Threads, ReadRevision(t)
    PROVE  LET k == task[t]  l == task'[t] IN
           /\ k.pc = "readRevision"
           /\ l.pc = "openActive"
           /\ l.cand = revisions[k.rev]
           /\ l.prev = activeFile
           /\ l.op = k.op /\ l.phase = k.phase /\ l.wanted = k.wanted /\ l.rev = k.rev /\ l.st = k.st
           /\ l.before = k.before
           /\ \A u \in Threads : u # t => task'[u] = task[u]
<1> DEFINE k == task[t]
<1>1. k \in Task
  BY DEF TypeOK
<1>2. task'[t] = [k EXCEPT !.pc = "openActive", !.cand = revisions[k.rev], !.prev = activeFile]
  BY TaskChange DEF ReadRevision
<1> QED
  BY <1>1, <1>2, TaskChange DEF ReadRevision, At, Task

LEMMA ReadStateEffect ==
    ASSUME TypeOK, NEW t \in Threads, ReadState(t)
    PROVE  LET k == task[t]  l == task'[t] IN
           /\ k.pc = "readState"
           /\ l.pc = "openState"
           /\ l.st = [stateFile EXCEPT !.pending = k.rev]
           /\ l.op = k.op /\ l.phase = k.phase /\ l.wanted = k.wanted /\ l.cand = k.cand /\ l.prev = k.prev
           /\ l.rev = k.rev /\ l.before = k.before
           /\ \A u \in Threads : u # t => task'[u] = task[u]
<1> DEFINE k == task[t]
<1>1. k \in Task
  BY DEF TypeOK
<1>2. task'[t] = [k EXCEPT !.pc = "openState", !.st = [stateFile EXCEPT !.pending = k.rev]]
  BY TaskChange DEF ReadState
<1> QED
  BY <1>1, <1>2, TaskChange DEF ReadState, At, Task

LEMMA CreateEffect ==
    ASSUME TypeOK, NEW t \in Threads, CreateRevision(t), TempName("revision", NextRevision) \notin temps
    PROVE  LET k == task[t]  l == task'[t] IN
           /\ k.pc = "create"
           /\ l.pc = "publish"
           /\ l.rev = NextRevision
           /\ l.op = k.op /\ l.phase = k.phase /\ l.wanted = k.wanted /\ l.cand = k.cand /\ l.prev = k.prev
           /\ l.st = k.st /\ l.before = k.before
           /\ \A u \in Threads : u # t => task'[u] = task[u]
<1> DEFINE k == task[t]
<1>1. k \in Task
  BY DEF TypeOK
<1>2. task'[t] = [k EXCEPT !.pc = "publish", !.rev = NextRevision, !.temp = TempName("revision", NextRevision)]
  BY TaskChange DEF CreateRevision
<1> QED
  BY <1>1, <1>2, TaskChange DEF CreateRevision, At, Task

LEMMA PublishEffect ==
    ASSUME TypeOK, NEW t \in Threads, PublishRevision(t)
    PROVE  LET k == task[t]  l == task'[t] IN
           /\ k.pc = "publish"
           /\ l.pc = "readState"
           /\ l.op = k.op /\ l.phase = k.phase /\ l.wanted = k.wanted /\ l.cand = k.cand /\ l.prev = k.prev
           /\ l.rev = k.rev /\ l.st = k.st /\ l.before = k.before
           /\ \A u \in Threads : u # t => task'[u] = task[u]
<1> DEFINE k == task[t]
<1>1. k \in Task
  BY DEF TypeOK
<1>2. task'[t] = [k EXCEPT !.pc = "readState", !.temp = None]
  BY TaskChange DEF PublishRevision
<1> QED
  BY <1>1, <1>2, TaskChange DEF PublishRevision, At, Task

LEMMA RestoreEffect ==
    ASSUME TypeOK, NEW t \in Threads, StateSaveError(t), task[t].phase # "stage"
    PROVE  LET k == task[t]  l == task'[t] IN
           /\ l.pc = "openActive"
           /\ l.phase = "restore"
           /\ l.op = k.op /\ l.wanted = k.wanted /\ l.cand = k.cand /\ l.prev = k.prev /\ l.rev = k.rev
           /\ l.st = k.st /\ l.before = k.before
           /\ \A u \in Threads : u # t => task'[u] = task[u]
<1> DEFINE k == task[t]
<1>1. k \in Task
  BY DEF TypeOK
<1>2. task'[t] = [k EXCEPT !.pc = "openActive", !.phase = "restore", !.temp = None]
  BY TaskChange DEF StateSaveError
<1> QED
  BY <1>1, <1>2, TaskChange DEF StateSaveError, At, Task

LEMMA OpenStateEffect ==
    ASSUME TypeOK, NEW t \in Threads, OpenState(t), TempName("state", None) \notin temps
    PROVE  LET k == task[t]  l == task'[t] IN
           /\ k.pc = "openState"
           /\ l.pc = "renameState"
           /\ l.op = k.op /\ l.phase = k.phase /\ l.wanted = k.wanted /\ l.cand = k.cand /\ l.prev = k.prev
           /\ l.rev = k.rev /\ l.st = k.st /\ l.before = k.before
           /\ \A u \in Threads : u # t => task'[u] = task[u]
<1> DEFINE k == task[t]
<1>1. k \in Task
  BY DEF TypeOK
<1>2. task'[t] = [k EXCEPT !.pc = "renameState", !.temp = TempName("state", None)]
  BY TaskChange DEF OpenState
<1> QED
  BY <1>1, <1>2, TaskChange DEF OpenState, At, Task

LEMMA RollbackEffect ==
    ASSUME TypeOK, NEW t \in Threads, RenameState(t), task[t].op = "rollback", task[t].phase = "stage"
    PROVE  LET k == task[t]  l == task'[t] IN
           /\ k.pc = "renameState"
           /\ l.pc = "readRevision"
           /\ l.phase = "activate"
           /\ l.op = k.op /\ l.wanted = k.wanted /\ l.cand = k.cand /\ l.prev = k.prev /\ l.rev = k.rev
           /\ l.st = k.st /\ l.before = k.before
           /\ \A u \in Threads : u # t => task'[u] = task[u]
<1> DEFINE k == task[t]
<1>1. k \in Task
  BY DEF TypeOK
<1>2. task'[t] = [k EXCEPT !.pc = "readRevision", !.phase = "activate", !.temp = None]
  BY TaskChange DEF RenameState
<1> QED
  BY <1>1, <1>2, TaskChange DEF RenameState, At, Task

LEMMA OpenActiveEffect ==
    ASSUME TypeOK, NEW t \in Threads, OpenActive(t), TempName("active", None) \notin temps
    PROVE  LET k == task[t]  l == task'[t] IN
           /\ k.pc = "openActive"
           /\ l.pc = "renameActive"
           /\ l.op = k.op /\ l.phase = k.phase /\ l.wanted = k.wanted /\ l.cand = k.cand /\ l.prev = k.prev
           /\ l.rev = k.rev /\ l.st = k.st /\ l.before = k.before
           /\ \A u \in Threads : u # t => task'[u] = task[u]
<1> DEFINE k == task[t]
<1>1. k \in Task
  BY DEF TypeOK
<1>2. task'[t] = [k EXCEPT !.pc = "renameActive", !.temp = TempName("active", None)]
  BY TaskChange DEF OpenActive
<1> QED
  BY <1>1, <1>2, TaskChange DEF OpenActive, At, Task

LEMMA RenameActiveEffect ==
    ASSUME TypeOK, NEW t \in Threads, RenameActive(t)
    PROVE  LET k == task[t]  l == task'[t] IN
           /\ k.pc = "renameActive"
           /\ l.pc = "syncActive"
           /\ l.op = k.op /\ l.phase = k.phase /\ l.wanted = k.wanted /\ l.cand = k.cand /\ l.prev = k.prev
           /\ l.rev = k.rev /\ l.st = k.st /\ l.before = k.before
           /\ \A u \in Threads : u # t => task'[u] = task[u]
<1> DEFINE k == task[t]
<1>1. k \in Task
  BY DEF TypeOK
<1>2. task'[t] = [k EXCEPT !.pc = "syncActive", !.temp = None]
  BY TaskChange DEF RenameActive
<1> QED
  BY <1>1, <1>2, TaskChange DEF RenameActive, At, Task

LEMMA SyncActiveEffect ==
    ASSUME TypeOK, NEW t \in Threads, SyncActive(t), task[t].phase # "restore"
    PROVE  LET k == task[t]  l == task'[t] IN
           /\ k.pc = "syncActive"
           /\ l.pc = "openState"
           /\ l.st = ActivatedState(t)
           /\ l.op = k.op /\ l.phase = k.phase /\ l.wanted = k.wanted /\ l.cand = k.cand /\ l.prev = k.prev
           /\ l.rev = k.rev /\ l.before = k.before
           /\ \A u \in Threads : u # t => task'[u] = task[u]
<1> DEFINE k == task[t]
<1>1. k \in Task
  BY DEF TypeOK
<1>2. task'[t] = [k EXCEPT !.pc = "openState", !.st = ActivatedState(t)]
  BY TaskChange DEF SyncActive
<1> QED
  BY <1>1, <1>2, TaskChange DEF SyncActive, At, Task

LEMMA ReturnEffect ==
    ASSUME TypeOK, NEW t \in Threads, NEW result, Return(t, result)
    PROVE  /\ task'[t].pc = "idle"
           /\ lifecycleLock' = None
           /\ \A u \in Threads : u # t => task'[u] = task[u]
BY TaskChange, IdleTask DEF Return

\* A call goes on inside the lock.
LEMMA LockMove ==
    ASSUME LockInv, NEW t \in Threads, Holding(t),
           task'[t].pc \notin {"idle", "acquire"},
           \A u \in Threads : u # t => task'[u] = task[u],
           UNCHANGED lifecycleLock,
           \/ UNCHANGED revisionLock /\ (task'[t].pc = "publish" <=> At(t, "publish"))
           \/ revisionLock = None /\ revisionLock' = t /\ task'[t].pc = "publish"
           \/ At(t, "publish") /\ revisionLock' = None /\ task'[t].pc # "publish"
    PROVE  LockInv'
BY ConfigAssumption DEF LockInv, Holding, At

\* A call returns.
LEMMA LockReturn ==
    ASSUME TypeOK, LockInv, NEW t \in Threads, Holding(t), NEW result, Return(t, result),
           revisionLock' = (IF At(t, "publish") THEN None ELSE revisionLock)
    PROVE  LockInv'
BY ConfigAssumption, ReturnEffect DEF LockInv, Holding, At

LEMMA LockStateError ==
    ASSUME TypeOK, LockInv, NEW t \in Threads, Holding(t), ~At(t, "publish"),
           StateSaveError(t), UNCHANGED revisionLock
    PROVE  LockInv'
<1>1. CASE task[t].phase = "stage"
  BY <1>1, LockReturn DEF StateSaveError
<1>2. CASE task[t].phase # "stage"
  <2>1. /\ task'[t].pc = "openActive"
        /\ \A u \in Threads : u # t => task'[u] = task[u]
    BY <1>2, RestoreEffect
  <2>2. UNCHANGED lifecycleLock
    BY <1>2 DEF StateSaveError
  <2> QED
    BY <2>1, <2>2, LockMove
<1> QED
  BY <1>1, <1>2

LEMMA LockReads ==
    ASSUME TypeOK, LockInv, NEW t \in Threads, Reads(t)
    PROVE  LockInv'
<1>1. CASE ReadPending(t)
  <2>1. Holding(t) /\ ~At(t, "publish") /\ UNCHANGED revisionLock
    BY <1>1 DEF ReadPending, Holding, At
  <2>2. CASE stateFile.pending = None
    BY <1>1, <2>1, <2>2, LockReturn DEF ReadPending
  <2>3. CASE stateFile.pending # None
    BY <1>1, <2>1, <2>3, ReadPendingEffect, LockMove DEF ReadPending
  <2> QED
    BY <2>2, <2>3
<1>2. CASE ReadHistorical(t)
  <2>1. Holding(t) /\ ~At(t, "publish") /\ UNCHANGED revisionLock
    BY <1>2 DEF ReadHistorical, Holding, At
  <2>2. CASE task[t].wanted \in DOMAIN revisions
    BY <1>2, <2>1, <2>2, ReadHistoricalEffect, LockMove DEF ReadHistorical
  <2>3. CASE task[t].wanted \notin DOMAIN revisions
    BY <1>2, <2>1, <2>3, LockReturn DEF ReadHistorical
  <2> QED
    BY <2>2, <2>3
<1>3. CASE ReadRevision(t)
  <2>1. Holding(t) /\ ~At(t, "publish") /\ UNCHANGED locks
    BY <1>3 DEF ReadRevision, Holding, At
  <2> QED
    BY <1>3, <2>1, ReadRevisionEffect, LockMove DEF locks
<1>4. CASE ReadState(t)
  <2>1. Holding(t) /\ ~At(t, "publish") /\ UNCHANGED locks
    BY <1>4 DEF ReadState, Holding, At
  <2> QED
    BY <1>4, <2>1, ReadStateEffect, LockMove DEF locks
<1>5. CASE ReadFails(t)
  <2>1. Holding(t) /\ ~At(t, "publish") /\ UNCHANGED revisionLock
    BY <1>5 DEF ReadFails, Holding, At
  <2> QED
    BY <1>5, <2>1, LockReturn DEF ReadFails
<1> QED
  BY <1>1, <1>2, <1>3, <1>4, <1>5 DEF Reads

LEMMA LockCreates ==
    ASSUME TypeOK, LockInv, NEW t \in Threads, Creates(t)
    PROVE  LockInv'
<1>0. Holding(t)
  BY DEF Creates, RejectCandidate, RevisionsExhausted, CreateRevision, CreateRevisionFails,
         PublishRevision, PublishRevisionFails, Holding, At
<1>1. CASE RejectCandidate(t)
  BY <1>0, <1>1, LockReturn DEF RejectCandidate, At
<1>2. CASE RevisionsExhausted(t)
  BY <1>0, <1>2, LockReturn DEF RevisionsExhausted, At
<1>3. CASE CreateRevision(t)
  <2>1. CASE TempName("revision", NextRevision) \in temps
    BY <1>0, <1>3, <2>1, LockReturn DEF CreateRevision, At
  <2>2. CASE TempName("revision", NextRevision) \notin temps
    <3>1. task'[t].pc = "publish" /\ \A u \in Threads : u # t => task'[u] = task[u]
      BY <1>3, <2>2, CreateEffect
    <3>2. UNCHANGED lifecycleLock /\ revisionLock = None /\ revisionLock' = t
      BY <1>3, <2>2 DEF CreateRevision
    <3> QED
      BY <1>0, <3>1, <3>2, LockMove
  <2> QED
    BY <2>1, <2>2
<1>4. CASE CreateRevisionFails(t)
  BY <1>0, <1>4, LockReturn DEF CreateRevisionFails, At
<1>5. CASE PublishRevision(t)
  <2>1. At(t, "publish") /\ UNCHANGED lifecycleLock /\ revisionLock' = None
    BY <1>5 DEF PublishRevision
  <2> QED
    BY <1>0, <1>5, <2>1, PublishEffect, LockMove
<1>6. CASE PublishRevisionFails(t)
  BY <1>0, <1>6, LockReturn DEF PublishRevisionFails
<1> QED
  BY <1>1, <1>2, <1>3, <1>4, <1>5, <1>6 DEF Creates

LEMMA LockSavesState ==
    ASSUME TypeOK, LockInv, NEW t \in Threads, SavesState(t)
    PROVE  LockInv'
<1>0. Holding(t) /\ ~At(t, "publish") /\ UNCHANGED revisionLock
  BY DEF SavesState, OpenState, OpenStateFails, RenameState, RenameStateFails, Holding, At
<1>1. CASE OpenState(t)
  <2>1. CASE TempName("state", None) \in temps
    BY <1>0, <1>1, <2>1, LockStateError DEF OpenState
  <2>2. CASE TempName("state", None) \notin temps
    BY <1>0, <1>1, <2>2, OpenStateEffect, LockMove DEF OpenState
  <2> QED
    BY <2>1, <2>2
<1>2. CASE OpenStateFails(t)
  BY <1>0, <1>2, LockStateError DEF OpenStateFails
<1>3. CASE RenameState(t)
  <2>1. CASE task[t].op = "rollback" /\ task[t].phase = "stage"
    BY <1>0, <1>3, <2>1, RollbackEffect, LockMove DEF RenameState
  <2>2. CASE ~(task[t].op = "rollback" /\ task[t].phase = "stage")
    BY <1>0, <1>3, <2>2, LockReturn DEF RenameState
  <2> QED
    BY <2>1, <2>2
<1>4. CASE RenameStateFails(t)
  BY <1>0, <1>4, LockStateError DEF RenameStateFails
<1> QED
  BY <1>1, <1>2, <1>3, <1>4 DEF SavesState

LEMMA LockSavesActive ==
    ASSUME TypeOK, LockInv, NEW t \in Threads, SavesActive(t)
    PROVE  LockInv'
<1>0. Holding(t) /\ ~At(t, "publish") /\ UNCHANGED revisionLock
  BY DEF SavesActive, OpenActive, OpenActiveFails, RenameActive, RenameActiveFails,
         SyncActive, SyncActiveFails, locks, Holding, At
<1>1. CASE OpenActive(t)
  <2>1. CASE TempName("active", None) \in temps
    BY <1>0, <1>1, <2>1, LockReturn DEF OpenActive, ActiveSaveError
  <2>2. CASE TempName("active", None) \notin temps
    BY <1>0, <1>1, <2>2, OpenActiveEffect, LockMove DEF OpenActive
  <2> QED
    BY <2>1, <2>2
<1>2. CASE OpenActiveFails(t)
  BY <1>0, <1>2, LockReturn DEF OpenActiveFails, ActiveSaveError
<1>3. CASE RenameActive(t)
  BY <1>0, <1>3, RenameActiveEffect, LockMove DEF RenameActive, locks
<1>4. CASE RenameActiveFails(t)
  BY <1>0, <1>4, LockReturn DEF RenameActiveFails, ActiveSaveError
<1>5. CASE SyncActive(t)
  <2>1. CASE task[t].phase = "restore"
    BY <1>0, <1>5, <2>1, LockReturn DEF SyncActive
  <2>2. CASE task[t].phase # "restore"
    BY <1>0, <1>5, <2>2, SyncActiveEffect, LockMove DEF SyncActive
  <2> QED
    BY <2>1, <2>2
<1>6. CASE SyncActiveFails(t)
  BY <1>0, <1>6, LockReturn DEF SyncActiveFails, ActiveSaveError
<1> QED
  BY <1>1, <1>2, <1>3, <1>4, <1>5, <1>6 DEF SavesActive

LEMMA LockStep ==
    ASSUME TypeOK, LockInv, [Next]_vars
    PROVE  LockInv'
<1>1. CASE Crash
  <2>1. ASSUME NEW t \in Threads PROVE task'[t].pc = "idle"
    BY <1>1, IdleTask DEF Crash
  <2> QED
    BY <1>1, <2>1, ConfigAssumption DEF Crash, LockInv, Holding, At
<1>2. CASE UNCHANGED vars
  BY <1>2 DEF vars, locks, LockInv, Holding, At
<1>3. ASSUME NEW t \in Threads, Calls(t)
      PROVE  LockInv'
  BY <1>3, CallEffect, ConfigAssumption DEF LockInv, Holding, At, locks
<1>4. ASSUME NEW t \in Threads, AcquireLifecycle(t)
      PROVE  LockInv'
  <2>1. task'[t].pc \in {"create", "readPending", "readHistorical"}
    BY <1>4, AcquireEffect DEF FirstStep, TypeOK, Task
  <2> QED
    BY <1>4, <2>1, AcquireEffect, ConfigAssumption
    DEF LockInv, Holding, At, AcquireLifecycle
<1> QED
  BY <1>1, <1>2, <1>3, <1>4, LockReads, LockCreates, LockSavesState, LockSavesActive
  DEF Next, Proceed

----------------------------------------------------------------------------
(* Which steps belong to which phase. *)

LEMMA PhaseMove ==
    ASSUME PhaseInv, NEW t \in Threads, Phased(task[t])',
           \A u \in Threads : u # t => task'[u] = task[u]
    PROVE  PhaseInv'
BY DEF PhaseInv, Phased

LEMMA PhaseReturn ==
    ASSUME TypeOK, PhaseInv, NEW t \in Threads, NEW result, Return(t, result)
    PROVE  PhaseInv'
BY ReturnEffect, PhaseMove DEF Phased

LEMMA PhaseStateError ==
    ASSUME TypeOK, PhaseInv, NEW t \in Threads, StateSaveError(t), ~At(t, "idle")
    PROVE  PhaseInv'
<1>1. CASE task[t].phase = "stage"
  BY <1>1, PhaseReturn DEF StateSaveError
<1>2. CASE task[t].phase # "stage"
  <2>1. Phased(task[t])'
    BY <1>2, RestoreEffect DEF PhaseInv, Phased, StepsOf, At
  <2> QED
    BY <1>2, <2>1, RestoreEffect, PhaseMove
<1> QED
  BY <1>1, <1>2

LEMMA PhaseReads ==
    ASSUME TypeOK, PhaseInv, NEW t \in Threads, Reads(t)
    PROVE  PhaseInv'
<1>0. task[t] \in Task
  BY DEF TypeOK
<1>1. CASE ReadPending(t)
  <2>1. CASE stateFile.pending = None
    BY <1>1, <2>1, PhaseReturn DEF ReadPending
  <2>2. CASE stateFile.pending # None
    <3>1. Phased(task[t])'
      BY <1>0, <1>1, <2>2, ReadPendingEffect DEF PhaseInv, Phased, StepsOf, Task, Phases
    <3> QED
      BY <1>1, <2>2, <3>1, ReadPendingEffect, PhaseMove
  <2> QED
    BY <2>1, <2>2
<1>2. CASE ReadHistorical(t)
  <2>1. CASE task[t].wanted \in DOMAIN revisions
    <3>1. Phased(task[t])'
      BY <1>0, <1>2, <2>1, ReadHistoricalEffect DEF PhaseInv, Phased, StepsOf, Task, Phases
    <3> QED
      BY <1>2, <2>1, <3>1, ReadHistoricalEffect, PhaseMove
  <2>2. CASE task[t].wanted \notin DOMAIN revisions
    BY <1>2, <2>2, PhaseReturn DEF ReadHistorical
  <2> QED
    BY <2>1, <2>2
<1>3. CASE ReadRevision(t)
  <2>1. Phased(task[t])'
    BY <1>0, <1>3, ReadRevisionEffect DEF PhaseInv, Phased, StepsOf, Task, Phases
  <2> QED
    BY <1>3, <2>1, ReadRevisionEffect, PhaseMove
<1>4. CASE ReadState(t)
  <2>1. Phased(task[t])'
    BY <1>0, <1>4, ReadStateEffect DEF PhaseInv, Phased, StepsOf, Task, Phases
  <2> QED
    BY <1>4, <2>1, ReadStateEffect, PhaseMove
<1>5. CASE ReadFails(t)
  BY <1>5, PhaseReturn DEF ReadFails
<1> QED
  BY <1>1, <1>2, <1>3, <1>4, <1>5 DEF Reads

LEMMA PhaseCreates ==
    ASSUME TypeOK, PhaseInv, NEW t \in Threads, Creates(t)
    PROVE  PhaseInv'
<1>0. task[t] \in Task
  BY DEF TypeOK
<1>1. CASE CreateRevision(t)
  <2>1. CASE TempName("revision", NextRevision) \in temps
    BY <1>1, <2>1, PhaseReturn DEF CreateRevision
  <2>2. CASE TempName("revision", NextRevision) \notin temps
    <3>1. Phased(task[t])'
      BY <1>0, <1>1, <2>2, CreateEffect DEF PhaseInv, Phased, StepsOf, Task, Phases
    <3> QED
      BY <1>1, <2>2, <3>1, CreateEffect, PhaseMove
  <2> QED
    BY <2>1, <2>2
<1>2. CASE PublishRevision(t)
  <2>1. Phased(task[t])'
    BY <1>0, <1>2, PublishEffect DEF PhaseInv, Phased, StepsOf, Task, Phases
  <2> QED
    BY <1>2, <2>1, PublishEffect, PhaseMove
<1>3. CASE \/ RejectCandidate(t) \/ RevisionsExhausted(t)
           \/ CreateRevisionFails(t) \/ PublishRevisionFails(t)
  BY <1>3, PhaseReturn DEF RejectCandidate, RevisionsExhausted, CreateRevisionFails,
                           PublishRevisionFails
<1> QED
  BY <1>1, <1>2, <1>3 DEF Creates

LEMMA PhaseSavesState ==
    ASSUME TypeOK, PhaseInv, NEW t \in Threads, SavesState(t)
    PROVE  PhaseInv'
<1>0. task[t] \in Task
  BY DEF TypeOK
<1>1. CASE OpenState(t)
  <2>1. CASE TempName("state", None) \in temps
    BY <1>1, <2>1, PhaseStateError DEF OpenState, At
  <2>2. CASE TempName("state", None) \notin temps
    <3>1. Phased(task[t])'
      BY <1>0, <1>1, <2>2, OpenStateEffect DEF PhaseInv, Phased, StepsOf, Task, Phases
    <3> QED
      BY <1>1, <2>2, <3>1, OpenStateEffect, PhaseMove
  <2> QED
    BY <2>1, <2>2
<1>2. CASE OpenStateFails(t) \/ RenameStateFails(t)
  BY <1>2, PhaseStateError DEF OpenStateFails, RenameStateFails, At
<1>3. CASE RenameState(t)
  <2>1. CASE task[t].op = "rollback" /\ task[t].phase = "stage"
    <3>1. Phased(task[t])'
      BY <1>0, <1>3, <2>1, RollbackEffect DEF PhaseInv, Phased, StepsOf, Task, Phases
    <3> QED
      BY <1>3, <2>1, <3>1, RollbackEffect, PhaseMove
  <2>2. CASE ~(task[t].op = "rollback" /\ task[t].phase = "stage")
    BY <1>3, <2>2, PhaseReturn DEF RenameState
  <2> QED
    BY <2>1, <2>2
<1> QED
  BY <1>1, <1>2, <1>3 DEF SavesState

LEMMA PhaseSavesActive ==
    ASSUME TypeOK, PhaseInv, NEW t \in Threads, SavesActive(t)
    PROVE  PhaseInv'
<1>0. task[t] \in Task
  BY DEF TypeOK
<1>1. CASE OpenActive(t)
  <2>1. CASE TempName("active", None) \in temps
    BY <1>1, <2>1, PhaseReturn DEF OpenActive, ActiveSaveError
  <2>2. CASE TempName("active", None) \notin temps
    <3>1. Phased(task[t])'
      BY <1>0, <1>1, <2>2, OpenActiveEffect DEF PhaseInv, Phased, StepsOf, Task, Phases
    <3> QED
      BY <1>1, <2>2, <3>1, OpenActiveEffect, PhaseMove
  <2> QED
    BY <2>1, <2>2
<1>2. CASE RenameActive(t)
  <2>1. Phased(task[t])'
    BY <1>0, <1>2, RenameActiveEffect DEF PhaseInv, Phased, StepsOf, Task, Phases
  <2> QED
    BY <1>2, <2>1, RenameActiveEffect, PhaseMove
<1>3. CASE SyncActive(t)
  <2>1. CASE task[t].phase = "restore"
    BY <1>3, <2>1, PhaseReturn DEF SyncActive
  <2>2. CASE task[t].phase # "restore"
    <3>1. Phased(task[t])'
      BY <1>0, <1>3, <2>2, SyncActiveEffect DEF PhaseInv, Phased, StepsOf, Task, Phases
    <3> QED
      BY <1>3, <2>2, <3>1, SyncActiveEffect, PhaseMove
  <2> QED
    BY <2>1, <2>2
<1>4. CASE OpenActiveFails(t) \/ RenameActiveFails(t) \/ SyncActiveFails(t)
  BY <1>4, PhaseReturn DEF OpenActiveFails, RenameActiveFails, SyncActiveFails, ActiveSaveError
<1> QED
  BY <1>1, <1>2, <1>3, <1>4 DEF SavesActive

LEMMA PhaseStep ==
    ASSUME TypeOK, PhaseInv, [Next]_vars
    PROVE  PhaseInv'
<1>1. CASE Crash
  <2>1. ASSUME NEW t \in Threads PROVE task'[t].pc = "idle"
    BY <1>1, IdleTask DEF Crash
  <2> QED
    BY <2>1 DEF PhaseInv, Phased
<1>2. CASE UNCHANGED vars
  BY <1>2 DEF vars, PhaseInv, Phased
<1>3. ASSUME NEW t \in Threads, Calls(t)
      PROVE  PhaseInv'
  <2>1. task'[t].op \in {"stage", "activate", "rollback"}
    BY <1>3, CallType DEF TypeOK, Task
  <2>2. Phased(task[t])'
    BY <1>3, <2>1, CallEffect DEF Phased, StepsOf
  <2> QED
    BY <1>3, <2>2, CallEffect, PhaseMove
<1>4. ASSUME NEW t \in Threads, AcquireLifecycle(t)
      PROVE  PhaseInv'
  <2>1. task[t] \in Task
    BY DEF TypeOK
  <2>2. Phased(task[t])'
    BY <1>4, <2>1, AcquireEffect DEF PhaseInv, Phased, StepsOf, FirstStep, Task, Phases
  <2> QED
    BY <1>4, <2>2, AcquireEffect, PhaseMove
<1> QED
  BY <1>1, <1>2, <1>3, <1>4, PhaseReads, PhaseCreates, PhaseSavesState, PhaseSavesActive
  DEF Next, Proceed

----------------------------------------------------------------------------
(* Numbers: what a call knows of its revision, and the state file. *)

\* Only the thread inside the lock has anything to lose: the facts about the
\* others do not mention the files.
LEMMA NumberMove ==
    ASSUME LockInv, NumberInv, NEW t \in Threads, Holding(t), Numbers(task[t])',
           \A u \in Threads : u # t => task'[u] = task[u]
    PROVE  NumberInv'
<1> SUFFICES ASSUME NEW u \in Threads, u # t
             PROVE  Numbers(task[u])'
  BY DEF NumberInv
<1>1. task'[u] = task[u] /\ task[u].pc \in {"idle", "acquire"}
  BY DEF LockInv, Holding
<1> QED
  BY <1>1 DEF NumberInv, Numbers, Publishing, Recording, Activating

LEMMA NumberReturn ==
    ASSUME TypeOK, LockInv, NumberInv, NEW t \in Threads, Holding(t),
           NEW result, Return(t, result)
    PROVE  NumberInv'
<1>1. Numbers(task[t])'
  BY ReturnEffect DEF Numbers, Publishing, Recording, Activating
<1> QED
  BY <1>1, ReturnEffect, NumberMove

LEMMA NumberStateError ==
    ASSUME TypeOK, LockInv, PhaseInv, NumberInv, NEW t \in Threads,
           task[t].pc \in {"openState", "renameState"}, StateSaveError(t),
           UNCHANGED disk
    PROVE  NumberInv'
<1>0. Holding(t) /\ task[t] \in Task
  BY DEF Holding, TypeOK
<1>1. CASE task[t].phase = "stage"
  BY <1>0, <1>1, NumberReturn DEF StateSaveError
<1>2. CASE task[t].phase # "stage"
  <2>1. task[t].phase = "activate"
    BY <1>0, <1>2 DEF PhaseInv, Phased, StepsOf, Task, Phases
  <2>2. Numbers(task[t])'
    BY <1>2, <2>1, RestoreEffect
    DEF NumberInv, Numbers, Publishing, Recording, Activating, disk
  <2> QED
    BY <1>0, <1>2, <2>2, RestoreEffect, NumberMove
<1> QED
  BY <1>1, <1>2

LEMMA NumberReads ==
    ASSUME TypeOK, LockInv, PhaseInv, NumberInv, StateFileWellFormed,
           NEW t \in Threads, Reads(t)
    PROVE  NumberInv'
<1> USE DEF Publishing, Recording, Activating, disk
<1>0. Holding(t) /\ UNCHANGED disk /\ task[t] \in Task
  BY DEF Reads, ReadPending, ReadHistorical, ReadRevision, ReadState, ReadFails, At,
         Holding, TypeOK
<1>1. CASE ReadPending(t)
  <2>1. CASE stateFile.pending = None
    BY <1>0, <1>1, <2>1, NumberReturn DEF ReadPending
  <2>2. CASE stateFile.pending # None
    <3>1. stateFile.pending \in DOMAIN revisions
      BY <2>2 DEF StateFileWellFormed, References
    <3>2. Numbers(task[t])'
      BY <1>0, <1>1, <2>2, <3>1, ReadPendingEffect DEF Numbers
    <3> QED
      BY <1>0, <1>1, <2>2, <3>2, ReadPendingEffect, NumberMove
  <2> QED
    BY <2>1, <2>2
<1>2. CASE ReadHistorical(t)
  <2>1. CASE task[t].wanted \in DOMAIN revisions
    <3>1. revisions[task[t].wanted] \in Configs
      BY <2>1 DEF TypeOK
    <3>2. Numbers(task[t])'
      BY <1>0, <1>2, <2>1, <3>1, ReadHistoricalEffect DEF Numbers
    <3> QED
      BY <1>0, <1>2, <2>1, <3>2, ReadHistoricalEffect, NumberMove
  <2>2. CASE task[t].wanted \notin DOMAIN revisions
    BY <1>0, <1>2, <2>2, NumberReturn DEF ReadHistorical
  <2> QED
    BY <2>1, <2>2
<1>3. CASE ReadRevision(t)
  <2>1. revisions[task[t].rev] \in Configs /\ activeFile \in Configs
    BY <1>3 DEF TypeOK, ReadRevision
  <2>2. stateFile.pending = task[t].rev /\ task[t].rev \in DOMAIN revisions
    BY <1>3 DEF NumberInv, Numbers, ReadRevision, At
  <2>3. Numbers(task[t])'
    BY <1>0, <1>3, <2>1, <2>2, ReadRevisionEffect DEF Numbers
  <2> QED
    BY <1>0, <1>3, <2>3, ReadRevisionEffect, NumberMove
<1>4. CASE ReadState(t)
  <2>1. task[t].phase = "stage"
    BY <1>0, <1>4 DEF ReadState, At, PhaseInv, Phased, StepsOf, Task, Phases
  <2>2. Numbers(task[t])'
    BY <1>0, <1>4, <2>1, ReadStateEffect DEF NumberInv, Numbers
  <2> QED
    BY <1>0, <1>4, <2>2, ReadStateEffect, NumberMove
<1>5. CASE ReadFails(t)
  BY <1>0, <1>5, NumberReturn DEF ReadFails
<1> QED
  BY <1>1, <1>2, <1>3, <1>4, <1>5 DEF Reads

LEMMA NumberCreates ==
    ASSUME TypeOK, LockInv, PhaseInv, NumberInv, StateFileWellFormed,
           NEW t \in Threads, Creates(t)
    PROVE  NumberInv'
<1> USE DEF Publishing, Recording, Activating, disk
<1>0. Holding(t) /\ task[t] \in Task
  BY DEF Creates, RejectCandidate, RevisionsExhausted, CreateRevision, CreateRevisionFails,
         PublishRevision, PublishRevisionFails, Holding, At, TypeOK
<1>1. CASE CreateRevision(t)
  <2>1. CASE TempName("revision", NextRevision) \in temps
    BY <1>0, <1>1, <2>1, NumberReturn DEF CreateRevision
  <2>2. CASE TempName("revision", NextRevision) \notin temps
    <3>1. /\ NextRevision \in Revisions
          /\ \A r \in DOMAIN revisions : r < NextRevision
      <4>1. /\ HighestRevision \in Nat
            /\ DOMAIN revisions \subseteq Nat
            /\ \A r \in DOMAIN revisions : r <= HighestRevision
        BY HighestIsHighest, BoundAssumption DEF TypeOK, Revisions
      <4> QED
        BY <1>1, <4>1, NextRevisionType DEF CreateRevision, NextRevision
    <3>2. Numbers(task[t])'
      BY <1>0, <1>1, <2>2, <3>1, CreateEffect DEF CreateRevision, Numbers
    <3> QED
      BY <1>0, <1>1, <2>2, <3>2, CreateEffect, NumberMove
  <2> QED
    BY <2>1, <2>2
<1>2. CASE PublishRevision(t)
  <2>1. /\ task[t].rev \in DOMAIN revisions'
        /\ DOMAIN revisions \subseteq DOMAIN revisions'
        /\ UNCHANGED stateFile
    BY <1>2 DEF PublishRevision
  <2>2. \A r \in References(stateFile) : r < task[t].rev
    BY <1>2 DEF PublishRevision, NumberInv, Numbers, At, StateFileWellFormed
  <2>3. Numbers(task[t])'
    BY <1>0, <1>2, <2>1, <2>2, PublishEffect DEF Numbers, References
  <2> QED
    BY <1>0, <1>2, <2>3, PublishEffect, NumberMove
<1>3. CASE \/ RejectCandidate(t) \/ RevisionsExhausted(t)
           \/ CreateRevisionFails(t) \/ PublishRevisionFails(t)
  BY <1>0, <1>3, NumberReturn DEF RejectCandidate, RevisionsExhausted,
                                  CreateRevisionFails, PublishRevisionFails
<1> QED
  BY <1>1, <1>2, <1>3 DEF Creates

LEMMA NumberSavesState ==
    ASSUME TypeOK, LockInv, PhaseInv, NumberInv, StateFileWellFormed,
           NEW t \in Threads, SavesState(t)
    PROVE  NumberInv'
<1> USE DEF Publishing, Recording, Activating, disk
<1>0. Holding(t) /\ task[t] \in Task
  BY DEF SavesState, OpenState, OpenStateFails, RenameState, RenameStateFails, Holding,
         At, TypeOK
<1>1. CASE OpenState(t)
  <2>0. UNCHANGED disk /\ task[t].pc = "openState"
    BY <1>1 DEF OpenState, At
  <2>1. CASE TempName("state", None) \in temps
    BY <1>1, <2>0, <2>1, NumberStateError DEF OpenState
  <2>2. CASE TempName("state", None) \notin temps
    <3>1. Numbers(task[t])'
      BY <1>0, <1>1, <2>0, <2>2, OpenStateEffect DEF NumberInv, Numbers
    <3> QED
      BY <1>0, <1>1, <2>2, <3>1, OpenStateEffect, NumberMove
  <2> QED
    BY <2>1, <2>2
<1>2. CASE OpenStateFails(t) \/ RenameStateFails(t)
  BY <1>2, NumberStateError DEF OpenStateFails, RenameStateFails, At
<1>3. CASE RenameState(t)
  <2>1. CASE task[t].op = "rollback" /\ task[t].phase = "stage"
    <3>1. /\ stateFile' = task[t].st /\ UNCHANGED revisions
          /\ task[t].st = [stateFile EXCEPT !.pending = task[t].rev]
          /\ task[t].rev \in DOMAIN revisions
      BY <1>3, <2>1 DEF RenameState, At, NumberInv, Numbers
    <3>2. stateFile'.pending = task[t].rev
      BY <3>1 DEF TypeOK, RevisionState
    <3>3. Numbers(task[t])'
      BY <1>0, <1>3, <2>1, <3>1, <3>2, RollbackEffect DEF Numbers
    <3> QED
      BY <1>0, <1>3, <2>1, <3>3, RollbackEffect, NumberMove
  <2>2. CASE ~(task[t].op = "rollback" /\ task[t].phase = "stage")
    BY <1>0, <1>3, <2>2, NumberReturn DEF RenameState
  <2> QED
    BY <2>1, <2>2
<1> QED
  BY <1>1, <1>2, <1>3 DEF SavesState

LEMMA NumberSavesActive ==
    ASSUME TypeOK, LockInv, PhaseInv, NumberInv, NEW t \in Threads, SavesActive(t)
    PROVE  NumberInv'
<1> USE DEF Publishing, Recording, Activating, disk
<1>0. Holding(t) /\ task[t] \in Task
  BY DEF SavesActive, OpenActive, OpenActiveFails, RenameActive, RenameActiveFails,
         SyncActive, SyncActiveFails, Holding, At, TypeOK
<1>1. CASE OpenActive(t)
  <2>1. CASE TempName("active", None) \in temps
    BY <1>0, <1>1, <2>1, NumberReturn DEF OpenActive, ActiveSaveError
  <2>2. CASE TempName("active", None) \notin temps
    <3>1. Numbers(task[t])'
      BY <1>0, <1>1, <2>2, OpenActiveEffect DEF OpenActive, NumberInv, Numbers
    <3> QED
      BY <1>0, <1>1, <2>2, <3>1, OpenActiveEffect, NumberMove
  <2> QED
    BY <2>1, <2>2
<1>2. CASE RenameActive(t)
  <2>1. Numbers(task[t])'
    BY <1>0, <1>2, RenameActiveEffect DEF RenameActive, NumberInv, Numbers
  <2> QED
    BY <1>0, <1>2, <2>1, RenameActiveEffect, NumberMove
<1>3. CASE SyncActive(t)
  <2>1. CASE task[t].phase = "restore"
    BY <1>0, <1>3, <2>1, NumberReturn DEF SyncActive
  <2>2. CASE task[t].phase # "restore"
    <3>1. task[t].phase = "activate"
      BY <1>0, <1>3, <2>2 DEF SyncActive, At, PhaseInv, Phased, StepsOf, Task, Phases
    <3>2. Numbers(task[t])'
      BY <1>0, <1>3, <2>2, <3>1, SyncActiveEffect
      DEF SyncActive, ActivatedState, At, NumberInv, Numbers
    <3> QED
      BY <1>0, <1>3, <2>2, <3>2, SyncActiveEffect, NumberMove
  <2> QED
    BY <2>1, <2>2
<1>4. CASE OpenActiveFails(t) \/ RenameActiveFails(t) \/ SyncActiveFails(t)
  BY <1>0, <1>4, NumberReturn DEF OpenActiveFails, RenameActiveFails, SyncActiveFails,
                                  ActiveSaveError
<1> QED
  BY <1>1, <1>2, <1>3, <1>4 DEF SavesActive

LEMMA NumberStep ==
    ASSUME TypeOK, LockInv, PhaseInv, NumberInv, StateFileWellFormed, [Next]_vars
    PROVE  NumberInv'
<1>1. CASE Crash
  <2>1. ASSUME NEW t \in Threads PROVE task'[t].pc = "idle"
    BY <1>1, IdleTask DEF Crash
  <2> QED
    BY <2>1 DEF NumberInv, Numbers, Publishing, Recording, Activating
<1>2. CASE UNCHANGED vars
  BY <1>2 DEF vars, disk, NumberInv, Numbers, Publishing, Recording, Activating
<1>3. ASSUME NEW t \in Threads, Calls(t)
      PROVE  NumberInv'
  BY <1>3, CallEffect DEF NumberInv, Numbers, Publishing, Recording, Activating, disk
<1>4. ASSUME NEW t \in Threads, AcquireLifecycle(t)
      PROVE  NumberInv'
  <2>1. task[t] \in Task
    BY DEF TypeOK
  <2>2. task'[t].pc \in {"create", "readPending", "readHistorical"}
        /\ (task'[t].pc = "create" => task[t].op = "stage")
    BY <1>4, <2>1, AcquireEffect DEF FirstStep, Task
  <2>3. Numbers(task[t])'
    BY <1>4, <2>2, AcquireEffect DEF NumberInv, Numbers, Publishing, Recording, Activating
  <2>4. UNCHANGED disk
    BY <1>4 DEF AcquireLifecycle
  <2> QED
    BY <1>4, <2>3, <2>4, AcquireEffect
    DEF NumberInv, Numbers, Publishing, Recording, Activating, disk
<1> QED
  BY <1>1, <1>2, <1>3, <1>4, NumberReads, NumberCreates, NumberSavesState,
     NumberSavesActive
  DEF Next, Proceed

\* The state file changes only by its rename, and what is renamed was computed
\* under the lock from the state file and the call's own revision.
LEMMA StateFileStep ==
    ASSUME TypeOK, NumberInv, StateFileWellFormed, PhaseInv, [Next]_vars
    PROVE  StateFileWellFormed'
<1>1. ASSUME NEW t \in Threads, RenameState(t)
      PROVE  StateFileWellFormed'
  <2> DEFINE k == task[t]
  <2>0. /\ k \in Task /\ k.pc = "renameState" /\ stateFile \in RevisionState
        /\ stateFile' = k.st /\ UNCHANGED revisions
    BY <1>1 DEF RenameState, At, TypeOK
  <2>1. CASE k.phase = "stage"
    <3>1. /\ k.rev \in DOMAIN revisions
          /\ \A r \in References(stateFile) : r < k.rev
          /\ k.st = [stateFile EXCEPT !.pending = k.rev]
      BY <2>0, <2>1 DEF NumberInv, Numbers, Recording
    <3>2. stateFile'.pending = k.rev /\ stateFile'.active = stateFile.active
      BY <2>0, <3>1 DEF RevisionState
    <3> QED
      BY <2>0, <3>1, <3>2 DEF StateFileWellFormed, References
  <2>2. CASE k.phase # "stage"
    <3>1. k.phase = "activate"
      BY <2>0, <2>2 DEF PhaseInv, Phased, StepsOf, Task, Phases
    <3>2. k.rev \in DOMAIN revisions /\ k.st = [active |-> k.rev, pending |-> None]
      BY <2>0, <3>1 DEF NumberInv, Numbers, Activating
    <3> QED
      BY <2>0, <3>2 DEF StateFileWellFormed, References
  <2> QED
    BY <2>1, <2>2
<1>2. ASSUME NEW t \in Threads, PublishRevision(t)
      PROVE  StateFileWellFormed'
  BY <1>2 DEF PublishRevision, StateFileWellFormed, References
<1>3. ASSUME UNCHANGED <<revisions, stateFile>>
      PROVE  StateFileWellFormed'
  BY <1>3 DEF StateFileWellFormed, References
<1>4. ASSUME NEW t \in Threads, SavesActive(t)
      PROVE  UNCHANGED <<revisions, stateFile>>
  BY <1>4 DEF SavesActive, OpenActive, OpenActiveFails, RenameActive, RenameActiveFails,
              SyncActive, SyncActiveFails, disk
<1>5. ASSUME NEW t \in Threads, Calls(t) \/ AcquireLifecycle(t) \/ Reads(t)
      PROVE  UNCHANGED disk
  <2>1. CASE Calls(t)
    BY <2>1, CallEffect
  <2>2. CASE AcquireLifecycle(t) \/ Reads(t)
    BY <2>2 DEF AcquireLifecycle, Reads, ReadPending, ReadHistorical, ReadRevision,
                ReadState, ReadFails
  <2> QED
    BY <1>5, <2>1, <2>2
<1>6. ASSUME NEW t \in Threads, Creates(t), ~PublishRevision(t)
      PROVE  UNCHANGED disk
  BY <1>6 DEF Creates, RejectCandidate, RevisionsExhausted, CreateRevision,
              CreateRevisionFails, PublishRevisionFails
<1>7. ASSUME NEW t \in Threads, SavesState(t), ~RenameState(t)
      PROVE  UNCHANGED disk
  BY <1>7 DEF SavesState, OpenState, OpenStateFails, RenameStateFails
<1>8. ASSUME Crash \/ UNCHANGED vars
      PROVE  UNCHANGED disk
  BY <1>8 DEF Crash, vars
<1> QED
  BY <1>1, <1>2, <1>3, <1>4, <1>5, <1>6, <1>7, <1>8 DEF Next, Proceed, disk

----------------------------------------------------------------------------
(* Theorems. *)

\* The layers that do not look at contents, together.
Core == TypeOK /\ LockInv /\ PhaseInv /\ NumberInv /\ StateFileWellFormed

LEMMA InitCore == Init => Core
<1> SUFFICES ASSUME Init PROVE Core
  OBVIOUS
<1>1. \A t \in Threads : task[t].pc = "idle"
  BY IdleTask DEF Init
<1>2. LockInv
  BY <1>1, ConfigAssumption DEF Init, LockInv, Holding, At
<1>3. PhaseInv /\ NumberInv
  BY <1>1 DEF PhaseInv, Phased, NumberInv, Numbers, Publishing, Recording, Activating
<1>4. StateFileWellFormed
  BY DEF Init, NoReferences, StateFileWellFormed, References
<1> QED
  BY <1>2, <1>3, <1>4, InitType DEF Core

LEMMA NextCore == Core /\ [Next]_vars => Core'
BY TypeStep, LockStep, PhaseStep, NumberStep, StateFileStep DEF Core

THEOREM CoreInvariant == Spec => []Core
BY InitCore, NextCore, PTL DEF Spec

\* Every variable keeps its type, whatever the callers, crashes and errors.
THEOREM TypeCorrect == Spec => []TypeOK
<1>1. Core => TypeOK
  BY DEF Core
<1> QED
  BY <1>1, CoreInvariant, PTL

\* state.yaml never names a revision that is not on disk, and a pending
\* revision is newer than the active one.
THEOREM StateFileSafe == Spec => []StateFileWellFormed
<1>1. Core => StateFileWellFormed
  BY DEF Core
<1> QED
  BY <1>1, CoreInvariant, PTL

\* A revision about to be published has a number above all those in use.
THEOREM NumbersFresh == Spec => []FreshNumber
<1>1. Core => FreshNumber
  BY DEF Core, NumberInv, Numbers, Publishing, FreshNumber, At
<1> QED
  BY <1>1, CoreInvariant, PTL

----------------------------------------------------------------------------
(* What the files hold. *)

\* Published revisions are never rewritten, so what the state file's active
\* reference stands for changes only with the reference.
LEMMA RecordedKept ==
    ASSUME TypeOK, StateFileWellFormed, UNCHANGED revisions,
           stateFile'.active = stateFile.active
    PROVE  RecordedConfig' = RecordedConfig
BY DEF RecordedConfig

\* The call inside the lock goes on: the others have nothing to lose.
LEMMA FileMove ==
    ASSUME LockInv, NEW t \in Threads, Holding(t), UNCHANGED lifecycleLock,
           \A u \in Threads : u # t => task'[u] = task[u],
           Files(task[t])'
    PROVE  FileInv'
<1>1. lifecycleLock = t /\ lifecycleLock' # None
  BY ConfigAssumption DEF LockInv
<1>2. ASSUME NEW u \in Threads, u # t PROVE ~Holding(u)'
  BY <1>1, <1>2 DEF LockInv, Holding
<1> QED
  BY <1>1, <1>2 DEF FileInv

\* The call returns: what is left to show is about the files at rest.
LEMMA FileReturn ==
    ASSUME TypeOK, LockInv, NEW t \in Threads, Holding(t), NEW result, Return(t, result),
           ~drift' => activeFile' = RecordedConfig'
    PROVE  FileInv'
<1>1. ASSUME NEW u \in Threads PROVE ~Holding(u)'
  BY ReturnEffect DEF LockInv, Holding
<1> QED
  BY <1>1 DEF FileInv

\* Outside the window the file holds what the state file says.
LEMMA AgreeOutside ==
    ASSUME FileInv, NEW t \in Threads, Holding(t), ~InWindow(task[t]), ~drift
    PROVE  activeFile = RecordedConfig
BY DEF FileInv, Files

\* A call that has changed no file returns outside the window, or inside it and
\* then the drift is recorded.
LEMMA FileGivesUp ==
    ASSUME TypeOK, LockInv, FileInv, StateFileWellFormed, NEW t \in Threads, Holding(t),
           NEW result, Return(t, result), UNCHANGED disk,
           ~drift' => ~drift /\ ~InWindow(task[t])
    PROVE  FileInv'
<1>1. ASSUME ~drift' PROVE activeFile' = RecordedConfig'
  BY <1>1, AgreeOutside, RecordedKept DEF disk
<1> QED
  BY <1>1, FileReturn

LEMMA FileReads ==
    ASSUME Core, FileInv, NEW t \in Threads, Reads(t)
    PROVE  FileInv'
<1> USE DEF Core
<1>0. /\ Holding(t) /\ UNCHANGED disk /\ UNCHANGED drift /\ task[t] \in Task
      /\ Files(task[t]) /\ UNCHANGED RecordedConfig
      /\ ~InWindow(task[t]) /\ Phased(task[t])
  <2>1. /\ Holding(t) /\ UNCHANGED disk /\ UNCHANGED drift /\ task[t] \in Task
    BY DEF Reads, ReadPending, ReadHistorical, ReadRevision, ReadState, ReadFails, At,
           Holding, TypeOK, aux
  <2>2. ~InWindow(task[t])
    BY DEF Reads, ReadPending, ReadHistorical, ReadRevision, ReadState, ReadFails, At,
           InWindow
  <2> QED
    BY <2>1, <2>2 DEF FileInv, PhaseInv, disk, RecordedConfig
<1>1. ASSUME NEW result, Return(t, result) PROVE FileInv'
  BY <1>0, <1>1, FileGivesUp
<1>2. ASSUME UNCHANGED lifecycleLock,
             task'[t].before = task[t].before, task'[t].op = task[t].op,
             Staging(task'[t]), Staging(task[t]),
             \A u \in Threads : u # t => task'[u] = task[u]
      PROVE  FileInv'
  <2>1. Files(task[t])'
    BY <1>0, <1>2 DEF Files, disk
  <2> QED
    BY <1>0, <1>2, <2>1, FileMove
<1>3. CASE ReadPending(t)
  <2>1. CASE stateFile.pending = None
    BY <1>1, <1>3, <2>1 DEF ReadPending
  <2>2. CASE stateFile.pending # None
    BY <1>2, <1>3, <2>2, ReadPendingEffect DEF ReadPending, Staging
  <2> QED
    BY <2>1, <2>2
<1>4. CASE ReadHistorical(t)
  <2>1. CASE task[t].wanted \in DOMAIN revisions
    <3>1. task[t].phase = "stage"
      BY <1>0, <1>4 DEF Phased, ReadHistorical, At, StepsOf, Task, Phases
    <3> QED
      BY <1>2, <1>4, <2>1, <3>1, ReadHistoricalEffect DEF ReadHistorical, Staging
  <2>2. CASE task[t].wanted \notin DOMAIN revisions
    BY <1>1, <1>4, <2>2 DEF ReadHistorical
  <2> QED
    BY <2>1, <2>2
<1>5. CASE ReadRevision(t)
  <2>1. /\ task'[t].cand = revisions[task[t].rev] /\ task'[t].rev = task[t].rev
        /\ task'[t].prev = activeFile /\ task'[t].before = task[t].before
        /\ task'[t].op = task[t].op /\ task'[t].phase = task[t].phase
        /\ task[t].pc = "readRevision" /\ task'[t].pc = "openActive"
    BY <1>5, ReadRevisionEffect
  <2>2. task[t].phase = "activate"
    BY <1>0, <2>1 DEF Phased, StepsOf, Task, Phases
  <2>3. ~Staging(task'[t]) /\ ~InWindow(task'[t]) /\ Staging(task[t])
    BY <2>1, <2>2 DEF Staging, InWindow
  <2>4. Files(task[t])'
    BY <1>0, <2>1, <2>3 DEF Files, disk
  <2> QED
    BY <1>0, <1>5, <2>4, ReadRevisionEffect, FileMove DEF ReadRevision, locks
<1>6. CASE ReadState(t)
  <2>1. task[t].phase = "stage"
    BY <1>0, <1>6 DEF ReadState, At, Phased, StepsOf, Task, Phases
  <2> QED
    BY <1>2, <1>6, <2>1, ReadStateEffect DEF ReadState, Staging, locks
<1>7. CASE ReadFails(t)
  BY <1>1, <1>7 DEF ReadFails
<1> QED
  BY <1>3, <1>4, <1>5, <1>6, <1>7 DEF Reads

LEMMA FileCreates ==
    ASSUME Core, FileInv, NEW t \in Threads, Creates(t)
    PROVE  FileInv'
<1> USE DEF Core
<1>0. /\ Holding(t) /\ UNCHANGED <<activeFile, stateFile, drift>> /\ task[t] \in Task
      /\ Files(task[t]) /\ ~InWindow(task[t]) /\ task[t].phase = "stage"
  <2>1. /\ Holding(t) /\ UNCHANGED <<activeFile, stateFile, drift>> /\ task[t] \in Task
        /\ task[t].pc \in {"create", "publish"}
    BY DEF Creates, RejectCandidate, RevisionsExhausted, CreateRevision,
           CreateRevisionFails, PublishRevision, PublishRevisionFails, Holding, At,
           TypeOK, aux, disk
  <2>2. ~InWindow(task[t])
    BY <2>1 DEF InWindow
  <2>3. task[t].phase = "stage"
    BY <2>1 DEF PhaseInv, Phased, StepsOf, Task, Phases
  <2> QED
    BY <2>1, <2>2, <2>3 DEF FileInv
<1>1. ASSUME NEW result, Return(t, result), UNCHANGED disk PROVE FileInv'
  BY <1>0, <1>1, FileGivesUp
<1>2. CASE PublishRevision(t)
  <2>1. UNCHANGED RecordedConfig
    <3>1. CASE stateFile.active = None
      BY <1>0, <3>1 DEF RecordedConfig
    <3>2. CASE stateFile.active # None
      <4>1. stateFile.active \in DOMAIN revisions /\ stateFile.active # task[t].rev
        BY <1>2, <3>2 DEF StateFileWellFormed, References, PublishRevision
      <4> QED
        BY <1>0, <1>2, <4>1 DEF PublishRevision, RecordedConfig
    <3> QED
      BY <3>1, <3>2
  <2>2. /\ Staging(task'[t]) /\ Staging(task[t])
        /\ task'[t].before = task[t].before /\ task'[t].op = task[t].op
    BY <1>0, <1>2, PublishEffect DEF Staging
  <2>3. Files(task[t])'
    BY <1>0, <2>1, <2>2 DEF Files
  <2> QED
    BY <1>0, <1>2, <2>3, PublishEffect, FileMove DEF PublishRevision
<1>3. CASE CreateRevision(t)
  <2>0. UNCHANGED disk
    BY <1>3 DEF CreateRevision
  <2>1. CASE TempName("revision", NextRevision) \in temps
    BY <1>1, <1>3, <2>1 DEF CreateRevision
  <2>2. CASE TempName("revision", NextRevision) \notin temps
    <3>1. /\ Staging(task'[t]) /\ Staging(task[t])
          /\ task'[t].before = task[t].before /\ task'[t].op = task[t].op
      BY <1>0, <1>3, <2>2, CreateEffect DEF Staging
    <3>2. Files(task[t])'
      BY <1>0, <2>0, <3>1, RecordedKept DEF Files, disk
    <3> QED
      BY <1>0, <1>3, <2>2, <3>2, CreateEffect, FileMove DEF CreateRevision
  <2> QED
    BY <2>1, <2>2
<1>4. CASE \/ RejectCandidate(t) \/ RevisionsExhausted(t)
           \/ CreateRevisionFails(t) \/ PublishRevisionFails(t)
  BY <1>1, <1>4 DEF RejectCandidate, RevisionsExhausted, CreateRevisionFails,
                    PublishRevisionFails
<1> QED
  BY <1>2, <1>3, <1>4 DEF Creates

LEMMA FileStateError ==
    ASSUME Core, FileInv, NEW t \in Threads,
           task[t].pc \in {"openState", "renameState"},
           StateSaveError(t), UNCHANGED disk, UNCHANGED drift
    PROVE  FileInv'
<1> USE DEF Core
<1>0. /\ Holding(t) /\ task[t] \in Task /\ Phased(task[t]) /\ Files(task[t])
      /\ UNCHANGED RecordedConfig
  BY DEF Holding, TypeOK, PhaseInv, FileInv, disk, RecordedConfig
<1>1. CASE task[t].phase = "stage"
  <2>1. ~InWindow(task[t])
    BY <1>1 DEF InWindow
  <2> QED
    BY <1>0, <1>1, <2>1, FileGivesUp DEF StateSaveError
<1>2. CASE task[t].phase # "stage"
  <2>1. task[t].phase = "activate"
    BY <1>0, <1>2 DEF Phased, StepsOf, Task, Phases
  <2>2. ~Staging(task[t]) /\ InWindow(task[t])
    BY <2>1 DEF Staging, InWindow
  <2>3. ~Staging(task'[t]) /\ InWindow(task'[t])
    BY <1>2, RestoreEffect DEF Staging, InWindow
  <2>4. Files(task[t])'
    BY <1>0, <1>2, <2>2, <2>3, RestoreEffect DEF Files, disk
  <2> QED
    BY <1>0, <1>2, <2>4, RestoreEffect, FileMove DEF StateSaveError
<1> QED
  BY <1>1, <1>2

LEMMA FileSavesState ==
    ASSUME Core, FileInv, NEW t \in Threads, SavesState(t)
    PROVE  FileInv'
<1> USE DEF Core
<1>0. /\ Holding(t) /\ task[t] \in Task /\ Phased(task[t]) /\ Files(task[t])
      /\ task[t].pc \in {"openState", "renameState"}
  <2>1. task[t].pc \in {"openState", "renameState"}
    BY DEF SavesState, OpenState, OpenStateFails, RenameState, RenameStateFails, At
  <2> QED
    BY <2>1 DEF Holding, TypeOK, PhaseInv, FileInv
<1>1. CASE OpenState(t)
  <2>0. UNCHANGED disk /\ UNCHANGED drift /\ task[t].pc = "openState"
    BY <1>1 DEF OpenState, At
  <2>1. CASE TempName("state", None) \in temps
    BY <1>0, <1>1, <2>0, <2>1, FileStateError DEF OpenState
  <2>2. CASE TempName("state", None) \notin temps
    <3>1. /\ Staging(task'[t]) <=> Staging(task[t])
          /\ InWindow(task'[t]) <=> InWindow(task[t])
      BY <1>0, <1>1, <2>0, <2>2, OpenStateEffect DEF Staging, InWindow
    <3>2. Files(task[t])'
      BY <1>0, <1>1, <2>0, <2>2, <3>1, OpenStateEffect, RecordedKept DEF Files, disk
    <3> QED
      BY <1>0, <1>1, <2>2, <3>2, OpenStateEffect, FileMove DEF OpenState
  <2> QED
    BY <2>1, <2>2
<1>2. CASE OpenStateFails(t) \/ RenameStateFails(t)
  BY <1>0, <1>2, FileStateError DEF OpenStateFails, RenameStateFails, aux
<1>3. CASE RenameState(t)
  <2>0. /\ stateFile' = task[t].st /\ UNCHANGED <<activeFile, revisions>>
        /\ task[t].pc = "renameState" /\ stateFile \in RevisionState
    BY <1>3 DEF RenameState, At, TypeOK
  <2>1. CASE task[t].phase = "stage"
    <3>1. /\ stateFile'.active = stateFile.active
          /\ drift' => drift
          /\ drift => drift'
      <4>1. task[t].st = [stateFile EXCEPT !.pending = task[t].rev]
        BY <2>0, <2>1 DEF NumberInv, Numbers, Recording
      <4> QED
        BY <1>3, <2>0, <2>1, <4>1 DEF RenameState, RevisionState
    <3>2. UNCHANGED RecordedConfig
      BY <2>0, <3>1, RecordedKept
    <3>3. /\ Staging(task[t]) /\ ~InWindow(task[t])
          /\ activeFile = task[t].before.file
      BY <1>0, <2>1 DEF Staging, InWindow, Files
    <3>4. CASE task[t].op = "rollback"
      <4>1. /\ Staging(task'[t]) /\ task'[t].before = task[t].before
            /\ task'[t].op = "rollback"
        BY <1>3, <2>1, <3>4, RollbackEffect DEF Staging
      <4>2. ~drift' => ~drift
        BY <1>3, <2>1 DEF RenameState
      <4>3. Files(task[t])'
        BY <1>0, <2>0, <3>1, <3>2, <3>3, <4>1, <4>2 DEF Files
      <4> QED
        BY <1>0, <1>3, <2>1, <3>4, <4>3, RollbackEffect, FileMove DEF RenameState
    <3>5. CASE task[t].op # "rollback"
      <4>1. ~drift' => activeFile' = RecordedConfig'
        BY <1>0, <1>3, <2>0, <2>1, <3>2, <3>3, AgreeOutside DEF RenameState
      <4> QED
        BY <1>0, <1>3, <3>5, <4>1, FileReturn DEF RenameState
    <3> QED
      BY <3>4, <3>5
  <2>2. CASE task[t].phase # "stage"
    <3>1. task[t].phase = "activate"
      BY <1>0, <2>0, <2>2 DEF Phased, StepsOf, Task, Phases
    <3>2. /\ task[t].st = [active |-> task[t].rev, pending |-> None]
          /\ task[t].rev \in DOMAIN revisions
      BY <2>0, <3>1 DEF NumberInv, Numbers, Activating
    <3>3. activeFile = revisions[task[t].rev]
      BY <1>0, <2>0, <3>1 DEF Files, Staging, InWindow
    <3>4. task[t].rev # None
      BY <3>2, ConfigAssumption DEF TypeOK, Revisions
    <3>5. activeFile' = RecordedConfig'
      BY <2>0, <3>2, <3>3, <3>4 DEF RecordedConfig
    <3> QED
      BY <1>0, <1>3, <2>2, <3>5, FileReturn DEF RenameState
  <2> QED
    BY <2>1, <2>2
<1> QED
  BY <1>1, <1>2, <1>3 DEF SavesState

LEMMA FileSavesActive ==
    ASSUME Core, FileInv, NEW t \in Threads, SavesActive(t)
    PROVE  FileInv'
<1> USE DEF Core
<1> DEFINE k == task[t]  l == task'[t]
<1>0. /\ Holding(t) /\ k \in Task /\ Phased(k) /\ Files(k)
      /\ k.pc \in {"openActive", "renameActive", "syncActive"}
      /\ UNCHANGED <<revisions, stateFile>>
  <2>1. /\ k.pc \in {"openActive", "renameActive", "syncActive"}
        /\ UNCHANGED <<revisions, stateFile>>
    BY DEF SavesActive, OpenActive, OpenActiveFails, RenameActive, RenameActiveFails,
           SyncActive, SyncActiveFails, At, disk
  <2> QED
    BY <2>1 DEF Holding, TypeOK, PhaseInv, FileInv
<1>1. k.phase \in {"activate", "restore"} /\ ~Staging(k)
  BY <1>0 DEF Phased, StepsOf, Task, Phases, Staging
<1>2. ASSUME ActiveSaveError(t), UNCHANGED disk, drift' = (drift \/ InWindow(k))
      PROVE  FileInv'
  BY <1>0, <1>2, FileGivesUp DEF ActiveSaveError
<1>3. CASE OpenActive(t)
  <2>0. UNCHANGED disk /\ k.pc = "openActive"
    BY <1>3 DEF OpenActive, At
  <2>1. CASE TempName("active", None) \in temps
    BY <1>2, <1>3, <2>0, <2>1 DEF OpenActive
  <2>2. CASE TempName("active", None) \notin temps
    <3>1. ~Staging(l) /\ (InWindow(l) <=> InWindow(k))
      BY <1>1, <1>3, <2>0, <2>2, OpenActiveEffect DEF Staging, InWindow
    <3>2. ~drift' => ~drift
      BY <1>3, <2>2 DEF OpenActive
    <3>3. Files(k)'
      BY <1>0, <1>1, <1>3, <2>0, <2>2, <3>1, <3>2, OpenActiveEffect, RecordedKept
      DEF Files, disk
    <3> QED
      BY <1>0, <1>3, <2>2, <3>3, OpenActiveEffect, FileMove DEF OpenActive
  <2> QED
    BY <2>1, <2>2
<1>4. CASE RenameActive(t)
  <2>1. /\ ~Staging(l) /\ (InWindow(l) <=> k.phase = "activate")
        /\ l.cand = k.cand /\ l.prev = k.prev /\ l.rev = k.rev /\ l.op = k.op
        /\ l.before = k.before
    BY <1>1, <1>4, RenameActiveEffect DEF Staging, InWindow
  <2>2. activeFile' = IF k.phase = "restore" THEN k.prev ELSE k.cand
    BY <1>4 DEF RenameActive, Target
  <2>3. ~drift' => ~drift
    BY <1>4 DEF RenameActive, aux
  <2>4. Files(k)'
    BY <1>0, <1>1, <2>1, <2>2, <2>3, RecordedKept DEF Files
  <2> QED
    BY <1>0, <1>4, <2>4, RenameActiveEffect, FileMove DEF RenameActive, locks
<1>5. CASE SyncActive(t)
  <2>0. UNCHANGED disk /\ UNCHANGED drift /\ k.pc = "syncActive"
    BY <1>5 DEF SyncActive, At, aux
  <2>1. CASE k.phase = "restore"
    <3>1. ~InWindow(k)
      BY <2>0, <2>1 DEF InWindow
    <3> QED
      BY <1>0, <1>5, <2>0, <2>1, <3>1, FileGivesUp DEF SyncActive
  <2>2. CASE k.phase # "restore"
    <3>1. ~Staging(l) /\ InWindow(l) /\ InWindow(k)
      BY <1>1, <1>5, <2>0, <2>2, SyncActiveEffect DEF Staging, InWindow
    <3>2. Files(k)'
      BY <1>0, <1>1, <1>5, <2>0, <2>2, <3>1, SyncActiveEffect, RecordedKept
      DEF Files, disk
    <3> QED
      BY <1>0, <1>5, <2>2, <3>2, SyncActiveEffect, FileMove DEF SyncActive
  <2> QED
    BY <2>1, <2>2
<1>6. CASE OpenActiveFails(t) \/ RenameActiveFails(t) \/ SyncActiveFails(t)
  BY <1>2, <1>6 DEF OpenActiveFails, RenameActiveFails, SyncActiveFails
<1> QED
  BY <1>3, <1>4, <1>5, <1>6 DEF SavesActive

\* A crash leaves the files where they are, and is recorded when that is in the
\* window.
LEMMA FileCrash ==
    ASSUME Core, FileInv, Crash
    PROVE  FileInv'
<1> USE DEF Core
<1>1. ASSUME NEW t \in Threads PROVE ~Holding(t)'
  BY <1>1, IdleTask DEF Crash, Holding
<1>2. UNCHANGED RecordedConfig /\ UNCHANGED disk
  BY DEF Crash, disk, RecordedConfig
<1>3. ASSUME ~drift' PROVE activeFile = RecordedConfig
  <2>1. ~drift /\ \A t \in Threads : ~InWindow(task[t])
    BY <1>3 DEF Crash
  <2>2. CASE lifecycleLock = None
    BY <2>1, <2>2 DEF FileInv
  <2>3. CASE lifecycleLock # None
    <3>1. PICK t \in Threads : Holding(t)
      BY <2>3 DEF LockInv, TypeOK
    <3> QED
      BY <2>1, <3>1, AgreeOutside
  <2> QED
    BY <2>2, <2>3
<1> QED
  BY <1>1, <1>2, <1>3 DEF FileInv, disk

LEMMA FileAcquire ==
    ASSUME Core, FileInv, NEW t \in Threads, AcquireLifecycle(t)
    PROVE  FileInv'
<1> USE DEF Core
<1> DEFINE k == task[t]  l == task'[t]
<1>1. /\ k.pc = "acquire" /\ k \in Task /\ Phased(k)
      /\ lifecycleLock = None /\ lifecycleLock' = t /\ t # None
      /\ UNCHANGED disk /\ UNCHANGED drift /\ UNCHANGED RecordedConfig
  BY ConfigAssumption DEF AcquireLifecycle, At, TypeOK, PhaseInv, disk, aux, RecordedConfig
<1>2. /\ l.before.file = activeFile /\ l.before.state = stateFile
      /\ l.op = k.op /\ l.phase = k.phase /\ l.pc = FirstStep(k.op)
  BY AcquireEffect
<1>3. Staging(l)
  BY <1>1, <1>2 DEF FirstStep, Task, Staging, Phased
<1>4. Files(k)'
  BY <1>1, <1>2, <1>3 DEF Files, FileInv, disk
<1>5. ASSUME NEW u \in Threads, u # t PROVE ~Holding(u)'
  BY <1>1, <1>5, AcquireEffect, ConfigAssumption DEF LockInv, Holding
<1> QED
  BY <1>1, <1>4, <1>5 DEF FileInv

LEMMA FileStep ==
    ASSUME Core, FileInv, [Next]_vars
    PROVE  FileInv'
<1>1. ASSUME NEW t \in Threads, Calls(t)
      PROVE  FileInv'
  <2>1. /\ UNCHANGED <<disk, locks, aux>>
        /\ ~Holding(t) /\ ~Holding(t)'
        /\ \A u \in Threads : u # t => task'[u] = task[u]
    BY <1>1, CallEffect DEF Holding, At, Core
  <2>2. UNCHANGED RecordedConfig
    BY <2>1 DEF disk, RecordedConfig
  <2> QED
    BY <2>1, <2>2 DEF FileInv, Files, Holding, disk, locks, aux
<1>2. CASE UNCHANGED vars
  BY <1>2 DEF vars, disk, locks, aux, FileInv, Files, Holding, RecordedConfig
<1> QED
  BY <1>1, <1>2, FileCrash, FileAcquire, FileReads, FileCreates, FileSavesState,
     FileSavesActive
  DEF Next, Proceed

----------------------------------------------------------------------------
LEMMA InitFiles == Init => FileInv
<1> SUFFICES ASSUME Init PROVE FileInv
  OBVIOUS
<1>1. ASSUME NEW t \in Threads PROVE ~Holding(t)
  BY <1>1, IdleTask DEF Init, Holding
<1> QED
  BY <1>1 DEF Init, FileInv, RecordedConfig, NoReferences

LEMMA NextFiles == Core /\ FileInv /\ [Next]_vars => FileInv'
BY FileStep

THEOREM FilesInvariant == Spec => []FileInv
BY InitFiles, NextFiles, CoreInvariant, PTL DEF Spec

\* While no call is under way the active file holds what the state file says
\* is active, unless a crash or an error hit between the two writes of the last
\* activation (lifecycle.rs:129-142).
THEOREM FilesAgree == Spec => []FilesAgreeAtRest
<1>1. FileInv => FilesAgreeAtRest
  BY DEF FileInv, FilesAgreeAtRest
<1> QED
  BY <1>1, FilesInvariant, PTL

----------------------------------------------------------------------------
(* What an error leaves behind. *)

\* A step of a call writes the task of its own thread only.
LEMMA OwnTask ==
    ASSUME TypeOK, NEW u \in Threads, Calls(u) \/ Proceed(u)
    PROVE  \A t \in Threads : t # u => task'[t] = task[t]
<1>1. \E k : Become(u, k)
  <2>1. CASE Calls(u)
    BY <2>1 DEF Calls, Stage, ActivatePending, RollbackTo, Call
  <2>2. CASE AcquireLifecycle(u)
    BY <2>2 DEF AcquireLifecycle
  <2>3. CASE Reads(u)
    BY <2>3 DEF Reads, ReadPending, ReadHistorical, ReadRevision, ReadState, ReadFails,
                Return
  <2>4. CASE Creates(u)
    BY <2>4 DEF Creates, RejectCandidate, RevisionsExhausted, CreateRevision,
                CreateRevisionFails, PublishRevision, PublishRevisionFails, Return
  <2>5. CASE SavesState(u)
    BY <2>5 DEF SavesState, OpenState, OpenStateFails, RenameState, RenameStateFails,
                StateSaveError, Return
  <2>6. CASE SavesActive(u)
    BY <2>6 DEF SavesActive, OpenActive, OpenActiveFails, RenameActive,
                RenameActiveFails, SyncActive, SyncActiveFails, ActiveSaveError, Return
  <2> QED
    BY <2>1, <2>2, <2>3, <2>4, <2>5, <2>6 DEF Proceed
<1>2. PICK k : Become(u, k)
  BY <1>1
<1> QED
  BY <1>2, TaskChange

\* The active configuration, file and reference, is what the call found, and so
\* is the pending reference if the call does not stage anything on the way.
Untouched(t) ==
    LET before == task[t].before IN
    /\ activeFile' = before.file
    /\ stateFile'.active = before.state.active
    /\ task[t].op # "rollback" => stateFile' = before.state

LEMMA OutsideUntouched ==
    ASSUME FileInv, NEW t \in Threads, Holding(t), ~InWindow(task[t]),
           UNCHANGED <<activeFile, stateFile>>
    PROVE  Untouched(t)
BY DEF FileInv, Files, Untouched

\* A step that ends a call in an error, other than the two exceptions.
Failing(t) ==
    /\ task'[t].pc = "idle"
    /\ task'[t].result \notin {"ok", "recovery"}
    /\ ~(At(t, "syncActive") /\ task[t].phase = "activate")

LEMMA ReadUntouched ==
    ASSUME FileInv, NEW t \in Threads, Reads(t) \/ Creates(t)
    PROVE  Untouched(t)
<1>1. CASE Reads(t)
  <2>1. UNCHANGED disk /\ Holding(t) /\ ~InWindow(task[t])
    BY <1>1 DEF Reads, ReadPending, ReadHistorical, ReadRevision, ReadState, ReadFails,
                At, Holding, InWindow
  <2> QED
    BY <2>1, OutsideUntouched DEF disk
<1>2. CASE Creates(t)
  <2>1. UNCHANGED <<activeFile, stateFile>> /\ Holding(t) /\ ~InWindow(task[t])
    BY <1>2 DEF Creates, RejectCandidate, RevisionsExhausted, CreateRevision,
                CreateRevisionFails, PublishRevision, PublishRevisionFails, disk, At,
                Holding, InWindow
  <2> QED
    BY <2>1, OutsideUntouched
<1> QED
  BY <1>1, <1>2

LEMMA SaveStateUntouched ==
    ASSUME Core, FileInv, NEW t \in Threads, SavesState(t), Failing(t)
    PROVE  Untouched(t)
<1> USE DEF Core
<1>1. CASE RenameState(t)
  <2>1. CASE task[t].op = "rollback" /\ task[t].phase = "stage"
    BY <1>1, <2>1, RollbackEffect DEF Failing
  <2>2. CASE ~(task[t].op = "rollback" /\ task[t].phase = "stage")
    <3>1. task'[t] = Idle("ok")
      BY <1>1, <2>2, TaskChange DEF RenameState, Return
    <3> QED
      BY <3>1, IdleTask DEF Failing
  <2> QED
    BY <2>1, <2>2
<1>2. CASE OpenState(t) /\ TempName("state", None) \notin temps
  BY <1>2, OpenStateEffect DEF Failing
<1>3. CASE \/ OpenState(t) /\ TempName("state", None) \in temps
           \/ OpenStateFails(t) \/ RenameStateFails(t)
  <2>1. /\ UNCHANGED disk /\ StateSaveError(t)
        /\ task[t].pc \in {"openState", "renameState"}
    BY <1>3 DEF OpenState, OpenStateFails, RenameStateFails, At
  <2>2. task[t].phase = "stage"
    BY <2>1, RestoreEffect DEF Failing
  <2>3. Holding(t) /\ ~InWindow(task[t])
    BY <2>1, <2>2 DEF Holding, InWindow
  <2> QED
    BY <2>1, <2>3, OutsideUntouched DEF disk
<1> QED
  BY <1>1, <1>2, <1>3 DEF SavesState

LEMMA SaveActiveUntouched ==
    ASSUME Core, FileInv, NEW t \in Threads, SavesActive(t), Failing(t)
    PROVE  Untouched(t)
<1> USE DEF Core
<1>0. Holding(t) /\ task[t] \in Task /\ Phased(task[t])
      /\ task[t].phase \in {"activate", "restore"}
  <2>1. task[t].pc \in {"openActive", "renameActive", "syncActive"}
    BY DEF SavesActive, OpenActive, OpenActiveFails, RenameActive, RenameActiveFails,
           SyncActive, SyncActiveFails, At
  <2>2. task[t] \in Task /\ Phased(task[t])
    BY DEF TypeOK, PhaseInv
  <2> QED
    BY <2>1, <2>2 DEF Holding, Phased, StepsOf, Task, Phases
<1>1. ASSUME ActiveSaveError(t) PROVE task[t].phase = "activate"
  <2>1. ASSUME task[t].phase = "restore" PROVE task'[t].result = "recovery"
    BY <1>1, <2>1, TaskChange, IdleTask DEF ActiveSaveError, Return
  <2> QED
    BY <1>0, <2>1 DEF Failing
<1>2. CASE OpenActive(t)
  <2>1. CASE TempName("active", None) \notin temps
    BY <1>2, <2>1, OpenActiveEffect DEF Failing
  <2>2. CASE TempName("active", None) \in temps
    <3>1. UNCHANGED disk /\ task[t].pc = "openActive" /\ task[t].phase = "activate"
      BY <1>1, <1>2, <2>2 DEF OpenActive, At
    <3> QED
      BY <1>0, <3>1, OutsideUntouched DEF InWindow, disk
  <2> QED
    BY <2>1, <2>2
<1>3. CASE OpenActiveFails(t) \/ RenameActiveFails(t)
  <2>1. UNCHANGED disk /\ task[t].pc \in {"openActive", "renameActive"}
        /\ task[t].phase = "activate"
    BY <1>1, <1>3 DEF OpenActiveFails, RenameActiveFails, At
  <2> QED
    BY <1>0, <2>1, OutsideUntouched DEF InWindow, disk
<1>4. CASE RenameActive(t)
  BY <1>4, RenameActiveEffect DEF Failing
<1>5. CASE SyncActive(t)
  <2>1. UNCHANGED disk /\ task[t].pc = "syncActive" /\ task[t].phase = "restore"
    BY <1>0, <1>5, SyncActiveEffect DEF SyncActive, At, Failing
  <2> QED
    BY <1>0, <2>1, OutsideUntouched DEF InWindow, disk
<1>6. CASE SyncActiveFails(t)
  BY <1>1, <1>6 DEF SyncActiveFails, Failing
<1> QED
  BY <1>2, <1>3, <1>4, <1>5, <1>6 DEF SavesActive

LEMMA ErrorStep ==
    ASSUME Core, FileInv, [Next]_vars, NEW t \in Threads, Returns(t), Failing(t)
    PROVE  Untouched(t)
<1>0. Holding(t) /\ lifecycleLock = t /\ TypeOK
  BY DEF Core, LockInv, Returns
<1>1. task'[t] # task[t]
  BY DEF Returns, At
<1>2. ~Crash
  <2>1. crashes \in Nat
    BY DEF Core, TypeOK
  <2> QED
    BY <2>1 DEF Crash, Returns
<1>3. Calls(t) \/ Proceed(t)
  BY <1>0, <1>1, <1>2, OwnTask DEF Next, vars
<1>4. ~Calls(t) /\ ~AcquireLifecycle(t)
  BY <1>0, CallEffect DEF Holding, At, AcquireLifecycle
<1> QED
  BY <1>3, <1>4, ReadUntouched, SaveStateUntouched, SaveActiveUntouched DEF Proceed

\* A call that returns an error has changed neither the active configuration nor,
\* unless it is a rollback, the pending reference; the exceptions are Recovery
\* and a directory sync that fails after the file was replaced.
THEOREM ErrorsChangeNothing == Spec => ErrorChangesNothing
<1>1. Core /\ FileInv /\ [Next]_vars =>
        [\A t \in Threads :
           Returns(t) /\ task'[t].result \notin {"ok", "recovery"}
                      /\ ~(At(t, "syncActive") /\ task[t].phase = "activate")
              => LET before == task[t].before IN
                 /\ activeFile' = before.file
                 /\ stateFile'.active = before.state.active
                 /\ task[t].op # "rollback" => stateFile' = before.state]_vars
  BY ErrorStep DEF Failing, Untouched, Returns
<1> QED
  BY <1>1, CoreInvariant, FilesInvariant, PTL DEF Spec, ErrorChangesNothing

----------------------------------------------------------------------------
(* Origins: the revision a call works on is a copy of what it was given. *)

\* Only the thread inside the lock knows of a revision.
LEMMA OriginMove ==
    ASSUME LockInv, OriginInv, NEW t \in Threads, Holding(t), Origin(task[t])',
           \A u \in Threads : u # t => task'[u] = task[u]
    PROVE  OriginInv'
<1> SUFFICES ASSUME NEW u \in Threads, u # t
             PROVE  Origin(task[u])'
  BY DEF OriginInv
<1>1. task'[u] = task[u] /\ task[u].pc \in {"idle", "acquire"}
  BY DEF LockInv, Holding
<1> QED
  BY <1>1 DEF OriginInv, Origin, Recording, Activating

LEMMA OriginReturn ==
    ASSUME TypeOK, LockInv, OriginInv, NEW t \in Threads, Holding(t),
           NEW result, Return(t, result)
    PROVE  OriginInv'
<1>1. Origin(task[t])'
  BY ReturnEffect DEF Origin, Recording, Activating
<1> QED
  BY <1>1, ReturnEffect, OriginMove

\* A step inside the lock that neither writes a revision or the state file nor
\* starts on another revision.
LEMMA OriginKept ==
    ASSUME LockInv, OriginInv, NEW t \in Threads, Holding(t), Holding(t)',
           UNCHANGED <<revisions, stateFile>>,
           \A u \in Threads : u # t => task'[u] = task[u],
           LET k == task[t]  l == task'[t] IN
           /\ l.op = k.op /\ l.wanted = k.wanted /\ l.before = k.before
           /\ l.phase = "stage" => k.phase = "stage"
           /\ l.pc \in {"create", "publish"} => k.pc \in {"create", "publish"} /\ l.cand = k.cand
           /\ Recording(l) => Recording(k) /\ l.rev = k.rev
           /\ Activating(l) /\ k.op = "rollback" =>
                 (Recording(k) \/ Activating(k)) /\ l.rev = k.rev
    PROVE  OriginInv'
<1>1. Origin(task[t])
  BY DEF OriginInv
<1>2. Origin(task[t])'
  <2> DEFINE k == task[t]  l == task'[t]
  <2>1. l.pc \notin {"idle", "acquire"} /\ k.pc \notin {"idle", "acquire"}
    BY DEF Holding
  <2>2. Origin(k)
    BY <1>1
  <2>3. l.op = "stage" /\ l.pc \in {"acquire", "create", "publish"} => l.cand = l.wanted
    BY <2>1, <2>2 DEF Origin
  <2>4. l.op = "rollback" /\ l.pc \in {"create", "publish"} =>
          l.wanted \in DOMAIN revisions' /\ l.cand = revisions'[l.wanted]
    BY <2>2 DEF Origin
  <2>5. l.op = "rollback" /\ l.phase = "stage" => stateFile' = l.before.state
    BY <2>1, <2>2 DEF Origin
  <2>6. Recording(l) => \A r \in DOMAIN revisions' : r <= l.rev
    BY <2>2 DEF Origin
  <2>7. Recording(l) /\ l.op = "stage" => revisions'[l.rev] = l.wanted
    BY <2>2 DEF Origin
  <2>8. (Recording(l) \/ Activating(l)) /\ l.op = "rollback" =>
          /\ l.wanted \in DOMAIN revisions' /\ revisions'[l.rev] = revisions'[l.wanted]
          /\ \A r \in References(l.before.state) : r < l.rev
    BY <2>2 DEF Origin
  <2> HIDE DEF l
  <2> QED
    BY <2>3, <2>4, <2>5, <2>6, <2>7, <2>8 DEF Origin, l
<1> QED
  BY <1>2, OriginMove

LEMMA OriginReads ==
    ASSUME Core, OriginInv, NEW t \in Threads, Reads(t)
    PROVE  OriginInv'
<1> USE DEF Core
<1> DEFINE k == task[t]  l == task'[t]
<1>0. Holding(t) /\ UNCHANGED <<revisions, stateFile>> /\ k \in Task /\ Phased(k)
  BY DEF Reads, ReadPending, ReadHistorical, ReadRevision, ReadState, ReadFails, At,
         Holding, TypeOK, disk, PhaseInv
<1>1. ASSUME NEW result, Return(t, result) PROVE OriginInv'
  BY <1>0, <1>1, OriginReturn
<1>2. CASE ReadPending(t)
  <2>1. CASE stateFile.pending = None
    BY <1>1, <1>2, <2>1 DEF ReadPending
  <2>2. CASE stateFile.pending # None
    <3>1. k.pc = "readPending" /\ k.op = "activate"
      BY <1>0, <1>2 DEF ReadPending, At, Phased
    <3>2. l.pc = "readRevision" /\ ~Recording(l) /\ Holding(t)'
      BY <1>2, <2>2, ReadPendingEffect DEF Recording, Holding
    <3> QED
      BY <1>0, <1>2, <2>2, <3>1, <3>2, ReadPendingEffect, OriginKept
  <2> QED
    BY <2>1, <2>2
<1>3. CASE ReadHistorical(t)
  <2>1. CASE task[t].wanted \in DOMAIN revisions
    <3>1. k.pc = "readHistorical" /\ k.op = "rollback" /\ l.pc = "create" /\ Holding(t)'
      BY <1>0, <1>3, <2>1, ReadHistoricalEffect DEF Phased, Holding
    <3>2. Origin(k) /\ k.phase = "stage"
      BY <1>0, <3>1 DEF OriginInv, Phased, StepsOf, Task, Phases
    <3>3. stateFile = k.before.state
      BY <3>1, <3>2 DEF Origin
    <3>4. Origin(task[t])'
      BY <1>0, <1>3, <2>1, <3>1, <3>3, ReadHistoricalEffect DEF Origin, Recording, Activating
    <3> QED
      BY <1>0, <1>3, <2>1, <3>4, ReadHistoricalEffect, OriginMove
  <2>2. CASE task[t].wanted \notin DOMAIN revisions
    BY <1>1, <1>3, <2>2 DEF ReadHistorical
  <2> QED
    BY <2>1, <2>2
<1>4. CASE ReadRevision(t)
  <2>1. k.pc = "readRevision" /\ l.pc = "openActive" /\ Activating(k) /\ ~Recording(l)
        /\ Holding(t)'
    BY <1>4, ReadRevisionEffect DEF Activating, Recording, Holding
  <2> QED
    BY <1>0, <1>4, <2>1, ReadRevisionEffect, OriginKept
<1>5. CASE ReadState(t)
  <2>1. k.pc = "readState" /\ l.pc = "openState" /\ Recording(k) /\ Holding(t)'
    BY <1>5, ReadStateEffect DEF Recording, Holding
  <2>2. k.phase = "stage"
    BY <1>0, <2>1 DEF Phased, StepsOf, Task, Phases
  <2>3. l.phase = "stage" /\ ~Activating(l)
    BY <1>5, <2>1, <2>2, ReadStateEffect DEF Activating
  <2> QED
    BY <1>0, <1>5, <2>1, <2>3, ReadStateEffect, OriginKept
<1>6. CASE ReadFails(t)
  BY <1>1, <1>6 DEF ReadFails
<1> QED
  BY <1>2, <1>3, <1>4, <1>5, <1>6 DEF Reads

LEMMA OriginCreates ==
    ASSUME Core, OriginInv, NEW t \in Threads, Creates(t)
    PROVE  OriginInv'
<1> USE DEF Core
<1> DEFINE k == task[t]  l == task'[t]
<1>0. /\ Holding(t) /\ UNCHANGED stateFile /\ k \in Task /\ Origin(k) /\ Numbers(k)
      /\ k.pc \in {"create", "publish"} /\ k.phase = "stage"
  <2>1. /\ Holding(t) /\ UNCHANGED stateFile /\ k \in Task /\ k.pc \in {"create", "publish"}
    BY DEF Creates, RejectCandidate, RevisionsExhausted, CreateRevision, CreateRevisionFails,
           PublishRevision, PublishRevisionFails, Holding, At, TypeOK, disk
  <2>2. k.phase = "stage"
    BY <2>1 DEF PhaseInv, Phased, StepsOf, Task, Phases
  <2> QED
    BY <2>1, <2>2 DEF OriginInv, NumberInv
<1>1. ASSUME NEW result, Return(t, result) PROVE OriginInv'
  BY <1>0, <1>1, OriginReturn
<1>2. CASE PublishRevision(t)
  <2>1. /\ k.pc = "publish" /\ l.pc = "readState" /\ l.op = k.op /\ l.phase = "stage"
        /\ l.wanted = k.wanted /\ l.rev = k.rev /\ l.before = k.before /\ Holding(t)'
    BY <1>0, <1>2, PublishEffect DEF Holding
  <2>2. Recording(l) /\ ~Activating(l)
    BY <2>1 DEF Recording, Activating
  <2>3. /\ k.rev \in Revisions /\ DOMAIN revisions \subseteq Revisions
        /\ \A r \in DOMAIN revisions : r < k.rev
    BY <1>0, <2>1 DEF Numbers, Publishing, TypeOK
  <2>4. revisions' = [r \in DOMAIN revisions \cup {k.rev} |->
                        IF r = k.rev THEN k.cand ELSE revisions[r]]
    BY <1>2 DEF PublishRevision
  <2>5. \A r \in DOMAIN revisions' : r <= l.rev
    BY <2>1, <2>3, <2>4 DEF Revisions
  <2>6. k.op = "stage" => revisions'[k.rev] = k.wanted
    BY <1>0, <2>1, <2>4 DEF Origin
  <2>7. k.op = "rollback" => /\ k.wanted \in DOMAIN revisions'
                             /\ revisions'[k.rev] = revisions'[k.wanted]
    BY <1>0, <2>1, <2>4 DEF Origin
  <2>8. k.op = "rollback" => /\ stateFile' = k.before.state
                             /\ \A r \in References(k.before.state) : r < k.rev
    BY <1>0, <2>1, <2>3 DEF Origin, StateFileWellFormed
  <2>9. Origin(task[t])'
    BY <2>1, <2>2, <2>5, <2>6, <2>7, <2>8 DEF Origin
  <2> QED
    BY <1>0, <1>2, <2>9, PublishEffect, OriginMove
<1>3. CASE CreateRevision(t)
  <2>0. UNCHANGED revisions
    BY <1>3 DEF CreateRevision, disk
  <2>1. CASE TempName("revision", NextRevision) \in temps
    BY <1>1, <1>3, <2>1 DEF CreateRevision
  <2>2. CASE TempName("revision", NextRevision) \notin temps
    <3>1. l.pc = "publish" /\ ~Recording(l) /\ ~Activating(l) /\ Holding(t)'
      BY <1>3, <2>2, CreateEffect DEF Recording, Activating, Holding
    <3> QED
      BY <1>0, <1>3, <2>0, <2>2, <3>1, CreateEffect, OriginKept
  <2> QED
    BY <2>1, <2>2
<1>4. CASE \/ RejectCandidate(t) \/ RevisionsExhausted(t)
           \/ CreateRevisionFails(t) \/ PublishRevisionFails(t)
  BY <1>1, <1>4 DEF RejectCandidate, RevisionsExhausted, CreateRevisionFails,
                    PublishRevisionFails
<1> QED
  BY <1>2, <1>3, <1>4 DEF Creates

LEMMA OriginStateError ==
    ASSUME Core, OriginInv, NEW t \in Threads,
           task[t].pc \in {"openState", "renameState"},
           StateSaveError(t), UNCHANGED <<revisions, stateFile>>
    PROVE  OriginInv'
<1> USE DEF Core
<1>0. Holding(t) /\ task[t] \in Task /\ Phased(task[t])
  BY DEF Holding, TypeOK, PhaseInv
<1>1. CASE task[t].phase = "stage"
  BY <1>0, <1>1, OriginReturn DEF StateSaveError
<1>2. CASE task[t].phase # "stage"
  <2>1. task[t].phase = "activate"
    BY <1>0, <1>2 DEF Phased, StepsOf, Task, Phases
  <2>2. Activating(task[t]) /\ ~Recording(task'[t]) /\ Holding(t)'
        /\ task'[t].pc = "openActive" /\ task'[t].phase = "restore"
    BY <1>2, <2>1, RestoreEffect DEF Activating, Recording, Holding
  <2> QED
    BY <1>0, <1>2, <2>2, RestoreEffect, OriginKept
<1> QED
  BY <1>1, <1>2

LEMMA OriginSavesState ==
    ASSUME Core, OriginInv, NEW t \in Threads, SavesState(t)
    PROVE  OriginInv'
<1> USE DEF Core
<1> DEFINE k == task[t]  l == task'[t]
<1>0. /\ Holding(t) /\ k \in Task /\ k.pc \in {"openState", "renameState"}
  BY DEF SavesState, OpenState, OpenStateFails, RenameState, RenameStateFails, At, Holding, TypeOK
<1>1. CASE OpenState(t)
  <2>0. UNCHANGED <<revisions, stateFile>>
    BY <1>1 DEF OpenState, disk
  <2>1. CASE TempName("state", None) \in temps
    BY <1>0, <1>1, <2>0, <2>1, OriginStateError DEF OpenState
  <2>2. CASE TempName("state", None) \notin temps
    <3>1. /\ Recording(l) <=> Recording(k)
          /\ Activating(l) <=> Activating(k)
          /\ l.pc = "renameState" /\ Holding(t)'
      BY <1>1, <2>2, OpenStateEffect DEF Recording, Activating, Holding
    <3> QED
      BY <1>0, <1>1, <2>0, <2>2, <3>1, OpenStateEffect, OriginKept
  <2> QED
    BY <2>1, <2>2
<1>2. CASE OpenStateFails(t) \/ RenameStateFails(t)
  BY <1>0, <1>2, OriginStateError DEF OpenStateFails, RenameStateFails, disk
<1>3. CASE RenameState(t)
  <2>1. CASE k.op = "rollback" /\ k.phase = "stage"
    <3>1. /\ k.pc = "renameState" /\ l.pc = "readRevision" /\ l.phase = "activate"
          /\ l.op = "rollback" /\ l.wanted = k.wanted /\ l.rev = k.rev /\ l.before = k.before
          /\ UNCHANGED revisions
      BY <1>3, <2>1, RollbackEffect DEF RenameState
    <3>2. Origin(k) /\ Recording(k)
      BY <2>1, <3>1 DEF OriginInv, Recording
    <3>3. ~Recording(l)
      BY <3>1 DEF Recording
    <3>4. Origin(task[t])'
      BY <2>1, <3>1, <3>2, <3>3 DEF Origin
    <3> QED
      BY <1>0, <1>3, <2>1, <3>4, RollbackEffect, OriginMove
  <2>2. CASE ~(k.op = "rollback" /\ k.phase = "stage")
    BY <1>0, <1>3, <2>2, OriginReturn DEF RenameState
  <2> QED
    BY <2>1, <2>2
<1> QED
  BY <1>1, <1>2, <1>3 DEF SavesState

LEMMA OriginSavesActive ==
    ASSUME Core, OriginInv, NEW t \in Threads, SavesActive(t)
    PROVE  OriginInv'
<1> USE DEF Core
<1> DEFINE k == task[t]  l == task'[t]
<1>0. /\ Holding(t) /\ k \in Task /\ Phased(k)
      /\ k.pc \in {"openActive", "renameActive", "syncActive"}
      /\ UNCHANGED <<revisions, stateFile>>
  BY DEF SavesActive, OpenActive, OpenActiveFails, RenameActive, RenameActiveFails,
         SyncActive, SyncActiveFails, At, disk, Holding, TypeOK, PhaseInv
<1>1. k.phase \in {"activate", "restore"} /\ Activating(k)
  BY <1>0 DEF Phased, StepsOf, Task, Phases, Activating
<1>2. ASSUME ActiveSaveError(t) PROVE OriginInv'
  BY <1>0, <1>2, OriginReturn DEF ActiveSaveError
<1>3. ASSUME l.pc \in {"renameActive", "syncActive", "openState"},
             l.op = k.op, l.wanted = k.wanted, l.before = k.before, l.phase = k.phase,
             l.rev = k.rev, \A u \in Threads : u # t => task'[u] = task[u]
      PROVE  OriginInv'
  <2>1. ~Recording(l) /\ Holding(t)' /\ l.phase # "stage"
    BY <1>1, <1>3 DEF Recording, Holding
  <2> QED
    BY <1>0, <1>1, <1>3, <2>1, OriginKept
<1>4. CASE OpenActive(t)
  BY <1>2, <1>3, <1>4, OpenActiveEffect DEF OpenActive
<1>5. CASE RenameActive(t)
  BY <1>3, <1>5, RenameActiveEffect
<1>6. CASE SyncActive(t)
  <2>1. CASE k.phase = "restore"
    BY <1>0, <1>6, <2>1, OriginReturn DEF SyncActive
  <2>2. CASE k.phase # "restore"
    BY <1>3, <1>6, <2>2, SyncActiveEffect
  <2> QED
    BY <2>1, <2>2
<1>7. CASE OpenActiveFails(t) \/ RenameActiveFails(t) \/ SyncActiveFails(t)
  BY <1>2, <1>7 DEF OpenActiveFails, RenameActiveFails, SyncActiveFails
<1> QED
  BY <1>4, <1>5, <1>6, <1>7 DEF SavesActive

LEMMA OriginStep ==
    ASSUME Core, OriginInv, [Next]_vars
    PROVE  OriginInv'
<1> USE DEF Core
<1>1. ASSUME NEW t \in Threads, Calls(t) PROVE OriginInv'
  <2>1. UNCHANGED <<revisions, stateFile>>
    BY <1>1, CallEffect DEF disk
  <2>2. Origin(task[t])'
    BY <1>1, CallEffect DEF Origin, Recording, Activating
  <2>3. ASSUME NEW u \in Threads, u # t PROVE Origin(task[u])'
    BY <1>1, <2>1, <2>3, CallEffect DEF OriginInv, Origin
  <2> QED
    BY <2>2, <2>3 DEF OriginInv
<1>2. ASSUME NEW t \in Threads, AcquireLifecycle(t) PROVE OriginInv'
  <2>1. UNCHANGED <<revisions, stateFile>> /\ lifecycleLock = None
    BY <1>2 DEF AcquireLifecycle, disk
  <2>2. Origin(task[t]) /\ task[t] \in Task
    BY DEF OriginInv, TypeOK
  <2>3. Origin(task[t])'
    BY <1>2, <2>1, <2>2, AcquireEffect DEF Origin, Recording, Activating, FirstStep, Task
  <2>4. ASSUME NEW u \in Threads, u # t PROVE Origin(task[u])'
    BY <1>2, <2>1, <2>4, AcquireEffect DEF OriginInv, Origin
  <2> QED
    BY <2>3, <2>4 DEF OriginInv
<1>3. CASE Crash
  <2>1. ASSUME NEW t \in Threads PROVE task'[t].pc = "idle"
    BY <1>3, <2>1, IdleTask DEF Crash
  <2> QED
    BY <2>1 DEF OriginInv, Origin, Recording, Activating
<1>4. CASE UNCHANGED vars
  BY <1>4 DEF vars, disk, OriginInv, Origin
<1> QED
  BY <1>1, <1>2, <1>3, <1>4, OriginReads, OriginCreates, OriginSavesState, OriginSavesActive
  DEF Next, Proceed

LEMMA OriginsInvariant == Spec => []OriginInv
<1>1. Init => OriginInv
  <2>1. ASSUME Init, NEW t \in Threads PROVE task[t].pc = "idle"
    BY <2>1, IdleTask DEF Init
  <2> QED
    BY <2>1 DEF OriginInv, Origin, Recording, Activating
<1>2. Core /\ OriginInv /\ [Next]_vars => OriginInv'
  BY OriginStep
<1> QED
  BY <1>1, <1>2, CoreInvariant, PTL DEF Spec

----------------------------------------------------------------------------
(* What Ok means. *)

\* Only the replacement of the state file ends a call in Ok.
LEMMA OkEnds ==
    ASSUME Core, NEW t \in Threads, Proceed(t), Holding(t),
           task'[t].pc = "idle", task'[t].result = "ok"
    PROVE  RenameState(t) /\ ~(task[t].op = "rollback" /\ task[t].phase = "stage")
<1> USE DEF Core
<1>1. ASSUME NEW result, Return(t, result) PROVE result = "ok"
  BY <1>1, TaskChange, IdleTask DEF Return
<1>2. ~AcquireLifecycle(t)
  BY DEF AcquireLifecycle, At, Holding
<1>3. ~Reads(t)
  BY <1>1, ReadPendingEffect, ReadHistoricalEffect, ReadRevisionEffect, ReadStateEffect
  DEF Reads, ReadPending, ReadHistorical, ReadFails, ReadError
<1>4. ~Creates(t)
  BY <1>1, PublishEffect, CreateEffect
  DEF Creates, RejectCandidate, RevisionsExhausted, CreateRevision, CreateRevisionFails,
      PublishRevisionFails
<1>5. ~StateSaveError(t)
  <2>1. CASE task[t].phase = "stage"
    BY <1>1, <2>1 DEF StateSaveError
  <2>2. CASE task[t].phase # "stage"
    BY <2>2, RestoreEffect
  <2> QED
    BY <2>1, <2>2
<1>6. ~OpenState(t) /\ ~OpenStateFails(t) /\ ~RenameStateFails(t)
  BY <1>5, OpenStateEffect DEF OpenState, OpenStateFails, RenameStateFails
<1>7. ~SavesActive(t)
  <2>1. ~ActiveSaveError(t)
    BY <1>1 DEF ActiveSaveError
  <2>2. ~OpenActive(t) /\ ~OpenActiveFails(t) /\ ~RenameActiveFails(t) /\ ~SyncActiveFails(t)
    BY <2>1, OpenActiveEffect DEF OpenActive, OpenActiveFails, RenameActiveFails, SyncActiveFails
  <2>3. ~RenameActive(t)
    BY RenameActiveEffect
  <2>4. ~SyncActive(t)
    BY <1>1, SyncActiveEffect DEF SyncActive
  <2> QED
    BY <2>2, <2>3, <2>4 DEF SavesActive
<1>8. RenameState(t)
  BY <1>2, <1>3, <1>4, <1>6, <1>7 DEF Proceed, SavesState
<1> QED
  BY <1>8, RollbackEffect

LEMMA OkAchieves ==
    ASSUME Core, FileInv, OriginInv, NEW t \in Threads, RenameState(t),
           ~(task[t].op = "rollback" /\ task[t].phase = "stage")
    PROVE  Achieved(t)
<1> USE DEF Core
<1> DEFINE k == task[t]
<1>0. /\ k.pc = "renameState" /\ k \in Task /\ Phased(k) /\ Files(k) /\ Numbers(k) /\ Origin(k)
      /\ stateFile' = k.st /\ UNCHANGED <<activeFile, revisions>>
  BY DEF RenameState, At, TypeOK, PhaseInv, FileInv, Holding, NumberInv, OriginInv
<1>1. k.phase \in {"stage", "activate"} /\ k.op \in {"stage", "activate", "rollback"}
  BY <1>0 DEF Phased, StepsOf, Task, Phases
<1>2. CASE k.phase = "stage"
  <2>1. k.op = "stage"
    BY <1>0, <1>1, <1>2 DEF Phased
  <2>2. Recording(k) /\ Staging(k)
    BY <1>0, <1>2 DEF Recording, Staging
  <2>3. k.st = [stateFile EXCEPT !.pending = k.rev] /\ stateFile = k.before.state
        /\ activeFile = k.before.file
    BY <1>0, <2>1, <2>2 DEF Numbers, Files
  <2>4. revisions[k.rev] = k.wanted
    BY <1>0, <2>1, <2>2 DEF Origin
  <2> QED
    BY <1>0, <2>1, <2>3, <2>4 DEF Achieved
<1>3. CASE k.phase = "activate"
  <2>1. Activating(k) /\ ~Staging(k) /\ InWindow(k)
    BY <1>0, <1>3 DEF Activating, Staging, InWindow
  <2>2. /\ k.st = [active |-> k.rev, pending |-> None] /\ stateFile.pending = k.rev
        /\ activeFile = revisions[k.rev]
    BY <1>0, <2>1 DEF Numbers, Files
  <2>3. CASE k.op = "activate"
    BY <1>0, <2>2, <2>3 DEF Achieved, Files
  <2>4. CASE k.op = "rollback"
    BY <1>0, <2>1, <2>2, <2>4 DEF Achieved, Origin
  <2>5. k.op # "stage"
    BY <1>0, <1>3 DEF Phased
  <2> QED
    BY <1>1, <2>3, <2>4, <2>5
<1> QED
  BY <1>1, <1>2, <1>3

LEMMA OkStep ==
    ASSUME Core, FileInv, OriginInv, [Next]_vars, NEW t \in Threads, Returns(t),
           task'[t].result = "ok"
    PROVE  Achieved(t)
<1>0. Holding(t) /\ lifecycleLock = t /\ TypeOK
  BY DEF Core, LockInv, Returns
<1>1. task'[t] # task[t]
  BY DEF Returns, At
<1>2. ~Crash
  <2>1. crashes \in Nat
    BY DEF Core, TypeOK
  <2> QED
    BY <2>1 DEF Crash, Returns
<1>3. Calls(t) \/ Proceed(t)
  BY <1>0, <1>1, <1>2, OwnTask DEF Next, vars
<1>4. ~Calls(t)
  BY <1>0, CallEffect DEF Holding, At
<1> QED
  BY <1>0, <1>3, <1>4, OkEnds, OkAchieves DEF Returns

\* A call that returns Ok has done what it is for: staging recorded its candidate,
\* activation installed what was pending, rollback a copy of the wanted revision
\* (OkMeansDone).
THEOREM OkIsDone == Spec => OkMeansDone
<1>1. Core /\ FileInv /\ OriginInv /\ [Next]_vars =>
        [\A t \in Threads : Returns(t) /\ task'[t].result = "ok" => Achieved(t)]_vars
  BY OkStep
<1> QED
  BY <1>1, CoreInvariant, FilesInvariant, OriginsInvariant, PTL DEF Spec, OkMeansDone

----------------------------------------------------------------------------
(* The registry the lifecycle implements, step by step. *)

\* At most one call is in the window, and it is the one inside the lock.
LEMMA OneInWindow ==
    ASSUME NEW tasks, NEW t \in Threads, NEW file,
           \A u \in Threads : u # t => ~InWindow(tasks[u])
    PROVE  (IF \E u \in Threads : InWindow(tasks[u])
            THEN tasks[CHOOSE u \in Threads : InWindow(tasks[u])].prev ELSE file)
           = IF InWindow(tasks[t]) THEN tasks[t].prev ELSE file
<1>1. CASE InWindow(tasks[t])
  <2>1. \A u \in Threads : InWindow(tasks[u]) <=> u = t
    BY <1>1
  <2>2. (CHOOSE u \in Threads : InWindow(tasks[u])) = t
    BY <2>1
  <2> QED
    BY <1>1, <2>2
<1>2. CASE ~InWindow(tasks[t])
  BY <1>2
<1> QED
  BY <1>1, <1>2

LEMMA CurrentInside ==
    ASSUME LockInv, NEW t \in Threads, Holding(t),
           \A u \in Threads : u # t => task'[u] = task[u]
    PROVE  /\ Current = IF InWindow(task[t]) THEN task[t].prev ELSE activeFile
           /\ Current' = IF InWindow(task'[t]) THEN task'[t].prev ELSE activeFile'
<1>1. \A u \in Threads : u # t => ~InWindow(task[u])
  BY DEF LockInv, Holding, InWindow
<1>2. \A u \in Threads : u # t => ~InWindow(task'[u])
  BY <1>1
<1>3. Current = IF InWindow(task[t]) THEN task[t].prev ELSE activeFile
  BY <1>1, OneInWindow DEF Current
<1>4. Current' = IF InWindow(task'[t]) THEN task'[t].prev ELSE activeFile'
  BY <1>2, OneInWindow DEF Current
<1> QED
  BY <1>3, <1>4

RegistryStep == [Registry!Next]_Registry!vars

\* The window closes without the state file: the activation has slipped.
LEMMA WindowSlips ==
    ASSUME Core, FileInv, NEW t \in Threads, InWindow(task[t]), UNCHANGED disk,
           Current' = activeFile
    PROVE  RegistryStep
<1> DEFINE k == task[t]
<1>1. Holding(t) /\ Numbers(k) /\ Activating(k) /\ ~Staging(k)
  BY DEF Core, NumberInv, Holding, InWindow, Activating, Staging
<1>2. stateFile.pending = k.rev /\ k.rev \in DOMAIN revisions /\ activeFile = revisions[k.rev]
  BY <1>1 DEF Numbers, FileInv, Files
<1>3. Registry!Slip
  BY <1>2 DEF Registry!Slip, disk
<1> QED
  BY <1>3 DEF RegistryStep, Registry!Next

\* A step that changes no file opens no window.
LEMMA NoFileStep ==
    ASSUME Core, FileInv, NEW t \in Threads, Holding(t), UNCHANGED disk,
           \A u \in Threads : u # t => task'[u] = task[u],
           InWindow(task'[t]) => InWindow(task[t]) /\ task'[t].prev = task[t].prev
    PROVE  RegistryStep
<1>1. /\ Current = IF InWindow(task[t]) THEN task[t].prev ELSE activeFile
      /\ Current' = IF InWindow(task'[t]) THEN task'[t].prev ELSE activeFile'
  BY CurrentInside DEF Core
<1>2. CASE InWindow(task[t]) /\ ~InWindow(task'[t])
  BY <1>1, <1>2, WindowSlips DEF disk
<1>3. CASE ~(InWindow(task[t]) /\ ~InWindow(task'[t]))
  <2>1. Current' = Current
    BY <1>1, <1>3 DEF disk
  <2> QED
    BY <2>1 DEF RegistryStep, Registry!vars, disk
<1> QED
  BY <1>2, <1>3

LEMMA ReadsRefine ==
    ASSUME Core, FileInv, NEW t \in Threads, Reads(t)
    PROVE  RegistryStep
<1> USE DEF Core
<1>0. /\ Holding(t) /\ UNCHANGED disk /\ task[t] \in Task /\ Phased(task[t])
      /\ \A u \in Threads : u # t => task'[u] = task[u]
  BY OwnTask DEF Reads, ReadPending, ReadHistorical, ReadRevision, ReadState, ReadFails, At,
         Holding, TypeOK, PhaseInv, Proceed
<1>1. ASSUME NEW result, Return(t, result) PROVE ~InWindow(task'[t])
  BY <1>1, ReturnEffect DEF InWindow
<1>2. ReadPending(t) => ~InWindow(task'[t])
  BY <1>1, ReadPendingEffect DEF ReadPending, InWindow
<1>3. ReadHistorical(t) => ~InWindow(task'[t])
  BY <1>1, ReadHistoricalEffect DEF ReadHistorical, InWindow
<1>4. ReadRevision(t) => ~InWindow(task'[t])
  <2>1. ASSUME ReadRevision(t) PROVE ~InWindow(task'[t])
    <3>1. task[t].phase = "activate" /\ task'[t].phase = "activate" /\ task'[t].pc = "openActive"
      BY <1>0, <2>1, ReadRevisionEffect DEF Phased, StepsOf, Task, Phases
    <3> QED
      BY <3>1 DEF InWindow
  <2> QED
    BY <2>1
<1>5. ReadState(t) => ~InWindow(task'[t])
  <2>1. ASSUME ReadState(t) PROVE ~InWindow(task'[t])
    <3>1. task[t].phase = "stage" /\ task'[t].phase = "stage"
      BY <1>0, <2>1, ReadStateEffect DEF Phased, StepsOf, Task, Phases
    <3> QED
      BY <3>1 DEF InWindow
  <2> QED
    BY <2>1
<1>6. ReadFails(t) => ~InWindow(task'[t])
  BY <1>1 DEF ReadFails
<1> QED
  BY <1>0, <1>2, <1>3, <1>4, <1>5, <1>6, NoFileStep DEF Reads

\* Publishing a revision records it, as the newest.
LEMMA CreatesRefine ==
    ASSUME Core, FileInv, NEW t \in Threads, Creates(t)
    PROVE  RegistryStep
<1> USE DEF Core
<1>0. /\ Holding(t) /\ task[t] \in Task /\ ~InWindow(task[t])
      /\ \A u \in Threads : u # t => task'[u] = task[u]
  BY OwnTask DEF Creates, RejectCandidate, RevisionsExhausted, CreateRevision,
         CreateRevisionFails, PublishRevision, PublishRevisionFails, Holding, At,
         TypeOK, Proceed, InWindow
<1>1. ASSUME NEW result, Return(t, result), UNCHANGED disk PROVE RegistryStep
  <2>1. ~InWindow(task'[t])
    BY <1>1, ReturnEffect DEF InWindow
  <2> QED
    BY <1>0, <1>1, <2>1, NoFileStep
<1>2. CASE PublishRevision(t)
  <2> DEFINE k == task[t]
  <2>1. k.pc = "publish" /\ Numbers(k) /\ task'[t].pc = "readState" /\ k.rev \notin DOMAIN revisions
    BY <1>2, PublishEffect DEF NumberInv, PublishRevision
  <2>2. /\ k.cand \in ValidConfigs /\ k.rev \in 1..MaxRevision
        /\ \A r \in DOMAIN revisions : r < k.rev
        /\ DOMAIN revisions \subseteq 1..MaxRevision
    BY <2>1 DEF Numbers, Publishing, Revisions, TypeOK
  <2>3. ~InWindow(task'[t])
    BY <2>1 DEF InWindow
  <2>4. Current' = Current
    BY <1>0, <1>2, <2>3, CurrentInside DEF PublishRevision
  <2>5. Registry!Newest(k.rev)
    BY <2>2, BoundAssumption DEF Registry!Newest
  <2>6. Registry!Record(k.rev, k.cand)
    BY <1>2, <2>1, <2>4, <2>5 DEF Registry!Record, PublishRevision
  <2> QED
    BY <2>2, <2>6 DEF RegistryStep, Registry!Next
<1>3. CASE CreateRevision(t)
  <2>0. UNCHANGED disk
    BY <1>3 DEF CreateRevision
  <2>1. CASE TempName("revision", NextRevision) \in temps
    BY <1>1, <1>3, <2>0, <2>1 DEF CreateRevision
  <2>2. CASE TempName("revision", NextRevision) \notin temps
    <3>1. ~InWindow(task'[t])
      BY <1>3, <2>2, CreateEffect DEF InWindow
    <3> QED
      BY <1>0, <2>0, <3>1, NoFileStep
  <2> QED
    BY <2>1, <2>2
<1>4. CASE \/ RejectCandidate(t) \/ RevisionsExhausted(t)
           \/ CreateRevisionFails(t) \/ PublishRevisionFails(t)
  BY <1>1, <1>4 DEF RejectCandidate, RevisionsExhausted, CreateRevisionFails,
                    PublishRevisionFails
<1> QED
  BY <1>2, <1>3, <1>4 DEF Creates

\* An error of the state store ends staging; an activation stays in the window, to
\* put the previous configuration back.
LEMMA StateErrorRefines ==
    ASSUME Core, FileInv, NEW t \in Threads,
           task[t].pc \in {"openState", "renameState"},
           StateSaveError(t), UNCHANGED disk
    PROVE  RegistryStep
<1> USE DEF Core
<1>0. Holding(t) /\ task[t] \in Task /\ Phased(task[t])
  BY DEF Holding, TypeOK, PhaseInv
<1>1. CASE task[t].phase = "stage"
  <2>1. /\ ~InWindow(task'[t])
        /\ \A u \in Threads : u # t => task'[u] = task[u]
    BY <1>1, ReturnEffect DEF StateSaveError, InWindow
  <2> QED
    BY <1>0, <2>1, NoFileStep
<1>2. CASE task[t].phase # "stage"
  <2>1. task[t].phase = "activate"
    BY <1>0, <1>2 DEF Phased, StepsOf, Task, Phases
  <2>2. InWindow(task[t])
    BY <2>1 DEF InWindow
  <2> QED
    BY <1>0, <1>2, <2>2, RestoreEffect, NoFileStep
<1> QED
  BY <1>1, <1>2

\* Replacing the state file marks the newest revision as pending, or records the
\* activation that the active file is ahead with.
LEMMA SavesStateRefine ==
    ASSUME Core, FileInv, OriginInv, NEW t \in Threads, SavesState(t)
    PROVE  RegistryStep
<1> USE DEF Core
<1> DEFINE k == task[t]  l == task'[t]
<1>0. /\ Holding(t) /\ k \in Task /\ Phased(k) /\ k.pc \in {"openState", "renameState"}
      /\ \A u \in Threads : u # t => task'[u] = task[u]
  BY OwnTask DEF SavesState, OpenState, OpenStateFails, RenameState, RenameStateFails, At,
                 Holding, TypeOK, PhaseInv, Proceed
<1>1. CASE OpenState(t)
  <2>0. UNCHANGED disk
    BY <1>1 DEF OpenState
  <2>1. CASE TempName("state", None) \in temps
    BY <1>0, <1>1, <2>0, <2>1, StateErrorRefines DEF OpenState
  <2>2. CASE TempName("state", None) \notin temps
    <3>1. InWindow(l) => InWindow(k) /\ l.prev = k.prev
      BY <1>1, <2>2, OpenStateEffect DEF InWindow
    <3> QED
      BY <1>0, <2>0, <3>1, NoFileStep
  <2> QED
    BY <2>1, <2>2
<1>2. CASE OpenStateFails(t) \/ RenameStateFails(t)
  BY <1>0, <1>2, StateErrorRefines DEF OpenStateFails, RenameStateFails
<1>3. CASE RenameState(t)
  <2>0. /\ k.pc = "renameState" /\ stateFile' = k.st /\ UNCHANGED <<activeFile, revisions>>
        /\ stateFile \in RevisionState /\ Numbers(k) /\ Origin(k)
    BY <1>3 DEF RenameState, At, TypeOK, NumberInv, OriginInv
  <2>1. ~InWindow(l)
    <3>1. CASE k.op = "rollback" /\ k.phase = "stage"
      BY <1>3, <3>1, RollbackEffect DEF InWindow
    <3>2. CASE ~(k.op = "rollback" /\ k.phase = "stage")
      BY <1>3, <3>2, ReturnEffect DEF RenameState, InWindow
    <3> QED
      BY <3>1, <3>2
  <2>2. /\ Current = IF InWindow(k) THEN k.prev ELSE activeFile
        /\ Current' = activeFile
    BY <1>0, <2>0, <2>1, CurrentInside
  <2>3. CASE k.phase = "stage"
    <3>1. ~InWindow(k) /\ Recording(k)
      BY <2>0, <2>3 DEF InWindow, Recording
    <3>2. /\ k.st = [stateFile EXCEPT !.pending = k.rev] /\ k.rev \in DOMAIN revisions
          /\ \A r \in DOMAIN revisions : r <= k.rev
      BY <2>0, <3>1 DEF Numbers, Origin
    <3>3. stateFile'.active = stateFile.active /\ stateFile'.pending = k.rev
      BY <2>0, <3>2 DEF RevisionState
    <3>4. Registry!MarkPending(k.rev)
      BY <2>0, <2>2, <3>1, <3>2, <3>3 DEF Registry!MarkPending, Registry!Newest
    <3> QED
      BY <3>2, <3>4 DEF RegistryStep, Registry!Next
  <2>4. CASE k.phase # "stage"
    <3>1. k.phase = "activate"
      BY <1>0, <2>0, <2>4 DEF Phased, StepsOf, Task, Phases
    <3>2. Activating(k) /\ InWindow(k) /\ ~Staging(k)
      BY <2>0, <3>1 DEF Activating, InWindow, Staging
    <3>3. /\ k.st = [active |-> k.rev, pending |-> None] /\ k.rev \in DOMAIN revisions
          /\ stateFile.pending = k.rev
      BY <2>0, <3>2 DEF Numbers
    <3>4. activeFile = revisions[k.rev]
      BY <1>0, <3>2 DEF FileInv, Files
    <3>5. Registry!Activate
      BY <2>0, <2>2, <3>3, <3>4 DEF Registry!Activate
    <3> QED
      BY <3>5 DEF RegistryStep, Registry!Next
  <2> QED
    BY <2>3, <2>4
<1> QED
  BY <1>1, <1>2, <1>3 DEF SavesState

\* Replacing the active file shows nothing: the window opens before the candidate, and
\* closes with what was there before.
LEMMA SavesActiveRefine ==
    ASSUME Core, FileInv, NEW t \in Threads, SavesActive(t)
    PROVE  RegistryStep
<1> USE DEF Core
<1> DEFINE k == task[t]  l == task'[t]
<1>0. /\ Holding(t) /\ k \in Task /\ Phased(k)
      /\ k.pc \in {"openActive", "renameActive", "syncActive"}
      /\ \A u \in Threads : u # t => task'[u] = task[u]
  BY OwnTask DEF SavesActive, OpenActive, OpenActiveFails, RenameActive, RenameActiveFails,
                 SyncActive, SyncActiveFails, At, Holding, TypeOK, PhaseInv, Proceed
<1>1. k.phase \in {"activate", "restore"}
  BY <1>0 DEF Phased, StepsOf, Task, Phases
<1>2. ASSUME NEW result, Return(t, result), UNCHANGED disk PROVE RegistryStep
  <2>1. ~InWindow(l)
    BY <1>2, ReturnEffect DEF InWindow
  <2> QED
    BY <1>0, <1>2, <2>1, NoFileStep
<1>3. CASE OpenActive(t)
  <2>0. UNCHANGED disk
    BY <1>3 DEF OpenActive
  <2>1. CASE TempName("active", None) \in temps
    BY <1>2, <1>3, <2>0, <2>1 DEF OpenActive, ActiveSaveError
  <2>2. CASE TempName("active", None) \notin temps
    <3>1. InWindow(l) => InWindow(k) /\ l.prev = k.prev
      BY <1>3, <2>2, OpenActiveEffect DEF InWindow
    <3> QED
      BY <1>0, <2>0, <3>1, NoFileStep
  <2> QED
    BY <2>1, <2>2
<1>4. CASE RenameActive(t)
  <2>1. /\ k.pc = "renameActive" /\ l.pc = "syncActive" /\ l.phase = k.phase /\ l.prev = k.prev
        /\ UNCHANGED <<revisions, stateFile>>
        /\ activeFile' = IF k.phase = "restore" THEN k.prev ELSE k.cand
    BY <1>4, RenameActiveEffect DEF RenameActive, Target
  <2>2. /\ InWindow(k) <=> k.phase = "restore"
        /\ InWindow(l) <=> k.phase = "activate"
    BY <1>1, <2>1 DEF InWindow
  <2>3. ~InWindow(k) => activeFile = k.prev
    <3>1. ~Staging(k)
      BY <1>1, <2>1 DEF Staging
    <3> QED
      BY <1>0, <3>1 DEF FileInv, Files
  <2>4. /\ Current = IF InWindow(k) THEN k.prev ELSE activeFile
        /\ Current' = IF InWindow(l) THEN l.prev ELSE activeFile'
    BY <1>0, CurrentInside
  <2>5. Current' = Current
    BY <1>1, <2>1, <2>2, <2>3, <2>4
  <2> QED
    BY <2>1, <2>5 DEF RegistryStep, Registry!vars
<1>5. CASE SyncActive(t)
  <2>0. UNCHANGED disk /\ k.pc = "syncActive"
    BY <1>5 DEF SyncActive, At
  <2>1. CASE k.phase = "restore"
    BY <1>2, <1>5, <2>0, <2>1 DEF SyncActive
  <2>2. CASE k.phase # "restore"
    <3>1. InWindow(k) /\ l.prev = k.prev
      BY <1>1, <1>5, <2>0, <2>2, SyncActiveEffect DEF InWindow
    <3> QED
      BY <1>0, <2>0, <3>1, NoFileStep
  <2> QED
    BY <2>1, <2>2
<1>6. CASE OpenActiveFails(t) \/ RenameActiveFails(t) \/ SyncActiveFails(t)
  BY <1>2, <1>6 DEF OpenActiveFails, RenameActiveFails, SyncActiveFails, ActiveSaveError
<1> QED
  BY <1>3, <1>4, <1>5, <1>6 DEF SavesActive

\* Outside the lock, and when the process dies.
LEMMA OutsideRefines ==
    ASSUME Core, FileInv, \/ Crash \/ UNCHANGED vars
                         \/ \E t \in Threads : Calls(t) \/ AcquireLifecycle(t)
    PROVE  RegistryStep
<1> USE DEF Core
<1>1. CASE Crash
  <2>1. \A t \in Threads : ~InWindow(task'[t])
    BY <1>1, IdleTask DEF Crash, InWindow
  <2>2. Current' = activeFile /\ UNCHANGED disk
    BY <1>1, <2>1 DEF Crash, Current, disk
  <2>3. CASE \E t \in Threads : InWindow(task[t])
    BY <2>2, <2>3, WindowSlips
  <2>4. CASE ~ \E t \in Threads : InWindow(task[t])
    <3>1. Current = activeFile
      BY <2>4 DEF Current
    <3> QED
      BY <2>2, <3>1 DEF RegistryStep, Registry!vars, disk
  <2> QED
    BY <2>3, <2>4
<1>2. CASE UNCHANGED vars
  BY <1>2 DEF RegistryStep, Registry!vars, vars, disk, Current
<1>3. ASSUME NEW t \in Threads, Calls(t) \/ AcquireLifecycle(t) PROVE RegistryStep
  <2>1. /\ UNCHANGED disk
        /\ \A u \in Threads : u # t => task'[u] = task[u]
        /\ ~InWindow(task[t])
    BY <1>3, CallEffect, AcquireEffect DEF AcquireLifecycle, At, InWindow
  <2>2. ~InWindow(task'[t])
    <3>1. CASE Calls(t)
      BY <3>1, CallEffect DEF InWindow
    <3>2. CASE AcquireLifecycle(t)
      <4>1. task[t].op \in {"stage", "activate", "rollback"}
        BY DEF TypeOK, Task
      <4> QED
        BY <3>2, <4>1, AcquireEffect DEF InWindow, FirstStep
    <3> QED
      BY <1>3, <3>1, <3>2
  <2>3. \A u \in Threads : u # t => task'[u] = task[u]
    BY <2>1
  <2>4. \/ Current' = Current
        \/ \E u \in Threads : InWindow(task[u])
    BY <2>1, <2>2 DEF Current, disk
  <2>5. ASSUME NEW u \in Threads, InWindow(task[u]) PROVE Current' = Current
    <3>1. u # t /\ Holding(u) /\ task'[u] = task[u]
      BY <2>1, <2>5 DEF Holding, InWindow
    <3>2. \A v \in Threads : v # u => ~InWindow(task[v])
      BY <3>1 DEF LockInv, Holding, InWindow
    <3>3. \A v \in Threads : v # u => ~InWindow(task'[v])
      BY <2>1, <2>2, <3>2
    <3>4. Current = task[u].prev
      BY <2>5, <3>2, OneInWindow DEF Current
    <3>5. Current' = task'[u].prev
      BY <2>5, <3>1, <3>3, OneInWindow DEF Current
    <3> QED
      BY <3>1, <3>4, <3>5
  <2> QED
    BY <2>1, <2>4, <2>5 DEF RegistryStep, Registry!vars, disk
<1> QED
  BY <1>1, <1>2, <1>3

LEMMA LifecycleStep ==
    ASSUME Core, FileInv, OriginInv, [Next]_vars
    PROVE  RegistryStep
BY OutsideRefines, ReadsRefine, CreatesRefine, SavesStateRefine, SavesActiveRefine
DEF Next, Proceed

\* Every step of the lifecycle is a step of the registry or none: whatever the
\* threads, crashes and errors, history only grows, only the newest revision becomes
\* pending, and an activation is one step or a recorded slip (ImplementsRegistry).
THEOREM RegistryImplemented == Spec => ImplementsRegistry
<1>1. Init => Registry!Init
  <2> SUFFICES ASSUME Init PROVE Registry!Init
    OBVIOUS
  <2>1. \A t \in Threads : ~InWindow(task[t])
    BY IdleTask DEF Init, InWindow
  <2>2. Current = InitialConfig
    BY <2>1 DEF Init, Current
  <2> QED
    BY <2>2 DEF Init, Registry!Init, NoReferences
<1>2. Core /\ FileInv /\ OriginInv /\ [Next]_vars => [Registry!Next]_Registry!vars
  BY LifecycleStep DEF RegistryStep
<1> QED
  BY <1>1, <1>2, CoreInvariant, FilesInvariant, OriginsInvariant, PTL
  DEF Spec, ImplementsRegistry, Registry!Spec

----------------------------------------------------------------------------
(* Temporary names: a process is refused once for each that was left behind. *)

\* Only the call inside the lock uses a name.
LEMMA OneInUse ==
    ASSUME LockInv, NEW t \in Threads, Holding(t),
           \A u \in Threads : u # t => task'[u] = task[u]
    PROVE  /\ InUse = IF Using(task[t]) THEN 1 ELSE 0
           /\ InUse' = IF Using(task'[t]) THEN 1 ELSE 0
<1>1. \A u \in Threads : u # t => ~Using(task[u]) /\ ~Using(task'[u])
  BY DEF LockInv, Holding, Using
<1> QED
  BY <1>1 DEF InUse

LEMMA Counts ==
    ASSUME TypeOK, NameInv
    PROVE  /\ Cardinality(temps) \in Nat /\ IsFiniteSet(ToMeet) /\ Cardinality(ToMeet) \in Nat
           /\ Cardinality(ToMeet) <= Cardinality(temps)
           /\ crashes \in Nat /\ faults \in Nat /\ refused \in Nat
<1>1. IsFiniteSet(temps) /\ ToMeet \in SUBSET temps
  BY DEF NameInv, ToMeet
<1> QED
  BY <1>1, FS_Subset, FS_CardinalityType DEF TypeOK

\* New names carry numbers the counters have passed.
LEMMA NoneMoreToMeet ==
    ASSUME TypeOK, sequence' \in [Stores -> Nat],
           \A store \in Stores : sequence[store] <= sequence'[store], NEW n,
           \A x \in temps' : x \in temps \/ (x = n /\ n.seq < sequence'[n.store] /\ n \in TempNames)
    PROVE  ToMeet' \subseteq ToMeet
<1> SUFFICES ASSUME NEW x \in ToMeet' PROVE x \in ToMeet
  OBVIOUS
<1>1. x \in temps' /\ x.seq >= sequence'[x.store]
  BY DEF ToMeet
<1>2. x \in temps \/ (x = n /\ n.seq < sequence'[n.store] /\ n \in TempNames)
  BY <1>1
<1>3. x \in TempNames
  BY <1>2 DEF TypeOK
<1>4. x.seq \in Nat /\ x.store \in Stores
  BY <1>3 DEF TempNames
<1>5. sequence[x.store] \in Nat /\ sequence'[x.store] \in Nat /\ sequence[x.store] <= sequence'[x.store]
  BY <1>4 DEF TypeOK
<1>6. x \in temps
  BY <1>1, <1>2, <1>4, <1>5
<1> QED
  BY <1>1, <1>4, <1>5, <1>6 DEF ToMeet

\* A step inside the lock after which the call uses no name: what is left behind is
\* paid for with an error.
LEMMA NamesLeft ==
    ASSUME TypeOK, LockInv, NameInv, NEW t \in Threads, Holding(t),
           \A u \in Threads : u # t => task'[u] = task[u],
           ~Using(task'[t]), sequence' \in [Stores -> Nat],
           \A store \in Stores : sequence[store] <= sequence'[store], NEW n,
           \A x \in temps' : x \in temps \/ (x = n /\ n.seq < sequence'[n.store] /\ n \in TempNames),
           UNCHANGED <<crashes, refused>>,
           \/ faults' = faults + 1 /\ (temps' \subseteq temps \/ ~Using(task[t]))
           \/ faults' = faults /\ temps' \subseteq temps /\ ~Using(task[t])
           \/ faults' = faults /\ temps' = temps \ {task[t].temp} /\ Using(task[t])
    PROVE  NameInv'
<1>1. /\ InUse = (IF Using(task[t]) THEN 1 ELSE 0) /\ InUse' = 0
      /\ \A u \in Threads : ~Using(task'[u])
  BY OneInUse DEF LockInv, Holding, Using
<1>2. ToMeet' \subseteq ToMeet
  BY NoneMoreToMeet
<1>3. /\ IsFiniteSet(temps) /\ Cardinality(temps) <= crashes + faults + InUse
      /\ refused + Cardinality(ToMeet) <= crashes + faults
  BY DEF NameInv
<1>4. /\ Cardinality(temps) \in Nat /\ IsFiniteSet(ToMeet) /\ Cardinality(ToMeet) \in Nat
      /\ crashes \in Nat /\ faults \in Nat /\ refused \in Nat
  BY Counts
<1>5. IsFiniteSet(ToMeet') /\ Cardinality(ToMeet') <= Cardinality(ToMeet)
      /\ Cardinality(ToMeet') \in Nat
  BY <1>2, <1>4, FS_Subset, FS_CardinalityType
<1>6. refused' + Cardinality(ToMeet') <= crashes' + faults'
  BY <1>3, <1>4, <1>5
<1>7. IsFiniteSet(temps') /\ Cardinality(temps') <= Cardinality(temps) + 1
      /\ Cardinality(temps') \in Nat
  <2>1. temps' \subseteq temps \cup {n}
    OBVIOUS
  <2>2. IsFiniteSet(temps \cup {n}) /\ Cardinality(temps \cup {n}) <= Cardinality(temps) + 1
        /\ Cardinality(temps \cup {n}) \in Nat
    <3>1. /\ IsFiniteSet(temps \cup {n})
          /\ Cardinality(temps \cup {n}) = IF n \in temps THEN Cardinality(temps)
                                           ELSE Cardinality(temps) + 1
      BY <1>3, FS_AddElement
    <3> QED
      BY <1>4, <3>1
  <2>3. IsFiniteSet(temps') /\ Cardinality(temps') <= Cardinality(temps \cup {n})
        /\ Cardinality(temps') \in Nat
    BY <2>1, <2>2, FS_Subset, FS_CardinalityType
  <2> QED
    BY <1>4, <2>2, <2>3
<1>8. temps' \subseteq temps => Cardinality(temps') <= Cardinality(temps)
  BY <1>3, FS_Subset
<1>9. temps' = temps \ {task[t].temp} /\ Using(task[t]) => Cardinality(temps') = Cardinality(temps) - 1
  BY <1>3, FS_RemoveElement DEF NameInv
<1>10. Cardinality(temps') <= crashes' + faults' + InUse'
  BY <1>1, <1>3, <1>4, <1>7, <1>8, <1>9
<1> QED
  BY <1>1, <1>6, <1>7, <1>10 DEF NameInv

\* The number is taken and its name is free: the call uses it.
LEMMA NameTaken ==
    ASSUME TypeOK, LockInv, NameInv, NEW t \in Threads, Holding(t),
           \A u \in Threads : u # t => task'[u] = task[u],
           ~Using(task[t]), Using(task'[t]),
           NEW store \in Stores, NEW rev \in Reference, TakeSequence(store),
           LET name == TempName(store, rev)
           IN name \notin temps /\ temps' = temps \cup {name} /\ task'[t].temp = name,
           UNCHANGED <<bounds, refused>>
    PROVE  NameInv'
<1> DEFINE name == TempName(store, rev)
<1>1. InUse = 0 /\ InUse' = 1 /\ \A u \in Threads : u # t => ~Using(task'[u])
  BY OneInUse DEF LockInv, Holding, Using
<1>2. /\ sequence' \in [Stores -> Nat] /\ sequence'[store] = sequence[store] + 1
      /\ \A s \in Stores : sequence[s] <= sequence'[s]
  BY DEF TakeSequence, TypeOK
<1>3. name \in TempNames /\ name.seq = sequence[store] /\ name.store = store
  BY NameType DEF TempName
<1>4. ToMeet' \subseteq ToMeet
  <2>1. name.seq < sequence'[name.store]
    BY <1>2, <1>3 DEF TypeOK
  <2> HIDE DEF name
  <2> QED
    BY <1>2, <1>3, <2>1, NoneMoreToMeet DEF name
<1>5. /\ IsFiniteSet(temps) /\ Cardinality(temps) <= crashes + faults + InUse
      /\ refused + Cardinality(ToMeet) <= crashes + faults
  BY DEF NameInv
<1>6. /\ Cardinality(temps) \in Nat /\ IsFiniteSet(ToMeet) /\ Cardinality(ToMeet) \in Nat
      /\ crashes \in Nat /\ faults \in Nat /\ refused \in Nat
  BY Counts
<1>7. Cardinality(ToMeet') <= Cardinality(ToMeet) /\ Cardinality(ToMeet') \in Nat
  BY <1>4, <1>6, FS_Subset, FS_CardinalityType
<1>8. IsFiniteSet(temps') /\ Cardinality(temps') = Cardinality(temps) + 1
  BY <1>5, FS_AddElement
<1>9. UNCHANGED <<crashes, faults, refused>>
  BY DEF bounds
<1>10. /\ Cardinality(temps') <= crashes' + faults' + InUse'
       /\ refused' + Cardinality(ToMeet') <= crashes' + faults'
  BY <1>1, <1>5, <1>6, <1>7, <1>8, <1>9
<1> QED
  BY <1>1, <1>8, <1>10 DEF NameInv

\* The name was left on disk: the call is refused, and the counter has passed it.
LEMMA NameMet ==
    ASSUME TypeOK, LockInv, NameInv, NEW t \in Threads, Holding(t),
           \A u \in Threads : u # t => task'[u] = task[u],
           ~Using(task[t]), ~Using(task'[t]),
           NEW store \in Stores, NEW rev \in Reference, TakeSequence(store),
           TempName(store, rev) \in temps, temps' \subseteq temps,
           UNCHANGED bounds, Refused
    PROVE  NameInv'
<1> DEFINE name == TempName(store, rev)
<1>1. InUse = 0 /\ InUse' = 0 /\ \A u \in Threads : ~Using(task'[u])
  BY OneInUse DEF LockInv, Holding, Using
<1>2. /\ sequence' \in [Stores -> Nat] /\ sequence'[store] = sequence[store] + 1
      /\ \A s \in Stores : sequence[s] <= sequence'[s]
  BY DEF TakeSequence, TypeOK
<1>3. name \in TempNames /\ name.seq = sequence[store] /\ name.store = store
  BY NameType DEF TempName
<1>4. ToMeet' \subseteq ToMeet
  <2>1. \A x \in temps' : x \in temps
    OBVIOUS
  <2> QED
    BY <1>2, <2>1, NoneMoreToMeet
<1>5. name \in ToMeet /\ name \notin ToMeet'
  <2>1. sequence[store] \in Nat
    BY DEF TypeOK
  <2>2. name \in ToMeet
    BY <1>3, <2>1 DEF ToMeet
  <2>3. name \notin ToMeet'
    BY <1>2, <1>3, <2>1 DEF ToMeet
  <2> QED
    BY <2>2, <2>3
<1>6. /\ IsFiniteSet(temps) /\ Cardinality(temps) <= crashes + faults + InUse
      /\ refused + Cardinality(ToMeet) <= crashes + faults
  BY DEF NameInv
<1>7. /\ Cardinality(temps) \in Nat /\ IsFiniteSet(ToMeet) /\ Cardinality(ToMeet) \in Nat
      /\ crashes \in Nat /\ faults \in Nat /\ refused \in Nat
  BY Counts
<1>8. Cardinality(ToMeet') < Cardinality(ToMeet) /\ Cardinality(ToMeet') \in Nat
  <2>1. ToMeet' \in SUBSET ToMeet /\ ToMeet' # ToMeet
    BY <1>4, <1>5
  <2>2. /\ IsFiniteSet(ToMeet') /\ Cardinality(ToMeet') <= Cardinality(ToMeet)
        /\ Cardinality(ToMeet') # Cardinality(ToMeet)
    BY <1>7, <2>1, FS_Subset
  <2>3. Cardinality(ToMeet') \in Nat
    BY <2>2, FS_CardinalityType
  <2> QED
    BY <1>7, <2>2, <2>3
<1>9. IsFiniteSet(temps') /\ Cardinality(temps') <= Cardinality(temps)
      /\ Cardinality(temps') \in Nat
  BY <1>6, FS_Subset, FS_CardinalityType
<1>10. UNCHANGED <<crashes, faults>> /\ refused' = refused + 1
  BY DEF bounds, Refused
<1>11. /\ Cardinality(temps') <= crashes' + faults' + InUse'
       /\ refused' + Cardinality(ToMeet') <= crashes' + faults'
  BY <1>1, <1>6, <1>7, <1>8, <1>9, <1>10
<1> QED
  BY <1>1, <1>9, <1>11 DEF NameInv

\* A step that leaves the names and the counters alone.
LEMMA NamesAlone ==
    ASSUME TypeOK, TypeOK', LockInv, NameInv, NEW t \in Threads, Holding(t),
           \A u \in Threads : u # t => task'[u] = task[u],
           ~Using(task[t]), ~Using(task'[t]),
           UNCHANGED <<temps, crashes, refused>>,
           UNCHANGED sequence \/ \E store \in Stores : TakeSequence(store),
           UNCHANGED faults \/ faults' = faults + 1
    PROVE  NameInv'
<1>1. /\ sequence' \in [Stores -> Nat]
      /\ \A store \in Stores : sequence[store] <= sequence'[store]
  BY DEF TypeOK, TakeSequence
<1>2. \A x \in temps' : x \in temps
  OBVIOUS
<1>3. \/ faults' = faults + 1 /\ (temps' \subseteq temps \/ ~Using(task[t]))
      \/ faults' = faults /\ temps' \subseteq temps /\ ~Using(task[t])
  OBVIOUS
<1> QED
  BY <1>1, <1>2, <1>3, NamesLeft

\* A name is given back; an error may leave it behind.
LEMMA NameDropped ==
    ASSUME TypeOK, TypeOK', LockInv, NameInv, NEW t \in Threads, Holding(t),
           \A u \in Threads : u # t => task'[u] = task[u],
           Using(task[t]), ~Using(task'[t]),
           UNCHANGED <<sequence, crashes, refused>>,
           \/ UNCHANGED faults /\ temps' = temps \ {task[t].temp}
           \/ faults' = faults + 1 /\ temps' \in {temps, temps \ {task[t].temp}}
    PROVE  NameInv'
<1>1. /\ sequence' \in [Stores -> Nat]
      /\ \A store \in Stores : sequence[store] <= sequence'[store]
  BY DEF TypeOK
<1>2. \A x \in temps' : x \in temps
  OBVIOUS
<1>3. \/ faults' = faults + 1 /\ temps' \subseteq temps
      \/ faults' = faults /\ temps' = temps \ {task[t].temp}
  OBVIOUS
<1> QED
  BY <1>1, <1>2, <1>3, NamesLeft

\* An error when the name is made, which may leave it behind.
LEMMA NameSpoiled ==
    ASSUME TypeOK, TypeOK', LockInv, NameInv, NEW t \in Threads, Holding(t),
           \A u \in Threads : u # t => task'[u] = task[u],
           ~Using(task[t]), ~Using(task'[t]),
           NEW store \in Stores, NEW rev \in Reference, TakeSequence(store),
           temps' \subseteq temps \cup {TempName(store, rev)},
           UNCHANGED <<crashes, refused>>, faults' = faults + 1
    PROVE  NameInv'
<1> DEFINE name == TempName(store, rev)
<1>1. /\ sequence' \in [Stores -> Nat] /\ sequence'[store] = sequence[store] + 1
      /\ \A s \in Stores : sequence[s] <= sequence'[s]
  BY DEF TakeSequence, TypeOK
<1>2. name \in TempNames /\ name.seq = sequence[store] /\ name.store = store
  BY NameType DEF TempName
<1>3. name.seq < sequence'[name.store]
  BY <1>1, <1>2 DEF TypeOK
<1> HIDE DEF name
<1>4. \A x \in temps' : x \in temps \/ (x = name /\ name.seq < sequence'[name.store] /\ name \in TempNames)
  BY <1>2, <1>3 DEF name
<1> QED
  BY <1>1, <1>4, NamesLeft

LEMMA NamesReads ==
    ASSUME Core, Core', NameInv, NEW t \in Threads, Reads(t)
    PROVE  NameInv'
<1> USE DEF Core
<1>0. /\ Holding(t) /\ ~Using(task[t]) /\ UNCHANGED <<temps, sequence, crashes, refused>>
      /\ \A u \in Threads : u # t => task'[u] = task[u]
      /\ UNCHANGED faults \/ faults' = faults + 1
  BY OwnTask DEF Reads, ReadPending, ReadHistorical, ReadRevision, ReadState, ReadFails, At,
                 Holding, Using, Fault, bounds, aux, Proceed
<1>1. ~Using(task'[t])
  BY ReturnEffect, ReadPendingEffect, ReadHistoricalEffect, ReadRevisionEffect, ReadStateEffect
  DEF Reads, ReadPending, ReadHistorical, ReadFails, Using
<1> QED
  BY <1>0, <1>1, NamesAlone

LEMMA NamesCreates ==
    ASSUME Core, Core', NameInv, NEW t \in Threads, Creates(t)
    PROVE  NameInv'
<1> USE DEF Core
<1>0. /\ Holding(t) /\ Numbers(task[t])
      /\ \A u \in Threads : u # t => task'[u] = task[u]
  BY OwnTask DEF Creates, RejectCandidate, RevisionsExhausted, CreateRevision,
         CreateRevisionFails, PublishRevision, PublishRevisionFails, Holding, At, Proceed, NumberInv
<1>1. CASE RejectCandidate(t) \/ RevisionsExhausted(t) \/ CreateRevisionFails(t)
  <2>1. /\ ~Using(task[t]) /\ ~Using(task'[t]) /\ UNCHANGED <<temps, crashes, refused>>
        /\ UNCHANGED sequence \/ \E store \in Stores : TakeSequence(store)
        /\ UNCHANGED faults \/ faults' = faults + 1
    BY <1>1, ReturnEffect DEF RejectCandidate, RevisionsExhausted, CreateRevisionFails, At, Using,
                              Fault, bounds, aux, Stores
  <2> QED
    BY <1>0, <2>1, NamesAlone
<1>2. CASE CreateRevision(t)
  <2>0. /\ ~Using(task[t]) /\ TakeSequence("revision") /\ UNCHANGED bounds /\ "revision" \in Stores
        /\ NextRevision \in Reference
    <3>1. ~Exhausted
      BY <1>2 DEF CreateRevision
    <3> QED
      BY <1>2, <3>1, NextRevisionType DEF CreateRevision, At, Using, Stores, Reference
  <2>1. CASE TempName("revision", NextRevision) \in temps
    <3>1. ~Using(task'[t]) /\ Refused /\ UNCHANGED temps
      BY <1>2, <2>1, ReturnEffect DEF CreateRevision, Using
    <3> QED
      BY <1>0, <2>0, <2>1, <3>1, NameMet
  <2>2. CASE TempName("revision", NextRevision) \notin temps
    <3> DEFINE name == TempName("revision", NextRevision)
    <3>1. task[t] \in Task
      BY DEF TypeOK
    <3>2. task'[t] = [task[t] EXCEPT !.pc = "publish", !.rev = NextRevision, !.temp = name]
      BY <1>2, <2>2, TaskChange DEF CreateRevision
    <3>3. Using(task'[t]) /\ task'[t].temp = name /\ temps' = temps \cup {name} /\ UNCHANGED refused
      BY <1>2, <2>2, <3>1, <3>2 DEF CreateRevision, Using, Task
    <3> QED
      BY <1>0, <2>0, <2>2, <3>3, NameTaken
  <2> QED
    BY <2>1, <2>2
<1>3. CASE PublishRevision(t)
  <2>1. /\ Using(task[t]) /\ ~Using(task'[t]) /\ temps' = temps \ {task[t].temp}
        /\ UNCHANGED <<sequence, crashes, faults, refused>>
    BY <1>3, PublishEffect DEF PublishRevision, Using, bounds, aux
  <2> QED
    BY <1>0, <2>1, NameDropped
<1>4. CASE PublishRevisionFails(t)
  <2>1. task[t].rev \notin DOMAIN revisions
    <3>1. /\ \A r \in DOMAIN revisions : r < task[t].rev
          /\ task[t].rev \in Nat
      BY <1>0, <1>4, BoundAssumption DEF PublishRevisionFails, At, Numbers, Publishing, Revisions
    <3> QED
      BY <3>1
  <2>2. /\ Using(task[t]) /\ ~Using(task'[t]) /\ temps' \in {temps, temps \ {task[t].temp}}
        /\ UNCHANGED <<sequence, crashes, refused>> /\ faults' = faults + 1
    BY <1>4, <2>1, ReturnEffect DEF PublishRevisionFails, At, Using, Fault, aux
  <2> QED
    BY <1>0, <2>2, NameDropped
<1> QED
  BY <1>1, <1>2, <1>3, <1>4 DEF Creates

\* The references about to be saved exist, so no error comes without a fault.
LEMMA SavedAreKnown ==
    ASSUME Core, NEW t \in Threads, At(t, "openState")
    PROVE  KnownReferences(task[t].st)
<1> USE DEF Core
<1> DEFINE k == task[t]
<1>1. Numbers(k) /\ k \in Task /\ Phased(k) /\ stateFile \in RevisionState
  BY DEF NumberInv, TypeOK, PhaseInv
<1>2. k.phase \in {"stage", "activate"}
  BY <1>1 DEF At, Phased, StepsOf, Task, Phases
<1>3. CASE k.phase = "stage"
  <2>1. Recording(k)
    BY <1>3 DEF At, Recording
  <2>2. k.rev \in DOMAIN revisions /\ k.st = [stateFile EXCEPT !.pending = k.rev]
    BY <1>1, <2>1 DEF At, Numbers
  <2>3. k.st.active = stateFile.active /\ k.st.pending = k.rev
    BY <1>1, <2>2 DEF RevisionState
  <2> QED
    BY <2>2, <2>3 DEF KnownReferences, References, StateFileWellFormed
<1>4. CASE k.phase = "activate"
  <2>1. Activating(k)
    BY <1>4 DEF At, Activating
  <2>2. k.rev \in DOMAIN revisions /\ k.st = [active |-> k.rev, pending |-> None]
    BY <1>1, <2>1 DEF At, Numbers
  <2> QED
    BY <2>2 DEF KnownReferences, References
<1> QED
  BY <1>2, <1>3, <1>4

LEMMA StateErrorUsesNone ==
    ASSUME TypeOK, NEW t \in Threads, StateSaveError(t)
    PROVE  ~Using(task'[t])
<1>1. CASE task[t].phase = "stage"
  BY <1>1, ReturnEffect DEF StateSaveError, Using
<1>2. CASE task[t].phase # "stage"
  BY <1>2, RestoreEffect DEF Using
<1> QED
  BY <1>1, <1>2

LEMMA NamesSavesState ==
    ASSUME Core, Core', NameInv, NEW t \in Threads, SavesState(t)
    PROVE  NameInv'
<1> USE DEF Core
<1>0. /\ Holding(t) /\ "state" \in Stores /\ None \in Reference
      /\ \A u \in Threads : u # t => task'[u] = task[u]
  BY OwnTask DEF SavesState, OpenState, OpenStateFails, RenameState, RenameStateFails, At,
                 Holding, Proceed, Stores, Reference
<1>1. CASE OpenState(t)
  <2>0. ~Using(task[t]) /\ TakeSequence("state") /\ UNCHANGED bounds
    BY <1>1 DEF OpenState, At, Using
  <2>1. CASE TempName("state", None) \in temps
    <3>1. ~Using(task'[t]) /\ Refused /\ UNCHANGED temps
      BY <1>1, <2>1, StateErrorUsesNone DEF OpenState
    <3> QED
      BY <1>0, <2>0, <2>1, <3>1, NameMet
  <2>2. CASE TempName("state", None) \notin temps
    <3> DEFINE name == TempName("state", None)
    <3>1. task[t] \in Task
      BY DEF TypeOK
    <3>2. task'[t] = [task[t] EXCEPT !.pc = "renameState", !.temp = name]
      BY <1>1, <2>2, TaskChange DEF OpenState
    <3>3. Using(task'[t]) /\ task'[t].temp = name /\ temps' = temps \cup {name} /\ UNCHANGED refused
      BY <1>1, <2>2, <3>1, <3>2 DEF OpenState, Using, Task
    <3> QED
      BY <1>0, <2>0, <2>2, <3>3, NameTaken
  <2> QED
    BY <2>1, <2>2
<1>2. CASE OpenStateFails(t)
  <2>1. /\ ~Using(task[t]) /\ ~Using(task'[t]) /\ UNCHANGED <<crashes, refused>> /\ faults' = faults + 1
    BY <1>2, SavedAreKnown, StateErrorUsesNone DEF OpenStateFails, At, Using, Fault, aux
  <2>2. CASE UNCHANGED <<temps, sequence>>
    BY <1>0, <2>1, <2>2, NamesAlone
  <2>3. CASE TakeSequence("state") /\ temps' \in {temps, temps \cup {TempName("state", None)}}
    BY <1>0, <2>1, <2>3, NameSpoiled
  <2> QED
    BY <1>2, <2>2, <2>3 DEF OpenStateFails
<1>3. CASE RenameState(t)
  <2>1. ~Using(task'[t])
    <3>1. CASE task[t].op = "rollback" /\ task[t].phase = "stage"
      BY <1>3, <3>1, RollbackEffect DEF Using
    <3>2. CASE ~(task[t].op = "rollback" /\ task[t].phase = "stage")
      BY <1>3, <3>2, ReturnEffect DEF RenameState, Using
    <3> QED
      BY <3>1, <3>2
  <2>2. /\ Using(task[t]) /\ temps' = temps \ {task[t].temp}
        /\ UNCHANGED <<sequence, crashes, faults, refused>>
    BY <1>3 DEF RenameState, At, Using, bounds
  <2> QED
    BY <1>0, <2>1, <2>2, NameDropped
<1>4. CASE RenameStateFails(t)
  <2>1. /\ Using(task[t]) /\ ~Using(task'[t]) /\ temps' \in {temps, temps \ {task[t].temp}}
        /\ UNCHANGED <<sequence, crashes, refused>> /\ faults' = faults + 1
    BY <1>4, StateErrorUsesNone DEF RenameStateFails, At, Using, Fault, aux
  <2> QED
    BY <1>0, <2>1, NameDropped
<1> QED
  BY <1>1, <1>2, <1>3, <1>4 DEF SavesState

LEMMA NamesSavesActive ==
    ASSUME Core, Core', NameInv, NEW t \in Threads, SavesActive(t)
    PROVE  NameInv'
<1> USE DEF Core
<1>0. /\ Holding(t) /\ "active" \in Stores /\ None \in Reference
      /\ \A u \in Threads : u # t => task'[u] = task[u]
  BY OwnTask DEF SavesActive, OpenActive, OpenActiveFails, RenameActive, RenameActiveFails,
                 SyncActive, SyncActiveFails, At, Holding, Proceed, Stores, Reference
<1>1. ActiveSaveError(t) => ~Using(task'[t])
  BY ReturnEffect DEF ActiveSaveError, Using
<1>2. CASE OpenActive(t)
  <2>0. ~Using(task[t]) /\ TakeSequence("active") /\ UNCHANGED bounds
    BY <1>2 DEF OpenActive, At, Using
  <2>1. CASE TempName("active", None) \in temps
    <3>1. ~Using(task'[t]) /\ Refused /\ temps' \subseteq temps
      BY <1>1, <1>2, <2>1 DEF OpenActive
    <3> QED
      BY <1>0, <2>0, <2>1, <3>1, NameMet
  <2>2. CASE TempName("active", None) \notin temps
    <3> DEFINE name == TempName("active", None)
    <3>1. task[t] \in Task
      BY DEF TypeOK
    <3>2. task'[t] = [task[t] EXCEPT !.pc = "renameActive", !.temp = name]
      BY <1>2, <2>2, TaskChange DEF OpenActive
    <3>3. Using(task'[t]) /\ task'[t].temp = name /\ temps' = temps \cup {name} /\ UNCHANGED refused
      BY <1>2, <2>2, <3>1, <3>2 DEF OpenActive, Using, Task
    <3> QED
      BY <1>0, <2>0, <2>2, <3>3, NameTaken
  <2> QED
    BY <2>1, <2>2
<1>3. CASE OpenActiveFails(t)
  <2>1. /\ ~Using(task[t]) /\ ~Using(task'[t]) /\ UNCHANGED <<crashes, refused>>
        /\ faults' = faults + 1 /\ TakeSequence("active")
        /\ temps' \subseteq temps \cup {TempName("active", None)}
    BY <1>1, <1>3 DEF OpenActiveFails, At, Using, Fault
  <2> QED
    BY <1>0, <2>1, NameSpoiled
<1>4. CASE RenameActive(t)
  <2>1. /\ Using(task[t]) /\ ~Using(task'[t]) /\ temps' = temps \ {task[t].temp}
        /\ UNCHANGED <<sequence, crashes, faults, refused>>
    BY <1>4, RenameActiveEffect DEF RenameActive, Using, bounds, aux
  <2> QED
    BY <1>0, <2>1, NameDropped
<1>5. CASE RenameActiveFails(t)
  <2>1. /\ Using(task[t]) /\ ~Using(task'[t]) /\ temps' \in {temps, temps \ {task[t].temp}}
        /\ UNCHANGED <<sequence, crashes, refused>> /\ faults' = faults + 1
    BY <1>1, <1>5 DEF RenameActiveFails, At, Using, Fault
  <2> QED
    BY <1>0, <2>1, NameDropped
<1>6. CASE SyncActive(t) \/ SyncActiveFails(t)
  <2>1. /\ ~Using(task[t]) /\ UNCHANGED <<temps, sequence, crashes, refused>>
        /\ UNCHANGED faults \/ faults' = faults + 1
    BY <1>6 DEF SyncActive, SyncActiveFails, At, Using, Fault, bounds, aux
  <2>2. ~Using(task'[t])
    BY <1>1, <1>6, ReturnEffect, SyncActiveEffect DEF SyncActive, SyncActiveFails, Using
  <2> QED
    BY <1>0, <2>1, <2>2, NamesAlone
<1> QED
  BY <1>2, <1>3, <1>4, <1>5, <1>6 DEF SavesActive

\* A crash may leave one name behind, and the counters start again before them all.
LEMMA NamesCrash ==
    ASSUME Core, NameInv, Crash
    PROVE  NameInv'
<1> USE DEF Core
<1>1. \A t \in Threads : ~Using(task'[t])
  BY IdleTask DEF Crash, Using
<1>2. InUse \in 0..1 /\ InUse' = 0
  BY <1>1 DEF InUse
<1>3. /\ IsFiniteSet(temps) /\ Cardinality(temps) <= crashes + faults + InUse
      /\ Cardinality(temps) \in Nat /\ crashes \in Nat /\ faults \in Nat
  BY Counts DEF NameInv
<1>4. /\ temps' \subseteq temps /\ crashes' = crashes + 1 /\ faults' = faults /\ refused' = 0
  BY DEF Crash
<1>5. IsFiniteSet(temps') /\ Cardinality(temps') <= Cardinality(temps) /\ Cardinality(temps') \in Nat
  BY <1>3, <1>4, FS_Subset, FS_CardinalityType
<1>6. Cardinality(ToMeet') <= Cardinality(temps') /\ Cardinality(ToMeet') \in Nat
  <2>1. ToMeet' \in SUBSET temps'
    BY DEF ToMeet
  <2> QED
    BY <1>5, <2>1, FS_Subset, FS_CardinalityType
<1>7. /\ Cardinality(temps') <= crashes' + faults' + InUse'
      /\ refused' + Cardinality(ToMeet') <= crashes' + faults'
  BY <1>2, <1>3, <1>4, <1>5, <1>6
<1> QED
  BY <1>1, <1>5, <1>7 DEF NameInv

\* Before the lock no name is used.
LEMMA NamesOutside ==
    ASSUME Core, NameInv,
           UNCHANGED vars \/ \E t \in Threads : Calls(t) \/ AcquireLifecycle(t)
    PROVE  NameInv'
<1> USE DEF Core
<1>1. CASE UNCHANGED vars
  BY <1>1 DEF vars, bounds, aux, NameInv, InUse, ToMeet
<1>2. ASSUME NEW t \in Threads, Calls(t) \/ AcquireLifecycle(t) PROVE NameInv'
  <2>1. /\ UNCHANGED <<temps, sequence, crashes, faults, refused>>
        /\ \A u \in Threads : u # t => task'[u] = task[u]
        /\ ~Using(task[t])
    BY <1>2, CallEffect, AcquireEffect DEF AcquireLifecycle, At, Using, bounds, aux
  <2>2. ~Using(task'[t])
    <3>1. CASE Calls(t)
      BY <3>1, CallEffect DEF Using
    <3>2. CASE AcquireLifecycle(t)
      <4>1. task[t].op \in {"stage", "activate", "rollback"}
        BY DEF TypeOK, Task
      <4> QED
        BY <3>2, <4>1, AcquireEffect DEF Using, FirstStep
    <3> QED
      BY <1>2, <3>1, <3>2
  <2>3. \A u \in Threads : /\ Using(task'[u]) <=> Using(task[u])
                           /\ Using(task[u]) => task'[u] = task[u]
    BY <2>1, <2>2
  <2>4. InUse' = InUse /\ ToMeet' = ToMeet
    BY <2>1, <2>3 DEF InUse, ToMeet
  <2> QED
    BY <2>1, <2>3, <2>4 DEF NameInv
<1> QED
  BY <1>1, <1>2

LEMMA NamesStep ==
    ASSUME Core, Core', NameInv, [Next]_vars
    PROVE  NameInv'
BY NamesOutside, NamesCrash, NamesReads, NamesCreates, NamesSavesState, NamesSavesActive
DEF Next, Proceed

\* A process is refused a temporary name at most once for each crash or error there
\* has been, so none makes the same operation fail for ever (BoundedRefusals).
THEOREM RefusalsBounded == Spec => []BoundedRefusals
<1>1. Init => NameInv
  <2> SUFFICES ASSUME Init PROVE NameInv
    OBVIOUS
  <2>1. \A t \in Threads : ~Using(task[t])
    BY IdleTask DEF Init, Using
  <2>2. ToMeet = {} /\ InUse = 0 /\ temps = {}
    BY <2>1 DEF Init, ToMeet, InUse
  <2> QED
    BY <2>1, <2>2, FS_EmptySet DEF Init, NameInv
<1>2. Core /\ NameInv => BoundedRefusals
  BY Counts DEF Core, NameInv, BoundedRefusals
<1>3. Core /\ Core' /\ NameInv /\ [Next]_vars => NameInv'
  BY NamesStep
<1> QED
  BY <1>1, <1>2, <1>3, CoreInvariant, PTL DEF Spec
=============================================================================
