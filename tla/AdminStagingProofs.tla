------------------------- MODULE AdminStagingProofs -------------------------
(***************************************************************************)
(* For any requests, forms and configurations: that nothing is written     *)
(* without leave, and that what is acknowledged stays.                     *)
(*                                                                         *)
(* The running process keeps the admin settings it was started with, so a  *)
(* request that was admitted stays admissible until its process ends, and  *)
(* only the holder of the lifecycle lock records. The revision it records  *)
(* is the newest until it is marked, so pending never falls behind what    *)
(* was acknowledged before, nor behind the active revision.                *)
(*                                                                         *)
(* And for any configuration edited with forms: every route and pool that  *)
(* is not from the first configuration is one that its prefilled form      *)
(* makes again (FromForms), and a form moves no route it does not name.    *)
(***************************************************************************)
EXTENDS AdminStaging, FormEditing, RoutingProofs, TLAPS

Staging == {"waiting", "recording", "marking"}

TaskShape == task = [r \in Requests |-> task[r]]

AdminFixed ==
    /\ process.config.admin = process.started.admin
    /\ process.warned = PublicAdminBindWarning(process.started)

Admitted ==
    \A r \in Requests : task[r].pc \in Staging =>
      WritesEnabled(process.started) /\ process.path /\ task[r].token = process.token

Locked == \A r \in Requests : task[r].pc \in {"recording", "marking"} => lock = r

IInv == TaskShape /\ AdminFixed /\ Admitted /\ Locked

\* A process that warned of its address has its writes disabled.
LEMMA WarnedCannotWrite ==
    ASSUME NEW config, WritesEnabled(config)
    PROVE  ~PublicAdminBindWarning(config)
  BY DEF WritesEnabled, PublicAdminBindWarning

\* Whether writes are enabled depends on the settings of the admin alone.
LEMMA WritesBySettings ==
    ASSUME NEW one, NEW other, one.admin = other.admin, WritesEnabled(one)
    PROVE  WritesEnabled(other)
  BY DEF WritesEnabled

\* No request is under way at the start.
LEMMA InitInvariant == Init => IInv
  BY DEF Init, IInv, TaskShape, AdminFixed, Admitted, Locked, NoTask, Staging, Process

\* Posting a form admits it only with leave.
LEMMA PostInvariant ==
    ASSUME IInv, NEW r \in Requests, Post(r)
    PROVE  IInv'
<1>1. PICK form, token, pc, candidate, answer :
        /\ Posted(r, form, token, pc, candidate, answer)
        /\ pc = "done" \/ (pc = "waiting" /\ Allowed(token) /\ process.path)
  BY DEF Post, ValidateUpstream, Deny, Unavailable, Refuse, Admit
<1>2. /\ task' = [task EXCEPT ![r] = [pc |-> pc, form |-> form, token |-> token,
                    candidate |-> candidate, revision |-> None, answer |-> answer]]
      /\ UNCHANGED <<process, lock>>
  BY <1>1 DEF Posted, registry
<1>3. /\ task'[r].pc = pc /\ task'[r].token = token
      /\ \A s \in Requests \ {r} : task'[s] = task[s]
      /\ task' = [s \in Requests |-> task'[s]]
  BY <1>2 DEF IInv, TaskShape
<1>4. TaskShape'
  BY <1>3 DEF IInv, TaskShape
<1>5. Admitted'
  <2>1. CASE pc = "waiting"
    <3>1. WritesEnabled(process.started)
      BY <1>1, <2>1, WritesBySettings DEF Allowed, IInv, AdminFixed
    <3>. QED  BY <1>1, <1>2, <1>3, <2>1, <3>1 DEF IInv, Admitted, Allowed
  <2>2. CASE pc = "done"
    BY <1>2, <1>3, <2>2 DEF IInv, Admitted, Staging
  <2>. QED  BY <1>1, <2>1, <2>2
<1>6. Locked'
  BY <1>1, <1>2, <1>3 DEF IInv, Locked
<1>. QED  BY <1>2, <1>4, <1>5, <1>6 DEF IInv, AdminFixed

\* A step of the handler passes the lock on and admits nobody.
LEMMA StepInvariant ==
    ASSUME IInv, NEW r \in Requests, Step(r)
    PROVE  IInv'
<1>1. PICK pc, revision, answer :
        /\ task' = [task EXCEPT ![r] = Moved(task[r], pc, revision, answer)]
        /\ task[r].pc \in Staging
        /\ process' = process
        /\ \/ task[r].pc # "waiting" /\ pc = "done" /\ lock' = None
           \/ lock = None /\ lock' = r /\ pc = "recording"
           \/ task[r].pc = "recording" /\ lock' = lock /\ pc = "marking"
  <2>1. CASE AcquireLifecycle(r)
    BY <2>1 DEF AcquireLifecycle, Staging
  <2>2. CASE Record(r)
    BY <2>2 DEF Record, Staging
  <2>3. CASE MarkPending(r)
    BY <2>3 DEF MarkPending, Answer, Staging
  <2>4. CASE StageFails(r)
    <3>1. task' = [task EXCEPT ![r] = Moved(task[r], "done", task[r].revision, 500)]
      BY <2>4 DEF StageFails, Answer
    <3>2. /\ task[r].pc \in {"recording", "marking"} /\ lock' = None
          /\ process' = process
      BY <2>4 DEF StageFails, Answer
    <3>3. task[r].pc \in Staging /\ task[r].pc # "waiting"
      BY <3>2 DEF Staging
    <3>. QED  BY <3>1, <3>2, <3>3
  <2>. QED  BY <2>1, <2>2, <2>3, <2>4 DEF Step
<1>2. /\ task'[r].pc = pc /\ task'[r].token = task[r].token
      /\ \A s \in Requests \ {r} : task'[s] = task[s]
      /\ task' = [s \in Requests |-> task'[s]]
  BY <1>1 DEF IInv, TaskShape, Moved
<1>3. Admitted'
  BY <1>1, <1>2 DEF IInv, Admitted
<1>4. Locked'
  <2>. SUFFICES ASSUME NEW s \in Requests, task'[s].pc \in {"recording", "marking"}
                PROVE  lock' = s
    BY DEF Locked
  <2>1. CASE s = r
    BY <1>1, <1>2, <2>1 DEF IInv, Locked
  <2>2. CASE s # r
    BY <1>1, <1>2, <2>2, RequestsAssumption DEF IInv, Locked, Staging
  <2>. QED  BY <2>1, <2>2
<1>. QED  BY <1>1, <1>2, <1>3, <1>4 DEF IInv, TaskShape, AdminFixed

\* A new process has no request under way and runs what it was started with.
LEMMA StartInvariant ==
    ASSUME IInv, Start
    PROVE  IInv'
<1>1. /\ task' = [s \in Requests |-> task'[s]]
      /\ \A s \in Requests : task'[s].pc \in {"idle", "done"}
  BY DEF Start, Moved
<1>2. AdminFixed'
  BY DEF Start, AdminFixed, Process
<1>. QED  BY <1>1, <1>2 DEF IInv, TaskShape, Admitted, Locked, Staging

\* Every step keeps the invariant.
LEMMA NextInvariant == IInv /\ [Next]_vars => IInv'
<1>. SUFFICES ASSUME IInv, [Next]_vars PROVE IInv'
  OBVIOUS
<1>1. CASE \E r \in Requests : Post(r) \/ Step(r)
  BY <1>1, PostInvariant, StepInvariant
<1>2. CASE Activate \/ EditFile
  BY <1>2 DEF Activate, EditFile, IInv, TaskShape, AdminFixed, Admitted, Locked
<1>3. CASE HotReload
  BY <1>3 DEF HotReload, SameStructure, Process, IInv, TaskShape, AdminFixed, Admitted, Locked
<1>4. CASE Restart \/ CrashInActivation
  BY <1>4, StartInvariant DEF Restart, CrashInActivation
<1>5. CASE UNCHANGED vars
  BY <1>5 DEF vars, IInv, TaskShape, AdminFixed, Admitted, Locked
<1>. QED  BY <1>1, <1>2, <1>3, <1>4, <1>5 DEF Next

\* Of all steps only the record of the request that holds the lock changes the
\* history.
LEMMA OnlyRecordWrites ==
    ASSUME [Next]_vars, history' # history
    PROVE  \E r \in Requests : Record(r)
<1>1. CASE \E r \in Requests : Post(r)
  BY <1>1 DEF Post, ValidateUpstream, Deny, Unavailable, Refuse, Admit, Posted, registry
<1>2. CASE \E r \in Requests : Step(r)
  BY <1>2 DEF Step, AcquireLifecycle, MarkPending, StageFails, registry, Registry!MarkPending
<1>3. CASE Activate \/ HotReload \/ Restart \/ EditFile \/ CrashInActivation
  BY <1>3 DEF Activate, HotReload, Restart, EditFile, CrashInActivation, registry,
              Registry!Activate, Registry!Slip
<1>. QED  BY <1>1, <1>2, <1>3 DEF Next, vars

\* The process keeps the admin settings it was started with, a request under way
\* has leave to write, and a request that writes holds the lifecycle lock.
THEOREM AdmittedStaysAdmitted == Spec => []IInv
<1>. QED  BY InitInvariant, NextInvariant, PTL DEF Spec

\* For any requests, forms and configurations: nothing is written unless the
\* process was started with writes enabled on a loopback address and the form
\* carries its token.
THEOREM NothingWrittenWithoutLeave == Spec => WritesGated
<1>1. IInv /\ [Next]_vars =>
        [history' # history =>
           /\ WritesEnabled(process.started) /\ ~process.warned /\ process.path
           /\ \E r \in Requests : lock = r /\ task[r].token = process.token]_vars
  <2>. SUFFICES ASSUME IInv, [Next]_vars, history' # history
                PROVE  /\ WritesEnabled(process.started) /\ ~process.warned /\ process.path
                       /\ \E r \in Requests : lock = r /\ task[r].token = process.token
    OBVIOUS
  <2>1. PICK r \in Requests : task[r].pc = "recording"
    BY OnlyRecordWrites DEF Record
  <2>2. WritesEnabled(process.started) /\ process.path /\ task[r].token = process.token
    BY <2>1 DEF IInv, Admitted, Staging
  <2>3. lock = r
    BY <2>1 DEF IInv, Locked
  <2>4. ~process.warned
    BY <2>2, WarnedCannotWrite DEF IInv, AdminFixed
  <2>. QED  BY <2>2, <2>3, <2>4
<1>. QED  BY <1>1, AdmittedStaysAdmitted, PTL DEF Spec, WritesGated

----------------------------------------------------------------------------
(* What is acknowledged stays. *)

HistoryShape ==
    /\ DOMAIN history \subseteq Nat
    /\ {active, pending} \subseteq DOMAIN history \cup {None}
    /\ {active, pending} \subseteq DOMAIN history => active <= pending

Marking ==
    \A r \in Requests : task[r].pc = "marking" =>
      LET n == task[r].revision
      IN /\ n \in DOMAIN history /\ history[n] = task[r].candidate
         /\ \A m \in DOMAIN history : m <= n

Kept == HistoryShape /\ Marking /\ AcknowledgedStays

\* Steps that leave the files alone and acknowledge nothing.
LEMMA KeptByOthers ==
    ASSUME Kept, UNCHANGED <<history, active, pending>>,
           \A s \in Requests :
             \/ task'[s] = task[s]
             \/ task'[s].pc # "marking" /\ (task'[s].answer # 200 \/ task'[s].candidate = None)
    PROVE  Kept'
<1>1. HistoryShape'
  BY DEF Kept, HistoryShape
<1>2. Marking'
  BY DEF Kept, Marking
<1>3. AcknowledgedStays'
  BY DEF Kept, AcknowledgedStays
<1>. QED  BY <1>1, <1>2, <1>3 DEF Kept

LEMMA KeptByPost ==
    ASSUME IInv, Kept, NEW r \in Requests, Post(r)
    PROVE  Kept'
<1>1. PICK form, token, pc, candidate, answer :
        /\ Posted(r, form, token, pc, candidate, answer)
        /\ pc # "marking"
        /\ answer # 200 \/ candidate = None
  BY RequestsAssumption DEF Post, ValidateUpstream, Deny, Unavailable, Refuse, Admit
<1>2. /\ task'[r].pc # "marking" /\ (task'[r].answer # 200 \/ task'[r].candidate = None)
      /\ \A s \in Requests \ {r} : task'[s] = task[s]
      /\ UNCHANGED <<history, active, pending>>
  BY <1>1 DEF Posted, registry, IInv, TaskShape
<1>. QED  BY <1>2, KeptByOthers

\* The revision recorded is above all there are.
LEMMA KeptByRecord ==
    ASSUME IInv, Kept, NEW r \in Requests, Record(r)
    PROVE  Kept'
<1>1. PICK n \in 1..MaxRevision :
        /\ Registry!Record(n, task[r].candidate)
        /\ task' = [task EXCEPT ![r] = Moved(task[r], "marking", n, None)]
  BY DEF Record
<1>2. /\ n \in Nat /\ n \notin DOMAIN history /\ \A m \in DOMAIN history : m <= n
      /\ DOMAIN history' = DOMAIN history \cup {n}
      /\ history'[n] = task[r].candidate
      /\ \A m \in DOMAIN history : history'[m] = history[m]
      /\ UNCHANGED <<active, pending>>
  BY <1>1 DEF Registry!Record, Registry!Newest
<1>3. /\ task'[r].pc = "marking" /\ task'[r].revision = n /\ task'[r].answer = None
      /\ task'[r].candidate = task[r].candidate
      /\ \A s \in Requests \ {r} : task'[s] = task[s]
  BY <1>1 DEF Moved, IInv, TaskShape
<1>4. HistoryShape'
  BY <1>2, RequestsAssumption DEF Kept, HistoryShape
<1>5. Marking'
  <2>. SUFFICES ASSUME NEW s \in Requests, task'[s].pc = "marking"
                PROVE  /\ task'[s].revision \in DOMAIN history'
                       /\ history'[task'[s].revision] = task'[s].candidate
                       /\ \A m \in DOMAIN history' : m <= task'[s].revision
    BY DEF Marking
  <2>1. s = r
    <3>1. task[r].pc = "recording"
      BY DEF Record
    <3>. QED  BY <1>3, <3>1 DEF IInv, Locked
  <2>. QED  BY <1>2, <1>3, <2>1
<1>6. AcknowledgedStays'
  BY <1>2, <1>3, RequestsAssumption DEF Kept, AcknowledgedStays
<1>. QED  BY <1>4, <1>5, <1>6 DEF Kept

\* What is marked pending is as new as anything acknowledged before.
LEMMA KeptByMark ==
    ASSUME IInv, Kept, NEW r \in Requests, MarkPending(r)
    PROVE  Kept'
<1>. DEFINE n == task[r].revision
<1>1. /\ task' = [task EXCEPT ![r] = Moved(task[r], "done", n, 200)]
      /\ pending' = n /\ UNCHANGED <<history, active>>
      /\ task[r].pc = "marking"
  BY DEF MarkPending, Answer, Registry!MarkPending
<1>2. /\ n \in DOMAIN history /\ history[n] = task[r].candidate
      /\ \A m \in DOMAIN history : m <= n
  BY <1>1 DEF Kept, Marking
<1>3. /\ task'[r].pc = "done" /\ task'[r].revision = n
      /\ task'[r].candidate = task[r].candidate
      /\ \A s \in Requests \ {r} : task'[s] = task[s]
  BY <1>1 DEF Moved, IInv, TaskShape
<1>4. n \in Nat /\ n # None
  BY <1>2, RequestsAssumption DEF Kept, HistoryShape
<1>. HIDE DEF n
<1>5. HistoryShape'
  BY <1>1, <1>2, <1>4, RequestsAssumption DEF Kept, HistoryShape
<1>6. Marking'
  BY <1>1, <1>3 DEF Kept, Marking
<1>7. AcknowledgedStays'
  <2>. SUFFICES ASSUME NEW s \in Requests, task'[s].answer = 200, task'[s].candidate # None
                PROVE  /\ task'[s].revision \in DOMAIN history
                       /\ history[task'[s].revision] = task'[s].candidate
                       /\ n >= task'[s].revision
    BY <1>1, <1>4 DEF AcknowledgedStays
  <2>1. /\ task'[s].revision \in DOMAIN history
        /\ history[task'[s].revision] = task'[s].candidate
    BY <1>2, <1>3 DEF Kept, AcknowledgedStays
  <2>2. task'[s].revision \in Nat
    BY <2>1 DEF Kept, HistoryShape
  <2>. QED  BY <1>2, <1>4, <2>1, <2>2
<1>. QED  BY <1>5, <1>6, <1>7 DEF Kept

LEMMA KeptByActivate ==
    ASSUME IInv, Kept, Activate
    PROVE  Kept'
<1>1. /\ pending \in DOMAIN history /\ active' = pending /\ pending' = None
      /\ UNCHANGED <<history, task>>
  BY DEF Activate, Registry!Activate
<1>2. HistoryShape'
  BY <1>1, RequestsAssumption DEF Kept, HistoryShape
<1>3. Marking'
  BY <1>1 DEF Kept, Marking
<1>4. AcknowledgedStays'
  <2>. SUFFICES ASSUME NEW s \in Requests, task[s].answer = 200, task[s].candidate # None
                PROVE  pending # None /\ pending >= task[s].revision
    BY <1>1 DEF Kept, AcknowledgedStays
  <2>1. pending \in Nat /\ pending # None
    BY <1>1, RequestsAssumption DEF Kept, HistoryShape
  <2>2. task[s].revision \in Nat
    BY DEF Kept, AcknowledgedStays, HistoryShape
  <2>3. PICK m \in {active, pending} \ {None} : m >= task[s].revision
    BY DEF Kept, AcknowledgedStays
  <2>4. m \in DOMAIN history /\ m \in Nat /\ m <= pending
    BY <1>1, <2>1, <2>3 DEF Kept, HistoryShape
  <2>. QED  BY <2>1, <2>2, <2>3, <2>4
<1>. QED  BY <1>2, <1>3, <1>4 DEF Kept

LEMMA KeptByNext ==
    ASSUME IInv, Kept, [Next]_vars
    PROVE  Kept'
<1>1. CASE \E r \in Requests : Post(r)
  BY <1>1, KeptByPost
<1>2. CASE \E r \in Requests : Step(r)
  <2>. PICK r \in Requests : Step(r)
    BY <1>2
  <2>1. CASE AcquireLifecycle(r)
    <3>1. task' = [task EXCEPT ![r] = Moved(task[r], "recording", None, None)]
          /\ UNCHANGED <<history, active, pending>>
      BY <2>1 DEF AcquireLifecycle, registry
    <3>2. /\ task'[r].pc # "marking" /\ task'[r].answer # 200
          /\ \A s \in Requests \ {r} : task'[s] = task[s]
      BY <3>1, RequestsAssumption DEF Moved, IInv, TaskShape
    <3>. QED  BY <3>1, <3>2, KeptByOthers
  <2>2. CASE StageFails(r)
    <3>1. task' = [task EXCEPT ![r] = Moved(task[r], "done", task[r].revision, 500)]
          /\ UNCHANGED <<history, active, pending>>
      BY <2>2 DEF StageFails, Answer, registry
    <3>2. /\ task'[r].pc # "marking" /\ task'[r].answer # 200
          /\ \A s \in Requests \ {r} : task'[s] = task[s]
      BY <3>1 DEF Moved, IInv, TaskShape
    <3>. QED  BY <3>1, <3>2, KeptByOthers
  <2>. QED  BY <2>1, <2>2, KeptByRecord, KeptByMark DEF Step
<1>3. CASE Activate
  BY <1>3, KeptByActivate
<1>4. CASE HotReload \/ EditFile
  BY <1>4, KeptByOthers DEF HotReload, EditFile, registry
<1>5. CASE Restart \/ CrashInActivation
  <2>1. UNCHANGED <<history, active, pending>>
    BY <1>5 DEF Restart, CrashInActivation, registry, Registry!Slip
  <2>2. \A s \in Requests : task'[s] = task[s] \/ (task'[s].pc = "done" /\ task'[s].answer = None)
    BY <1>5 DEF Restart, CrashInActivation, Start, Moved
  <2>. QED  BY <2>1, <2>2, KeptByOthers, RequestsAssumption
<1>6. CASE UNCHANGED vars
  BY <1>6, KeptByOthers DEF vars
<1>. QED  BY <1>1, <1>2, <1>3, <1>4, <1>5, <1>6 DEF Next

LEMMA KeptAlways == Spec => []Kept
<1>1. Init => Kept
  <2>. SUFFICES ASSUME Init PROVE Kept
    OBVIOUS
  <2>1. DOMAIN history = {} /\ active = None /\ pending = None
    BY DEF Init, Registry!Init
  <2>2. \A r \in Requests : task[r].pc = "idle" /\ task[r].answer = None
    BY DEF Init, NoTask
  <2>. QED  BY <2>1, <2>2, RequestsAssumption DEF Kept, HistoryShape, Marking, AcknowledgedStays
<1>2. IInv /\ Kept /\ [Next]_vars => Kept'
  BY KeptByNext
<1>. QED  BY <1>1, <1>2, AdmittedStaysAdmitted, PTL DEF Spec

\* For any requests, forms and configurations: the candidate of a form that was
\* answered with a revision is stored, and it or a newer one is pending or active.
THEOREM AcknowledgedAlwaysStays == Spec => []AcknowledgedStays
<1>1. Kept => AcknowledgedStays
  BY DEF Kept
<1>. QED  BY <1>1, KeptAlways, PTL

----------------------------------------------------------------------------
(* Types: whatever is staged was validated first. *)

StagedValid ==
    \A r \in Requests : task[r].pc \in Staging => task[r].candidate \in ValidConfigs

Typed == TypeOK /\ StagedValid

\* Each way of making a candidate ends in validation.
LEMMA CandidatesValid ==
    ASSUME NEW config, NEW form, NEW candidate \in Candidates(config, form)
    PROVE  Valid(candidate)
<1>1. ASSUME candidate \in RouteCreated(config, form) PROVE Valid(candidate)
  BY <1>1 DEF RouteCreated, WithRoutes
<1>2. ASSUME candidate \in RouteUpdated(config, form) PROVE Valid(candidate)
  BY <1>2 DEF RouteUpdated, WithRoutes
<1>3. ASSUME candidate \in RouteDeleted(config, form) PROVE Valid(candidate)
  BY <1>3 DEF RouteDeleted, WithRoutes
<1>4. ASSUME candidate \in UpstreamCreated(config, form) PROVE Valid(candidate)
  BY <1>4 DEF UpstreamCreated, WithUpstreams
<1>5. ASSUME candidate \in UpstreamUpdated(config, form) PROVE Valid(candidate)
  BY <1>5 DEF UpstreamUpdated, WithUpstreams
<1>6. ASSUME candidate \in UpstreamDeleted(config, form) PROVE Valid(candidate)
  BY <1>6 DEF UpstreamDeleted, WithUpstreams
<1>. QED  BY <1>1, <1>2, <1>3, <1>4, <1>5, <1>6 DEF Candidates

LEMMA TypedInit == Init => Typed
<1>. SUFFICES ASSUME Init PROVE Typed
  OBVIOUS
<1>1. /\ current = InitialConfig /\ active = None /\ pending = None
      /\ DOMAIN history = {}
  BY DEF Init, Registry!Init
<1>2. /\ process.config = InitialConfig /\ process.started = InitialConfig
      /\ process.token = 1
  BY DEF Init, Process
<1>3. \A r \in Requests : task[r].pc = "idle" /\ task[r].answer = None
  BY DEF Init, NoTask
<1>4. lock = None
  BY DEF Init
<1>. QED  BY <1>1, <1>2, <1>3, <1>4, InitialConfigAssumption, BoundsAssumption
          DEF Typed, TypeOK, StagedValid, Staging

\* Steps that leave the files alone.
LEMMA TypedByOthers ==
    ASSUME Typed, UNCHANGED <<history, active, pending>>,
           current' \in ValidConfigs,
           process'.config \in ValidConfigs /\ process'.started \in ValidConfigs,
           process'.token \in 1..MaxStarts,
           lock' \in Requests \cup {None},
           \A s \in Requests :
             \/ task'[s] = task[s]
             \/ /\ task'[s].answer \in {None, 200, 403, 422, 500, 503}
                /\ task'[s].pc \in Staging => task'[s].candidate \in ValidConfigs
    PROVE  Typed'
<1>1. TypeOK'
  BY DEF Typed, TypeOK
<1>2. StagedValid'
  BY DEF Typed, StagedValid
<1>. QED  BY <1>1, <1>2 DEF Typed

LEMMA TypedByPost ==
    ASSUME IInv, Typed, NEW r \in Requests, Post(r)
    PROVE  Typed'
<1>1. PICK form, token, pc, candidate, answer :
        /\ form \in Forms
        /\ Posted(r, form, token, pc, candidate, answer)
        /\ answer \in {None, 200, 403, 422, 500, 503}
        /\ pc = "done" \/ candidate \in Candidates(process.config, form)
  BY DEF Post, ValidateUpstream, Deny, Unavailable, Refuse, Admit
<1>2. /\ task'[r].pc = pc /\ task'[r].candidate = candidate /\ task'[r].answer = answer
      /\ \A s \in Requests \ {r} : task'[s] = task[s]
      /\ UNCHANGED <<current, history, active, pending, process, lock>>
  BY <1>1 DEF Posted, registry, IInv, TaskShape
<1>3. pc \in Staging => candidate \in ValidConfigs
  <2>. SUFFICES ASSUME pc \in Staging PROVE candidate \in ValidConfigs
    OBVIOUS
  <2>1. candidate \in Candidates(process.config, form)
    BY <1>1 DEF Staging
  <2>2. Valid(candidate)
    BY <2>1, CandidatesValid
  <2>3. candidate \in Configs
    BY <1>1, <2>1, <2>2, ConfigsAssumption DEF Typed, TypeOK
  <2>. QED  BY <2>2, <2>3 DEF ValidConfigs
<1>. QED  BY <1>1, <1>2, <1>3, TypedByOthers DEF Typed, TypeOK

LEMMA TypedByStep ==
    ASSUME IInv, Kept, Typed, NEW r \in Requests, Step(r)
    PROVE  Typed'
<1>1. CASE AcquireLifecycle(r) \/ StageFails(r)
  <2>1. PICK pc, revision, answer :
          /\ task' = [task EXCEPT ![r] = Moved(task[r], pc, revision, answer)]
          /\ task[r].pc \in Staging
          /\ answer \in {None, 500}
          /\ lock' \in {r, None}
          /\ UNCHANGED <<current, history, active, pending, process>>
    <3>1. CASE AcquireLifecycle(r)
      BY <3>1 DEF AcquireLifecycle, Staging, registry
    <3>2. CASE StageFails(r)
      <4>1. task' = [task EXCEPT ![r] = Moved(task[r], "done", task[r].revision, 500)]
        BY <3>2 DEF StageFails, Answer
      <4>2. /\ task[r].pc \in Staging /\ lock' = None
            /\ UNCHANGED <<current, history, active, pending, process>>
        BY <3>2 DEF StageFails, Answer, Staging, registry
      <4>. QED  BY <4>1, <4>2
    <3>. QED  BY <1>1, <3>1, <3>2
  <2>2. /\ task'[r].candidate = task[r].candidate /\ task'[r].answer = answer
        /\ \A s \in Requests \ {r} : task'[s] = task[s]
    BY <2>1 DEF Moved, IInv, TaskShape
  <2>3. task[r].candidate \in ValidConfigs
    BY <2>1 DEF Typed, StagedValid
  <2>. QED  BY <2>1, <2>2, <2>3, TypedByOthers DEF Typed, TypeOK
<1>2. CASE Record(r)
  <2>1. PICK n \in 1..MaxRevision :
          /\ Registry!Record(n, task[r].candidate)
          /\ task' = [task EXCEPT ![r] = Moved(task[r], "marking", n, None)]
          /\ task[r].pc = "recording"
          /\ UNCHANGED <<process, lock>>
    BY <1>2 DEF Record
  <2>2. /\ DOMAIN history' = DOMAIN history \cup {n}
        /\ history'[n] = task[r].candidate
        /\ \A m \in DOMAIN history \ {n} : history'[m] = history[m]
        /\ UNCHANGED <<current, active, pending>>
    BY <2>1 DEF Registry!Record
  <2>3. /\ task'[r].candidate = task[r].candidate /\ task'[r].answer = None
        /\ \A s \in Requests \ {r} : task'[s] = task[s]
    BY <2>1 DEF Moved, IInv, TaskShape
  <2>4. task[r].candidate \in ValidConfigs
    BY <2>1 DEF Typed, StagedValid, Staging
  <2>5. TypeOK'
    BY <2>1, <2>2, <2>3, <2>4 DEF Typed, TypeOK
  <2>6. StagedValid'
    BY <2>3, <2>4 DEF Typed, StagedValid
  <2>. QED  BY <2>5, <2>6 DEF Typed
<1>3. CASE MarkPending(r)
  <2>1. /\ task' = [task EXCEPT ![r] = Moved(task[r], "done", task[r].revision, 200)]
        /\ task[r].pc = "marking" /\ lock' = None
        /\ pending' = task[r].revision
        /\ UNCHANGED <<current, history, active, process>>
    BY <1>3 DEF MarkPending, Answer, Registry!MarkPending
  <2>2. task[r].revision \in DOMAIN history
    BY <2>1 DEF Kept, Marking
  <2>3. /\ task'[r].pc = "done" /\ task'[r].answer = 200
        /\ \A s \in Requests \ {r} : task'[s] = task[s]
    BY <2>1 DEF Moved, IInv, TaskShape
  <2>4. TypeOK'
    BY <2>1, <2>2, <2>3 DEF Typed, TypeOK
  <2>5. StagedValid'
    BY <2>3 DEF Typed, StagedValid, Staging
  <2>. QED  BY <2>4, <2>5 DEF Typed
<1>. QED  BY <1>1, <1>2, <1>3 DEF Step

LEMMA TypedByStart ==
    ASSUME Typed, Start, current' \in ValidConfigs, UNCHANGED <<history, active, pending>>
    PROVE  Typed'
<1>1. /\ process'.config = current' /\ process'.started = current'
      /\ process'.token = process.token + 1 /\ process.token < MaxStarts
      /\ lock' = None
  BY DEF Start, Process
<1>2. process'.token \in 1..MaxStarts
  BY <1>1, BoundsAssumption DEF Typed, TypeOK
<1>3. \A s \in Requests : task'[s] = task[s] \/ (task'[s].pc = "done" /\ task'[s].answer = None)
  BY DEF Start, Moved
<1>4. \A s \in Requests :
        \/ task'[s] = task[s]
        \/ task'[s].answer = None /\ task'[s].pc \notin Staging
  BY <1>3 DEF Staging
<1>. QED  BY <1>1, <1>2, <1>4, TypedByOthers

LEMMA TypedByNext ==
    ASSUME IInv, Kept, Typed, [Next]_vars
    PROVE  Typed'
<1>1. CASE \E r \in Requests : Post(r) \/ Step(r)
  BY <1>1, TypedByPost, TypedByStep
<1>2. CASE Activate
  <2>1. /\ pending \in DOMAIN history /\ current' = history[pending]
        /\ active' = pending /\ pending' = None
        /\ UNCHANGED <<history, process, task, lock>>
    BY <1>2 DEF Activate, Registry!Activate
  <2>. QED  BY <2>1 DEF Typed, TypeOK, StagedValid
<1>3. CASE HotReload
  <2>1. /\ process'.config = current /\ process'.started = process.started
        /\ process'.token = process.token
        /\ UNCHANGED <<current, history, active, pending, task, lock>>
    BY <1>3 DEF HotReload, Process, registry
  <2>. QED  BY <2>1, TypedByOthers DEF Typed, TypeOK
<1>4. CASE EditFile
  BY <1>4, TypedByOthers, InitialConfigAssumption DEF EditFile, Typed, TypeOK
<1>5. CASE Restart
  BY <1>5, TypedByStart DEF Restart, registry, Typed, TypeOK
<1>6. CASE CrashInActivation
  <2>1. /\ pending \in DOMAIN history /\ current' = history[pending]
        /\ UNCHANGED <<history, active, pending>>
    BY <1>6 DEF CrashInActivation, Registry!Slip
  <2>. QED  BY <1>6, <2>1, TypedByStart DEF CrashInActivation, Typed, TypeOK
<1>7. CASE UNCHANGED vars
  BY <1>7, TypedByOthers DEF vars, Typed, TypeOK
<1>. QED  BY <1>1, <1>2, <1>3, <1>4, <1>5, <1>6, <1>7 DEF Next

LEMMA TypedAlways == Spec => []Typed
  BY TypedInit, TypedByNext, AdmittedStaysAdmitted, KeptAlways, PTL DEF Spec

\* For any requests, forms and configurations: the types of the admin's state. Only
\* configurations that are valid are ever recorded, active or running.
THEOREM TypeCorrect == Spec => []TypeOK
<1>1. Typed => TypeOK
  BY DEF Typed
<1>. QED  BY <1>1, TypedAlways, PTL

----------------------------------------------------------------------------
(* The restart flag of an activation. *)

\* The difference of two configurations asks for a restart exactly when replacing the
\* one by the other would be refused, which compares them as a whole.
LEMMA RestartIsStructure ==
    ASSUME NEW old, NEW new, IsMap(old.upstreams), IsMap(new.upstreams)
    PROVE  RestartRequired(Diff(old, new)) <=> ~SameStructure(old, new)
<1>. DEFINE diff == Diff(old, new)
<1>1. /\ diff.server = (old.server # new.server)
      /\ diff.admin = (old.admin # new.admin)
      /\ diff.upstreamsAdded = Added(old.upstreams, new.upstreams)
      /\ diff.upstreamsRemoved = Added(new.upstreams, old.upstreams)
      /\ diff.upstreamsChanged = Changed(old.upstreams, new.upstreams)
  BY DEF Diff
<1>2. /\ Added(old.upstreams, new.upstreams) = {}
      /\ Added(new.upstreams, old.upstreams) = {}
      /\ Changed(old.upstreams, new.upstreams) = {}
      => old.upstreams = new.upstreams
  BY DEF Added, Changed, IsMap
<1>3. old.upstreams = new.upstreams =>
        /\ Added(old.upstreams, new.upstreams) = {}
        /\ Added(new.upstreams, old.upstreams) = {}
        /\ Changed(old.upstreams, new.upstreams) = {}
  BY DEF Added, Changed
<1>. HIDE DEF diff
<1>4. RestartRequired(diff) <=> ~SameStructure(old, new)
  BY <1>1, <1>2, <1>3 DEF RestartRequired, SameStructure
<1>. QED  BY <1>4 DEF diff

\* For any configurations and forms: to a process that runs what the replaced file
\* says, an activation reports a restart exactly when replacing the routes would be
\* refused.
THEOREM FlagAlwaysMatches == Spec => FlagMatchesReload
<1>1. Typed /\ [Next]_vars =>
        [activation'.revision # activation.revision /\ activation'.revision # None
         /\ SameStructure(process.config, current) =>
           (activation'.restart <=> ~SameStructure(process.config, current'))]_vars
  <2>. SUFFICES ASSUME Typed, [Next]_vars,
                       activation'.revision # activation.revision,
                       activation'.revision # None,
                       SameStructure(process.config, current)
                PROVE  activation'.restart <=> ~SameStructure(process.config, current')
    OBVIOUS
  <2>1. Activate
    <3>1. CASE \E r \in Requests : Post(r)
      BY <3>1 DEF Post, ValidateUpstream, Deny, Unavailable, Refuse, Admit, Posted
    <3>2. CASE \E r \in Requests : Step(r)
      BY <3>2 DEF Step, AcquireLifecycle, Record, MarkPending, StageFails
    <3>3. CASE HotReload \/ EditFile
      BY <3>3 DEF HotReload, EditFile
    <3>4. CASE Restart \/ CrashInActivation
      BY <3>4 DEF Restart, CrashInActivation, Start, NoActivation
    <3>. QED  BY <3>1, <3>2, <3>3, <3>4 DEF Next, vars
  <2>2. /\ activation'.restart = RestartRequired(Diff(current, current'))
        /\ pending \in DOMAIN history /\ current' = history[pending]
    BY <2>1 DEF Activate, Registry!Activate
  <2>3. current \in Configs /\ current' \in Configs
    BY <2>2 DEF Typed, TypeOK, ValidConfigs
  <2>4. RestartRequired(Diff(current, current')) <=> ~SameStructure(current, current')
    BY <2>3, RestartIsStructure, ConfigsAssumption
  <2>5. SameStructure(current, current') <=> SameStructure(process.config, current')
    BY DEF SameStructure
  <2>. QED  BY <2>2, <2>4, <2>5
<1>. QED  BY <1>1, TypedAlways, PTL DEF Spec, FlagMatchesReload

----------------------------------------------------------------------------
(* Editing with forms: what a candidate is. *)

\* "Validate upstream" and the handler that stages decide alike, whatever the form.
LEMMA ChecksAgree ==
    ASSUME NEW c, NEW f
    PROVE  UpstreamValidated(c, f) =
             IF Blank(f.original) THEN UpstreamCreated(c, f) ELSE UpstreamUpdated(c, f)
BY DEF UpstreamValidated, UpstreamCreated, UpstreamUpdated, Blank

\* So an upstream that "Validate upstream" accepts can be staged, and no other.
THEOREM ValidatedCanAlwaysBeStaged == EditingSpec => []ValidatedCanBeStaged
<1>1. ValidatedCanBeStaged
  BY ChecksAgree DEF ValidatedCanBeStaged
<1>. QED  BY <1>1, PTL

RouteStep(c, f, d) ==
    \E routes :
      /\ d = [c EXCEPT !.routes = routes] /\ Valid(d)
      /\ \/ f.operation # "update" /\ \E route \in CandidateRoute(f) : routes = Append(c.routes, route)
         \/ \E i \in Places(c, f), route \in CandidateRoute(f) : routes = [c.routes EXCEPT ![i] = route]
         \/ f.operation # "update" /\ \E i \in Places(c, f) : routes = RemoveAt(c.routes, i)

UpstreamStep(c, f, d) ==
    LET name == Trim(f.upstream_name)
    IN \E upstreams :
         /\ d = [c EXCEPT !.upstreams = upstreams] /\ Valid(d)
         /\ \/ name # Empty /\ \E pool \in UpstreamConfig(f) : upstreams = Inserted(c.upstreams, name, pool)
            \/ upstreams = [n \in DOMAIN c.upstreams \ {name} |-> c.upstreams[n]]

LEMMA CandidateIs ==
    ASSUME NEW c, NEW f, NEW d \in Candidates(c, f)
    PROVE  \/ f.page = "routes" /\ RouteStep(c, f, d)
           \/ f.page = "upstreams" /\ UpstreamStep(c, f, d)
<1>1. CASE f.page = "routes" /\ f.operation \in {"", "create"}
  <2>1. d \in RouteCreated(c, f)
    BY <1>1 DEF Candidates
  <2>. QED  BY <1>1, <2>1 DEF RouteCreated, WithRoutes, RouteStep
<1>2. CASE f.page = "routes" /\ f.operation = "update"
  <2>1. d \in RouteUpdated(c, f)
    BY <1>2 DEF Candidates
  <2>2. PICK i \in Places(c, f), route \in CandidateRoute(f) :
           d \in WithRoutes(c, [c.routes EXCEPT ![i] = route])
    BY <2>1 DEF RouteUpdated
  <2>. QED  BY <1>2, <2>2 DEF WithRoutes, RouteStep
<1>3. CASE f.page = "routes" /\ f.operation = "delete"
  <2>1. d \in RouteDeleted(c, f)
    BY <1>3 DEF Candidates
  <2>2. PICK i \in Places(c, f) : d \in WithRoutes(c, RemoveAt(c.routes, i))
    BY <2>1 DEF RouteDeleted
  <2>. QED  BY <1>3, <2>2 DEF WithRoutes, RouteStep
<1>4. CASE f.page = "upstreams" /\ f.operation \in {"", "create"}
  <2>1. d \in UpstreamCreated(c, f)
    BY <1>4 DEF Candidates
  <2>. QED  BY <1>4, <2>1 DEF UpstreamCreated, WithUpstreams, UpstreamStep
<1>5. CASE f.page = "upstreams" /\ f.operation = "update"
  <2>1. d \in UpstreamUpdated(c, f)
    BY <1>5 DEF Candidates
  <2>. QED  BY <1>5, <2>1 DEF UpstreamUpdated, WithUpstreams, UpstreamStep
<1>6. CASE f.page = "upstreams" /\ f.operation = "delete"
  <2>1. d \in UpstreamDeleted(c, f)
    BY <1>6 DEF Candidates
  <2>. QED  BY <1>6, <2>1 DEF UpstreamDeleted, WithUpstreams, UpstreamStep
<1>7. CASE ~ (\/ f.page = "routes" /\ f.operation \in {"", "create", "update", "delete"}
              \/ f.page = "upstreams" /\ f.operation \in {"", "create", "update", "delete"})
  <2>1. Candidates(c, f) = {}
    BY <1>7 DEF Candidates
  <2>. QED  BY <2>1
<1>. QED  BY <1>1, <1>2, <1>3, <1>4, <1>5, <1>6, <1>7

----------------------------------------------------------------------------
(* Lists. *)

LEMMA TrimTrim ==
    /\ \A text : Trim(Trim(text)) = Trim(text)
    /\ Trim(Empty) = Empty
BY TrimmedAssumption DEF Trim

\* SetToSeq lists a finite set.
LEMMA SetToSeqLists ==
    ASSUME NEW S, IsFiniteSet(S)
    PROVE  /\ Cardinality(S) \in Nat
           /\ DOMAIN SetToSeq(S) = 1..Cardinality(S)
           /\ \A i \in 1..Cardinality(S) : SetToSeq(S)[i] \in S
           /\ \A i, j \in 1..Cardinality(S) : SetToSeq(S)[i] = SetToSeq(S)[j] => i = j
           /\ \A x \in S : \E i \in 1..Cardinality(S) : SetToSeq(S)[i] = x
           /\ IsList(SetToSeq(S))
<1>. DEFINE n == Cardinality(S)
            q == SetToSeq(S)
<1>1. n \in Nat /\ ExistsBijection(1..n, S)
  BY FS_CardinalityType
<1>2. \E f \in [1..n -> S] : IsInjective(f)
  BY <1>1 DEF ExistsBijection, Bijection, Injection
<1>3. q \in [1..n -> S] /\ IsInjective(q)
  BY <1>2, Zenon DEF SetToSeq
<1>4. IsFiniteSet(1..n) /\ Cardinality(1..n) = n
  BY <1>1, FS_Interval
<1>5. q \in Surjection(1..n, S)
  <2>1. q \in Injection(1..n, S)
    BY <1>3 DEF Injection
  <2>. HIDE DEF q
  <2>. QED  BY <2>1, <1>4, FS_Injection
<1>. HIDE DEF q, n
<1>6. \A x \in S : \E i \in 1..n : q[i] = x
  BY <1>5 DEF Surjection
<1>7. q \in Seq(ToSet(q))
  BY <1>1, <1>3 DEF ToSet
<1>8. /\ n \in Nat
      /\ DOMAIN q = 1..n
      /\ \A i \in 1..n : q[i] \in S
      /\ \A i, j \in 1..n : q[i] = q[j] => i = j
      /\ \A x \in S : \E i \in 1..n : q[i] = x
      /\ IsList(q)
  BY <1>1, <1>3, <1>6, <1>7 DEF IsInjective, IsList
<1>. QED  BY <1>8 DEF q, n

LEMMA ListsAreFinite ==
    ASSUME NEW texts, IsList(texts)
    PROVE  /\ Len(texts) \in Nat /\ DOMAIN texts = 1..Len(texts)
           /\ IsFiniteSet(DOMAIN texts)
<1>1. Len(texts) \in Nat /\ DOMAIN texts = 1..Len(texts)
  BY DEF IsList
<1>. QED  BY <1>1, FS_Interval

LEMMA PiecesFinite ==
    ASSUME NEW texts, IsList(texts)
    PROVE  IsFiniteSet(Pieces(texts))
<1>1. IsFiniteSet(DOMAIN texts)
  BY ListsAreFinite
<1>2. IsFiniteSet({Trim(texts[i]) : i \in DOMAIN texts})
  <2>. DEFINE f == [i \in DOMAIN texts |-> Trim(texts[i])]
  <2>1. f \in Surjection(DOMAIN texts, {Trim(texts[i]) : i \in DOMAIN texts})
    BY DEF Surjection
  <2>. QED  BY <1>1, <2>1, FS_Surjection
<1>. QED  BY <1>2, FS_Difference DEF Pieces

\* Pieces that have been taken once are taken again as they are.
LEMMA PiecesAgain ==
    ASSUME NEW texts, IsList(texts)
    PROVE  Pieces(SetToSeq(Pieces(texts))) = Pieces(texts)
<1>. DEFINE S == Pieces(texts)
<1>1. /\ DOMAIN SetToSeq(S) = 1..Cardinality(S)
      /\ \A i \in 1..Cardinality(S) : SetToSeq(S)[i] \in S
      /\ \A x \in S : \E i \in 1..Cardinality(S) : SetToSeq(S)[i] = x
  BY PiecesFinite, SetToSeqLists
<1>2. \A x \in S : Trim(x) = x /\ x # Empty
  BY TrimTrim DEF Pieces
<1>. HIDE DEF S
<1>3. Pieces(SetToSeq(S)) = S
  BY <1>1, <1>2 DEF Pieces
<1>. QED  BY <1>3 DEF S

\* ParseHeaders, with the places of the lines that are not blank given.
ParseUsed(lines, remove, used) ==
    LET name == [i \in used |-> Trim(lines[i].name)]
    IN IF \/ \E i \in used : lines[i] = Junk
          \/ \E i \in used : name[i] = Empty
          \/ \E i, j \in used : i # j /\ name[i] = name[j]
       THEN {}
       ELSE {[add |-> [n \in {name[i] : i \in used} |->
                         Trim(lines[CHOOSE i \in used : name[i] = n].value)],
              remove |-> Pieces(remove)]}

LEMMA ParseHeadersParsesUsed ==
    ASSUME NEW lines, NEW remove
    PROVE  ParseHeaders(lines, remove) =
             ParseUsed(lines, remove, {i \in DOMAIN lines : lines[i] # None})
BY DEF ParseHeaders, ParseUsed

\* A transform that a form wrote, with its lines written again.
LEMMA HeadersAgain ==
    ASSUME NEW lines, IsList(lines), NEW remove, IsList(remove),
           NEW headers \in ParseHeaders(lines, remove), ValidHeaders(headers)
    PROVE  /\ IsHeaders(headers)
           /\ ParseHeaders(Lines(headers), SetToSeq(headers.remove)) = {headers}
<1>. DEFINE used == {i \in DOMAIN lines : lines[i] # None}
            name == [i \in used |-> Trim(lines[i].name)]
            N == {name[i] : i \in used}
            add == [n \in N |-> Trim(lines[CHOOSE i \in used : name[i] = n].value)]
<1>1. /\ ~ \E i \in used : name[i] = Empty
      /\ headers = [add |-> add, remove |-> Pieces(remove)]
  BY DEF ParseHeaders
<1>2. /\ DOMAIN headers.add = N /\ headers.remove = Pieces(remove)
      /\ headers.add = [n \in N |-> headers.add[n]]
      /\ headers = [add |-> headers.add, remove |-> headers.remove]
  BY <1>1
<1>3. \A n \in N : Trim(n) = n /\ n # Empty
  BY <1>1, TrimTrim
<1>4. \A n \in N : Trim(headers.add[n]) = headers.add[n]
  BY <1>1, TrimTrim
<1>5. IsFiniteSet(N)
  <2>1. IsFiniteSet(used)
    BY ListsAreFinite, FS_Subset
  <2>2. name \in Surjection(used, N)
    BY DEF Surjection
  <2>. QED  BY <2>1, <2>2, FS_Surjection
<1>6. \A n \in N : n \in HeaderNames /\ headers.add[n] \in HeaderValues
  BY <1>2 DEF ValidHeaders
<1>. HIDE DEF used, name, N, add
<1>7. IsHeaders(headers)
  BY <1>2, <1>5, PiecesFinite DEF IsHeaders
<1>. DEFINE q == SetToSeq(N)
            m == Cardinality(N)
            rows == Lines(headers)
            names == [i \in 1..m |-> Trim(rows[i].name)]
<1>8. /\ m \in Nat /\ DOMAIN q = 1..m
      /\ \A i \in 1..m : q[i] \in N
      /\ \A i, j \in 1..m : q[i] = q[j] => i = j
      /\ \A n \in N : \E i \in 1..m : q[i] = n
  BY <1>5, SetToSeqLists
<1>9. /\ DOMAIN rows = 1..m
      /\ \A i \in 1..m : rows[i] = [name |-> q[i], value |-> headers.add[q[i]]]
  BY <1>2 DEF Lines
<1>. HIDE DEF q, m, rows
<1>10. \A i \in 1..m : rows[i] # None /\ rows[i] # Junk
  BY <1>6, <1>8, <1>9, LinesAssumption
<1>11. {i \in DOMAIN rows : rows[i] # None} = 1..m
  BY <1>9, <1>10
<1>12. \A i \in 1..m : names[i] = q[i]
  BY <1>3, <1>8, <1>9
<1>13. {names[i] : i \in 1..m} = N
  BY <1>8, <1>12
<1>14. ASSUME NEW n \in N
       PROVE  Trim(rows[CHOOSE i \in 1..m : names[i] = n].value) = headers.add[n]
  <2>1. \E i \in 1..m : names[i] = n
    BY <1>8, <1>12
  <2>. DEFINE i == CHOOSE i \in 1..m : names[i] = n
  <2>2. i \in 1..m /\ names[i] = n
    <3>. HIDE DEF names
    <3>. QED  BY <2>1
  <2>. HIDE DEF i
  <2>3. rows[i].value = headers.add[n]
    BY <1>9, <1>12, <2>2
  <2>. QED  BY <1>4, <2>3 DEF i
<1>15. [n \in {names[i] : i \in 1..m} |-> Trim(rows[CHOOSE i \in 1..m : names[i] = n].value)] = headers.add
  <2>. HIDE DEF names
  <2>. QED  BY <1>2, <1>13, <1>14
<1>16. Pieces(SetToSeq(headers.remove)) = headers.remove
  BY <1>2, PiecesAgain
<1>17. ParseHeaders(rows, SetToSeq(headers.remove)) = ParseUsed(rows, SetToSeq(headers.remove), 1..m)
  BY <1>11, ParseHeadersParsesUsed
<1>18. ~ (\/ \E i \in 1..m : rows[i] = Junk
          \/ \E i \in 1..m : names[i] = Empty
          \/ \E i, j \in 1..m : i # j /\ names[i] = names[j])
  <2>. HIDE DEF names
  <2>. QED  BY <1>3, <1>8, <1>10, <1>12
<1>19. ParseHeaders(rows, SetToSeq(headers.remove)) = {headers}
  <2>. QED  BY <1>2, <1>15, <1>16, <1>17, <1>18 DEF ParseUsed
<1>. QED  BY <1>7, <1>19 DEF rows

LEMMA LimitAgain ==
    ASSUME NEW requests, NEW window, NEW limit \in ParseLimit(requests, window)
    PROVE  ParseLimit(IF limit = None THEN None ELSE limit.requests,
                      IF limit = None THEN None ELSE limit.window) = {limit}
<1>1. CASE limit = None
  <2>1. ParseLimit(None, None) = {None}
    BY NumbersAssumption DEF ParseLimit
  <2>. QED  BY <1>1, <2>1
<1>2. CASE limit # None
  <2>1. /\ limit = [requests |-> requests, window |-> window]
        /\ requests # None /\ window # None /\ Junk \notin {requests, window}
    BY <1>2 DEF ParseLimit
  <2>2. ParseLimit(requests, window) = {[requests |-> requests, window |-> window]}
    BY <2>1 DEF ParseLimit
  <2>. QED  BY <1>2, <2>1, <2>2
<1>. QED  BY <1>1, <1>2

LEMMA HostAgain ==
    ASSUME NEW text, NEW host, host = NonEmpty(text)
    PROVE  NonEmpty(IF host = None THEN Empty ELSE host) = host
BY TrimTrim DEF NonEmpty, Blank

\* A route that a form can hold: its name is trimmed and its prefilled form
\* makes this route again.
Written(route) ==
    /\ Trim(route.name) = route.name
    /\ CandidateRoute(RenderRoute(route)) = {route}

LEMMA RouteIsWritten ==
    ASSUME NEW form, IsForm(form), form.page = "routes", NEW route \in CandidateRoute(form),
           ValidHeaders(route.request), ValidHeaders(route.response)
    PROVE  IsRoute(route) /\ Written(route) /\ route.name = Trim(form.name)
<1>1. PICK priority \in ParseOptional(form.priority), max_body \in ParseOptional(form.max_body),
           request \in ParseHeaders(form.request_add, form.request_remove),
           response \in ParseHeaders(form.response_add, form.response_remove),
           limit \in ParseLimit(form.requests, form.window) :
        route = [name |-> Trim(form.name), host |-> NonEmpty(form.host), path |-> form.path,
                 methods |-> Pieces(form.methods), upstream |-> Trim(form.upstream),
                 priority |-> IF priority = None THEN 0 ELSE priority,
                 request |-> request, response |-> response, limit |-> limit,
                 max_body |-> max_body]
  BY DEF CandidateRoute
<1>2. /\ route.name = Trim(form.name) /\ route.host = NonEmpty(form.host)
      /\ route.path = form.path /\ route.methods = Pieces(form.methods)
      /\ route.upstream = Trim(form.upstream)
      /\ route.priority = (IF priority = None THEN 0 ELSE priority)
      /\ route.request = request /\ route.response = response
      /\ route.limit = limit /\ route.max_body = max_body
      /\ route = [name |-> route.name, host |-> route.host, path |-> route.path,
                  methods |-> route.methods, upstream |-> route.upstream,
                  priority |-> route.priority, request |-> route.request,
                  response |-> route.response, limit |-> route.limit,
                  max_body |-> route.max_body]
  BY <1>1
<1>3. route.priority \in Int
  <2>1. priority \in Numbers \ {Junk}
    BY DEF IsForm, ParseOptional
  <2>. QED  BY <1>2, <2>1 DEF Numbers
<1>4. IsHeaders(route.request) /\ IsHeaders(route.response)
  BY <1>2, HeadersAgain DEF IsForm
<1>5. IsFiniteSet(route.methods)
  BY <1>2, PiecesFinite DEF IsForm
<1>6. IsRoute(route)
  BY <1>2, <1>3, <1>4, <1>5 DEF IsRoute, IsForm
<1>. DEFINE f == RenderRoute(route)
<1>7. /\ f.name = route.name /\ f.path = route.path /\ f.upstream = route.upstream
      /\ f.host = (IF route.host = None THEN Empty ELSE route.host)
      /\ f.methods = SetToSeq(route.methods)
      /\ f.priority = route.priority /\ f.max_body = route.max_body
      /\ f.request_add = Lines(route.request) /\ f.request_remove = SetToSeq(route.request.remove)
      /\ f.response_add = Lines(route.response) /\ f.response_remove = SetToSeq(route.response.remove)
      /\ f.requests = (IF route.limit = None THEN None ELSE route.limit.requests)
      /\ f.window = (IF route.limit = None THEN None ELSE route.limit.window)
  BY DEF RenderRoute
<1>. HIDE DEF f
<1>8. ParseOptional(f.priority) = {route.priority} /\ route.priority # None
  BY <1>3, <1>7, NumbersAssumption DEF ParseOptional
<1>9. ParseOptional(f.max_body) = {route.max_body}
  BY <1>2, <1>7 DEF ParseOptional
<1>10. ParseHeaders(f.request_add, f.request_remove) = {route.request}
  BY <1>2, <1>7, HeadersAgain DEF IsForm
<1>11. ParseHeaders(f.response_add, f.response_remove) = {route.response}
  BY <1>2, <1>7, HeadersAgain DEF IsForm
<1>12. ParseLimit(f.requests, f.window) = {route.limit}
  BY <1>2, <1>7, LimitAgain
<1>13. /\ Trim(f.name) = route.name /\ Trim(f.upstream) = route.upstream
       /\ NonEmpty(f.host) = route.host /\ Pieces(f.methods) = route.methods
  BY <1>2, <1>7, TrimTrim, HostAgain, PiecesAgain DEF IsForm
<1>14. CandidateRoute(f) =
         {[name |-> route.name, host |-> route.host, path |-> route.path,
           methods |-> route.methods, upstream |-> route.upstream,
           priority |-> route.priority, request |-> route.request,
           response |-> route.response, limit |-> route.limit,
           max_body |-> route.max_body]}
  BY <1>7, <1>8, <1>9, <1>10, <1>11, <1>12, <1>13 DEF CandidateRoute
<1>15. CandidateRoute(f) = {route}
  BY <1>2, <1>14
<1>. QED  BY <1>2, <1>6, <1>15, TrimTrim DEF Written, f

----------------------------------------------------------------------------
(* Pools. *)

\* In a list, each number up to that of the kept texts is the rank of one.
LEMMA EveryPieceTaken ==
    ASSUME NEW texts, IsList(texts)
    PROVE  LET kept == {i \in DOMAIN texts : ~Blank(texts[i])}
           IN /\ Cardinality(kept) \in Nat
              /\ \A n \in 1..Cardinality(kept) :
                   \E i \in kept : n = Cardinality({j \in kept : j <= i})
<1>. DEFINE kept == {i \in DOMAIN texts : ~Blank(texts[i])}
            upTo(i) == {j \in kept : j <= i}
            m == Cardinality(kept)
            rank == [i \in kept |-> Cardinality(upTo(i))]
<1>1. IsFiniteSet(kept) /\ kept \subseteq Nat
  <2>1. IsFiniteSet(DOMAIN texts) /\ DOMAIN texts \subseteq Nat
    BY ListsAreFinite
  <2>. QED  BY <2>1, FS_Subset
<1>. HIDE DEF kept
<1>2. m \in Nat
  BY <1>1, FS_CardinalityType
<1>3. \A i \in kept : IsFiniteSet(upTo(i)) /\ Cardinality(upTo(i)) \in 1..m
  <2>. SUFFICES ASSUME NEW i \in kept PROVE IsFiniteSet(upTo(i)) /\ Cardinality(upTo(i)) \in 1..m
    OBVIOUS
  <2>1. upTo(i) \in SUBSET kept /\ i \in upTo(i)
    BY <1>1
  <2>2. IsFiniteSet(upTo(i)) /\ Cardinality(upTo(i)) <= m /\ Cardinality(upTo(i)) \in Nat
    BY <1>1, <2>1, FS_Subset, FS_CardinalityType
  <2>3. Cardinality(upTo(i)) # 0
    BY <2>1, <2>2, FS_EmptySet
  <2>. QED  BY <1>2, <2>2, <2>3
<1>4. \A i, j \in kept : rank[i] = rank[j] => i = j
  <2>. SUFFICES ASSUME NEW i \in kept, NEW j \in kept, i < j
                PROVE  Cardinality(upTo(i)) # Cardinality(upTo(j))
    BY <1>1
  <2>1. /\ i \in Nat /\ j \in Nat
        /\ \A k \in kept : k \in Nat
    BY <1>1
  <2>2. upTo(i) \in SUBSET upTo(j)
    <3>1. ASSUME NEW k \in upTo(i) PROVE k \in upTo(j)
      <4>1. k \in kept /\ k \in Nat /\ k <= i
        BY <2>1
      <4>2. k <= j
        BY <2>1, <4>1
      <4>. QED  BY <4>1, <4>2
    <3>. QED  BY <3>1
  <2>3. j \in upTo(j) /\ j \notin upTo(i)
    BY <2>1
  <2>. QED  BY <1>3, <2>2, <2>3, FS_Subset
<1>5. IsFiniteSet(1..m) /\ Cardinality(1..m) = m
  BY <1>2, FS_Interval
<1>6. rank \in Injection(kept, 1..m)
  <2>1. rank \in [kept -> 1..m]
    BY <1>3
  <2>. HIDE DEF rank
  <2>. QED  BY <1>4, <2>1, Fun_IsInj
<1>7. rank \in Surjection(kept, 1..m)
  <2>. HIDE DEF rank
  <2>. QED  BY <1>5, <1>6, FS_Injection
<1>8. \A n \in 1..m : \E i \in kept : rank[i] = n
  <2>. HIDE DEF rank, m
  <2>. QED  BY <1>7 DEF Surjection
<1>9. \A n \in 1..m : \E i \in kept : n = Cardinality(upTo(i))
  BY <1>8
<1>. QED  BY <1>2, <1>9 DEF kept

\* PiecesInOrder, with the places of those that are not blank given.
InOrder(texts, kept) ==
    [n \in 1..Cardinality(kept) |->
       Trim(texts[CHOOSE i \in kept : n = Cardinality({j \in kept : j <= i})])]

LEMMA PiecesAreInOrder ==
    ASSUME NEW texts
    PROVE  PiecesInOrder(texts) = InOrder(texts, {i \in DOMAIN texts : ~Blank(texts[i])})
BY DEF PiecesInOrder, InOrder

LEMMA PiecesInOrderAgain ==
    ASSUME NEW texts, IsList(texts)
    PROVE  /\ IsList(PiecesInOrder(texts))
           /\ PiecesInOrder(PiecesInOrder(texts)) = PiecesInOrder(texts)
<1>. DEFINE kept == {i \in DOMAIN texts : ~Blank(texts[i])}
            m == Cardinality(kept)
            place(n) == CHOOSE i \in kept : n = Cardinality({j \in kept : j <= i})
            q == PiecesInOrder(texts)
<1>1. m \in Nat /\ \A n \in 1..m : \E i \in kept : n = Cardinality({j \in kept : j <= i})
  BY EveryPieceTaken
<1>2. \A n \in 1..m : place(n) \in kept
  <2>. HIDE DEF kept, m
  <2>. QED  BY <1>1
<1>3. q = [n \in 1..m |-> Trim(texts[place(n)])]
  BY DEF PiecesInOrder
<1>4. \A n \in 1..m : Trim(q[n]) = q[n] /\ q[n] # Empty
  <2>1. \A i \in kept : Trim(texts[i]) # Empty
    BY DEF Blank
  <2>. HIDE DEF q, kept, m, place
  <2>. QED  BY <1>2, <1>3, <2>1, TrimTrim
<1>5. DOMAIN q = 1..m /\ q = [n \in 1..m |-> q[n]]
  BY <1>3
<1>. HIDE DEF q, kept, m, place
<1>6. IsList(q)
  <2>1. q \in [1..m -> ToSet(q)]
    BY <1>5 DEF ToSet
  <2>. QED  BY <1>1, <2>1 DEF IsList
<1>7. {i \in DOMAIN q : ~Blank(q[i])} = 1..m
  BY <1>4, <1>5 DEF Blank
<1>8. Cardinality(1..m) = m
  BY <1>1, FS_Interval
<1>9. ASSUME NEW n \in 1..m
      PROVE  (CHOOSE i \in 1..m : n = Cardinality({j \in 1..m : j <= i})) = n
  <2>1. ASSUME NEW i \in 1..m PROVE Cardinality({j \in 1..m : j <= i}) = i
    <3>1. {j \in 1..m : j <= i} = 1..i
      BY <1>1
    <3>2. Cardinality(1..i) = i
      BY FS_Interval
    <3>. QED  BY <3>1, <3>2
  <2>. QED  BY <2>1
<1>10. PiecesInOrder(q) = InOrder(q, 1..m)
  BY <1>7, PiecesAreInOrder
<1>11. PiecesInOrder(q) = q
  <2>. DEFINE again == InOrder(q, 1..m)
  <2>1. DOMAIN again = 1..m /\ again = [n \in 1..m |-> again[n]]
    BY <1>8 DEF InOrder
  <2>2. \A n \in 1..m : again[n] = Trim(q[CHOOSE i \in 1..m : n = Cardinality({j \in 1..m : j <= i})])
    BY <1>8 DEF InOrder
  <2>. HIDE DEF again
  <2>3. \A n \in 1..m : again[n] = q[n]
    BY <1>4, <1>9, <2>2
  <2>4. again = q
    BY <1>5, <2>1, <2>3
  <2>. QED  BY <1>10, <2>4 DEF again
<1>. QED  BY <1>6, <1>11 DEF q

WrittenPool(name, pool) ==
    /\ name # Empty /\ Trim(name) = name
    /\ UpstreamConfig(RenderUpstream(name, pool)) = {pool}

LEMMA PoolIsWritten ==
    ASSUME NEW form, IsList(form.endpoints), NEW pool \in UpstreamConfig(form), NEW text, Trim(text) # Empty
    PROVE  IsList(pool.endpoints) /\ WrittenPool(Trim(text), pool)
<1>1. PICK connect \in OptionalDuration(form.connect), read \in OptionalDuration(form.read),
           write \in OptionalDuration(form.write), interval \in RequiredDuration(form.interval) :
        /\ PiecesInOrder(form.endpoints) # <<>>
        /\ pool = [endpoints |-> PiecesInOrder(form.endpoints), connect |-> connect, read |-> read,
                   write |-> write, interval |-> interval]
  BY DEF UpstreamConfig
<1>. DEFINE f == RenderUpstream(Trim(text), pool)
<1>2. /\ f.endpoints = pool.endpoints /\ f.connect = pool.connect /\ f.read = pool.read
      /\ f.write = pool.write /\ f.interval = pool.interval
  BY DEF RenderUpstream
<1>. HIDE DEF f
<1>3. /\ pool.endpoints = PiecesInOrder(form.endpoints) /\ pool.endpoints # <<>>
      /\ pool = [endpoints |-> pool.endpoints, connect |-> pool.connect, read |-> pool.read,
                 write |-> pool.write, interval |-> pool.interval]
      /\ pool.connect = connect /\ pool.read = read /\ pool.write = write /\ pool.interval = interval
  BY <1>1
<1>4. IsList(pool.endpoints) /\ PiecesInOrder(pool.endpoints) = pool.endpoints
  BY <1>3, PiecesInOrderAgain
<1>5. /\ OptionalDuration(f.connect) = {pool.connect} /\ OptionalDuration(f.read) = {pool.read}
      /\ OptionalDuration(f.write) = {pool.write} /\ RequiredDuration(f.interval) = {pool.interval}
  BY <1>2, <1>3 DEF OptionalDuration, RequiredDuration
<1>6. {d \in RequiredDuration(f.interval) : PiecesInOrder(f.endpoints) # <<>>} = {pool.interval}
  BY <1>2, <1>3, <1>4, <1>5
<1>7. UpstreamConfig(f) = {[endpoints |-> pool.endpoints, connect |-> pool.connect, read |-> pool.read,
                            write |-> pool.write, interval |-> pool.interval]}
  BY <1>2, <1>4, <1>5, <1>6 DEF UpstreamConfig
<1>. QED  BY <1>3, <1>4, <1>7, TrimTrim DEF WrittenPool, f

----------------------------------------------------------------------------
(* Every configuration that forms lead to is well formed, and what is in it *)
(* is from the first one or a form can hold it. *)

FromForms(c) ==
    /\ IsConfig(c) /\ Valid(c)
    /\ \A i \in DOMAIN c.routes : c.routes[i] \in ToSet(FirstConfig.routes) \/ Written(c.routes[i])
    /\ \A name \in DOMAIN c.upstreams :
         \/ name \in DOMAIN FirstConfig.upstreams /\ c.upstreams[name] = FirstConfig.upstreams[name]
         \/ WrittenPool(name, c.upstreams[name])

LEMMA LinesAreList ==
    ASSUME NEW headers, IsHeaders(headers)
    PROVE  IsList(Lines(headers)) /\ IsList(SetToSeq(headers.remove))
<1>. DEFINE m == Cardinality(DOMAIN headers.add)
            rows == Lines(headers)
<1>1. m \in Nat
  BY FS_CardinalityType DEF IsHeaders
<1>2. DOMAIN rows = 1..m /\ rows = [i \in 1..m |-> rows[i]]
  BY DEF Lines
<1>. HIDE DEF m, rows
<1>3. rows \in Seq(ToSet(rows))
  <2>1. rows \in [1..m -> ToSet(rows)]
    BY <1>2 DEF ToSet
  <2>. QED  BY <1>1, <2>1
<1>4. IsList(SetToSeq(headers.remove))
  BY SetToSeqLists DEF IsHeaders
<1>. QED  BY <1>3, <1>4 DEF IsList, rows

\* A prefilled form, with other words in its fields.
LEMMA EditedRouteIsForm ==
    ASSUME NEW route, IsRoute(route), NEW priority \in Numbers, NEW path \in Seq(Characters)
    PROVE  LET prefilled == RenderRoute(route)
           IN /\ IsForm([prefilled EXCEPT !.priority = priority])
              /\ IsForm([prefilled EXCEPT !.path = path])
              /\ IsForm([prefilled EXCEPT !.operation = "delete"])
<1>. DEFINE f == RenderRoute(route)
<1>1. /\ f.page = "routes"
      /\ f.priority = route.priority /\ f.path = route.path /\ f.methods = SetToSeq(route.methods)
      /\ f.request_add = Lines(route.request) /\ f.request_remove = SetToSeq(route.request.remove)
      /\ f.response_add = Lines(route.response) /\ f.response_remove = SetToSeq(route.response.remove)
      /\ "priority" \in DOMAIN f /\ "path" \in DOMAIN f /\ "operation" \in DOMAIN f
  BY DEF RenderRoute
<1>2. /\ IsList(f.methods)
      /\ IsList(f.request_add) /\ IsList(f.request_remove)
      /\ IsList(f.response_add) /\ IsList(f.response_remove)
      /\ f.priority \in Numbers /\ f.path \in Seq(Characters)
  BY <1>1, LinesAreList, SetToSeqLists DEF IsRoute, Numbers
<1>. HIDE DEF f
<1>3. IsForm([f EXCEPT !.priority = priority])
  BY <1>1, <1>2 DEF IsForm
<1>4. IsForm([f EXCEPT !.path = path])
  BY <1>1, <1>2 DEF IsForm
<1>5. IsForm([f EXCEPT !.operation = "delete"])
  BY <1>1, <1>2 DEF IsForm
<1>. QED  BY <1>3, <1>4, <1>5 DEF f

LEMMA EditedPoolIsForm ==
    ASSUME NEW name, NEW pool, IsList(pool.endpoints), NEW interval
    PROVE  LET prefilled == RenderUpstream(name, pool)
           IN /\ IsForm([prefilled EXCEPT !.interval = interval])
              /\ IsForm([prefilled EXCEPT !.operation = "delete"])
BY DEF RenderUpstream, IsForm

LEMMA FormsAreForms ==
    ASSUME FromForms(edited)
    PROVE  \A f \in NewForms \cup Edits : IsForm(f)
<1>1. \A f \in NewForms : IsForm(f)
  BY FormsAssumption
<1>2. ASSUME NEW i \in DOMAIN edited.routes, NEW f \in RouteEdits(edited.routes[i])
      PROVE  IsForm(f)
  <2>. DEFINE prefilled == RenderRoute(edited.routes[i])
  <2>1. IsRoute(edited.routes[i])
    BY DEF FromForms, IsConfig
  <2>2. 0 \in Numbers /\ <<>> \in Seq(Characters)
    BY DEF Numbers
  <2>3. CASE f \in {[prefilled EXCEPT !.priority = p] : p \in Priorities}
    <3>1. PICK p \in Numbers : f = [prefilled EXCEPT !.priority = p]
      BY <2>3, FormsAssumption
    <3>. QED  BY <2>1, <2>2, <3>1, EditedRouteIsForm
  <2>4. CASE f \in {[prefilled EXCEPT !.path = p] : p \in Paths}
    <3>1. PICK p \in Seq(Characters) : f = [prefilled EXCEPT !.path = p]
      BY <2>4, FormsAssumption
    <3>. QED  BY <2>1, <2>2, <3>1, EditedRouteIsForm
  <2>5. CASE f \in {[prefilled EXCEPT !.operation = "delete"]}
    BY <2>1, <2>2, <2>5, EditedRouteIsForm
  <2>. QED  BY <2>3, <2>4, <2>5 DEF RouteEdits
<1>3. ASSUME NEW name \in DOMAIN edited.upstreams,
             NEW f \in UpstreamEdits(name, edited.upstreams[name])
      PROVE  IsForm(f)
  <2>. DEFINE prefilled == RenderUpstream(name, edited.upstreams[name])
  <2>1. IsList(edited.upstreams[name].endpoints)
    BY DEF FromForms, IsConfig
  <2>2. CASE f \in {[prefilled EXCEPT !.interval = d] : d \in Intervals}
    <3>1. PICK d \in Intervals : f = [prefilled EXCEPT !.interval = d]
      BY <2>2
    <3>. QED  BY <2>1, <3>1, EditedPoolIsForm
  <2>3. CASE f \in {[prefilled EXCEPT !.operation = "delete"]}
    <3>1. f = [prefilled EXCEPT !.operation = "delete"]
      BY <2>3
    <3>2. IsForm([prefilled EXCEPT !.operation = "delete"])
      BY <2>1 DEF RenderUpstream, IsForm
    <3>. QED  BY <3>1, <3>2
  <2>. QED  BY <2>2, <2>3 DEF UpstreamEdits
<1>. QED  BY <1>1, <1>2, <1>3 DEF Edits

----------------------------------------------------------------------------
(* Routes that come, go and change. *)

LEMMA Appending ==
    ASSUME NEW routes, IsList(routes), NEW route
    PROVE  LET d == Append(routes, route)
           IN /\ IsList(d) /\ Len(d) = Len(routes) + 1 /\ DOMAIN d = 1..(Len(routes) + 1)
              /\ \A i \in 1..Len(routes) : d[i] = routes[i]
              /\ d[Len(routes) + 1] = route
<1>. DEFINE d == Append(routes, route)
<1>1. routes \in Seq(ToSet(routes) \cup {route})
  BY DEF IsList
<1>2. /\ d \in Seq(ToSet(routes) \cup {route}) /\ Len(d) = Len(routes) + 1
      /\ DOMAIN d = 1..(Len(routes) + 1)
      /\ \A i \in 1..Len(routes) : d[i] = routes[i]
      /\ d[Len(routes) + 1] = route
  BY <1>1
<1>. HIDE DEF d
<1>3. d \in Seq(ToSet(d))
  <2>1. Len(d) \in Nat /\ d \in [1..Len(d) -> ToSet(d)]
    BY <1>2 DEF ToSet
  <2>. QED  BY <2>1
<1>. QED  BY <1>2, <1>3 DEF IsList, d

LEMMA Removing ==
    ASSUME NEW routes, IsList(routes), NEW i \in DOMAIN routes
    PROVE  LET d == RemoveAt(routes, i)
           IN /\ IsList(d) /\ Len(d) = Len(routes) - 1 /\ DOMAIN d = 1..(Len(routes) - 1)
              /\ \A k \in 1..(Len(routes) - 1) : d[k] = IF k < i THEN routes[k] ELSE routes[k + 1]
<1>. DEFINE d == RemoveAt(routes, i)
            n == Len(routes)
<1>1. routes \in Seq(ToSet(routes)) /\ n \in Nat /\ i \in 1..n
  BY DEF IsList
<1>. DEFINE front == SubSeq(routes, 1, i - 1)
            back == SubSeq(routes, i + 1, n)
<1>2. /\ front \in Seq(ToSet(routes)) /\ Len(front) = i - 1
      /\ \A k \in 1..(i - 1) : front[k] = routes[k]
  BY <1>1
<1>3. /\ back \in Seq(ToSet(routes)) /\ Len(back) = n - i
      /\ \A k \in 1..(n - i) : back[k] = routes[k + i]
  BY <1>1
<1>4. d = front \o back
  BY DEF RemoveAt
<1>. HIDE DEF d, n, front, back
<1>5. /\ d \in Seq(ToSet(routes)) /\ Len(d) = n - 1 /\ DOMAIN d = 1..(n - 1)
      /\ \A k \in 1..(i - 1) : d[k] = front[k]
      /\ \A k \in i..(n - 1) : d[k] = back[k - (i - 1)]
  <2>1. /\ front \o back \in Seq(ToSet(routes))
        /\ Len(front \o back) = Len(front) + Len(back)
        /\ \A k \in 1..(Len(front) + Len(back)) :
             (front \o back)[k] = IF k <= Len(front) THEN front[k] ELSE back[k - Len(front)]
    BY <1>2, <1>3
  <2>2. Len(front) + Len(back) = n - 1 /\ i - 1 \in Nat /\ n - i \in Nat
    BY <1>1, <1>2, <1>3
  <2>3. d \in Seq(ToSet(routes)) /\ Len(d) = n - 1
    BY <1>4, <2>1, <2>2
  <2>4. DOMAIN d = 1..(n - 1)
    BY <2>3
  <2>5. \A k \in 1..(i - 1) : d[k] = front[k]
    BY <1>1, <1>2, <1>4, <2>1, <2>2
  <2>6. \A k \in i..(n - 1) : d[k] = back[k - (i - 1)]
    <3>. SUFFICES ASSUME NEW k \in i..(n - 1) PROVE d[k] = back[k - (i - 1)]
      OBVIOUS
    <3>1. k \in 1..(n - 1) /\ ~(k <= i - 1)
      BY <1>1
    <3>2. (front \o back)[k] = back[k - Len(front)]
      BY <1>2, <2>1, <2>2, <3>1
    <3>. QED  BY <1>2, <1>4, <3>2
  <2>. QED  BY <2>3, <2>4, <2>5, <2>6
<1>6. \A k \in 1..(n - 1) : d[k] = IF k < i THEN routes[k] ELSE routes[k + 1]
  <2>. SUFFICES ASSUME NEW k \in 1..(n - 1)
                PROVE  d[k] = IF k < i THEN routes[k] ELSE routes[k + 1]
    OBVIOUS
  <2>1. CASE k < i
    BY <1>1, <1>2, <1>5, <2>1
  <2>2. CASE ~(k < i)
    <3>1. k \in i..(n - 1) /\ k - (i - 1) \in 1..(n - i) /\ (k - (i - 1)) + i = k + 1
      BY <1>1, <2>2
    <3>. QED  BY <1>3, <1>5, <2>2, <3>1
  <2>. QED  BY <2>1, <2>2
<1>7. d \in Seq(ToSet(d))
  <2>1. Len(d) \in Nat /\ d \in [1..Len(d) -> ToSet(d)]
    BY <1>1, <1>5 DEF ToSet
  <2>. QED  BY <2>1
<1>. QED  BY <1>5, <1>6, <1>7 DEF IsList, d, n

LEMMA Replacing ==
    ASSUME NEW routes, IsList(routes), NEW i \in DOMAIN routes, NEW route
    PROVE  LET d == [routes EXCEPT ![i] = route]
           IN /\ IsList(d) /\ Len(d) = Len(routes) /\ DOMAIN d = 1..Len(routes)
              /\ d[i] = route /\ \A k \in 1..Len(routes) : k # i => d[k] = routes[k]
<1>. DEFINE d == [routes EXCEPT ![i] = route]
<1>1. Len(routes) \in Nat /\ DOMAIN routes = 1..Len(routes)
  BY ListsAreFinite
<1>2. DOMAIN d = 1..Len(routes) /\ d[i] = route /\ \A k \in 1..Len(routes) : k # i => d[k] = routes[k]
  BY <1>1
<1>3. d \in Seq(ToSet(d)) /\ Len(d) = Len(routes)
  <2>1. d = [k \in 1..Len(routes) |-> d[k]]
    BY <1>1
  <2>. HIDE DEF d
  <2>2. d \in [1..Len(routes) -> ToSet(d)]
    BY <1>2, <2>1 DEF ToSet
  <2>3. d \in Seq(ToSet(d))
    BY <1>1, <2>2
  <2>. QED  BY <1>1, <1>2, <2>3
<1>. QED  BY <1>2, <1>3 DEF IsList

\* With other routes, each of the configuration before or one of the form.
LEMMA OtherRoutes ==
    ASSUME NEW c, FromForms(c), NEW f, IsForm(f), f.page = "routes", NEW routes, IsList(routes),
           \A k \in DOMAIN routes :
             routes[k] \in CandidateRoute(f) \/ \E i \in DOMAIN c.routes : routes[k] = c.routes[i],
           Valid([c EXCEPT !.routes = routes])
    PROVE  /\ FromForms([c EXCEPT !.routes = routes])
           /\ SameStructure(c, [c EXCEPT !.routes = routes])
           /\ [c EXCEPT !.routes = routes].routes = routes
<1>. DEFINE d == [c EXCEPT !.routes = routes]
<1>1. /\ d = [server |-> c.server, admin |-> c.admin, upstreams |-> c.upstreams, routes |-> routes]
      /\ d.server = c.server /\ d.admin = c.admin /\ d.upstreams = c.upstreams /\ d.routes = routes
  BY DEF FromForms, IsConfig
<1>. HIDE DEF d
<1>2. ASSUME NEW k \in DOMAIN routes
      PROVE  IsRoute(routes[k]) /\ (routes[k] \in ToSet(FirstConfig.routes) \/ Written(routes[k]))
  <2>1. CASE routes[k] \in CandidateRoute(f)
    <3>1. ValidHeaders(routes[k].request) /\ ValidHeaders(routes[k].response)
      BY <1>1 DEF Valid, ValidRoute, d
    <3>. QED  BY <2>1, <3>1, RouteIsWritten
  <2>2. CASE \E i \in DOMAIN c.routes : routes[k] = c.routes[i]
    BY <2>2 DEF FromForms, IsConfig
  <2>. QED  BY <2>1, <2>2
<1>3. IsConfig(d)
  BY <1>1, <1>2 DEF FromForms, IsConfig
<1>4. FromForms(d)
  BY <1>1, <1>2, <1>3 DEF FromForms, d
<1>. QED  BY <1>1, <1>4 DEF SameStructure, d

LEMMA RouteStepGood ==
    ASSUME NEW c, FromForms(c), NEW f, IsForm(f), f.page = "routes", NEW d, RouteStep(c, f, d)
    PROVE  FromForms(d) /\ SameStructure(c, d)
<1>1. IsList(c.routes) /\ Len(c.routes) \in Nat /\ DOMAIN c.routes = 1..Len(c.routes)
  BY ListsAreFinite DEF FromForms, IsConfig
<1>2. PICK routes :
        /\ d = [c EXCEPT !.routes = routes] /\ Valid(d)
        /\ \/ \E route \in CandidateRoute(f) : routes = Append(c.routes, route)
           \/ \E i \in Places(c, f), route \in CandidateRoute(f) : routes = [c.routes EXCEPT ![i] = route]
           \/ \E i \in Places(c, f) : routes = RemoveAt(c.routes, i)
  BY DEF RouteStep
<1>3. Places(c, f) \subseteq 1..Len(c.routes)
  BY <1>1 DEF Places
<1>4. CASE \E route \in CandidateRoute(f) : routes = Append(c.routes, route)
  <2>1. PICK route \in CandidateRoute(f) : routes = Append(c.routes, route)
    BY <1>4
  <2>2. /\ IsList(routes) /\ DOMAIN routes = 1..(Len(c.routes) + 1)
        /\ \A i \in 1..Len(c.routes) : routes[i] = c.routes[i]
        /\ routes[Len(c.routes) + 1] = route
    BY <1>1, <2>1, Appending
  <2>3. \A k \in DOMAIN routes :
          routes[k] \in CandidateRoute(f) \/ \E i \in DOMAIN c.routes : routes[k] = c.routes[i]
    BY <1>1, <2>2
  <2>. QED  BY <1>2, <2>2, <2>3, OtherRoutes
<1>5. CASE \E i \in Places(c, f), route \in CandidateRoute(f) : routes = [c.routes EXCEPT ![i] = route]
  <2>1. PICK i \in Places(c, f), route \in CandidateRoute(f) : routes = [c.routes EXCEPT ![i] = route]
    BY <1>5
  <2>2. /\ IsList(routes) /\ DOMAIN routes = 1..Len(c.routes)
        /\ routes[i] = route /\ \A k \in 1..Len(c.routes) : k # i => routes[k] = c.routes[k]
    BY <1>1, <1>3, <2>1, Replacing
  <2>3. \A k \in DOMAIN routes :
          routes[k] \in CandidateRoute(f) \/ \E m \in DOMAIN c.routes : routes[k] = c.routes[m]
    BY <1>1, <2>2
  <2>. QED  BY <1>2, <2>2, <2>3, OtherRoutes
<1>6. CASE \E i \in Places(c, f) : routes = RemoveAt(c.routes, i)
  <2>1. PICK i \in Places(c, f) : routes = RemoveAt(c.routes, i)
    BY <1>6
  <2>2. /\ IsList(routes) /\ DOMAIN routes = 1..(Len(c.routes) - 1)
        /\ \A k \in 1..(Len(c.routes) - 1) :
             routes[k] = IF k < i THEN c.routes[k] ELSE c.routes[k + 1]
    BY <1>1, <1>3, <2>1, Removing
  <2>3. \A k \in DOMAIN routes : \E m \in DOMAIN c.routes : routes[k] = c.routes[m]
    <3>. SUFFICES ASSUME NEW k \in 1..(Len(c.routes) - 1)
                  PROVE  \E m \in 1..Len(c.routes) : routes[k] = c.routes[m]
      BY <1>1, <2>2
    <3>1. k \in 1..Len(c.routes) /\ k + 1 \in 1..Len(c.routes)
      BY <1>1
    <3>. QED  BY <2>2, <3>1
  <2>. QED  BY <1>2, <2>2, <2>3, OtherRoutes
<1>. QED  BY <1>2, <1>4, <1>5, <1>6

LEMMA UpstreamStepGood ==
    ASSUME NEW c, FromForms(c), NEW f, IsForm(f), f.page = "upstreams", NEW d, UpstreamStep(c, f, d)
    PROVE  /\ FromForms(d) /\ d.routes = c.routes
           /\ \A name \in DOMAIN c.upstreams \ {Trim(f.upstream_name)} :
                d.upstreams[name] = c.upstreams[name]
<1>. DEFINE named == Trim(f.upstream_name)
<1>1. PICK upstreams :
        /\ d = [c EXCEPT !.upstreams = upstreams] /\ Valid(d)
        /\ \/ named # Empty /\ \E pool \in UpstreamConfig(f) : upstreams = Inserted(c.upstreams, named, pool)
           \/ upstreams = [n \in DOMAIN c.upstreams \ {named} |-> c.upstreams[n]]
  BY DEF UpstreamStep
<1>2. /\ d = [server |-> c.server, admin |-> c.admin, upstreams |-> upstreams, routes |-> c.routes]
      /\ d.server = c.server /\ d.admin = c.admin /\ d.upstreams = upstreams /\ d.routes = c.routes
  BY <1>1 DEF FromForms, IsConfig
<1>3. /\ IsMap(upstreams)
      /\ \A name \in DOMAIN upstreams :
           \/ name \in DOMAIN c.upstreams /\ upstreams[name] = c.upstreams[name]
           \/ name = named /\ named # Empty /\ upstreams[name] \in UpstreamConfig(f)
      /\ \A name \in DOMAIN c.upstreams \ {named} : upstreams[name] = c.upstreams[name]
  <2>1. CASE upstreams = [n \in DOMAIN c.upstreams \ {named} |-> c.upstreams[n]]
    BY <2>1 DEF IsMap
  <2>2. CASE named # Empty /\ \E pool \in UpstreamConfig(f) : upstreams = Inserted(c.upstreams, named, pool)
    BY <2>2 DEF IsMap, Inserted
  <2>. QED  BY <1>1, <2>1, <2>2
<1>4. ASSUME NEW name \in DOMAIN upstreams
      PROVE  /\ IsList(upstreams[name].endpoints)
             /\ \/ name \in DOMAIN FirstConfig.upstreams /\ upstreams[name] = FirstConfig.upstreams[name]
                \/ WrittenPool(name, upstreams[name])
  <2>1. CASE name \in DOMAIN c.upstreams /\ upstreams[name] = c.upstreams[name]
    BY <2>1 DEF FromForms, IsConfig
  <2>2. CASE name = named /\ named # Empty /\ upstreams[name] \in UpstreamConfig(f)
    BY <2>2, PoolIsWritten DEF IsForm
  <2>. QED  BY <1>3, <2>1, <2>2
<1>5. IsConfig(d)
  BY <1>2, <1>3, <1>4 DEF FromForms, IsConfig
<1>6. FromForms(d)
  BY <1>1, <1>2, <1>4, <1>5 DEF FromForms
<1>. QED  BY <1>2, <1>3, <1>6

\* The forms that can be submitted are forms, and a step is one of them.
LEMMA StepIs ==
    ASSUME FromForms(edited), EditingNext
    PROVE  /\ IsForm(submitted') /\ FromForms(edited')
           /\ \/ /\ submitted'.page = "routes" /\ RouteStep(edited, submitted', edited')
                 /\ SameStructure(edited, edited')
              \/ /\ submitted'.page = "upstreams" /\ UpstreamStep(edited, submitted', edited')
                 /\ edited'.routes = edited.routes
                 /\ \A name \in DOMAIN edited.upstreams \ {Trim(submitted'.upstream_name)} :
                      edited'.upstreams[name] = edited.upstreams[name]
<1>1. PICK f \in NewForms \cup Edits : Submit(f)
  BY DEF EditingNext
<1>2. submitted' = f /\ edited' \in Candidates(edited, f) /\ IsForm(f)
  BY <1>1, FormsAreForms DEF Submit
<1>3. CASE f.page = "routes" /\ RouteStep(edited, f, edited')
  BY <1>2, <1>3, RouteStepGood
<1>4. CASE f.page = "upstreams" /\ UpstreamStep(edited, f, edited')
  BY <1>2, <1>4, UpstreamStepGood
<1>. QED  BY <1>2, <1>3, <1>4, CandidateIs

\* The inductive invariant of editing: a configuration stays well formed and valid,
\* and whatever in it is not of the first one is as a form writes it.
THEOREM EditedFromForms == EditingSpec => []FromForms(edited)
<1>1. EditingInit => FromForms(edited)
  <2>. SUFFICES ASSUME EditingInit PROVE FromForms(edited)
    OBVIOUS
  <2>1. Valid(edited) /\ edited = FirstConfig
    BY DEF EditingInit
  <2>2. IsConfig(edited)
    BY <2>1, FirstConfigAssumption
  <2>3. \A i \in DOMAIN edited.routes : edited.routes[i] \in ToSet(FirstConfig.routes)
    BY <2>1 DEF ToSet
  <2>. QED  BY <2>1, <2>2, <2>3 DEF FromForms
<1>2. FromForms(edited) /\ [EditingNext]_editing => FromForms(edited)'
  <2>1. ASSUME FromForms(edited), EditingNext PROVE FromForms(edited')
    BY <2>1, StepIs
  <2>2. ASSUME FromForms(edited), UNCHANGED editing PROVE FromForms(edited')
    BY <2>2 DEF editing
  <2>. QED  BY <2>1, <2>2
<1>. QED  BY <1>1, <1>2, PTL DEF EditingSpec

----------------------------------------------------------------------------
(* A prefilled form, submitted as it is. *)

LEMMA RouteAgain ==
    ASSUME NEW c, FromForms(c), NEW i \in DOMAIN c.routes, Written(c.routes[i])
    PROVE  RouteUpdated(c, RenderRoute(c.routes[i])) = {c}
<1>. DEFINE route == c.routes[i]
            f == RenderRoute(route)
<1>1. /\ IsList(c.routes) /\ DOMAIN c.routes = 1..Len(c.routes) /\ Len(c.routes) \in Nat
      /\ \A j, k \in DOMAIN c.routes : c.routes[j].name = c.routes[k].name => j = k
      /\ c = [server |-> c.server, admin |-> c.admin, upstreams |-> c.upstreams, routes |-> c.routes]
      /\ Valid(c)
  BY ListsAreFinite DEF FromForms, IsConfig, Valid
<1>2. Trim(f.original) = route.name
  BY DEF Written, RenderRoute
<1>3. Places(c, f) = {i}
  <2>. HIDE DEF f
  <2>. QED  BY <1>1, <1>2 DEF Places
<1>4. CandidateRoute(f) = {route}
  BY DEF Written
<1>5. [c.routes EXCEPT ![i] = route] = c.routes
  BY <1>1 DEF IsList
<1>6. [c EXCEPT !.routes = c.routes] = c
  BY <1>1
<1>7. WithRoutes(c, c.routes) = {c}
  BY <1>1, <1>6 DEF WithRoutes
<1>8. RouteUpdated(c, f) =
        UNION {WithRoutes(c, [c.routes EXCEPT ![j] = r]) : j \in {i}, r \in {route}}
  BY <1>3, <1>4 DEF RouteUpdated
<1>. HIDE DEF f, route
<1>9. UNION {WithRoutes(c, [c.routes EXCEPT ![j] = r]) : j \in {i}, r \in {route}}
        = WithRoutes(c, [c.routes EXCEPT ![i] = route])
  OBVIOUS
<1>10. RouteUpdated(c, f) = {c}
  BY <1>5, <1>7, <1>8, <1>9
<1>. QED  BY <1>10 DEF f, route

LEMMA PoolAgain ==
    ASSUME NEW c, FromForms(c), NEW name \in DOMAIN c.upstreams, WrittenPool(name, c.upstreams[name])
    PROVE  UpstreamUpdated(c, RenderUpstream(name, c.upstreams[name])) = {c}
<1>. DEFINE pool == c.upstreams[name]
            f == RenderUpstream(name, pool)
<1>1. /\ IsMap(c.upstreams) /\ Valid(c)
      /\ c = [server |-> c.server, admin |-> c.admin, upstreams |-> c.upstreams, routes |-> c.routes]
  BY DEF FromForms, IsConfig
<1>2. /\ Trim(f.original) = name /\ Trim(f.upstream_name) = name /\ name # Empty
      /\ UpstreamConfig(f) = {pool}
  BY DEF WrittenPool, RenderUpstream
<1>3. Inserted(c.upstreams, name, pool) = c.upstreams
  BY <1>1 DEF Inserted, IsMap
<1>4. WithUpstreams(c, c.upstreams) = {c}
  <2>1. [c EXCEPT !.upstreams = c.upstreams] = c
    BY <1>1
  <2>. QED  BY <1>1, <2>1 DEF WithUpstreams
<1>. HIDE DEF f
<1>5. UpstreamUpdated(c, f) = UNION {WithUpstreams(c, Inserted(c.upstreams, name, p)) : p \in {pool}}
  BY <1>2 DEF UpstreamUpdated
<1>6. UpstreamUpdated(c, f) = WithUpstreams(c, Inserted(c.upstreams, name, pool))
  BY <1>5
<1>. QED  BY <1>3, <1>4, <1>6 DEF f

\* What a form wrote survives a form.
THEOREM PrefilledFormsChangeNothing == EditingSpec => []RoundTrip
<1>1. ASSUME FromForms(edited) PROVE RoundTrip
  <2>1. ASSUME NEW i \in DOMAIN edited.routes, edited.routes[i] \notin ToSet(FirstConfig.routes)
        PROVE  RouteUpdated(edited, RenderRoute(edited.routes[i])) = {edited}
    BY <1>1, <2>1, RouteAgain DEF FromForms
  <2>2. ASSUME NEW name \in DOMAIN edited.upstreams,
               name \in DOMAIN FirstConfig.upstreams =>
                 edited.upstreams[name] # FirstConfig.upstreams[name]
        PROVE  UpstreamUpdated(edited, RenderUpstream(name, edited.upstreams[name])) = {edited}
    BY <1>1, <2>2, PoolAgain DEF FromForms
  <2>. QED  BY <2>1, <2>2 DEF RoundTrip
<1>. QED  BY <1>1, EditedFromForms, PTL

----------------------------------------------------------------------------
(* The order in which the routes that a form does not name are tried. *)

LEMMA FromFormsTable ==
    ASSUME NEW c, FromForms(c)
    PROVE  /\ IsList(c.routes) /\ Len(c.routes) \in Nat /\ DOMAIN c.routes = 1..Len(c.routes)
           /\ IsTable(c.routes, Len(c.routes))
           /\ \A i, j \in 1..Len(c.routes) : c.routes[i].name = c.routes[j].name => i = j
<1>1. IsList(c.routes) /\ Len(c.routes) \in Nat /\ DOMAIN c.routes = 1..Len(c.routes)
  BY ListsAreFinite DEF FromForms, IsConfig
<1>2. \A i \in 1..Len(c.routes) : c.routes[i].priority \in Int /\ Bytes(c.routes[i].path) \in Nat
  BY <1>1, BytesInNat DEF FromForms, IsConfig, IsRoute
<1>3. \A i, j \in 1..Len(c.routes) : c.routes[i].name = c.routes[j].name => i = j
  BY <1>1 DEF FromForms, Valid
<1>. QED  BY <1>1, <1>2, <1>3 DEF IsTable

\* Two routes are tried one after the other when one is ahead of the other.
AreAhead(R, n, names, p) ==
    \E k, l \in 1..n :
      /\ p = <<R[k], R[l]>>
      /\ k = l \/ k \in Ahead(R, l)
      /\ R[k].name \notin names /\ R[l].name \notin names

LEMMA TriedIs ==
    ASSUME NEW c, NEW n, IsTable(c.routes, n), NEW names, NEW p
    PROVE  p \in Tried(c, names) <=> AreAhead(c.routes, n, names, p)
<1>. DEFINE R == c.routes
            sorted == SortRoutes(R)
<1>1. /\ DOMAIN sorted = 1..n /\ n \in Nat
      /\ \A k \in 1..n : Place(R, k) \in 1..n /\ sorted[k] = R[Place(R, k)]
      /\ \A k, m \in 1..n : k < m => Place(R, k) \in Ahead(R, Place(R, m))
  BY SortRoutesSorts DEF IsTable
<1>2. \A i \in 1..n : Rank(R, i) \in 1..n /\ sorted[Rank(R, i)] = R[i]
  BY <1>1, RankInTable, PlaceOfRank
<1>3. p \in Tried(c, names) <=>
        \E a, b \in 1..n : /\ p = <<sorted[a], sorted[b]>> /\ a <= b
                           /\ sorted[a].name \notin names /\ sorted[b].name \notin names
  <2>. DEFINE others == {m \in DOMAIN sorted : sorted[m].name \notin names}
              inOrder == {q \in others \X others : q[1] <= q[2]}
  <2>1. p \in Tried(c, names) <=> \E q \in inOrder : p = <<sorted[q[1]], sorted[q[2]]>>
    BY DEF Tried
  <2>2. \A q \in inOrder : q = <<q[1], q[2]>> /\ q[1] \in others /\ q[2] \in others /\ q[1] <= q[2]
    OBVIOUS
  <2>3. \A a, b \in others : a <= b => <<a, b>> \in inOrder
    OBVIOUS
  <2>4. (\E q \in inOrder : p = <<sorted[q[1]], sorted[q[2]]>>) <=>
          \E a, b \in others : p = <<sorted[a], sorted[b]>> /\ a <= b
    <3>. HIDE DEF inOrder, others, sorted
    <3>1. ASSUME NEW q \in inOrder, p = <<sorted[q[1]], sorted[q[2]]>>
          PROVE  \E a, b \in others : p = <<sorted[a], sorted[b]>> /\ a <= b
      BY <2>2, <3>1
    <3>2. ASSUME NEW a \in others, NEW b \in others, p = <<sorted[a], sorted[b]>>, a <= b
          PROVE  \E q \in inOrder : p = <<sorted[q[1]], sorted[q[2]]>>
      <4>1. <<a, b>> \in inOrder /\ <<a, b>>[1] = a /\ <<a, b>>[2] = b
        BY <2>3, <3>2
      <4>. QED  BY <3>2, <4>1
    <3>. QED  BY <3>1, <3>2
  <2>5. \A a : a \in others <=> a \in 1..n /\ sorted[a].name \notin names
    BY <1>1
  <2>. HIDE DEF others, inOrder, sorted
  <2>. QED  BY <2>1, <2>4, <2>5
<1>. HIDE DEF sorted, R
<1>4. ASSUME NEW a \in 1..n, NEW b \in 1..n, a <= b
      PROVE  \/ Place(R, a) = Place(R, b)
             \/ Place(R, a) \in Ahead(R, Place(R, b))
  BY <1>1, <1>4
<1>5. ASSUME NEW k \in 1..n, NEW l \in 1..n, k = l \/ k \in Ahead(R, l)
      PROVE  Rank(R, k) <= Rank(R, l)
  <2>1. Rank(R, k) \in Int /\ Rank(R, l) \in Int
    BY <1>2
  <2>2. CASE k = l
    BY <2>1, <2>2
  <2>3. CASE k \in Ahead(R, l)
    <3>1. Rank(R, k) < Rank(R, l)
      BY <2>3, RankGrows DEF R
    <3>. QED  BY <2>1, <3>1
  <2>. QED  BY <1>5, <2>2, <2>3
<1>6. ASSUME NEW a \in 1..n, NEW b \in 1..n, p = <<sorted[a], sorted[b]>>, a <= b,
             sorted[a].name \notin names, sorted[b].name \notin names
      PROVE  \E k, l \in 1..n :
               /\ p = <<R[k], R[l]>> /\ (k = l \/ k \in Ahead(R, l))
               /\ R[k].name \notin names /\ R[l].name \notin names
  BY <1>1, <1>4, <1>6
<1>7. ASSUME NEW k \in 1..n, NEW l \in 1..n, p = <<R[k], R[l]>>, k = l \/ k \in Ahead(R, l),
             R[k].name \notin names, R[l].name \notin names
      PROVE  \E a, b \in 1..n : /\ p = <<sorted[a], sorted[b]>> /\ a <= b
                                /\ sorted[a].name \notin names /\ sorted[b].name \notin names
  BY <1>2, <1>5, <1>7
<1>8. p \in Tried(c, names) <=> AreAhead(R, n, names, p)
  BY <1>3, <1>6, <1>7 DEF AreAhead
<1>. QED  BY <1>8 DEF R

\* g takes the routes that are not named from one table to the other, in order.
Carries(g, R, n, S, m, names) ==
    /\ \A k \in 1..n : R[k].name \notin names => g[k] \in 1..m /\ S[g[k]] = R[k]
    /\ \A k, l \in 1..n : R[k].name \notin names /\ R[l].name \notin names /\ k < l =>
         g[k] < g[l]

LEMMA TriedStays ==
    ASSUME NEW c, NEW n, IsTable(c.routes, n), NEW d, NEW m, IsTable(d.routes, m),
           NEW names, NEW g, Carries(g, c.routes, n, d.routes, m, names)
    PROVE  Tried(c, names) \subseteq Tried(d, names)
<1>. DEFINE R == c.routes
            S == d.routes
<1>1. /\ n \in Nat /\ m \in Nat /\ DOMAIN R = 1..n /\ DOMAIN S = 1..m
      /\ Carries(g, R, n, S, m, names)
  BY DEF IsTable
<1>2. ASSUME NEW k \in 1..n, NEW l \in 1..n, k \in Ahead(R, l),
             R[k].name \notin names, R[l].name \notin names
      PROVE  g[k] \in Ahead(S, g[l])
  <2>. HIDE DEF R, S
  <2>1. /\ g[k] \in 1..m /\ g[l] \in 1..m
        /\ S[g[k]] = R[k] /\ S[g[l]] = R[l]
        /\ k < l => g[k] < g[l]
    BY <1>1, <1>2 DEF Carries
  <2>2. Before(R[k], R[l]) \/ (k < l /\ ~Before(R[l], R[k]))
    BY <1>2 DEF Ahead
  <2>3. Before(S[g[k]], S[g[l]]) \/ (g[k] < g[l] /\ ~Before(S[g[l]], S[g[k]]))
    BY <2>1, <2>2
  <2>. QED  BY <1>1, <2>1, <2>3 DEF Ahead
<1>3. ASSUME NEW p \in Tried(c, names) PROVE p \in Tried(d, names)
  <2>1. PICK k \in 1..n, l \in 1..n :
          /\ p = <<R[k], R[l]>> /\ (k = l \/ k \in Ahead(R, l))
          /\ R[k].name \notin names /\ R[l].name \notin names
    <3>1. AreAhead(c.routes, n, names, p)
      BY TriedIs
    <3>. QED  BY <3>1 DEF AreAhead
  <2>2. \E a, b \in 1..m :
          /\ p = <<S[a], S[b]>> /\ (a = b \/ a \in Ahead(S, b))
          /\ S[a].name \notin names /\ S[b].name \notin names
    <3>. HIDE DEF R, S
    <3>1. /\ g[k] \in 1..m /\ g[l] \in 1..m
          /\ S[g[k]] = R[k] /\ S[g[l]] = R[l]
          /\ g[k] = g[l] \/ g[k] \in Ahead(S, g[l])
      BY <1>1, <1>2, <2>1 DEF Carries
    <3>. QED  BY <2>1, <3>1
  <2>3. AreAhead(S, m, names, p)
    BY <2>2 DEF AreAhead
  <2>. QED  BY <2>3, TriedIs
<1>. QED  BY <1>3

LEMMA CandidateName ==
    ASSUME NEW form, NEW route \in CandidateRoute(form)
    PROVE  route.name = Trim(form.name)
<1>1. PICK host, path, methods, upstream, priority, request, response, limit, max_body :
        route = [name |-> Trim(form.name), host |-> host, path |-> path, methods |-> methods,
                 upstream |-> upstream, priority |-> priority, request |-> request,
                 response |-> response, limit |-> limit, max_body |-> max_body]
  BY DEF CandidateRoute
<1>. QED  BY <1>1

LEMMA RouteStepChangesOne ==
    ASSUME NEW c, FromForms(c), NEW f, IsForm(f), f.page = "routes",
           NEW d, FromForms(d), RouteStep(c, f, d)
    PROVE  LET names == {Trim(f.original), Trim(f.name)} IN Tried(d, names) = Tried(c, names)
<1>. DEFINE names == {Trim(f.original), Trim(f.name)}
            R == c.routes
            S == d.routes
            n == Len(R)
            m == Len(S)
<1>1. IsList(R) /\ n \in Nat /\ DOMAIN R = 1..n /\ IsTable(R, n)
  BY FromFormsTable
<1>2. IsList(S) /\ m \in Nat /\ DOMAIN S = 1..m /\ IsTable(S, m)
  BY FromFormsTable
<1>3. \/ \E route \in CandidateRoute(f) : S = Append(R, route)
      \/ \E i \in Places(c, f), route \in CandidateRoute(f) : S = [R EXCEPT ![i] = route]
      \/ \E i \in Places(c, f) : S = RemoveAt(R, i)
  <2>1. PICK routes :
          /\ d = [c EXCEPT !.routes = routes]
          /\ \/ \E route \in CandidateRoute(f) : routes = Append(R, route)
             \/ \E i \in Places(c, f), route \in CandidateRoute(f) : routes = [R EXCEPT ![i] = route]
             \/ \E i \in Places(c, f) : routes = RemoveAt(R, i)
    BY DEF RouteStep
  <2>2. S = routes
    BY <2>1 DEF FromForms, IsConfig
  <2>. QED  BY <2>1, <2>2
<1>4. \A i \in Places(c, f) : i \in 1..n /\ R[i].name \in names
  BY <1>1 DEF Places
<1>5. \A route \in CandidateRoute(f) : route.name \in names
  BY CandidateName
<1>. HIDE DEF names
<1>. DEFINE same == [k \in 1..(n + 1) |-> k]
<1>6. CASE \E route \in CandidateRoute(f) : S = Append(R, route)
  <2>1. PICK route \in CandidateRoute(f) : S = Append(R, route)
    BY <1>6
  <2>2. m = n + 1 /\ (\A i \in 1..n : S[i] = R[i]) /\ S[n + 1] = route
    BY <1>1, <2>1, Appending
  <2>. HIDE DEF R, S, n, m
  <2>3. \A k \in 1..m : S[k].name \notin names => k \in 1..n /\ S[k] = R[k]
    BY <1>1, <1>5, <2>2
  <2>4. Carries(same, R, n, S, m, names) /\ Carries(same, S, m, R, n, names)
    BY <1>1, <2>2, <2>3 DEF Carries
  <2>. HIDE DEF same
  <2>5. Tried(c, names) \subseteq Tried(d, names)
    BY <1>1, <1>2, <2>4, TriedStays DEF R, S
  <2>6. Tried(d, names) \subseteq Tried(c, names)
    BY <1>1, <1>2, <2>4, TriedStays DEF R, S
  <2>. QED  BY <2>5, <2>6 DEF names
<1>7. CASE \E i \in Places(c, f), route \in CandidateRoute(f) : S = [R EXCEPT ![i] = route]
  <2>1. PICK i \in Places(c, f), route \in CandidateRoute(f) : S = [R EXCEPT ![i] = route]
    BY <1>7
  <2>2. m = n /\ S[i] = route /\ \A k \in 1..n : k # i => S[k] = R[k]
    BY <1>1, <1>4, <2>1, Replacing
  <2>. HIDE DEF R, S, n, m
  <2>3. Carries(same, R, n, S, m, names) /\ Carries(same, S, m, R, n, names)
    BY <1>1, <1>4, <1>5, <2>2 DEF Carries
  <2>. HIDE DEF same
  <2>4. Tried(c, names) \subseteq Tried(d, names)
    BY <1>1, <1>2, <2>3, TriedStays DEF R, S
  <2>5. Tried(d, names) \subseteq Tried(c, names)
    BY <1>1, <1>2, <2>3, TriedStays DEF R, S
  <2>. QED  BY <2>4, <2>5 DEF names
<1>8. CASE \E i \in Places(c, f) : S = RemoveAt(R, i)
  <2>1. PICK i \in Places(c, f) : S = RemoveAt(R, i)
    BY <1>8
  <2>2. m = n - 1 /\ \A k \in 1..(n - 1) : S[k] = IF k < i THEN R[k] ELSE R[k + 1]
    <3>1. i \in DOMAIN R
      BY <1>1, <1>4
    <3>2. Len(RemoveAt(R, i)) = n - 1
      BY <1>1, <3>1, Removing
    <3>3. \A k \in 1..(n - 1) : RemoveAt(R, i)[k] = IF k < i THEN R[k] ELSE R[k + 1]
      BY <1>1, <3>1, Removing
    <3>. QED  BY <2>1, <3>2, <3>3
  <2>. DEFINE down == [k \in 1..n |-> IF k < i THEN k ELSE k - 1]
              up == [k \in 1..m |-> IF k < i THEN k ELSE k + 1]
  <2>. HIDE DEF R, S, n, m
  <2>3. i \in 1..n /\ R[i].name \in names
    BY <1>4
  <2>4. ASSUME NEW k \in 1..n, R[k].name \notin names PROVE down[k] \in 1..m /\ S[down[k]] = R[k]
    <3>1. k # i
      BY <2>3, <2>4
    <3>2. CASE k < i
      BY <1>1, <2>2, <2>3, <3>2
    <3>3. CASE k > i
      <4>1. down[k] = k - 1 /\ k - 1 \in 1..(n - 1) /\ ~(k - 1 < i) /\ (k - 1) + 1 = k
        BY <1>1, <2>3, <3>3
      <4>. HIDE DEF down
      <4>. QED  BY <2>2, <4>1
    <3>. QED  BY <2>3, <3>1, <3>2, <3>3
  <2>5. ASSUME NEW k \in 1..m PROVE up[k] \in 1..n /\ R[up[k]] = S[k]
    BY <1>1, <2>2
  <2>6. ASSUME NEW k \in 1..n, NEW l \in 1..n, R[k].name \notin names,
               R[l].name \notin names, k < l
        PROVE  down[k] < down[l]
    <3>1. k # i /\ l # i
      BY <2>3, <2>6
    <3>2. k \in Int /\ l \in Int /\ i \in Int
      BY <1>1, <2>3
    <3>3. down[k] = (IF k < i THEN k ELSE k - 1) /\ down[l] = (IF l < i THEN l ELSE l - 1)
      OBVIOUS
    <3>. HIDE DEF down
    <3>. QED  BY <2>6, <3>1, <3>2, <3>3
  <2>7. \A k, l \in 1..m : k < l => up[k] < up[l]
    BY <1>1, <2>2, <2>3
  <2>. HIDE DEF down, up
  <2>10. Carries(down, R, n, S, m, names) /\ Carries(up, S, m, R, n, names)
    BY <2>4, <2>5, <2>6, <2>7 DEF Carries
  <2>8. Tried(c, names) \subseteq Tried(d, names)
    BY <1>1, <1>2, <2>10, TriedStays DEF R, S
  <2>9. Tried(d, names) \subseteq Tried(c, names)
    BY <1>1, <1>2, <2>10, TriedStays DEF R, S
  <2>. QED  BY <2>8, <2>9 DEF names
<1>. QED  BY <1>3, <1>6, <1>7, <1>8

\* A form changes the one thing it names.
THEOREM FormsChangeOneThing == EditingSpec => OneChange
<1>. DEFINE Change ==
       IF submitted'.page = "routes"
       THEN LET names == {Trim(submitted'.original), Trim(submitted'.name)}
            IN SameStructure(edited, edited') /\ Tried(edited', names) = Tried(edited, names)
       ELSE LET others == DOMAIN edited.upstreams \ {Trim(submitted'.upstream_name)}
            IN /\ edited'.routes = edited.routes
               /\ \A name \in others : edited'.upstreams[name] = edited.upstreams[name]
<1>1. ASSUME FromForms(edited), EditingNext PROVE Change
  <2>1. /\ IsForm(submitted') /\ FromForms(edited')
        /\ \/ /\ submitted'.page = "routes" /\ RouteStep(edited, submitted', edited')
              /\ SameStructure(edited, edited')
           \/ /\ submitted'.page = "upstreams" /\ UpstreamStep(edited, submitted', edited')
              /\ edited'.routes = edited.routes
              /\ \A name \in DOMAIN edited.upstreams \ {Trim(submitted'.upstream_name)} :
                   edited'.upstreams[name] = edited.upstreams[name]
    BY <1>1, StepIs
  <2>2. CASE submitted'.page = "routes" /\ RouteStep(edited, submitted', edited')
             /\ SameStructure(edited, edited')
    BY <1>1, <2>1, <2>2, RouteStepChangesOne
  <2>3. CASE submitted'.page = "upstreams" /\ edited'.routes = edited.routes
             /\ \A name \in DOMAIN edited.upstreams \ {Trim(submitted'.upstream_name)} :
                  edited'.upstreams[name] = edited.upstreams[name]
    BY <2>3
  <2>. QED  BY <2>1, <2>2, <2>3
<1>2. FromForms(edited) /\ [EditingNext]_editing => [Change]_editing
  BY <1>1
<1>. QED  BY <1>2, EditedFromForms, PTL DEF EditingSpec, OneChange

----------------------------------------------------------------------------
(* An update that leaves priority and path alone. *)

LEMMA SamePlaces ==
    ASSUME NEW R, NEW S, NEW n, IsTable(R, n), IsTable(S, n),
           \A k \in 1..n : R[k].priority = S[k].priority /\ Bytes(R[k].path) = Bytes(S[k].path)
    PROVE  \A k \in 1..n : Place(S, k) = Place(R, k)
<1>0. DOMAIN R = 1..n /\ DOMAIN S = 1..n
  BY DEF IsTable
<1>1. \A k, l \in 1..n : Before(R[k], R[l]) <=> Before(S[k], S[l])
  BY DEF Before
<1>2. \A k \in 1..n : Ahead(S, k) = Ahead(R, k)
  BY <1>0, <1>1 DEF Ahead
<1>3. \A k \in 1..n : Rank(S, k) = Rank(R, k)
  BY <1>2 DEF Rank
<1>4. ASSUME NEW k \in 1..n PROVE Place(S, k) = Place(R, k)
  <2>1. Place(R, k) \in 1..n /\ Rank(R, Place(R, k)) = k
    BY PlaceOfRank
  <2>2. Rank(S, Place(R, k)) = k
    BY <1>3, <2>1
  <2>3. Place(S, Rank(S, Place(R, k))) = Place(R, k)
    BY <2>1, PlaceOfRank
  <2>. QED  BY <2>2, <2>3
<1>. QED  BY <1>4

LEMMA RouteOfName ==
    ASSUME NEW c, FromForms(c), NEW i \in DOMAIN c.routes
    PROVE  RoutesByName(c.routes)[c.routes[i].name] = c.routes[i]
<1>. DEFINE R == c.routes
            name == R[i].name
            last(j) == R[j].name = name /\ \A k \in DOMAIN R : R[k].name = name => k <= j
<1>1. \A j \in DOMAIN R : j \in Int /\ (R[j].name = name => j = i)
  BY FromFormsTable
<1>2. RoutesByName(R)[name] = R[CHOOSE j \in DOMAIN R : last(j)]
  BY DEF RoutesByName
<1>3. \A j \in DOMAIN R : last(j) <=> j = i
  BY <1>1
<1>. HIDE DEF last
<1>4. (CHOOSE j \in DOMAIN R : last(j)) = i
  BY <1>3
<1>. QED  BY <1>2, <1>4

LEMMA UpdateStays ==
    ASSUME NEW c, FromForms(c), NEW f, f.operation = "update", NEW d, FromForms(d), RouteStep(c, f, d),
           NEW i \in DOMAIN c.routes, c.routes[i].name = Trim(f.original),
           LET new == RoutesByName(d.routes)[Trim(f.name)]
           IN c.routes[i].priority = new.priority /\ Bytes(c.routes[i].path) = Bytes(new.path),
           NEW n \in DOMAIN c.routes, SortRoutes(c.routes)[n].name = c.routes[i].name
    PROVE  SortRoutes(d.routes)[n].name = RoutesByName(d.routes)[Trim(f.name)].name
<1>. DEFINE R == c.routes
            S == d.routes
            m == Len(R)
<1>1. /\ IsList(R) /\ DOMAIN R = 1..m /\ IsTable(R, m)
      /\ \A j, k \in 1..m : R[j].name = R[k].name => j = k
  BY FromFormsTable
<1>2. IsList(S) /\ DOMAIN S = 1..Len(S) /\ IsTable(S, Len(S))
  BY FromFormsTable
<1>3. PICK j \in Places(c, f), route \in CandidateRoute(f) : S = [R EXCEPT ![j] = route]
  <2>1. PICK routes :
          /\ d = [c EXCEPT !.routes = routes]
          /\ \E j \in Places(c, f), route \in CandidateRoute(f) : routes = [R EXCEPT ![j] = route]
    BY DEF RouteStep
  <2>2. S = routes
    BY <2>1 DEF FromForms, IsConfig
  <2>. QED  BY <2>1, <2>2
<1>4. j = i
  <2>1. j \in 1..m /\ R[j].name = Trim(f.original)
    BY <1>1 DEF Places
  <2>. QED  BY <1>1, <2>1
<1>5. /\ Len(S) = m /\ DOMAIN S = 1..m /\ S[i] = route
      /\ \A k \in 1..m : k # i => S[k] = R[k]
  BY <1>1, <1>3, <1>4, Replacing
<1>6. RoutesByName(S)[Trim(f.name)] = route
  <2>1. S[i].name = Trim(f.name)
    BY <1>5, CandidateName
  <2>2. RoutesByName(S)[S[i].name] = S[i]
    BY <1>1, <1>5, RouteOfName
  <2>. QED  BY <1>5, <2>1, <2>2
<1>7. R[i].priority = route.priority /\ Bytes(R[i].path) = Bytes(route.path)
  BY <1>6
<1>. HIDE DEF R, S, m
<1>8. \A k \in 1..m : R[k].priority = S[k].priority /\ Bytes(R[k].path) = Bytes(S[k].path)
  BY <1>5, <1>7
<1>9. n \in 1..m /\ i \in 1..m /\ SortRoutes(R)[n].name = R[i].name
  BY <1>1 DEF R
<1>10. Place(S, n) = Place(R, n)
  BY <1>1, <1>2, <1>5, <1>8, <1>9, SamePlaces
<1>11. /\ Place(R, n) \in 1..m /\ SortRoutes(R)[n] = R[Place(R, n)]
       /\ SortRoutes(S)[n] = S[Place(S, n)]
  <2>1. IsTable(R, m) /\ IsTable(S, m)
    BY <1>1, <1>2, <1>5
  <2>2. \A k \in 1..m : Place(R, k) \in 1..m /\ SortRoutes(R)[k] = R[Place(R, k)]
    BY <2>1, SortRoutesSorts
  <2>3. \A k \in 1..m : SortRoutes(S)[k] = S[Place(S, k)]
    BY <2>1, SortRoutesSorts
  <2>. QED  BY <1>9, <2>2, <2>3
<1>12. Place(R, n) = i
  BY <1>1, <1>9, <1>11
<1>13. SortRoutes(S)[n] = route
  BY <1>5, <1>10, <1>11, <1>12
<1>. QED  BY <1>6, <1>13 DEF S

\* Such an update leaves the route in its place among those it ties with.
THEOREM UpdatesStayInPlace == EditingSpec => UpdateInPlace
<1>. DEFINE Stays ==
       submitted'.operation = "update" /\ submitted'.page = "routes" =>
         \A i \in DOMAIN edited.routes :
           LET old == edited.routes[i]
               new == RoutesByName(edited'.routes)[Trim(submitted'.name)]
           IN (/\ old.name = Trim(submitted'.original)
               /\ old.priority = new.priority /\ Bytes(old.path) = Bytes(new.path)) =>
                \A n \in DOMAIN edited.routes :
                  SortRoutes(edited.routes)[n].name = old.name =>
                    SortRoutes(edited'.routes)[n].name = new.name
<1>1. ASSUME FromForms(edited), EditingNext PROVE Stays
  <2>. SUFFICES ASSUME submitted'.operation = "update", submitted'.page = "routes" PROVE Stays
    OBVIOUS
  <2>1. FromForms(edited') /\ RouteStep(edited, submitted', edited')
    BY <1>1, StepIs
  <2>2. ASSUME NEW i \in DOMAIN edited.routes, edited.routes[i].name = Trim(submitted'.original),
               LET new == RoutesByName(edited'.routes)[Trim(submitted'.name)]
               IN /\ edited.routes[i].priority = new.priority
                  /\ Bytes(edited.routes[i].path) = Bytes(new.path),
               NEW n \in DOMAIN edited.routes,
               SortRoutes(edited.routes)[n].name = edited.routes[i].name
        PROVE  SortRoutes(edited'.routes)[n].name =
                 RoutesByName(edited'.routes)[Trim(submitted'.name)].name
    BY <1>1, <2>1, <2>2, UpdateStays
  <2>. QED  BY <2>2
<1>2. FromForms(edited) /\ [EditingNext]_editing => [Stays]_editing
  BY <1>1
<1>. QED  BY <1>2, EditedFromForms, PTL DEF EditingSpec, UpdateInPlace
=============================================================================
