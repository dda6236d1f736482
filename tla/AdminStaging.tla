---------------------------- MODULE AdminStaging ----------------------------
(***************************************************************************)
(* The admin of a running process: forms are posted to the two staging     *)
(* handlers (crates/lungyam-admin/src/route_stage.rs, upstream_stage.rs),  *)
(* which check that writes are allowed, make a candidate of the running    *)
(* configuration and stage it. Around them the pending revision is         *)
(* activated, the running routes are replaced, and the process restarts.   *)
(*                                                                         *)
(* The files are those of ConfigRegistry, whose steps are what the         *)
(* lifecycle's steps amount to (ConfigLifecycle!ImplementsRegistry). The   *)
(* token of a process is the number of its start: one start never guesses  *)
(* another's.                                                              *)
(***************************************************************************)
EXTENDS AdminForms

CONSTANTS
    Requests,       \* requests to the staging handlers; each is made once
    Forms,          \* what they may post, apart from the token
    Configs,        \* the configurations there are
    InitialConfig,
    HandWritten,    \* what an operator may write into the active file
    MaxRevision,    \* bound of the revision numbers
    MaxStarts       \* bound of the starts of the process

ValidConfigs == {config \in Configs : Valid(config)}

ASSUME RequestsAssumption == None \notin Requests \cup Nat

ASSUME InitialConfigAssumption == HandWritten \cup {InitialConfig} \subseteq ValidConfigs

\* The valid ones that a form makes of another are among them, and upstreams are a map.
ASSUME ConfigsAssumption ==
    /\ \A config \in Configs : IsMap(config.upstreams)
    /\ \A config \in ValidConfigs, form \in Forms :
         \A candidate \in Candidates(config, form) : Valid(candidate) => candidate \in Configs

ASSUME BoundsAssumption == MaxRevision \in Nat /\ MaxStarts \in Nat \ {0}

VARIABLES
    current, history, active, pending,  \* see ConfigRegistry
    process,    \* the process: see Process
    task,       \* each request's progress
    lock,       \* the request that holds the lifecycle lock, or None
    activation  \* the revision and the restart flag of the last Activation result

registry == <<current, history, active, pending>>
vars == <<current, history, active, pending, process, task, lock, activation>>

Registry == INSTANCE ConfigRegistry

NoTask == [pc |-> "idle", form |-> None, token |-> 0, candidate |-> None,
           revision |-> None, answer |-> None]

NoActivation == [revision |-> None, restart |-> FALSE]

\* The warning of main: the admin listens where others reach it.
PublicAdminBindWarning(config) ==
    config.admin.enabled /\ config.admin.listen \in SocketAddresses \ Loopback

\* What a process runs, what it was started with and whether it warned then, its
\* token, and whether the admin knows the path of the configuration.
Process(config, started, token, path) ==
    [config |-> config, started |-> started, warned |-> PublicAdminBindWarning(started),
     token |-> token, path |-> path]

\* The command line gives the admin its path; other users of the crate need not.
Init ==
    /\ Registry!Init
    /\ \E path \in BOOLEAN : process = Process(InitialConfig, InitialConfig, 1, path)
    /\ task = [r \in Requests |-> NoTask]
    /\ lock = None
    /\ activation = NoActivation

----------------------------------------------------------------------------
(* The handlers, up to the lifecycle: they read the running configuration once. *)

Posted(r, form, token, pc, candidate, answer) ==
    /\ task[r].pc = "idle" /\ process.config.admin.enabled
    /\ task' = [task EXCEPT ![r] =
                  [pc |-> pc, form |-> form, token |-> token, candidate |-> candidate,
                   revision |-> None, answer |-> answer]]
    /\ UNCHANGED <<registry, process, lock, activation>>

Validation(form) == form.page = "routes" /\ form.operation = "validate-upstream"

\* Answered before any check of the right to write.
ValidateUpstream(r, form, token) ==
    /\ Validation(form)
    /\ Posted(r, form, token, "done", None, 200)

\* Mutant: the token is not checked.
AllowedAnyToken(token) == WritesEnabled(process.config)

Allowed(token) == WritesEnabled(process.config) /\ token = process.token

Deny(r, form, token) ==
    /\ ~Validation(form) /\ ~Allowed(token)
    /\ Posted(r, form, token, "done", None, 403)

Unavailable(r, form, token) ==
    /\ ~Validation(form) /\ Allowed(token) /\ ~process.path
    /\ Posted(r, form, token, "done", None, 503)

Refuse(r, form, token) ==
    /\ ~Validation(form) /\ Allowed(token) /\ process.path
    /\ Candidates(process.config, form) = {}
    /\ Posted(r, form, token, "done", None, 422)

Admit(r, form, token) ==
    /\ ~Validation(form) /\ Allowed(token) /\ process.path
    /\ \E candidate \in Candidates(process.config, form) :
         Posted(r, form, token, "waiting", candidate, None)

Post(r) ==
    \E form \in Forms, token \in 0..process.token :
      \/ ValidateUpstream(r, form, token)
      \/ Deny(r, form, token)
      \/ Unavailable(r, form, token)
      \/ Refuse(r, form, token)
      \/ Admit(r, form, token)

----------------------------------------------------------------------------
(* FileConfigLifecycle::stage, and the answer *)

\* A request that goes on to pc with a revision and an answer.
Moved(t, pc, revision, answer) ==
    [pc |-> pc, form |-> t.form, token |-> t.token, candidate |-> t.candidate,
     revision |-> revision, answer |-> answer]

Answer(r, answer) ==
    /\ task' = [task EXCEPT ![r] = Moved(@, "done", @.revision, answer)]
    /\ lock' = None

AcquireLifecycle(r) ==
    /\ task[r].pc = "waiting" /\ lock = None
    /\ lock' = r
    /\ task' = [task EXCEPT ![r] = Moved(@, "recording", None, None)]
    /\ UNCHANGED <<registry, process, activation>>

Record(r) ==
    /\ task[r].pc = "recording"
    /\ \E n \in 1..MaxRevision :
         /\ Registry!Record(n, task[r].candidate)
         /\ task' = [task EXCEPT ![r] = Moved(@, "marking", n, None)]
    /\ UNCHANGED <<process, lock, activation>>

MarkPending(r) ==
    /\ task[r].pc = "marking"
    /\ Registry!MarkPending(task[r].revision)
    /\ Answer(r, 200)
    /\ UNCHANGED <<process, activation>>

\* Mutant: the error path keeps the lock.
StageFailsLocked(r) ==
    /\ task[r].pc \in {"recording", "marking"}
    /\ task' = [task EXCEPT ![r] = Moved(@, "done", @.revision, 500)]
    /\ UNCHANGED <<registry, process, lock, activation>>

\* Mutant: an error after the revision is written is taken for success.
StageFailsAcknowledged(r) ==
    /\ task[r].pc \in {"recording", "marking"}
    /\ Answer(r, IF task[r].pc = "marking" THEN 200 ELSE 500)
    /\ UNCHANGED <<registry, process, activation>>

\* An error before the revision is there or before the state names it.
StageFails(r) ==
    /\ task[r].pc \in {"recording", "marking"}
    /\ Answer(r, 500)
    /\ UNCHANGED <<registry, process, activation>>

Step(r) == AcquireLifecycle(r) \/ Record(r) \/ MarkPending(r) \/ StageFails(r)

----------------------------------------------------------------------------
(* The process around the handlers *)

\* activate_pending, called in this process: the restart flag compares the new
\* active file with the one it replaces.
Activate ==
    /\ lock = None
    /\ Registry!Activate
    /\ activation' = [revision |-> pending,
                      restart |-> RestartRequired(Diff(current, current'))]
    /\ UNCHANGED <<process, task, lock>>

\* apply_route_config with the active file.
HotReload ==
    /\ process.config # current
    /\ Valid(current) /\ SameStructure(process.config, current)
    /\ process' = Process(current, process.started, process.token, process.path)
    /\ UNCHANGED <<registry, task, lock, activation>>

\* A start with the active file; requests under way are lost with the old process.
Start ==
    /\ process.token < MaxStarts
    /\ process' = Process(current', current', process.token + 1, process.path)
    /\ task' = [r \in Requests |-> IF task[r].pc \in {"idle", "done"} THEN task[r]
                                   ELSE Moved(task[r], "done", task[r].revision, None)]
    /\ lock' = None
    /\ activation' = NoActivation

Restart == UNCHANGED registry /\ Start

\* The active file is also a file that people edit.
EditFile ==
    /\ current' \in HandWritten \ {current}
    /\ UNCHANGED <<history, active, pending, process, task, lock, activation>>

\* The process ends in an activation, between its two files.
CrashInActivation == lock = None /\ Registry!Slip /\ Start

Next ==
    \/ \E r \in Requests : Post(r) \/ Step(r)
    \/ Activate
    \/ HotReload
    \/ Restart
    \/ EditFile
    \/ CrashInActivation

\* A handler that has begun runs on; clients, operators and crashes need not come.
Fairness == \A r \in Requests : WF_vars(Step(r))

Spec == Init /\ [][Next]_vars /\ Fairness

----------------------------------------------------------------------------

TypeOK ==
    /\ current \in ValidConfigs
    /\ DOMAIN history \subseteq 1..MaxRevision
    /\ \A n \in DOMAIN history : history[n] \in ValidConfigs
    /\ {active, pending} \subseteq DOMAIN history \cup {None}
    /\ process.config \in ValidConfigs /\ process.started \in ValidConfigs
    /\ process.token \in 1..MaxStarts
    /\ lock \in Requests \cup {None}
    /\ \A r \in Requests : task[r].answer \in {None, 200, 403, 422, 500, 503}

\* Nothing is written unless the process was started with writes enabled on a
\* loopback address, without the warning that they remain disabled, and the form
\* carries the token of this very process: through restarts and replaced routes.
WritesGated ==
    [][history' # history =>
         /\ WritesEnabled(process.started) /\ ~process.warned /\ process.path
         /\ \E r \in Requests : lock = r /\ task[r].token = process.token]_vars

\* A form that is answered with a revision is not forgotten: its candidate is
\* stored, and it or something staged later is pending or active.
AcknowledgedStays ==
    \A r \in Requests : task[r].answer = 200 /\ task[r].candidate # None =>
      LET n == task[r].revision
      IN /\ n \in DOMAIN history /\ history[n] = task[r].candidate
         /\ \E m \in {active, pending} \ {None} : m >= n

\* To a process that runs what the replaced file says, an activation reports a
\* restart exactly when replacing the routes would be refused.
FlagMatchesReload ==
    [][activation'.revision # activation.revision /\ activation'.revision # None
         /\ SameStructure(process.config, current) =>
           (activation'.restart <=> ~SameStructure(process.config, current'))]_vars

\* A handler that has begun to stage answers, or its process ends.
EveryFormAnswered ==
    \A r \in Requests : task[r].pc = "waiting" ~> task[r].pc = "done"
=============================================================================
