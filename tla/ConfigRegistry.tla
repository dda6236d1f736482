---------------------------- MODULE ConfigRegistry ----------------------------
(***************************************************************************)
(* What the configuration lifecycle promises, without files, locks or      *)
(* errors: an append-only history of valid configurations, the newest of   *)
(* which may be pending, and one configuration that the gateway reads when *)
(* it starts. Staging appends and marks; activation makes the pending      *)
(* configuration current and records that in one step.                     *)
(***************************************************************************)
EXTENDS Naturals

CONSTANTS Configs, ValidConfigs, InitialConfig, None, MaxRevision

VARIABLES
    current,    \* the configuration the gateway reads when it starts
    history,    \* revision number -> configuration
    active,     \* the revision recorded as active, or None
    pending     \* the revision waiting for activation, or None

vars == <<current, history, active, pending>>

Init ==
    /\ current = InitialConfig
    /\ history = [r \in {} |-> InitialConfig]
    /\ active = None
    /\ pending = None

Newest(r) == \A s \in DOMAIN history : s <= r

\* Mutant: the newest revision is written again.
RecordReusing(r, c) ==
    /\ Newest(r)
    /\ history' = [s \in DOMAIN history \cup {r} |-> IF s = r THEN c ELSE history[s]]
    /\ UNCHANGED <<current, active, pending>>

\* Revisions are numbered upwards and never change.
Record(r, c) ==
    /\ Newest(r) /\ r \notin DOMAIN history
    /\ history' = [s \in DOMAIN history \cup {r} |-> IF s = r THEN c ELSE history[s]]
    /\ UNCHANGED <<current, active, pending>>

MarkPending(r) ==
    /\ Newest(r)
    /\ pending' = r
    /\ UNCHANGED <<current, history, active>>

Activate ==
    /\ pending \in DOMAIN history
    /\ current' = history[pending]
    /\ active' = pending
    /\ pending' = None
    /\ UNCHANGED history

\* The one departure the code allows: the pending configuration is current
\* but still recorded as pending.
Slip ==
    /\ pending \in DOMAIN history
    /\ current' = history[pending]
    /\ UNCHANGED <<history, active, pending>>

Next ==
    \/ \E r \in 1..MaxRevision, c \in ValidConfigs : Record(r, c)
    \/ \E r \in DOMAIN history : MarkPending(r)
    \/ Activate
    \/ Slip

Spec == Init /\ [][Next]_vars
=============================================================================
