---------------------------- MODULE RevisionPages ----------------------------
(***************************************************************************)
(* The pages of the admin that show revisions                              *)
(* (crates/lungyam-admin/src/revision_views.rs): the list, made of the     *)
(* state file and then of the directory, and the difference of two         *)
(* revisions. Both read without the lifecycle lock, while the files go     *)
(* through the steps of ConfigRegistry.                                    *)
(***************************************************************************)
EXTENDS Configuration, Integers

CONSTANTS Configs, InitialConfig, MaxRevision

VARIABLES
    current, history, active, pending,  \* see ConfigRegistry
    path,       \* is the admin given the path of the configuration?
    page,       \* the list of revisions: what it has read
    fragment    \* the difference of two revisions: what it has read

registry == <<current, history, active, pending>>
vars == <<current, history, active, pending, path, page, fragment>>

ValidConfigs == {config \in Configs : Valid(config)}

\* Upstreams are a map, routes a sequence; of a route only what its place depends on
\* matters.
ASSUME ConfigsAssumption ==
    /\ InitialConfig \in ValidConfigs
    /\ \A config \in ValidConfigs :
         /\ IsMap(config.upstreams)
         /\ Len(config.routes) \in Nat /\ DOMAIN config.routes = 1..Len(config.routes)
         /\ \A i \in DOMAIN config.routes :
              /\ config.routes[i].priority \in Int
              /\ config.routes[i].path \in Seq(Characters)

ASSUME NoneAssumption == None \notin Nat \cup {"error"}

Registry == INSTANCE ConfigRegistry

NoPage == [pc |-> "idle", active |-> None, pending |-> None, rows |-> {}]

NoFragment == [pc |-> "idle", from |-> None, to |-> None, listed |-> FALSE,
               config |-> None, message |-> None]

Init ==
    /\ Registry!Init
    /\ path \in BOOLEAN
    /\ page = NoPage
    /\ fragment = NoFragment

----------------------------------------------------------------------------
(* render_revisions *)

Unavailable ==
    /\ page.pc = "idle" /\ ~path
    /\ page' = [NoPage EXCEPT !.pc = "unavailable"]
    /\ UNCHANGED <<registry, path, fragment>>

LoadState ==
    /\ page.pc = "idle" /\ path
    /\ page' = [NoPage EXCEPT !.pc = "state", !.active = active, !.pending = pending]
    /\ UNCHANGED <<registry, path, fragment>>

\* A directory being read has the entries it had when it was opened ...
OpenDirectory ==
    /\ page.pc = "state"
    /\ page' = [page EXCEPT !.pc = "open", !.rows = DOMAIN history]
    /\ UNCHANGED <<registry, path, fragment>>

\* Mutant: the state is read after the list.
ReadEntriesFirst ==
    /\ page.pc = "open"
    /\ page' = [page EXCEPT !.pc = "shown", !.active = active, !.pending = pending]
    /\ UNCHANGED <<registry, path, fragment>>

\* Mutant: the directory of a revision that is still being written is listed.
ReadEntriesUnfinished ==
    /\ page.pc = "open"
    /\ page' = [page EXCEPT !.pc = "shown", !.rows = @ \cup {Cardinality(DOMAIN history) + 1}]
    /\ UNCHANGED <<registry, path, fragment>>

\* ... and any of those added since.
ReadEntries ==
    /\ page.pc = "open"
    /\ \E added \in SUBSET (DOMAIN history \ page.rows) :
         page' = [page EXCEPT !.pc = "shown", !.rows = @ \cup added]
    /\ UNCHANGED <<registry, path, fragment>>

CloseList ==
    /\ page.pc \in {"shown", "unavailable"}
    /\ page' = NoPage
    /\ UNCHANGED <<registry, path, fragment>>

Status(n) ==
    IF page.active = n THEN "Active" ELSE IF page.pending = n THEN "Pending" ELSE "Stored"

CanDiff == Cardinality(page.rows) >= 2

----------------------------------------------------------------------------
(* render_diff *)

\* A query may name any numbers; the form of the page offers those it lists.
Show(from, to, listed, message) ==
    fragment' = [NoFragment EXCEPT !.pc = "shown", !.from = from, !.to = to,
                                   !.listed = listed, !.message = message]

LoadFrom ==
    /\ fragment.pc = "idle"
    /\ \E from, to \in 1..MaxRevision :
         LET listed == page.pc = "shown" /\ CanDiff /\ {from, to} \subseteq page.rows
         IN IF path /\ from \in DOMAIN history
            THEN fragment' = [pc |-> "from", from |-> from, to |-> to, listed |-> listed,
                              config |-> history[from], message |-> None]
            ELSE Show(from, to, listed, "error")
    /\ UNCHANGED <<registry, path, page>>

Message(diff) ==
    IF IsEmpty(diff) THEN "same" ELSE IF RestartRequired(diff) THEN "structural" ELSE "routes"

LoadTo ==
    /\ fragment.pc = "from"
    /\ IF fragment.to \in DOMAIN history
       THEN Show(fragment.from, fragment.to, fragment.listed,
                 Message(Diff(fragment.config, history[fragment.to])))
       ELSE Show(fragment.from, fragment.to, fragment.listed, "error")
    /\ UNCHANGED <<registry, path, page>>

CloseDiff ==
    /\ fragment.pc = "shown"
    /\ fragment' = NoFragment
    /\ UNCHANGED <<registry, path, page>>

Next ==
    \/ Registry!Next /\ UNCHANGED <<path, page, fragment>>
    \/ Unavailable \/ LoadState \/ OpenDirectory \/ ReadEntries \/ CloseList
    \/ LoadFrom \/ LoadTo \/ CloseDiff

Spec == Init /\ [][Next]_vars

----------------------------------------------------------------------------

\* Although no lock is held, the revisions in the head of the page are rows of
\* its list and marked there: the state is read before the list it refers to.
ReferencesListed ==
    page.pc = "shown" =>
      /\ page.active # None => \E n \in page.rows : Status(n) = "Active"
      /\ page.pending \notin {None, page.active} => \E n \in page.rows : Status(n) = "Pending"

\* Two revisions the page lists can be compared, whatever is written meanwhile.
ListedCompare == fragment.listed => fragment.message # "error"

\* Two routes that nothing but the order of declaration tells apart.
Tied(route, other) ==
    route.priority = other.priority /\ Bytes(route.path) = Bytes(other.path)

\* What the difference says stays true: revisions never change. "Structural" is
\* what a running process could not take over. "Same" is the same set of routes,
\* and every request finds the same one of them, unless two tie: the difference
\* does not see the order in which they are declared.
DiffStaysTrue ==
    fragment.pc = "shown" /\ fragment.message # "error" =>
      LET old == history[fragment.from]
          new == history[fragment.to]
      IN /\ fragment.message = "structural" <=> ~SameStructure(old, new)
         /\ fragment.message = "same" =>
              /\ ToSet(old.routes) = ToSet(new.routes)
              /\ \/ \E i, j \in DOMAIN old.routes : i # j /\ Tied(old.routes[i], old.routes[j])
                 \/ \A prefix \in {route.path : route \in ToSet(old.routes)} :
                      LET q == [host |-> None, path |-> prefix, method |-> None]
                      IN FindMatchingRoute(old.routes, q) = FindMatchingRoute(new.routes, q)
=============================================================================
