--------------------------- MODULE DurabilityProofs ---------------------------
(***************************************************************************)
(* For any configurations, any number of revisions and losses of power:    *)
(* every state of the disk that an ordered file system may be left in is   *)
(* one the lifecycle can go on from, and what was synced stays on any.     *)
(***************************************************************************)
EXTENDS Durability, FiniteSetTheorems, WellFoundedInduction, TLAPS

----------------------------------------------------------------------------
(* Replaying a journal. *)

\* Content and Files, of a disk and a journal that need not be the present ones.
ContentOf(d, j, f, places) ==
    LET writes == {i \in places : j[i].file = f}
    IN IF writes = {} THEN d[f] ELSE j[Max(writes)].value

NamesOf(d, j, places) == DOMAIN d \cup {j[i].file : i \in places}

FilesOf(d, j, places) ==
    [f \in (IF Root \in NamesOf(d, j, places) THEN NamesOf(d, j, places) ELSE {Active})
       |-> ContentOf(d, j, f, places)]

AllOf(d, j) == FilesOf(d, j, 1..Len(j))

Names == {Active, State, Root} \cup {Revision(n) : n \in 1..MaxRevision}

ReferenceSet == [active : 1..MaxRevision \cup {None}, pending : 1..MaxRevision \cup {None}]

Contents(f) == IF f = State THEN ReferenceSet ELSE IF f = Root THEN {None} ELSE Configs

Ops == UNION {{Op(f, value) : value \in Contents(f)} : f \in Names}

\* The names of a prefix: nothing is in the directory before there is one.
RootFirst(d, j) ==
    \A n \in 0..Len(j) :
        Root \notin NamesOf(d, j, 1..n) => NamesOf(d, j, 1..n) = {Active}

Stored(d, j) ==
    /\ Active \in DOMAIN d /\ DOMAIN d \subseteq Names
    /\ \A f \in DOMAIN d : d[f] \in Contents(f)
    /\ j \in Seq(Ops)
    /\ RootFirst(d, j)

Updated(files, f, value) ==
    [g \in DOMAIN files \cup {f} |-> IF g = f THEN value ELSE files[g]]

LEMMA NamesDiffer ==
    /\ Active # State /\ Active # Root /\ State # Root
    /\ \A n : Revision(n) \notin {Active, State, Root}
    /\ \A n, m : Revision(n) = Revision(m) => n = m
BY DEF Active, State, Root, Revision

LEMMA OpsAreTyped ==
    ASSUME NEW op \in Ops
    PROVE  op.file \in Names /\ op.value \in Contents(op.file)
BY DEF Ops, Op

LEMMA IsOp ==
    ASSUME NEW f \in Names, NEW value \in Contents(f)
    PROVE  Op(f, value) \in Ops /\ Op(f, value).file = f /\ Op(f, value).value = value
BY DEF Ops, Op

LEMMA MaxIs ==
    ASSUME NEW S \in SUBSET Nat, NEW m \in S, \A x \in S : m >= x
    PROVE  Max(S) = m
<1>1. \A x \in S : (\A y \in S : x >= y) => x = m
  OBVIOUS
<1>. QED  BY <1>1 DEF Max

\* A nonempty set of numbers up to N has a largest element: the smallest
\* distance to N belongs to it.
LEMMA MaximumExists ==
    ASSUME NEW N \in Nat, NEW S \in SUBSET (1..N), S # {}
    PROVE  /\ Max(S) \in S
           /\ \A x \in S : Max(S) >= x
<1>. DEFINE D == {d \in Nat : \E x \in S : d = N - x}
<1>1. D # {} /\ D \subseteq Nat
  <2>1. PICK x \in S : TRUE
    OBVIOUS
  <2>2. N - x \in D
    BY <2>1
  <2>. QED  BY <2>2
<1>2. PICK d \in D : \A e \in D : ~(<<e, d>> \in OpToRel(<, Nat))
  <2>. HIDE DEF D
  <2>. QED  BY <1>1, WFMin, NatLessThanWellFounded, Zenon
<1>3. PICK m \in S : d = N - m
  OBVIOUS
<1>4. ASSUME NEW x \in S PROVE m >= x
  <2>1. N - x \in D
    OBVIOUS
  <2>2. ~(N - x < d)
    <3>. HIDE DEF D
    <3>. QED  BY <1>2, <2>1, <1>1 DEF OpToRel
  <2>. QED  BY <1>3, <2>2
<1>5. Max(S) = m
  BY <1>4, MaxIs
<1>. QED  BY <1>4, <1>5

\* With the directory there, what is named is there.
LEMMA FilesPlain ==
    ASSUME NEW d, NEW j, Stored(d, j), NEW n \in 0..Len(j)
    PROVE  /\ DOMAIN FilesOf(d, j, 1..n) = NamesOf(d, j, 1..n)
           /\ FilesOf(d, j, 1..n) = [f \in NamesOf(d, j, 1..n) |-> ContentOf(d, j, f, 1..n)]
BY DEF Stored, RootFirst, FilesOf

LEMMA AllPlain ==
    ASSUME NEW d, NEW j, Stored(d, j)
    PROVE  /\ DOMAIN AllOf(d, j) = NamesOf(d, j, 1..Len(j))
           /\ AllOf(d, j) = [f \in NamesOf(d, j, 1..Len(j)) |-> ContentOf(d, j, f, 1..Len(j))]
<1>1. Len(j) \in 0..Len(j)
  BY DEF Stored
<1>. QED  BY <1>1, FilesPlain DEF AllOf

\* An operation more: what was, is; and after it the file has its value.
LEMMA ContentAppended ==
    ASSUME NEW d, NEW j \in Seq(Ops), NEW op \in Ops, NEW f
    PROVE  /\ \A n \in 0..Len(j) :
                  ContentOf(d, Append(j, op), f, 1..n) = ContentOf(d, j, f, 1..n)
           /\ ContentOf(d, Append(j, op), f, 1..(Len(j) + 1)) =
                  IF f = op.file THEN op.value ELSE ContentOf(d, j, f, 1..Len(j))
<1>. DEFINE k == Append(j, op)
            W(n) == {i \in 1..n : j[i].file = f}
            V(n) == {i \in 1..n : k[i].file = f}
<1>1. /\ Len(j) \in Nat /\ Len(k) = Len(j) + 1
      /\ \A i \in 1..Len(j) : k[i] = j[i]
      /\ k[Len(j) + 1] = op
  OBVIOUS
<1>2. ASSUME NEW n \in 0..Len(j)
      PROVE  ContentOf(d, k, f, 1..n) = ContentOf(d, j, f, 1..n)
  <2>1. V(n) = W(n)
    BY <1>1
  <2>2. W(n) # {} => Max(W(n)) \in 1..Len(j)
    <3>1. SUFFICES ASSUME W(n) # {} PROVE Max(W(n)) \in 1..Len(j)
      OBVIOUS
    <3>2. W(n) \in SUBSET (1..n) /\ n \in Nat
      BY <1>1
    <3>3. Max(W(n)) \in W(n)
      BY <3>1, <3>2, MaximumExists
    <3>. QED  BY <1>1, <3>2, <3>3
  <2>. QED  BY <1>1, <2>1, <2>2 DEF ContentOf
<1>3. ContentOf(d, k, f, 1..(Len(j) + 1)) =
         IF f = op.file THEN op.value ELSE ContentOf(d, j, f, 1..Len(j))
  <2>1. CASE f = op.file
    <3>1. V(Len(j) + 1) \in SUBSET Nat /\ Len(j) + 1 \in V(Len(j) + 1)
      BY <1>1, <2>1
    <3>2. \A x \in V(Len(j) + 1) : Len(j) + 1 >= x
      BY <1>1
    <3>3. Max(V(Len(j) + 1)) = Len(j) + 1
      BY <3>1, <3>2, MaxIs
    <3>. QED  BY <1>1, <2>1, <3>1, <3>3 DEF ContentOf
  <2>2. CASE f # op.file
    <3>1. V(Len(j) + 1) = V(Len(j))
      BY <1>1, <2>2
    <3>2. ContentOf(d, k, f, 1..(Len(j) + 1)) = ContentOf(d, k, f, 1..Len(j))
      BY <3>1 DEF ContentOf
    <3>. QED  BY <1>1, <1>2, <2>2, <3>2
  <2>. QED  BY <2>1, <2>2
<1>. QED  BY <1>2, <1>3

LEMMA NamesAppended ==
    ASSUME NEW d, NEW j \in Seq(Ops), NEW op \in Ops
    PROVE  /\ \A n \in 0..Len(j) : NamesOf(d, Append(j, op), 1..n) = NamesOf(d, j, 1..n)
           /\ NamesOf(d, Append(j, op), 1..(Len(j) + 1)) = NamesOf(d, j, 1..Len(j)) \cup {op.file}
<1>. DEFINE k == Append(j, op)
<1>1. /\ Len(j) \in Nat /\ Len(k) = Len(j) + 1
      /\ \A i \in 1..Len(j) : k[i] = j[i]
      /\ k[Len(j) + 1] = op
  OBVIOUS
<1>2. \A n \in 0..Len(j) : {k[i].file : i \in 1..n} = {j[i].file : i \in 1..n}
  BY <1>1
<1>3. {k[i].file : i \in 1..(Len(j) + 1)} = {j[i].file : i \in 1..Len(j)} \cup {op.file}
  <2>1. 1..(Len(j) + 1) = 1..Len(j) \cup {Len(j) + 1}
    BY <1>1
  <2>. QED  BY <1>1, <2>1
<1>. QED  BY <1>2, <1>3 DEF NamesOf

LEMMA Appended ==
    ASSUME NEW d, NEW j, Stored(d, j), NEW op \in Ops,
           op.file \in {Root, Active} \/ Root \in DOMAIN AllOf(d, j)
    PROVE  /\ Stored(d, Append(j, op))
           /\ \A n \in 0..Len(j) : FilesOf(d, Append(j, op), 1..n) = FilesOf(d, j, 1..n)
           /\ AllOf(d, Append(j, op)) = Updated(AllOf(d, j), op.file, op.value)
<1>. DEFINE k == Append(j, op)
<1>1. /\ j \in Seq(Ops) /\ k \in Seq(Ops)
      /\ Len(j) \in Nat /\ Len(k) = Len(j) + 1
  BY DEF Stored
<1>2. \A n \in 0..Len(j) : NamesOf(d, k, 1..n) = NamesOf(d, j, 1..n)
  BY <1>1, NamesAppended
<1>3. NamesOf(d, k, 1..(Len(j) + 1)) = NamesOf(d, j, 1..Len(j)) \cup {op.file}
  BY <1>1, NamesAppended
<1>4. DOMAIN AllOf(d, j) = NamesOf(d, j, 1..Len(j))
  BY AllPlain
<1>5. RootFirst(d, k)
  <2>1. SUFFICES ASSUME NEW n \in 0..Len(k), Root \notin NamesOf(d, k, 1..n)
                 PROVE  NamesOf(d, k, 1..n) = {Active}
    BY DEF RootFirst
  <2>2. CASE n \in 0..Len(j)
    BY <1>2, <2>1, <2>2 DEF Stored, RootFirst
  <2>3. CASE n = Len(j) + 1
    <3>1. Root \notin NamesOf(d, j, 1..Len(j)) /\ op.file = Active
      BY <1>3, <1>4, <2>1, <2>3
    <3>2. NamesOf(d, j, 1..Len(j)) = {Active}
      BY <1>1, <3>1 DEF Stored, RootFirst
    <3>. QED  BY <1>3, <2>3, <3>1, <3>2
  <2>. QED  BY <1>1, <2>1, <2>2, <2>3
<1>6. Stored(d, k)
  BY <1>1, <1>5 DEF Stored
<1>7. ASSUME NEW n \in 0..Len(j)
      PROVE  FilesOf(d, k, 1..n) = FilesOf(d, j, 1..n)
  <2>1. \A f : ContentOf(d, k, f, 1..n) = ContentOf(d, j, f, 1..n)
    BY <1>1, ContentAppended
  <2>. QED  BY <1>2, <2>1 DEF FilesOf
<1>8. AllOf(d, k) = Updated(AllOf(d, j), op.file, op.value)
  <2>1. AllOf(d, k) = [f \in NamesOf(d, k, 1..(Len(j) + 1)) |-> ContentOf(d, k, f, 1..(Len(j) + 1))]
    <3>. HIDE DEF k
    <3>. QED  BY <1>1, <1>6, AllPlain
  <2>2. AllOf(d, j) = [f \in NamesOf(d, j, 1..Len(j)) |-> ContentOf(d, j, f, 1..Len(j))]
    BY AllPlain
  <2>3. \A f : ContentOf(d, k, f, 1..(Len(j) + 1)) =
               IF f = op.file THEN op.value ELSE ContentOf(d, j, f, 1..Len(j))
    BY <1>1, ContentAppended
  <2>. QED  BY <1>3, <2>1, <2>2, <2>3 DEF Updated
<1>. QED  BY <1>6, <1>7, <1>8

\* What is named has a content of its kind.
LEMMA FilesTyped ==
    ASSUME NEW d, NEW j, Stored(d, j), NEW places \in SUBSET (1..Len(j)), NEW f \in NamesOf(d, j, places)
    PROVE  f \in Names /\ ContentOf(d, j, f, places) \in Contents(f)
<1>. DEFINE W == {i \in places : j[i].file = f}
<1>1. j \in Seq(Ops) /\ Len(j) \in Nat
  BY DEF Stored
<1>2. \A i \in places : j[i] \in Ops
  BY <1>1
<1>3. CASE W = {}
  <2>1. f \in DOMAIN d
    BY <1>3 DEF NamesOf
  <2>. QED  BY <1>3, <2>1 DEF Stored, ContentOf
<1>4. CASE W # {}
  <2>1. Max(W) \in W
    BY <1>1, <1>4, MaximumExists
  <2>2. ContentOf(d, j, f, places) = j[Max(W)].value
    BY <1>4 DEF ContentOf
  <2>3. j[Max(W)].file = f /\ j[Max(W)] \in Ops
    BY <1>2, <2>1
  <2>. QED  BY <2>2, <2>3, OpsAreTyped
<1>. QED  BY <1>3, <1>4

----------------------------------------------------------------------------
(* The invariant. *)

Gapless(files) == \E k \in 0..MaxRevision : Numbers(files) = 1..k

IsFiles(files) ==
    /\ Active \in DOMAIN files /\ DOMAIN files \subseteq Names
    /\ \A f \in DOMAIN files : files[f] \in Contents(f)
    /\ Root \notin DOMAIN files => DOMAIN files = {Active}

\* What recovery relies on.
Consistent(files) ==
    LET references == References(files)
    IN /\ Gapless(files)
       /\ Known(references, files)
       /\ references.pending = None /\ references.active # None =>
            files[Revision(references.active)] = files[Active]

\* On an ordered file system every prefix of the journal is consistent, not
\* only the whole: a loss of power may leave any of them.
PrefixInv ==
    ordered => \A n \in 0..Len(journal) : Consistent(FilesOf(disk, journal, 1..n))

TaskInv ==
    /\ task \in [pc : {"idle", "mark", "save", "sync", "record"},
                 config : Configs \cup {None}, revision : 1..MaxRevision \cup {None}]
    /\ task.pc # "idle" => task.revision \in Numbers(Seen)
    /\ task.pc \in {"save", "sync", "record"} =>
         /\ task.config = Seen[Revision(task.revision)]
         /\ References(Seen).pending = task.revision
    /\ task.pc \in {"sync", "record"} => Seen[Active] = task.config

\* Outside the window between a rename and its sync, every name given to the
\* active file is durable.
SyncedInv ==
    /\ synced \subseteq DOMAIN journal
    /\ task.pc # "sync" =>
         \A i \in DOMAIN journal : journal[i].file = Active => i \in synced

IInv == Stored(disk, journal) /\ PrefixInv /\ TaskInv /\ SyncedInv

LEMMA AllTyped ==
    ASSUME NEW d, NEW j, Stored(d, j)
    PROVE  IsFiles(AllOf(d, j))
<1>1. /\ DOMAIN AllOf(d, j) = NamesOf(d, j, 1..Len(j))
      /\ \A f \in NamesOf(d, j, 1..Len(j)) : AllOf(d, j)[f] = ContentOf(d, j, f, 1..Len(j))
  BY AllPlain
<1>2. \A f \in NamesOf(d, j, 1..Len(j)) : f \in Names /\ ContentOf(d, j, f, 1..Len(j)) \in Contents(f)
  BY FilesTyped
<1>3. Active \in NamesOf(d, j, 1..Len(j))
  BY DEF Stored, NamesOf
<1>4. Root \notin NamesOf(d, j, 1..Len(j)) => NamesOf(d, j, 1..Len(j)) = {Active}
  BY DEF Stored, RootFirst
<1>. QED  BY <1>1, <1>2, <1>3, <1>4 DEF IsFiles

\* A disk that a loss of power leaves.
LEMMA AfterLoss ==
    ASSUME NEW d, NEW j, Stored(d, j), NEW places \in SUBSET (1..Len(j))
    PROVE  /\ Stored(FilesOf(d, j, places), <<>>)
           /\ FilesOf(FilesOf(d, j, places), <<>>, 1..0) = FilesOf(d, j, places)
<1>. DEFINE e == FilesOf(d, j, places)
<1>1. Active \in NamesOf(d, j, places)
  BY DEF Stored, NamesOf
<1>2. \A f \in NamesOf(d, j, places) : f \in Names /\ ContentOf(d, j, f, places) \in Contents(f)
  BY FilesTyped
<1>3. /\ Active \in DOMAIN e /\ DOMAIN e \subseteq Names
      /\ \A f \in DOMAIN e : e[f] \in Contents(f)
      /\ Root \notin DOMAIN e => DOMAIN e = {Active}
      /\ e = [f \in DOMAIN e |-> e[f]]
  BY <1>1, <1>2 DEF FilesOf
<1>. HIDE DEF e
<1>4. \A n \in 0..Len(<<>>) : NamesOf(e, <<>>, 1..n) = DOMAIN e
  <2>1. Len(<<>>) = 0
    OBVIOUS
  <2>2. NamesOf(e, <<>>, {}) = DOMAIN e
    BY Zenon DEF NamesOf
  <2>3. \A n \in 0..0 : 1..n = {}
    OBVIOUS
  <2>. QED  BY <2>1, <2>2, <2>3
<1>5. Stored(e, <<>>)
  BY <1>3, <1>4 DEF Stored, RootFirst
<1>6. \A f : ContentOf(e, <<>>, f, 1..0) = e[f]
  BY DEF ContentOf
<1>7. FilesOf(e, <<>>, 1..0) = [f \in DOMAIN e |-> e[f]]
  BY <1>3, <1>4, <1>6 DEF FilesOf
<1>. QED  BY <1>3, <1>5, <1>7 DEF e

----------------------------------------------------------------------------
(* What a write does to a consistent state. *)

LEMMA RootKeepsConsistent ==
    ASSUME NEW files, IsFiles(files), Consistent(files)
    PROVE  Consistent(Updated(files, Root, None))
<1>. DEFINE files2 == Updated(files, Root, None)
<1>1. /\ Numbers(files2) = Numbers(files)
      /\ \A n \in Numbers(files) : files2[Revision(n)] = files[Revision(n)]
      /\ files2[Active] = files[Active]
      /\ References(files2) = References(files)
  BY NamesDiffer DEF Updated, Numbers, References, IsFiles
<1>. QED  BY <1>1 DEF Consistent, Gapless, Known

LEMMA RevisionKeepsConsistent ==
    ASSUME NEW files, IsFiles(files), Consistent(files), NEW m \in 1..MaxRevision,
           NEW config, Numbers(files) = 1..(m - 1)
    PROVE  Consistent(Updated(files, Revision(m), config))
<1>. DEFINE files2 == Updated(files, Revision(m), config)
<1>1. /\ Numbers(files2) = Numbers(files) \cup {m}
      /\ \A n \in Numbers(files) : n # m => files2[Revision(n)] = files[Revision(n)]
      /\ files2[Active] = files[Active]
      /\ References(files2) = References(files)
  BY NamesDiffer DEF Updated, Numbers, References, IsFiles
<1>2. Numbers(files2) = 1..m /\ m \notin Numbers(files)
  BY <1>1, BoundAssumption
<1>3. Gapless(files2)
  BY <1>2, BoundAssumption DEF Gapless
<1>4. Known(References(files2), files2)
  BY <1>1 DEF Consistent, Known
<1>5. References(files).active # None => References(files).active \in Numbers(files)
  BY DEF Consistent, Known
<1>. QED  BY <1>1, <1>2, <1>3, <1>4, <1>5 DEF Consistent

LEMMA StateKeepsConsistent ==
    ASSUME NEW files, IsFiles(files), Consistent(files), NEW references,
           Known(references, files),
           references.pending = None /\ references.active # None =>
              files[Revision(references.active)] = files[Active]
    PROVE  Consistent(Updated(files, State, references))
<1>. DEFINE files2 == Updated(files, State, references)
<1>1. /\ Numbers(files2) = Numbers(files)
      /\ \A n \in Numbers(files) : files2[Revision(n)] = files[Revision(n)]
      /\ files2[Active] = files[Active]
      /\ References(files2) = references
  BY NamesDiffer DEF Updated, Numbers, References, IsFiles
<1>. QED  BY <1>1 DEF Consistent, Gapless, Known

LEMMA ActiveKeepsConsistent ==
    ASSUME NEW files, IsFiles(files), Consistent(files), References(files).pending # None, NEW config
    PROVE  Consistent(Updated(files, Active, config))
<1>. DEFINE files2 == Updated(files, Active, config)
<1>1. /\ Numbers(files2) = Numbers(files)
      /\ References(files2) = References(files)
  BY NamesDiffer DEF Updated, Numbers, References, IsFiles
<1>. QED  BY <1>1 DEF Consistent, Gapless, Known

LEMMA PrefixAppended ==
    ASSUME NEW d, NEW j, Stored(d, j), NEW op \in Ops,
           op.file \in {Root, Active} \/ Root \in DOMAIN AllOf(d, j),
           \A n \in 0..Len(j) : Consistent(FilesOf(d, j, 1..n)),
           Consistent(Updated(AllOf(d, j), op.file, op.value))
    PROVE  \A n \in 0..Len(Append(j, op)) : Consistent(FilesOf(d, Append(j, op), 1..n))
<1>1. Len(j) \in Nat /\ Len(Append(j, op)) = Len(j) + 1
  BY DEF Stored
<1>2. \A n \in 0..Len(j) : FilesOf(d, Append(j, op), 1..n) = FilesOf(d, j, 1..n)
  BY Appended
<1>3. FilesOf(d, Append(j, op), 1..(Len(j) + 1)) = Updated(AllOf(d, j), op.file, op.value)
  BY <1>1, Appended DEF AllOf
<1>. QED  BY <1>1, <1>2, <1>3

----------------------------------------------------------------------------
(* The steps. *)

LEMMA SeenIsAll ==
    ASSUME Stored(disk, journal)
    PROVE  Seen = AllOf(disk, journal) /\ IsFiles(Seen) /\ DOMAIN journal = 1..Len(journal)
<1>1. DOMAIN journal = 1..Len(journal)
  BY DEF Stored
<1>2. Seen = AllOf(disk, journal)
  BY <1>1 DEF Seen, Files, Content, AllOf, FilesOf, NamesOf, ContentOf
<1>. QED  BY <1>1, <1>2, AllTyped

LEMMA InitIInv == Init => IInv
<1>. SUFFICES ASSUME Init PROVE IInv
  OBVIOUS
<1>1. /\ disk = [f \in {Active} |-> InitialConfig] /\ journal = <<>> /\ synced = {} /\ task = NoTask
      /\ Len(journal) = 0 /\ 1..0 = {}
  BY DEF Init
<1>2. \A n \in 0..Len(journal) : NamesOf(disk, journal, 1..n) = {Active}
  <2>1. NamesOf(disk, journal, {}) = {Active}
    BY <1>1, Zenon DEF NamesOf
  <2>. QED  BY <1>1, <2>1
<1>3. Stored(disk, journal)
  <2>1. InitialConfig \in Contents(Active)
    BY ConfigAssumption, NamesDiffer DEF Contents
  <2>. QED  BY <1>1, <1>2, <2>1 DEF Stored, RootFirst, Names
<1>4. \A n \in 0..Len(journal) : DOMAIN FilesOf(disk, journal, 1..n) = {Active}
  BY <1>2, NamesDiffer DEF FilesOf
<1>5. ASSUME NEW files, DOMAIN files = {Active} PROVE Consistent(files)
  <2>1. Numbers(files) = 1..0 /\ References(files) = NoReferences
    BY <1>5, NamesDiffer DEF Numbers, References
  <2>. QED  BY <2>1, BoundAssumption DEF Consistent, Gapless, Known, NoReferences
<1>6. PrefixInv
  BY <1>4, <1>5 DEF PrefixInv
<1>. QED  BY <1>1, <1>3, <1>6 DEF IInv, TaskInv, SyncedInv, NoTask

\* A write after which the files are still consistent.
LEMMA Wrote ==
    ASSUME IInv, NEW op \in Ops,
           op.file \in {Root, Active} \/ Root \in DOMAIN Seen,
           ordered => Consistent(Updated(Seen, op.file, op.value)),
           journal' = Append(journal, op), UNCHANGED <<ordered, disk, synced>>
    PROVE  /\ Stored(disk', journal')
           /\ PrefixInv'
           /\ Seen' = Updated(Seen, op.file, op.value)
           /\ synced' \subseteq DOMAIN journal'
           /\ (task.pc # "sync" /\ op.file # Active) =>
                \A i \in DOMAIN journal' : journal'[i].file = Active => i \in synced'
<1>1. /\ Stored(disk, journal) /\ Seen = AllOf(disk, journal)
      /\ DOMAIN journal = 1..Len(journal) /\ journal \in Seq(Ops)
  BY SeenIsAll DEF IInv, Stored
<1>2. /\ Stored(disk', journal')
      /\ AllOf(disk', journal') = Updated(Seen, op.file, op.value)
  BY <1>1, Appended
<1>3. Seen' = AllOf(disk', journal')
  <2>1. DOMAIN journal' = 1..Len(journal')
    BY <1>2 DEF Stored
  <2>. QED  BY <2>1 DEF Seen, Files, Content, AllOf, FilesOf, NamesOf, ContentOf
<1>4. PrefixInv'
  <2>1. SUFFICES ASSUME ordered' PROVE \A n \in 0..Len(journal') : Consistent(FilesOf(disk', journal', 1..n))
    BY DEF PrefixInv
  <2>2. \A n \in 0..Len(journal) : Consistent(FilesOf(disk, journal, 1..n))
    BY <2>1 DEF IInv, PrefixInv
  <2>3. Consistent(Updated(AllOf(disk, journal), op.file, op.value))
    BY <1>1, <2>1
  <2>4. op.file \in {Root, Active} \/ Root \in DOMAIN AllOf(disk, journal)
    BY <1>1
  <2>5. \A n \in 0..Len(Append(journal, op)) : Consistent(FilesOf(disk, Append(journal, op), 1..n))
    BY <1>1, <2>2, <2>3, <2>4, PrefixAppended
  <2>. QED  BY <2>5
<1>5. /\ DOMAIN journal' = DOMAIN journal \cup {Len(journal) + 1}
      /\ \A i \in DOMAIN journal : journal'[i] = journal[i]
      /\ journal'[Len(journal) + 1] = op
  BY <1>1
<1>. QED  BY <1>2, <1>3, <1>4, <1>5 DEF IInv, SyncedInv

\* The number create picks is free, and the next one.
LEMMA NextIsNext ==
    ASSUME IInv, NextRevision <= MaxRevision
    PROVE  /\ NextRevision \in 1..MaxRevision
           /\ ordered => Numbers(Seen) = 1..(NextRevision - 1)
<1>1. Numbers(Seen) \in SUBSET (1..MaxRevision) /\ MaxRevision \in Nat
  BY BoundAssumption DEF Numbers
<1>2. NextRevision \in 1..MaxRevision
  <2>1. CASE Numbers(Seen) = {}
    BY <1>1, <2>1 DEF NextRevision
  <2>2. CASE Numbers(Seen) # {}
    <3>1. Max(Numbers(Seen)) \in 1..MaxRevision
      BY <1>1, <2>2, MaximumExists
    <3>. QED  BY <2>2, <3>1, <1>1 DEF NextRevision
  <2>. QED  BY <2>1, <2>2
<1>3. ASSUME ordered PROVE Numbers(Seen) = 1..(NextRevision - 1)
  <2>1. Consistent(Seen)
    <3>1. Stored(disk, journal) /\ PrefixInv /\ Len(journal) \in 0..Len(journal)
      BY DEF IInv, Stored
    <3>. QED  BY <1>3, <3>1, SeenIsAll DEF PrefixInv, AllOf
  <2>2. PICK k \in 0..MaxRevision : Numbers(Seen) = 1..k
    BY <2>1 DEF Consistent, Gapless
  <2>3. CASE k = 0
    BY <2>2, <2>3 DEF NextRevision
  <2>4. CASE k # 0
    <3>1. 1..k \in SUBSET Nat /\ k \in 1..k /\ \A x \in 1..k : k >= x
      BY <2>2, <2>4
    <3>2. Max(1..k) = k
      BY <3>1, MaxIs
    <3>. QED  BY <2>2, <2>4, <3>1, <3>2 DEF NextRevision
  <2>. QED  BY <2>3, <2>4
<1>. QED  BY <1>2, <1>3

LEMMA SeenConsistent ==
    ASSUME IInv, ordered
    PROVE  Consistent(Seen)
<1>1. Stored(disk, journal) /\ PrefixInv /\ Len(journal) \in 0..Len(journal)
  BY DEF IInv, Stored
<1>. QED  BY <1>1, SeenIsAll DEF PrefixInv, AllOf

LEMMA RootIsThere ==
    ASSUME IInv, NEW n \in Numbers(Seen)
    PROVE  Root \in DOMAIN Seen
<1>1. IsFiles(Seen)
  BY SeenIsAll DEF IInv
<1>. QED  BY <1>1, NamesDiffer DEF IsFiles, Numbers

LEMMA CreateRevisionKeepsIInv ==
    ASSUME IInv, CreateRevision, UNCHANGED ordered
    PROVE  IInv'
<1>1. PICK config \in Configs :
         /\ task' = [pc |-> "mark", config |-> config, revision |-> NextRevision]
         /\ Write((IF Root \in DOMAIN Seen THEN <<>> ELSE <<Op(Root, None)>>)
                  \o <<Op(Revision(NextRevision), config)>>)
  BY DEF CreateRevision, Successor
<1>. DEFINE m == NextRevision
            a == Op(Root, None)
            b == Op(Revision(m), config)
<1>2. m \in 1..MaxRevision /\ (ordered => Numbers(Seen) = 1..(m - 1)) /\ task.pc = "idle"
  BY NextIsNext DEF CreateRevision
<1>3. /\ a \in Ops /\ b \in Ops
      /\ a.file = Root /\ a.value = None /\ b.file = Revision(m) /\ b.value = config
  <2>1. Root \in Names /\ Revision(m) \in Names
    BY <1>2 DEF Names
  <2>2. None \in Contents(Root) /\ config \in Contents(Revision(m))
    BY NamesDiffer DEF Contents
  <2>. QED  BY <2>1, <2>2, IsOp
<1>4. /\ Stored(disk, journal) /\ IsFiles(Seen) /\ Seen = AllOf(disk, journal)
      /\ journal \in Seq(Ops) /\ DOMAIN journal = 1..Len(journal)
      /\ (ordered => Consistent(Seen))
  BY SeenIsAll, SeenConsistent DEF IInv, Stored
<1>. HIDE DEF m, a, b
<1>5. /\ Stored(disk', journal')
      /\ PrefixInv'
      /\ \E files : Seen' = Updated(files, Revision(m), config)
      /\ synced' \subseteq DOMAIN journal'
      /\ \A i \in DOMAIN journal' : journal'[i].file = Active => i \in synced'
  <2>1. CASE Root \in DOMAIN Seen
    <3>1. journal' = Append(journal, b) /\ UNCHANGED <<disk, synced>>
      BY <1>1, <1>4, <2>1 DEF Write, m, b
    <3>2. ordered => Consistent(Updated(Seen, Revision(m), config))
      BY <1>2, <1>4, RevisionKeepsConsistent
    <3>3. b.file # Active
      BY <1>3, NamesDiffer
    <3>. QED  BY <1>2, <1>3, <1>4, <2>1, <3>1, <3>2, <3>3, Wrote
  <2>2. CASE Root \notin DOMAIN Seen
    <3>. DEFINE j == Append(journal, a)
                files == Updated(Seen, Root, None)
    <3>1. journal' = Append(j, b) /\ UNCHANGED <<disk, synced>>
      <4>1. journal' = journal \o (<<a>> \o <<b>>)
        BY <1>1, <2>2 DEF Write, m, a, b
      <4>. QED  BY <1>1, <1>3, <1>4, <4>1 DEF Write
    <3>2. /\ Stored(disk, j) /\ AllOf(disk, j) = files
          /\ j \in Seq(Ops)
      BY <1>3, <1>4, Appended DEF Stored
    <3>3. IsFiles(files) /\ Root \in DOMAIN files /\ Numbers(files) = Numbers(Seen)
      <4>1. IsFiles(files)
        BY <3>2, AllTyped
      <4>. QED  BY <4>1, NamesDiffer DEF Updated, Numbers
    <3>4. ordered => Consistent(files)
      BY <1>4, RootKeepsConsistent
    <3>5. ordered => \A n \in 0..Len(j) : Consistent(FilesOf(disk, j, 1..n))
      <4>1. ordered => \A n \in 0..Len(journal) : Consistent(FilesOf(disk, journal, 1..n))
        BY DEF IInv, PrefixInv
      <4>2. ordered => Consistent(Updated(AllOf(disk, journal), a.file, a.value))
        BY <1>3, <1>4, <3>4
      <4>. QED  BY <1>3, <1>4, <4>1, <4>2, PrefixAppended
    <3>. HIDE DEF j, files
    <3>6. Stored(disk, Append(j, b)) /\ AllOf(disk, Append(j, b)) = Updated(files, Revision(m), config)
      BY <1>3, <3>2, <3>3, Appended
    <3>7. ordered => Consistent(Updated(files, Revision(m), config))
      BY <1>2, <3>3, <3>4, RevisionKeepsConsistent
    <3>8. ordered => \A n \in 0..Len(Append(j, b)) : Consistent(FilesOf(disk, Append(j, b), 1..n))
      BY <1>3, <3>2, <3>3, <3>5, <3>7, PrefixAppended
    <3>9. PrefixInv'
      <4>1. SUFFICES ASSUME ordered' PROVE \A n \in 0..Len(journal') : Consistent(FilesOf(disk', journal', 1..n))
        BY DEF PrefixInv
      <4>. QED  BY <4>1, <3>1, <3>8
    <3>10. Stored(disk', journal') /\ Seen' = Updated(files, Revision(m), config)
      <4>1. Stored(disk', journal') /\ AllOf(disk', journal') = Updated(files, Revision(m), config)
        BY <3>1, <3>6
      <4>2. DOMAIN journal' = 1..Len(journal')
        BY <4>1 DEF Stored
      <4>. QED  BY <4>1, <4>2 DEF Seen, Files, Content, AllOf, FilesOf, NamesOf, ContentOf
    <3>11. /\ DOMAIN journal' = DOMAIN journal \cup {Len(journal) + 1, Len(journal) + 2}
           /\ \A i \in DOMAIN journal : journal'[i] = journal[i]
           /\ journal'[Len(journal) + 1] = a /\ journal'[Len(journal) + 2] = b
      BY <1>3, <1>4, <3>1 DEF j
    <3>12. a.file # Active /\ b.file # Active
      BY <1>3, NamesDiffer
    <3>. QED  BY <1>2, <3>1, <3>4, <3>9, <3>10, <3>11, <3>12 DEF IInv, SyncedInv
  <2>. QED  BY <2>1, <2>2
<1>6. m \in Numbers(Seen')
  <2>1. PICK files : Seen' = Updated(files, Revision(m), config)
    BY <1>5, Zenon
  <2>2. Revision(m) \in DOMAIN Seen'
    BY <2>1 DEF Updated
  <2>. QED  BY <1>2, <2>2 DEF Numbers
<1>7. TaskInv'
  BY <1>1, <1>2, <1>6 DEF TaskInv, m
<1>. QED  BY <1>5, <1>7 DEF IInv, SyncedInv

\* The references are written only when they are known.
LEMMA SaveStateKeepsIInv ==
    ASSUME IInv, NEW pc \in {"mark", "record"}, NEW references \in ReferenceSet,
           SaveState(pc, references), UNCHANGED ordered,
           references.pending = None /\ references.active # None =>
              Seen[Revision(references.active)] = Seen[Active]
    PROVE  IInv'
<1>1. /\ task.pc = pc /\ Successor(pc) = "idle"
      /\ task.revision \in Numbers(Seen) /\ Root \in DOMAIN Seen
  BY RootIsThere DEF SaveState, Successor, IInv, TaskInv
<1>2. task' = NoTask
  BY <1>1 DEF SaveState, Goto
<1>3. CASE Known(references, Seen)
  <2>. DEFINE op == Op(State, references)
  <2>1. op \in Ops /\ op.file = State /\ op.value = references
    <3>1. State \in Names /\ references \in Contents(State)
      BY DEF Names, Contents
    <3>. QED  BY <3>1, IsOp
  <2>2. journal' = Append(journal, op) /\ UNCHANGED <<disk, synced>>
    <3>1. journal \in Seq(Ops)
      BY DEF IInv, Stored
    <3>. QED  BY <1>3, <2>1, <3>1 DEF SaveState, Write
  <2>3. ordered => Consistent(Updated(Seen, State, references))
    <3>1. IsFiles(Seen)
      BY SeenIsAll DEF IInv
    <3>. QED  BY <1>3, <3>1, SeenConsistent, StateKeepsConsistent
  <2>4. op.file # Active
    BY <2>1, NamesDiffer
  <2>. HIDE DEF op
  <2>5. /\ Stored(disk', journal') /\ PrefixInv'
        /\ synced' \subseteq DOMAIN journal'
        /\ \A i \in DOMAIN journal' : journal'[i].file = Active => i \in synced'
    BY <1>1, <2>1, <2>2, <2>3, <2>4, Wrote
  <2>. QED  BY <1>2, <2>5 DEF IInv, SyncedInv, TaskInv, NoTask
<1>4. CASE ~ Known(references, Seen)
  <2>1. UNCHANGED <<disk, journal, synced>>
    BY <1>4 DEF SaveState, storage
  <2>2. Stored(disk', journal') /\ SyncedInv'
    BY <1>1, <1>2, <2>1 DEF IInv, SyncedInv, NoTask
  <2>3. PrefixInv'
    BY <2>1 DEF IInv, PrefixInv
  <2>. QED  BY <1>2, <2>2, <2>3 DEF IInv, TaskInv, NoTask
<1>. QED  BY <1>3, <1>4

LEMMA ReferencesTyped ==
    ASSUME IInv
    PROVE  References(Seen) \in ReferenceSet
<1>1. IsFiles(Seen)
  BY SeenIsAll DEF IInv
<1>. QED  BY <1>1 DEF IsFiles, References, Contents, ReferenceSet, NoReferences

LEMMA MarkPendingKeepsIInv ==
    ASSUME IInv, MarkPending, UNCHANGED ordered
    PROVE  IInv'
<1>. DEFINE references == [active |-> References(Seen).active, pending |-> task.revision]
<1>1. task.revision \in Numbers(Seen) /\ task.revision \in 1..MaxRevision
  BY DEF MarkPending, SaveState, IInv, TaskInv, Numbers
<1>2. references \in ReferenceSet /\ references.pending # None
  BY <1>1, ReferencesTyped, ConfigAssumption DEF ReferenceSet
<1>3. SaveState("mark", references)
  BY DEF MarkPending
<1>. HIDE DEF references
<1>. QED  BY <1>2, <1>3, SaveStateKeepsIInv

LEMMA RecordActiveKeepsIInv ==
    ASSUME IInv, RecordActive, UNCHANGED ordered
    PROVE  IInv'
<1>. DEFINE references == [active |-> task.revision, pending |-> None]
<1>1. /\ task.revision \in 1..MaxRevision
      /\ Seen[Revision(task.revision)] = Seen[Active]
  BY DEF RecordActive, SaveState, IInv, TaskInv, Numbers
<1>2. /\ references \in ReferenceSet
      /\ Seen[Revision(references.active)] = Seen[Active]
  BY <1>1 DEF ReferenceSet
<1>3. SaveState("record", references)
  BY DEF RecordActive
<1>. HIDE DEF references
<1>. QED  BY <1>2, <1>3, SaveStateKeepsIInv

LEMMA UnchangedStorage ==
    ASSUME IInv, UNCHANGED <<ordered, storage>>
    PROVE  Stored(disk', journal') /\ PrefixInv' /\ Seen' = Seen
<1>1. UNCHANGED <<disk, journal, synced>>
  BY DEF storage
<1>2. PrefixInv'
  BY <1>1 DEF IInv, PrefixInv
<1>3. Seen' = Seen
  BY <1>1 DEF Seen, Files, Content
<1>. QED  BY <1>1, <1>2, <1>3 DEF IInv

LEMMA LoadPendingKeepsIInv ==
    ASSUME IInv, LoadPending, UNCHANGED ordered
    PROVE  IInv'
<1>. DEFINE r == References(Seen).pending
<1>1. /\ task.pc = "idle" /\ r \in Numbers(Seen)
      /\ task' = [pc |-> "save", revision |-> r, config |-> Seen[Revision(r)]]
      /\ UNCHANGED storage
  BY DEF LoadPending, Successor
<1>2. Seen[Revision(r)] \in Configs /\ r \in 1..MaxRevision
  <2>1. IsFiles(Seen)
    BY SeenIsAll DEF IInv
  <2>. QED  BY <1>1, <2>1, NamesDiffer DEF IsFiles, Numbers, Contents
<1>3. Stored(disk', journal') /\ PrefixInv' /\ Seen' = Seen
  BY <1>1, UnchangedStorage
<1>4. TaskInv'
  BY <1>1, <1>2, <1>3 DEF TaskInv
<1>5. SyncedInv'
  BY <1>1 DEF IInv, SyncedInv, storage
<1>. QED  BY <1>3, <1>4, <1>5 DEF IInv

LEMMA RenameActiveKeepsIInv ==
    ASSUME IInv, RenameActive, UNCHANGED ordered
    PROVE  IInv'
<1>. DEFINE op == Op(Active, task.config)
<1>1. /\ task.pc = "save" /\ task' = [task EXCEPT !.pc = "sync"]
      /\ journal' = journal \o <<op>> /\ UNCHANGED <<disk, synced>>
  BY DEF RenameActive, Goto, Write, Successor
<1>2. /\ task.revision \in Numbers(Seen) /\ task.revision \in 1..MaxRevision
      /\ task.config = Seen[Revision(task.revision)]
      /\ References(Seen).pending = task.revision
      /\ IsFiles(Seen)
  BY <1>1, SeenIsAll DEF IInv, TaskInv, Numbers
<1>3. task.config \in Configs
  BY <1>2, NamesDiffer DEF IsFiles, Numbers, Contents
<1>4. op \in Ops /\ op.file = Active /\ op.value = task.config
  <2>1. Active \in Names /\ task.config \in Contents(Active)
    BY <1>3, NamesDiffer DEF Names, Contents
  <2>. QED  BY <2>1, IsOp
<1>5. journal' = Append(journal, op)
  BY <1>1, <1>4 DEF IInv, Stored
<1>6. ordered => Consistent(Updated(Seen, Active, task.config))
  BY <1>2, ConfigAssumption, SeenConsistent, ActiveKeepsConsistent
<1>. HIDE DEF op
<1>7. /\ Stored(disk', journal') /\ PrefixInv'
      /\ Seen' = Updated(Seen, Active, task.config)
      /\ synced' \subseteq DOMAIN journal'
  BY <1>1, <1>4, <1>5, <1>6, Wrote
<1>8. /\ Numbers(Seen') = Numbers(Seen) /\ References(Seen') = References(Seen)
      /\ Seen'[Active] = task.config
      /\ Seen'[Revision(task.revision)] = Seen[Revision(task.revision)]
  BY <1>2, <1>7, NamesDiffer DEF Updated, Numbers, References, IsFiles
<1>9. task'.pc = "sync" /\ task'.config = task.config /\ task'.revision = task.revision
  BY <1>1 DEF IInv, TaskInv
<1>10. TaskInv'
  <2>1. task' \in [pc : {"idle", "mark", "save", "sync", "record"},
                   config : Configs \cup {None}, revision : 1..MaxRevision \cup {None}]
    BY <1>1 DEF IInv, TaskInv
  <2>. QED  BY <1>2, <1>8, <1>9, <2>1 DEF TaskInv
<1>. QED  BY <1>7, <1>9, <1>10 DEF IInv, SyncedInv

LEMMA SyncActiveKeepsIInv ==
    ASSUME IInv, SyncActive, UNCHANGED ordered
    PROVE  IInv'
<1>1. /\ task.pc = "sync" /\ task' = [task EXCEPT !.pc = "record"]
      /\ UNCHANGED <<disk, journal>>
      /\ synced' = IF ordered THEN DOMAIN journal
                   ELSE synced \cup {i \in DOMAIN journal : journal[i].file \in {Root, Active}}
  BY DEF SyncActive, SyncParentDirectory, Goto, Successor
<1>2. Stored(disk', journal') /\ PrefixInv' /\ Seen' = Seen
  <2>1. PrefixInv'
    BY <1>1 DEF IInv, PrefixInv
  <2>2. Seen' = Seen
    BY <1>1 DEF Seen, Files, Content
  <2>. QED  BY <1>1, <2>1, <2>2 DEF IInv
<1>3. TaskInv'
  BY <1>1, <1>2 DEF IInv, TaskInv
<1>4. SyncedInv'
  BY <1>1 DEF IInv, SyncedInv
<1>. QED  BY <1>2, <1>3, <1>4 DEF IInv

\* A loss of power leaves files that the journal had already been through, or
\* on a file system that keeps no order at least ones of the right kinds.
LEMMA PowerLossKeepsIInv ==
    ASSUME IInv, PowerLoss, UNCHANGED ordered
    PROVE  IInv'
<1>1. /\ Stored(disk, journal) /\ DOMAIN journal = 1..Len(journal) /\ Len(journal) \in Nat
      /\ journal' = <<>> /\ synced' = {} /\ task' = NoTask
  BY SeenIsAll DEF IInv, Stored, PowerLoss
<1>2. PICK places \in SUBSET (1..Len(journal)) :
         /\ disk' = FilesOf(disk, journal, places)
         /\ ordered => \E n \in 0..Len(journal) : places = 1..n
  <2>1. PICK places \in IF ordered THEN {1..n : n \in 0..Len(journal)} ELSE SUBSET DOMAIN journal :
           disk' = Files(places)
    BY DEF PowerLoss
  <2>2. Files(places) = FilesOf(disk, journal, places)
    BY DEF Files, Content, FilesOf, NamesOf, ContentOf
  <2>3. /\ places \in SUBSET (1..Len(journal))
        /\ ordered => \E n \in 0..Len(journal) : places = 1..n
    BY <1>1, <2>1
  <2>. QED  BY <2>1, <2>2, <2>3
<1>3. Stored(disk', journal') /\ FilesOf(disk', journal', 1..0) = disk'
  BY <1>1, <1>2, AfterLoss
<1>4. PrefixInv'
  <2>1. SUFFICES ASSUME ordered' PROVE \A n \in 0..Len(journal') : Consistent(FilesOf(disk', journal', 1..n))
    BY DEF PrefixInv
  <2>2. Consistent(disk')
    BY <1>2, <2>1 DEF IInv, PrefixInv
  <2>3. Len(journal') = 0
    BY <1>1
  <2>. QED  BY <1>3, <2>2, <2>3
<1>. QED  BY <1>1, <1>3, <1>4 DEF IInv, TaskInv, SyncedInv, NoTask

LEMMA StutterKeepsIInv ==
    ASSUME IInv, UNCHANGED vars
    PROVE  IInv'
<1>1. UNCHANGED <<ordered, disk, journal, synced, task, storage>>
  BY DEF vars, storage
<1>2. Stored(disk', journal') /\ PrefixInv' /\ Seen' = Seen
  BY <1>1, UnchangedStorage
<1>. QED  BY <1>1, <1>2 DEF IInv, TaskInv, SyncedInv

\* The journal replays to a consistent state from each of its prefixes, the
\* call under way agrees with what it has written, and what must be synced is.
THEOREM InductiveInvariant == Spec => []IInv
<1>1. Init => IInv
  BY InitIInv
<1>2. IInv /\ [Next]_vars => IInv'
  <2>. SUFFICES ASSUME IInv, [Next]_vars PROVE IInv'
    OBVIOUS
  <2>1. CASE CreateRevision /\ UNCHANGED ordered
    BY <2>1, CreateRevisionKeepsIInv
  <2>2. CASE MarkPending /\ UNCHANGED ordered
    BY <2>2, MarkPendingKeepsIInv
  <2>3. CASE LoadPending /\ UNCHANGED ordered
    BY <2>3, LoadPendingKeepsIInv
  <2>4. CASE RenameActive /\ UNCHANGED ordered
    BY <2>4, RenameActiveKeepsIInv
  <2>5. CASE SyncActive /\ UNCHANGED ordered
    BY <2>5, SyncActiveKeepsIInv
  <2>6. CASE RecordActive /\ UNCHANGED ordered
    BY <2>6, RecordActiveKeepsIInv
  <2>7. CASE PowerLoss /\ UNCHANGED ordered
    BY <2>7, PowerLossKeepsIInv
  <2>8. CASE UNCHANGED vars
    BY <2>8, StutterKeepsIInv
  <2>. QED  BY <2>1, <2>2, <2>3, <2>4, <2>5, <2>6, <2>7, <2>8 DEF Next
<1>. QED  BY <1>1, <1>2, PTL DEF Spec

\* On a file system that keeps the order of operations, no loss of power, at
\* whichever step of staging or activation, leaves gaps between the revisions, a
\* state that names a revision that is not there, or an active file that is not
\* the revision recorded as active.
THEOREM RecordsHoldThroughLosses == Spec => []RecordsHold
<1>1. IInv => RecordsHold
  <2>. SUFFICES ASSUME IInv, ordered
                PROVE  /\ Numbers(Seen) = 1..Cardinality(Numbers(Seen))
                       /\ Known(References(Seen), Seen)
                       /\ task.pc = "idle" /\ References(Seen).pending = None /\ References(Seen).active # None =>
                            Seen[Revision(References(Seen).active)] = Seen[Active]
    BY DEF RecordsHold
  <2>1. Consistent(Seen)
    BY SeenConsistent
  <2>2. PICK k \in 0..MaxRevision : Numbers(Seen) = 1..k
    BY <2>1 DEF Consistent, Gapless
  <2>3. Cardinality(1..k) = k
    BY <2>2, FS_Interval, BoundAssumption
  <2>. QED  BY <2>1, <2>2, <2>3 DEF Consistent
<1>. QED  BY <1>1, InductiveInvariant, PTL

\* On any file system, the active file a loss of power leaves is the one the
\* program saw, unless it was lost between the rename and the sync.
THEOREM ActiveFileSurvives == Spec => ActiveSurvives
<1>1. IInv /\ [Next]_vars => [losses' # losses /\ task.pc # "sync" => Seen'[Active] = Seen[Active]]_vars
  <2>. SUFFICES ASSUME IInv, [Next]_vars, losses' # losses, task.pc # "sync"
                PROVE  Seen'[Active] = Seen[Active]
    OBVIOUS
  <2>1. PowerLoss
    BY DEF Next, vars, storage, CreateRevision, MarkPending, LoadPending, RenameActive, SyncActive,
           RecordActive, SaveState
  <2>2. PICK places \in IF ordered THEN {1..n : n \in 0..Len(journal)} ELSE SUBSET DOMAIN journal :
           synced \subseteq places /\ disk' = Files(places)
    BY <2>1 DEF PowerLoss
  <2>3. /\ Stored(disk, journal) /\ DOMAIN journal = 1..Len(journal) /\ Len(journal) \in Nat
        /\ \A i \in DOMAIN journal : journal[i].file = Active => i \in synced
        /\ Active \in DOMAIN disk
    BY SeenIsAll DEF IInv, SyncedInv, Stored
  <2>4. places \subseteq DOMAIN journal
    BY <2>2, <2>3
  <2>5. {i \in places : journal[i].file = Active} = {i \in DOMAIN journal : journal[i].file = Active}
    BY <2>2, <2>3, <2>4
  <2>6. Content(Active, places) = Content(Active, DOMAIN journal)
    BY <2>5 DEF Content
  <2>7. \A p : p \subseteq DOMAIN journal => Files(p)[Active] = Content(Active, p)
    BY <2>3 DEF Files
  <2>8. disk'[Active] = Seen[Active]
    BY <2>2, <2>4, <2>6, <2>7 DEF Seen
  <2>9. Seen'[Active] = disk'[Active]
    <3>1. IInv'
      BY <2>1, PowerLossKeepsIInv, StutterKeepsIInv DEF Next
    <3>2. Active \in DOMAIN disk' /\ journal' = <<>>
      BY <2>1, <3>1 DEF IInv, Stored, PowerLoss
    <3>3. DOMAIN journal' = {}
      BY <3>2
    <3>. QED  BY <3>2, <3>3 DEF Seen, Files, Content
  <2>. QED  BY <2>8, <2>9
<1>. QED  BY <1>1, InductiveInvariant, PTL DEF Spec, ActiveSurvives
=============================================================================
