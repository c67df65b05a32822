-------------------------- MODULE IndexStoreProofs --------------------------
(***************************************************************************)
(* The index of a search domain is exact whenever it promises to be, for   *)
(* every set of files and words and any number of writes and faults.       *)
(*                                                                         *)
(* The invariant IInv follows a run from the flock to the manifest.  It    *)
(* compares three things: what a search will see when the planned records  *)
(* are in the WAL (Outcome), the words of the sidecars planned (cards),    *)
(* and the corpus.  Between runs the slots agree with their sidecars       *)
(* (NoneOK), or, after an update that died, the next update will make them *)
(* agree (OpenOK): it is why a death may leave slots of files that the     *)
(* manifest does not know, and why these get the same places again (Rank). *)
(***************************************************************************)
EXTENDS IndexStore, FiniteSetTheorems, SequenceTheorems, WellFoundedInduction, TLAPS

-----------------------------------------------------------------------------
(* Sequences, least places and finite sets.                                *)

LEMMA RangeOfAppend ==
  ASSUME NEW S, NEW s \in Seq(S), NEW e \in S
  PROVE  Range(Append(s, e)) = Range(s) \cup {e}
<1>1. /\ Append(s, e) \in Seq(S)
      /\ Len(Append(s, e)) = Len(s) + 1 /\ Len(s) \in Nat
      /\ \A i \in 1..Len(s) : Append(s, e)[i] = s[i]
      /\ Append(s, e)[Len(s) + 1] = e
  BY AppendProperties, LenProperties
<1>2. DOMAIN s = 1..Len(s) /\ DOMAIN Append(s, e) = 1..(Len(s) + 1)
  BY <1>1, LenProperties
<1>3. 1..(Len(s) + 1) = 1..Len(s) \cup {Len(s) + 1}
  BY <1>1
<1>4. ASSUME NEW i \in DOMAIN Append(s, e)
      PROVE  Append(s, e)[i] \in Range(s) \cup {e}
  <2>1. CASE i \in 1..Len(s)
    BY <1>1, <1>2, <2>1 DEF Range
  <2>2. CASE i = Len(s) + 1
    BY <1>1, <2>2
  <2> QED BY <1>2, <1>3, <1>4, <2>1, <2>2
<1>5. ASSUME NEW i \in DOMAIN s
      PROVE  s[i] \in Range(Append(s, e))
  <2>1. i \in DOMAIN Append(s, e) /\ Append(s, e)[i] = s[i]
    BY <1>1, <1>2, <1>3, <1>5
  <2> QED BY <2>1 DEF Range
<1>6. e \in Range(Append(s, e))
  <2>1. Len(s) + 1 \in DOMAIN Append(s, e)
    BY <1>1, <1>2, <1>3
  <2> QED BY <1>1, <2>1 DEF Range
<1> QED BY <1>4, <1>5, <1>6 DEF Range

LEMMA RangeOfTail ==
  ASSUME NEW S, NEW s \in Seq(S), s # <<>>
  PROVE  /\ Head(s) \in Range(s) /\ Range(Tail(s)) \subseteq Range(s)
         /\ \A e \in Range(s) : e = Head(s) \/ e \in Range(Tail(s))
<1>1. /\ Tail(s) \in Seq(S) /\ Len(Tail(s)) = Len(s) - 1
      /\ \A i \in 1..Len(Tail(s)) : Tail(s)[i] = s[i + 1]
      /\ Len(s) \in Nat \ {0}
      /\ DOMAIN s = 1..Len(s) /\ DOMAIN Tail(s) = 1..Len(Tail(s))
  BY HeadTailProperties, EmptySeq, LenProperties
<1>2. Head(s) = s[1] /\ 1 \in DOMAIN s
  BY <1>1 DEF Head
<1>3. ASSUME NEW i \in DOMAIN Tail(s)
      PROVE  Tail(s)[i] \in Range(s)
  BY <1>1, <1>3 DEF Range
<1>4. ASSUME NEW i \in DOMAIN s
      PROVE  s[i] = Head(s) \/ s[i] \in Range(Tail(s))
  <2>1. CASE i = 1
    BY <1>2, <2>1
  <2>2. CASE i # 1
    <3>1. i - 1 \in DOMAIN Tail(s) /\ Tail(s)[i - 1] = s[i]
      BY <1>1, <1>4, <2>2
    <3> QED BY <3>1 DEF Range
  <2> QED BY <2>1, <2>2
<1> QED BY <1>2, <1>3, <1>4 DEF Range

Less == {ij \in Nat \X Nat : ij[1] < ij[2]}

LEMMA LeastElement ==
  ASSUME NEW S \in SUBSET Nat, S # {}
  PROVE  Min(S) \in S /\ \A x \in S : Min(S) <= x
<1>1. IsWellFoundedOn(Less, Nat)
  BY NatLessThanWellFounded DEF OpToRel, Less
<1>2. PICK m \in S : \A x \in S : ~(<<x, m>> \in Less)
  BY <1>1, WFMin
<1>3. ASSUME NEW x \in S
      PROVE  m <= x
  <2>1. m \in Nat /\ x \in Nat /\ ~(x < m)
    BY <1>2 DEF Less
  <2> QED BY <2>1
<1> QED BY <1>2, <1>3 DEF Min

LEMMA OneMoreAtMost ==
  ASSUME NEW S, IsFiniteSet(S), NEW x, NEW T \in SUBSET (S \cup {x})
  PROVE  /\ IsFiniteSet(T) /\ Cardinality(T) \in Nat /\ Cardinality(S) \in Nat
         /\ Cardinality(T) <= Cardinality(S) + 1
         /\ x \in S => Cardinality(T) <= Cardinality(S)
<1>1. /\ IsFiniteSet(S \cup {x})
      /\ Cardinality(S \cup {x}) = IF x \in S THEN Cardinality(S) ELSE Cardinality(S) + 1
      /\ Cardinality(S) \in Nat
  BY FS_AddElement, FS_CardinalityType
<1>2. IsFiniteSet(T) /\ Cardinality(T) <= Cardinality(S \cup {x})
  BY <1>1, FS_Subset
<1>3. Cardinality(T) \in Nat
  BY <1>2, FS_CardinalityType
<1> QED BY <1>1, <1>2, <1>3

LEMMA OneLessAtMost ==
  ASSUME NEW S, IsFiniteSet(S), NEW x \in S, NEW T \in SUBSET (S \ {x})
  PROVE  /\ IsFiniteSet(T) /\ Cardinality(T) \in Nat /\ Cardinality(S) \in Nat
         /\ Cardinality(T) + 1 <= Cardinality(S)
<1>1. /\ IsFiniteSet(S \ {x}) /\ Cardinality(S \ {x}) = Cardinality(S) - 1
      /\ Cardinality(S) \in Nat
  BY FS_RemoveElement, FS_CardinalityType
<1>2. IsFiniteSet(T) /\ Cardinality(T) <= Cardinality(S \ {x})
  BY <1>1, FS_Subset
<1>3. Cardinality(T) \in Nat
  BY <1>2, FS_CardinalityType
<1> QED BY <1>1, <1>2, <1>3

LEMMA NoneMore ==
  ASSUME NEW S, IsFiniteSet(S), NEW T \in SUBSET S
  PROVE  /\ IsFiniteSet(T) /\ Cardinality(T) \in Nat /\ Cardinality(S) \in Nat
         /\ Cardinality(T) <= Cardinality(S)
BY FS_Subset, FS_CardinalityType

-----------------------------------------------------------------------------
(* The files and their places.                                             *)

Places == DOMAIN Files

LEMMA FilesFacts ==
  /\ Places = 1..Len(Files) /\ Len(Files) \in Nat /\ Places \subseteq Nat
  /\ \A p \in Places : Files[p] \in Paths
  /\ \A f \in Paths : \E p \in Places : f = Files[p]
  /\ \A p, q \in Places : Files[p] = Files[q] => p = q
  /\ "" \notin Paths
<1>1. Files \in Seq(Paths) /\ IsInjective(Files) /\ "" \notin Paths
  BY FilesAssumption DEF Paths
<1>2. Places = 1..Len(Files) /\ Len(Files) \in Nat
  BY <1>1, LenProperties DEF Places
<1>3. Places \subseteq Nat
  BY <1>2
<1>4. /\ \A p \in Places : Files[p] \in Paths
      /\ \A f \in Paths : \E p \in Places : f = Files[p]
  BY DEF Places, Paths, Range
<1>5. \A p, q \in Places : Files[p] = Files[q] => p = q
  BY <1>1 DEF Places, IsInjective
<1> QED BY <1>1, <1>2, <1>3, <1>4, <1>5

LEMMA PathsFinite == IsFiniteSet(Paths)
<1>1. Files \in [Places -> Paths] /\ \A f \in Paths : \E p \in Places : Files[p] = f
  <2>1. Files \in Seq(Paths)
    BY FilesAssumption DEF Paths
  <2> QED BY <2>1, FilesFacts, LenProperties DEF Places
<1>2. Files \in Surjection(Places, Paths)
  BY <1>1 DEF Surjection
<1>3. IsFiniteSet(Places)
  <2>1. Len(Files) \in Nat /\ Places = 1..Len(Files)
    BY FilesFacts
  <2>2. 1 \in Int /\ Len(Files) \in Int
    BY <2>1
  <2> QED BY <2>1, <2>2, FS_Interval
<1> QED BY <1>2, <1>3, FS_Surjection

-----------------------------------------------------------------------------
(* The inductive invariant: types, and what belongs to which phase.        *)

Entry == [name : Paths \cup {""}, ver : Nat, tombstoned : BOOLEAN]
Record == [del : SUBSET Keys, add : SUBSET Keys]
Card == [slot : Slots, words : SUBSET Words]

EntriesOK(n, es) ==
    /\ es \in Seq(Entry)
    /\ \A i \in Live(es) : es[i].name \in Paths /\ es[i].ver \in 1..n
    /\ \A i, j \in Live(es) : es[i].name = es[j].name => i = j

WorldOK ==
    /\ clock \in 0..MaxWrites
    /\ corpus \in [Paths -> [ver : 0..clock, words : SUBSET Words]]
    /\ \A f \in Paths : corpus[f].ver = 0 => corpus[f].words = {}

StoreOK ==
    /\ fst \in [exists : BOOLEAN, keys : SUBSET Keys]
    /\ wal \in [exists : BOOLEAN, add : SUBSET Keys, del : SUBSET Keys]
    /\ wal.add \cap wal.del = {}
    /\ sidecars \in [Slots -> SUBSET Words]
    /\ manifest \in [exists : BOOLEAN, files : Seq(Entry), seq : Nat]
    /\ EntriesOK(clock, manifest.files)

RunOK ==
    /\ todo \in SUBSET Places /\ disk \in SUBSET Paths /\ ver \in 0..clock
    /\ EntriesOK(clock, files)
    /\ log \in Seq(Record) /\ cards \in Seq(Card) /\ gone \in SUBSET Slots

HistoryOK ==
    /\ moved \in BOOLEAN /\ settled \in BOOLEAN /\ damaged \in BOOLEAN
    /\ gap \in {"none", "open", "changed", "rebuild"}

TypesOK == WorldOK /\ StoreOK /\ RunOK /\ HistoryOK

Planning == {"stat", "read"}
Rebuilding == {"rebase", "dropWal"}
Ending == Rebuilding \cup {"commit"}
Resting == {"idle"} \cup FoldPcs

PhaseOK ==
    /\ pc \in Pcs
    /\ pc = "idle" => op = "none" /\ ~moved
    /\ pc \in Planning \cup {"commit"} => op \in {"update", "build"}
    /\ pc \in Rebuilding => op = "build"
    /\ pc \in FoldPcs => op \in {"update", "compact"}
    /\ pc \notin Planning => todo = {}
    /\ pc = "read" => todo # {} /\ ver # 0
    /\ pc \in Resting => log = <<>> /\ cards = <<>> /\ gone = {}
    /\ pc \in Ending /\ op = "build" => log = <<>>
    /\ pc \in Planning => gone = {}
    /\ gap = "open" => ~moved

-----------------------------------------------------------------------------
(* There are as many slots as writes: each slot was given to a write, and  *)
(* so can each change that the entries es do not know of.                  *)

Unindexed(co, es) ==
    {f \in Paths : co[f].ver # 0 /\ \A i \in Live(es) : es[i].name = f => es[i].ver # co[f].ver}
Fits(es, n) == Len(es) + Cardinality(Unindexed(corpus, es)) + n <= clock
Behind == IF pc = "read" /\ corpus[file].ver # ver THEN 1 ELSE 0
FitsOK ==
    /\ Fits(<<>>, 0) /\ Fits(manifest.files, 0)
    /\ Fits(files, Behind)
    /\ pc \in Planning =>
         \A f \in Paths \ disk : Present(f) =>
            \A i \in Live(files) : files[i].name = f => files[i].ver # corpus[f].ver

-----------------------------------------------------------------------------
(* The index between runs.                                                 *)

\* Slot i shows the words of its sidecar; more after damage to sidecars.
SlotOK(i) == sidecars[i] \subseteq Shown(i) /\ (damaged \/ Shown(i) \subseteq sidecars[i])

\* The next update, if it finds the words ws for slot i, will make it exact.
Toward(i, ws) ==
    sidecars[i] \cap ws \subseteq Shown(i) /\ (damaged \/ Shown(i) \subseteq sidecars[i] \cup ws)

\* Slot i shows the words ws.
Shows(shown, ws) == ws \subseteq shown /\ (damaged \/ shown \subseteq ws)

Fresh(i) == manifest.files[i].ver = corpus[manifest.files[i].name].ver

NoneOK ==
    /\ \A i \in Live(manifest.files) :
         SlotOK(i) /\ (Fresh(i) => Shows(Shown(i), Wanted(i)))
    /\ damaged \/ View \subseteq Words \X Live(manifest.files)

\* The files that the next update appends, and the slots it gives them.
NewAt(p) == Present(Files[p]) /\ ~IsLive(manifest.files, Files[p])
Rank(p) == Len(manifest.files) + Cardinality({q \in 1..p : NewAt(q)})
Awaited(k) == \E p \in Places : NewAt(p) /\ Rank(p) = k[2] /\ k[1] \in corpus[Files[p]].words

OpenOK ==
    /\ \A i \in Live(manifest.files) :
         /\ Toward(i, Wanted(i))
         /\ Fresh(i) => SlotOK(i) /\ Shows(Shown(i), Wanted(i))
    /\ damaged \/ \A k \in View : k[2] \in Live(manifest.files) \/ Awaited(k)

RestOK ==
    /\ pc \in Resting \cup Planning \cup {"rebase"} =>
         (gap = "none" => NoneOK) /\ (gap = "open" => OpenOK)
    /\ pc = "commit" /\ op = "update" /\ ~moved /\ gap \in {"none", "open"} => OpenOK

Current(es) ==
    /\ \A f \in Paths : Present(f) => IsLive(es, f)
    /\ \A i \in Live(es) : es[i].ver = corpus[es[i].name].ver
SettledOK == settled => Current(manifest.files)

-----------------------------------------------------------------------------
(* A run.                                                                  *)

DelsOf(lg) == UNION {r.del : r \in Range(lg)}
AddsOf(lg) == UNION {r.add : r \in Range(lg)}
KeysOfCards(cs) == UNION {KeysOf(c.slot, c.words) : c \in Range(cs)}
Dels == DelsOf(log)
Adds == AddsOf(log)
CardKeys == KeysOfCards(cards)
Carded(i) == \E c \in Range(cards) : c.slot = i

\* What a search will see when the records planned so far are in the WAL.
Outcome == IF op = "build" /\ pc # "commit" THEN CardKeys ELSE (View \ Dels) \cup Adds
WillShow(i) == {w \in Words : <<w, i>> \in Outcome}
Excused == damaged /\ (op = "build" => pc = "commit")
WillBe(i, ws) == ws \subseteq WillShow(i) /\ (Excused \/ WillShow(i) \subseteq ws)

\* Runs that promise something: builds, and updates of an index that no
\* change has overtaken.
Sound == op = "build" \/ gap \in {"none", "open"}

CardsOK ==
    /\ \A i, j \in DOMAIN cards : cards[i].slot = cards[j].slot => i = j
    /\ \A c \in Range(cards) :
         /\ c.slot \in Live(files)
         /\ Sound => WillBe(c.slot, c.words)
    /\ op = "update" => Dels \cap Adds = {}

\* An entry is that of its file's words when the version is.
ReadOK ==
    \A c \in Range(cards) :
        files[c.slot].ver = corpus[files[c.slot].name].ver
            => c.words = corpus[files[c.slot].name].words

BuildOK == \A i \in DOMAIN files : i \in Live(files) /\ Carded(i)

UpdateOK ==
    /\ Len(manifest.files) <= Len(files)
    /\ \A i \in DOMAIN files : ~Carded(i) => i \in DOMAIN manifest.files /\ files[i] = manifest.files[i]
    /\ \A i \in DOMAIN manifest.files :
         IF i \in Live(manifest.files)
         THEN i \in Live(files) /\ files[i].name = manifest.files[i].name
         ELSE files[i] = manifest.files[i]
    /\ \A k \in Dels \cup Adds : Carded(k[2])

\* What an undisturbed update deletes and adds belongs to entries that are not
\* fresh or to new files.
LogOK ==
    /\ \A k \in Dels :
         /\ k[2] \in Live(manifest.files) /\ ~Fresh(k[2])
         /\ k[1] \notin Wanted(k[2])
    /\ \A k \in Adds :
         \/ k[2] \in Live(manifest.files) /\ ~Fresh(k[2]) /\ k[1] \in Wanted(k[2])
         \/ Awaited(k)
    /\ \A c \in Range(cards) :
         c.slot \in Live(manifest.files) => ~Fresh(c.slot) /\ c.words = Wanted(c.slot)
    /\ \A i \in gone : i \in Live(manifest.files) => ~Present(manifest.files[i].name)

Handled == Places \ todo
CalmPlan ==
    /\ disk = {f \in Paths : Present(f)}
    /\ \A p \in Handled : Present(Files[p]) =>
         /\ \A q \in todo : p < q
         /\ \E i \in Live(files) : files[i].name = Files[p] /\ files[i].ver = corpus[Files[p]].ver
    /\ pc = "read" => ver = corpus[file].ver
    /\ op = "update" =>
         /\ Len(files) = Len(manifest.files) + Cardinality({p \in Handled : NewAt(p)})
         /\ \A p \in Handled : NewAt(p) =>
              Rank(p) \in Live(files) /\ files[Rank(p)].name = Files[p]

PlanOK ==
    pc \in Planning =>
        /\ \A p \in todo : Files[p] \in disk
        /\ pc = "read" => \A i \in Live(files) : files[i].name = file => files[i].ver # ver
        /\ CardsOK /\ ReadOK
        /\ \A c \in Range(cards) :
             files[c.slot].name \in disk /\ \A p \in todo : files[c.slot].name # Files[p]
        /\ IF op = "build" THEN BuildOK ELSE UpdateOK
        /\ ~moved => CalmPlan /\ (op = "update" => LogOK)

\* The run's entries and sidecars will agree with what a search will see.
EndOK ==
    pc \in Ending =>
        /\ CardsOK
        /\ gone \cap Live(files) = {}
        /\ pc \in Rebuilding => \A i \in Live(files) : Carded(i)
        /\ pc = "dropWal" => fst.keys = CardKeys
        /\ Sound =>
             /\ \A i \in Live(files) :
                  /\ files[i].ver = corpus[files[i].name].ver => WillBe(i, corpus[files[i].name].words)
                  /\ ~Carded(i) => WillBe(i, sidecars[i]) \/ (sidecars[i] \subseteq WillShow(i) /\ damaged)
             /\ Excused \/ Outcome \subseteq Words \X Live(files)
        /\ ~moved => Current(files) /\ (op = "update" => LogOK)

FoldedOK == pc = "unlinkWal" => fst.keys = View

IInv ==
    /\ TypesOK /\ PhaseOK /\ FitsOK /\ RestOK /\ SettledOK /\ PlanOK /\ EndOK
    /\ FoldedOK

-----------------------------------------------------------------------------
(* The plan as sets.                                                       *)

LEMMA KeysOfSlot ==
  ASSUME NEW i, NEW ws
  PROVE  \A w, j : <<w, j>> \in KeysOf(i, ws) <=> w \in ws /\ j = i
BY DEF KeysOf

LEMMA LogOfAppend ==
  ASSUME NEW lg \in Seq(Record), NEW r \in Record
  PROVE  /\ DelsOf(Append(lg, r)) = DelsOf(lg) \cup r.del
         /\ AddsOf(Append(lg, r)) = AddsOf(lg) \cup r.add
<1>1. Range(Append(lg, r)) = Range(lg) \cup {r}
  BY RangeOfAppend
<1> QED BY <1>1 DEF DelsOf, AddsOf

LEMMA CardsOfAppend ==
  ASSUME NEW cs \in Seq(Card), NEW c \in Card
  PROVE  /\ Range(Append(cs, c)) = Range(cs) \cup {c}
         /\ KeysOfCards(Append(cs, c)) = KeysOfCards(cs) \cup KeysOf(c.slot, c.words)
<1>1. Range(Append(cs, c)) = Range(cs) \cup {c}
  BY RangeOfAppend
<1> QED BY <1>1 DEF KeysOfCards

LEMMA EmptyPlan ==
  /\ DelsOf(<<>>) = {} /\ AddsOf(<<>>) = {} /\ KeysOfCards(<<>>) = {}
  /\ Range(<<>>) = {} /\ DOMAIN <<>> = {} /\ Live(<<>>) = {} /\ Len(<<>>) = 0
<1>1. DOMAIN <<>> = {} /\ Len(<<>>) = 0
  OBVIOUS
<1>2. Range(<<>>) = {}
  BY <1>1 DEF Range
<1> QED BY <1>1, <1>2 DEF DelsOf, AddsOf, KeysOfCards, Live

LEMMA CardsAreCards ==
  ASSUME NEW cs \in Seq(Card)
  PROVE  /\ \A c \in Range(cs) : c \in Card /\ c.slot \in Slots /\ c.words \in SUBSET Words
         /\ KeysOfCards(cs) \subseteq Keys
<1>1. \A c \in Range(cs) : c \in Card
  BY LenProperties, ElementOfSeq DEF Range
<1>2. \A c \in Card : c.slot \in Slots /\ c.words \in SUBSET Words
  BY DEF Card
<1> QED BY <1>1, <1>2 DEF KeysOfCards, KeysOf, Keys

LEMMA RecordsAreRecords ==
  ASSUME NEW lg \in Seq(Record)
  PROVE  /\ \A r \in Range(lg) : r \in Record
         /\ DelsOf(lg) \subseteq Keys /\ AddsOf(lg) \subseteq Keys
<1>1. \A r \in Range(lg) : r \in Record
  BY LenProperties, ElementOfSeq DEF Range
<1>2. \A r \in Record : r.del \subseteq Keys /\ r.add \subseteq Keys
  BY DEF Record
<1> QED BY <1>1, <1>2 DEF DelsOf, AddsOf

-----------------------------------------------------------------------------
(* Entries.                                                                *)

LEMMA EntryOfLive ==
  ASSUME NEW es \in Seq(Entry)
  PROVE  /\ DOMAIN es = 1..Len(es) /\ Len(es) \in Nat
         /\ \A i \in DOMAIN es : /\ es[i] \in Entry /\ es[i].ver \in Nat
                                /\ es[i].tombstoned \in BOOLEAN
                                /\ es[i].name \in Paths \cup {""}
         /\ \A i \in Live(es) : i \in DOMAIN es /\ i \in 1..Len(es)
<1>1. DOMAIN es = 1..Len(es) /\ Len(es) \in Nat
  BY LenProperties
<1>2. \A i \in DOMAIN es : es[i] \in Entry
  BY <1>1, ElementOfSeq
<1>3. \A e \in Entry : e.ver \in Nat /\ e.tombstoned \in BOOLEAN /\ e.name \in Paths \cup {""}
  BY DEF Entry
<1> QED BY <1>1, <1>2, <1>3 DEF Live

LEMMA NoEntries ==
  ASSUME NEW n
  PROVE  EntriesOK(n, <<>>)
BY EmptyPlan DEF EntriesOK

LEMMA LaterEntries ==
  ASSUME NEW n \in Nat, NEW es, EntriesOK(n, es)
  PROVE  EntriesOK(n + 1, es)
<1>1. 1..n \subseteq 1..(n + 1)
  OBVIOUS
<1> QED BY <1>1, Zenon DEF EntriesOK

LEMMA SlotOfLive ==
  ASSUME NEW es, NEW f, IsLive(es, f)
  PROVE  SlotOf(es, f) \in Live(es) /\ es[SlotOf(es, f)].name = f
BY DEF IsLive, SlotOf

LEMMA UnindexedFinite ==
  ASSUME NEW co, NEW es
  PROVE  /\ Unindexed(co, es) \subseteq Paths /\ IsFiniteSet(Unindexed(co, es))
         /\ Cardinality(Unindexed(co, es)) \in Nat
<1>1. Unindexed(co, es) \subseteq Paths
  BY DEF Unindexed
<1> QED BY <1>1, PathsFinite, FS_Subset, FS_CardinalityType

LEMMA FileHere ==
  ASSUME TypesOK, todo # {}
  PROVE  turn \in todo /\ turn \in Places /\ turn \in Nat /\ file = Files[turn]
         /\ file \in Paths /\ \A q \in todo : turn <= q
<1>1. todo \in SUBSET Nat /\ todo \subseteq Places
  BY FilesFacts DEF TypesOK, RunOK
<1>2. turn \in todo /\ \A q \in todo : turn <= q
  BY <1>1, LeastElement DEF turn
<1> QED BY <1>1, <1>2, FilesFacts DEF file

-----------------------------------------------------------------------------
(* The users: a file moves to a version that no entry has.                 *)

FileMoves(f) ==
    /\ f \in Paths
    /\ \A g \in Paths : g # f => corpus'[g] = corpus[g]
    /\ corpus'[f].ver \notin 1..clock
    /\ CorpusMoves

LEMMA WriteMoves ==
  ASSUME IInv, NEW f \in Paths, NEW ws \in Texts, WriteFile(f, ws)
  PROVE  /\ FileMoves(f) /\ WorldOK' /\ clock' = clock + 1
         /\ corpus'[f].ver # 0 /\ corpus'[f].ver = clock'
<1>1. WorldOK
  BY DEF IInv, TypesOK
<1>2. PICK c : c = [ver |-> clock', words |-> ws]
  OBVIOUS
<1>3. c.ver = clock' /\ c.words = ws
  BY <1>2
<1>4. clock' = clock + 1 /\ clock < MaxWrites /\ CorpusMoves /\ corpus' = [corpus EXCEPT ![f] = c]
  BY <1>2 DEF WriteFile
<1>5. corpus'[f] = c /\ \A g \in Paths : g # f => corpus'[g] = corpus[g]
  BY <1>1, <1>4 DEF WorldOK
<1>6. clock \in Nat /\ clock' \in 0..MaxWrites /\ clock' # 0 /\ clock' \notin 1..clock
  BY <1>1, <1>4, BoundsAssumption DEF WorldOK
<1>7. ws \in SUBSET Words
  BY TextsAssumption
<1>8. WorldOK'
  <2>1. 0..clock \subseteq 0..clock'
    BY <1>4, <1>6
  <2>2. c \in [ver : 0..clock', words : SUBSET Words]
    BY <1>2, <1>6, <1>7
  <2>3. \A g \in Paths : corpus[g] \in [ver : 0..clock', words : SUBSET Words]
    BY <1>1, <2>1 DEF WorldOK
  <2>4. corpus' \in [Paths -> [ver : 0..clock', words : SUBSET Words]]
    BY <1>1, <1>4, <2>2, <2>3 DEF WorldOK
  <2>5. \A g \in Paths : corpus'[g].ver = 0 => corpus'[g].words = {}
    BY <1>1, <1>3, <1>5, <1>6 DEF WorldOK
  <2> QED BY <1>6, <2>4, <2>5 DEF WorldOK
<1> QED BY <1>3, <1>4, <1>5, <1>6, <1>8 DEF FileMoves

LEMMA DeleteMoves ==
  ASSUME IInv, NEW f \in Paths, DeleteFile(f)
  PROVE  /\ FileMoves(f) /\ WorldOK' /\ clock' = clock
         /\ corpus[f].ver # 0 /\ corpus'[f].ver = 0
<1>1. WorldOK
  BY DEF IInv, TypesOK
<1>2. PICK c : c = [ver |-> 0, words |-> {}]
  OBVIOUS
<1>3. c.ver = 0 /\ c.words = {}
  BY <1>2
<1>4. clock' = clock /\ corpus[f].ver # 0 /\ CorpusMoves /\ corpus' = [corpus EXCEPT ![f] = c]
  BY <1>2 DEF DeleteFile
<1>5. corpus'[f] = c /\ \A g \in Paths : g # f => corpus'[g] = corpus[g]
  BY <1>1, <1>4 DEF WorldOK
<1>6. c \in [ver : 0..clock, words : SUBSET Words] /\ 0 \notin 1..clock
  BY <1>1, <1>2, BoundsAssumption DEF WorldOK
<1>7. corpus' \in [Paths -> [ver : 0..clock, words : SUBSET Words]]
  BY <1>1, <1>4, <1>6 DEF WorldOK
<1>8. WorldOK'
  BY <1>1, <1>3, <1>4, <1>5, <1>7 DEF WorldOK
<1> QED BY <1>3, <1>4, <1>5, <1>6, <1>8 DEF FileMoves

LEMMA MovedUnindexed ==
  ASSUME NEW f, FileMoves(f), NEW es
  PROVE  /\ Unindexed(corpus', es) \subseteq Unindexed(corpus, es) \cup {f}
         /\ corpus'[f].ver = 0 => Unindexed(corpus', es) \subseteq Unindexed(corpus, es) \ {f}
BY DEF FileMoves, Unindexed

\* One write more, one slot more: the entries still fit.
LEMMA WriteFits ==
  ASSUME IInv, NEW f \in Paths, FileMoves(f), clock' = clock + 1, NEW es,
         NEW n \in Nat, Len(es) \in Nat, Fits(es, n)
  PROVE  /\ Len(es) + Cardinality(Unindexed(corpus', es)) + n <= clock'
         /\ f \in Unindexed(corpus, es) =>
              Len(es) + Cardinality(Unindexed(corpus', es)) + n + 1 <= clock'
<1>1. clock \in Nat
  BY BoundsAssumption DEF IInv, TypesOK, WorldOK
<1>2. IsFiniteSet(Unindexed(corpus, es))
  BY UnindexedFinite
<1>3. Unindexed(corpus', es) \in SUBSET (Unindexed(corpus, es) \cup {f})
  BY MovedUnindexed
<1>4. PICK U : U = Unindexed(corpus, es)
  OBVIOUS
<1>5. PICK V : V = Unindexed(corpus', es)
  OBVIOUS
<1>6. /\ Cardinality(V) \in Nat /\ Cardinality(U) \in Nat
      /\ Cardinality(V) <= Cardinality(U) + 1
      /\ f \in U => Cardinality(V) <= Cardinality(U)
  BY <1>2, <1>3, <1>4, <1>5, OneMoreAtMost
<1>7. Len(es) + Cardinality(U) + n <= clock
  BY <1>4 DEF Fits
<1>8. Len(es) + Cardinality(V) + n <= clock' /\ (f \in U => Len(es) + Cardinality(V) + n + 1 <= clock')
  BY <1>1, <1>6, <1>7
<1> QED BY <1>4, <1>5, <1>8

LEMMA DeleteFits ==
  ASSUME IInv, NEW f \in Paths, FileMoves(f), clock' = clock, corpus'[f].ver = 0, NEW es,
         NEW n \in Nat, Len(es) \in Nat, Fits(es, n)
  PROVE  /\ Len(es) + Cardinality(Unindexed(corpus', es)) + n <= clock'
         /\ f \in Unindexed(corpus, es) =>
              Len(es) + Cardinality(Unindexed(corpus', es)) + n + 1 <= clock'
<1>1. clock \in Nat
  BY BoundsAssumption DEF IInv, TypesOK, WorldOK
<1>2. IsFiniteSet(Unindexed(corpus, es))
  BY UnindexedFinite
<1>3. Unindexed(corpus', es) \in SUBSET (Unindexed(corpus, es) \ {f})
  BY MovedUnindexed
<1>4. PICK U : U = Unindexed(corpus, es)
  OBVIOUS
<1>5. PICK V : V = Unindexed(corpus', es)
  OBVIOUS
<1>6. /\ Cardinality(V) \in Nat /\ Cardinality(U) \in Nat
      /\ Cardinality(V) <= Cardinality(U)
  <2>1. V \in SUBSET U /\ IsFiniteSet(U)
    BY <1>2, <1>3, <1>4, <1>5
  <2> QED BY <2>1, NoneMore
<1>7. f \in U => Cardinality(V) + 1 <= Cardinality(U)
  <2>1. IsFiniteSet(U) /\ V \in SUBSET (U \ {f})
    BY <1>2, <1>3, <1>4, <1>5
  <2> QED BY <2>1, OneLessAtMost
<1>8. Len(es) + Cardinality(U) + n <= clock
  BY <1>4 DEF Fits
<1>9. Len(es) + Cardinality(V) + n <= clock' /\ (f \in U => Len(es) + Cardinality(V) + n + 1 <= clock')
  BY <1>1, <1>6, <1>7, <1>8
<1> QED BY <1>4, <1>5, <1>9

\* A file that moves after its stat was not indexed before.
LEMMA MovedFits ==
  ASSUME IInv, NEW f \in Paths, FileMoves(f),
         \/ clock' = clock + 1
         \/ clock' = clock /\ corpus'[f].ver = 0
  PROVE  FitsOK'
<1>1. /\ UNCHANGED <<manifest, files, pc, ver, todo, disk>> /\ turn' = turn /\ file' = file
      /\ files \in Seq(Entry) /\ manifest.files \in Seq(Entry) /\ clock \in Nat /\ FitsOK
      /\ TypesOK
  BY BoundsAssumption
     DEF FileMoves, CorpusMoves, store, plan, IInv, TypesOK, WorldOK, StoreOK, RunOK, EntriesOK,
         turn, file
<1>2. Len(files) \in Nat /\ Len(manifest.files) \in Nat /\ Len(<<>>) \in Nat
  BY <1>1, LenProperties, EmptyPlan
<1>3. ASSUME NEW es, NEW n \in Nat, Len(es) \in Nat, Fits(es, n)
      PROVE  /\ Len(es) + Cardinality(Unindexed(corpus', es)) + n <= clock'
             /\ f \in Unindexed(corpus, es) =>
                  Len(es) + Cardinality(Unindexed(corpus', es)) + n + 1 <= clock'
  BY <1>3, WriteFits, DeleteFits
<1>4. Fits(<<>>, 0)' /\ Fits(manifest.files, 0)'
  <2>1. Fits(<<>>, 0) /\ Fits(manifest.files, 0)
    BY <1>1 DEF FitsOK
  <2>2. /\ Len(<<>>) + Cardinality(Unindexed(corpus', <<>>)) + 0 <= clock'
        /\ Len(manifest.files) + Cardinality(Unindexed(corpus', manifest.files)) + 0 <= clock'
    BY <1>2, <1>3, <2>1
  <2> QED BY <1>1, <2>2 DEF Fits
<1>5. Fits(files, Behind)'
  <2>1. Fits(files, Behind) /\ Behind \in {0, 1}
    BY <1>1 DEF FitsOK, Behind
  <2>2. CASE Behind' = Behind
    <3>1. Len(files) + Cardinality(Unindexed(corpus', files)) + Behind <= clock'
      BY <1>2, <1>3, <2>1
    <3> QED BY <1>1, <2>2, <3>1 DEF Fits
  <2>3. CASE Behind' # Behind /\ pc = "read"
    <3>1. file \in Paths /\ file = f
      <4>1. todo # {}
        BY <2>3 DEF IInv, PhaseOK
      <4>2. file \in Paths
        BY <1>1, <4>1, FileHere
      <4>3. file # f => corpus'[file] = corpus[file]
        BY <4>2 DEF FileMoves
      <4> QED BY <1>1, <2>3, <4>2, <4>3 DEF Behind
    <3>2. CASE Behind = 1
      <4>1. Behind' = 0 /\ corpus'[f].ver = ver
        BY <1>1, <2>3, <3>1, <3>2 DEF Behind
      <4>2. ver \in 1..clock
        BY <1>1, <2>3 DEF IInv, PhaseOK, TypesOK, RunOK
      <4> QED BY <4>1, <4>2 DEF FileMoves
    <3>3. CASE Behind = 0
      <4>1. Behind' = 1 /\ corpus[f].ver = ver /\ ver # 0
        BY <1>1, <2>1, <2>3, <3>1, <3>3 DEF Behind, IInv, PhaseOK
      <4>2. \A i \in Live(files) : files[i].name = f => files[i].ver # ver
        BY <2>3, <3>1 DEF IInv, PlanOK, Planning
      <4>3. f \in Unindexed(corpus, files)
        BY <4>1, <4>2 DEF Unindexed
      <4>4. Len(files) + Cardinality(Unindexed(corpus', files)) + 0 + 1 <= clock'
        BY <1>2, <1>3, <2>1, <3>3, <4>3
      <4>5. Cardinality(Unindexed(corpus', files)) \in Nat
        BY UnindexedFinite
      <4>6. Len(files) + Cardinality(Unindexed(corpus', files)) + 1 <= clock'
        BY <1>2, <4>4, <4>5
      <4> QED BY <1>1, <4>1, <4>6 DEF Fits
    <3> QED BY <2>1, <3>2, <3>3
  <2> QED BY <1>1, <2>2, <2>3 DEF Behind
<1>6. ASSUME pc' \in Planning, NEW g \in Paths \ disk', Present(g)',
             NEW i \in Live(files'), files'[i].name = g
      PROVE  files'[i].ver # corpus'[g].ver
  <2>1. files[i].ver \in 1..clock
    BY <1>1, <1>6 DEF IInv, TypesOK, RunOK, EntriesOK
  <2>2. CASE g = f
    BY <1>1, <2>1, <2>2 DEF FileMoves
  <2>3. CASE g # f
    <3>1. corpus'[g] = corpus[g]
      BY <1>6, <2>3 DEF FileMoves
    <3> QED BY <1>1, <1>6, <3>1 DEF FitsOK, Present
  <2> QED BY <2>2, <2>3
<1> QED BY <1>4, <1>5, <1>6 DEF FitsOK

-----------------------------------------------------------------------------
(* What depends on what.                                                   *)

LEMMA SameLayers ==
  ASSUME UNCHANGED <<fst, wal>>
  PROVE  View' = View /\ \A i : Shown(i)' = Shown(i)
BY DEF View, Shown

SameOutcome ==
    /\ Dels' = Dels /\ Adds' = Adds /\ CardKeys' = CardKeys /\ Outcome' = Outcome
    /\ \A i : WillShow(i)' = WillShow(i) /\ (Carded(i)' <=> Carded(i))

LEMMA SamePlanSameOutcome ==
  ASSUME UNCHANGED <<fst, wal, op, log, cards>>, pc' = "commit" <=> pc = "commit"
  PROVE  SameOutcome
<1>1. View' = View
  BY SameLayers
<1>2. Dels' = Dels /\ Adds' = Adds /\ CardKeys' = CardKeys
  BY DEF Dels, Adds, CardKeys
<1>3. Outcome' = Outcome
  BY <1>1, <1>2 DEF Outcome
<1>4. \A i : WillShow(i)' = WillShow(i) /\ (Carded(i)' <=> Carded(i))
  BY <1>3 DEF WillShow, Carded
<1> QED BY <1>2, <1>3, <1>4 DEF SameOutcome

\* The versions of the entries cannot be those of a file that moved.
LEMMA MovedIsNotFresh ==
  ASSUME NEW f, FileMoves(f), NEW es, EntriesOK(clock, es), NEW i \in Live(es),
         es[i].ver = corpus'[es[i].name].ver
  PROVE  corpus'[es[i].name] = corpus[es[i].name]
<1>1. es[i].name \in Paths /\ es[i].ver \in 1..clock
  BY DEF EntriesOK
<1> QED BY <1>1 DEF FileMoves

LEMMA MovedFrame ==
  ASSUME IInv, NEW f, FileMoves(f)
  PROVE  /\ UNCHANGED <<fst, wal, sidecars, manifest, pc, op, todo, disk, ver, files,
                        log, cards, gone, faults, damaged>>
         /\ (pc # "idle" => moved') /\ moved' \in BOOLEAN /\ ~settled' /\ gap' # "open"
         /\ (pc = "idle" => ~moved')
         /\ (gap' = "none" => gap = "none")
         /\ gap' \in {"none", "open", "changed", "rebuild"} /\ settled' \in BOOLEAN
BY DEF FileMoves, CorpusMoves, store, plan, IInv, TypesOK, HistoryOK

LEMMA MovedTypes ==
  ASSUME IInv, NEW f, FileMoves(f), WorldOK', clock' \in {clock, clock + 1}
  PROVE  TypesOK' /\ PhaseOK' /\ SettledOK' /\ FoldedOK'
<1>1. clock \in Nat /\ clock' \in Nat /\ clock <= clock'
  BY BoundsAssumption DEF IInv, TypesOK, WorldOK
<1>2. EntriesOK(clock', files) /\ EntriesOK(clock', manifest.files)
  <2>1. EntriesOK(clock, files) /\ EntriesOK(clock, manifest.files)
    BY DEF IInv, TypesOK, StoreOK, RunOK
  <2> QED BY <1>1, <2>1, LaterEntries
<1>3. StoreOK'
  BY <1>2, MovedFrame DEF IInv, TypesOK, StoreOK
<1>4. RunOK'
  <2>1. ver \in 0..clock'
    BY <1>1 DEF IInv, TypesOK, RunOK
  <2> QED BY <1>2, <2>1, MovedFrame DEF IInv, TypesOK, RunOK
<1>5. HistoryOK'
  BY MovedFrame DEF IInv, TypesOK, HistoryOK
<1>6. PhaseOK'
  BY MovedFrame DEF IInv, PhaseOK
<1>7. SettledOK'
  BY MovedFrame DEF SettledOK
<1>8. FoldedOK'
  BY MovedFrame, SameLayers DEF IInv, FoldedOK
<1> QED BY <1>3, <1>4, <1>5, <1>6, <1>7, <1>8 DEF TypesOK

LEMMA MovedRest ==
  ASSUME IInv, NEW f, FileMoves(f)
  PROVE  RestOK'
<1>1. View' = View /\ \A i : Shown(i)' = Shown(i)
  BY MovedFrame, SameLayers
<1>2. EntriesOK(clock, manifest.files)
  BY DEF IInv, TypesOK, StoreOK
<1>3. ASSUME NoneOK
      PROVE  NoneOK'
  <2>1. ASSUME NEW i \in Live(manifest.files)
        PROVE  SlotOK(i)' /\ (Fresh(i)' => Shows(Shown(i), Wanted(i))')
    <3>1. SlotOK(i)'
      BY <1>1, <1>3, <2>1, MovedFrame DEF NoneOK, SlotOK
    <3>2. ASSUME Fresh(i)'
          PROVE  Shows(Shown(i), Wanted(i))'
      <4>1. manifest.files[i].ver = corpus'[manifest.files[i].name].ver
        BY <3>2, MovedFrame DEF Fresh
      <4>2. corpus'[manifest.files[i].name] = corpus[manifest.files[i].name]
        BY <1>2, <4>1, MovedIsNotFresh
      <4>3. Shows(Shown(i), Wanted(i))
        BY <1>3, <4>1, <4>2 DEF NoneOK, Fresh
      <4>4. Wanted(i)' = Wanted(i)
        BY <4>2, MovedFrame DEF Wanted
      <4> QED BY <1>1, <4>3, <4>4, MovedFrame DEF Shows
    <3> QED BY <3>1, <3>2
  <2> QED BY <1>1, <1>3, <2>1, MovedFrame DEF NoneOK
<1>4. (pc' \in Resting \cup Planning \cup {"rebase"} /\ gap' = "none") => NoneOK'
  BY <1>3, MovedFrame DEF IInv, RestOK
<1>5. ~(pc' = "commit" /\ ~moved')
  BY MovedFrame
<1> QED BY <1>4, <1>5, MovedFrame DEF RestOK

LEMMA MovedOutcome ==
  ASSUME IInv, NEW f, FileMoves(f)
  PROVE  SameOutcome /\ (Excused' <=> Excused) /\ (Sound' => Sound)
         /\ \A i, ws : WillBe(i, ws)' <=> WillBe(i, ws)
<1>1. SameOutcome
  BY MovedFrame, SamePlanSameOutcome
<1>2. (Excused' <=> Excused) /\ (Sound' => Sound)
  BY MovedFrame DEF Excused, Sound
<1>3. \A i, ws : WillBe(i, ws)' <=> WillBe(i, ws)
  BY <1>1, <1>2 DEF WillBe, SameOutcome
<1> QED BY <1>1, <1>2, <1>3

LEMMA MovedCards ==
  ASSUME IInv, NEW f, FileMoves(f), CardsOK
  PROVE  CardsOK'
BY MovedOutcome, MovedFrame DEF CardsOK, SameOutcome

LEMMA MovedPlan ==
  ASSUME IInv, NEW f, FileMoves(f), pc' \in Planning
  PROVE  PlanOK'
<1>1. pc \in Planning /\ moved'
  BY MovedFrame DEF Planning
<1>2. PlanOK /\ turn' = turn /\ file' = file
  BY MovedFrame DEF IInv, turn, file
<1>3. CardsOK'
  BY <1>1, <1>2, MovedCards DEF PlanOK
<1>4. ReadOK'
  <2>1. ASSUME NEW c \in Range(cards),
               files[c.slot].ver = corpus'[files[c.slot].name].ver
        PROVE  c.words = corpus'[files[c.slot].name].words
    <3>1. c.slot \in Live(files) /\ ReadOK
      BY <1>1, <1>2, <2>1 DEF PlanOK, CardsOK
    <3>2. corpus'[files[c.slot].name] = corpus[files[c.slot].name]
      <4>1. EntriesOK(clock, files)
        BY DEF IInv, TypesOK, RunOK
      <4> QED BY <2>1, <3>1, <4>1, MovedIsNotFresh
    <3> QED BY <2>1, <3>1, <3>2 DEF ReadOK
  <2> QED BY <2>1, MovedFrame DEF ReadOK
<1>5. IF op = "build" THEN BuildOK' ELSE UpdateOK'
  <2>1. IF op = "build" THEN BuildOK ELSE UpdateOK
    BY <1>1, <1>2 DEF PlanOK
  <2>2. BuildOK => BuildOK'
    BY MovedOutcome, MovedFrame DEF BuildOK, SameOutcome
  <2>3. UpdateOK => UpdateOK'
    BY MovedOutcome, MovedFrame DEF UpdateOK, SameOutcome
  <2> QED BY <2>1, <2>2, <2>3
<1>6. /\ \A p \in todo : Files[p] \in disk
      /\ pc = "read" => \A i \in Live(files) : files[i].name = file => files[i].ver # ver
      /\ \A c \in Range(cards) :
           files[c.slot].name \in disk /\ \A p \in todo : files[c.slot].name # Files[p]
  BY <1>1, <1>2 DEF PlanOK
<1> QED BY <1>1, <1>2, <1>3, <1>4, <1>5, <1>6, MovedFrame DEF PlanOK

LEMMA MovedEnd ==
  ASSUME IInv, NEW f, FileMoves(f), pc' \in Ending
  PROVE  EndOK'
<1>1. pc \in Ending /\ moved' /\ EndOK
  BY MovedFrame DEF Ending, Rebuilding, IInv
<1>2. CardsOK'
  BY <1>1, MovedCards DEF EndOK
<1>3. /\ gone' \cap Live(files') = {}
      /\ pc' \in Rebuilding => \A i \in Live(files') : Carded(i)'
      /\ pc' = "dropWal" => fst'.keys = CardKeys'
  BY <1>1, MovedOutcome, MovedFrame DEF EndOK, SameOutcome
<1>4. ASSUME Sound'
      PROVE  /\ \A i \in Live(files') :
                  /\ files'[i].ver = corpus'[files'[i].name].ver
                       => WillBe(i, corpus[files[i].name].words)'
                  /\ ~Carded(i)' => WillBe(i, sidecars[i])' \/ (sidecars'[i] \subseteq WillShow(i)' /\ damaged')
             /\ Excused' \/ Outcome' \subseteq Words \X Live(files')
  <2>1. Sound
    BY <1>4, MovedOutcome
  <2>2. ASSUME NEW i \in Live(files), files[i].ver = corpus'[files[i].name].ver
        PROVE  WillBe(i, corpus[files[i].name].words)'
    <3>1. corpus'[files[i].name] = corpus[files[i].name]
      <4>1. EntriesOK(clock, files)
        BY DEF IInv, TypesOK, RunOK
      <4> QED BY <2>2, <4>1, MovedIsNotFresh
    <3>2. WillBe(i, corpus[files[i].name].words)
      BY <1>1, <2>1, <2>2, <3>1 DEF EndOK
    <3> QED BY <3>1, <3>2, MovedOutcome, MovedFrame DEF WillBe, SameOutcome
  <2>3. ASSUME NEW i \in Live(files), ~Carded(i)
        PROVE  WillBe(i, sidecars[i])' \/ (sidecars'[i] \subseteq WillShow(i)' /\ damaged')
    <3>1. WillBe(i, sidecars[i]) \/ (sidecars[i] \subseteq WillShow(i) /\ damaged)
      BY <1>1, <2>1, <2>3 DEF EndOK
    <3> QED BY <3>1, MovedOutcome, MovedFrame DEF WillBe, SameOutcome
  <2>4. Excused' \/ Outcome' \subseteq Words \X Live(files')
    BY <1>1, <2>1, MovedOutcome, MovedFrame DEF EndOK, SameOutcome
  <2> QED BY <2>2, <2>3, <2>4, MovedOutcome, MovedFrame DEF SameOutcome
<1> QED BY <1>1, <1>2, <1>3, <1>4 DEF EndOK

LEMMA MovedStep ==
  ASSUME IInv, NEW f \in Paths, FileMoves(f), WorldOK',
         \/ clock' = clock + 1
         \/ clock' = clock /\ corpus'[f].ver = 0
  PROVE  IInv'
<1>1. TypesOK' /\ PhaseOK' /\ SettledOK' /\ FoldedOK'
  BY MovedTypes
<1>2. FitsOK'
  BY MovedFits
<1>3. PlanOK'
  BY MovedPlan DEF PlanOK
<1>4. EndOK'
  BY MovedEnd DEF EndOK
<1> QED BY <1>1, <1>2, <1>3, <1>4, MovedRest DEF IInv

-----------------------------------------------------------------------------
(* Starts and ends of runs.                                                *)

SameIndex ==
    /\ UNCHANGED <<corpus, sidecars, damaged>>
    /\ View' = View /\ manifest'.files = manifest.files

LEMMA SameRest ==
  ASSUME SameIndex
  PROVE  (NoneOK' <=> NoneOK) /\ (OpenOK' <=> OpenOK)
<1>1. \A i : Shown(i)' = Shown(i) /\ Wanted(i)' = Wanted(i)
  BY DEF SameIndex, Shown, Wanted
<1>2. \A i : (Fresh(i)' <=> Fresh(i)) /\ (SlotOK(i)' <=> SlotOK(i))
  BY <1>1 DEF SameIndex, Fresh, SlotOK
<1>3. \A i : /\ Shows(Shown(i), Wanted(i))' <=> Shows(Shown(i), Wanted(i))
             /\ Toward(i, Wanted(i))' <=> Toward(i, Wanted(i))
  BY <1>1 DEF SameIndex, Shows, Toward
<1>4. NoneOK' <=> NoneOK
  BY <1>2, <1>3 DEF SameIndex, NoneOK
<1>5. \A p \in Places : (NewAt(p)' <=> NewAt(p))
  BY DEF SameIndex, NewAt, Present
<1>6. \A p \in Places : Rank(p)' = Rank(p)
  <2>1. ASSUME NEW p \in Places
        PROVE  {q \in 1..p : NewAt(q)'} = {q \in 1..p : NewAt(q)}
    <3>1. \A q \in 1..p : q \in Places
      <4>1. p \in 1..Len(Files) /\ Len(Files) \in Nat /\ Places = 1..Len(Files)
        BY FilesFacts
      <4> QED BY <4>1
    <3> QED BY <1>5, <3>1
  <2> QED BY <2>1 DEF SameIndex, Rank
<1>7. \A k : Awaited(k)' <=> Awaited(k)
  BY <1>5, <1>6 DEF SameIndex, Awaited
<1>8. OpenOK' <=> OpenOK
  BY <1>2, <1>3, <1>7 DEF SameIndex, OpenOK
<1> QED BY <1>4, <1>8

LEMMA NoneIsOpen ==
  ASSUME NoneOK
  PROVE  OpenOK
<1>1. ASSUME NEW i \in Live(manifest.files)
      PROVE  /\ Toward(i, Wanted(i))
             /\ Fresh(i) => SlotOK(i) /\ Shows(Shown(i), Wanted(i))
  <2>1. SlotOK(i) /\ (Fresh(i) => Shows(Shown(i), Wanted(i)))
    BY <1>1 DEF NoneOK
  <2> QED BY <2>1 DEF SlotOK, Toward
<1>2. damaged \/ \A k \in View : k[2] \in Live(manifest.files)
  BY DEF NoneOK
<1> QED BY <1>1, <1>2 DEF OpenOK

\* Taking the lock and planning leave the index as it is between runs.
LEMMA QuietRest ==
  ASSUME IInv, SameIndex, gap' = gap,
         pc \in Resting \cup Planning \cup {"rebase"},
         pc' \in Resting \cup Planning \cup {"rebase", "commit"}
  PROVE  RestOK'
<1>1. (gap = "none" => NoneOK) /\ (gap = "open" => OpenOK)
  BY DEF IInv, RestOK
<1> QED BY <1>1, SameRest, NoneIsOpen DEF RestOK

LEMMA QuietSettled ==
  ASSUME IInv, UNCHANGED <<corpus, settled>>, manifest'.files = manifest.files
  PROVE  SettledOK'
<1>1. Current(manifest.files)' <=> Current(manifest.files)
  BY DEF Current, Present
<1> QED BY <1>1 DEF IInv, SettledOK

LEMMA QuietFits ==
  ASSUME IInv, UNCHANGED world, manifest'.files = manifest.files
  PROVE  Fits(<<>>, 0)' /\ Fits(manifest.files, 0)'
<1>1. Fits(<<>>, 0) /\ Fits(manifest.files, 0)
  BY DEF IInv, FitsOK
<1> QED BY <1>1 DEF world, Fits

LEMMA ReleasedRun ==
  ASSUME Release
  PROVE  /\ pc' = "idle" /\ op' = "none" /\ ~moved' /\ moved' \in BOOLEAN
         /\ todo' = {} /\ disk' = {} /\ ver' = 0 /\ files' = <<>>
         /\ log' = <<>> /\ cards' = <<>> /\ gone' = {}
BY DEF Release

LEMMA IdleStep ==
  ASSUME Release, WorldOK', StoreOK', settled' \in BOOLEAN, damaged' \in BOOLEAN,
         gap' \in {"none", "open", "changed", "rebuild"},
         Fits(<<>>, 0)', Fits(manifest.files, 0)', RestOK', SettledOK'
  PROVE  IInv'
<1>1. TypesOK'
  <2>1. <<>> \in Seq(Record) /\ <<>> \in Seq(Card)
    BY EmptySeq
  <2>2. 0 \in 0..clock'
    BY BoundsAssumption DEF WorldOK
  <2>3. RunOK'
    BY <2>1, <2>2, ReleasedRun, NoEntries DEF RunOK
  <2>4. HistoryOK'
    BY ReleasedRun DEF HistoryOK
  <2> QED BY <2>3, <2>4 DEF TypesOK
<1>2. PhaseOK'
  <2>1. "idle" \in Resting /\ "idle" \in Pcs /\ "idle" \notin Planning \cup Ending \cup FoldPcs
    BY DEF Resting, Pcs, Planning, Ending, Rebuilding, FoldPcs
  <2> QED BY <2>1, ReleasedRun DEF PhaseOK, Ending
<1>3. FitsOK'
  <2>1. Behind' = 0
    BY ReleasedRun DEF Behind
  <2>2. Fits(files, Behind)'
    BY <2>1, ReleasedRun DEF Fits
  <2>3. pc' \notin Planning
    BY ReleasedRun DEF Planning
  <2> QED BY <2>2, <2>3 DEF FitsOK
<1>4. PlanOK' /\ EndOK' /\ FoldedOK'
  BY ReleasedRun DEF PlanOK, EndOK, FoldedOK, Planning, Ending, Rebuilding
<1> QED BY <1>1, <1>2, <1>3, <1>4 DEF IInv

LEMMA QuietTypes ==
  ASSUME IInv, UNCHANGED <<world, store>>
  PROVE  WorldOK' /\ StoreOK'
BY DEF IInv, TypesOK, WorldOK, StoreOK, world, store

\* A run that ends without having written anything.
LEMMA GiveUp ==
  ASSUME IInv, Release, UNCHANGED <<world, store, gap, damaged>>,
         pc \in Resting \cup Planning \cup {"rebase"}, SettledOK', settled' \in BOOLEAN
  PROVE  IInv'
<1>1. SameIndex
  BY SameLayers DEF SameIndex, world, store
<1>2. RestOK'
  BY <1>1, ReleasedRun, QuietRest DEF Resting
<1>3. gap' \in {"none", "open", "changed", "rebuild"} /\ damaged' \in BOOLEAN
  BY DEF IInv, TypesOK, HistoryOK
<1>4. Fits(<<>>, 0)' /\ Fits(manifest.files, 0)'
  BY QuietFits DEF store
<1> QED BY <1>2, <1>3, <1>4, QuietTypes, IdleStep

LEMMA StartAs ==
  ASSUME NEW o, NEW next, NEW es, Start(o, next, es)
  PROVE  /\ pc = "idle" /\ pc' = next /\ op' = o /\ files' = es /\ ver' = 0
         /\ todo' \subseteq Places
         /\ o # "compact" => todo' = {p \in Places : Present(Files[p])}
         /\ o = "compact" => todo' = {}
         /\ disk' = {Files[p] : p \in todo'} /\ disk' \subseteq Paths
         /\ log' = <<>> /\ cards' = <<>> /\ gone' = {}
         /\ UNCHANGED <<world, store, history>>
<1>1. /\ pc = "idle" /\ pc' = next /\ op' = o /\ files' = es /\ ver' = 0
      /\ log' = <<>> /\ cards' = <<>> /\ gone' = {}
      /\ UNCHANGED <<world, store, history>>
      /\ todo' = IF o = "compact" THEN {} ELSE {p \in Places : Present(Files[p])}
      /\ disk' = {Files[p] : p \in todo'}
  BY DEF Start, Places
<1>2. todo' \subseteq Places
  BY <1>1
<1>3. disk' \subseteq Paths
  <2>1. \A p \in todo' : Files[p] \in Paths
    BY <1>2, FilesFacts
  <2> QED BY <1>1, <2>1
<1> QED BY <1>1, <1>2, <1>3

LEMMA StartFrame ==
  ASSUME IInv, NEW o, NEW next, NEW es, Start(o, next, es),
         next \in Pcs, EntriesOK(clock, es), Fits(es, 0)
  PROVE  /\ TypesOK' /\ RestOK' /\ SettledOK' /\ ~moved /\ ~moved'
         /\ Fits(<<>>, 0)' /\ Fits(manifest.files, 0)' /\ Fits(es, 0)'
         /\ gap' = "open" => ~moved'
<1>1. SameIndex /\ UNCHANGED <<gap, moved, settled, damaged, clock, corpus, manifest>>
  BY StartAs, SameLayers DEF SameIndex, world, store, history
<1>2. RunOK'
  <2>1. <<>> \in Seq(Record) /\ <<>> \in Seq(Card)
    BY EmptySeq
  <2>2. 0 \in 0..clock'
    BY <1>1, BoundsAssumption DEF IInv, TypesOK, WorldOK
  <2> QED BY <1>1, <2>1, <2>2, StartAs DEF RunOK
<1>3. TypesOK'
  <2>1. HistoryOK'
    BY <1>1 DEF IInv, TypesOK, HistoryOK
  <2> QED BY <1>2, <2>1, StartAs, QuietTypes DEF TypesOK
<1>4. RestOK'
  <2>1. pc \in Resting /\ pc' \in Resting \cup Planning \cup {"rebase", "commit"} \cup {"dropWal"}
    BY StartAs DEF Resting, Pcs, Planning
  <2>2. CASE pc' = "dropWal"
    BY <2>2 DEF RestOK, Resting, Planning, FoldPcs
  <2> QED BY <1>1, <2>1, <2>2, QuietRest
<1>5. SettledOK'
  BY <1>1, QuietSettled
<1>6. ~moved
  BY StartAs DEF IInv, PhaseOK
<1>7. Fits(<<>>, 0)' /\ Fits(manifest.files, 0)' /\ Fits(es, 0)'
  <2>1. Fits(es, 0)'
    BY <1>1 DEF Fits
  <2> QED BY <1>1, <2>1, StartAs, QuietFits
<1> QED BY <1>1, <1>3, <1>4, <1>5, <1>6, <1>7

LEMMA StartIndexing ==
  ASSUME IInv, NEW o \in {"update", "build"}, NEW es, Start(o, "stat", es),
         es = IF o = "build" THEN <<>> ELSE manifest.files
  PROVE  IInv'
<1>1. EntriesOK(clock, es) /\ Fits(es, 0) /\ "stat" \in Pcs
  <2>1. EntriesOK(clock, <<>>) /\ EntriesOK(clock, manifest.files)
    BY NoEntries DEF IInv, TypesOK, StoreOK
  <2>2. Fits(<<>>, 0) /\ Fits(manifest.files, 0)
    BY DEF IInv, FitsOK
  <2> QED BY <2>1, <2>2 DEF Pcs
<1>2. /\ TypesOK' /\ RestOK' /\ SettledOK' /\ ~moved /\ ~moved'
      /\ Fits(<<>>, 0)' /\ Fits(manifest.files, 0)' /\ Fits(es, 0)'
  BY <1>1, StartFrame
<1>3. /\ pc' = "stat" /\ op' = o /\ files' = es /\ ver' = 0
      /\ todo' = {p \in Places : Present(Files[p])} /\ disk' = {Files[p] : p \in todo'}
      /\ log' = <<>> /\ cards' = <<>> /\ gone' = {}
      /\ UNCHANGED <<world, store, history>>
  BY StartAs
<1>4. PhaseOK'
  BY <1>2, <1>3 DEF PhaseOK, Pcs, Planning, Ending, Rebuilding, Resting, FoldPcs
<1>5. disk' = {f \in Paths : Present(f)'}
  <2>1. \A f : Present(f)' <=> Present(f)
    BY <1>3 DEF Present, world
  <2>2. \A f \in disk' : f \in Paths /\ Present(f)
    <3>1. \A p \in todo' : Files[p] \in Paths /\ Present(Files[p])
      BY <1>3, FilesFacts
    <3> QED BY <1>3, <3>1
  <2>3. ASSUME NEW f \in Paths, Present(f)
        PROVE  f \in disk'
    <3>1. PICK p \in Places : f = Files[p]
      BY <2>3, FilesFacts
    <3> QED BY <1>3, <2>3, <3>1
  <2> QED BY <2>1, <2>2, <2>3
<1>6. FitsOK'
  <2>1. Behind' = 0
    BY <1>3 DEF Behind
  <2>2. Fits(files, Behind)'
    BY <1>2, <1>3, <2>1 DEF Fits
  <2> QED BY <1>2, <1>5, <2>2 DEF FitsOK
<1>7. Dels' = {} /\ Adds' = {} /\ Range(cards') = {} /\ DOMAIN cards' = {}
  BY <1>3, EmptyPlan DEF Dels, Adds
<1>8. CardsOK' /\ ReadOK'
  BY <1>7 DEF CardsOK, ReadOK
<1>9. IF op' = "build" THEN BuildOK' ELSE UpdateOK'
  <2>1. CASE o = "build"
    BY <1>3, <2>1, EmptyPlan DEF BuildOK
  <2>2. CASE o = "update"
    <3>1. files' = manifest'.files
      BY <1>3, <2>2 DEF store
    <3>2. Len(files') \in Nat
      BY <1>1, <1>3, LenProperties DEF EntriesOK
    <3> QED BY <1>3, <1>7, <2>2, <3>1, <3>2 DEF UpdateOK
  <2> QED BY <2>1, <2>2
<1>10. LogOK'
  BY <1>3, <1>7 DEF LogOK
<1>11. CalmPlan'
  <2>1. \A p \in Handled' : ~Present(Files[p])'
    BY <1>3 DEF Handled, Present, world
  <2>2. {p \in Handled' : NewAt(p)'} = {}
    BY <2>1 DEF NewAt
  <2>3. op' = "update" => Len(files') = Len(manifest'.files) + Cardinality({p \in Handled' : NewAt(p)'})
    <3>1. CASE o = "update"
      <4>1. files' = manifest'.files /\ Len(files') \in Nat
        BY <1>1, <1>3, <3>1, LenProperties DEF EntriesOK, store
      <4>2. Cardinality({p \in Handled' : NewAt(p)'}) = 0
        BY <2>2, FS_EmptySet
      <4>3. Len(files') = Len(manifest'.files) + 0
        BY <4>1
      <4> QED BY <4>2, <4>3
    <3> QED BY <1>3, <3>1
  <2> QED BY <1>3, <1>5, <2>1, <2>2, <2>3 DEF CalmPlan
<1>12. PlanOK'
  <2>1. \A p \in todo' : Files[p] \in disk'
    BY <1>3
  <2> QED BY <1>3, <1>7, <1>8, <1>9, <1>10, <1>11, <2>1 DEF PlanOK
<1>13. EndOK' /\ FoldedOK'
  BY <1>3 DEF EndOK, FoldedOK, Ending, Rebuilding
<1> QED BY <1>2, <1>4, <1>6, <1>12, <1>13 DEF IInv

LEMMA StartCompacting ==
  ASSUME IInv, Compact
  PROVE  IInv'
<1>1. Start("compact", "fold", <<>>)
  BY DEF Compact
<1>2. EntriesOK(clock, <<>>) /\ Fits(<<>>, 0) /\ "fold" \in Pcs
  BY NoEntries DEF IInv, FitsOK, Pcs, FoldPcs
<1>3. /\ TypesOK' /\ RestOK' /\ SettledOK' /\ ~moved'
      /\ Fits(<<>>, 0)' /\ Fits(manifest.files, 0)'
  BY <1>1, <1>2, StartFrame
<1>4. /\ pc' = "fold" /\ op' = "compact" /\ files' = <<>> /\ ver' = 0 /\ todo' = {}
      /\ log' = <<>> /\ cards' = <<>> /\ gone' = {}
  BY <1>1, StartAs
<1>5. PhaseOK'
  BY <1>3, <1>4 DEF PhaseOK, Pcs, Planning, Ending, Rebuilding, Resting, FoldPcs
<1>6. FitsOK'
  <2>1. Behind' = 0
    BY <1>4 DEF Behind
  <2>2. Fits(files, Behind)'
    BY <1>3, <1>4, <2>1 DEF Fits
  <2> QED BY <1>3, <1>4, <2>2 DEF FitsOK, Planning
<1>7. PlanOK' /\ EndOK' /\ FoldedOK'
  BY <1>4 DEF PlanOK, EndOK, FoldedOK, Planning, Ending, Rebuilding
<1> QED BY <1>3, <1>5, <1>6, <1>7 DEF IInv

-----------------------------------------------------------------------------
(* Stat.                                                                   *)

LEMMA PlanningFrame ==
  ASSUME IInv, pc \in Planning, pc' \in Planning, UNCHANGED <<world, store, history>>
  PROVE  /\ WorldOK' /\ StoreOK' /\ HistoryOK' /\ RestOK' /\ SettledOK' /\ EndOK' /\ FoldedOK'
         /\ Fits(<<>>, 0)' /\ Fits(manifest.files, 0)'
         /\ UNCHANGED <<corpus, clock, fst, wal, sidecars, manifest, moved, settled, gap, damaged>>
         /\ SameIndex
<1>1. UNCHANGED <<corpus, clock, fst, wal, sidecars, manifest, moved, settled, gap, damaged>>
  BY DEF world, store, history
<1>2. SameIndex
  BY <1>1, SameLayers DEF SameIndex
<1>3. HistoryOK'
  BY <1>1 DEF IInv, TypesOK, HistoryOK
<1>4. RestOK'
  BY <1>1, <1>2, QuietRest
<1>5. SettledOK' /\ Fits(<<>>, 0)' /\ Fits(manifest.files, 0)'
  BY <1>1, QuietSettled, QuietFits
<1>6. EndOK' /\ FoldedOK'
  BY DEF EndOK, FoldedOK, Planning, Ending, Rebuilding
<1> QED BY <1>1, <1>2, <1>3, <1>4, <1>5, <1>6, QuietTypes

\* A file that is indexed in the version it has: a slot of the manifest.
LEMMA UncardedIsKnown ==
  ASSUME IInv, pc \in Planning, todo # {}, NEW i \in Live(files), files[i].name = file
  PROVE  /\ ~Carded(i) /\ op = "update"
         /\ i \in Live(manifest.files) /\ files[i] = manifest.files[i]
         /\ ~NewAt(turn)
<1>1. turn \in todo /\ file = Files[turn]
  BY FileHere DEF IInv
<1>2. PlanOK
  BY DEF IInv
<1>3. ~Carded(i)
  BY <1>1, <1>2 DEF PlanOK, Carded
<1>4. op = "update" /\ UpdateOK
  <2>1. op \in {"update", "build"}
    BY DEF IInv, PhaseOK
  <2>2. i \in DOMAIN files
    BY DEF Live
  <2> QED BY <1>2, <1>3, <2>1, <2>2 DEF PlanOK, BuildOK
<1>5. i \in DOMAIN manifest.files /\ files[i] = manifest.files[i]
  BY <1>3, <1>4 DEF UpdateOK, Live
<1>6. i \in Live(manifest.files)
  BY <1>5 DEF Live
<1>7. ~NewAt(turn)
  BY <1>1, <1>5, <1>6 DEF NewAt, IsLive
<1> QED BY <1>3, <1>4, <1>5, <1>6, <1>7

LEMMA StatSkips ==
  ASSUME IInv, pc = "stat", todo # {}, Present(file), IsLive(files, file),
         files[SlotOf(files, file)].ver = corpus[file].ver,
         todo' = todo \ {turn},
         UNCHANGED <<world, store, history, pc, op, disk, ver, files, log, cards, gone>>
  PROVE  IInv'
<1>1. pc \in Planning /\ pc' \in Planning /\ pc' = "stat" /\ ver' = ver
  BY DEF Planning
<1>2. /\ WorldOK' /\ StoreOK' /\ HistoryOK' /\ RestOK' /\ SettledOK' /\ EndOK' /\ FoldedOK'
      /\ Fits(<<>>, 0)' /\ Fits(manifest.files, 0)'
      /\ UNCHANGED <<corpus, clock, fst, wal, sidecars, manifest, moved, settled, gap, damaged>>
  BY <1>1, PlanningFrame
<1>3. TypesOK'
  BY <1>2 DEF IInv, TypesOK, RunOK
<1>4. PhaseOK'
  BY <1>1, <1>2 DEF IInv, PhaseOK
<1>5. FitsOK'
  <2>1. Behind = 0 /\ Behind' = 0
    BY <1>1 DEF Behind
  <2>2. Fits(files, Behind)'
    BY <1>2, <2>1 DEF IInv, FitsOK, Fits
  <2> QED BY <1>1, <1>2, <2>2 DEF IInv, FitsOK, Present
<1>6. SameOutcome /\ (Excused' <=> Excused) /\ (Sound' <=> Sound)
  BY <1>2, SamePlanSameOutcome DEF Excused, Sound
<1>7. PlanOK
  BY DEF IInv
<1>8. CardsOK' /\ ReadOK'
  <2>1. \A i, ws : WillBe(i, ws)' <=> WillBe(i, ws)
    BY <1>6 DEF WillBe, SameOutcome
  <2>2. CardsOK /\ ReadOK
    BY <1>1, <1>7 DEF PlanOK
  <2> QED BY <1>2, <1>6, <2>1, <2>2 DEF CardsOK, ReadOK, SameOutcome
<1>9. IF op = "build" THEN BuildOK' ELSE UpdateOK'
  BY <1>1, <1>2, <1>6, <1>7 DEF PlanOK, BuildOK, UpdateOK, SameOutcome
<1>10. LogOK => LogOK'
  BY <1>2, <1>6 DEF LogOK, Fresh, Wanted, Awaited, NewAt, Rank, Present, SameOutcome
<1>11. /\ turn \in todo /\ turn \in Places /\ turn \in Nat /\ file = Files[turn]
       /\ \A q \in todo : turn <= q /\ q \in Nat
  BY FileHere, FilesFacts DEF IInv, TypesOK, RunOK
<1>12. PICK i \in Live(files) : files[i].name = file /\ files[i].ver = corpus[file].ver
  BY SlotOfLive
<1>13. ~NewAt(turn)
  BY <1>1, <1>12, UncardedIsKnown
<1>14. ASSUME CalmPlan
       PROVE  CalmPlan'
  <2>1. Handled' = Handled \cup {turn}
    BY <1>11 DEF Handled
  <2>2. ASSUME NEW p \in Handled', Present(Files[p])'
        PROVE  /\ \A q \in todo' : p < q
               /\ \E j \in Live(files') : files'[j].name = Files[p] /\ files'[j].ver = corpus'[Files[p]].ver
    <3>1. CASE p = turn
      BY <1>2, <1>11, <1>12, <3>1
    <3>2. CASE p \in Handled
      BY <1>2, <1>14, <2>2, <3>2 DEF CalmPlan, Present
    <3> QED BY <2>1, <3>1, <3>2
  <2>3. {p \in Handled' : NewAt(p)'} = {p \in Handled : NewAt(p)}
    <3>1. \A p : NewAt(p)' <=> NewAt(p)
      BY <1>2 DEF NewAt, Present
    <3> QED BY <1>13, <2>1, <3>1
  <2>4. \A p \in Handled' : NewAt(p)' => p \in Handled /\ NewAt(p) /\ Rank(p)' = Rank(p)
    <3>1. \A p : NewAt(p)' <=> NewAt(p)
      BY <1>2 DEF NewAt, Present
    <3>2. \A p : Rank(p)' = Rank(p)
      BY <1>2, <3>1 DEF Rank
    <3> QED BY <2>3, <3>1, <3>2
  <2>5. op' = "update" =>
         /\ Len(files') = Len(manifest'.files) + Cardinality({p \in Handled' : NewAt(p)'})
         /\ \A p \in Handled' : NewAt(p)' =>
              Rank(p)' \in Live(files') /\ files'[Rank(p)'].name = Files[p]
    BY <1>2, <1>14, <2>3, <2>4 DEF CalmPlan
  <2>6. disk' = {f \in Paths : Present(f)'}
    BY <1>2, <1>14 DEF CalmPlan, Present
  <2> QED BY <1>1, <2>2, <2>5, <2>6 DEF CalmPlan
<1>15. /\ \A p \in todo' : Files[p] \in disk'
       /\ \A c \in Range(cards') :
            files'[c.slot].name \in disk' /\ \A p \in todo' : files'[c.slot].name # Files[p]
  BY <1>1, <1>7 DEF PlanOK
<1>16. PlanOK'
  BY <1>1, <1>2, <1>7, <1>8, <1>9, <1>10, <1>14, <1>15 DEF PlanOK
<1> QED BY <1>2, <1>3, <1>4, <1>5, <1>16 DEF IInv

LEMMA StatGoesOn ==
  ASSUME IInv, pc = "stat", todo # {}, Present(file),
         ~(IsLive(files, file) /\ files[SlotOf(files, file)].ver = corpus[file].ver),
         ver' = corpus[file].ver, pc' = "read",
         UNCHANGED <<world, store, history, op, todo, disk, files, log, cards, gone>>
  PROVE  IInv'
<1>1. pc \in Planning /\ pc' \in Planning
  BY DEF Planning
<1>2. /\ WorldOK' /\ StoreOK' /\ HistoryOK' /\ RestOK' /\ SettledOK' /\ EndOK' /\ FoldedOK'
      /\ Fits(<<>>, 0)' /\ Fits(manifest.files, 0)'
      /\ UNCHANGED <<corpus, clock, fst, wal, sidecars, manifest, moved, settled, gap, damaged>>
  BY <1>1, PlanningFrame
<1>3. turn' = turn /\ file' = file /\ file \in Paths
  BY FileHere DEF turn, file, IInv
<1>4. ver' \in 0..clock /\ ver' # 0
  BY <1>3 DEF IInv, TypesOK, WorldOK, Present
<1>5. TypesOK'
  BY <1>2, <1>4 DEF IInv, TypesOK, RunOK
<1>6. PhaseOK'
  BY <1>1, <1>2, <1>4 DEF IInv, PhaseOK, Pcs, Planning, Ending, Rebuilding, Resting, FoldPcs
<1>7. FitsOK'
  <2>1. Behind = 0 /\ Behind' = 0
    BY <1>2, <1>3 DEF Behind
  <2>2. Fits(files, Behind)'
    BY <1>2, <2>1 DEF IInv, FitsOK, Fits
  <2> QED BY <1>1, <1>2, <2>2 DEF IInv, FitsOK, Present
<1>8. SameOutcome /\ (Excused' <=> Excused) /\ (Sound' <=> Sound)
  BY <1>2, SamePlanSameOutcome DEF Excused, Sound
<1>9. PlanOK
  BY DEF IInv
<1>10. CardsOK' /\ ReadOK'
  <2>1. \A i, ws : WillBe(i, ws)' <=> WillBe(i, ws)
    BY <1>8 DEF WillBe, SameOutcome
  <2>2. CardsOK /\ ReadOK
    BY <1>1, <1>9 DEF PlanOK
  <2> QED BY <1>2, <1>8, <2>1, <2>2 DEF CardsOK, ReadOK, SameOutcome
<1>11. IF op = "build" THEN BuildOK' ELSE UpdateOK'
  BY <1>1, <1>2, <1>8, <1>9 DEF PlanOK, BuildOK, UpdateOK, SameOutcome
<1>12. LogOK => LogOK'
  BY <1>2, <1>8 DEF LogOK, Fresh, Wanted, Awaited, NewAt, Rank, Present, SameOutcome
<1>13. \A i \in Live(files) : files[i].name = file => files[i].ver # ver'
  <2>1. ASSUME NEW i \in Live(files), files[i].name = file
        PROVE  files[i].ver # corpus[file].ver
    <3>1. IsLive(files, file)
      BY <2>1 DEF IsLive
    <3>2. SlotOf(files, file) = i
      <4>1. \A j, k \in Live(files) : files[j].name = files[k].name => j = k
        BY DEF IInv, TypesOK, RunOK, EntriesOK
      <4> QED BY <2>1, <3>1, <4>1, SlotOfLive
    <3> QED BY <3>1, <3>2
  <2> QED BY <2>1
<1>14. CalmPlan => CalmPlan'
  <2>1. Handled' = Handled /\ \A p : (NewAt(p)' <=> NewAt(p))
    BY <1>2 DEF NewAt, Present, Handled
  <2>2. \A p : Rank(p)' = Rank(p)
    BY <1>2, <2>1 DEF Rank
  <2>3. {p \in Handled' : NewAt(p)'} = {p \in Handled : NewAt(p)}
    BY <2>1
  <2> QED BY <1>2, <1>3, <2>1, <2>2, <2>3 DEF CalmPlan, Present
<1>15. /\ \A p \in todo' : Files[p] \in disk'
       /\ \A c \in Range(cards') :
            files'[c.slot].name \in disk' /\ \A p \in todo' : files'[c.slot].name # Files[p]
  BY <1>1, <1>9 DEF PlanOK
<1>16. PlanOK'
  BY <1>1, <1>2, <1>3, <1>9, <1>10, <1>11, <1>12, <1>13, <1>14, <1>15 DEF PlanOK
<1> QED BY <1>2, <1>5, <1>6, <1>7, <1>16 DEF IInv

LEMMA StatStep ==
  ASSUME IInv, Stat
  PROVE  IInv'
<1>1. /\ pc = "stat" /\ todo # {} /\ UNCHANGED <<world, store, faults, settled, gap, damaged>>
  BY DEF Stat
<1>2. CASE Release
  <2>1. SettledOK' /\ settled' \in BOOLEAN
    BY <1>1, QuietSettled DEF IInv, TypesOK, HistoryOK, world, store
  <2> QED BY <1>1, <1>2, <2>1, GiveUp DEF Planning
<1>3. CASE ~Release
  <2>1. Present(file) /\ UNCHANGED <<op, disk, files, log, cards, gone, moved>>
    BY <1>3 DEF Stat
  <2>2. UNCHANGED <<world, store, history>>
    BY <1>1, <2>1 DEF history
  <2>3. CASE IsLive(files, file) /\ files[SlotOf(files, file)].ver = corpus[file].ver
    BY <1>1, <1>3, <2>1, <2>2, <2>3, StatSkips DEF Stat
  <2>4. CASE ~(IsLive(files, file) /\ files[SlotOf(files, file)].ver = corpus[file].ver)
    <3>1. ver' = corpus[file].ver /\ pc' = "read" /\ todo' = todo
      BY <1>3, <2>4 DEF Stat, Go
    <3> QED BY <1>1, <2>1, <2>2, <2>4, <3>1, StatGoesOn
  <2> QED BY <2>3, <2>4
<1> QED BY <1>2, <1>3

LEMMA ReadFailsStep ==
  ASSUME IInv, ReadFails
  PROVE  IInv'
<1>1. pc = "read" /\ Release /\ UNCHANGED <<world, store, faults, settled, gap, damaged>>
  BY DEF ReadFails
<1>2. SettledOK' /\ settled' \in BOOLEAN
  BY <1>1, QuietSettled DEF IInv, TypesOK, HistoryOK, world, store
<1> QED BY <1>1, <1>2, GiveUp DEF Planning

-----------------------------------------------------------------------------
(* The slots of new files.                                                 *)

News(p) == {q \in 1..p : NewAt(q)}

LEMMA NewsFinite ==
  ASSUME NEW p \in Places
  PROVE  /\ IsFiniteSet(News(p)) /\ Cardinality(News(p)) \in Nat /\ p \in Nat
         /\ News(p) \subseteq Places
<1>1. p \in Nat /\ 1..p \subseteq Places
  <2>1. p \in 1..Len(Files) /\ Len(Files) \in Nat /\ Places = 1..Len(Files)
    BY FilesFacts
  <2> QED BY <2>1
<1>2. IsFiniteSet(1..p)
  <2>1. 1 \in Int /\ p \in Int
    BY <1>1
  <2> QED BY <2>1, FS_Interval
<1>3. News(p) \in SUBSET (1..p)
  BY DEF News
<1> QED BY <1>1, <1>2, <1>3, NoneMore

LEMMA RanksGrow ==
  ASSUME NEW p \in Places, NEW q \in Places, NewAt(q), p < q, Len(manifest.files) \in Nat
  PROVE  Rank(p) < Rank(q)
<1>1. p \in Nat /\ q \in Nat /\ q \in 1..q
  <2>1. q \in 1..Len(Files) /\ p \in 1..Len(Files) /\ Len(Files) \in Nat
    BY FilesFacts
  <2> QED BY <2>1
<1>2. PICK P : P = News(p)
  OBVIOUS
<1>3. PICK Q : Q = News(q)
  OBVIOUS
<1>4. q \in Q /\ P \in SUBSET (Q \ {q})
  BY <1>1, <1>2, <1>3 DEF News
<1>5. IsFiniteSet(Q)
  BY <1>3, NewsFinite
<1>6. Cardinality(P) + 1 <= Cardinality(Q) /\ Cardinality(P) \in Nat /\ Cardinality(Q) \in Nat
  BY <1>4, <1>5, OneLessAtMost
<1>7. Rank(p) = Len(manifest.files) + Cardinality(P) /\ Rank(q) = Len(manifest.files) + Cardinality(Q)
  BY <1>2, <1>3 DEF Rank, News
<1> QED BY <1>6, <1>7

LEMMA RanksAreNew ==
  ASSUME NEW p \in Places, NewAt(p), Len(manifest.files) \in Nat
  PROVE  Rank(p) \in Nat /\ Rank(p) > Len(manifest.files)
<1>1. p \in Nat /\ p \in 1..p
  <2>1. p \in 1..Len(Files) /\ Len(Files) \in Nat
    BY FilesFacts
  <2> QED BY <2>1
<1>2. PICK P : P = News(p)
  OBVIOUS
<1>3. IsFiniteSet(P) /\ p \in P /\ {} \in SUBSET (P \ {p})
  BY <1>1, <1>2, NewsFinite DEF News
<1>4. Cardinality({}) + 1 <= Cardinality(P) /\ Cardinality(P) \in Nat /\ Cardinality({}) \in Nat
  BY <1>3, OneLessAtMost
<1>5. Rank(p) = Len(manifest.files) + Cardinality(P)
  BY <1>2 DEF Rank, News
<1> QED BY <1>4, <1>5

LEMMA RanksDiffer ==
  ASSUME NEW p \in Places, NEW q \in Places, NewAt(p), NewAt(q), Rank(p) = Rank(q),
         Len(manifest.files) \in Nat
  PROVE  p = q
<1>1. p \in Nat /\ q \in Nat
  BY FilesFacts
<1>2. Rank(p) \in Nat
  BY RanksAreNew
<1>3. ~(p < q) /\ ~(q < p)
  BY <1>2, RanksGrow
<1> QED BY <1>1, <1>3

\* A calm update gives the file whose turn it is the next slot.
LEMMA TurnHasNextRank ==
  ASSUME IInv, pc \in Planning, todo # {}, CalmPlan, op = "update", NewAt(turn)
  PROVE  Rank(turn) = Len(files) + 1
<1>1. /\ turn \in todo /\ turn \in Places /\ turn \in Nat
      /\ \A q \in todo : turn <= q /\ q \in Nat
  BY FileHere, FilesFacts DEF IInv, TypesOK, RunOK
<1>2. PICK H : H = {p \in Handled : NewAt(p)}
  OBVIOUS
<1>3. Len(files) = Len(manifest.files) + Cardinality(H)
  BY <1>2 DEF CalmPlan
<1>4. News(turn) = H \cup {turn}
  <2>1. ASSUME NEW q \in News(turn)
        PROVE  q \in H \cup {turn}
    <3>1. q \in 1..turn /\ NewAt(q) /\ q \in Places
      BY <1>1, <2>1, NewsFinite DEF News
    <3>2. CASE q \in todo
      <4>1. turn <= q /\ q <= turn /\ q \in Nat
        BY <1>1, <3>1, <3>2
      <4> QED BY <1>1, <4>1
    <3>3. CASE q \notin todo
      BY <1>2, <3>1, <3>3 DEF Handled
    <3> QED BY <3>2, <3>3
  <2>2. ASSUME NEW q \in H
        PROVE  q \in News(turn)
    <3>1. q \in Handled /\ NewAt(q) /\ Present(Files[q])
      BY <1>2, <2>2 DEF NewAt
    <3>2. q < turn
      BY <1>1, <3>1 DEF CalmPlan
    <3>3. q \in 1..Len(Files) /\ Len(Files) \in Nat
      BY <3>1, FilesFacts DEF Handled
    <3>4. q \in 1..turn
      BY <1>1, <3>2, <3>3
    <3> QED BY <3>1, <3>4 DEF News
  <2>3. turn \in News(turn)
    <3>1. turn \in 1..Len(Files) /\ Len(Files) \in Nat
      BY <1>1, FilesFacts
    <3>2. turn \in 1..turn
      BY <3>1
    <3> QED BY <3>2 DEF News
  <2> QED BY <2>1, <2>2, <2>3
<1>5. turn \notin H
  BY <1>1, <1>2 DEF Handled
<1>6. IsFiniteSet(H)
  <2>1. H \in SUBSET News(turn) /\ IsFiniteSet(News(turn))
    BY <1>1, <1>4, NewsFinite
  <2> QED BY <2>1, NoneMore
<1>7. Cardinality(News(turn)) = Cardinality(H) + 1 /\ Cardinality(H) \in Nat
  BY <1>4, <1>5, <1>6, FS_AddElement, FS_CardinalityType
<1>8. Rank(turn) = Len(manifest.files) + Cardinality(News(turn))
  BY DEF Rank, News
<1>9. Len(manifest.files) \in Nat
  BY EntryOfLive DEF IInv, TypesOK, StoreOK, EntriesOK
<1> QED BY <1>3, <1>7, <1>8, <1>9

-----------------------------------------------------------------------------
(* ReadFile: what it writes into the plan.                                 *)

Known == IsLive(files, file)
ReadSlot == IF Known THEN SlotOf(files, file) ELSE Len(files) + 1
ReadOld == IF Known THEN sidecars[ReadSlot] ELSE {}
ReadNew == corpus[file].words

LEMMA ReadAs ==
  ASSUME ReadFile
  PROVE  /\ pc = "read" /\ pc' = "stat" /\ ver' = 0 /\ todo' = todo \ {turn}
         /\ files' = IF Known THEN [files EXCEPT ![ReadSlot] = FileEntry(file, ver)]
                     ELSE Append(files, FileEntry(file, ver))
         /\ log' = IF ReadOld = ReadNew THEN log
                   ELSE Append(log, [del |-> KeysOf(ReadSlot, ReadOld \ ReadNew),
                                     add |-> KeysOf(ReadSlot, ReadNew \ ReadOld)])
         /\ cards' = Append(cards, [slot |-> ReadSlot, words |-> ReadNew])
         /\ UNCHANGED <<world, store, history, op, disk, gone>>
BY DEF ReadFile, Go, Known, ReadSlot, ReadOld, ReadNew

LEMMA ReadFrame ==
  ASSUME IInv, ReadFile
  PROVE  /\ WorldOK' /\ StoreOK' /\ HistoryOK' /\ RestOK' /\ SettledOK' /\ EndOK' /\ FoldedOK'
         /\ Fits(<<>>, 0)' /\ Fits(manifest.files, 0)' /\ SameIndex
         /\ UNCHANGED <<corpus, clock, fst, wal, sidecars, manifest, moved, settled, gap, damaged>>
         /\ pc \in Planning /\ pc' \in Planning /\ op \in {"update", "build"}
         /\ todo # {} /\ turn \in todo /\ turn \in Places /\ turn \in Nat /\ file = Files[turn]
         /\ file \in Paths /\ file \in disk /\ \A q \in todo : turn <= q /\ q \in Nat
         /\ ver \in 1..clock /\ clock \in 0..MaxWrites /\ MaxWrites \in Nat
         /\ \A i \in Live(files) : files[i].name = file => files[i].ver # ver
         /\ CardsOK /\ ReadOK
<1>1. pc = "read" /\ pc' = "stat" /\ UNCHANGED <<world, store, history>>
  BY ReadAs
<1>2. pc \in Planning /\ pc' \in Planning
  BY <1>1 DEF Planning
<1>3. op \in {"update", "build"} /\ todo # {} /\ ver # 0
  BY <1>1, <1>2 DEF IInv, PhaseOK
<1>4. /\ turn \in todo /\ turn \in Places /\ turn \in Nat /\ file = Files[turn]
      /\ file \in Paths /\ \A q \in todo : turn <= q /\ q \in Nat
  BY <1>3, FileHere, FilesFacts DEF IInv, TypesOK, RunOK
<1>5. ver \in 1..clock /\ clock \in 0..MaxWrites /\ MaxWrites \in Nat
  BY <1>3, BoundsAssumption DEF IInv, TypesOK, RunOK, WorldOK
<1>6. /\ file \in disk /\ \A i \in Live(files) : files[i].name = file => files[i].ver # ver
      /\ CardsOK /\ ReadOK
  BY <1>1, <1>2, <1>4 DEF IInv, PlanOK
<1> QED BY <1>1, <1>2, <1>3, <1>4, <1>5, <1>6, PlanningFrame

LEMMA ReadSlotAs ==
  ASSUME IInv, ReadFile
  PROVE  /\ DOMAIN files = 1..Len(files) /\ Len(files) \in Nat
         /\ Known => ReadSlot \in Live(files) /\ files[ReadSlot].name = file
                     /\ ReadSlot \in DOMAIN files /\ ReadSlot \in Live(manifest.files)
                     /\ files[ReadSlot] = manifest.files[ReadSlot] /\ op = "update"
                     /\ ~NewAt(turn)
         /\ ~Known => ReadSlot = Len(files) + 1 /\ ReadSlot \notin DOMAIN files
         /\ ~Carded(ReadSlot)
<1>1. DOMAIN files = 1..Len(files) /\ Len(files) \in Nat /\ files \in Seq(Entry)
  BY EntryOfLive DEF IInv, TypesOK, RunOK, EntriesOK
<1>2. ASSUME Known
      PROVE  /\ ReadSlot \in Live(files) /\ files[ReadSlot].name = file
             /\ ReadSlot \in DOMAIN files
    BY <1>2, SlotOfLive DEF Known, ReadSlot, Live
<1>3. Known => /\ ReadSlot \in Live(manifest.files) /\ ~Carded(ReadSlot)
               /\ files[ReadSlot] = manifest.files[ReadSlot] /\ op = "update" /\ ~NewAt(turn)
  BY <1>2, ReadFrame, UncardedIsKnown
<1>4. ~Known => ReadSlot = Len(files) + 1 /\ ReadSlot \notin DOMAIN files
  BY <1>1 DEF ReadSlot
<1>5. ~Known => ~Carded(ReadSlot)
  BY <1>4, ReadFrame DEF Carded, CardsOK, Live
<1> QED BY <1>1, <1>2, <1>3, <1>4, <1>5

LEMMA ReadSlotFits ==
  ASSUME IInv, ReadFile
  PROVE  ReadSlot \in Slots
<1>1. /\ DOMAIN files = 1..Len(files) /\ Len(files) \in Nat
      /\ clock \in Nat /\ MaxWrites \in Nat /\ clock <= MaxWrites
  BY ReadSlotAs, ReadFrame
<1>2. PICK U : U = Unindexed(corpus, files)
  OBVIOUS
<1>3. IsFiniteSet(U) /\ Cardinality(U) \in Nat
  BY <1>2, UnindexedFinite
<1>4. Len(files) + Cardinality(U) + Behind <= clock /\ Behind \in {0, 1}
  BY <1>2 DEF IInv, FitsOK, Fits, Behind
<1>5. Len(files) <= clock
  BY <1>1, <1>3, <1>4
<1>6. CASE Known
  BY <1>1, <1>5, <1>6, ReadSlotAs DEF Slots
<1>7. CASE ~Known
  <2>1. Behind = 1 \/ file \in U
    <3>1. Behind # 1 => corpus[file].ver = ver
      BY ReadAs DEF Behind
    <3>2. corpus[file].ver = ver => file \in U
      BY <1>2, <1>7, ReadFrame DEF Known, IsLive, Unindexed
    <3> QED BY <3>1, <3>2
  <2>2. file \in U => Cardinality(U) # 0
    BY <1>3, FS_EmptySet
  <2>3. Len(files) + 1 <= clock
    BY <1>1, <1>3, <1>4, <2>1, <2>2
  <2> QED BY <1>1, <1>7, <2>3, ReadSlotAs DEF Slots
<1> QED BY <1>6, <1>7

LEMMA ReadEntries ==
  ASSUME IInv, ReadFile
  PROVE  /\ EntriesOK(clock, files')
         /\ Known => Len(files') = Len(files)
         /\ ~Known => Len(files') = Len(files) + 1
         /\ DOMAIN files' = DOMAIN files \cup {ReadSlot}
         /\ files'[ReadSlot].name = file /\ files'[ReadSlot].ver = ver
         /\ \A j \in DOMAIN files : j # ReadSlot => files'[j] = files[j]
         /\ Live(files') = Live(files) \cup {ReadSlot}
<1>1. PICK e : e = FileEntry(file, ver)
  OBVIOUS
<1>2. e.name = file /\ e.ver = ver /\ e.tombstoned = FALSE
  BY <1>1 DEF FileEntry
<1>3. e \in Entry /\ files \in Seq(Entry) /\ EntriesOK(clock, files)
  <2>1. ver \in Nat
    BY ReadFrame
  <2> QED BY <1>1, <2>1, ReadFrame DEF FileEntry, Entry, IInv, TypesOK, RunOK, EntriesOK
<1>4. DOMAIN files = 1..Len(files) /\ Len(files) \in Nat
  BY ReadSlotAs
<1>5. /\ files' \in Seq(Entry)
      /\ Known => Len(files') = Len(files)
      /\ ~Known => Len(files') = Len(files) + 1
      /\ DOMAIN files' = DOMAIN files \cup {ReadSlot}
      /\ files'[ReadSlot] = e
      /\ \A j \in DOMAIN files : j # ReadSlot => files'[j] = files[j]
  <2>1. CASE Known
    <3>1. files' = [files EXCEPT ![ReadSlot] = e] /\ ReadSlot \in 1..Len(files)
      BY <1>1, <1>4, <2>1, ReadAs, ReadSlotAs
    <3>2. files' \in Seq(Entry) /\ Len(files') = Len(files)
          /\ \A j \in 1..Len(files) : files'[j] = IF j = ReadSlot THEN e ELSE files[j]
      BY <1>3, <3>1, ExceptSeq
    <3>3. DOMAIN files' = DOMAIN files
      BY <1>4, <3>2, LenProperties
    <3> QED BY <1>4, <2>1, <3>1, <3>2, <3>3
  <2>2. CASE ~Known
    <3>1. files' = Append(files, e) /\ ReadSlot = Len(files) + 1
      BY <1>1, <2>2, ReadAs, ReadSlotAs
    <3>2. /\ files' \in Seq(Entry) /\ Len(files') = Len(files) + 1
          /\ \A j \in 1..Len(files) : files'[j] = files[j]
          /\ files'[Len(files) + 1] = e
      BY <1>3, <3>1, AppendProperties
    <3>3. DOMAIN files' = 1..(Len(files) + 1)
      BY <3>2, LenProperties
    <3>4. 1..(Len(files) + 1) = 1..Len(files) \cup {Len(files) + 1}
      BY <1>4
    <3> QED BY <1>4, <2>2, <3>1, <3>2, <3>3, <3>4
  <2> QED BY <2>1, <2>2
<1>6. Live(files') = Live(files) \cup {ReadSlot}
  BY <1>2, <1>5 DEF Live
<1>7. EntriesOK(clock, files')
  <2>1. ASSUME NEW i \in Live(files')
        PROVE  /\ files'[i].name \in Paths /\ files'[i].ver \in 1..clock
               /\ i # ReadSlot => files'[i] = files[i] /\ files[i].name # file
    <3>1. CASE i = ReadSlot
      BY <1>2, <1>5, <3>1, ReadFrame
    <3>2. CASE i # ReadSlot
      <4>1. i \in Live(files) /\ i \in DOMAIN files /\ files'[i] = files[i]
        BY <1>5, <1>6, <2>1, <3>2 DEF Live
      <4>2. files[i].name # file
        <5>1. CASE Known
          <6>1. ReadSlot \in Live(files) /\ files[ReadSlot].name = file
            BY <5>1, ReadSlotAs
          <6> QED BY <1>3, <3>2, <4>1, <6>1 DEF EntriesOK
        <5>2. CASE ~Known
          BY <4>1, <5>2 DEF Known, IsLive
        <5> QED BY <5>1, <5>2
      <4> QED BY <1>3, <4>1, <4>2 DEF EntriesOK
    <3> QED BY <3>1, <3>2
  <2>2. ASSUME NEW i \in Live(files'), NEW j \in Live(files'), files'[i].name = files'[j].name
        PROVE  i = j
    <3>1. CASE i # ReadSlot /\ j # ReadSlot
      <4>1. i \in Live(files) /\ j \in Live(files) /\ files[i].name = files[j].name
        BY <1>6, <2>1, <2>2, <3>1
      <4> QED BY <1>3, <4>1 DEF EntriesOK
    <3>2. CASE i = ReadSlot \/ j = ReadSlot
      BY <1>2, <1>5, <2>1, <2>2, <3>2
    <3> QED BY <3>1, <3>2
  <2> QED BY <1>5, <2>1, <2>2 DEF EntriesOK
<1> QED BY <1>2, <1>5, <1>6, <1>7

LEMMA ReadPlan ==
  ASSUME IInv, ReadFile
  PROVE  /\ log' \in Seq(Record) /\ cards' \in Seq(Card)
         /\ ReadOld \in SUBSET Words /\ ReadNew \in SUBSET Words
         /\ Dels' = Dels \cup KeysOf(ReadSlot, ReadOld \ ReadNew)
         /\ Adds' = Adds \cup KeysOf(ReadSlot, ReadNew \ ReadOld)
         /\ CardKeys' = CardKeys \cup KeysOf(ReadSlot, ReadNew)
         /\ Range(cards') = Range(cards) \cup {[slot |-> ReadSlot, words |-> ReadNew]}
         /\ \A i : Carded(i)' <=> Carded(i) \/ i = ReadSlot
<1>1. ReadSlot \in Slots /\ log \in Seq(Record) /\ cards \in Seq(Card)
  BY ReadSlotFits DEF IInv, TypesOK, RunOK
<1>2. ReadOld \in SUBSET Words /\ ReadNew \in SUBSET Words
  BY <1>1, ReadFrame DEF ReadOld, ReadNew, IInv, TypesOK, StoreOK, WorldOK
<1>3. PICK c : c = [slot |-> ReadSlot, words |-> ReadNew]
  OBVIOUS
<1>4. c.slot = ReadSlot /\ c.words = ReadNew /\ c \in Card /\ cards' = Append(cards, c)
  BY <1>1, <1>2, <1>3, ReadAs DEF Card
<1>5. /\ cards' \in Seq(Card) /\ Range(cards') = Range(cards) \cup {c}
      /\ CardKeys' = CardKeys \cup KeysOf(ReadSlot, ReadNew)
  BY <1>1, <1>4, AppendProperties, CardsOfAppend DEF CardKeys
<1>6. \A i : Carded(i)' <=> Carded(i) \/ i = ReadSlot
  BY <1>4, <1>5 DEF Carded
<1>7. PICK r : r = [del |-> KeysOf(ReadSlot, ReadOld \ ReadNew),
                    add |-> KeysOf(ReadSlot, ReadNew \ ReadOld)]
  OBVIOUS
<1>8. /\ r.del = KeysOf(ReadSlot, ReadOld \ ReadNew)
      /\ r.add = KeysOf(ReadSlot, ReadNew \ ReadOld)
      /\ r \in Record
      /\ log' = IF ReadOld = ReadNew THEN log ELSE Append(log, r)
  <2>1. KeysOf(ReadSlot, ReadOld \ ReadNew) \subseteq Keys /\ KeysOf(ReadSlot, ReadNew \ ReadOld) \subseteq Keys
    BY <1>1, <1>2 DEF KeysOf, Keys
  <2> QED BY <1>7, <2>1, ReadAs DEF Record
<1>9. /\ log' \in Seq(Record)
      /\ Dels' = Dels \cup r.del /\ Adds' = Adds \cup r.add
  <2>1. CASE ReadOld = ReadNew
    <3>1. r.del = {} /\ r.add = {}
      BY <1>8, <2>1 DEF KeysOf
    <3> QED BY <1>1, <1>8, <2>1, <3>1 DEF Dels, Adds
  <2>2. CASE ReadOld # ReadNew
    BY <1>1, <1>8, <2>2, AppendProperties, LogOfAppend DEF Dels, Adds
  <2> QED BY <2>1, <2>2
<1> QED BY <1>2, <1>3, <1>5, <1>6, <1>8, <1>9

-----------------------------------------------------------------------------
(* ReadFile: what the plan promises afterwards.                            *)

LEMMA ReadUnindexed ==
  ASSUME IInv, ReadFile
  PROVE  Unindexed(corpus, files') \subseteq Unindexed(corpus, files) \cup {file}
<1>1. ASSUME NEW f \in Unindexed(corpus, files'), f # file
      PROVE  f \in Unindexed(corpus, files)
  <2>1. \A i \in Live(files) : i # ReadSlot => i \in Live(files') /\ files'[i] = files[i]
    BY ReadEntries DEF Live
  <2>2. \A i \in Live(files) : i = ReadSlot => files[i].name = file
    BY ReadSlotAs DEF Live
  <2> QED BY <1>1, <2>1, <2>2 DEF Unindexed
<1> QED BY <1>1

LEMMA ReadFits ==
  ASSUME IInv, ReadFile
  PROVE  FitsOK'
<1>1. PICK U : U = Unindexed(corpus, files)
  OBVIOUS
<1>2. PICK V : V = Unindexed(corpus, files')
  OBVIOUS
<1>3. /\ IsFiniteSet(U) /\ Cardinality(U) \in Nat /\ Cardinality(V) \in Nat
      /\ Len(files) \in Nat /\ clock \in Nat
  BY <1>1, <1>2, UnindexedFinite, ReadSlotAs, ReadFrame
<1>4. Len(files) + Cardinality(U) + Behind <= clock /\ Behind \in {0, 1}
  BY <1>1 DEF IInv, FitsOK, Fits, Behind
<1>5. V \in SUBSET (U \cup {file})
  BY <1>1, <1>2, ReadUnindexed
<1>6. Cardinality(V) <= Cardinality(U) + 1 /\ (file \in U => Cardinality(V) <= Cardinality(U))
  BY <1>3, <1>5, OneMoreAtMost
<1>7. pc = "read" /\ pc' = "stat" /\ UNCHANGED <<corpus, clock>>
  BY ReadAs, ReadFrame
<1>8. ASSUME Behind = 0
      PROVE  Len(files') + Cardinality(V) + 0 <= clock
  <2>1. corpus[file].ver = ver
    BY <1>7, <1>8 DEF Behind
  <2>2. file \in U
    BY <1>1, <2>1, ReadFrame DEF Unindexed
  <2>3. file \notin V
    <3>1. ReadSlot \in Live(files') /\ files'[ReadSlot].name = file /\ files'[ReadSlot].ver = ver
      BY ReadEntries
    <3> QED BY <1>2, <2>1, <3>1 DEF Unindexed
  <2>4. Cardinality(V) + 1 <= Cardinality(U)
    <3>1. V \in SUBSET (U \ {file})
      BY <1>5, <2>3
    <3> QED BY <1>3, <2>2, <3>1, OneLessAtMost
  <2>5. Len(files') \in {Len(files), Len(files) + 1}
    BY ReadEntries
  <2>6. Len(files') + Cardinality(V) + 0 <= clock
    BY <1>3, <1>4, <1>8, <2>4, <2>5
  <2> QED BY <2>6
<1>9. ASSUME Behind = 1
      PROVE  Len(files') + Cardinality(V) + 0 <= clock
  <2>1. CASE Known
    <3>1. Len(files') = Len(files)
      BY <2>1, ReadEntries
    <3> QED BY <1>3, <1>4, <1>6, <1>9, <3>1
  <2>2. CASE ~Known
    <3>1. Len(files') = Len(files) + 1
      BY <2>2, ReadEntries
    <3>2. Cardinality(V) <= Cardinality(U)
      <4>1. CASE Present(file)
        <5>1. file \in U
          BY <1>1, <2>2, <4>1, ReadFrame DEF Known, IsLive, Unindexed, Present
        <5> QED BY <1>6, <5>1
      <4>2. CASE ~Present(file)
        <5>1. file \notin V
          BY <1>2, <4>2 DEF Unindexed, Present
        <5>2. V \in SUBSET U
          BY <1>5, <5>1
        <5> QED BY <1>3, <5>2, NoneMore
      <4> QED BY <4>1, <4>2
    <3> QED BY <1>3, <1>4, <1>9, <3>1, <3>2
  <2> QED BY <2>1, <2>2
<1>10. Len(files') + Cardinality(V) + 0 <= clock
  BY <1>4, <1>8, <1>9
<1>11. Fits(files, Behind)'
  <2>1. Behind' = 0
    BY <1>7 DEF Behind
  <2> QED BY <1>2, <1>7, <1>10, <2>1 DEF Fits
<1>12. ASSUME NEW g \in Paths \ disk', Present(g)', NEW i \in Live(files'), files'[i].name = g
       PROVE  files'[i].ver # corpus'[g].ver
  <2>1. disk' = disk /\ g # file /\ Present(g)
    BY <1>7, <1>12, ReadAs, ReadFrame DEF Present
  <2>2. i \in Live(files) /\ files'[i] = files[i]
    BY <1>12, <2>1, ReadEntries DEF Live
  <2>3. files[i].ver # corpus[g].ver
    BY <1>12, <2>1, <2>2, ReadFrame DEF IInv, FitsOK
  <2> QED BY <1>7, <2>2, <2>3
<1>13. Fits(<<>>, 0)' /\ Fits(manifest.files, 0)'
  BY ReadFrame
<1> QED BY <1>11, <1>12, <1>13 DEF FitsOK

\* What the slot of the file shows and what its sidecar says, against what was
\* read.
LEMMA ReadToward ==
  ASSUME IInv, ReadFile, op = "update", gap \in {"none", "open"}
  PROVE  /\ ReadOld \cap ReadNew \subseteq Shown(ReadSlot)
         /\ damaged \/ Shown(ReadSlot) \subseteq ReadOld \cup ReadNew
<1>1. (gap = "none" => NoneOK) /\ (gap = "open" => OpenOK /\ ~moved) /\ UpdateOK
  BY ReadFrame DEF IInv, RestOK, PhaseOK, PlanOK
<1>2. Len(files) \in Nat /\ Len(manifest.files) \in Nat /\ Len(manifest.files) <= Len(files)
      /\ DOMAIN manifest.files = 1..Len(manifest.files)
  BY <1>1, ReadSlotAs, EntryOfLive DEF UpdateOK, IInv, TypesOK, StoreOK, EntriesOK
<1>3. CASE Known
  <2>1. /\ ReadSlot \in Live(manifest.files) /\ manifest.files[ReadSlot].name = file
        /\ ReadOld = sidecars[ReadSlot]
    BY <1>3, ReadSlotAs DEF ReadOld
  <2>2. Wanted(ReadSlot) = ReadNew
    BY <2>1 DEF Wanted, ReadNew
  <2>3. CASE gap = "none"
    <3>1. SlotOK(ReadSlot)
      BY <1>1, <2>1, <2>3 DEF NoneOK
    <3> QED BY <2>1, <3>1 DEF SlotOK
  <2>4. CASE gap = "open"
    <3>1. Toward(ReadSlot, ReadNew)
      BY <1>1, <2>1, <2>2, <2>4 DEF OpenOK
    <3> QED BY <2>1, <3>1 DEF Toward
  <2> QED BY <2>3, <2>4
<1>4. CASE ~Known
  <2>1. ReadOld = {} /\ ReadSlot = Len(files) + 1
    BY <1>4, ReadSlotAs DEF ReadOld
  <2>2. ReadSlot \notin Live(manifest.files)
    BY <1>2, <2>1 DEF Live
  <2>3. CASE gap = "none"
    <3>1. damaged \/ View \subseteq Words \X Live(manifest.files)
      BY <1>1, <2>3 DEF NoneOK
    <3>2. damaged \/ Shown(ReadSlot) = {}
      BY <2>2, <3>1 DEF Shown
    <3> QED BY <2>1, <3>2
  <2>4. CASE gap = "open"
    <3>1. ASSUME ~damaged, NEW w \in Shown(ReadSlot)
          PROVE  w \in ReadNew
      <4>1. Awaited(<<w, ReadSlot>>)
        BY <1>1, <2>2, <2>4, <3>1 DEF OpenOK, Shown
      <4>2. PICK p \in Places : NewAt(p) /\ Rank(p) = ReadSlot /\ w \in corpus[Files[p]].words
        BY <4>1 DEF Awaited
      <4>3. CalmPlan
        BY <1>1, <2>4, ReadFrame DEF IInv, PlanOK
      <4>4. NewAt(turn)
        <5>1. corpus[file].ver = ver /\ ver # 0
          BY <4>3, ReadAs, ReadFrame DEF CalmPlan
        <5>2. ~IsLive(manifest.files, file)
          <6>1. ASSUME NEW j \in Live(manifest.files), manifest.files[j].name = file
                PROVE  FALSE
            <7>1. j \in Live(files) /\ files[j].name = file
              BY <1>1, <6>1 DEF UpdateOK, Live
            <7> QED BY <1>4, <7>1 DEF Known, IsLive
          <6> QED BY <6>1 DEF IsLive
        <5> QED BY <5>1, <5>2, ReadFrame DEF NewAt, Present
      <4>5. Rank(turn) = ReadSlot
        BY <2>1, <4>3, <4>4, ReadFrame, TurnHasNextRank
      <4>6. p = turn
        BY <1>2, <4>2, <4>4, <4>5, ReadFrame, RanksDiffer
      <4> QED BY <4>2, <4>6, ReadFrame DEF ReadNew
    <3> QED BY <2>1, <3>1
  <2> QED BY <2>3, <2>4
<1> QED BY <1>3, <1>4

\* Nothing is planned yet for a slot without a card.
LEMMA NothingPlanned ==
  ASSUME IInv, pc \in Planning, NEW i, ~Carded(i), NEW w
  PROVE  /\ op = "update" => <<w, i>> \notin Dels /\ <<w, i>> \notin Adds
         /\ op = "build" => <<w, i>> \notin Outcome
<1>1. op = "update" => <<w, i>> \notin Dels /\ <<w, i>> \notin Adds
  <2>1. op = "update" => \A k \in Dels \cup Adds : Carded(k[2])
    BY DEF IInv, PlanOK, UpdateOK
  <2>2. <<w, i>>[2] = i
    OBVIOUS
  <2> QED BY <2>1, <2>2
<1>2. op = "build" => <<w, i>> \notin Outcome
  <2>1. op = "build" => Outcome = CardKeys
    BY DEF Outcome, Planning
  <2>2. <<w, i>> \notin CardKeys
    BY KeysOfSlot DEF CardKeys, KeysOfCards, Carded
  <2> QED BY <2>1, <2>2
<1> QED BY <1>1, <1>2

LEMMA ReadOutcome ==
  ASSUME IInv, ReadFile
  PROVE  /\ \A i : i # ReadSlot => WillShow(i)' = WillShow(i)
         /\ \A i : i = ReadSlot =>
              /\ op = "build" => WillShow(i)' = ReadNew
              /\ op = "update" =>
                   WillShow(i)' = (Shown(i) \ (ReadOld \ ReadNew)) \cup (ReadNew \ ReadOld)
<1>1. View' = View /\ op' = op /\ pc \in Planning /\ pc' \in Planning /\ op \in {"update", "build"}
  BY ReadFrame, ReadAs DEF SameIndex
<1>2. /\ Dels' = Dels \cup KeysOf(ReadSlot, ReadOld \ ReadNew)
      /\ Adds' = Adds \cup KeysOf(ReadSlot, ReadNew \ ReadOld)
      /\ CardKeys' = CardKeys \cup KeysOf(ReadSlot, ReadNew)
      /\ ReadOld \in SUBSET Words /\ ReadNew \in SUBSET Words
  BY ReadPlan
<1>3. ASSUME op = "build"
      PROVE  \A w, i : <<w, i>> \in Outcome' <=> <<w, i>> \in Outcome \/ (i = ReadSlot /\ w \in ReadNew)
  <2>1. Outcome' = CardKeys' /\ Outcome = CardKeys
    BY <1>1, <1>3 DEF Outcome, Planning
  <2> QED BY <1>2, <2>1, KeysOfSlot
<1>4. ASSUME op = "update"
      PROVE  \A w, i : <<w, i>> \in Outcome' <=>
                \/ <<w, i>> \in View /\ <<w, i>> \notin Dels /\ ~(i = ReadSlot /\ w \in ReadOld \ ReadNew)
                \/ <<w, i>> \in Adds
                \/ i = ReadSlot /\ w \in ReadNew \ ReadOld
  <2>1. Outcome' = (View \ Dels') \cup Adds'
    BY <1>1, <1>4 DEF Outcome
  <2>3. \A k : /\ k \in Dels' <=> k \in Dels \/ k \in KeysOf(ReadSlot, ReadOld \ ReadNew)
               /\ k \in Adds' <=> k \in Adds \/ k \in KeysOf(ReadSlot, ReadNew \ ReadOld)
    BY <1>2
  <2>4. \A k : k \in Outcome' <=> (k \in View /\ k \notin Dels') \/ k \in Adds'
    BY <2>1
  <2>5. ASSUME NEW w, NEW i
        PROVE  <<w, i>> \in Outcome' <=>
                  \/ <<w, i>> \in View /\ <<w, i>> \notin Dels /\ ~(i = ReadSlot /\ w \in ReadOld \ ReadNew)
                  \/ <<w, i>> \in Adds
                  \/ i = ReadSlot /\ w \in ReadNew \ ReadOld
    <3>1. PICK k : k = <<w, i>>
      OBVIOUS
    <3>2. k \in Outcome' <=> (k \in View /\ k \notin Dels') \/ k \in Adds'
      BY <2>4
    <3>3. /\ k \in Dels' <=> k \in Dels \/ k \in KeysOf(ReadSlot, ReadOld \ ReadNew)
          /\ k \in Adds' <=> k \in Adds \/ k \in KeysOf(ReadSlot, ReadNew \ ReadOld)
      BY <2>3
    <3>4. /\ k \in KeysOf(ReadSlot, ReadOld \ ReadNew) <=> w \in ReadOld \ ReadNew /\ i = ReadSlot
          /\ k \in KeysOf(ReadSlot, ReadNew \ ReadOld) <=> w \in ReadNew \ ReadOld /\ i = ReadSlot
      <4>1. <<w, i>> \in KeysOf(ReadSlot, ReadOld \ ReadNew) <=> w \in ReadOld \ ReadNew /\ i = ReadSlot
        BY KeysOfSlot
      <4>2. <<w, i>> \in KeysOf(ReadSlot, ReadNew \ ReadOld) <=> w \in ReadNew \ ReadOld /\ i = ReadSlot
        BY KeysOfSlot
      <4> QED BY <3>1, <4>1, <4>2
    <3>5. \/ k \in View /\ k \notin Dels /\ ~(i = ReadSlot /\ w \in ReadOld \ ReadNew)
          \/ k \in Adds
          \/ i = ReadSlot /\ w \in ReadNew \ ReadOld
          <=> k \in Outcome'
      BY <3>2, <3>3, <3>4
    <3> QED BY <3>1, <3>5
  <2> QED BY <2>5
<1>5. op = "update" => Outcome = (View \ Dels) \cup Adds
  BY DEF Outcome
<1>6. ASSUME NEW i, i # ReadSlot
      PROVE  WillShow(i)' = WillShow(i)
  <2>1. \A w : <<w, i>> \in Outcome' <=> <<w, i>> \in Outcome
    <3>1. CASE op = "build"
      BY <1>3, <1>6, <3>1
    <3>2. CASE op = "update"
      BY <1>4, <1>5, <1>6, <3>2
    <3> QED BY <1>1, <3>1, <3>2
  <2> QED BY <2>1 DEF WillShow
<1>7. ~Carded(ReadSlot)
  BY ReadSlotAs
<1>8. ASSUME NEW i, i = ReadSlot, op = "build"
      PROVE  WillShow(i)' = ReadNew
  <2>1. \A w : <<w, i>> \in Outcome' <=> w \in ReadNew
    BY <1>1, <1>3, <1>7, <1>8, NothingPlanned
  <2> QED BY <1>2, <2>1 DEF WillShow
<1>9. ASSUME NEW i, i = ReadSlot, op = "update"
      PROVE  WillShow(i)' = (Shown(i) \ (ReadOld \ ReadNew)) \cup (ReadNew \ ReadOld)
  <2>1. \A w : <<w, i>> \in Outcome' <=>
                  (<<w, i>> \in View /\ w \notin ReadOld \ ReadNew) \/ w \in ReadNew \ ReadOld
    BY <1>1, <1>4, <1>7, <1>9, NothingPlanned
  <2> QED BY <1>2, <2>1 DEF WillShow, Shown
<1> QED BY <1>6, <1>8, <1>9

LEMMA ReadCards ==
  ASSUME IInv, ReadFile
  PROVE  CardsOK' /\ ReadOK'
<1>1. CardsOK /\ ReadOK /\ ~Carded(ReadSlot) /\ cards \in Seq(Card)
  BY ReadFrame, ReadSlotAs DEF IInv, TypesOK, RunOK
<1>2. PICK c : c = [slot |-> ReadSlot, words |-> ReadNew]
  OBVIOUS
<1>3. c.slot = ReadSlot /\ c.words = ReadNew /\ c \in Card
  BY <1>2, ReadSlotFits, ReadPlan DEF Card
<1>4. Range(cards') = Range(cards) \cup {c} /\ cards' = Append(cards, c)
  BY <1>2, ReadPlan, ReadAs
<1>5. \A i, j \in DOMAIN cards' : cards'[i].slot = cards'[j].slot => i = j
  <2>1. /\ Len(cards') = Len(cards) + 1 /\ Len(cards) \in Nat
        /\ \A i \in 1..Len(cards) : cards'[i] = cards[i]
        /\ cards'[Len(cards) + 1] = c
    BY <1>1, <1>3, <1>4, AppendProperties, LenProperties
  <2>2. DOMAIN cards = 1..Len(cards) /\ DOMAIN cards' = 1..(Len(cards) + 1)
    BY <1>1, <2>1, LenProperties, ReadPlan
  <2>3. \A i \in DOMAIN cards : cards[i].slot # ReadSlot
    BY <1>1 DEF Carded, Range
  <2>4. \A i \in DOMAIN cards' : i \in DOMAIN cards \/ i = Len(cards) + 1
    BY <2>1, <2>2
  <2>5. \A i, j \in DOMAIN cards : cards[i].slot = cards[j].slot => i = j
    BY <1>1 DEF CardsOK
  <2> QED BY <1>3, <2>1, <2>2, <2>3, <2>4, <2>5
<1>6. \A d \in Range(cards) : d.slot # ReadSlot
  BY <1>1 DEF Carded
<1>7. \A d \in Range(cards') : d.slot \in Live(files')
  BY <1>1, <1>3, <1>4, ReadEntries DEF CardsOK
<1>8. (Sound' <=> Sound) /\ (Excused' <=> Excused) /\ (op = "update" => (Excused <=> damaged))
  BY ReadFrame, ReadAs DEF Sound, Excused, Planning
<1>9. ASSUME Sound', NEW d \in Range(cards')
      PROVE  WillBe(d.slot, d.words)'
  <2>1. CASE d \in Range(cards)
    <3>1. WillBe(d.slot, d.words)
      BY <1>1, <1>8, <1>9, <2>1 DEF CardsOK
    <3> QED BY <1>6, <1>8, <2>1, <3>1, ReadOutcome DEF WillBe
  <2>2. CASE d = c
    <3>0. d.slot = ReadSlot /\ d.words = ReadNew
      BY <1>3, <2>2
    <3>1. CASE op = "build"
      <4>1. WillShow(d.slot)' = ReadNew
        BY <3>0, <3>1, ReadOutcome
      <4> QED BY <3>0, <4>1 DEF WillBe
    <3>2. CASE op = "update"
      <4>1. gap \in {"none", "open"}
        BY <1>8, <1>9, <3>2 DEF Sound
      <4>2. WillShow(d.slot)' = (Shown(d.slot) \ (ReadOld \ ReadNew)) \cup (ReadNew \ ReadOld)
        BY <3>0, <3>2, ReadOutcome
      <4>3. /\ ReadOld \cap ReadNew \subseteq Shown(d.slot)
            /\ damaged \/ Shown(d.slot) \subseteq ReadOld \cup ReadNew
        BY <3>0, <3>2, <4>1, ReadToward
      <4>4. ReadNew \subseteq WillShow(d.slot)'
        BY <4>2, <4>3
      <4>5. damaged \/ WillShow(d.slot)' \subseteq ReadNew
        BY <4>2, <4>3
      <4> QED BY <1>8, <3>0, <3>2, <4>4, <4>5 DEF WillBe
    <3> QED BY <3>1, <3>2, ReadFrame
  <2> QED BY <1>4, <1>9, <2>1, <2>2
<1>10. ASSUME op = "update"
       PROVE  Dels' \cap Adds' = {}
  <2>1. Dels \cap Adds = {} /\ \A w : <<w, ReadSlot>> \notin Dels /\ <<w, ReadSlot>> \notin Adds
    BY <1>1, <1>10, ReadFrame, NothingPlanned DEF CardsOK
  <2>2. \A k \in KeysOf(ReadSlot, ReadOld \ ReadNew) :
           k \notin Adds /\ k \notin KeysOf(ReadSlot, ReadNew \ ReadOld)
    BY <2>1 DEF KeysOf
  <2>3. \A k \in KeysOf(ReadSlot, ReadNew \ ReadOld) : k \notin Dels
    BY <2>1 DEF KeysOf
  <2> QED BY <2>1, <2>2, <2>3, ReadPlan
<1>11. ReadOK'
  <2>1. ASSUME NEW d \in Range(cards'), files'[d.slot].ver = corpus'[files'[d.slot].name].ver
        PROVE  d.words = corpus'[files'[d.slot].name].words
    <3>1. CASE d = c
      BY <1>3, <3>1, ReadEntries, ReadFrame DEF ReadNew
    <3>2. CASE d \in Range(cards)
      <4>1. d.slot \in DOMAIN files
        BY <1>1, <3>2 DEF CardsOK, Live
      <4>2. files'[d.slot] = files[d.slot]
        BY <1>6, <3>2, <4>1, ReadEntries
      <4> QED BY <1>1, <2>1, <3>2, <4>2, ReadFrame DEF ReadOK
    <3> QED BY <1>4, <2>1, <3>1, <3>2
  <2> QED BY <2>1 DEF ReadOK
<1>12. op' = op
  BY ReadAs
<1> QED BY <1>5, <1>7, <1>9, <1>10, <1>11, <1>12 DEF CardsOK

-----------------------------------------------------------------------------
(* ReadFile: the plan so far.                                              *)

LEMMA ReadBuild ==
  ASSUME IInv, ReadFile, op = "build"
  PROVE  BuildOK'
<1>1. BuildOK
  BY ReadFrame DEF IInv, PlanOK
<1> QED BY <1>1, ReadEntries, ReadPlan DEF BuildOK

LEMMA ReadUpdate ==
  ASSUME IInv, ReadFile, op = "update"
  PROVE  UpdateOK'
<1>1. UpdateOK /\ UNCHANGED manifest
  BY ReadFrame DEF IInv, PlanOK
<1>2. /\ DOMAIN files = 1..Len(files) /\ Len(files) \in Nat
      /\ DOMAIN manifest.files = 1..Len(manifest.files) /\ Len(manifest.files) \in Nat
      /\ Len(manifest.files) <= Len(files)
  BY <1>1, ReadSlotAs, EntryOfLive DEF UpdateOK, IInv, TypesOK, StoreOK, EntriesOK
<1>3. Len(manifest.files) <= Len(files')
  <2>1. Len(files') \in {Len(files), Len(files) + 1}
    BY ReadEntries
  <2> QED BY <1>2, <2>1
<1>4. ASSUME NEW i \in DOMAIN files', ~Carded(i)'
      PROVE  i \in DOMAIN manifest.files /\ files'[i] = manifest.files[i]
  <2>1. i # ReadSlot /\ ~Carded(i)
    BY <1>4, ReadPlan
  <2>2. i \in DOMAIN files /\ files'[i] = files[i]
    BY <1>4, <2>1, ReadEntries
  <2> QED BY <1>1, <2>1, <2>2 DEF UpdateOK
<1>5. ASSUME NEW i \in DOMAIN manifest.files
      PROVE  IF i \in Live(manifest.files)
             THEN i \in Live(files') /\ files'[i].name = manifest.files[i].name
             ELSE files'[i] = manifest.files[i]
  <2>1. i \in DOMAIN files
    BY <1>2
  <2>2. IF i \in Live(manifest.files)
        THEN i \in Live(files) /\ files[i].name = manifest.files[i].name
        ELSE files[i] = manifest.files[i]
    BY <1>1 DEF UpdateOK
  <2>3. CASE i = ReadSlot
    <3>1. Known
      BY <2>1, <2>3, ReadSlotAs
    <3>2. i \in Live(manifest.files) /\ files[i].name = file
      BY <2>3, <3>1, ReadSlotAs
    <3> QED BY <2>2, <2>3, <3>2, ReadEntries
  <2>4. CASE i # ReadSlot
    BY <2>1, <2>2, <2>4, ReadEntries
  <2> QED BY <2>3, <2>4
<1>6. ASSUME NEW k \in Dels' \cup Adds'
      PROVE  Carded(k[2])'
  <2>1. CASE k \in Dels \cup Adds
    BY <1>1, <2>1, ReadPlan DEF UpdateOK
  <2>2. CASE k \notin Dels \cup Adds
    <3>1. k[2] = ReadSlot
      BY <1>6, <2>2, ReadPlan DEF KeysOf
    <3> QED BY <3>1, ReadPlan
  <2> QED BY <2>1, <2>2
<1> QED BY <1>1, <1>3, <1>4, <1>5, <1>6 DEF UpdateOK

\* In a calm run the file whose turn it is is there, and new unless known.
LEMMA CalmTurn ==
  ASSUME IInv, ReadFile, ~moved
  PROVE  /\ CalmPlan /\ Present(file) /\ corpus[file].ver = ver
         /\ op = "update" => /\ NewAt(turn) <=> ~Known
                             /\ ~Known => Rank(turn) = ReadSlot
                             /\ LogOK
<1>1. CalmPlan /\ (op = "update" => LogOK /\ UpdateOK)
  BY ReadFrame DEF IInv, PlanOK
<1>2. corpus[file].ver = ver /\ ver # 0 /\ Present(file)
  BY <1>1, ReadAs, ReadFrame DEF CalmPlan, Present
<1>3. ASSUME op = "update", ~Known
      PROVE  NewAt(turn)
  <2>1. ASSUME NEW j \in Live(manifest.files), manifest.files[j].name = file
        PROVE  FALSE
    <3>1. j \in Live(files) /\ files[j].name = file
      BY <1>1, <1>3, <2>1 DEF UpdateOK, Live
    <3> QED BY <1>3, <3>1 DEF Known, IsLive
  <2> QED BY <1>2, <2>1, ReadFrame DEF NewAt, IsLive
<1>4. op = "update" => (NewAt(turn) <=> ~Known)
  BY <1>3, ReadSlotAs
<1>5. op = "update" /\ ~Known => Rank(turn) = ReadSlot
  BY <1>1, <1>4, ReadFrame, ReadSlotAs, TurnHasNextRank
<1> QED BY <1>1, <1>2, <1>4, <1>5

LEMMA SameNews ==
  ASSUME UNCHANGED <<corpus, manifest>>
  PROVE  /\ \A p : (NewAt(p)' <=> NewAt(p)) /\ Rank(p)' = Rank(p)
         /\ \A k : Awaited(k)' <=> Awaited(k)
         /\ \A i : (Fresh(i)' <=> Fresh(i)) /\ Wanted(i)' = Wanted(i)
<1>1. \A p : NewAt(p)' <=> NewAt(p)
  BY DEF NewAt, Present
<1>2. \A p : Rank(p)' = Rank(p)
  BY <1>1 DEF Rank
<1> QED BY <1>1, <1>2 DEF Awaited, Fresh, Wanted

LEMMA ReadCalm ==
  ASSUME IInv, ReadFile, ~moved
  PROVE  CalmPlan'
<1>1. CalmPlan /\ Present(file) /\ corpus[file].ver = ver
  BY CalmTurn
<1>2. /\ pc' = "stat" /\ UNCHANGED <<corpus, manifest, disk, op>> /\ todo' = todo \ {turn}
      /\ turn \in todo /\ turn \in Places
  BY ReadAs, ReadFrame
<1>3. Handled' = Handled \cup {turn} /\ turn \notin Handled
  BY <1>2 DEF Handled
<1>4. /\ \A p : (NewAt(p)' <=> NewAt(p)) /\ Rank(p)' = Rank(p)
      /\ \A f : Present(f)' <=> Present(f)
  BY <1>2, SameNews DEF Present
<1>5. ASSUME NEW p \in Handled', Present(Files[p])'
      PROVE  /\ \A q \in todo' : p < q
             /\ \E i \in Live(files') : files'[i].name = Files[p] /\ files'[i].ver = corpus'[Files[p]].ver
  <2>1. CASE p = turn
    <3>1. \A q \in todo' : p < q
      BY <1>2, <2>1, ReadFrame
    <3> QED BY <1>1, <1>2, <2>1, <3>1, ReadEntries, ReadFrame
  <2>2. CASE p \in Handled
    <3>1. \A q \in todo' : p < q
      BY <1>1, <1>2, <1>4, <1>5, <2>2 DEF CalmPlan
    <3>2. PICK i \in Live(files) : files[i].name = Files[p] /\ files[i].ver = corpus[Files[p]].ver
      BY <1>1, <1>4, <1>5, <2>2 DEF CalmPlan
    <3>3. i # ReadSlot
      <4>1. Files[p] # file
        BY <1>2, <1>3, <2>2, FilesFacts, ReadFrame DEF Handled
      <4> QED BY <3>2, <4>1, ReadSlotAs DEF Live
    <3>4. i \in Live(files') /\ files'[i] = files[i]
      BY <3>3, ReadEntries DEF Live
    <3> QED BY <1>2, <3>1, <3>2, <3>4
  <2> QED BY <1>3, <1>5, <2>1, <2>2
<1>6. ASSUME op = "update"
      PROVE  /\ Len(files') = Len(manifest'.files) + Cardinality({p \in Handled' : NewAt(p)'})
             /\ \A p \in Handled' : NewAt(p)' =>
                  Rank(p)' \in Live(files') /\ files'[Rank(p)'].name = Files[p]
  <2>1. /\ NewAt(turn) <=> ~Known
        /\ ~Known => Rank(turn) = ReadSlot
    BY <1>6, CalmTurn
  <2>2. PICK H : H = {p \in Handled : NewAt(p)}
    OBVIOUS
  <2>3. PICK G : G = {p \in Handled' : NewAt(p)'}
    OBVIOUS
  <2>4. Len(files) = Len(manifest.files) + Cardinality(H)
        /\ \A p \in Handled : NewAt(p) => Rank(p) \in Live(files) /\ files[Rank(p)].name = Files[p]
    BY <1>1, <1>6, <2>2 DEF CalmPlan
  <2>5. IsFiniteSet(H)
    <3>1. H \in SUBSET Places
      BY <2>2 DEF Handled
    <3>2. IsFiniteSet(Places)
      <4>1. Len(Files) \in Nat /\ Places = 1..Len(Files)
        BY FilesFacts
      <4>2. 1 \in Int /\ Len(Files) \in Int
        BY <4>1
      <4> QED BY <4>1, <4>2, FS_Interval
    <3> QED BY <3>1, <3>2, NoneMore
  <2>6. Len(files') = Len(manifest.files) + Cardinality(G)
    <3>1. CASE Known
      <4>1. G = H
        BY <1>3, <1>4, <2>1, <2>2, <2>3, <3>1
      <4> QED BY <2>4, <3>1, <4>1, ReadEntries
    <3>2. CASE ~Known
      <4>1. G = H \cup {turn} /\ turn \notin H
        BY <1>3, <1>4, <2>1, <2>2, <2>3, <3>2
      <4>2. Cardinality(G) = Cardinality(H) + 1 /\ Cardinality(H) \in Nat
        BY <2>5, <4>1, FS_AddElement, FS_CardinalityType
      <4>3. Len(files') = Len(files) + 1 /\ Len(manifest.files) \in Nat
        BY <3>2, ReadEntries, EntryOfLive DEF IInv, TypesOK, StoreOK, EntriesOK
      <4>4. Len(files) = Len(manifest.files) + Cardinality(H)
        BY <2>4
      <4>5. PICK a \in Nat : a = Len(manifest.files)
        BY <4>3
      <4>6. PICK b \in Nat : b = Cardinality(H)
        BY <4>2
      <4>7. Len(files') = (a + b) + 1 /\ Cardinality(G) = b + 1
        BY <4>2, <4>3, <4>4, <4>5, <4>6
      <4>8. (a + b) + 1 = a + (b + 1)
        OBVIOUS
      <4> QED BY <4>5, <4>7, <4>8
    <3> QED BY <3>1, <3>2
  <2>7. ASSUME NEW p \in Handled', NewAt(p)
        PROVE  Rank(p) \in Live(files') /\ files'[Rank(p)].name = Files[p]
    <3>1. CASE p = turn
      <4>1. ReadSlot = Rank(p)
        BY <2>1, <2>7, <3>1
      <4> QED BY <3>1, <4>1, ReadEntries, ReadFrame
    <3>2. CASE p \in Handled
      <4>1. PICK r : r = Rank(p)
        OBVIOUS
      <4>2. r \in Live(files) /\ files[r].name = Files[p]
        BY <2>4, <2>7, <3>2, <4>1
      <4>3. files'[r].name = files[r].name
        <5>1. CASE r = ReadSlot
          <6>1. Known /\ files[r].name = file
            BY <4>2, <5>1, ReadSlotAs DEF Live
          <6> QED BY <5>1, <6>1, ReadEntries
        <5>2. CASE r # ReadSlot
          BY <4>2, <5>2, ReadEntries DEF Live
        <5> QED BY <5>1, <5>2
      <4> QED BY <4>1, <4>2, <4>3, ReadEntries
    <3> QED BY <1>3, <2>7, <3>1, <3>2
  <2> QED BY <1>2, <1>4, <2>3, <2>6, <2>7
<1>7. disk' = {f \in Paths : Present(f)'}
  <2>1. disk = {f \in Paths : Present(f)}
    BY <1>1 DEF CalmPlan
  <2> QED BY <1>2, <1>4, <2>1
<1> QED BY <1>2, <1>5, <1>6, <1>7 DEF CalmPlan

LEMMA ReadLog ==
  ASSUME IInv, ReadFile, ~moved, op = "update"
  PROVE  LogOK'
<1>1. /\ LogOK /\ CalmPlan /\ Present(file) /\ corpus[file].ver = ver
      /\ NewAt(turn) <=> ~Known
      /\ ~Known => Rank(turn) = ReadSlot
  BY CalmTurn
<1>2. UNCHANGED <<corpus, manifest, gone>>
  BY ReadAs, ReadFrame
<1>3. /\ \A k : Awaited(k)' <=> Awaited(k)
      /\ \A i : (Fresh(i)' <=> Fresh(i)) /\ Wanted(i)' = Wanted(i)
  BY <1>2, SameNews
<1>4. ASSUME Known
      PROVE  ReadSlot \in Live(manifest.files) /\ ~Fresh(ReadSlot) /\ Wanted(ReadSlot) = ReadNew
  <2>1. /\ ReadSlot \in Live(manifest.files) /\ ReadSlot \in Live(files)
        /\ files[ReadSlot].name = file /\ files[ReadSlot] = manifest.files[ReadSlot]
    BY <1>4, ReadSlotAs
  <2>2. files[ReadSlot].ver # ver
    BY <2>1, ReadFrame
  <2> QED BY <1>1, <2>1, <2>2 DEF Fresh, Wanted, ReadNew
<1>5. ASSUME ~Known
      PROVE  ReadOld = {} /\ ReadSlot \notin Live(manifest.files)
             /\ \A w \in ReadNew : Awaited(<<w, ReadSlot>>)
  <2>1. ReadOld = {}
    BY <1>5 DEF ReadOld
  <2>2. ReadSlot \notin Live(manifest.files)
    <3>1. UpdateOK
      BY ReadFrame DEF IInv, PlanOK
    <3>2. DOMAIN manifest.files \subseteq DOMAIN files
      <4>1. Len(manifest.files) <= Len(files)
        BY <3>1 DEF UpdateOK
      <4>2. DOMAIN files = 1..Len(files) /\ Len(files) \in Nat
        BY ReadSlotAs
      <4>3. DOMAIN manifest.files = 1..Len(manifest.files) /\ Len(manifest.files) \in Nat
        BY EntryOfLive DEF IInv, TypesOK, StoreOK, EntriesOK
      <4> QED BY <4>1, <4>2, <4>3
    <3> QED BY <1>5, <3>2, ReadSlotAs DEF Live
  <2>3. ASSUME NEW w \in ReadNew
        PROVE  Awaited(<<w, ReadSlot>>)
    <3>1. PICK k : k = <<w, ReadSlot>>
      OBVIOUS
    <3>2. k[1] = w /\ k[2] = ReadSlot
      BY <3>1
    <3>3. NewAt(turn) /\ Rank(turn) = k[2] /\ k[1] \in corpus[Files[turn]].words
      BY <1>1, <1>5, <2>3, <3>2, ReadFrame DEF ReadNew
    <3> QED BY <3>1, <3>3, ReadFrame DEF Awaited
  <2> QED BY <2>1, <2>2, <2>3
<1>6. ASSUME NEW k \in Dels'
      PROVE  k[2] \in Live(manifest.files) /\ ~Fresh(k[2]) /\ k[1] \notin Wanted(k[2])
  <2>1. CASE k \in Dels
    BY <1>1, <2>1 DEF LogOK
  <2>2. CASE k \notin Dels
    <3>1. k[1] \in ReadOld \ ReadNew /\ k[2] = ReadSlot
      BY <1>6, <2>2, ReadPlan DEF KeysOf
    <3> QED BY <1>4, <1>5, <3>1
  <2> QED BY <2>1, <2>2
<1>7. ASSUME NEW k \in Adds'
      PROVE  \/ k[2] \in Live(manifest.files) /\ ~Fresh(k[2]) /\ k[1] \in Wanted(k[2])
             \/ Awaited(k)
  <2>1. CASE k \in Adds
    BY <1>1, <2>1 DEF LogOK
  <2>2. CASE k \notin Adds
    <3>1. k[1] \in ReadNew \ ReadOld /\ k[2] = ReadSlot /\ k = <<k[1], k[2]>>
      BY <1>7, <2>2, ReadPlan DEF KeysOf
    <3> QED BY <1>4, <1>5, <3>1
  <2> QED BY <2>1, <2>2
<1>8. ASSUME NEW c \in Range(cards'), c.slot \in Live(manifest.files)
      PROVE  ~Fresh(c.slot) /\ c.words = Wanted(c.slot)
  <2>1. CASE c \in Range(cards)
    BY <1>1, <1>8, <2>1 DEF LogOK
  <2>2. CASE c \notin Range(cards)
    <3>1. c.slot = ReadSlot /\ c.words = ReadNew
      BY <1>8, <2>2, ReadPlan
    <3> QED BY <1>4, <1>5, <1>8, <3>1
  <2> QED BY <2>1, <2>2
<1>9. \A i \in gone' : i \in Live(manifest'.files) => ~Present(manifest.files[i].name)'
  BY <1>1, <1>2 DEF LogOK, Present
<1> QED BY <1>2, <1>3, <1>6, <1>7, <1>8, <1>9 DEF LogOK

LEMMA ReadStep ==
  ASSUME IInv, ReadFile
  PROVE  IInv'
<1>1. pc \in Planning /\ pc' = "stat" /\ UNCHANGED <<disk, op, gone, moved>> /\ todo' = todo \ {turn}
      /\ PlanOK /\ ver' = 0
  BY ReadAs, ReadFrame DEF IInv
<1>2. TypesOK'
  <2>1. 0 \in 0..clock'
    BY ReadFrame
  <2>2. EntriesOK(clock', files')
    BY ReadEntries, ReadFrame
  <2>3. RunOK'
    BY <1>1, <2>1, <2>2, ReadPlan DEF IInv, TypesOK, RunOK
  <2> QED BY <2>3, ReadFrame DEF TypesOK
<1>3. PhaseOK'
  BY <1>1, ReadFrame, ReadAs
     DEF IInv, PhaseOK, Pcs, Planning, Ending, Rebuilding, Resting, FoldPcs
<1>4. \A c \in Range(cards') :
         files'[c.slot].name \in disk' /\ \A p \in todo' : files'[c.slot].name # Files[p]
  <2>1. ASSUME NEW c \in Range(cards')
        PROVE  files'[c.slot].name \in disk' /\ \A p \in todo' : files'[c.slot].name # Files[p]
    <3>1. CASE c \in Range(cards)
      <4>1. c.slot \in Live(files) /\ c.slot # ReadSlot
        BY <3>1, ReadFrame, ReadSlotAs DEF CardsOK, Carded
      <4>2. files'[c.slot] = files[c.slot]
        BY <4>1, ReadEntries DEF Live
      <4> QED BY <1>1, <3>1, <4>2 DEF PlanOK
    <3>2. CASE c \notin Range(cards)
      <4>1. files'[c.slot].name = file
        BY <2>1, <3>2, ReadPlan, ReadEntries
      <4>2. \A p \in todo' : Files[p] # file
        <5>1. todo \subseteq Places
          BY DEF IInv, TypesOK, RunOK
        <5> QED BY <1>1, <5>1, ReadFrame, FilesFacts
      <4> QED BY <1>1, <4>1, <4>2, ReadFrame
    <3> QED BY <3>1, <3>2
  <2> QED BY <2>1
<1>5. PlanOK'
  <2>1. \A p \in todo' : Files[p] \in disk'
    BY <1>1 DEF PlanOK
  <2>2. IF op' = "build" THEN BuildOK' ELSE UpdateOK'
    BY <1>1, ReadFrame, ReadBuild, ReadUpdate
  <2>3. ~moved' => CalmPlan' /\ (op' = "update" => LogOK')
    BY <1>1, ReadCalm, ReadLog
  <2> QED BY <1>1, <1>4, <2>1, <2>2, <2>3, ReadCards DEF PlanOK
<1> QED BY <1>2, <1>3, <1>5, ReadFits, ReadFrame DEF IInv

-----------------------------------------------------------------------------
(* TombstonePass: the run knows the index it will leave behind.            *)

Dead == {i \in Live(files) : files[i].name \notin disk}
Lost == UNION {KeysOf(i, sidecars[i]) : i \in Dead}

\* An update that plans nothing has found the manifest to be current.
LEMMA NothingToDo ==
  ASSUME IInv, pc = "stat", todo = {}, op = "update", cards = <<>>, Dead = {}, ~moved
  PROVE  Current(manifest.files)
<1>1. PlanOK /\ UpdateOK /\ CalmPlan
  BY DEF IInv, PlanOK, Planning
<1>2. files = manifest.files
  <2>1. /\ files \in Seq(Entry) /\ manifest.files \in Seq(Entry)
        /\ DOMAIN files = 1..Len(files) /\ Len(files) \in Nat
        /\ DOMAIN manifest.files = 1..Len(manifest.files) /\ Len(manifest.files) \in Nat
    BY EntryOfLive DEF IInv, TypesOK, StoreOK, RunOK, EntriesOK
  <2>2. \A i \in DOMAIN files : i \in DOMAIN manifest.files /\ files[i] = manifest.files[i]
    BY <1>1, EmptyPlan DEF UpdateOK, Carded
  <2>3. Len(files) = Len(manifest.files)
    <3>1. Len(manifest.files) <= Len(files)
      BY <1>1 DEF UpdateOK
    <3>2. CASE Len(files) = 0
      BY <2>1, <3>1, <3>2
    <3>3. CASE Len(files) # 0
      <4>1. Len(files) \in DOMAIN files
        BY <2>1, <3>3
      <4>2. Len(files) \in 1..Len(manifest.files)
        BY <2>1, <2>2, <4>1
      <4> QED BY <2>1, <3>1, <4>2
    <3> QED BY <3>2, <3>3
  <2>4. \A i \in 1..Len(files) : files[i] = manifest.files[i]
    BY <2>1, <2>2
  <2> QED BY <2>1, <2>3, <2>4, SeqEqual
<1>3. \A p \in Places : p \in Handled
  BY DEF Handled
<1>4. ASSUME NEW f \in Paths, Present(f)
      PROVE  \E i \in Live(files) : files[i].name = f /\ files[i].ver = corpus[f].ver
  <2>1. PICK p \in Places : f = Files[p]
    BY FilesFacts
  <2> QED BY <1>1, <1>3, <1>4, <2>1 DEF CalmPlan
<1>5. ASSUME NEW i \in Live(files)
      PROVE  files[i].ver = corpus[files[i].name].ver
  <2>1. files[i].name \in disk /\ disk = {f \in Paths : Present(f)}
    BY <1>1, <1>5 DEF Dead, CalmPlan
  <2>2. PICK j \in Live(files) :
           files[j].name = files[i].name /\ files[j].ver = corpus[files[i].name].ver
    BY <1>4, <2>1
  <2>3. i = j
    BY <2>2 DEF IInv, TypesOK, RunOK, EntriesOK
  <2> QED BY <2>2, <2>3
<1> QED BY <1>2, <1>4, <1>5 DEF Current, IsLive

LEMMA TombstoneAs ==
  ASSUME TombstonePass
  PROVE  /\ pc = "stat" /\ todo = {} /\ UNCHANGED <<world, store>>
         /\ \/ /\ op = "update" /\ cards = <<>> /\ Dead = {} /\ Release
               /\ settled' = ~moved /\ UNCHANGED <<faults, gap, damaged>>
            \/ /\ pc' = IF op = "build" THEN "rebase" ELSE "commit"
               /\ gone' = Dead
               /\ files' = [i \in DOMAIN files |-> IF i \in Dead THEN Tombstone ELSE files[i]]
               /\ log' = IF op = "build" THEN <<>>
                         ELSE IF Lost = {} THEN log
                         ELSE Append(log, [del |-> Lost, add |-> {}])
               /\ UNCHANGED <<op, todo, disk, ver, cards, history>>
BY DEF TombstonePass, Go, Dead, Lost

\* The second outcome of TombstonePass.
PassEnds ==
    /\ pc = "stat" /\ todo = {} /\ UNCHANGED <<world, store>>
    /\ pc' = IF op = "build" THEN "rebase" ELSE "commit"
    /\ gone' = Dead
    /\ files' = [i \in DOMAIN files |-> IF i \in Dead THEN Tombstone ELSE files[i]]
    /\ log' = IF op = "build" THEN <<>>
              ELSE IF Lost = {} THEN log
              ELSE Append(log, [del |-> Lost, add |-> {}])
    /\ UNCHANGED <<op, todo, disk, ver, cards, history>>

LEMMA PassFrame ==
  ASSUME IInv, PassEnds
  PROVE  /\ UNCHANGED <<corpus, clock, fst, wal, sidecars, manifest, moved, settled, gap, damaged,
                        op, todo, disk, ver, cards>>
         /\ SameIndex /\ WorldOK' /\ StoreOK' /\ HistoryOK' /\ RestOK' /\ SettledOK'
         /\ Fits(<<>>, 0)' /\ Fits(manifest.files, 0)'
         /\ pc \in Planning /\ op \in {"update", "build"}
         /\ op = "build" => pc' = "rebase" /\ BuildOK
         /\ op = "update" => pc' = "commit" /\ UpdateOK
         /\ CardsOK /\ ReadOK
         /\ \A c \in Range(cards) : files[c.slot].name \in disk
         /\ ~moved => CalmPlan /\ (op = "update" => LogOK)
<1>1. UNCHANGED <<corpus, clock, fst, wal, sidecars, manifest, moved, settled, gap, damaged,
                  op, todo, disk, ver, cards>>
  BY DEF PassEnds, world, store, history
<1>2. SameIndex
  BY <1>1, SameLayers DEF SameIndex
<1>3. pc \in Planning /\ pc = "stat" /\ pc' \in {"rebase", "commit"}
  BY DEF PassEnds, Planning
<1>4. op \in {"update", "build"}
  BY <1>3 DEF IInv, PhaseOK
<1>5. WorldOK' /\ StoreOK'
  BY QuietTypes DEF PassEnds
<1>6. HistoryOK'
  BY <1>1 DEF IInv, TypesOK, HistoryOK
<1>7. RestOK'
  BY <1>1, <1>2, <1>3, QuietRest
<1>8. SettledOK' /\ Fits(<<>>, 0)' /\ Fits(manifest.files, 0)'
  BY <1>1, QuietSettled, QuietFits DEF PassEnds
<1>9. /\ CardsOK /\ ReadOK
      /\ \A c \in Range(cards) : files[c.slot].name \in disk
      /\ ~moved => CalmPlan /\ (op = "update" => LogOK)
      /\ op = "build" => BuildOK
      /\ op = "update" => UpdateOK
  BY <1>3 DEF IInv, PlanOK
<1>10. (op = "build" => pc' = "rebase") /\ (op = "update" => pc' = "commit")
  BY DEF PassEnds
<1> QED BY <1>1, <1>2, <1>3, <1>4, <1>5, <1>6, <1>7, <1>8, <1>9, <1>10

LEMMA PassEntries ==
  ASSUME IInv, PassEnds
  PROVE  /\ EntriesOK(clock, files') /\ Len(files') = Len(files)
         /\ Live(files') = Live(files) \ Dead
         /\ \A i \in Live(files') : files'[i] = files[i] /\ files[i].name \in disk
         /\ Dead \subseteq Live(files)
         /\ \A i \in Live(files) : i \in DOMAIN files /\ i \in Slots
         /\ \A i \in Dead : ~Carded(i)
<1>1. EntriesOK(clock, files) /\ files \in Seq(Entry)
  BY DEF IInv, TypesOK, RunOK, EntriesOK
<1>2. DOMAIN files = 1..Len(files) /\ Len(files) \in Nat /\ \A i \in DOMAIN files : files[i] \in Entry
  BY <1>1, EntryOfLive
<1>3. PICK t : t = Tombstone
  OBVIOUS
<1>4. t \in Entry /\ t.tombstoned
  BY <1>3 DEF Tombstone, Entry
<1>5. files' = [i \in 1..Len(files) |-> IF i \in Dead THEN t ELSE files[i]]
  BY <1>2, <1>3 DEF PassEnds
<1>6. files' \in Seq(Entry) /\ DOMAIN files' = 1..Len(files) /\ Len(files') = Len(files)
  <2>1. \A i \in 1..Len(files) : (IF i \in Dead THEN t ELSE files[i]) \in Entry
    BY <1>2, <1>4
  <2>2. files' \in [1..Len(files) -> Entry]
    BY <1>5, <2>1
  <2>3. files' \in Seq(Entry)
    BY <1>2, <2>2, SeqDef
  <2>4. DOMAIN files' = 1..Len(files)
    BY <1>5
  <2>5. DOMAIN files' = 1..Len(files') /\ Len(files') \in Nat
    BY <2>3, LenProperties
  <2>6. Len(files') = Len(files)
    BY <1>2, <2>4, <2>5
  <2> QED BY <2>3, <2>4, <2>6
<1>7. Dead \subseteq Live(files)
  BY DEF Dead
<1>8. Live(files') = Live(files) \ Dead
  BY <1>2, <1>4, <1>5, <1>6 DEF Live
<1>9. \A i \in Live(files') : files'[i] = files[i] /\ files[i].name \in disk
  BY <1>5, <1>6, <1>8 DEF Live, Dead
<1>10. EntriesOK(clock, files')
  BY <1>1, <1>6, <1>8, <1>9 DEF EntriesOK
<1>11. \A i \in Live(files) : i \in DOMAIN files /\ i \in Slots
  <2>1. Len(files) <= MaxWrites
    <3>1. PICK U : U = Unindexed(corpus, files)
      OBVIOUS
    <3>2. Cardinality(U) \in Nat
      BY <3>1, UnindexedFinite
    <3>3. Len(files) + Cardinality(U) + Behind <= clock /\ Behind \in {0, 1}
      BY <3>1 DEF IInv, FitsOK, Fits, Behind
    <3>4. clock \in 0..MaxWrites /\ MaxWrites \in Nat
      BY BoundsAssumption DEF IInv, TypesOK, WorldOK
    <3> QED BY <1>2, <3>2, <3>3, <3>4
  <2>2. MaxWrites \in Nat
    BY BoundsAssumption
  <2> QED BY <1>2, <2>1, <2>2 DEF Live, Slots
<1>12. \A i \in Dead : ~Carded(i)
  BY PassFrame DEF Dead, Carded
<1> QED BY <1>6, <1>7, <1>8, <1>9, <1>10, <1>11, <1>12

LEMMA LostKeys ==
  ASSUME IInv, PassEnds
  PROVE  /\ Lost \subseteq Keys
         /\ \A k \in Lost : k[2] \in Dead /\ k[1] \in sidecars[k[2]]
         /\ \A i \in Dead : \A w \in sidecars[i] : <<w, i>> \in Lost
<1>1. \A i \in Dead : i \in Slots /\ sidecars[i] \in SUBSET Words
  BY PassEntries DEF IInv, TypesOK, StoreOK
<1>2. Lost \subseteq Keys
  BY <1>1 DEF Lost, KeysOf, Keys
<1>3. \A k \in Lost : k[2] \in Dead /\ k[1] \in sidecars[k[2]]
  BY DEF Lost, KeysOf
<1>4. \A i \in Dead : \A w \in sidecars[i] : <<w, i>> \in Lost
  BY DEF Lost, KeysOf
<1> QED BY <1>2, <1>3, <1>4

LEMMA PassLog ==
  ASSUME IInv, PassEnds
  PROVE  /\ log' \in Seq(Record)
         /\ op = "update" => Dels' = Dels \cup Lost /\ Adds' = Adds
         /\ op = "build" => log' = <<>> /\ Dels' = {} /\ Adds' = {}
         /\ CardKeys' = CardKeys /\ \A i : Carded(i)' <=> Carded(i)
<1>1. CardKeys' = CardKeys /\ \A i : Carded(i)' <=> Carded(i)
  BY PassFrame DEF CardKeys, Carded
<1>2. log \in Seq(Record) /\ <<>> \in Seq(Record)
  BY EmptySeq DEF IInv, TypesOK, RunOK
<1>3. op = "build" => log' = <<>> /\ Dels' = {} /\ Adds' = {}
  BY EmptyPlan DEF PassEnds, Dels, Adds
<1>4. PICK r : r = [del |-> Lost, add |-> {}]
  OBVIOUS
<1>5. r.del = Lost /\ r.add = {} /\ r \in Record
  BY <1>4, LostKeys DEF Record
<1>6. op = "update" /\ Lost = {} => log' = log
  BY DEF PassEnds
<1>7. op = "update" /\ Lost # {} => log' = Append(log, r)
  BY <1>4 DEF PassEnds
<1>8. op = "update" => log' \in Seq(Record) /\ Dels' = Dels \cup Lost /\ Adds' = Adds
  <2>1. CASE op = "update" /\ Lost = {}
    BY <1>2, <1>6, <2>1 DEF Dels, Adds
  <2>2. CASE op = "update" /\ Lost # {}
    <3>1. log' \in Seq(Record)
      BY <1>2, <1>5, <1>7, <2>2, AppendProperties
    <3>2. DelsOf(log') = DelsOf(log) \cup r.del /\ AddsOf(log') = AddsOf(log) \cup r.add
      BY <1>2, <1>5, <1>7, <2>2, LogOfAppend
    <3> QED BY <1>5, <3>1, <3>2 DEF Dels, Adds
  <2> QED BY <2>1, <2>2
<1> QED BY <1>1, <1>2, <1>3, <1>8, PassFrame

LEMMA KeysArePairs ==
  ASSUME TypesOK
  PROVE  /\ View \subseteq Keys /\ Dels \subseteq Keys /\ Adds \subseteq Keys /\ CardKeys \subseteq Keys
         /\ Outcome \subseteq Keys
         /\ \A k \in Keys : k = <<k[1], k[2]>> /\ k[1] \in Words /\ k[2] \in Slots
<1>1. View \subseteq Keys
  BY DEF TypesOK, StoreOK, View
<1>2. Dels \subseteq Keys /\ Adds \subseteq Keys /\ CardKeys \subseteq Keys
  BY RecordsAreRecords, CardsAreCards DEF TypesOK, RunOK, Dels, Adds, CardKeys
<1>3. Outcome \subseteq Keys
  BY <1>1, <1>2 DEF Outcome
<1>4. \A k \in Keys : k = <<k[1], k[2]>> /\ k[1] \in Words /\ k[2] \in Slots
  BY DEF Keys
<1> QED BY <1>1, <1>2, <1>3, <1>4

LEMMA SameNewsOfFiles ==
  ASSUME UNCHANGED <<corpus, manifest>>
  PROVE  /\ \A k : Awaited(k)' <=> Awaited(k)
         /\ \A i : (Fresh(i)' <=> Fresh(i)) /\ Wanted(i)' = Wanted(i)
         /\ \A f : Present(f)' <=> Present(f)
BY DEF Awaited, NewAt, Rank, Present, Fresh, Wanted

LEMMA PassOutcome ==
  ASSUME IInv, PassEnds
  PROVE  /\ op = "build" => Outcome' = CardKeys /\ Outcome = CardKeys
         /\ op = "update" => \A k : k \in Outcome' <=> k \in Outcome /\ k \notin Lost
         /\ op = "update" => \A k : k \in Outcome' <=> (k \in View /\ k \notin Dels /\ k \notin Lost) \/ k \in Adds
         /\ op = "update" => \A k \in Lost : k \notin Adds /\ k \notin Dels
         /\ \A i : i \notin Dead => WillShow(i)' = WillShow(i)
         /\ (Excused' <=> Excused) /\ (Sound' <=> Sound) /\ (op = "build" => ~Excused)
         /\ op = "update" => (Excused <=> damaged)
<1>1. View' = View /\ pc = "stat"
  BY PassFrame DEF SameIndex, PassEnds
<1>2. op = "build" => Outcome' = CardKeys /\ Outcome = CardKeys
  BY <1>1, PassFrame, PassLog DEF Outcome
<1>3. op = "update" => \A k \in Lost : k \notin Adds /\ k \notin Dels
  <2>1. op = "update" => \A k \in Dels \cup Adds : Carded(k[2])
    BY PassFrame DEF UpdateOK
  <2>2. \A k \in Lost : ~Carded(k[2])
    BY LostKeys, PassEntries
  <2> QED BY <2>1, <2>2
<1>4. op = "update" => Outcome' = (View \ (Dels \cup Lost)) \cup Adds /\ Outcome = (View \ Dels) \cup Adds
  BY <1>1, PassFrame, PassLog DEF Outcome
<1>5. op = "update" => \A k : k \in Outcome' <=> k \in Outcome /\ k \notin Lost
  BY <1>3, <1>4
<1>6. ASSUME NEW i, i \notin Dead
      PROVE  WillShow(i)' = WillShow(i)
  <2>1. \A w : <<w, i>> \notin Lost
    <3>1. \A w : <<w, i>>[2] = i
      OBVIOUS
    <3> QED BY <1>6, <3>1, LostKeys
  <2>2. \A w : <<w, i>> \in Outcome' <=> <<w, i>> \in Outcome
    BY <1>2, <1>5, <2>1, PassFrame
  <2> QED BY <2>2 DEF WillShow
<1>7. (Excused' <=> Excused) /\ (Sound' <=> Sound) /\ (op = "build" => ~Excused)
  BY <1>1, PassFrame DEF Excused, Sound
<1>8. op = "update" => (Excused <=> damaged)
  BY DEF Excused
<1>9. op = "update" => \A k : k \in Outcome' <=> (k \in View /\ k \notin Dels /\ k \notin Lost) \/ k \in Adds
  BY <1>4
<1> QED BY <1>2, <1>3, <1>5, <1>6, <1>7, <1>8, <1>9

LEMMA PassCards ==
  ASSUME IInv, PassEnds
  PROVE  CardsOK'
<1>1. CardsOK /\ UNCHANGED cards /\ cards \in Seq(Card)
  BY PassFrame DEF IInv, TypesOK, RunOK
<1>2. ASSUME NEW c \in Range(cards)
      PROVE  c.slot \in Live(files') /\ (Sound' => WillBe(c.slot, c.words)')
  <2>1. PICK i : i = c.slot
    OBVIOUS
  <2>2. PICK ws : ws = c.words
    OBVIOUS
  <2>3. i \in Live(files) /\ (Sound => WillBe(i, ws)) /\ i \notin Dead
    BY <1>1, <2>1, <2>2, PassFrame DEF CardsOK, Dead
  <2>4. i \in Live(files')
    BY <2>3, PassEntries
  <2>5. Sound' => WillBe(i, ws)'
    BY <2>3, PassOutcome DEF WillBe
  <2> QED BY <2>1, <2>2, <2>4, <2>5
<1>3. op' = "update" => Dels' \cap Adds' = {}
  BY <1>1, PassFrame, PassLog, PassOutcome DEF CardsOK
<1> QED BY <1>1, <1>2, <1>3 DEF CardsOK

\* A slot that the run does not rewrite is that of the manifest.
LEMMA LeftAlone ==
  ASSUME IInv, PassEnds, NEW i \in Live(files), ~Carded(i)
  PROVE  /\ op = "update" /\ i \in Live(manifest.files) /\ files[i] = manifest.files[i]
         /\ WillShow(i) = Shown(i)
<1>1. op = "update"
  BY PassFrame DEF BuildOK, Live
<1>2. i \in Live(manifest.files) /\ files[i] = manifest.files[i]
  BY <1>1, PassFrame DEF UpdateOK, Live
<1>3. \A w : <<w, i>> \in Outcome <=> <<w, i>> \in View
  <2>1. \A w : <<w, i>> \notin Dels /\ <<w, i>> \notin Adds
    BY <1>1, PassFrame, NothingPlanned
  <2> QED BY <1>1, <2>1 DEF Outcome
<1> QED BY <1>1, <1>2, <1>3 DEF WillShow, Shown

\* What an undisturbed run knows of the files.
LEMMA CalmFiles ==
  ASSUME IInv, PassEnds, ~moved
  PROVE  /\ disk = {f \in Paths : Present(f)}
         /\ \A f \in Paths : Present(f) =>
               \E i \in Live(files') : files'[i].name = f /\ files'[i].ver = corpus[f].ver
         /\ \A i \in Live(files') : files'[i].ver = corpus[files'[i].name].ver
<1>1. CalmPlan
  BY PassFrame
<1>2. disk = {f \in Paths : Present(f)}
  BY <1>1 DEF CalmPlan
<1>3. Handled = Places
  BY DEF Handled, PassEnds
<1>4. ASSUME NEW f \in Paths, Present(f)
      PROVE  \E i \in Live(files') : files'[i].name = f /\ files'[i].ver = corpus[f].ver
  <2>1. PICK p \in Places : f = Files[p]
    BY FilesFacts
  <2>2. PICK i \in Live(files) : files[i].name = f /\ files[i].ver = corpus[f].ver
    BY <1>1, <1>3, <1>4, <2>1 DEF CalmPlan
  <2>3. i \notin Dead
    BY <1>2, <1>4, <2>2 DEF Dead
  <2>4. i \in Live(files') /\ files'[i] = files[i]
    BY <2>2, <2>3, PassEntries
  <2> QED BY <2>2, <2>4
<1>5. ASSUME NEW i \in Live(files')
      PROVE  files'[i].ver = corpus[files'[i].name].ver
  <2>1. i \in Live(files) /\ files'[i] = files[i] /\ files[i].name \in disk
    BY PassEntries
  <2>2. files[i].name \in Paths /\ Present(files[i].name)
    BY <1>2, <2>1
  <2>3. PICK j \in Live(files') : files'[j].name = files[i].name
                                  /\ files'[j].ver = corpus[files[i].name].ver
    BY <1>4, <2>2
  <2>4. i = j
    BY <2>1, <2>3, PassEntries DEF EntriesOK
  <2> QED BY <2>1, <2>3, <2>4
<1> QED BY <1>2, <1>4, <1>5

\* What the index shows for the slots of an update's dead files is lost.
LEMMA DeadIsLost ==
  ASSUME IInv, PassEnds, op = "update", gap \in {"none", "open"}, ~damaged,
         NEW k \in View, k[2] \in Dead
  PROVE  k \in Lost
<1>1. PICK i : i = k[2]
  OBVIOUS
<1>2. PICK w : w = k[1]
  OBVIOUS
<1>3. k = <<w, i>> /\ w \in Words
  BY <1>1, <1>2, KeysArePairs DEF IInv
<1>4. w \in Shown(i)
  BY <1>3 DEF Shown
<1>5. i \in Live(files) /\ i \in Dead /\ ~Carded(i) /\ files[i].name \notin disk
  BY <1>1, PassEntries DEF Dead
<1>6. i \in Live(manifest.files) /\ files[i] = manifest.files[i]
  BY <1>5, LeftAlone
<1>7. (gap = "none" => NoneOK) /\ (gap = "open" => OpenOK /\ ~moved)
  BY PassFrame DEF IInv, RestOK, PhaseOK
<1>8. w \in sidecars[i]
  <2>1. CASE gap = "none"
    BY <1>4, <1>6, <1>7, <2>1 DEF NoneOK, SlotOK
  <2>2. CASE gap = "open"
    <3>1. manifest.files[i].name \in Paths
      BY <1>6 DEF IInv, TypesOK, StoreOK, EntriesOK
    <3>2. ~Present(manifest.files[i].name)
      BY <1>5, <1>6, <1>7, <2>2, <3>1, CalmFiles
    <3>3. Wanted(i) = {}
      BY <3>1, <3>2 DEF Wanted, Present, IInv, TypesOK, WorldOK
    <3>4. Shown(i) \subseteq sidecars[i] \cup Wanted(i)
      BY <1>6, <1>7, <2>2 DEF OpenOK, Toward
    <3> QED BY <1>4, <3>3, <3>4
  <2> QED BY <2>1, <2>2
<1> QED BY <1>3, <1>5, <1>8, LostKeys

LEMMA PassShowsLive ==
  ASSUME IInv, PassEnds, Sound, ~Excused
  PROVE  Outcome' \subseteq Words \X Live(files')
<1>1. ASSUME NEW k \in Outcome'
      PROVE  k \in Keys /\ k[2] \in Live(files')
  <2>1. \A i : Carded(i) => i \in Live(files')
    BY PassCards, PassLog DEF CardsOK, Carded
  <2>2. CASE op = "build"
    <3>1. k \in CardKeys /\ k \in Keys
      BY <1>1, <2>2, PassOutcome, KeysArePairs DEF IInv
    <3>2. Carded(k[2])
      BY <3>1 DEF CardKeys, KeysOfCards, Carded, KeysOf
    <3> QED BY <2>1, <3>1, <3>2
  <2>3. CASE op = "update"
    <3>1. gap \in {"none", "open"} /\ ~damaged /\ UpdateOK
      BY <2>3, PassOutcome, PassFrame DEF Sound
    <3>2. (k \in View /\ k \notin Lost) \/ k \in Adds
      BY <1>1, <2>3, PassOutcome
    <3>3. k \in Keys
      BY <3>2, KeysArePairs DEF IInv
    <3>4. CASE k \in Adds
      BY <2>1, <3>1, <3>3, <3>4 DEF UpdateOK
    <3>5. CASE k \in View /\ k \notin Lost
      <4>1. k[2] \notin Dead
        BY <2>3, <3>1, <3>5, DeadIsLost
      <4>2. (gap = "none" => NoneOK) /\ (gap = "open" => OpenOK /\ ~moved)
        BY PassFrame DEF IInv, RestOK, PhaseOK
      <4>3. CASE k[2] \in Live(manifest.files)
        <5>1. k[2] \in Live(files)
          BY <3>1, <4>3 DEF UpdateOK, Live
        <5> QED BY <3>3, <4>1, <5>1, PassEntries
      <4>4. CASE k[2] \notin Live(manifest.files)
        <5>1. gap = "open"
          BY <3>1, <3>5, <4>2, <4>4 DEF NoneOK
        <5>2. PICK p \in Places : NewAt(p) /\ Rank(p) = k[2]
          BY <3>1, <3>5, <4>2, <4>4, <5>1 DEF OpenOK, Awaited
        <5>3. CalmPlan /\ p \in Handled
          BY <4>2, <5>1, PassFrame DEF Handled, PassEnds
        <5>4. k[2] \in Live(files)
          BY <2>3, <5>2, <5>3 DEF CalmPlan
        <5> QED BY <3>3, <4>1, <5>4, PassEntries
      <4> QED BY <4>3, <4>4
    <3> QED BY <3>2, <3>4, <3>5
  <2> QED BY <2>2, <2>3, PassFrame
<1> QED BY <1>1, KeysArePairs DEF IInv

LEMMA PassSlots ==
  ASSUME IInv, PassEnds, Sound, NEW i \in Live(files')
  PROVE  /\ files'[i].ver = corpus[files'[i].name].ver => WillBe(i, corpus[files'[i].name].words)
         /\ ~Carded(i) => WillBe(i, sidecars[i]) \/ (sidecars[i] \subseteq WillShow(i) /\ damaged)
<1>1. i \in Live(files) /\ files'[i] = files[i] /\ i \notin Dead
  BY PassEntries
<1>2. PICK ws : ws = corpus[files[i].name].words
  OBVIOUS
<1>3. CASE Carded(i)
  <2>1. PICK c \in Range(cards) : c.slot = i
    BY <1>3 DEF Carded
  <2>2. files[i].ver = corpus[files[i].name].ver => c.words = ws
    BY <1>2, <2>1, PassFrame DEF ReadOK
  <2>3. WillBe(i, c.words)
    <3>1. PICK vs : vs = c.words
      OBVIOUS
    <3>2. WillBe(c.slot, c.words)
      BY <2>1, PassFrame DEF CardsOK
    <3> QED BY <2>1, <3>2
  <2> QED BY <1>1, <1>2, <1>3, <2>2, <2>3
<1>4. CASE ~Carded(i)
  <2>1. /\ op = "update" /\ i \in Live(manifest.files) /\ files[i] = manifest.files[i]
        /\ WillShow(i) = Shown(i)
    BY <1>1, <1>4, LeftAlone
  <2>2. (gap = "none" => NoneOK) /\ (gap = "open" => OpenOK /\ ~moved) /\ gap \in {"none", "open"}
    BY <2>1, PassFrame DEF IInv, RestOK, PhaseOK, Sound
  <2>3. Excused <=> damaged
    BY <2>1, PassOutcome
  <2>4. files[i].ver = corpus[files[i].name].ver => WillBe(i, ws)
    <3>1. ASSUME files[i].ver = corpus[files[i].name].ver
          PROVE  Shows(Shown(i), Wanted(i))
      BY <2>1, <2>2, <3>1 DEF NoneOK, OpenOK, Fresh
    <3>2. Wanted(i) = ws
      BY <1>2, <2>1 DEF Wanted
    <3> QED BY <2>1, <2>3, <3>1, <3>2 DEF Shows, WillBe
  <2>5. SlotOK(i)
    <3>1. CASE gap = "none"
      BY <2>1, <2>2, <3>1 DEF NoneOK
    <3>2. CASE gap = "open"
      <4>1. Fresh(i)
        BY <1>1, <2>1, <2>2, <3>2, CalmFiles DEF Fresh
      <4> QED BY <2>1, <2>2, <3>2, <4>1 DEF OpenOK
    <3> QED BY <2>2, <3>1, <3>2
  <2>6. WillBe(i, sidecars[i]) \/ (sidecars[i] \subseteq WillShow(i) /\ damaged)
    BY <2>1, <2>3, <2>5 DEF SlotOK, WillBe
  <2> QED BY <1>1, <1>2, <2>4, <2>6
<1> QED BY <1>3, <1>4

LEMMA PassLogOK ==
  ASSUME IInv, PassEnds, ~moved, op = "update"
  PROVE  LogOK'
<1>1. LogOK /\ UNCHANGED <<corpus, manifest, cards>>
  BY PassFrame
<1>2. /\ \A k : Awaited(k)' <=> Awaited(k)
      /\ \A i : (Fresh(i)' <=> Fresh(i)) /\ Wanted(i)' = Wanted(i)
      /\ \A f : Present(f)' <=> Present(f)
  BY <1>1, SameNewsOfFiles
<1>3. ASSUME NEW i \in Dead
      PROVE  /\ i \in Live(manifest.files) /\ ~Fresh(i) /\ Wanted(i) = {}
             /\ ~Present(manifest.files[i].name)
  <2>1. i \in Live(files) /\ ~Carded(i) /\ files[i].name \notin disk
    BY PassEntries DEF Dead
  <2>2. i \in Live(manifest.files) /\ files[i] = manifest.files[i]
    BY <2>1, LeftAlone
  <2>3. manifest.files[i].name \in Paths /\ manifest.files[i].ver \in 1..clock
    BY <2>2 DEF IInv, TypesOK, StoreOK, EntriesOK
  <2>4. ~Present(manifest.files[i].name)
    BY <2>1, <2>2, <2>3, CalmFiles
  <2>5. corpus[manifest.files[i].name].ver = 0 /\ Wanted(i) = {}
    BY <2>3, <2>4 DEF Present, Wanted, IInv, TypesOK, WorldOK
  <2>6. manifest.files[i].ver # 0
    BY <2>3
  <2> QED BY <2>2, <2>4, <2>5, <2>6 DEF Fresh
<1>4. ASSUME NEW k \in Dels'
      PROVE  k[2] \in Live(manifest.files) /\ ~Fresh(k[2]) /\ k[1] \notin Wanted(k[2])
  <2>1. CASE k \in Dels
    BY <1>1, <2>1 DEF LogOK
  <2>2. CASE k \in Lost
    BY <1>3, <2>2, LostKeys
  <2> QED BY <1>4, <2>1, <2>2, PassLog
<1>5. ASSUME NEW k \in Adds'
      PROVE  \/ k[2] \in Live(manifest.files) /\ ~Fresh(k[2]) /\ k[1] \in Wanted(k[2])
             \/ Awaited(k)
  <2>1. k \in Adds
    BY <1>5, PassLog
  <2> QED BY <1>1, <2>1 DEF LogOK
<1>6. \A c \in Range(cards) : c.slot \in Live(manifest.files) => ~Fresh(c.slot) /\ c.words = Wanted(c.slot)
  BY <1>1 DEF LogOK
<1>7. \A i \in gone' : i \in Live(manifest.files) => ~Present(manifest.files[i].name)
  BY <1>3 DEF PassEnds
<1> QED BY <1>1, <1>2, <1>4, <1>5, <1>6, <1>7 DEF LogOK

LEMMA PassEndOK ==
  ASSUME IInv, PassEnds
  PROVE  EndOK'
<1>1. gone' \cap Live(files') = {}
  BY PassEntries DEF PassEnds
<1>2. pc' \in Rebuilding => \A i \in Live(files') : Carded(i)'
  <2>1. pc' \in Rebuilding => op = "build"
    BY PassFrame DEF Rebuilding
  <2>2. op = "build" => \A i \in Live(files') : Carded(i)
    BY PassEntries, PassFrame DEF BuildOK, Live
  <2> QED BY <2>1, <2>2, PassLog
<1>3. pc' # "dropWal"
  BY PassFrame
<1>4. ASSUME Sound'
      PROVE  /\ \A i \in Live(files') :
                  /\ files'[i].ver = corpus'[files'[i].name].ver => WillBe(i, corpus[files[i].name].words)'
                  /\ ~Carded(i)' => WillBe(i, sidecars[i])' \/ (sidecars'[i] \subseteq WillShow(i)' /\ damaged')
             /\ Excused' \/ Outcome' \subseteq Words \X Live(files')
  <2>1. Sound /\ UNCHANGED <<corpus, sidecars, damaged>>
    BY <1>4, PassOutcome, PassFrame
  <2>2. Excused' \/ Outcome' \subseteq Words \X Live(files')
    BY <2>1, PassOutcome, PassShowsLive
  <2>3. ASSUME NEW i \in Live(files')
        PROVE  /\ files'[i].ver = corpus'[files'[i].name].ver => WillBe(i, corpus[files[i].name].words)'
               /\ ~Carded(i)' => WillBe(i, sidecars[i])' \/ (sidecars'[i] \subseteq WillShow(i)' /\ damaged')
    <3>1. i \notin Dead
      BY PassEntries
    <3>2. WillShow(i)' = WillShow(i) /\ (Excused' <=> Excused) /\ (Carded(i)' <=> Carded(i))
      BY <3>1, PassOutcome, PassLog
    <3>3. /\ files'[i].ver = corpus[files'[i].name].ver => WillBe(i, corpus[files'[i].name].words)
          /\ ~Carded(i) => WillBe(i, sidecars[i]) \/ (sidecars[i] \subseteq WillShow(i) /\ damaged)
      BY <2>1, PassSlots
    <3> QED BY <2>1, <3>2, <3>3 DEF WillBe
  <2> QED BY <2>2, <2>3
<1>5. ~moved' => Current(files)' /\ (op' = "update" => LogOK')
  <2>1. ~moved => Current(files)'
    <3>1. \A f \in Paths : Present(f)' <=> Present(f)
      BY PassFrame DEF Present
    <3>2. UNCHANGED corpus
      BY PassFrame
    <3> QED BY <3>1, <3>2, CalmFiles DEF Current, IsLive
  <2> QED BY <2>1, PassLogOK, PassFrame
<1> QED BY <1>1, <1>2, <1>3, <1>4, <1>5, PassCards DEF EndOK

LEMMA PassFits ==
  ASSUME IInv, PassEnds
  PROVE  FitsOK'
<1>1. PICK U : U = Unindexed(corpus, files)
  OBVIOUS
<1>2. PICK V : V = Unindexed(corpus, files')
  OBVIOUS
<1>3. V \subseteq U
  <2>1. ASSUME NEW f \in V
        PROVE  f \in U
    <3>1. f \in Paths /\ corpus[f].ver # 0
          /\ \A i \in Live(files') : files'[i].name = f => files'[i].ver # corpus[f].ver
      BY <1>2, <2>1 DEF Unindexed
    <3>2. ASSUME NEW i \in Live(files), files[i].name = f
          PROVE  files[i].ver # corpus[f].ver
      <4>1. CASE i \in Dead
        BY <3>1, <3>2, <4>1, PassFrame DEF Dead, Present, IInv, FitsOK
      <4>2. CASE i \notin Dead
        BY <3>1, <3>2, <4>2, PassEntries
      <4> QED BY <4>1, <4>2
    <3> QED BY <1>1, <3>1, <3>2 DEF Unindexed
  <2> QED BY <2>1
<1>4. /\ IsFiniteSet(U) /\ Cardinality(U) \in Nat /\ Cardinality(V) \in Nat
  BY <1>1, <1>2, UnindexedFinite
<1>5. Cardinality(V) <= Cardinality(U)
  BY <1>3, <1>4, NoneMore
<1>6. Behind = 0 /\ Behind' = 0
  BY PassFrame DEF Behind, PassEnds
<1>7. Len(files) + Cardinality(U) + 0 <= clock
  BY <1>1, <1>6 DEF IInv, FitsOK, Fits
<1>8. Len(files) \in Nat /\ clock \in Nat /\ Len(files') = Len(files)
  <2>1. files \in Seq(Entry)
    BY DEF IInv, TypesOK, RunOK, EntriesOK
  <2>2. clock \in Nat
    BY BoundsAssumption DEF IInv, TypesOK, WorldOK
  <2> QED BY <2>1, <2>2, PassEntries, LenProperties
<1>9. Len(files') + Cardinality(V) + 0 <= clock
  BY <1>4, <1>5, <1>7, <1>8
<1>10. Fits(files, Behind)'
  BY <1>2, <1>6, <1>9, PassFrame DEF Fits
<1>11. pc' \notin Planning
  BY PassFrame DEF Planning
<1> QED BY <1>10, <1>11, PassFrame DEF FitsOK

LEMMA TombstoneStep ==
  ASSUME IInv, TombstonePass
  PROVE  IInv'
<1>1. CASE PassEnds
  <2>1. TypesOK'
    <3>1. Dead \subseteq Slots
      BY <1>1, PassEntries
    <3>2. RunOK'
      BY <1>1, <3>1, PassFrame, PassEntries, PassLog DEF PassEnds, IInv, TypesOK, RunOK
    <3> QED BY <1>1, <3>2, PassFrame DEF TypesOK
  <2>2. PhaseOK'
    <3>1. pc' \in {"rebase", "commit"} /\ op' = op /\ todo' = {} /\ pc = "stat"
          /\ UNCHANGED <<gap, moved>>
          /\ (op = "build" => pc' = "rebase" /\ log' = <<>>)
          /\ (op = "update" => pc' = "commit") /\ op \in {"update", "build"}
      BY <1>1, PassFrame, PassLog DEF PassEnds
    <3> QED BY <3>1 DEF IInv, PhaseOK, Pcs, Planning, Ending, Rebuilding, Resting, FoldPcs
  <2>3. PlanOK' /\ FoldedOK'
    BY <1>1, PassFrame DEF PlanOK, FoldedOK, Planning
  <2> QED BY <1>1, <2>1, <2>2, <2>3, PassFrame, PassFits, PassEndOK DEF IInv
<1>2. CASE /\ op = "update" /\ cards = <<>> /\ Dead = {} /\ Release
           /\ settled' = ~moved /\ UNCHANGED <<faults, gap, damaged>>
  <2>1. pc = "stat" /\ todo = {} /\ UNCHANGED <<world, store>> /\ pc \in Planning
    BY TombstoneAs DEF Planning
  <2>2. SettledOK'
    <3>1. ~moved => Current(manifest.files)
      BY <1>2, <2>1, NothingToDo
    <3>2. Current(manifest.files)' <=> Current(manifest.files)
      BY <2>1 DEF Current, Present, world, store
    <3> QED BY <1>2, <3>1, <3>2 DEF SettledOK
  <2>3. settled' \in BOOLEAN
    BY <1>2
  <2> QED BY <1>2, <2>1, <2>2, <2>3, GiveUp
<1> QED BY <1>1, <1>2, TombstoneAs DEF PassEnds

-----------------------------------------------------------------------------
(* The durable writes.                                                     *)

LEMMA RangeOfCons ==
  ASSUME NEW S, NEW s \in Seq(S), NEW e \in S
  PROVE  <<e>> \o s \in Seq(S) /\ Range(<<e>> \o s) = {e} \cup Range(s)
<1>1. <<e>> \in Seq(S) /\ Len(<<e>>) = 1 /\ <<e>>[1] = e
  OBVIOUS
<1>2. PICK t : t = <<e>> \o s
  OBVIOUS
<1>3. /\ t \in Seq(S) /\ Len(t) = 1 + Len(s) /\ Len(s) \in Nat
      /\ \A i \in 1..(1 + Len(s)) : t[i] = IF i <= 1 THEN <<e>>[i] ELSE s[i - 1]
  BY <1>1, <1>2, ConcatProperties, LenProperties
<1>4. DOMAIN s = 1..Len(s) /\ DOMAIN t = 1..(1 + Len(s))
  BY <1>3, LenProperties
<1>5. t[1] = e /\ 1 \in DOMAIN t
  BY <1>1, <1>3, <1>4
<1>6. ASSUME NEW i \in DOMAIN t
      PROVE  t[i] \in {e} \cup Range(s)
  <2>1. CASE i = 1
    BY <1>5, <2>1
  <2>2. CASE i # 1
    <3>1. i - 1 \in DOMAIN s /\ t[i] = s[i - 1]
      BY <1>3, <1>4, <1>6, <2>2
    <3> QED BY <3>1 DEF Range
  <2> QED BY <2>1, <2>2
<1>7. ASSUME NEW i \in DOMAIN s
      PROVE  s[i] \in Range(t)
  <2>1. i + 1 \in DOMAIN t /\ t[i + 1] = s[i]
    BY <1>3, <1>4, <1>7
  <2> QED BY <2>1 DEF Range
<1>8. Range(t) = {e} \cup Range(s)
  BY <1>5, <1>6, <1>7 DEF Range
<1> QED BY <1>2, <1>3, <1>8

\* What the durable writes of a run leave alone.
LEMMA EndFrame ==
  ASSUME IInv, pc \in Ending, pc' \in Ending,
         UNCHANGED <<world, manifest, op, todo, disk, ver, files, moved, settled, gap>>
  PROVE  /\ WorldOK' /\ EntriesOK(clock', manifest'.files) /\ EntriesOK(clock', files')
         /\ manifest' \in [exists : BOOLEAN, files : Seq(Entry), seq : Nat]
         /\ SettledOK' /\ FitsOK' /\ PlanOK' /\ FoldedOK'
         /\ UNCHANGED <<corpus, clock>> /\ (Sound' <=> Sound)
         /\ (Current(files)' <=> Current(files)) /\ EndOK
         /\ op \in {"update", "build"}
<1>1. UNCHANGED <<corpus, clock>>
  BY DEF world
<1>2. WorldOK' /\ EntriesOK(clock', manifest'.files) /\ EntriesOK(clock', files')
      /\ manifest' \in [exists : BOOLEAN, files : Seq(Entry), seq : Nat]
  BY <1>1 DEF IInv, TypesOK, WorldOK, StoreOK, RunOK
<1>3. SettledOK'
  BY <1>1, QuietSettled
<1>4. pc \notin Planning /\ pc' \notin Planning /\ pc # "read" /\ pc' # "read" /\ pc' # "unlinkWal"
  BY DEF Ending, Rebuilding, Planning
<1>5. FitsOK'
  <2>1. Fits(<<>>, 0)' /\ Fits(manifest.files, 0)'
    BY QuietFits
  <2>2. Behind = 0 /\ Behind' = 0
    BY <1>4 DEF Behind
  <2>3. Fits(files, Behind)'
    BY <1>1, <2>2 DEF IInv, FitsOK, Fits
  <2> QED BY <1>4, <2>1, <2>3 DEF FitsOK
<1>6. PlanOK' /\ FoldedOK'
  BY <1>4 DEF PlanOK, FoldedOK
<1>7. (Sound' <=> Sound) /\ (Current(files)' <=> Current(files))
  BY <1>1 DEF Sound, Current, Present
<1>8. EndOK
  BY DEF IInv
<1>9. op \in {"update", "build"}
  BY DEF IInv, PhaseOK, Ending, Planning
<1> QED BY <1>1, <1>2, <1>3, <1>5, <1>6, <1>7, <1>8, <1>9

\* A write that changes the layers and the log alike.
LEMMA EndKept ==
  ASSUME IInv, pc \in Ending, pc' \in Ending,
         UNCHANGED <<world, manifest, op, todo, disk, ver, files, moved, settled, gap>>,
         UNCHANGED <<cards, gone, sidecars>>,
         Outcome' = Outcome, Excused' <=> Excused, damaged' \in BOOLEAN,
         damaged' = damaged \/ pc \in Rebuilding,
         pc' \in Rebuilding => pc \in Rebuilding,
         pc' = "dropWal" => fst'.keys = CardKeys,
         Dels' \subseteq Dels, Adds' \subseteq Adds
  PROVE  EndOK'
<1>1. /\ UNCHANGED <<corpus, clock>> /\ (Sound' <=> Sound)
      /\ (Current(files)' <=> Current(files)) /\ EndOK
  BY EndFrame
<1>2. \A i : WillShow(i)' = WillShow(i) /\ (Carded(i)' <=> Carded(i))
  BY DEF WillShow, Carded
<1>3. \A i, ws : WillBe(i, ws)' <=> WillBe(i, ws)
  BY <1>2 DEF WillBe
<1>4. CardsOK'
  <2>1. CardsOK
    BY <1>1 DEF EndOK
  <2> QED BY <1>1, <1>3, <2>1 DEF CardsOK
<1>5. LogOK => LogOK'
  <2>1. /\ \A k : Awaited(k)' <=> Awaited(k)
        /\ \A i : (Fresh(i)' <=> Fresh(i)) /\ Wanted(i)' = Wanted(i)
        /\ \A f : Present(f)' <=> Present(f)
    BY <1>1, SameNewsOfFiles
  <2> QED BY <1>1, <2>1 DEF LogOK
<1>6. CardKeys' = CardKeys
  BY DEF CardKeys
<1>7. pc' \in Rebuilding => \A i \in Live(files') : Carded(i)'
  BY <1>1, <1>2 DEF EndOK
<1>8. ASSUME Sound'
      PROVE  /\ \A i \in Live(files') :
                  /\ files'[i].ver = corpus'[files'[i].name].ver => WillBe(i, corpus[files[i].name].words)'
                  /\ ~Carded(i)' => WillBe(i, sidecars[i])' \/ (sidecars'[i] \subseteq WillShow(i)' /\ damaged')
             /\ Excused' \/ Outcome' \subseteq Words \X Live(files')
  <2>1. /\ \A i \in Live(files) :
             /\ files[i].ver = corpus[files[i].name].ver => WillBe(i, corpus[files[i].name].words)
             /\ ~Carded(i) => WillBe(i, sidecars[i]) \/ (sidecars[i] \subseteq WillShow(i) /\ damaged)
        /\ Excused \/ Outcome \subseteq Words \X Live(files)
    BY <1>1, <1>8 DEF EndOK
  <2>2. \A i \in Live(files) : ~Carded(i) => damaged' = damaged
    BY <1>1 DEF EndOK
  <2> QED BY <1>1, <1>2, <1>3, <2>1, <2>2
<1>9. (gone' \cap Live(files') = {}) /\ (~moved' => Current(files)' /\ (op' = "update" => LogOK'))
  BY <1>1, <1>5 DEF EndOK
<1> QED BY <1>4, <1>6, <1>7, <1>8, <1>9 DEF EndOK

LEMMA SaveFstStep ==
  ASSUME IInv, SaveFst
  PROVE  IInv'
<1>1. /\ pc = "rebase" /\ pc' = "dropWal" /\ op = "build" /\ pc \in Rebuilding /\ log = <<>>
      /\ pc \in Ending /\ pc' \in Ending /\ pc' \in Rebuilding
      /\ UNCHANGED <<world, wal, sidecars, manifest>>
      /\ UNCHANGED <<op, todo, disk, ver, files, log, cards, gone>>
      /\ UNCHANGED <<moved, settled, gap, damaged>>
  BY DEF SaveFst, Go, IInv, PhaseOK, Ending, Rebuilding, plan, history
<1>2. fst'.exists = TRUE /\ fst'.keys = CardKeys /\ fst' = [exists |-> TRUE, keys |-> CardKeys]
  <2>1. \A j \in DOMAIN cards : cards[j] \in Range(cards)
    BY DEF Range
  <2>2. \A c \in Range(cards) : \E j \in DOMAIN cards : c = cards[j]
    BY DEF Range
  <2>3. UNION {KeysOf(cards[j].slot, cards[j].words) : j \in DOMAIN cards} = CardKeys
    BY <2>1, <2>2 DEF CardKeys, KeysOfCards
  <2> QED BY <2>3 DEF SaveFst, Fst
<1>3. Outcome = CardKeys /\ Outcome' = CardKeys' /\ CardKeys' = CardKeys
      /\ Dels' = Dels /\ Adds' = Adds /\ ~Excused /\ ~Excused'
  BY <1>1 DEF Outcome, CardKeys, Dels, Adds, Excused
<1>4. EndOK'
  BY <1>1, <1>2, <1>3, EndKept DEF IInv, TypesOK, HistoryOK
<1>5. StoreOK' /\ WorldOK' /\ SettledOK' /\ FitsOK' /\ PlanOK' /\ FoldedOK'
  <2>1. CardKeys \subseteq Keys
    BY KeysArePairs DEF IInv
  <2>2. fst' \in [exists : BOOLEAN, keys : SUBSET Keys]
    BY <1>2, <2>1
  <2> QED BY <1>1, <2>2, EndFrame DEF IInv, TypesOK, StoreOK
<1>6. TypesOK'
  BY <1>1, <1>5, EndFrame DEF IInv, TypesOK, RunOK, HistoryOK, world
<1>7. PhaseOK'
  BY <1>1 DEF IInv, PhaseOK, Pcs, Planning, Ending, Rebuilding, Resting, FoldPcs
<1>8. RestOK'
  BY <1>1 DEF RestOK, Resting, Planning, FoldPcs
<1> QED BY <1>4, <1>5, <1>6, <1>7, <1>8 DEF IInv

LEMMA DropWalStep ==
  ASSUME IInv, DropWal
  PROVE  IInv'
<1>1. /\ pc = "dropWal" /\ pc' = "commit" /\ op = "build" /\ pc \in Rebuilding /\ log = <<>>
      /\ pc \in Ending /\ pc' \in Ending /\ pc' \notin Rebuilding
      /\ UNCHANGED <<world, fst, sidecars, manifest>> /\ wal' = NoWal /\ damaged' = FALSE
      /\ UNCHANGED <<op, todo, disk, ver, files, log, cards, gone>>
      /\ UNCHANGED <<moved, settled, gap>>
  BY DEF DropWal, Go, IInv, PhaseOK, Ending, Rebuilding, plan
<1>2. Outcome' = Outcome
  <2>1. View' = fst.keys
    BY <1>1 DEF View, NoWal
  <2>2. fst.keys = CardKeys
    BY <1>1 DEF IInv, EndOK
  <2>3. Dels' = {} /\ Adds' = {}
    BY <1>1, EmptyPlan DEF Dels, Adds
  <2> QED BY <1>1, <2>1, <2>2, <2>3 DEF Outcome
<1>3. Dels' = Dels /\ Adds' = Adds /\ ~Excused /\ ~Excused'
  BY <1>1 DEF Dels, Adds, Excused
<1>4. EndOK'
  <2>1. damaged' \in BOOLEAN /\ pc' # "dropWal"
    BY <1>1
  <2> QED BY <1>1, <1>2, <1>3, <2>1, EndKept
<1>5. StoreOK' /\ WorldOK' /\ SettledOK' /\ FitsOK' /\ PlanOK' /\ FoldedOK'
  <2>1. wal' \in [exists : BOOLEAN, add : SUBSET Keys, del : SUBSET Keys] /\ wal'.add \cap wal'.del = {}
    BY <1>1 DEF NoWal
  <2> QED BY <1>1, <2>1, EndFrame DEF IInv, TypesOK, StoreOK
<1>6. TypesOK'
  BY <1>1, <1>5, EndFrame DEF IInv, TypesOK, RunOK, HistoryOK, world
<1>7. PhaseOK'
  BY <1>1 DEF IInv, PhaseOK, Pcs, Planning, Ending, Rebuilding, Resting, FoldPcs
<1>8. RestOK'
  BY <1>1 DEF RestOK, Resting, Planning, FoldPcs
<1> QED BY <1>4, <1>5, <1>6, <1>7, <1>8 DEF IInv

\* One more record in the WAL: k is deleted or added, and leaves the log.
DeletesKey(k) ==
    /\ k \in Dels /\ View' = View \ {k}
    /\ Dels' \subseteq Dels /\ Dels \subseteq Dels' \cup {k} /\ Adds' = Adds
AddsKey(k) ==
    /\ k \in Adds /\ View' = View \cup {k}
    /\ Adds' \subseteq Adds /\ Adds \subseteq Adds' \cup {k} /\ Dels' = Dels

LEMMA AppendAs ==
  ASSUME IInv, AppendRecord
  PROVE  /\ pc = "commit" /\ pc' = "commit" /\ op = "update" /\ log # <<>>
         /\ pc \in Ending /\ pc' \in Ending
         /\ UNCHANGED <<world, fst, sidecars, manifest, damaged>>
         /\ UNCHANGED <<op, todo, disk, ver, files, cards, gone>>
         /\ UNCHANGED <<moved, settled, gap>>
         /\ log' \in Seq(Record)
         /\ wal' \in [exists : BOOLEAN, add : SUBSET Keys, del : SUBSET Keys]
         /\ wal'.add \cap wal'.del = {}
         /\ \E k \in Keys : DeletesKey(k) \/ AddsKey(k)
<1>1. /\ pc = "commit" /\ pc' = "commit" /\ log # <<>> /\ pc \in Ending /\ pc' \in Ending
      /\ UNCHANGED <<world, fst, sidecars, manifest, damaged>>
      /\ UNCHANGED <<op, todo, disk, ver, files, cards, gone>>
      /\ UNCHANGED <<moved, settled, gap>>
  BY DEF AppendRecord, history, Ending
<1>2. op = "update"
  BY <1>1 DEF IInv, PhaseOK
<1>3. log \in Seq(Record) /\ wal \in [exists : BOOLEAN, add : SUBSET Keys, del : SUBSET Keys]
      /\ wal.add \cap wal.del = {}
  BY DEF IInv, TypesOK, RunOK, StoreOK
<1>4. PICK r : r = Head(log)
  OBVIOUS
<1>5. PICK t : t = Tail(log)
  OBVIOUS
<1>6. /\ r \in Record /\ t \in Seq(Record) /\ r \in Range(log) /\ Range(t) \subseteq Range(log)
      /\ \A e \in Range(log) : e = r \/ e \in Range(t)
  BY <1>1, <1>3, <1>4, <1>5, RangeOfTail, HeadTailProperties
<1>7. /\ Dels = r.del \cup DelsOf(t) /\ Adds = r.add \cup AddsOf(t)
      /\ r.del \subseteq Keys /\ r.add \subseteq Keys
  BY <1>6 DEF Dels, Adds, DelsOf, AddsOf, Record
<1>8. ASSUME NEW u \in Record,
             log' = IF u.del \cup u.add = {} THEN t ELSE <<u>> \o t
      PROVE  log' \in Seq(Record) /\ Dels' = u.del \cup DelsOf(t) /\ Adds' = u.add \cup AddsOf(t)
  <2>1. CASE u.del \cup u.add = {}
    BY <1>6, <1>8, <2>1 DEF Dels, Adds
  <2>2. CASE u.del \cup u.add # {}
    <3>1. log' = <<u>> \o t
      BY <1>8, <2>2
    <3>2. log' \in Seq(Record) /\ Range(log') = {u} \cup Range(t)
      BY <1>6, <3>1, RangeOfCons
    <3> QED BY <3>2 DEF Dels, Adds, DelsOf, AddsOf
  <2> QED BY <2>1, <2>2
<1>9. ASSUME NEW k \in r.del, wal' = AfterDel(k),
             log' = IF [r EXCEPT !.del = @ \ {k}].del \cup [r EXCEPT !.del = @ \ {k}].add = {}
                    THEN t ELSE <<[r EXCEPT !.del = @ \ {k}]>> \o t
      PROVE  /\ log' \in Seq(Record)
             /\ wal' \in [exists : BOOLEAN, add : SUBSET Keys, del : SUBSET Keys]
             /\ wal'.add \cap wal'.del = {}
             /\ k \in Keys /\ DeletesKey(k)
  <2>1. PICK u : u = [r EXCEPT !.del = @ \ {k}]
    OBVIOUS
  <2>2. u \in Record /\ u.del = r.del \ {k} /\ u.add = r.add
    BY <1>6, <2>1 DEF Record
  <2>3. log' = IF u.del \cup u.add = {} THEN t ELSE <<u>> \o t
    BY <1>9, <2>1
  <2>4. log' \in Seq(Record) /\ Dels' = u.del \cup DelsOf(t) /\ Adds' = u.add \cup AddsOf(t)
    BY <1>8, <2>2, <2>3
  <2>5. wal'.add = wal.add \ {k} /\ wal'.del = wal.del \cup {k} /\ wal'.exists = TRUE
        /\ wal' = [exists |-> TRUE, add |-> wal.add \ {k}, del |-> wal.del \cup {k}]
    BY <1>9 DEF AfterDel
  <2>6. k \in Keys
    BY <1>7, <1>9
  <2>7. View' = View \ {k}
    BY <1>1, <2>5 DEF View
  <2>8. wal.add \subseteq Keys /\ wal.del \subseteq Keys
    BY <1>3
  <2>9. /\ wal' \in [exists : BOOLEAN, add : SUBSET Keys, del : SUBSET Keys]
        /\ wal'.add \cap wal'.del = {}
    <3>1. wal.add \ {k} \in SUBSET Keys /\ wal.del \cup {k} \in SUBSET Keys
      BY <2>6, <2>8
    <3> QED BY <1>3, <2>5, <3>1
  <2>10. k \in Dels /\ Dels' \subseteq Dels /\ Dels \subseteq Dels' \cup {k} /\ Adds' = Adds
    BY <1>7, <1>9, <2>2, <2>4
  <2> QED BY <2>4, <2>6, <2>7, <2>9, <2>10 DEF DeletesKey
<1>10. ASSUME NEW k \in r.add, r.del = {}, wal' = AfterAdd(k),
             log' = IF [r EXCEPT !.add = @ \ {k}].del \cup [r EXCEPT !.add = @ \ {k}].add = {}
                    THEN t ELSE <<[r EXCEPT !.add = @ \ {k}]>> \o t
      PROVE  /\ log' \in Seq(Record)
             /\ wal' \in [exists : BOOLEAN, add : SUBSET Keys, del : SUBSET Keys]
             /\ wal'.add \cap wal'.del = {}
             /\ k \in Keys /\ AddsKey(k)
  <2>1. PICK u : u = [r EXCEPT !.add = @ \ {k}]
    OBVIOUS
  <2>2. u \in Record /\ u.add = r.add \ {k} /\ u.del = r.del
    BY <1>6, <2>1 DEF Record
  <2>3. log' = IF u.del \cup u.add = {} THEN t ELSE <<u>> \o t
    BY <1>10, <2>1
  <2>4. log' \in Seq(Record) /\ Dels' = u.del \cup DelsOf(t) /\ Adds' = u.add \cup AddsOf(t)
    BY <1>8, <2>2, <2>3
  <2>5. wal'.add = wal.add \cup {k} /\ wal'.del = wal.del \ {k} /\ wal'.exists = TRUE
        /\ wal' = [exists |-> TRUE, add |-> wal.add \cup {k}, del |-> wal.del \ {k}]
    BY <1>10 DEF AfterAdd
  <2>6. k \in Keys
    BY <1>7, <1>10
  <2>7. View' = View \cup {k}
    BY <1>1, <2>5 DEF View
  <2>8. wal.add \subseteq Keys /\ wal.del \subseteq Keys
    BY <1>3
  <2>9. /\ wal' \in [exists : BOOLEAN, add : SUBSET Keys, del : SUBSET Keys]
        /\ wal'.add \cap wal'.del = {}
    <3>1. wal.add \cup {k} \in SUBSET Keys /\ wal.del \ {k} \in SUBSET Keys
      BY <2>6, <2>8
    <3> QED BY <1>3, <2>5, <3>1
  <2>10. k \in Adds /\ Adds' \subseteq Adds /\ Adds \subseteq Adds' \cup {k} /\ Dels' = Dels
    BY <1>7, <1>10, <2>2, <2>4
  <2> QED BY <2>4, <2>6, <2>7, <2>9, <2>10 DEF AddsKey
<1>11. \/ \E k \in r.del :
           /\ wal' = AfterDel(k)
           /\ log' = IF [r EXCEPT !.del = @ \ {k}].del \cup [r EXCEPT !.del = @ \ {k}].add = {}
                     THEN t ELSE <<[r EXCEPT !.del = @ \ {k}]>> \o t
       \/ \E k \in r.add :
           /\ r.del = {}
           /\ wal' = AfterAdd(k)
           /\ log' = IF [r EXCEPT !.add = @ \ {k}].del \cup [r EXCEPT !.add = @ \ {k}].add = {}
                     THEN t ELSE <<[r EXCEPT !.add = @ \ {k}]>> \o t
  BY <1>4, <1>5 DEF AppendRecord
<1>12. /\ log' \in Seq(Record)
       /\ wal' \in [exists : BOOLEAN, add : SUBSET Keys, del : SUBSET Keys]
       /\ wal'.add \cap wal'.del = {}
       /\ \E k \in Keys : DeletesKey(k) \/ AddsKey(k)
  BY <1>9, <1>10, <1>11
<1> QED BY <1>1, <1>2, <1>12

LEMMA AppendOutcome ==
  ASSUME IInv, AppendRecord
  PROVE  Outcome' = Outcome /\ (Excused' <=> Excused) /\ Dels' \subseteq Dels /\ Adds' \subseteq Adds
<1>1. /\ pc = "commit" /\ pc' = "commit" /\ op = "update" /\ op' = op /\ damaged' = damaged
  BY AppendAs
<1>2. Outcome = (View \ Dels) \cup Adds /\ Outcome' = (View' \ Dels') \cup Adds'
  BY <1>1 DEF Outcome
<1>3. Dels \cap Adds = {}
  BY <1>1 DEF IInv, EndOK, CardsOK, Ending
<1>4. PICK k \in Keys : DeletesKey(k) \/ AddsKey(k)
  BY AppendAs
<1>5. CASE DeletesKey(k)
  BY <1>2, <1>5, <1>1 DEF DeletesKey, Excused
<1>6. CASE AddsKey(k)
  BY <1>2, <1>3, <1>6, <1>1 DEF AddsKey, Excused
<1> QED BY <1>4, <1>5, <1>6

LEMMA AppendOpen ==
  ASSUME IInv, AppendRecord, ~moved, OpenOK
  PROVE  OpenOK'
<1>1. /\ op = "update" /\ pc \in Ending /\ UNCHANGED <<corpus, sidecars, manifest, damaged>>
  BY AppendAs DEF world
<1>2. LogOK
  BY <1>1 DEF IInv, EndOK
<1>3. /\ \A k : Awaited(k)' <=> Awaited(k)
      /\ \A i : (Fresh(i)' <=> Fresh(i)) /\ Wanted(i)' = Wanted(i)
  BY <1>1, SameNewsOfFiles
<1>4. PICK k \in Keys : DeletesKey(k) \/ AddsKey(k)
  BY AppendAs
<1>5. k = <<k[1], k[2]>> /\ k[1] \in Words
  BY KeysArePairs DEF IInv
<1>6. ASSUME NEW i, i # k[2]
      PROVE  Shown(i)' = Shown(i)
  <2>1. \A w : <<w, i>> # k
    BY <1>5, <1>6
  <2>2. \A w : <<w, i>> \in View' <=> <<w, i>> \in View
    BY <1>4, <2>1 DEF DeletesKey, AddsKey
  <2> QED BY <2>2 DEF Shown
<1>7. CASE DeletesKey(k)
  <2>1. k[2] \in Live(manifest.files) /\ ~Fresh(k[2]) /\ k[1] \notin Wanted(k[2])
    BY <1>2, <1>7 DEF LogOK, DeletesKey
  <2>2. \A w \in Words : w \in Shown(k[2])' <=> w \in Shown(k[2]) /\ w # k[1]
    <3>1. \A w : <<w, k[2]>> = k <=> w = k[1]
      BY <1>5
    <3> QED BY <1>7, <3>1 DEF DeletesKey, Shown
  <2>3. Shown(k[2]) \subseteq Words /\ Shown(k[2])' \subseteq Words
    BY DEF Shown
  <2>4. ASSUME NEW i \in Live(manifest.files)
        PROVE  /\ Toward(i, Wanted(i))'
               /\ Fresh(i)' => SlotOK(i)' /\ Shows(Shown(i), Wanted(i))'
    <3>1. /\ Toward(i, Wanted(i))
          /\ Fresh(i) => SlotOK(i) /\ Shows(Shown(i), Wanted(i))
      BY DEF OpenOK
    <3>2. CASE i = k[2]
      BY <1>1, <1>3, <2>1, <2>2, <2>3, <3>1, <3>2 DEF Toward
    <3>3. CASE i # k[2]
      <4>1. Shown(i)' = Shown(i) /\ Wanted(i)' = Wanted(i)
        BY <1>3, <1>6, <3>3
      <4> QED BY <1>1, <1>3, <3>1, <4>1 DEF Toward, SlotOK, Shows
    <3> QED BY <3>2, <3>3
  <2>5. damaged' \/ \A x \in View' : x[2] \in Live(manifest'.files) \/ Awaited(x)'
    BY <1>1, <1>3, <1>7 DEF DeletesKey, OpenOK
  <2> QED BY <1>1, <2>4, <2>5 DEF OpenOK
<1>8. CASE AddsKey(k)
  <2>1. \/ k[2] \in Live(manifest.files) /\ ~Fresh(k[2]) /\ k[1] \in Wanted(k[2])
        \/ Awaited(k)
    BY <1>2, <1>8 DEF LogOK, AddsKey
  <2>2. \A w \in Words : w \in Shown(k[2])' <=> w \in Shown(k[2]) \/ w = k[1]
    <3>1. \A w : <<w, k[2]>> = k <=> w = k[1]
      BY <1>5
    <3> QED BY <1>8, <3>1 DEF AddsKey, Shown
  <2>3. Shown(k[2]) \subseteq Words /\ Shown(k[2])' \subseteq Words
    BY DEF Shown
  <2>4. ASSUME Awaited(k), k[2] \in Live(manifest.files)
        PROVE  FALSE
    <3>1. Len(manifest.files) \in Nat /\ k[2] \in 1..Len(manifest.files)
      BY <2>4, EntryOfLive DEF IInv, TypesOK, StoreOK, EntriesOK
    <3>2. PICK p \in Places : NewAt(p) /\ Rank(p) = k[2]
      BY <2>4 DEF Awaited
    <3>3. Rank(p) \in Nat /\ Rank(p) > Len(manifest.files)
      BY <3>1, <3>2, RanksAreNew
    <3>4. PICK r : r = Rank(p)
      OBVIOUS
    <3>5. r \in Nat /\ r > Len(manifest.files) /\ r \in 1..Len(manifest.files)
      BY <3>1, <3>2, <3>3, <3>4
    <3> QED BY <3>1, <3>5
  <2>5. ASSUME NEW i \in Live(manifest.files)
        PROVE  /\ Toward(i, Wanted(i))'
               /\ Fresh(i)' => SlotOK(i)' /\ Shows(Shown(i), Wanted(i))'
    <3>1. /\ Toward(i, Wanted(i))
          /\ Fresh(i) => SlotOK(i) /\ Shows(Shown(i), Wanted(i))
      BY DEF OpenOK
    <3>2. CASE i = k[2]
      <4>1. ~Fresh(i) /\ k[1] \in Wanted(i)
        BY <2>1, <2>4, <3>2
      <4> QED BY <1>1, <1>3, <2>2, <2>3, <3>1, <3>2, <4>1 DEF Toward
    <3>3. CASE i # k[2]
      <4>1. Shown(i)' = Shown(i) /\ Wanted(i)' = Wanted(i)
        BY <1>3, <1>6, <3>3
      <4> QED BY <1>1, <1>3, <3>1, <4>1 DEF Toward, SlotOK, Shows
    <3> QED BY <3>2, <3>3
  <2>6. damaged' \/ \A x \in View' : x[2] \in Live(manifest'.files) \/ Awaited(x)'
    BY <1>1, <1>3, <1>8, <2>1 DEF AddsKey, OpenOK
  <2> QED BY <1>1, <2>5, <2>6 DEF OpenOK
<1> QED BY <1>4, <1>7, <1>8

LEMMA AppendStep ==
  ASSUME IInv, AppendRecord
  PROVE  IInv'
<1>1. /\ pc = "commit" /\ pc' = "commit" /\ op = "update" /\ log # <<>>
      /\ pc \in Ending /\ pc' \in Ending
      /\ UNCHANGED <<world, fst, sidecars, manifest, damaged>>
      /\ UNCHANGED <<op, todo, disk, ver, files, cards, gone>>
      /\ UNCHANGED <<moved, settled, gap>>
      /\ log' \in Seq(Record)
      /\ wal' \in [exists : BOOLEAN, add : SUBSET Keys, del : SUBSET Keys]
      /\ wal'.add \cap wal'.del = {}
  BY AppendAs
<1>2. EndOK'
  <2>1. damaged' \in BOOLEAN /\ pc' # "dropWal" /\ pc' \notin Rebuilding
    BY <1>1 DEF IInv, TypesOK, HistoryOK, Rebuilding
  <2> QED BY <1>1, <2>1, AppendOutcome, EndKept
<1>3. StoreOK' /\ WorldOK' /\ SettledOK' /\ FitsOK' /\ PlanOK' /\ FoldedOK'
  BY <1>1, EndFrame DEF IInv, TypesOK, StoreOK
<1>4. TypesOK'
  BY <1>1, <1>3, EndFrame DEF IInv, TypesOK, RunOK, HistoryOK, world
<1>5. PhaseOK'
  BY <1>1 DEF IInv, PhaseOK, Pcs, Planning, Ending, Rebuilding, Resting, FoldPcs
<1>6. RestOK'
  <2>1. ~moved /\ gap \in {"none", "open"} => OpenOK
    BY <1>1 DEF IInv, RestOK
  <2> QED BY <1>1, <2>1, AppendOpen DEF RestOK, Resting, Planning, FoldPcs
<1> QED BY <1>2, <1>3, <1>4, <1>5, <1>6 DEF IInv

\* When the log is in the WAL, a search sees the outcome of the run.
LEMMA AllLogged ==
  ASSUME IInv, pc = "commit", log = <<>>
  PROVE  /\ Outcome = View /\ Dels = {} /\ Adds = {}
         /\ \A i : WillShow(i) = Shown(i)
         /\ Excused <=> damaged
<1>1. Dels = {} /\ Adds = {}
  BY EmptyPlan DEF Dels, Adds
<1>2. Outcome = View
  BY <1>1 DEF Outcome
<1>3. Excused <=> damaged
  BY DEF Excused
<1> QED BY <1>1, <1>2, <1>3 DEF WillShow, Shown

LEMMA FewerCards ==
  ASSUME NEW cs \in Seq(Card), cs # <<>>,
         \A i, j \in DOMAIN cs : cs[i].slot = cs[j].slot => i = j
  PROVE  /\ Head(cs) \in Card /\ Head(cs) \in Range(cs) /\ Tail(cs) \in Seq(Card)
         /\ Range(Tail(cs)) \subseteq Range(cs)
         /\ \A c \in Range(cs) : c = Head(cs) \/ c \in Range(Tail(cs))
         /\ \A i, j \in DOMAIN Tail(cs) : Tail(cs)[i].slot = Tail(cs)[j].slot => i = j
<1>1. /\ Head(cs) \in Card /\ Tail(cs) \in Seq(Card) /\ Len(Tail(cs)) = Len(cs) - 1
      /\ \A i \in 1..Len(Tail(cs)) : Tail(cs)[i] = cs[i + 1]
      /\ Len(cs) \in Nat \ {0}
      /\ DOMAIN cs = 1..Len(cs) /\ DOMAIN Tail(cs) = 1..Len(Tail(cs))
  BY HeadTailProperties, LenProperties
<1>2. ASSUME NEW i \in DOMAIN Tail(cs), NEW j \in DOMAIN Tail(cs),
             Tail(cs)[i].slot = Tail(cs)[j].slot
      PROVE  i = j
  <2>1. i \in Nat /\ j \in Nat /\ i + 1 \in DOMAIN cs /\ j + 1 \in DOMAIN cs
    BY <1>1, <1>2
  <2>2. cs[i + 1].slot = cs[j + 1].slot
    BY <1>1, <1>2
  <2>3. i + 1 = j + 1
    BY <2>1, <2>2
  <2> QED BY <2>1, <2>3
<1> QED BY <1>1, <1>2, RangeOfTail

LEMMA SidecarFrame ==
  ASSUME IInv, pc = "commit", pc' = "commit", log = <<>>,
         UNCHANGED <<world, fst, wal, manifest, moved, settled, gap, damaged>>,
         UNCHANGED <<op, todo, disk, ver, files, log>>,
         sidecars' \in [Slots -> SUBSET Words], cards' \in Seq(Card), gone' \in SUBSET Slots
  PROVE  /\ TypesOK' /\ PhaseOK' /\ SettledOK' /\ FitsOK' /\ PlanOK' /\ FoldedOK'
         /\ pc \in Ending /\ pc' \in Ending /\ EndOK /\ (Sound' <=> Sound) /\ (Excused' <=> Excused)
         /\ (Current(files)' <=> Current(files)) /\ Outcome' = Outcome /\ Outcome = View
         /\ \A i : WillShow(i)' = WillShow(i) /\ WillShow(i) = Shown(i) /\ Shown(i)' = Shown(i)
         /\ \A i, ws : WillBe(i, ws)' <=> WillBe(i, ws)
         /\ \A i : (Fresh(i)' <=> Fresh(i)) /\ Wanted(i)' = Wanted(i)
         /\ \A f : Present(f)' <=> Present(f)
         /\ \A k : Awaited(k)' <=> Awaited(k)
         /\ Dels = {} /\ Adds = {} /\ Dels' = {} /\ Adds' = {}
         /\ (~moved /\ gap \in {"none", "open"} /\ op = "update" => OpenOK)
         /\ UNCHANGED <<corpus, clock>> /\ View' = View
<1>1. pc \in Ending /\ pc' \in Ending
  BY DEF Ending
<1>2. /\ WorldOK' /\ EntriesOK(clock', manifest'.files) /\ EntriesOK(clock', files')
      /\ SettledOK' /\ FitsOK' /\ PlanOK' /\ FoldedOK'
      /\ UNCHANGED <<corpus, clock>> /\ (Sound' <=> Sound)
      /\ (Current(files)' <=> Current(files)) /\ EndOK
  BY <1>1, EndFrame
<1>3. StoreOK' /\ RunOK' /\ HistoryOK'
  BY <1>2 DEF IInv, TypesOK, StoreOK, RunOK, HistoryOK
<1>4. PhaseOK'
  <2>1. pc \notin Resting \cup Planning \cup Rebuilding \cup FoldPcs /\ pc \in Pcs
    BY DEF Resting, Planning, Rebuilding, FoldPcs, Pcs
  <2>2. pc' = pc /\ todo = {} /\ op \in {"update", "build"} /\ (gap = "open" => ~moved)
    BY <2>1 DEF IInv, PhaseOK
  <2> QED BY <1>1, <2>1, <2>2 DEF PhaseOK
<1>5. Excused' <=> Excused
  BY DEF Excused
<1>6. View' = View /\ \A i : Shown(i)' = Shown(i)
  BY SameLayers
<1>7. Outcome = View /\ Dels = {} /\ Adds = {} /\ \A i : WillShow(i) = Shown(i)
  BY AllLogged
<1>8. Dels' = {} /\ Adds' = {} /\ Outcome' = View'
  <2>1. Dels' = {} /\ Adds' = {}
    BY EmptyPlan DEF Dels, Adds
  <2> QED BY <2>1 DEF Outcome
<1>9. \A i : WillShow(i)' = WillShow(i)
  BY <1>6, <1>7, <1>8 DEF WillShow
<1>10. \A i, ws : WillBe(i, ws)' <=> WillBe(i, ws)
  BY <1>5, <1>9 DEF WillBe
<1>11. /\ \A i : (Fresh(i)' <=> Fresh(i)) /\ Wanted(i)' = Wanted(i)
       /\ \A f : Present(f)' <=> Present(f)
       /\ \A k : Awaited(k)' <=> Awaited(k)
  BY <1>2, SameNewsOfFiles
<1>12. ~moved /\ gap \in {"none", "open"} /\ op = "update" => OpenOK
  BY DEF IInv, RestOK
<1> QED BY <1>1, <1>2, <1>3, <1>4, <1>5, <1>6, <1>7, <1>8, <1>9, <1>10, <1>11, <1>12 DEF TypesOK

LEMMA WriteSidecarStep ==
  ASSUME IInv, WriteSidecar
  PROVE  IInv'
<1>1. /\ pc = "commit" /\ pc' = "commit" /\ log = <<>> /\ cards # <<>>
      /\ sidecars' = [sidecars EXCEPT ![Head(cards).slot] = Head(cards).words]
      /\ cards' = Tail(cards) /\ gone' = gone
      /\ UNCHANGED <<world, fst, wal, manifest, moved, settled, gap, damaged>>
      /\ UNCHANGED <<op, todo, disk, ver, files, log>>
  BY DEF WriteSidecar, history
<1>2. CardsOK /\ pc \in Ending /\ cards \in Seq(Card) /\ EndOK
      /\ sidecars \in [Slots -> SUBSET Words] /\ gone \in SUBSET Slots
  BY <1>1 DEF IInv, EndOK, Ending, TypesOK, RunOK, StoreOK
<1>3. PICK c : c = Head(cards)
  OBVIOUS
<1>4. /\ c \in Card /\ c \in Range(cards) /\ cards' \in Seq(Card)
      /\ Range(cards') \subseteq Range(cards)
      /\ \A d \in Range(cards) : d = c \/ d \in Range(cards')
      /\ \A i, j \in DOMAIN cards' : cards'[i].slot = cards'[j].slot => i = j
  BY <1>1, <1>2, <1>3, FewerCards DEF CardsOK
<1>5. PICK s \in Slots : s = c.slot
  BY <1>4 DEF Card
<1>6. PICK ws \in SUBSET Words : ws = c.words
  BY <1>4 DEF Card
<1>7. /\ sidecars' \in [Slots -> SUBSET Words] /\ sidecars'[s] = ws
      /\ \A i : i # s => sidecars'[i] = sidecars[i]
  BY <1>1, <1>2, <1>3, <1>5, <1>6
<1>8. /\ TypesOK' /\ PhaseOK' /\ SettledOK' /\ FitsOK' /\ PlanOK' /\ FoldedOK'
      /\ pc' \in Ending /\ (Sound' <=> Sound) /\ (Excused' <=> Excused)
      /\ (Current(files)' <=> Current(files)) /\ Outcome' = Outcome /\ Outcome = View
      /\ \A i : WillShow(i)' = WillShow(i) /\ WillShow(i) = Shown(i) /\ Shown(i)' = Shown(i)
      /\ \A i, vs : WillBe(i, vs)' <=> WillBe(i, vs)
      /\ \A i : (Fresh(i)' <=> Fresh(i)) /\ Wanted(i)' = Wanted(i)
      /\ \A f : Present(f)' <=> Present(f)
      /\ \A k : Awaited(k)' <=> Awaited(k)
      /\ Dels = {} /\ Adds = {} /\ Dels' = {} /\ Adds' = {}
      /\ (~moved /\ gap \in {"none", "open"} /\ op = "update" => OpenOK)
      /\ UNCHANGED <<corpus, clock>> /\ View' = View
  BY <1>1, <1>2, <1>4, <1>7, SidecarFrame
<1>9. Sound => WillBe(s, ws)
  BY <1>2, <1>4, <1>5, <1>6 DEF CardsOK
<1>10. CardsOK'
  <2>1. ASSUME NEW d \in Range(cards')
        PROVE  d.slot \in Live(files') /\ (Sound' => WillBe(d.slot, d.words)')
    <3>1. PICK j : j = d.slot
      OBVIOUS
    <3>2. PICK vs : vs = d.words
      OBVIOUS
    <3>3. j \in Live(files) /\ (Sound => WillBe(j, vs))
      BY <1>2, <1>4, <2>1, <3>1, <3>2 DEF CardsOK
    <3> QED BY <1>1, <1>8, <3>1, <3>2, <3>3
  <2> QED BY <1>4, <1>8, <2>1 DEF CardsOK
<1>11. LogOK => LogOK'
  BY <1>1, <1>4, <1>8 DEF LogOK
<1>12. EndOK'
  <2>1. pc' \notin Rebuilding /\ pc' # "dropWal"
    BY <1>1 DEF Rebuilding
  <2>2. ASSUME Sound', NEW i \in Live(files')
        PROVE  /\ files'[i].ver = corpus'[files'[i].name].ver => WillBe(i, corpus[files[i].name].words)'
               /\ ~Carded(i)' => WillBe(i, sidecars[i])' \/ (sidecars'[i] \subseteq WillShow(i)' /\ damaged')
    <3>1. /\ files[i].ver = corpus[files[i].name].ver => WillBe(i, corpus[files[i].name].words)
          /\ ~Carded(i) => WillBe(i, sidecars[i]) \/ (sidecars[i] \subseteq WillShow(i) /\ damaged)
      BY <1>1, <1>2, <1>8, <2>2 DEF EndOK
    <3>2. ASSUME ~Carded(i)'
          PROVE  WillBe(i, sidecars[i])' \/ (sidecars'[i] \subseteq WillShow(i)' /\ damaged')
      <4>1. CASE i = s
        BY <1>7, <1>8, <1>9, <2>2, <4>1 DEF WillBe
      <4>2. CASE i # s
        <5>1. ~Carded(i)
          BY <1>4, <1>5, <3>2, <4>2 DEF Carded
        <5> QED BY <1>1, <1>7, <1>8, <3>1, <4>2, <5>1 DEF WillBe
      <4> QED BY <4>1, <4>2
    <3> QED BY <1>1, <1>8, <3>1, <3>2 DEF WillBe
  <2>3. Sound' => (Excused' \/ Outcome' \subseteq Words \X Live(files'))
    BY <1>1, <1>2, <1>8 DEF EndOK
  <2>4. (gone' \cap Live(files') = {}) /\ (~moved' => Current(files)' /\ (op' = "update" => LogOK'))
    BY <1>1, <1>2, <1>8, <1>11 DEF EndOK
  <2> QED BY <1>10, <2>1, <2>2, <2>3, <2>4 DEF EndOK
<1>13. RestOK'
  <2>1. ASSUME ~moved, gap \in {"none", "open"}, op = "update"
        PROVE  OpenOK'
    <3>1. OpenOK /\ LogOK /\ Sound /\ (Excused <=> damaged)
      BY <1>1, <1>2, <1>8, <2>1, AllLogged DEF EndOK, Sound
    <3>2. ASSUME NEW i \in Live(manifest.files)
          PROVE  /\ Toward(i, Wanted(i))'
                 /\ Fresh(i)' => SlotOK(i)' /\ Shows(Shown(i), Wanted(i))'
      <4>1. /\ Toward(i, Wanted(i))
            /\ Fresh(i) => SlotOK(i) /\ Shows(Shown(i), Wanted(i))
        BY <3>1 DEF OpenOK
      <4>2. CASE i = s
        <5>1. ~Fresh(i) /\ ws = Wanted(i)
          BY <1>4, <1>5, <1>6, <3>1, <4>2 DEF LogOK
        <5>2. ws \subseteq Shown(i) /\ (damaged \/ Shown(i) \subseteq ws)
          BY <1>8, <1>9, <3>1, <4>2 DEF WillBe
        <5> QED BY <1>1, <1>7, <1>8, <4>2, <5>1, <5>2 DEF Toward
      <4>3. CASE i # s
        <5>1. UNCHANGED damaged /\ sidecars'[i] = sidecars[i]
          BY <1>1, <1>7, <4>3
        <5> QED BY <1>8, <4>1, <5>1 DEF Toward, SlotOK, Shows
      <4> QED BY <4>2, <4>3
    <3>3. damaged' \/ \A k \in View' : k[2] \in Live(manifest'.files) \/ Awaited(k)'
      BY <1>1, <1>8, <3>1 DEF OpenOK
    <3> QED BY <1>1, <3>2, <3>3 DEF OpenOK
  <2> QED BY <1>1, <2>1 DEF RestOK, Resting, Planning, FoldPcs
<1> QED BY <1>8, <1>12, <1>13 DEF IInv

LEMMA UnlinkSidecarStep ==
  ASSUME IInv, UnlinkSidecar
  PROVE  IInv'
<1>1. /\ pc = "commit" /\ pc' = "commit" /\ log = <<>> /\ cards' = cards
      /\ UNCHANGED <<world, fst, wal, manifest, moved, settled, gap, damaged>>
      /\ UNCHANGED <<op, todo, disk, ver, files, log>>
  BY DEF UnlinkSidecar, history
<1>2. PICK s \in gone : sidecars' = [sidecars EXCEPT ![s] = {}] /\ gone' = gone \ {s}
  BY DEF UnlinkSidecar
<1>3. CardsOK /\ pc \in Ending /\ cards \in Seq(Card) /\ EndOK
      /\ sidecars \in [Slots -> SUBSET Words] /\ gone \in SUBSET Slots
  BY <1>1 DEF IInv, EndOK, Ending, TypesOK, RunOK, StoreOK
<1>4. /\ sidecars' \in [Slots -> SUBSET Words] /\ sidecars'[s] = {}
      /\ \A i : i # s => sidecars'[i] = sidecars[i]
      /\ gone' \in SUBSET Slots /\ s \in Slots
  BY <1>2, <1>3
<1>5. /\ TypesOK' /\ PhaseOK' /\ SettledOK' /\ FitsOK' /\ PlanOK' /\ FoldedOK'
      /\ pc' \in Ending /\ (Sound' <=> Sound) /\ (Excused' <=> Excused)
      /\ (Current(files)' <=> Current(files)) /\ Outcome' = Outcome /\ Outcome = View
      /\ \A i : WillShow(i)' = WillShow(i) /\ WillShow(i) = Shown(i) /\ Shown(i)' = Shown(i)
      /\ \A i, vs : WillBe(i, vs)' <=> WillBe(i, vs)
      /\ \A i : (Fresh(i)' <=> Fresh(i)) /\ Wanted(i)' = Wanted(i)
      /\ \A f : Present(f)' <=> Present(f)
      /\ \A k : Awaited(k)' <=> Awaited(k)
      /\ Dels = {} /\ Adds = {} /\ Dels' = {} /\ Adds' = {}
      /\ (~moved /\ gap \in {"none", "open"} /\ op = "update" => OpenOK)
      /\ UNCHANGED <<corpus, clock>> /\ View' = View
  BY <1>1, <1>3, <1>4, SidecarFrame
<1>6. \A i : Carded(i)' <=> Carded(i)
  BY <1>1 DEF Carded
<1>7. s \notin Live(files)
  BY <1>2, <1>3 DEF EndOK
<1>8. CardsOK'
  BY <1>1, <1>3, <1>5 DEF CardsOK
<1>9. LogOK => LogOK'
  BY <1>1, <1>2, <1>5 DEF LogOK
<1>10. EndOK'
  <2>1. pc' \notin Rebuilding /\ pc' # "dropWal"
    BY <1>1 DEF Rebuilding
  <2>2. ASSUME Sound', NEW i \in Live(files')
        PROVE  /\ files'[i].ver = corpus'[files'[i].name].ver => WillBe(i, corpus[files[i].name].words)'
               /\ ~Carded(i)' => WillBe(i, sidecars[i])' \/ (sidecars'[i] \subseteq WillShow(i)' /\ damaged')
    <3>1. /\ files[i].ver = corpus[files[i].name].ver => WillBe(i, corpus[files[i].name].words)
          /\ ~Carded(i) => WillBe(i, sidecars[i]) \/ (sidecars[i] \subseteq WillShow(i) /\ damaged)
      BY <1>1, <1>3, <1>5, <2>2 DEF EndOK
    <3>2. sidecars'[i] = sidecars[i]
      BY <1>1, <1>4, <1>7, <2>2
    <3> QED BY <1>1, <1>5, <1>6, <3>1, <3>2 DEF WillBe
  <2>3. Sound' => (Excused' \/ Outcome' \subseteq Words \X Live(files'))
    BY <1>1, <1>3, <1>5 DEF EndOK
  <2>4. (gone' \cap Live(files') = {}) /\ (~moved' => Current(files)' /\ (op' = "update" => LogOK'))
    BY <1>1, <1>2, <1>3, <1>5, <1>9 DEF EndOK
  <2> QED BY <1>8, <2>1, <2>2, <2>3, <2>4 DEF EndOK
<1>11. RestOK'
  <2>1. ASSUME ~moved, gap \in {"none", "open"}, op = "update"
        PROVE  OpenOK'
    <3>1. OpenOK /\ LogOK /\ Sound /\ (Excused <=> damaged)
      BY <1>1, <1>3, <1>5, <2>1, AllLogged DEF EndOK, Sound
    <3>2. ASSUME NEW i \in Live(manifest.files)
          PROVE  /\ Toward(i, Wanted(i))'
                 /\ Fresh(i)' => SlotOK(i)' /\ Shows(Shown(i), Wanted(i))'
      <4>1. /\ Toward(i, Wanted(i))
            /\ Fresh(i) => SlotOK(i) /\ Shows(Shown(i), Wanted(i))
        BY <3>1 DEF OpenOK
      <4>2. CASE i = s
        <5>1. ~Present(manifest.files[i].name)
          BY <1>2, <3>1, <4>2 DEF LogOK
        <5>2. manifest.files[i].name \in Paths /\ manifest.files[i].ver \in 1..clock
          BY DEF IInv, TypesOK, StoreOK, EntriesOK
        <5>3. ~Fresh(i) /\ Wanted(i) = {}
          <6>1. corpus[manifest.files[i].name].ver = 0 /\ Wanted(i) = {}
            BY <5>1, <5>2 DEF Present, Wanted, IInv, TypesOK, WorldOK
          <6>2. manifest.files[i].ver # 0
            BY <5>2
          <6> QED BY <6>1, <6>2 DEF Fresh
        <5>4. damaged \/ Shown(i) = {}
          <6>1. damaged \/ View \subseteq Words \X Live(files)
            BY <1>3, <1>5, <3>1 DEF EndOK
          <6> QED BY <1>7, <4>2, <6>1 DEF Shown
        <5> QED BY <1>1, <1>4, <1>5, <4>2, <5>3, <5>4 DEF Toward
      <4>3. CASE i # s
        <5>1. UNCHANGED damaged /\ sidecars'[i] = sidecars[i]
          BY <1>1, <1>4, <4>3
        <5> QED BY <1>5, <4>1, <5>1 DEF Toward, SlotOK, Shows
      <4> QED BY <4>2, <4>3
    <3>3. damaged' \/ \A k \in View' : k[2] \in Live(manifest'.files) \/ Awaited(k)'
      BY <1>1, <1>5, <3>1 DEF OpenOK
    <3> QED BY <1>1, <3>2, <3>3 DEF OpenOK
  <2> QED BY <1>1, <2>1 DEF RestOK, Resting, Planning, FoldPcs
<1> QED BY <1>5, <1>10, <1>11 DEF IInv

\* The manifest makes the outcome of the run that of the index.
LEMMA CommittedIndex ==
  ASSUME IInv, CommitManifest
  PROVE  /\ pc = "commit" /\ op \in {"update", "build"} /\ log = <<>> /\ cards = <<>> /\ gone = {}
         /\ manifest'.files = files /\ UNCHANGED <<corpus, clock, fst, wal, sidecars, damaged>>
         /\ WorldOK' /\ StoreOK' /\ settled' \in BOOLEAN
         /\ gap' \in {"none", "changed", "rebuild"}
         /\ Fits(<<>>, 0)' /\ Fits(manifest.files, 0)' /\ Fits(files, 0)
         /\ (gap' = "none" => NoneOK') /\ SettledOK'
<1>1. /\ pc = "commit" /\ pc \in Ending /\ log = <<>> /\ cards = <<>> /\ gone = {}
      /\ manifest'.files = files
      /\ UNCHANGED <<world, corpus, clock, fst, wal, sidecars, damaged>>
      /\ settled' = ~moved /\ gap' = IF op = "build" \/ gap = "open" THEN "none" ELSE gap
  BY DEF CommitManifest, Written, Ending, world
<1>2. op \in {"update", "build"}
  BY <1>1 DEF IInv, PhaseOK, Planning
<1>3. EndOK /\ EntriesOK(clock, files) /\ files \in Seq(Entry)
  BY DEF IInv, TypesOK, RunOK, EntriesOK
<1>4. WorldOK'
  BY <1>1 DEF IInv, TypesOK, WorldOK
<1>5. StoreOK'
  <2>1. PICK n \in Nat : n = manifest.seq
    BY DEF IInv, TypesOK, StoreOK
  <2>2. PICK m \in Nat : m = IF op = "build" THEN 0 ELSE n + 1
    BY <2>1
  <2>3. manifest' = [exists |-> TRUE, files |-> files, seq |-> m]
    BY <2>1, <2>2 DEF CommitManifest
  <2>4. manifest' \in [exists : BOOLEAN, files : Seq(Entry), seq : Nat]
    BY <1>3, <2>3
  <2> QED BY <1>1, <1>3, <2>4 DEF IInv, TypesOK, StoreOK
<1>6. settled' \in BOOLEAN /\ gap' \in {"none", "changed", "rebuild"}
  BY <1>1 DEF IInv, TypesOK, HistoryOK
<1>7. Fits(<<>>, 0)' /\ Fits(manifest.files, 0)' /\ Fits(files, 0)
  <2>1. Fits(<<>>, 0) /\ Fits(files, Behind)
    BY DEF IInv, FitsOK
  <2>2. Behind = 0
    BY <1>1 DEF Behind
  <2> QED BY <1>1, <2>1, <2>2 DEF Fits
<1>8. View' = View /\ \A i : Shown(i)' = Shown(i)
  BY <1>1, SameLayers
<1>9. /\ Outcome = View /\ \A i : WillShow(i) = Shown(i)
      /\ Excused <=> damaged
  BY <1>1, AllLogged
<1>10. ASSUME gap' = "none"
       PROVE  NoneOK'
  <2>1. Sound
    BY <1>1, <1>10, <1>2 DEF Sound
  <2>2. ASSUME NEW i \in Live(files)
        PROVE  SlotOK(i)' /\ (Fresh(i)' => Shows(Shown(i), Wanted(i))')
    <3>1. /\ files[i].ver = corpus[files[i].name].ver => WillBe(i, corpus[files[i].name].words)
          /\ ~Carded(i) => WillBe(i, sidecars[i]) \/ (sidecars[i] \subseteq WillShow(i) /\ damaged)
      BY <1>1, <1>3, <2>1, <2>2 DEF EndOK
    <3>2. ~Carded(i)
      BY <1>1, EmptyPlan DEF Carded
    <3>3. SlotOK(i)'
      BY <1>1, <1>8, <1>9, <3>1, <3>2 DEF SlotOK, WillBe
    <3>4. Fresh(i)' => Shows(Shown(i), Wanted(i))'
      BY <1>1, <1>8, <1>9, <3>1 DEF Fresh, Wanted, Shows, WillBe
    <3> QED BY <3>3, <3>4
  <2>3. damaged' \/ View' \subseteq Words \X Live(files)
    BY <1>1, <1>3, <1>8, <1>9, <2>1 DEF EndOK
  <2> QED BY <1>1, <2>2, <2>3 DEF NoneOK
<1>11. SettledOK'
  <2>1. ~moved => Current(files)
    BY <1>1, <1>3 DEF EndOK
  <2>2. Current(manifest.files)' <=> Current(files)
    BY <1>1 DEF Current, Present
  <2> QED BY <1>1, <2>1, <2>2 DEF SettledOK
<1> QED BY <1>1, <1>2, <1>4, <1>5, <1>6, <1>7, <1>10, <1>11

LEMMA CommitStep ==
  ASSUME IInv, CommitManifest
  PROVE  IInv'
<1>1. /\ pc = "commit" /\ op \in {"update", "build"} /\ log = <<>> /\ cards = <<>> /\ gone = {}
      /\ manifest'.files = files /\ UNCHANGED <<corpus, clock, fst, wal, sidecars, damaged>>
      /\ WorldOK' /\ StoreOK' /\ settled' \in BOOLEAN
      /\ gap' \in {"none", "changed", "rebuild"}
      /\ Fits(<<>>, 0)' /\ Fits(manifest.files, 0)' /\ Fits(files, 0)
      /\ (gap' = "none" => NoneOK') /\ SettledOK'
  BY CommittedIndex
<1>2. damaged' \in BOOLEAN /\ gap' \in {"none", "open", "changed", "rebuild"} /\ gap' # "open"
  BY <1>1 DEF IInv, TypesOK, HistoryOK
<1>3. CASE Release
  <2>1. RestOK'
    BY <1>1, <1>2, <1>3, ReleasedRun DEF RestOK
  <2> QED BY <1>1, <1>2, <1>3, <2>1, IdleStep
<1>4. CASE /\ op = "update" /\ wal.exists /\ pc' = "fold"
           /\ UNCHANGED <<op, todo, disk, ver, files, log, cards, gone, moved>>
  <2>1. TypesOK'
    BY <1>1, <1>2, <1>4 DEF IInv, TypesOK, RunOK, HistoryOK
  <2>2. PhaseOK'
    <3>1. todo = {}
      BY <1>1 DEF IInv, PhaseOK, Planning
    <3> QED BY <1>1, <1>2, <1>4, <3>1
            DEF PhaseOK, Pcs, Planning, Ending, Rebuilding, Resting, FoldPcs
  <2>3. FitsOK'
    <3>1. Behind' = 0 /\ pc' \notin Planning
      BY <1>4 DEF Behind, Planning
    <3>2. Fits(files, Behind)'
      BY <1>1, <1>4, <3>1 DEF Fits
    <3> QED BY <1>1, <3>1, <3>2 DEF FitsOK
  <2>4. RestOK'
    BY <1>1, <1>2, <1>4 DEF RestOK
  <2>5. PlanOK' /\ EndOK' /\ FoldedOK'
    BY <1>4 DEF PlanOK, EndOK, FoldedOK, Planning, Ending, Rebuilding
  <2> QED BY <1>1, <2>1, <2>2, <2>3, <2>4, <2>5 DEF IInv
<1> QED BY <1>3, <1>4 DEF CommitManifest, AfterCommit, Go

-----------------------------------------------------------------------------
(* Compaction, deaths and damage.                                          *)

LEMMA FoldingStep ==
  ASSUME IInv, pc \in FoldPcs, pc' \in FoldPcs, View' = View,
         UNCHANGED <<world, sidecars, manifest, plan, history>>,
         fst' \in [exists : BOOLEAN, keys : SUBSET Keys],
         wal' \in [exists : BOOLEAN, add : SUBSET Keys, del : SUBSET Keys],
         wal'.add \cap wal'.del = {},
         pc' = "unlinkWal" => fst'.keys = View
  PROVE  IInv'
<1>1. /\ UNCHANGED <<corpus, clock, op, todo, disk, ver, files, log, cards, gone>>
      /\ UNCHANGED <<moved, settled, gap, damaged>>
  BY DEF world, plan, history
<1>2. TypesOK'
  BY <1>1 DEF IInv, TypesOK, WorldOK, StoreOK, RunOK, HistoryOK
<1>3. PhaseOK'
  BY <1>1 DEF IInv, PhaseOK, Pcs, Planning, Ending, Rebuilding, Resting, FoldPcs
<1>4. pc \notin Planning /\ pc' \notin Planning /\ pc \notin Ending /\ pc' \notin Ending
      /\ pc # "read" /\ pc' # "read"
  BY DEF FoldPcs, Planning, Ending, Rebuilding
<1>5. FitsOK'
  <2>1. Behind = 0 /\ Behind' = 0
    BY <1>4 DEF Behind
  <2>2. Fits(files, Behind)'
    BY <1>1, <2>1 DEF IInv, FitsOK, Fits
  <2> QED BY <1>4, <2>2, QuietFits DEF FitsOK
<1>6. RestOK'
  <2>1. SameIndex
    BY <1>1 DEF SameIndex
  <2>2. pc \in Resting /\ pc' \in Resting
    BY DEF Resting
  <2> QED BY <1>1, <2>1, <2>2, QuietRest
<1>7. SettledOK'
  BY <1>1, QuietSettled
<1>8. PlanOK' /\ EndOK' /\ FoldedOK'
  BY <1>4 DEF PlanOK, EndOK, FoldedOK
<1> QED BY <1>2, <1>3, <1>5, <1>6, <1>7, <1>8 DEF IInv

LEMMA FoldStep ==
  ASSUME IInv, Fold
  PROVE  IInv'
<1>1. /\ pc = "fold" /\ pc' = "unlinkWal" /\ fst' = [exists |-> TRUE, keys |-> View] /\ wal' = wal
      /\ UNCHANGED <<world, sidecars, manifest, plan, history>>
  BY DEF Fold, Go, Fst
<1>2. /\ View \subseteq Keys /\ wal.add \cap wal.del = {}
      /\ wal \in [exists : BOOLEAN, add : SUBSET Keys, del : SUBSET Keys]
  BY KeysArePairs DEF IInv, TypesOK, StoreOK
<1>3. View' = View
  BY <1>1, <1>2 DEF View
<1>4. fst' \in [exists : BOOLEAN, keys : SUBSET Keys] /\ fst'.keys = View
  BY <1>1, <1>2
<1>5. pc \in FoldPcs /\ pc' \in FoldPcs
  BY <1>1 DEF FoldPcs
<1> QED BY <1>1, <1>2, <1>3, <1>4, <1>5, FoldingStep

LEMMA UnlinkWalStep ==
  ASSUME IInv, UnlinkWal
  PROVE  IInv'
<1>1. /\ pc = "unlinkWal" /\ pc' = "bump" /\ fst' = fst /\ wal' = NoWal
      /\ UNCHANGED <<world, sidecars, manifest, plan, history>>
  BY DEF UnlinkWal, Go
<1>2. fst.keys = View /\ fst \in [exists : BOOLEAN, keys : SUBSET Keys]
  BY <1>1 DEF IInv, FoldedOK, TypesOK, StoreOK
<1>3. View' = View
  BY <1>1, <1>2 DEF View, NoWal
<1>4. wal' \in [exists : BOOLEAN, add : SUBSET Keys, del : SUBSET Keys] /\ wal'.add \cap wal'.del = {}
  BY <1>1 DEF NoWal
<1>5. pc \in FoldPcs /\ pc' \in FoldPcs /\ pc' # "unlinkWal"
  BY <1>1 DEF FoldPcs
<1> QED BY <1>1, <1>2, <1>3, <1>4, <1>5, FoldingStep

LEMMA BumpStep ==
  ASSUME IInv, BumpSeq
  PROVE  IInv'
<1>1. /\ pc = "bump" /\ Release /\ UNCHANGED <<fst, wal, sidecars, settled, gap, damaged>>
      /\ UNCHANGED world /\ UNCHANGED <<corpus, clock>>
  BY DEF BumpSeq, world
<1>2. manifest'.files = manifest.files
      /\ manifest' \in [exists : BOOLEAN, files : Seq(Entry), seq : Nat]
  <2>1. manifest \in [exists : BOOLEAN, files : Seq(Entry), seq : Nat]
    BY DEF IInv, TypesOK, StoreOK
  <2>2. PICK n \in Nat : n = manifest.seq
    BY <2>1
  <2>3. PICK m \in Nat : m = n + 1
    OBVIOUS
  <2>4. manifest' = IF manifest.exists THEN [manifest EXCEPT !.seq = m] ELSE manifest
    BY <2>2, <2>3 DEF BumpSeq
  <2> QED BY <2>1, <2>4
<1>3. WorldOK' /\ StoreOK'
  BY <1>1, <1>2 DEF IInv, TypesOK, WorldOK, StoreOK
<1>4. SameIndex
  BY <1>1, <1>2, SameLayers DEF SameIndex
<1>5. RestOK'
  <2>1. pc \in Resting /\ pc' \in Resting
    BY <1>1, ReleasedRun DEF Resting, FoldPcs
  <2> QED BY <1>1, <1>4, <2>1, QuietRest
<1>6. SettledOK' /\ Fits(<<>>, 0)' /\ Fits(manifest.files, 0)'
  BY <1>1, <1>2, QuietSettled, QuietFits
<1>7. /\ settled' \in BOOLEAN /\ damaged' \in BOOLEAN
      /\ gap' \in {"none", "open", "changed", "rebuild"}
  BY <1>1 DEF IInv, TypesOK, HistoryOK
<1> QED BY <1>1, <1>3, <1>5, <1>6, <1>7, IdleStep

\* A death leaves an index that the next update completes, unless files
\* changed under the run or a build was replacing the base.
LEMMA CrashStep ==
  ASSUME IInv, Crash
  PROVE  IInv'
<1>1. /\ pc # "idle" /\ Release /\ UNCHANGED <<world, store, settled, damaged>>
      /\ UNCHANGED <<corpus, clock>>
      /\ gap' = IF pc = "dropWal" \/ (pc = "commit" /\ op = "build") THEN "rebuild"
                ELSE IF pc = "commit" /\ gap = "none"
                THEN IF moved THEN "changed" ELSE "open"
                ELSE gap
  BY DEF Crash, world
<1>2. /\ settled' \in BOOLEAN /\ damaged' \in BOOLEAN
      /\ gap \in {"none", "open", "changed", "rebuild"}
      /\ gap' \in {"none", "open", "changed", "rebuild"}
  BY <1>1 DEF IInv, TypesOK, HistoryOK
<1>3. SameIndex /\ manifest'.files = manifest.files
  BY <1>1, SameLayers DEF SameIndex, store
<1>4. SettledOK' /\ Fits(<<>>, 0)' /\ Fits(manifest.files, 0)'
  BY <1>1, <1>3, QuietSettled, QuietFits
<1>5. (NoneOK' <=> NoneOK) /\ (OpenOK' <=> OpenOK)
  BY <1>3, SameRest
<1>6. (gap' = "none" => NoneOK') /\ (gap' = "open" => OpenOK')
  <2>1. CASE pc = "commit" /\ op # "build"
    <3>1. op = "update" /\ (gap = "open" => ~moved)
      BY <2>1 DEF IInv, PhaseOK, Planning
    <3>2. ~moved /\ gap \in {"none", "open"} => OpenOK
      BY <2>1, <3>1 DEF IInv, RestOK
    <3> QED BY <1>1, <1>2, <1>5, <2>1, <3>1, <3>2
  <2>2. CASE pc = "dropWal" \/ (pc = "commit" /\ op = "build")
    BY <1>1, <2>2
  <2>3. CASE pc \notin {"dropWal", "commit"}
    <3>1. pc \in Resting \cup Planning \cup {"rebase"}
      BY <2>3 DEF IInv, PhaseOK, Pcs, Resting, Planning
    <3>2. gap' = gap /\ (gap = "none" => NoneOK) /\ (gap = "open" => OpenOK)
      BY <1>1, <2>3, <3>1 DEF IInv, RestOK
    <3> QED BY <1>5, <3>2
  <2> QED BY <2>1, <2>2, <2>3
<1>7. RestOK'
  BY <1>6, <1>1, ReleasedRun DEF RestOK
<1> QED BY <1>1, <1>2, <1>4, <1>7, QuietTypes, IdleStep

LEMMA DamageStep ==
  ASSUME IInv, NEW s \in Slots, DamageSidecar(s)
  PROVE  IInv'
<1>1. /\ sidecars' = [sidecars EXCEPT ![s] = {}] /\ damaged' = TRUE
      /\ UNCHANGED <<world, corpus, clock, fst, wal, manifest, pc>>
      /\ UNCHANGED <<op, todo, disk, ver, files, log, cards, gone, moved, settled, gap>>
  BY DEF DamageSidecar, world, plan
<1>2. /\ sidecars' \in [Slots -> SUBSET Words]
      /\ \A i \in Slots : sidecars'[i] \subseteq sidecars[i]
  BY <1>1 DEF IInv, TypesOK, StoreOK
<1>3. TypesOK' /\ PhaseOK' /\ SettledOK' /\ FoldedOK'
  <2>1. TypesOK'
    BY <1>1, <1>2 DEF IInv, TypesOK, WorldOK, StoreOK, RunOK, HistoryOK
  <2>2. PhaseOK'
    BY <1>1 DEF IInv, PhaseOK
  <2>3. SettledOK'
    BY <1>1, QuietSettled
  <2>4. FoldedOK'
    BY <1>1, SameLayers DEF IInv, FoldedOK
  <2> QED BY <2>1, <2>2, <2>3, <2>4
<1>4. FitsOK'
  <2>1. turn' = turn /\ file' = file
    BY <1>1 DEF turn, file
  <2>2. Behind' = Behind
    BY <1>1, <2>1 DEF Behind
  <2> QED BY <1>1, <2>2 DEF IInv, FitsOK, Fits, Present
<1>5. /\ View' = View /\ \A i : Shown(i)' = Shown(i)
      /\ SameOutcome
  BY <1>1, SameLayers, SamePlanSameOutcome
<1>6. /\ \A k : Awaited(k)' <=> Awaited(k)
      /\ \A i : (Fresh(i)' <=> Fresh(i)) /\ Wanted(i)' = Wanted(i)
      /\ \A f : Present(f)' <=> Present(f)
  BY <1>1, SameNewsOfFiles
<1>7. \A i \in DOMAIN manifest.files \cup DOMAIN files : i \in Slots
  <2>1. Len(manifest.files) <= MaxWrites /\ Len(files) <= MaxWrites
    <3>1. PICK U : U = Unindexed(corpus, files)
      OBVIOUS
    <3>2. PICK V : V = Unindexed(corpus, manifest.files)
      OBVIOUS
    <3>3. Cardinality(U) \in Nat /\ Cardinality(V) \in Nat
      BY <3>1, <3>2, UnindexedFinite
    <3>4. /\ Len(files) + Cardinality(U) + Behind <= clock /\ Behind \in {0, 1}
          /\ Len(manifest.files) + Cardinality(V) + 0 <= clock
      BY <3>1, <3>2 DEF IInv, FitsOK, Fits, Behind
    <3>5. clock \in 0..MaxWrites /\ MaxWrites \in Nat
      BY BoundsAssumption DEF IInv, TypesOK, WorldOK
    <3>6. files \in Seq(Entry) /\ manifest.files \in Seq(Entry)
      BY DEF IInv, TypesOK, StoreOK, RunOK, EntriesOK
    <3>7. Len(files) \in Nat /\ Len(manifest.files) \in Nat
      BY <3>6, LenProperties
    <3> QED BY <3>3, <3>4, <3>5, <3>7
  <2>2. /\ DOMAIN files = 1..Len(files) /\ Len(files) \in Nat
        /\ DOMAIN manifest.files = 1..Len(manifest.files) /\ Len(manifest.files) \in Nat
    BY EntryOfLive DEF IInv, TypesOK, StoreOK, RunOK, EntriesOK
  <2>3. MaxWrites \in Nat
    BY BoundsAssumption
  <2> QED BY <2>1, <2>2, <2>3 DEF Slots
<1>8. (NoneOK => NoneOK') /\ (OpenOK => OpenOK')
  <2>1. \A i \in Slots : (SlotOK(i) => SlotOK(i)')
    BY <1>1, <1>2, <1>5 DEF SlotOK
  <2>2. \A i \in Slots : (Toward(i, Wanted(i)) => Toward(i, Wanted(i))')
    BY <1>1, <1>2, <1>5, <1>6 DEF Toward
  <2>3. \A i \in Slots : (Shows(Shown(i), Wanted(i)) => Shows(Shown(i), Wanted(i))')
    BY <1>1, <1>5, <1>6 DEF Shows
  <2>4. \A i \in Live(manifest.files) : i \in Slots
    BY <1>7 DEF Live
  <2>5. NoneOK => NoneOK'
    BY <1>1, <1>6, <2>1, <2>3, <2>4 DEF NoneOK
  <2>6. OpenOK => OpenOK'
    BY <1>1, <1>6, <2>1, <2>2, <2>3, <2>4 DEF OpenOK
  <2> QED BY <2>5, <2>6
<1>9. RestOK'
  BY <1>1, <1>8 DEF IInv, RestOK
<1>10. /\ (Sound' <=> Sound) /\ (Excused => Excused')
       /\ \A i, ws : WillBe(i, ws) => WillBe(i, ws)'
  <2>1. (Sound' <=> Sound) /\ (Excused => Excused')
    BY <1>1 DEF Sound, Excused
  <2> QED BY <1>5, <2>1 DEF WillBe, SameOutcome
<1>11. /\ CardsOK => CardsOK'
       /\ LogOK => LogOK'
       /\ ReadOK => ReadOK'
       /\ BuildOK => BuildOK'
       /\ UpdateOK => UpdateOK'
  <2>1. CardsOK => CardsOK'
    BY <1>1, <1>5, <1>10 DEF CardsOK, SameOutcome
  <2>2. LogOK => LogOK'
    BY <1>1, <1>5, <1>6 DEF LogOK, SameOutcome
  <2>3. ReadOK => ReadOK'
    BY <1>1 DEF ReadOK
  <2>4. (BuildOK => BuildOK') /\ (UpdateOK => UpdateOK')
    BY <1>1, <1>5 DEF BuildOK, UpdateOK, SameOutcome
  <2> QED BY <2>1, <2>2, <2>3, <2>4
<1>12. PlanOK'
  <2>1. CalmPlan => CalmPlan'
    <3>1. /\ turn' = turn /\ file' = file /\ Handled' = Handled
          /\ \A p : Rank(p)' = Rank(p) /\ (NewAt(p)' <=> NewAt(p))
      BY <1>1 DEF turn, file, Handled, Rank, NewAt, Present
    <3>2. {p \in Handled' : NewAt(p)'} = {p \in Handled : NewAt(p)}
      BY <3>1
    <3> QED BY <1>1, <1>6, <3>1, <3>2 DEF CalmPlan
  <2>2. file' = file
    BY <1>1 DEF turn, file
  <2> QED BY <1>1, <1>11, <2>1, <2>2 DEF IInv, PlanOK
<1>13. EndOK'
  <2>1. CASE pc \notin Ending
    BY <1>1, <2>1 DEF EndOK
  <2>2. CASE pc \in Ending
    <3>1. EndOK
      BY DEF IInv
    <3>2. /\ CardsOK' /\ gone' \cap Live(files') = {}
          /\ pc' \in Rebuilding => \A i \in Live(files') : Carded(i)'
          /\ pc' = "dropWal" => fst'.keys = CardKeys'
      BY <1>1, <1>5, <1>11, <2>2, <3>1 DEF EndOK, SameOutcome
    <3>3. ~moved' => Current(files)' /\ (op' = "update" => LogOK')
      <4>1. Current(files)' <=> Current(files)
        BY <1>1, <1>6 DEF Current
      <4> QED BY <1>1, <1>11, <2>2, <3>1, <4>1 DEF EndOK
    <3>4. ASSUME Sound', NEW i \in Live(files')
          PROVE  /\ files'[i].ver = corpus'[files'[i].name].ver => WillBe(i, corpus[files[i].name].words)'
                 /\ ~Carded(i)' => WillBe(i, sidecars[i])' \/ (sidecars'[i] \subseteq WillShow(i)' /\ damaged')
      <4>1. /\ files[i].ver = corpus[files[i].name].ver => WillBe(i, corpus[files[i].name].words)
            /\ ~Carded(i) => WillBe(i, sidecars[i]) \/ (sidecars[i] \subseteq WillShow(i) /\ damaged)
        BY <1>1, <1>10, <2>2, <3>1, <3>4 DEF EndOK
      <4>2. ASSUME ~Carded(i)
            PROVE  sidecars'[i] \subseteq WillShow(i)'
        <5>1. i \in Slots
          BY <1>1, <1>7, <3>4 DEF Live
        <5>2. sidecars[i] \subseteq WillShow(i)
          BY <4>1, <4>2 DEF WillBe
        <5> QED BY <1>2, <1>5, <5>1, <5>2 DEF SameOutcome
      <4>3. files'[i].ver = corpus'[files'[i].name].ver => WillBe(i, corpus[files[i].name].words)'
        <5>1. PICK ws : ws = corpus[files[i].name].words
          OBVIOUS
        <5>2. corpus'[files'[i].name].words = ws
          BY <1>1, <5>1
        <5>3. WillBe(i, ws) => WillBe(i, ws)'
          BY <1>10
        <5> QED BY <1>1, <4>1, <5>1, <5>2, <5>3
      <4> QED BY <1>1, <1>5, <4>2, <4>3 DEF SameOutcome
    <3>5. Sound' => (Excused' \/ Outcome' \subseteq Words \X Live(files'))
      BY <1>1, <1>5, <1>10, <2>2, <3>1 DEF EndOK, SameOutcome
    <3> QED BY <3>2, <3>3, <3>4, <3>5 DEF EndOK
  <2> QED BY <2>1, <2>2
<1> QED BY <1>3, <1>4, <1>9, <1>12, <1>13 DEF IInv

-----------------------------------------------------------------------------
(* The invariant holds, and what follows from it.                          *)

LEMMA InitIInv ==
  ASSUME Init
  PROVE  IInv
<1>1. /\ corpus = [f \in Paths |-> [ver |-> 0, words |-> {}]] /\ clock = 0
      /\ fst = NoFst /\ wal = NoWal /\ sidecars = [i \in Slots |-> {}]
      /\ manifest = [exists |-> FALSE, files |-> <<>>, seq |-> 0]
      /\ pc = "idle" /\ op = "none"
      /\ todo = {} /\ disk = {} /\ ver = 0 /\ files = <<>>
      /\ log = <<>> /\ cards = <<>> /\ gone = {}
      /\ moved = FALSE /\ settled = FALSE /\ gap = "none" /\ damaged = FALSE
  BY DEF Init
<1>2. manifest.files = <<>>
  BY <1>1
<1>3. \A f \in Paths : corpus[f].ver = 0 /\ corpus[f].words = {}
  BY <1>1
<1>4. WorldOK
  <2>1. 0 \in 0..MaxWrites /\ 0 \in 0..clock
    BY <1>1, BoundsAssumption
  <2>2. corpus \in [Paths -> [ver : 0..clock, words : SUBSET Words]]
    BY <1>1, <2>1
  <2> QED BY <1>1, <1>3, <2>1, <2>2 DEF WorldOK
<1>5. StoreOK
  <2>1. fst \in [exists : BOOLEAN, keys : SUBSET Keys]
    BY <1>1 DEF NoFst
  <2>2. wal \in [exists : BOOLEAN, add : SUBSET Keys, del : SUBSET Keys] /\ wal.add \cap wal.del = {}
    BY <1>1 DEF NoWal
  <2>3. <<>> \in Seq(Entry)
    BY EmptySeq
  <2>4. manifest \in [exists : BOOLEAN, files : Seq(Entry), seq : Nat]
    BY <1>1, <2>3
  <2>5. sidecars \in [Slots -> SUBSET Words]
    BY <1>1
  <2> QED BY <1>2, <2>1, <2>2, <2>4, <2>5, NoEntries DEF StoreOK
<1>6. RunOK /\ HistoryOK
  <2>1. <<>> \in Seq(Record) /\ <<>> \in Seq(Card)
    BY EmptySeq
  <2>2. 0 \in 0..clock
    BY <1>1
  <2> QED BY <1>1, <2>1, <2>2, NoEntries DEF RunOK, HistoryOK
<1>7. PhaseOK
  BY <1>1 DEF PhaseOK, Pcs, Planning, Ending, Rebuilding, Resting, FoldPcs
<1>8. FitsOK
  <2>1. Unindexed(corpus, <<>>) = {}
    BY <1>3 DEF Unindexed
  <2>2. Cardinality(Unindexed(corpus, <<>>)) = 0 /\ Len(<<>>) = 0
    BY <2>1, FS_EmptySet
  <2>3. Fits(<<>>, 0)
    BY <1>1, <2>2 DEF Fits
  <2>4. Behind = 0 /\ pc \notin Planning
    BY <1>1 DEF Behind, Planning
  <2> QED BY <1>1, <1>2, <2>3, <2>4 DEF FitsOK
<1>9. RestOK
  <2>1. Live(manifest.files) = {} /\ View = {}
    BY <1>1, <1>2, EmptyPlan DEF View, NoFst, NoWal
  <2>2. NoneOK
    BY <2>1 DEF NoneOK
  <2> QED BY <1>1, <2>2 DEF RestOK
<1>10. SettledOK /\ PlanOK /\ EndOK /\ FoldedOK
  BY <1>1 DEF SettledOK, PlanOK, EndOK, FoldedOK, Planning, Ending, Rebuilding
<1> QED BY <1>4, <1>5, <1>6, <1>7, <1>8, <1>9, <1>10 DEF IInv, TypesOK

LEMMA StutterIInv ==
  ASSUME IInv, UNCHANGED vars
  PROVE  IInv'
<1>1. /\ UNCHANGED <<corpus, clock, fst, wal, sidecars, manifest, pc, op, todo, disk, ver, files>>
      /\ UNCHANGED <<log, cards, gone, faults, moved, settled, gap, damaged>>
  BY DEF vars, world, store, plan, history
<1>2. TypesOK' /\ PhaseOK'
  BY <1>1 DEF IInv, TypesOK, WorldOK, StoreOK, RunOK, HistoryOK, PhaseOK
<1>3. turn' = turn /\ file' = file /\ \A f : Present(f)' <=> Present(f)
  BY <1>1 DEF turn, file, Present
<1>4. FitsOK'
  BY <1>1, <1>3 DEF IInv, FitsOK, Fits, Behind
<1>5. View' = View /\ SameIndex /\ SameOutcome
  BY <1>1, SameLayers, SamePlanSameOutcome DEF SameIndex
<1>6. RestOK'
  BY <1>1, <1>5, SameRest DEF IInv, RestOK
<1>7. SettledOK' /\ FoldedOK'
  BY <1>1, <1>5, QuietSettled DEF IInv, FoldedOK
<1>8. /\ \A k : Awaited(k)' <=> Awaited(k)
      /\ \A i : (Fresh(i)' <=> Fresh(i)) /\ Wanted(i)' = Wanted(i)
  BY <1>1, SameNewsOfFiles
<1>9. (Sound' <=> Sound) /\ (Excused' <=> Excused)
  BY <1>1 DEF Sound, Excused
<1>10. \A i, ws : WillBe(i, ws)' <=> WillBe(i, ws)
  BY <1>5, <1>9 DEF WillBe, SameOutcome
<1>11. (CardsOK' <=> CardsOK) /\ (ReadOK' <=> ReadOK) /\ (LogOK' <=> LogOK)
  <2>1. CardsOK' <=> CardsOK
    BY <1>1, <1>5, <1>9, <1>10 DEF CardsOK, SameOutcome
  <2>2. ReadOK' <=> ReadOK
    BY <1>1 DEF ReadOK
  <2>3. LogOK' <=> LogOK
    BY <1>1, <1>3, <1>5, <1>8 DEF LogOK, SameOutcome
  <2> QED BY <2>1, <2>2, <2>3
<1>12. (BuildOK' <=> BuildOK) /\ (UpdateOK' <=> UpdateOK)
  BY <1>1, <1>5 DEF BuildOK, UpdateOK, SameOutcome
<1>13. CalmPlan' <=> CalmPlan
  <2>1. Handled' = Handled /\ \A p : Rank(p)' = Rank(p) /\ (NewAt(p)' <=> NewAt(p))
    BY <1>1 DEF Handled, Rank, NewAt, Present
  <2>2. {p \in Handled' : NewAt(p)'} = {p \in Handled : NewAt(p)}
    BY <2>1
  <2> QED BY <1>1, <1>3, <2>1, <2>2 DEF CalmPlan
<1>14. PlanOK'
  BY <1>1, <1>3, <1>11, <1>12, <1>13 DEF IInv, PlanOK
<1>15. Current(files)' <=> Current(files)
  BY <1>1, <1>3 DEF Current
<1>16. EndOK'
  BY <1>1, <1>5, <1>9, <1>10, <1>11, <1>15 DEF IInv, EndOK, SameOutcome
<1> QED BY <1>2, <1>4, <1>6, <1>7, <1>14, <1>16 DEF IInv

LEMMA StepIInv ==
  ASSUME IInv, [Next]_vars
  PROVE  IInv'
<1>1. ASSUME NEW f \in Paths, NEW ws \in Texts, WriteFile(f, ws)
      PROVE  IInv'
  BY <1>1, WriteMoves, MovedStep
<1>2. ASSUME NEW f \in Paths, DeleteFile(f)
      PROVE  IInv'
  BY <1>2, DeleteMoves, MovedStep
<1>3. CASE Update
  BY <1>3, StartIndexing DEF Update
<1>4. CASE Build
  BY <1>4, StartIndexing DEF Build
<1>5. CASE Compact
  BY <1>5, StartCompacting
<1>6. CASE Stat \/ ReadFile \/ ReadFails \/ TombstonePass
  BY <1>6, StatStep, ReadStep, ReadFailsStep, TombstoneStep
<1>7. CASE SaveFst \/ DropWal \/ AppendRecord \/ WriteSidecar \/ UnlinkSidecar \/ CommitManifest
  BY <1>7, SaveFstStep, DropWalStep, AppendStep, WriteSidecarStep, UnlinkSidecarStep, CommitStep
<1>8. CASE Fold \/ UnlinkWal \/ BumpSeq \/ Crash
  BY <1>8, FoldStep, UnlinkWalStep, BumpStep, CrashStep
<1>9. ASSUME NEW i \in Slots, DamageSidecar(i)
      PROVE  IInv'
  BY <1>9, DamageStep
<1> QED BY <1>1, <1>2, <1>3, <1>4, <1>5, <1>6, <1>7, <1>8, <1>9, StutterIInv DEF Next

\* Whatever users do to the files, whichever writers run and wherever they die
\* or a sidecar is damaged, a run knows what the index shows and will show.
THEOREM Invariance == Spec => []IInv
<1>1. Init => IInv
  BY InitIInv
<1>2. IInv /\ [Next]_vars => IInv'
  BY StepIInv
<1> QED BY <1>1, <1>2, PTL DEF Spec

LEMMA IInvTypes ==
  ASSUME IInv
  PROVE  TypeOK
<1>1. TypesOK /\ PhaseOK
  BY DEF IInv
<1>2. /\ clock \in 0..MaxWrites
      /\ corpus \in [Paths -> [ver : 0..MaxWrites, words : SUBSET Words]]
  <2>1. clock \in 0..MaxWrites
    BY <1>1 DEF TypesOK, WorldOK
  <2>2. 0..clock \subseteq 0..MaxWrites
    BY <2>1, BoundsAssumption
  <2>3. corpus \in [Paths -> [ver : 0..clock, words : SUBSET Words]]
    BY <1>1 DEF TypesOK, WorldOK
  <2>4. [ver : 0..clock, words : SUBSET Words] \subseteq [ver : 0..MaxWrites, words : SUBSET Words]
    BY <2>2
  <2> QED BY <2>1, <2>3, <2>4
<1>3. ASSUME NEW es \in {manifest.files, files}
      PROVE  /\ DOMAIN es \subseteq Slots
             /\ \A i, j \in Live(es) : es[i].name = es[j].name => i = j
  <2>1. EntriesOK(clock, es) /\ es \in Seq(Entry)
    BY <1>1, <1>3 DEF TypesOK, StoreOK, RunOK, EntriesOK
  <2>2. PICK U : U = Unindexed(corpus, es)
    OBVIOUS
  <2>3. Cardinality(U) \in Nat
    BY <2>2, UnindexedFinite
  <2>4. PICK n \in {0, Behind} : Len(es) + Cardinality(U) + n <= clock
    BY <1>3, <2>2 DEF IInv, FitsOK, Fits
  <2>5. n \in Nat
    BY <2>4 DEF Behind
  <2>6. clock \in 0..MaxWrites /\ MaxWrites \in Nat
    BY <1>2, BoundsAssumption
  <2>7. DOMAIN es = 1..Len(es) /\ Len(es) \in Nat
    BY <2>1, LenProperties
  <2>8. Len(es) <= MaxWrites
    BY <2>3, <2>4, <2>5, <2>6, <2>7
  <2> QED BY <2>1, <2>6, <2>7, <2>8 DEF Slots, EntriesOK
<1>4. op \in {"none", "update", "build", "compact"}
  BY <1>1 DEF PhaseOK, Pcs, Planning, Rebuilding, FoldPcs
<1>5. /\ fst \in [exists : BOOLEAN, keys : SUBSET Keys]
      /\ wal \in [exists : BOOLEAN, add : SUBSET Keys, del : SUBSET Keys]
      /\ wal.add \cap wal.del = {}
      /\ sidecars \in [Slots -> SUBSET Words]
      /\ manifest.exists \in BOOLEAN /\ manifest.seq \in Nat
      /\ pc \in Pcs
      /\ gap \in {"none", "open", "changed", "rebuild"} /\ damaged \in BOOLEAN
  BY <1>1 DEF TypesOK, StoreOK, HistoryOK, PhaseOK
<1> QED BY <1>2, <1>3, <1>4, <1>5 DEF TypeOK

LEMMA RestingIndex ==
  ASSUME IInv, NothingStranded
  PROVE  /\ \A i \in Live(manifest.files) : Fresh(i) => Shows(Shown(i), Wanted(i))
         /\ damaged \/ \A k \in View : k[2] \in Live(manifest.files) \/ Awaited(k)
<1>1. NoneOK \/ OpenOK
  BY DEF IInv, RestOK, NothingStranded, AtRest, Resting
<1> QED BY <1>1, NoneIsOpen DEF OpenOK

LEMMA IInvNoMissedChange ==
  ASSUME IInv
  PROVE  NoMissedChange
BY RestingIndex DEF NoMissedChange, Fresh, Shows

LEMMA IInvSettled ==
  ASSUME IInv
  PROVE  SettledIndexIsExact
<1> SUFFICES ASSUME NothingStranded, settled
             PROVE  FindsAll /\ (damaged \/ FindsNoMore)
  BY DEF SettledIndexIsExact
<1>1. Current(manifest.files)
  BY DEF IInv, SettledOK
<1>2. NamesExact
  <2>1. ASSUME NEW f \in Paths, IsLive(manifest.files, f)
        PROVE  Present(f)
    <3>1. PICK i \in Live(manifest.files) : manifest.files[i].name = f
      BY <2>1 DEF IsLive
    <3>2. manifest.files[i].ver \in 1..clock /\ manifest.files[i].ver = corpus[f].ver
      BY <1>1, <3>1 DEF Current, IInv, TypesOK, StoreOK, EntriesOK
    <3> QED BY <3>2 DEF Present
  <2> QED BY <1>1, <2>1 DEF NamesExact, Current
<1>3. \A i \in Live(manifest.files) : Shows(Shown(i), Wanted(i))
  BY <1>1, RestingIndex DEF Current, Fresh
<1>4. damaged \/ View \subseteq Words \X Live(manifest.files)
  <2>1. ASSUME ~damaged, NEW k \in View
        PROVE  k \in Words \X Live(manifest.files)
    <3>1. k \in Keys
      BY KeysArePairs DEF IInv
    <3>2. ~Awaited(k)
      BY <1>1, FilesFacts DEF Awaited, NewAt, Current
    <3> QED BY <2>1, <3>1, <3>2, RestingIndex DEF Keys
  <2> QED BY <2>1
<1> QED BY <1>2, <1>3, <1>4 DEF FindsAll, FindsNoMore, Shows

\* The state of the index, of a run and of the files has its types; entries
\* never outnumber the slots, and no file has two live slots.
THEOREM TypeCorrect == Spec => []TypeOK
<1>1. IInv => TypeOK
  BY IInvTypes
<1> QED BY <1>1, Invariance, PTL

\* After a run that no file change overlapped a search sees the files that are
\* there, all their words and, unless a sidecar was damaged, no other: also
\* when an earlier update died anywhere and was completed by this one.
THEOREM SettledIsExact == Spec => []SettledIndexIsExact
<1>1. IInv => SettledIndexIsExact
  BY IInvSettled
<1> QED BY <1>1, Invariance, PTL

\* When the version in the manifest is that of the file, the index shows the
\* words of the file: the next update may skip it.
THEOREM NoChangeIsMissed == Spec => []NoMissedChange
<1>1. IInv => NoMissedChange
  BY IInvNoMissedChange
<1> QED BY <1>1, Invariance, PTL

-----------------------------------------------------------------------------
(* Between the save of the folded base and the removal of the WAL, the     *)
(* base alone says what the base and the WAL say together.                 *)

\* The actions that leave the base and the WAL alone.
LeavesLayers == UNCHANGED <<fst, wal>>

LEMMA ViewFollowsLayers == LeavesLayers => View' = View
BY DEF LeavesLayers, View

\* Replaying a WAL into a base that it has been replayed into changes nothing.
LEMMA FoldIsIdempotent ==
  ASSUME Fold
  PROVE  View' = View /\ fst'.keys = View' /\ pc' = "unlinkWal"
<1>1. fst'.keys = View /\ wal' = wal /\ pc' = "unlinkWal"
  BY DEF Fold, Fst, Go
<1>2. View' = (View \ wal.del) \cup wal.add
  BY <1>1 DEF View
<1>3. View' = View
  BY <1>2 DEF View
<1> QED BY <1>1, <1>3

LEMMA UnlinkKeepsView ==
  ASSUME FoldedOK, UnlinkWal
  PROVE  View' = View
<1>1. fst' = fst /\ wal' = NoWal /\ fst.keys = View
  BY DEF UnlinkWal, FoldedOK
<1>2. View' = (fst.keys \ {}) \cup {}
  BY <1>1 DEF View, NoWal
<1> QED BY <1>1, <1>2

\* Steps of the users and of the planning phase.
LEMMA PlanningLeavesLayers ==
  ASSUME \/ \E f \in Paths, ws \in Texts : WriteFile(f, ws)
         \/ \E f \in Paths : DeleteFile(f)
         \/ Update \/ Build \/ Compact
         \/ Stat \/ ReadFile \/ ReadFails \/ TombstonePass
  PROVE  LeavesLayers /\ (pc' = "unlinkWal" => pc = "unlinkWal")
<1>1. CASE \E f \in Paths, ws \in Texts : WriteFile(f, ws)
  BY <1>1 DEF WriteFile, CorpusMoves, LeavesLayers, store
<1>2. CASE \E f \in Paths : DeleteFile(f)
  BY <1>2 DEF DeleteFile, CorpusMoves, LeavesLayers, store
<1>3. CASE Update \/ Build \/ Compact
  BY <1>3 DEF Update, Build, Compact, Start, LeavesLayers, store
<1>4. CASE Stat
  BY <1>4 DEF Stat, Release, Go, LeavesLayers, store
<1>5. CASE ReadFile
  BY <1>5 DEF ReadFile, Go, LeavesLayers, store
<1>6. CASE ReadFails
  BY <1>6 DEF ReadFails, Release, LeavesLayers, store
<1>7. CASE TombstonePass
  <2>1. LeavesLayers
    BY <1>7 DEF TombstonePass, LeavesLayers, store
  <2>2. pc' \in {"idle", "rebase", "commit"}
    BY <1>7 DEF TombstonePass, Release, Go
  <2> QED BY <2>1, <2>2
<1> QED BY <1>1, <1>2, <1>3, <1>4, <1>5, <1>6, <1>7

\* Steps that write sidecars or the manifest, deaths and damages.
LEMMA EndingsLeaveLayers ==
  ASSUME \/ WriteSidecar \/ UnlinkSidecar \/ CommitManifest \/ BumpSeq
         \/ Crash \/ \E i \in Slots : DamageSidecar(i)
  PROVE  LeavesLayers /\ (pc' = "unlinkWal" => pc = "unlinkWal")
<1>1. CASE WriteSidecar
  BY <1>1 DEF WriteSidecar, LeavesLayers
<1>2. CASE UnlinkSidecar
  BY <1>2 DEF UnlinkSidecar, LeavesLayers
<1>3. CASE CommitManifest
  BY <1>3 DEF CommitManifest, AfterCommit, Release, Go, LeavesLayers
<1>4. CASE BumpSeq
  BY <1>4 DEF BumpSeq, Release, LeavesLayers
<1>5. CASE Crash
  BY <1>5 DEF Crash, Release, LeavesLayers, store
<1>6. CASE \E i \in Slots : DamageSidecar(i)
  BY <1>6 DEF DamageSidecar, LeavesLayers
<1> QED BY <1>1, <1>2, <1>3, <1>4, <1>5, <1>6

\* A run that is indexing has folded nothing.
LEMMA IndexingIsNoFolding ==
  ASSUME SaveFst \/ DropWal \/ AppendRecord
  PROVE  pc \notin FoldPcs /\ pc' # "unlinkWal"
BY DEF SaveFst, DropWal, AppendRecord, Go, FoldPcs

LEMMA StepFolded ==
  ASSUME FoldedOK, [Next]_vars
  PROVE  FoldedOK' /\ (pc \in FoldPcs => View' = View)
<1>1. CASE LeavesLayers /\ (pc' = "unlinkWal" => pc = "unlinkWal")
  BY <1>1, ViewFollowsLayers DEF FoldedOK, LeavesLayers
<1>2. CASE UNCHANGED vars
  BY <1>1, <1>2 DEF vars, store, LeavesLayers
<1>3. CASE SaveFst \/ DropWal \/ AppendRecord
  BY <1>3, IndexingIsNoFolding DEF FoldedOK
<1>4. CASE Fold
  BY <1>4, FoldIsIdempotent DEF FoldedOK
<1>5. CASE UnlinkWal
  <2>1. pc' = "bump"
    BY <1>5 DEF UnlinkWal, Go
  <2> QED BY <1>5, <2>1, UnlinkKeepsView DEF FoldedOK
<1> QED
  BY <1>1, <1>2, <1>3, <1>4, <1>5, PlanningLeavesLayers, EndingsLeaveLayers DEF Next

\* No step of a compaction, and no death in it, changes what a search sees:
\* a WAL left behind by a death is replayed to no effect.
THEOREM CompactionKeepsAnswers == Spec => FoldKeepsView
<1>1. Init => FoldedOK
  BY DEF Init, FoldedOK
<1>2. FoldedOK /\ [Next]_vars => FoldedOK'
  BY StepFolded
<1>3. FoldedOK /\ [Next]_vars => [(pc \in FoldPcs) => View' = View]_vars
  BY StepFolded
<1> QED BY <1>1, <1>2, <1>3, PTL DEF Spec, FoldKeepsView
=============================================================================
