------------------------------ MODULE SchemaProofs ------------------------------
(***************************************************************************)
(* Proofs about SchemaUpdate, for any processes, threads, configurations   *)
(* and any number of snapshots: the history of the file is in order, the   *)
(* schema caches are right and an open instance knows the file it reads.   *)
(*                                                                         *)
(* Nobody is told of a change of the number alone (Told): the theorems are *)
(* about the behaviours in which every new number comes with a change of   *)
(* the tables (NumbersShow); that an instance knows its columns holds as   *)
(* long as none is used after reading threw (UsesAfterError).              *)
(***************************************************************************)
EXTENDS SchemaUpdate, FiniteSetTheorems, SequenceTheorems, TLAPS

\* No update changes the number of the file and nothing else.
NumbersShow ==
  \A s \in 1 .. Latest - 1 :
    file[s].version # file[s + 1].version => file[s + 1].log # {}

---------------------------------------------------------------------------------
(* Types. *)

Classes == UNION {DOMAIN TargetOf[c] : c \in Configs}
ColumnType == [name : PropNames, kind : Kinds]
TablesType == UNION {[S -> Seq(ColumnType)] : S \in SUBSET Classes}
SnapshotType == [version : Nat \cup {NotVersioned}, tables : TablesType,
                 migrated : Seq([from : Nat \cup {NotVersioned}, to : Nat]),
                 log : SUBSET {"insert", "erase"}]
CacheType == [snapshot : Nat, version : Nat \cup {NotVersioned}, min : Nat, max : Nat]

STypeOK ==
  /\ file \in Seq(SnapshotType) /\ Latest \in Nat \ {0}
  /\ mode \in {"Automatic", "Additive"}
  /\ config \in [Processes -> Configs]
  /\ cache \in [Processes -> CacheType]
  /\ pc \in [Realms -> Locations]
  /\ group \in [Realms -> Nat] /\ transaction \in [Realms -> Nat] /\ newSchema \in [Realms -> Nat]
  /\ version \in [Realms -> Nat \cup {NotVersioned}]
  /\ DOMAIN schema = Realms /\ DOMAIN actual = Realms
  /\ \A r \in Realms : pc[r] \in {"updated", "finishing"} => group[r] \in 1 .. Latest

---------------------------------------------------------------------------------
(* The inductive invariant. *)

\* No transaction between the two snapshots changed the tables.
Quiet(i, j) == \A k \in i + 1 .. j : file[k].log = {}

\* What a coordinator does not cache.
Blank(s) == DOMAIN file[s].tables = {} \/ file[s].version = NotVersioned

\* Each migration goes up from where the one before it ended.
MigratedInOrder(f) ==
  \A i \in DOMAIN f.migrated :
    LET m == f.migrated[i]
    IN m.from < m.to /\ m.to <= f.version /\ (i > 1 => f.migrated[i - 1].to <= m.from)

History ==
  /\ \A i, j \in 1 .. Latest : i <= j =>
       /\ file[i].version <= file[j].version
       /\ DOMAIN file[i].tables \subseteq DOMAIN file[j].tables
       /\ Quiet(i, j) => file[i].tables = file[j].tables /\ file[i].version = file[j].version
  /\ \A s \in 1 .. Latest : MigratedInOrder(file[s])

\* The snapshot whose version an instance knows.
At(r) == IF group[r] # 0 THEN group[r] ELSE transaction[r]

\* Where an instance is in the history.
Standing(r) ==
  /\ pc[r] = "closed" => group[r] = 0 /\ transaction[r] = 0 /\ newSchema[r] = 0
  /\ pc[r] # "closed" => transaction[r] \in 1 .. Latest
  /\ group[r] # 0 => transaction[r] <= group[r] /\ group[r] <= Latest
  /\ pc[r] \in {"constructed", "waiting", "updating", "finishing", "writing"} => group[r] = transaction[r]
  /\ pc[r] = "aligning" => group[r] = 0
  /\ pc[r] = "open" => group[r] \in {0, transaction[r]}
  /\ pc[r] \in Uncached => group[r] # 0
  /\ newSchema[r] \in {0, group[r]}
  /\ pc[r] \notin Uncached \/ pc[r] \in {"updated", "written"} => newSchema[r] = 0
  /\ pc[r] \in Writing => group[r] = Latest

\* What an instance was told, or knows although nobody told it.
Informed(r) ==
  /\ pc[r] \in Uncached \ {"updated"} /\ newSchema[r] = 0 => Quiet(transaction[r], group[r])
  /\ pc[r] \notin {"closed", "updated", "finishing"} => version[r] = file[At(r)].version
  /\ pc[r] \in {"waiting", "rechecked", "updating"} /\ mode = "Automatic" => version[r] <= Wanted(r)

\* Whoever updates is alone in its process, and one at a time opens.
OpensAlone(r) ==
  pc[r] \in Opening =>
    \A q \in Siblings(r) :
      pc[q] \notin Opening /\ (pc[r] \notin {"constructed", "aligning"} => pc[q] = "closed")

OneWriter == \A q, r \in Realms : pc[q] \in Writing /\ pc[r] \in Writing => q = r

\* The cache of a process is of a time when nobody in it is at the end of an update.
Reliable(p) == \A r \in Realms : ProcessOf[r] = p => pc[r] \notin {"updated", "finishing"}

CacheFits(p) ==
  LET k == cache[p]
  IN /\ k.max <= Latest
     /\ k.snapshot # 0 =>
          /\ 1 <= k.min /\ k.min <= k.snapshot /\ k.snapshot <= k.max /\ ~Blank(k.snapshot)
          /\ Reliable(p) => Quiet(k.min, k.max) /\ k.version = file[k.snapshot].version

\* A snapshot that the coordinator does not cache, or is past, or will be past
\* when it next caches one.
Seen(s, p) ==
  \/ Blank(s)
  \/ s <= cache[p].max
  \/ /\ cache[p].snapshot = 0
     /\ \A q \in Realms : ProcessOf[q] = p /\ pc[q] # "closed" => s <= transaction[q]

\* Nothing that changed the tables lies between what the cache has seen, or will
\* see, and what an instance has.
Near(r) ==
  pc[r] \notin {"closed", "constructed"} =>
    \E s \in 1 .. transaction[r] : Quiet(s, transaction[r]) /\ Seen(s, ProcessOf[r])

SInv ==
  /\ History /\ OneWriter
  /\ \A r \in Realms : Standing(r) /\ Informed(r) /\ OpensAlone(r) /\ Near(r)
  /\ \A p \in Processes : CacheFits(p)

---------------------------------------------------------------------------------
(* Choosing places of a sequence. *)

\* The rank of a place among those kept goes from one to their number, upwards.
LEMMA RankFacts ==
  ASSUME NEW n \in Nat, NEW kept \in SUBSET (1 .. n)
  PROVE  LET Rank(i) == Cardinality({j \in kept : j <= i})
         IN /\ IsFiniteSet(kept) /\ Cardinality(kept) \in Nat
            /\ \A i \in kept : Rank(i) \in 1 .. Cardinality(kept)
            /\ \A i, j \in kept : i < j => Rank(i) < Rank(j)
<1> DEFINE Upto(i) == {j \in kept : j <= i}
<1>1. IsFiniteSet(kept) /\ Cardinality(kept) \in Nat
  <2>1. 1 \in Int /\ n \in Int
    OBVIOUS
  <2>2. IsFiniteSet(1 .. n)
    BY <2>1, FS_Interval
  <2>3. QED
    BY <2>2, FS_Subset, FS_CardinalityType
<1>2. ASSUME NEW i \in kept
      PROVE  /\ IsFiniteSet(Upto(i)) /\ Cardinality(Upto(i)) \in 1 .. Cardinality(kept)
  <2>1. Upto(i) \in SUBSET kept /\ i \in Upto(i)
    OBVIOUS
  <2>2. IsFiniteSet(Upto(i)) /\ Cardinality(Upto(i)) <= Cardinality(kept)
    BY <1>1, <2>1, FS_Subset
  <2>3. Cardinality(Upto(i)) \in Nat /\ Cardinality(Upto(i)) # 0
    BY <2>1, <2>2, FS_CardinalityType, FS_EmptySet
  <2>4. QED
    BY <1>1, <2>2, <2>3
<1>3. ASSUME NEW i \in kept, NEW j \in kept, i < j
      PROVE  Cardinality(Upto(i)) < Cardinality(Upto(j))
  <2>1. Upto(i) \in SUBSET Upto(j) /\ j \in Upto(j) /\ j \notin Upto(i)
    <3>1. i \in Int /\ j \in Int /\ \A k \in kept : k \in Int
      OBVIOUS
    <3>2. \A k \in kept : k <= i => k <= j
      BY <1>3, <3>1
    <3>3. j <= j /\ ~(j <= i)
      BY <1>3, <3>1
    <3>4. QED
      BY <3>2, <3>3
  <2>2. Cardinality(Upto(i)) <= Cardinality(Upto(j)) /\ Cardinality(Upto(j)) # Cardinality(Upto(i))
    BY <1>2, <2>1, FS_Subset
  <2>3. QED
    BY <1>2, <2>2
<1>4. QED
  BY <1>1, <1>2, <1>3

\* So each rank is that of exactly one place.
LEMMA RankIsOnto ==
  ASSUME NEW n \in Nat, NEW kept \in SUBSET (1 .. n)
  PROVE  LET Rank(i) == Cardinality({j \in kept : j <= i})
         IN /\ \A k \in 1 .. Cardinality(kept) : \E i \in kept : Rank(i) = k
            /\ \A i, j \in kept : Rank(i) = Rank(j) => i = j
<1> DEFINE Rank(i) == Cardinality({j \in kept : j <= i})
           m == Cardinality(kept)
           f == [i \in kept |-> Rank(i)]
<1>1. /\ IsFiniteSet(kept) /\ m \in Nat /\ \A i \in kept : Rank(i) \in 1 .. m
      /\ \A i, j \in kept : i < j => Rank(i) < Rank(j)
  BY RankFacts
<1> HIDE DEF Rank, m
<1>2. \A i, j \in kept : Rank(i) = Rank(j) => i = j
  BY <1>1
<1>3. f \in Injection(kept, 1 .. m)
  BY <1>1, <1>2 DEF Injection, IsInjective
<1>4. IsFiniteSet(1 .. m) /\ Cardinality(1 .. m) = m
  BY <1>1, FS_Interval
<1>5. f \in Surjection(kept, 1 .. m)
  BY <1>3, <1>4, FS_Injection DEF m
<1>6. \A k \in 1 .. m : \E i \in kept : Rank(i) = k
  BY <1>5 DEF Surjection
<1>7. QED
  BY <1>2, <1>6 DEF Rank, m

\* A subsequence has the elements at the places kept, each once.
SubsequenceOf(s, q, kept) ==
  /\ DOMAIN s = 1 .. Len(s)
  /\ \E pick \in [DOMAIN s -> kept] :
       /\ \A k \in DOMAIN s : s[k] = q[pick[k]]
       /\ \A i \in kept : \E k \in DOMAIN s : pick[k] = i
       /\ \A k, l \in DOMAIN s : pick[k] = pick[l] => k = l

\* Leaving elements out of a sequence gives the others, in their order.
LEMMA SubsequenceFacts ==
  ASSUME NEW S, NEW q \in Seq(S), NEW kept \in SUBSET DOMAIN q
  PROVE  /\ Subsequence(q, kept) \in Seq(S)
         /\ SubsequenceOf(Subsequence(q, kept), q, kept)
<1> DEFINE Rank(i) == Cardinality({j \in kept : j <= i})
           m == Cardinality(kept)
           pick == [k \in 1 .. m |-> CHOOSE i \in kept : Rank(i) = k]
           s == [k \in 1 .. m |-> q[pick[k]]]
<1>1. DOMAIN q = 1 .. Len(q) /\ Len(q) \in Nat
  BY LenProperties
<1>2. m \in Nat /\ \A i \in kept : Rank(i) \in 1 .. m
  BY <1>1, RankFacts
<1>3. /\ \A k \in 1 .. m : \E i \in kept : Rank(i) = k
      /\ \A i, j \in kept : Rank(i) = Rank(j) => i = j
  BY <1>1, RankIsOnto
<1>4. Subsequence(q, kept) = s
  BY DEF Subsequence
<1> HIDE DEF Rank, m
<1>5. \A k \in 1 .. m : pick[k] \in kept /\ Rank(pick[k]) = k
  BY <1>3
<1>6. pick \in [1 .. m -> kept] /\ \A i \in kept : \E k \in 1 .. m : pick[k] = i
  BY <1>2, <1>3, <1>5
<1>7. \A k, l \in 1 .. m : pick[k] = pick[l] => k = l
  BY <1>5
<1> HIDE DEF pick
<1>8. \A k \in 1 .. m : q[pick[k]] \in S
  BY <1>1, <1>6, ElementOfSeq
<1>9. s \in [1 .. m -> S] /\ \A k \in 1 .. m : s[k] = q[pick[k]]
  BY <1>8
<1> HIDE DEF s
<1>10. s \in Seq(S) /\ Len(s) = m /\ DOMAIN s = 1 .. m
  BY <1>2, <1>9
<1>11. SubsequenceOf(s, q, kept)
  BY <1>6, <1>7, <1>9, <1>10 DEF SubsequenceOf
<1>12. QED
  BY <1>4, <1>10, <1>11

---------------------------------------------------------------------------------
(* The tables of a file and the schemas of configurations. *)

\* Classes with columns are tables.
LEMMA IsTables ==
  ASSUME NEW S \in SUBSET Classes, NEW t \in [S -> Seq(ColumnType)]
  PROVE  t \in TablesType
BY DEF TablesType

\* Each table has columns.
LEMMA TablesParts ==
  ASSUME NEW t \in TablesType
  PROVE  /\ DOMAIN t \subseteq Classes /\ t \in [DOMAIN t -> Seq(ColumnType)]
         /\ \A c \in DOMAIN t : t[c] \in Seq(ColumnType)
BY DEF TablesType

UniqueNames(props) == \A i, j \in DOMAIN props : props[i].name = props[j].name => i = j

\* What a configuration wants are columns, of different names in a class.
LEMMA TargetParts ==
  ASSUME NEW g \in Configs
  PROVE  /\ DOMAIN TargetOf[g] \subseteq Classes
         /\ \A c \in DOMAIN TargetOf[g] : TargetOf[g][c] \in Seq(ColumnType) /\ UniqueNames(TargetOf[g][c])
<1>1. DOMAIN TargetOf[g] \subseteq Classes
  BY DEF Classes
<1>2. QED
  BY <1>1, TargetAssumption DEF ColumnType, UniqueNames

\* A name that is there is found.
LEMMA IndexOfFacts ==
  ASSUME NEW S, NEW props \in Seq(S), UniqueNames(props), NEW n \in Names(props)
  PROVE  IndexOf(props, n) \in DOMAIN props /\ props[IndexOf(props, n)].name = n
<1> DEFINE Found(i) == props[i].name = n /\ \A j \in DOMAIN props : props[j].name = n => i <= j
<1>1. PICK i \in DOMAIN props : props[i].name = n
  BY DEF Names
<1>2. \A j \in DOMAIN props : props[j].name = n => j = i
  BY <1>1 DEF UniqueNames
<1>3. i \in Int
  BY <1>1, LenProperties
<1>4. Found(i)
  BY <1>1, <1>2, <1>3
<1> HIDE DEF Found
<1>5. IndexOf(props, n) = CHOOSE k \in DOMAIN props : Found(k)
  BY DEF IndexOf, Found
<1>6. IndexOf(props, n) \in DOMAIN props /\ Found(IndexOf(props, n))
  BY <1>1, <1>4, <1>5
<1>7. QED
  BY <1>6 DEF Found

\* A class's columns are those its properties say.
LEMMA ColumnsFacts ==
  ASSUME NEW props \in Seq(ColumnType)
  PROVE  Columns(props) = props
<1>1. props = [i \in DOMAIN props |-> props[i]] /\ \A i \in DOMAIN props : props[i] \in ColumnType
  BY LenProperties, ElementOfSeq
<1>2. \A x \in ColumnType : Column(x) = x
  BY DEF Column, ColumnType
<1>3. QED
  BY <1>1, <1>2 DEF Columns

---------------------------------------------------------------------------------
(* What comparing finds, and what the changes make of the tables. *)

\* The places of the properties that are to be added.
NotIn(props, have) == {i \in DOMAIN props : props[i].name \notin Names(have)}

\* The parts of a comparison.
Compared(ch, existing, target) ==
  /\ ch.tables = DOMAIN target \ DOMAIN existing
  /\ DOMAIN ch.added = DOMAIN existing \cap DOMAIN target
  /\ \A c \in DOMAIN existing \cap DOMAIN target :
       /\ ch.added[c] \in Seq(ColumnType)
       /\ SubsequenceOf(ch.added[c], target[c], NotIn(target[c], existing[c]))
  /\ \A x : x \in ch.removed <=>
       \E c \in DOMAIN existing \cap DOMAIN target : \E i \in DOMAIN existing[c] :
         existing[c][i].name \notin Names(target[c]) /\ x = <<c, existing[c][i].column>>
  /\ \A x : x \in ch.replaced <=>
       \E c \in DOMAIN existing \cap DOMAIN target : \E i \in DOMAIN existing[c] :
         LET name == existing[c][i].name
             kind == target[c][IndexOf(target[c], name)].kind
         IN /\ name \in Names(target[c]) /\ existing[c][i].kind # kind
            /\ x = [class |-> c, at |-> existing[c][i].column, kind |-> kind]

\* What comparing two schemas finds.
LEMMA CompareFacts ==
  ASSUME NEW existing, NEW g \in Configs
  PROVE  Compared(Compare(existing, TargetOf[g]), existing, TargetOf[g])
<1> DEFINE target == TargetOf[g]
           both == DOMAIN existing \cap DOMAIN target
           Want(c, i) == target[c][IndexOf(target[c], existing[c][i].name)]
           added == [c \in both |-> Subsequence(target[c], NotIn(target[c], existing[c]))]
           removed == UNION {{<<c, existing[c][i].column>> :
                                i \in DOMAIN existing[c] \ Shared(existing, target, c)} : c \in both}
           replaced == UNION {{[class |-> c, at |-> existing[c][i].column, kind |-> Want(c, i).kind] :
                                 i \in {j \in Shared(existing, target, c) :
                                          existing[c][j].kind # Want(c, j).kind}} : c \in both}
           ch == Compare(existing, target)
<1>1. /\ ch.tables = DOMAIN target \ DOMAIN existing /\ ch.added = added
      /\ ch.removed = removed /\ ch.replaced = replaced
  BY DEF Compare, NotIn
<1> HIDE DEF ch
<1>2. ASSUME NEW c \in both
      PROVE  /\ added[c] \in Seq(ColumnType)
             /\ SubsequenceOf(added[c], target[c], NotIn(target[c], existing[c]))
  BY TargetParts, SubsequenceFacts DEF NotIn
<1>3. \A x : x \in removed <=>
        \E c \in both : \E i \in DOMAIN existing[c] :
          existing[c][i].name \notin Names(target[c]) /\ x = <<c, existing[c][i].column>>
  BY DEF Shared
<1>4. \A x : x \in replaced <=>
        \E c \in both : \E i \in DOMAIN existing[c] :
          /\ existing[c][i].name \in Names(target[c]) /\ existing[c][i].kind # Want(c, i).kind
          /\ x = [class |-> c, at |-> existing[c][i].column, kind |-> Want(c, i).kind]
  BY DEF Shared
<1> HIDE DEF added, removed, replaced
<1>5. QED
  BY <1>1, <1>2, <1>3, <1>4 DEF Compared, ch, added

\* New tables and new columns come after what is there.
GrownOf(t, tables, ch, target) ==
  \A c \in DOMAIN t :
    LET have == IF c \in DOMAIN tables THEN tables[c] ELSE <<>>
    IN /\ have \in Seq(ColumnType)
       /\ c \in ch.tables => t[c] = have \o target[c]
       /\ c \in DOMAIN ch.added => t[c] = have \o ch.added[c]
       /\ c \notin ch.tables /\ c \notin DOMAIN ch.added => t[c] = have

\* Adding what is missing gives tables, with the old columns in their places.
LEMMA GrownFacts ==
  ASSUME NEW tables \in TablesType, NEW existing, NEW g \in Configs,
         NEW ch, Compared(ch, existing, TargetOf[g])
  PROVE  /\ Grown(tables, ch, TargetOf[g]) \in TablesType
         /\ DOMAIN Grown(tables, ch, TargetOf[g]) = DOMAIN tables \cup ch.tables
         /\ GrownOf(Grown(tables, ch, TargetOf[g]), tables, ch, TargetOf[g])
<1> DEFINE target == TargetOf[g]
           all == DOMAIN tables \cup ch.tables
           Have(c) == IF c \in DOMAIN tables THEN tables[c] ELSE <<>>
           More(c) == CASE c \in ch.tables -> Have(c) \o Columns(target[c])
                        [] c \in DOMAIN ch.added -> Have(c) \o Columns(ch.added[c])
                        [] OTHER -> Have(c)
           t == [c \in all |-> More(c)]
<1>1. Grown(tables, ch, target) = t
  BY DEF Grown
<1>2. ch.tables \subseteq DOMAIN target /\ DOMAIN ch.added \cap ch.tables = {}
      /\ \A c \in DOMAIN ch.added : ch.added[c] \in Seq(ColumnType)
  BY DEF Compared
<1>3. \A c \in all : Have(c) \in Seq(ColumnType)
  BY TablesParts
<1>4. \A c \in ch.tables : target[c] \in Seq(ColumnType) /\ c \in Classes
  BY <1>2, TargetParts
<1>5. ASSUME NEW c \in all
      PROVE  /\ c \in ch.tables => More(c) = Have(c) \o target[c]
             /\ c \in DOMAIN ch.added => More(c) = Have(c) \o ch.added[c]
             /\ c \notin ch.tables /\ c \notin DOMAIN ch.added => More(c) = Have(c)
  BY <1>2, <1>4, ColumnsFacts
<1> HIDE DEF Have, More
<1>6. \A c \in all : More(c) \in Seq(ColumnType)
  <2>1. \A p, q \in Seq(ColumnType) : p \o q \in Seq(ColumnType)
    BY ConcatProperties
  <2> SUFFICES ASSUME NEW c \in all
               PROVE  More(c) \in Seq(ColumnType)
    OBVIOUS
  <2>2. CASE c \in ch.tables
    BY <1>3, <1>4, <1>5, <2>1, <2>2
  <2>3. CASE c \in DOMAIN ch.added
    BY <1>2, <1>3, <1>5, <2>1, <2>3
  <2>4. QED
    BY <1>3, <1>5, <2>2, <2>3
<1>7. all \in SUBSET Classes
  BY <1>4, TablesParts
<1>8. t \in TablesType
  BY <1>6, <1>7, IsTables
<1>9. GrownOf(t, tables, ch, target)
  BY <1>3, <1>5 DEF Have, GrownOf
<1>10. QED
  BY <1>1, <1>8, <1>9

\* A replaced column keeps its place and its name.
ReplacedOf(t, tables, ch) ==
  \A c \in DOMAIN tables :
    /\ DOMAIN t[c] = DOMAIN tables[c]
    /\ \A i \in DOMAIN tables[c] :
         LET new == {x \in ch.replaced : x.class = c /\ x.at = i}
         IN /\ t[c][i].name = tables[c][i].name
            /\ new = {} => t[c][i] = tables[c][i]
            /\ new # {} => \E x \in new : t[c][i].kind = x.kind

\* Replacing columns gives tables of the same classes.
LEMMA ReplacedFacts ==
  ASSUME NEW tables \in TablesType, NEW existing, NEW g \in Configs,
         NEW ch, Compared(ch, existing, TargetOf[g])
  PROVE  /\ Replaced(tables, ch) \in TablesType /\ DOMAIN Replaced(tables, ch) = DOMAIN tables
         /\ ReplacedOf(Replaced(tables, ch), tables, ch)
<1> DEFINE New(c, i) == {x \in ch.replaced : x.class = c /\ x.at = i}
           Col(c, i) == IF New(c, i) = {} THEN tables[c][i]
                        ELSE [tables[c][i] EXCEPT !.kind = (CHOOSE x \in New(c, i) : TRUE).kind]
           t == Replaced(tables, ch)
<1>1. t = [c \in DOMAIN tables |-> [i \in DOMAIN tables[c] |-> Col(c, i)]]
  BY DEF Replaced
<1> HIDE DEF t
<1>2. \A x \in ch.replaced : x.kind \in Kinds
  <2> SUFFICES ASSUME NEW x \in ch.replaced
               PROVE  x.kind \in Kinds
    OBVIOUS
  <2>1. PICK c \in DOMAIN existing \cap DOMAIN TargetOf[g] : \E i \in DOMAIN existing[c] :
          LET props == TargetOf[g][c]
          IN /\ existing[c][i].name \in Names(props)
             /\ x.kind = props[IndexOf(props, existing[c][i].name)].kind
    BY DEF Compared
  <2> DEFINE props == TargetOf[g][c]
  <2>2. PICK i \in DOMAIN existing[c] :
          /\ existing[c][i].name \in Names(props)
          /\ x.kind = props[IndexOf(props, existing[c][i].name)].kind
    BY <2>1
  <2>3. props \in Seq(ColumnType) /\ UniqueNames(props)
    BY TargetParts
  <2>4. IndexOf(props, existing[c][i].name) \in DOMAIN props
    BY <2>2, <2>3, IndexOfFacts
  <2> HIDE DEF props
  <2>5. props[IndexOf(props, existing[c][i].name)] \in ColumnType
    BY <2>3, <2>4, LenProperties, ElementOfSeq
  <2>6. QED
    BY <2>2, <2>5 DEF ColumnType, props
<1>3. \A c \in DOMAIN tables : \A i \in DOMAIN tables[c] : tables[c][i] \in ColumnType
  BY TablesParts, LenProperties, ElementOfSeq
<1>4. ASSUME NEW c \in DOMAIN tables, NEW i \in DOMAIN tables[c]
      PROVE  /\ Col(c, i) \in ColumnType /\ Col(c, i).name = tables[c][i].name
             /\ New(c, i) = {} => Col(c, i) = tables[c][i]
             /\ New(c, i) # {} => \E x \in New(c, i) : Col(c, i).kind = x.kind
  <2>1. tables[c][i] \in ColumnType
    BY <1>3
  <2>2. CASE New(c, i) = {}
    BY <2>1, <2>2
  <2>3. CASE New(c, i) # {}
    <3> DEFINE x == CHOOSE x \in New(c, i) : TRUE
    <3>1. x \in New(c, i) /\ x \in ch.replaced
      BY <2>3
    <3>2. Col(c, i) = [tables[c][i] EXCEPT !.kind = x.kind]
      BY <2>3
    <3> HIDE DEF x, New, Col
    <3>3. QED
      BY <1>2, <2>1, <2>3, <3>1, <3>2 DEF ColumnType
  <2>4. QED
    BY <2>2, <2>3
<1> HIDE DEF Col, New
<1>5. \A c \in DOMAIN tables : t[c] \in Seq(ColumnType) /\ DOMAIN t[c] = DOMAIN tables[c]
  <2> SUFFICES ASSUME NEW c \in DOMAIN tables
               PROVE  t[c] \in Seq(ColumnType) /\ DOMAIN t[c] = DOMAIN tables[c]
    OBVIOUS
  <2>1. tables[c] \in Seq(ColumnType)
    BY TablesParts
  <2>2. Len(tables[c]) \in Nat /\ DOMAIN tables[c] = 1 .. Len(tables[c])
    BY <2>1, LenProperties
  <2>3. t[c] = [i \in 1 .. Len(tables[c]) |-> Col(c, i)]
    BY <1>1, <2>2
  <2>4. QED
    BY <1>4, <2>2, <2>3
<1>6. DOMAIN t = DOMAIN tables
  BY <1>1
<1>7. t \in TablesType
  <2>1. t \in [DOMAIN tables -> Seq(ColumnType)]
    BY <1>1, <1>5
  <2>2. QED
    BY <2>1, IsTables, TablesParts
<1>8. \A c \in DOMAIN tables : \A i \in DOMAIN tables[c] : t[c][i] = Col(c, i)
  BY <1>1
<1>9. ReplacedOf(t, tables, ch)
  BY <1>4, <1>5, <1>8 DEF New, ReplacedOf
<1>10. QED
  BY <1>6, <1>7, <1>9 DEF t

\* The columns that are left keep their order.
ShrunkOf(t, tables, removed) ==
  \A c \in DOMAIN tables :
    SubsequenceOf(t[c], tables[c], {i \in DOMAIN tables[c] : <<c, i>> \notin removed})

\* Removing columns gives tables of the same classes.
LEMMA ShrunkFacts ==
  ASSUME NEW tables \in TablesType, NEW removed
  PROVE  /\ Shrunk(tables, removed) \in TablesType /\ DOMAIN Shrunk(tables, removed) = DOMAIN tables
         /\ ShrunkOf(Shrunk(tables, removed), tables, removed)
<1> DEFINE Kept(c) == {i \in DOMAIN tables[c] : <<c, i>> \notin removed}
           t == Shrunk(tables, removed)
<1>1. t = [c \in DOMAIN tables |-> Subsequence(tables[c], Kept(c))]
  BY DEF Shrunk
<1> HIDE DEF t
<1>2. \A c \in DOMAIN tables : /\ t[c] \in Seq(ColumnType) /\ SubsequenceOf(t[c], tables[c], Kept(c))
  <2> SUFFICES ASSUME NEW c \in DOMAIN tables
               PROVE  t[c] \in Seq(ColumnType) /\ SubsequenceOf(t[c], tables[c], Kept(c))
    OBVIOUS
  <2>1. tables[c] \in Seq(ColumnType) /\ Kept(c) \in SUBSET DOMAIN tables[c]
    BY TablesParts
  <2>2. t[c] = Subsequence(tables[c], Kept(c))
    BY <1>1
  <2> HIDE DEF Kept
  <2>3. QED
    BY <2>1, <2>2, SubsequenceFacts
<1>3. t \in TablesType
  <2>1. t \in [DOMAIN tables -> Seq(ColumnType)]
    BY <1>1, <1>2
  <2>2. QED
    BY <2>1, IsTables, TablesParts
<1>4. QED
  BY <1>1, <1>2, <1>3 DEF t, ShrunkOf

---------------------------------------------------------------------------------
(* Types. *)

\* What is done to a cache gives a cache.
LEMMA CacheTypes ==
  ASSUME NEW k \in CacheType
  PROVE  /\ EmptyCache \in CacheType
         /\ \A v \in Nat \cup {NotVersioned}, t \in Nat : CacheSchema(k, v, t) \in CacheType
         /\ \A s, t \in Nat : AdvanceCache(k, s, t) \in CacheType
         /\ \A v \in Nat : ClearCache(k, v) \in CacheType
<1>1. EmptyCache \in CacheType
  BY DEF EmptyCache, CacheType
<1>2. \A v \in Nat \cup {NotVersioned}, t \in Nat : CacheSchema(k, v, t) \in CacheType
  BY DEF CacheSchema, CacheType
<1>3. \A s, t \in Nat : AdvanceCache(k, s, t) \in CacheType
  BY DEF AdvanceCache, CacheType
<1>4. \A v \in Nat : ClearCache(k, v) \in CacheType
  BY DEF ClearCache, CacheType
<1>5. QED
  BY <1>1, <1>2, <1>3, <1>4

\* A cache that was left is a cache.
LEMMA LeftTypes ==
  ASSUME NEW k \in [Processes -> CacheType], NEW r \in Realms
  PROVE  Left(k, r) \in [Processes -> CacheType]
BY CacheTypes, ProcessOfAssumption DEF Left, EmptyCache, CacheType

\* What a snapshot is made of.
LEMMA SnapshotParts ==
  ASSUME NEW f \in SnapshotType
  PROVE  /\ f.version \in Nat \cup {NotVersioned} /\ f.tables \in TablesType
         /\ f.migrated \in Seq([from : Nat \cup {NotVersioned}, to : Nat])
         /\ f.log \in SUBSET {"insert", "erase"}
BY DEF SnapshotType

\* There is a latest snapshot, and all of them are snapshots.
LEMMA LatestType ==
  ASSUME STypeOK
  PROVE  /\ Latest \in Nat /\ 1 \in 1 .. Latest /\ Latest \in 1 .. Latest /\ DOMAIN file = 1 .. Latest
         /\ \A s \in 1 .. Latest : file[s] \in SnapshotType /\ file[s].version \in Nat \cup {NotVersioned}
<1>1. file \in Seq(SnapshotType) /\ Len(file) \in Nat \ {0}
  BY DEF STypeOK, Latest
<1>2. DOMAIN file = 1 .. Len(file) /\ \A s \in 1 .. Len(file) : file[s] \in SnapshotType
  BY <1>1, LenProperties, ElementOfSeq
<1>3. \A s \in 1 .. Len(file) : file[s].version \in Nat \cup {NotVersioned}
  BY <1>2, SnapshotParts
<1>4. QED
  BY <1>1, <1>2, <1>3 DEF Latest

\* What the configuration of an instance says.
LEMMA ConfigFacts ==
  ASSUME STypeOK, NEW r \in Realms
  PROVE  config[ProcessOf[r]] \in Configs /\ ProcessOf[r] \in Processes /\ Wanted(r) \in Nat
BY ProcessOfAssumption, ConfigAssumption DEF STypeOK, Wanted

\* An update makes tables of the right shape, and loses no class.
LEMMA NewTablesFacts ==
  ASSUME STypeOK, NEW r \in Realms
  PROVE  /\ NewTables(r) \in TablesType
         /\ DOMAIN file[Latest].tables \subseteq DOMAIN NewTables(r)
<1> DEFINE g == config[ProcessOf[r]]
           tables == file[Latest].tables
           ch == Changes(r)
           grown == Grown(tables, ch, TargetOf[g])
           changed == Replaced(grown, ch)
           shrunk == Shrunk(changed, ToRemove(r, changed))
<1>1. g \in Configs /\ tables \in TablesType
  BY ConfigFacts, LatestType, SnapshotParts
<1>2. Compared(ch, actual[r], TargetOf[g])
  BY <1>1, CompareFacts DEF Changes, Target
<1> HIDE DEF g, tables, ch
<1>3. grown \in TablesType /\ DOMAIN grown = DOMAIN tables \cup ch.tables
  BY <1>1, <1>2, GrownFacts
<1> HIDE DEF grown
<1>4. changed \in TablesType /\ DOMAIN changed = DOMAIN grown
  BY <1>1, <1>2, <1>3, ReplacedFacts
<1> HIDE DEF changed
<1>5. shrunk \in TablesType /\ DOMAIN shrunk = DOMAIN changed
  BY <1>4, ShrunkFacts
<1>6. NewTables(r) = grown \/ NewTables(r) = shrunk
  BY DEF NewTables, Target, g, tables, ch, grown, changed
<1> HIDE DEF shrunk
<1>7. QED
  BY <1>3, <1>4, <1>5, <1>6 DEF tables

\* Applying the changes gives a snapshot.
LEMMA ApplyType ==
  ASSUME STypeOK, NEW r \in Realms
  PROVE  ApplySchemaChanges(r) \in SnapshotType
<1> DEFINE f == file[Latest]
           entry == [from |-> f.version, to |-> Wanted(r)]
           migrated == IF CallsMigration(r) THEN Append(f.migrated, entry) ELSE f.migrated
<1>1. /\ f.version \in Nat \cup {NotVersioned}
      /\ f.migrated \in Seq([from : Nat \cup {NotVersioned}, to : Nat])
  BY LatestType, SnapshotParts
<1>2. Wanted(r) \in Nat
  BY ConfigFacts
<1>3. NewVersion(r) \in Nat \cup {NotVersioned}
  BY <1>1, <1>2 DEF NewVersion
<1>4. entry \in [from : Nat \cup {NotVersioned}, to : Nat]
  BY <1>1, <1>2
<1>5. migrated \in Seq([from : Nat \cup {NotVersioned}, to : Nat])
  BY <1>1, <1>4, AppendProperties
<1>6. NewLog(r) \in SUBSET {"insert", "erase"}
  BY DEF NewLog, Instructions
<1>7. NewTables(r) \in TablesType
  BY NewTablesFacts
<1> HIDE DEF migrated
<1>8. [version |-> NewVersion(r), tables |-> NewTables(r), migrated |-> migrated, log |-> NewLog(r)]
        \in SnapshotType
  BY <1>3, <1>5, <1>6, <1>7 DEF SnapshotType
<1>9. QED
  BY <1>8 DEF ApplySchemaChanges, migrated

\* The variables have their types at first.
LEMMA TypesOfInit == Init => STypeOK
<1> SUFFICES ASSUME Init
             PROVE  STypeOK
  OBVIOUS
<1> DEFINE first == [version |-> NotVersioned, tables |-> <<>>, migrated |-> <<>>, log |-> {}]
<1>1. <<>> \in TablesType
  <2>1. <<>> \in [{} -> Seq(ColumnType)] /\ {} \in SUBSET Classes
    OBVIOUS
  <2>2. QED
    BY <2>1 DEF TablesType
<1>2. first \in SnapshotType
  BY <1>1 DEF SnapshotType
<1> HIDE DEF first
<1>3. file = <<first>>
  BY DEF Init, first
<1>4. file \in Seq(SnapshotType) /\ Len(file) = 1
  BY <1>2, <1>3
<1>5. EmptyCache \in CacheType
  BY DEF EmptyCache, CacheType
<1>6. QED
  BY <1>4, <1>5, ConfigAssumption DEF Init, STypeOK, Latest, Locations, NotVersioned

\* The variables that say where an instance is.
PlacesType ==
  /\ pc \in [Realms -> Locations]
  /\ group \in [Realms -> Nat] /\ transaction \in [Realms -> Nat] /\ newSchema \in [Realms -> Nat]
  /\ version \in [Realms -> Nat \cup {NotVersioned}]
  /\ DOMAIN schema = Realms /\ DOMAIN actual = Realms

\* An instance that is closed has a place of the right type.
LEMMA GoneType ==
  ASSUME PlacesType, NEW r \in Realms, Gone(r)
  PROVE  PlacesType'
BY DEF PlacesType, Gone, Locations, NotVersioned

\* So has one that is opened.
LEMMA OpenedType ==
  ASSUME PlacesType, NEW r \in Realms, NEW s, Opened(r, s),
         version' \in [Realms -> Nat \cup {NotVersioned}],
         transaction' \in [Realms -> Nat], newSchema' \in [Realms -> Nat]
  PROVE  PlacesType'
BY DEF PlacesType, Opened, Locations, Cached, NotVersioned

\* Both ways of appending to the file keep its type.
LEMMA AppendType ==
  ASSUME STypeOK, NEW x \in SnapshotType, file' = Append(file, x)
  PROVE  file' \in Seq(SnapshotType) /\ Latest' = Latest + 1
BY AppendProperties DEF STypeOK, Latest

\* The steps that open an instance keep the types.
LEMMA TypesOfOpening ==
  ASSUME STypeOK, NEW r \in Realms,
         OpenFromCache(r) \/ OpenFromFile(r) \/ CacheConstructed(r) \/ AlignWithThread(r) \/ AlignWithFile(r)
  PROVE  cache' \in [Processes -> CacheType] /\ PlacesType' /\ UNCHANGED file
<1>0. UNCHANGED file /\ Latest' = Latest
  BY DEF OpenFromCache, OpenFromFile, CacheConstructed, AlignWithThread, AlignWithFile, Latest
<1>1. PlacesType /\ cache \in [Processes -> CacheType]
  BY DEF STypeOK, PlacesType
<1>2. Latest \in Nat /\ file[Latest].version \in Nat \cup {NotVersioned}
  BY LatestType
<1>3. ProcessOf[r] \in Processes /\ cache[ProcessOf[r]] \in CacheType
  BY <1>0, <1>1, ProcessOfAssumption
<1>4. Left(cache, r) \in [Processes -> CacheType]
  BY <1>0, <1>1, LeftTypes
<1>5. CASE OpenFromCache(r)
  <2>1. Cache(r).version \in Nat \cup {NotVersioned} /\ Cache(r).max \in Nat
    BY <1>3 DEF Cache, CacheType
  <2>2. QED
    BY <1>0, <1>1, <1>5, <2>1 DEF OpenFromCache, PlacesType, Locations, Opening
<1>6. CASE OpenFromFile(r)
  BY <1>0, <1>1, <1>2, <1>6 DEF OpenFromFile, PlacesType, Locations, Opening
<1>7. CASE CacheConstructed(r)
  <2>1. CacheSchema(cache[ProcessOf[r]], version[r], transaction[r]) \in CacheType
    BY <1>0, <1>1, <1>3, CacheTypes DEF PlacesType
  <2>2. QED
    BY <1>0, <1>1, <1>7, <2>1 DEF CacheConstructed, PlacesType, Locations, Opening
<1>8. CASE AlignWithThread(r)
  <2>1. \/ Gone(r) /\ cache' = Left(cache, r)
        \/ \E s : Opened(r, s) /\ UNCHANGED <<cache, version, transaction, newSchema>>
    BY <1>8 DEF AlignWithThread
  <2>2. CASE Gone(r) /\ cache' = Left(cache, r)
    BY <1>0, <1>1, <1>4, <2>2, GoneType
  <2>3. CASE \E s : Opened(r, s) /\ UNCHANGED <<cache, version, transaction, newSchema>>
    BY <1>0, <1>1, <2>3, OpenedType DEF PlacesType
  <2>4. QED
    BY <2>1, <2>2, <2>3
<1>9. CASE AlignWithFile(r)
  <2> DEFINE fresh == transaction[r] # Latest
             known == IF fresh THEN file[Latest].version ELSE version[r]
             kept == IF fresh THEN [cache EXCEPT ![ProcessOf[r]] = CacheSchema(@, known, Latest)]
                     ELSE cache
  <2>1. known \in Nat \cup {NotVersioned}
    BY <1>0, <1>1, <1>2 DEF PlacesType
  <2> HIDE DEF known
  <2>2. kept \in [Processes -> CacheType]
    BY <1>0, <1>1, <1>2, <1>3, <2>1, CacheTypes
  <2> HIDE DEF kept
  <2>3. \/ Gone(r) /\ cache' = Left(cache, r)
        \/ /\ cache' = kept /\ \E s : Opened(r, s)
           /\ version' = [version EXCEPT ![r] = known]
           /\ transaction' = [transaction EXCEPT ![r] = Latest]
           /\ UNCHANGED newSchema
        \/ /\ pc' = [pc EXCEPT ![r] = "waiting"]
           /\ group' = [group EXCEPT ![r] = Latest]
           /\ DOMAIN schema' = DOMAIN schema /\ DOMAIN actual' = DOMAIN actual
           /\ version' = [version EXCEPT ![r] = known]
           /\ transaction' = [transaction EXCEPT ![r] = Latest]
           /\ cache' = kept
           /\ UNCHANGED newSchema
    BY <1>9 DEF AlignWithFile, kept, known
  <2>4. CASE Gone(r) /\ cache' = Left(cache, r)
    BY <1>0, <1>1, <1>4, <2>4, GoneType
  <2>5. CASE /\ cache' = kept /\ \E s : Opened(r, s)
             /\ version' = [version EXCEPT ![r] = known]
             /\ transaction' = [transaction EXCEPT ![r] = Latest]
             /\ UNCHANGED newSchema
    BY <1>0, <1>1, <1>2, <2>1, <2>2, <2>5, OpenedType DEF PlacesType
  <2>6. CASE /\ pc' = [pc EXCEPT ![r] = "waiting"]
             /\ group' = [group EXCEPT ![r] = Latest]
             /\ DOMAIN schema' = DOMAIN schema /\ DOMAIN actual' = DOMAIN actual
             /\ version' = [version EXCEPT ![r] = known]
             /\ transaction' = [transaction EXCEPT ![r] = Latest]
             /\ cache' = kept
             /\ UNCHANGED newSchema
    BY <1>0, <1>1, <1>2, <2>1, <2>2, <2>6 DEF PlacesType, Locations, Opening
  <2>7. QED
    BY <2>3, <2>4, <2>5, <2>6
<1>10. QED
  BY <1>0, <1>5, <1>6, <1>7, <1>8, <1>9

\* The snapshot of an instance moves to the latest one.
LEMMA AdvanceType ==
  ASSUME STypeOK, NEW r \in Realms, NEW dynamic \in BOOLEAN, Advance(r, dynamic)
  PROVE  /\ group' \in [Realms -> Nat] /\ newSchema' \in [Realms -> Nat]
         /\ version' \in [Realms -> Nat \cup {NotVersioned}]
         /\ DOMAIN schema' = Realms
<1>1. Latest \in Nat /\ file[Latest].version \in Nat \cup {NotVersioned}
  BY LatestType
<1>2. QED
  BY <1>1 DEF Advance, STypeOK

\* The steps of an update keep the types.
LEMMA TypesOfUpdate ==
  ASSUME STypeOK, NEW r \in Realms,
         BeginUpdate(r) \/ CommitUpdate(r) \/ UpdateFails(r) \/ FinishUpdate(r) \/ CacheNewSchema(r)
  PROVE  /\ file' \in Seq(SnapshotType) /\ Latest' \in Nat \ {0}
         /\ cache' \in [Processes -> CacheType] /\ PlacesType'
<1>1. PlacesType /\ cache \in [Processes -> CacheType]
  BY DEF STypeOK, PlacesType
<1>2. file \in Seq(SnapshotType) /\ Latest \in Nat \ {0} /\ Latest \in Nat
  BY DEF STypeOK
<1>3. ProcessOf[r] \in Processes /\ cache[ProcessOf[r]] \in CacheType /\ Wanted(r) \in Nat
  BY <1>1, ConfigFacts
<1>4. Left(cache, r) \in [Processes -> CacheType]
  BY <1>1, LeftTypes
<1>5. ASSUME Gone(r), cache' = Left(cache, r), UNCHANGED file
      PROVE  /\ file' \in Seq(SnapshotType) /\ Latest' \in Nat \ {0}
             /\ cache' \in [Processes -> CacheType] /\ PlacesType'
  BY <1>1, <1>2, <1>4, <1>5, GoneType DEF Latest
<1>6. CASE BeginUpdate(r)
  <2>1. UNCHANGED file
    BY <1>6 DEF BeginUpdate
  <2>2. \/ Gone(r) /\ cache' = Left(cache, r)
        \/ /\ Advance(r, TRUE) /\ DOMAIN actual' = DOMAIN actual
           /\ \E l \in {"satisfied", "rechecked"} : pc' = [pc EXCEPT ![r] = l]
           /\ UNCHANGED <<cache, transaction>>
    BY <1>6 DEF BeginUpdate
  <2>3. CASE Gone(r) /\ cache' = Left(cache, r)
    BY <1>5, <2>1, <2>3
  <2>4. CASE /\ Advance(r, TRUE) /\ DOMAIN actual' = DOMAIN actual
             /\ \E l \in {"satisfied", "rechecked"} : pc' = [pc EXCEPT ![r] = l]
             /\ UNCHANGED <<cache, transaction>>
    <3>1. /\ group' \in [Realms -> Nat] /\ newSchema' \in [Realms -> Nat]
          /\ version' \in [Realms -> Nat \cup {NotVersioned}]
          /\ DOMAIN schema' = Realms
      BY <2>4, AdvanceType
    <3>2. pc' \in [Realms -> Locations]
      BY <1>1, <2>4 DEF PlacesType, Locations, Opening
    <3>3. PlacesType'
      BY <1>1, <2>4, <3>1, <3>2 DEF PlacesType
    <3>4. QED
      BY <1>1, <1>2, <2>1, <2>4, <3>3 DEF Latest
  <2>5. QED
    BY <2>2, <2>3, <2>4
<1>7. CASE CommitUpdate(r)
  <2>1. file' \in Seq(SnapshotType) /\ Latest' = Latest + 1
    BY <1>7, ApplyType, AppendType DEF CommitUpdate
  <2>2. PlacesType'
    BY <1>1, <1>2, <1>7 DEF CommitUpdate, PlacesType, Locations, Opening
  <2>3. QED
    BY <1>1, <1>2, <1>7, <2>1, <2>2 DEF CommitUpdate
<1>8. CASE UpdateFails(r)
  BY <1>5, <1>8 DEF UpdateFails
<1>9. CASE FinishUpdate(r)
  <2>1. pc[r] = "finishing" /\ UNCHANGED file /\ transaction' = transaction /\ newSchema' = newSchema
    BY <1>9 DEF FinishUpdate
  <2>2. cache' \in [Processes -> CacheType]
    BY <1>1, <1>3, <1>9, CacheTypes DEF FinishUpdate
  <2>3. file[group[r]].version \in Nat \cup {NotVersioned}
    BY <1>9, <2>1, LatestType DEF STypeOK
  <2>4. version' \in [Realms -> Nat \cup {NotVersioned}]
    BY <1>1, <1>9, <2>3 DEF FinishUpdate, PlacesType
  <2>5. PlacesType'
    BY <1>1, <1>9, <2>1, <2>4, OpenedType DEF FinishUpdate, PlacesType
  <2>6. QED
    BY <1>2, <2>1, <2>2, <2>5 DEF Latest
<1>10. CASE CacheNewSchema(r)
  <2>1. Recached(r) \in CacheType
    BY <1>1, <1>3, CacheTypes DEF Recached, Cache, PlacesType
  <2>2. cache' \in [Processes -> CacheType]
    BY <1>1, <1>3, <1>10, <2>1 DEF CacheNewSchema
  <2>3. /\ transaction' \in [Realms -> Nat] /\ newSchema' \in [Realms -> Nat]
        /\ version' \in [Realms -> Nat \cup {NotVersioned}]
    BY <1>1, <1>10 DEF CacheNewSchema, PlacesType
  <2>4. PlacesType'
    <3>1. CASE Opened(r, SetSchema(r, actual[r]))
      BY <1>1, <2>3, <3>1, OpenedType
    <3>2. CASE pc' = [pc EXCEPT ![r] = After(@)] /\ UNCHANGED <<group, schema, actual>>
      <4>1. \A l : After(l) \in Locations
        BY DEF After, Locations, Opening, Cached
      <4>2. QED
        BY <1>1, <2>3, <3>2, <4>1 DEF PlacesType
    <3>3. QED
      BY <1>10, <3>1, <3>2 DEF CacheNewSchema
  <2>5. QED
    BY <1>2, <1>10, <2>2, <2>4 DEF CacheNewSchema, Latest
<1>11. QED
  BY <1>6, <1>7, <1>8, <1>9, <1>10

\* The steps of an open instance keep the types.
LEMMA TypesOfUse ==
  ASSUME STypeOK, NEW r \in Realms, Use(r)
  PROVE  /\ file' \in Seq(SnapshotType) /\ Latest' \in Nat \ {0}
         /\ cache' \in [Processes -> CacheType] /\ PlacesType'
<1>1. PlacesType /\ cache \in [Processes -> CacheType]
  BY DEF STypeOK, PlacesType
<1>2. /\ file \in Seq(SnapshotType) /\ Latest \in Nat \ {0} /\ Latest \in Nat
      /\ file[Latest].version \in Nat \cup {NotVersioned}
  BY LatestType DEF STypeOK
<1>3. ProcessOf[r] \in Processes /\ cache[ProcessOf[r]] \in CacheType
  BY <1>1, ConfigFacts
<1>4. CASE BeginRead(r)
  <2> DEFINE kept == [cache EXCEPT ![ProcessOf[r]] = CacheSchema(@, file[Latest].version, Latest)]
  <2>1. kept \in [Processes -> CacheType]
    BY <1>1, <1>2, <1>3, CacheTypes
  <2> HIDE DEF kept
  <2>2. \/ /\ group' = [group EXCEPT ![r] = Latest]
           /\ UNCHANGED <<cache, pc, schema, version, transaction, newSchema, actual>>
        \/ /\ group' = [group EXCEPT ![r] = Latest]
           /\ transaction' = [transaction EXCEPT ![r] = Latest]
           /\ version' = [version EXCEPT ![r] = file[Latest].version]
           /\ DOMAIN schema' = DOMAIN schema
           /\ cache' = kept
           /\ UNCHANGED <<pc, newSchema, actual>>
        \/ Gone(r) /\ cache' = Left(kept, r)
    BY <1>4 DEF BeginRead, kept
  <2>3. PlacesType' /\ cache' \in [Processes -> CacheType]
    <3>1. CASE Gone(r) /\ cache' = Left(kept, r)
      BY <1>1, <2>1, <3>1, GoneType, LeftTypes
    <3>2. CASE /\ group' = [group EXCEPT ![r] = Latest]
               /\ UNCHANGED <<cache, pc, schema, version, transaction, newSchema, actual>>
      BY <1>1, <1>2, <3>2 DEF PlacesType
    <3>3. CASE /\ group' = [group EXCEPT ![r] = Latest]
               /\ transaction' = [transaction EXCEPT ![r] = Latest]
               /\ version' = [version EXCEPT ![r] = file[Latest].version]
               /\ DOMAIN schema' = DOMAIN schema
               /\ cache' = kept
               /\ UNCHANGED <<pc, newSchema, actual>>
      BY <1>1, <1>2, <2>1, <3>3 DEF PlacesType
    <3>4. QED
      BY <2>2, <3>1, <3>2, <3>3
  <2>4. QED
    BY <1>2, <1>4, <2>3 DEF BeginRead, Latest
<1>5. CASE Refresh(r) \/ BeginWrite(r)
  <2>1. /\ Advance(r, FALSE) /\ UNCHANGED <<file, cache, transaction, actual>>
        /\ \E l \in {"advanced", "begun"} : pc' = [pc EXCEPT ![r] = l]
    BY <1>5 DEF Refresh, BeginWrite
  <2>2. /\ group' \in [Realms -> Nat] /\ newSchema' \in [Realms -> Nat]
        /\ version' \in [Realms -> Nat \cup {NotVersioned}]
        /\ DOMAIN schema' = Realms
    BY <2>1, AdvanceType
  <2>3. pc' \in [Realms -> Locations]
    BY <1>1, <2>1 DEF PlacesType, Locations, Cached
  <2>4. PlacesType'
    BY <1>1, <2>1, <2>2, <2>3 DEF PlacesType
  <2>5. QED
    BY <1>1, <1>2, <2>1, <2>4 DEF Latest
<1>6. CASE CommitWrite(r)
  <2>1. [file[Latest] EXCEPT !.log = {}] \in SnapshotType
    BY LatestType DEF SnapshotType
  <2>2. file' \in Seq(SnapshotType) /\ Latest' = Latest + 1
    BY <1>6, <2>1, AppendType DEF CommitWrite
  <2>3. PlacesType'
    BY <1>1, <1>2, <1>6 DEF CommitWrite, PlacesType, Locations, Cached
  <2>4. QED
    BY <1>1, <1>2, <1>6, <2>2, <2>3 DEF CommitWrite
<1>7. CASE CancelWrite(r)
  BY <1>1, <1>2, <1>7 DEF CancelWrite, PlacesType, Locations, Cached, Latest
<1>8. CASE Invalidate(r)
  BY <1>1, <1>2, <1>8 DEF Invalidate, PlacesType, Latest
<1>9. CASE Release(r)
  BY <1>1, <1>2, <1>9, GoneType, LeftTypes DEF Release, Latest
<1>10. QED
  BY <1>4, <1>5, <1>6, <1>7, <1>8, <1>9 DEF Use

\* A restart keeps the types.
LEMMA TypesOfRestart ==
  ASSUME STypeOK, NEW p \in Processes, NEW c \in Configs, Restart(p, c)
  PROVE  STypeOK'
<1>1. EmptyCache \in CacheType
  BY DEF EmptyCache, CacheType
<1>2. PlacesType'
  BY DEF STypeOK, Restart, PlacesType, Locations, NotVersioned
<1>3. QED
  BY <1>1, <1>2 DEF STypeOK, Restart, PlacesType, Latest

\* At the end of an update an instance has the snapshot it made.
LEMMA EndOfUpdate ==
  ASSUME STypeOK, Next, NEW q \in Realms, pc'[q] \in {"updated", "finishing"}
  PROVE  group'[q] \in 1 .. Latest'
<1>1. Latest \in Nat \ {0} /\ pc \in [Realms -> Locations] /\ group \in [Realms -> Nat]
  BY DEF STypeOK
<1>2. CASE \E p \in Processes, c \in Configs : Restart(p, c)
  BY <1>2 DEF Restart, STypeOK, Latest
<1>3. CASE \E r \in Realms : Open(r) \/ CacheNewSchema(r) \/ Use(r)
  <2>1. PICK r \in Realms : Open(r) \/ CacheNewSchema(r) \/ Use(r)
    BY <1>3
  <2>2. CASE CommitUpdate(r) \/ CommitWrite(r)
    <3>1. \E x : file' = Append(file, x)
      BY <2>2 DEF CommitUpdate, CommitWrite
    <3>2. Latest' = Latest + 1
      BY <3>1 DEF STypeOK, Latest
    <3>3. /\ \E l : pc' = [pc EXCEPT ![r] = l]
          /\ group' = [group EXCEPT ![r] = Latest + 1]
      BY <2>2 DEF CommitUpdate, CommitWrite
    <3>4. QED
      BY <1>1, <3>2, <3>3 DEF STypeOK
  <2>3. CASE CacheNewSchema(r)
    <3>1. Latest' = Latest
      BY <2>3 DEF CacheNewSchema, Latest
    <3>2. \/ q # r /\ pc'[q] = pc[q] /\ group'[q] = group[q]
          \/ q = r /\ pc[r] = "updated" /\ group'[q] = group[q]
      BY <1>1, <2>3 DEF CacheNewSchema, After, Opened
    <3>3. QED
      BY <3>1, <3>2 DEF STypeOK
  <2>4. CASE Open(r) \/ Use(r)
    <3>1. CASE Latest' = Latest /\ pc'[q] = pc[q] /\ (pc[q] \in {"updated", "finishing"} => group'[q] = group[q])
      BY <3>1 DEF STypeOK
    <3>2. Latest' = Latest \/ CommitUpdate(r) \/ CommitWrite(r)
      BY <2>4 DEF Open, Use, OpenFromCache, OpenFromFile, CacheConstructed, AlignWithThread, AlignWithFile,
        BeginUpdate, UpdateFails, FinishUpdate, BeginRead, Refresh, BeginWrite, CancelWrite, Invalidate,
        Release, Latest
    <3>3. CASE q # r
      <4>1. CommitUpdate(r) \/ CommitWrite(r) \/ (pc'[q] = pc[q] /\ group'[q] = group[q])
        <5>1. CASE Open(r)
          BY <1>1, <3>3, <5>1 DEF Open, OpenFromCache, OpenFromFile, CacheConstructed, AlignWithThread,
            AlignWithFile, BeginUpdate, UpdateFails, FinishUpdate, Gone, Opened, Advance
        <5>2. CASE Use(r)
          BY <1>1, <3>3, <5>2 DEF Use, BeginRead, Refresh, BeginWrite, CancelWrite, Invalidate, Release,
            Gone, Advance
        <5>3. QED
          BY <2>4, <5>1, <5>2
      <4>2. QED
        BY <2>2, <3>1, <3>2, <4>1
    <3>4. CASE q = r
      <4>1. CommitUpdate(r) \/ CommitWrite(r) \/ pc'[q] \notin {"updated", "finishing"}
        <5>1. CASE Open(r)
          BY <1>1, <3>4, <5>1 DEF Open, OpenFromCache, OpenFromFile, CacheConstructed, AlignWithThread,
            AlignWithFile, BeginUpdate, UpdateFails, FinishUpdate, Gone, Opened, Advance
        <5>2. CASE Use(r)
          BY <1>1, <3>4, <5>2 DEF Use, BeginRead, Refresh, BeginWrite, CancelWrite, Invalidate, Release,
            Gone, Advance
        <5>3. QED
          BY <2>4, <5>1, <5>2
      <4>2. QED
        BY <2>2, <4>1
    <3>5. QED
      BY <3>3, <3>4
  <2>5. QED
    BY <2>1, <2>3, <2>4
<1>4. QED
  BY <1>2, <1>3 DEF Next

\* Every step keeps the types.
LEMMA TypesOfNext ==
  ASSUME STypeOK, Next
  PROVE  STypeOK'
<1>1. CASE \E p \in Processes, c \in Configs : Restart(p, c)
  BY <1>1, TypesOfRestart
<1>2. CASE \E r \in Realms : Open(r) \/ CacheNewSchema(r) \/ Use(r)
  <2>1. PICK r \in Realms : Open(r) \/ CacheNewSchema(r) \/ Use(r)
    BY <1>2
  <2>2. UNCHANGED <<mode, config>>
    BY <2>1 DEF Open, Use, OpenFromCache, OpenFromFile, CacheConstructed, AlignWithThread, AlignWithFile,
      BeginUpdate, CommitUpdate, UpdateFails, FinishUpdate, CacheNewSchema, BeginRead, Refresh,
      BeginWrite, CommitWrite, CancelWrite, Invalidate, Release
  <2>3. /\ file' \in Seq(SnapshotType) /\ Latest' \in Nat \ {0}
        /\ cache' \in [Processes -> CacheType] /\ PlacesType'
    <3>1. CASE OpenFromCache(r) \/ OpenFromFile(r) \/ CacheConstructed(r) \/ AlignWithThread(r)
                 \/ AlignWithFile(r)
      <4>1. UNCHANGED file
        BY <3>1 DEF OpenFromCache, OpenFromFile, CacheConstructed, AlignWithThread, AlignWithFile
      <4>2. QED
        BY <3>1, <4>1, TypesOfOpening DEF STypeOK, Latest
    <3>2. CASE BeginUpdate(r) \/ CommitUpdate(r) \/ UpdateFails(r) \/ FinishUpdate(r) \/ CacheNewSchema(r)
      BY <3>2, TypesOfUpdate
    <3>3. CASE Use(r)
      BY <3>3, TypesOfUse
    <3>4. QED
      BY <2>1, <3>1, <3>2, <3>3 DEF Open
  <2>4. QED
    BY <2>2, <2>3, EndOfUpdate DEF STypeOK, PlacesType
<1>3. QED
  BY <1>1, <1>2 DEF Next

\* The variables keep their types in every reachable state: the snapshots of the
\* file, the caches and the instances, whatever update, error or restart came.
THEOREM SchemaTypes == Spec => []STypeOK
<1>1. ASSUME STypeOK, [Next]_vars
      PROVE  STypeOK'
  <2>1. CASE Next
    BY <1>1, <2>1, TypesOfNext
  <2>2. CASE UNCHANGED vars
    BY <1>1, <2>2 DEF STypeOK, vars, realmVars, Latest
  <2>3. QED
    BY <1>1, <2>1, <2>2
<1>2. QED
  BY <1>1, TypesOfInit, PTL DEF Spec

---------------------------------------------------------------------------------
(* The history of the file. *)

\* What was committed stays.
FileKept == Latest <= Latest' /\ \A s \in 1 .. Latest : file'[s] = file[s]

\* A commit adds a snapshot after those there are.
LEMMA AppendKeeps ==
  ASSUME STypeOK, NEW x, file' = Append(file, x)
  PROVE  FileKept /\ Latest' = Latest + 1 /\ file'[Latest + 1] = x
<1>1. file \in Seq(SnapshotType) /\ Len(file) \in Nat
  BY LenProperties DEF STypeOK
<1>2. Len(file') = Len(file) + 1
  BY <1>1
<1>3. \A s \in 1 .. Len(file) : file'[s] = file[s]
  BY <1>1
<1>4. file'[Len(file) + 1] = x
  BY <1>1
<1>5. QED
  BY <1>1, <1>2, <1>3, <1>4 DEF FileKept, Latest

\* What was quiet or blank stays so when snapshots are added.
LEMMA QuietKept ==
  ASSUME STypeOK, FileKept
  PROVE  /\ \A i, j \in 0 .. Latest : Quiet(i, j) <=> Quiet(i, j)'
         /\ \A s \in 1 .. Latest : Blank(s) <=> Blank(s)'
<1>1. Latest \in Nat
  BY LatestType
<1>2. ASSUME NEW i \in 0 .. Latest, NEW j \in 0 .. Latest
      PROVE  Quiet(i, j) <=> Quiet(i, j)'
  <2>1. \A k \in i + 1 .. j : file'[k] = file[k]
    BY <1>1 DEF FileKept
  <2>2. QED
    BY <2>1 DEF Quiet
<1>3. \A s \in 1 .. Latest : Blank(s) <=> Blank(s)'
  BY DEF FileKept, Blank
<1>4. QED
  BY <1>2, <1>3

\* A snapshot that goes on from the latest one keeps the history in order.
LEMMA HistoryAppends ==
  ASSUME STypeOK, History, NEW x, FileKept, Latest' = Latest + 1, file'[Latest + 1] = x,
         x.version \in Nat \cup {NotVersioned},
         file[Latest].version <= x.version,
         DOMAIN file[Latest].tables \subseteq DOMAIN x.tables,
         x.log = {} => x.tables = file[Latest].tables /\ x.version = file[Latest].version,
         MigratedInOrder(x)
  PROVE  History'
<1>1. PICK n \in Nat : n = Latest
  BY LatestType
<1>2. n \in 1 .. n /\ \A s \in 1 .. n : file[s].version \in Nat \cup {NotVersioned}
  BY <1>1, LatestType
<1>3. FileKept /\ Latest' = n + 1 /\ file'[n + 1] = x /\ \A s \in 1 .. n : file'[s] = file[s]
  BY <1>1 DEF FileKept
<1>4. /\ \A i, j \in 1 .. n : i <= j =>
           /\ file[i].version <= file[j].version
           /\ DOMAIN file[i].tables \subseteq DOMAIN file[j].tables
           /\ Quiet(i, j) => file[i].tables = file[j].tables /\ file[i].version = file[j].version
      /\ \A s \in 1 .. n : MigratedInOrder(file[s])
  BY <1>1 DEF History
<1>5. \A i, j \in 1 .. n : Quiet(i, j)' => Quiet(i, j)
  BY <1>1, <1>3, QuietKept
<1>6. ASSUME NEW i \in 1 .. n + 1, NEW j \in 1 .. n + 1, i <= j
      PROVE  /\ file'[i].version <= file'[j].version
             /\ DOMAIN file'[i].tables \subseteq DOMAIN file'[j].tables
             /\ Quiet(i, j)' => file'[i].tables = file'[j].tables /\ file'[i].version = file'[j].version
  <2>1. CASE i \in 1 .. n /\ j \in 1 .. n
    BY <1>1, <1>3, <1>4, <1>5, <1>6, <2>1
  <2>2. CASE i = n + 1 /\ j = n + 1
    BY <1>1, <1>3, <2>2 DEF NotVersioned
  <2>3. CASE i \in 1 .. n /\ j = n + 1
    <3>1. i <= n
      BY <2>3
    <3>2. /\ file[i].version <= file[n].version
          /\ DOMAIN file[i].tables \subseteq DOMAIN file[n].tables
          /\ Quiet(i, n) => file[i].tables = file[n].tables /\ file[i].version = file[n].version
      BY <1>2, <1>4, <2>3, <3>1
    <3>3. Quiet(i, j)' => Quiet(i, n) /\ x.log = {}
      <4>1. ASSUME Quiet(i, j)'
            PROVE  Quiet(i, n)' /\ file'[n + 1].log = {}
        <5>1. \A k \in i + 1 .. j : file'[k].log = {}
          BY <4>1 DEF Quiet
        <5>2. n + 1 \in i + 1 .. j /\ \A k \in i + 1 .. n : k \in i + 1 .. j
          BY <2>3, <3>1
        <5>3. QED
          BY <5>1, <5>2 DEF Quiet
      <4>2. QED
        BY <1>2, <1>3, <1>5, <2>3, <4>1
    <3>4. file[i].version \in Int /\ file[n].version \in Int /\ x.version \in Int
      BY <1>2, <2>3 DEF NotVersioned
    <3>5. file'[i] = file[i] /\ file'[j] = x
      BY <1>3, <2>3
    <3>6. file[i].version <= x.version
      BY <1>1, <3>2, <3>4
    <3>7. QED
      BY <1>1, <3>2, <3>3, <3>5, <3>6
  <2>4. i = n + 1 => j = n + 1
    BY <1>1, <1>6
  <2>5. QED
    BY <1>1, <1>6, <2>1, <2>2, <2>3, <2>4
<1>7. ASSUME NEW s \in 1 .. n + 1
      PROVE  MigratedInOrder(file'[s])
  <2>1. CASE s \in 1 .. n
    BY <1>3, <1>4, <2>1
  <2>2. CASE s = n + 1
    BY <1>3, <2>2
  <2>3. QED
    BY <1>1, <2>1, <2>2
<1>8. QED
  BY <1>3, <1>6, <1>7 DEF History, MigratedInOrder

\* An update that leaves nothing in the log changes no table.
LEMMA SilentUpdate ==
  ASSUME STypeOK, NEW r \in Realms, NewLog(r) = {}, ~CreatesFile(r), ~Migrates(r)
  PROVE  NewTables(r) = file[Latest].tables
<1> DEFINE g == config[ProcessOf[r]]
           tables == file[Latest].tables
           ch == Changes(r)
           grown == Grown(tables, ch, TargetOf[g])
<1>1. g \in Configs /\ tables \in TablesType
  BY ConfigFacts, LatestType, SnapshotParts
<1>2. Compared(ch, actual[r], TargetOf[g])
  BY <1>1, CompareFacts DEF Changes, Target
<1>3. ch.tables = {} /\ NoProperties(ch)
  BY DEF NewLog, Instructions
<1>4. NewTables(r) = grown
  BY DEF NewTables, Target
<1> HIDE DEF g, tables, ch
<1>5. /\ Grown(tables, ch, TargetOf[g]) \in TablesType
      /\ DOMAIN Grown(tables, ch, TargetOf[g]) = DOMAIN tables \cup ch.tables
      /\ GrownOf(Grown(tables, ch, TargetOf[g]), tables, ch, TargetOf[g])
  BY <1>1, <1>2, GrownFacts
<1>6. grown \in TablesType /\ DOMAIN grown = DOMAIN tables \cup ch.tables
      /\ GrownOf(grown, tables, ch, TargetOf[g])
  BY <1>5
<1> HIDE DEF grown
<1>7. \A c \in DOMAIN tables : grown[c] = tables[c]
  <2> SUFFICES ASSUME NEW c \in DOMAIN tables
               PROVE  grown[c] = tables[c]
    OBVIOUS
  <2>1. tables[c] \in Seq(ColumnType) /\ c \in DOMAIN grown
    BY <1>1, <1>6, TablesParts
  <2>2. CASE c \in DOMAIN ch.added
    <3>1. grown[c] = tables[c] \o ch.added[c] /\ ch.added[c] = <<>>
      BY <1>3, <1>6, <2>1, <2>2 DEF GrownOf, NoProperties
    <3>2. QED
      BY <2>1, <3>1, ConcatEmptySeq
  <2>3. CASE c \notin DOMAIN ch.added
    BY <1>3, <1>6, <2>1, <2>3 DEF GrownOf
  <2>4. QED
    BY <2>2, <2>3
<1>8. tables = [c \in DOMAIN tables |-> tables[c]] /\ grown = [c \in DOMAIN grown |-> grown[c]]
  BY <1>1, <1>6 DEF TablesType
<1>9. grown = tables
  BY <1>3, <1>6, <1>7, <1>8
<1>10. QED
  BY <1>4, <1>9 DEF tables

\* An update adds to the history what comes after it.
LEMMA UpdateInOrder ==
  ASSUME STypeOK, SInv, NumbersShow', NEW r \in Realms, CommitUpdate(r)
  PROVE  History'
<1> DEFINE x == ApplySchemaChanges(r)
           f == file[Latest]
<1>1. /\ x.version = NewVersion(r) /\ x.tables = NewTables(r) /\ x.log = NewLog(r)
      /\ x.migrated = IF CallsMigration(r)
                      THEN Append(f.migrated, [from |-> f.version, to |-> Wanted(r)])
                      ELSE f.migrated
  BY DEF ApplySchemaChanges
<1>2. /\ x \in SnapshotType /\ x.version \in Nat \cup {NotVersioned} /\ f.version \in Nat \cup {NotVersioned}
      /\ f.migrated \in Seq([from : Nat \cup {NotVersioned}, to : Nat])
      /\ Wanted(r) \in Nat /\ Latest \in Nat /\ Latest \in 1 .. Latest
  BY ApplyType, LatestType, SnapshotParts, ConfigFacts
<1>3. file' = Append(file, x)
  BY DEF CommitUpdate
<1> HIDE DEF x
<1>4. FileKept /\ Latest' = Latest + 1 /\ file'[Latest + 1] = x /\ file'[Latest] = f
  <2>1. FileKept /\ Latest' = Latest + 1 /\ file'[Latest + 1] = x
    BY <1>3, AppendKeeps
  <2>2. QED
    BY <1>2, <2>1 DEF FileKept
<1>5. History /\ Standing(r) /\ Informed(r) /\ pc[r] = "updating"
  BY DEF SInv, CommitUpdate
<1>6. group[r] = Latest /\ version[r] = f.version /\ (mode = "Automatic" => version[r] <= Wanted(r))
  BY <1>2, <1>5 DEF Standing, Informed, Writing, At, STypeOK
<1>7. f.version <= x.version
  BY <1>1, <1>2, <1>6 DEF NewVersion, CreatesFile, STypeOK, NotVersioned
<1>8. x.log = {} => x.version = f.version
  <2>1. f.version # x.version => x.log # {}
    BY <1>2, <1>4 DEF NumbersShow
  <2>2. QED
    BY <2>1
<1>9. x.log = {} => x.tables = f.tables
  <2>1. ASSUME x.log = {}
        PROVE  ~CreatesFile(r) /\ ~Migrates(r)
    <3>1. version[r] # NotVersioned
      BY <1>1, <1>6, <2>1 DEF NewLog
    <3>2. NewVersion(r) = version[r]
      BY <1>1, <1>6, <1>8, <2>1
    <3>3. QED
      BY <3>1, <3>2 DEF CreatesFile, Migrates, NewVersion
  <2>2. QED
    BY <1>1, <2>1, SilentUpdate
<1>10. DOMAIN f.tables \subseteq DOMAIN x.tables
  BY <1>1, NewTablesFacts
<1>11. MigratedInOrder(x)
  <2>1. MigratedInOrder(f)
    BY <1>2, <1>5 DEF History
  <2>2. CASE ~CallsMigration(r)
    <3>1. x.migrated = f.migrated
      BY <1>1, <2>2
    <3>2. \A i \in DOMAIN f.migrated : f.migrated[i].to \in Nat
      <4>1. \A i \in DOMAIN f.migrated : f.migrated[i] \in [from : Nat \cup {NotVersioned}, to : Nat]
        BY <1>2, LenProperties, ElementOfSeq
      <4>2. QED
        BY <4>1
    <3>3. \A i \in DOMAIN f.migrated : f.migrated[i].to <= x.version
      <4>1. \A i \in DOMAIN f.migrated : f.migrated[i].to <= f.version
        BY <2>1 DEF MigratedInOrder
      <4>2. f.version \in Int /\ x.version \in Int
        BY <1>2 DEF NotVersioned
      <4> HIDE DEF f
      <4>3. QED
        BY <1>7, <3>2, <4>1, <4>2
    <3>4. QED
      BY <2>1, <3>1, <3>3 DEF MigratedInOrder
  <2>3. CASE CallsMigration(r)
    <3> DEFINE m == f.migrated
               entry == [from |-> f.version, to |-> Wanted(r)]
    <3>1. f.version < Wanted(r) /\ x.version = Wanted(r)
      BY <1>1, <1>2, <1>6, <2>3 DEF CallsMigration, Migrates, NewVersion, NotVersioned
    <3>2. Len(m) \in Nat /\ DOMAIN m = 1 .. Len(m)
          /\ \A i \in DOMAIN m : m[i].from \in Nat \cup {NotVersioned} /\ m[i].to \in Nat
      <4>1. Len(m) \in Nat /\ DOMAIN m = 1 .. Len(m)
        BY <1>2, LenProperties
      <4>2. \A i \in DOMAIN m : m[i] \in [from : Nat \cup {NotVersioned}, to : Nat]
        BY <1>2, <4>1, ElementOfSeq
      <4>3. QED
        BY <4>1, <4>2
    <3>3. /\ x.migrated = Append(m, entry) /\ DOMAIN x.migrated = 1 .. Len(m) + 1
          /\ \A i \in 1 .. Len(m) : x.migrated[i] = m[i]
          /\ x.migrated[Len(m) + 1] = entry
      BY <1>1, <1>2, <2>3
    <3>4. entry.from = f.version /\ entry.to = Wanted(r)
      OBVIOUS
    <3>5. \A i \in 1 .. Len(m) :
            m[i].from < m[i].to /\ m[i].to <= f.version /\ (i > 1 => m[i - 1].to <= m[i].from)
      BY <2>1, <3>2 DEF MigratedInOrder
    <3> HIDE DEF m, entry
    <3>6. ASSUME NEW i \in DOMAIN x.migrated
          PROVE  /\ x.migrated[i].from < x.migrated[i].to /\ x.migrated[i].to <= x.version
                 /\ i > 1 => x.migrated[i - 1].to <= x.migrated[i].from
      <4>1. CASE i \in 1 .. Len(m)
        <5>1. i > 1 => i - 1 \in 1 .. Len(m)
          BY <3>2, <4>1
        <5>2. x.migrated[i] = m[i] /\ (i > 1 => x.migrated[i - 1] = m[i - 1])
          BY <3>3, <4>1, <5>1
        <5>3. m[i].to <= x.version
          <6>1. m[i].to \in Int /\ f.version \in Int /\ x.version \in Int
            BY <1>2, <3>2, <4>1 DEF NotVersioned
          <6>2. m[i].to <= f.version /\ f.version <= x.version
            BY <1>7, <3>5, <4>1
          <6>3. QED
            BY <6>1, <6>2
        <5>4. QED
          BY <3>5, <4>1, <5>2, <5>3
      <4>2. CASE i = Len(m) + 1
        <5>1. i > 1 => i - 1 \in 1 .. Len(m) /\ i - 1 = Len(m)
          BY <3>2, <4>2
        <5>2. x.migrated[i] = entry
          BY <3>3, <4>2
        <5>3. x.migrated[i].from < x.migrated[i].to /\ x.migrated[i].to <= x.version
          BY <1>2, <3>1, <3>4, <5>2
        <5>4. i > 1 => m[i - 1].to <= f.version /\ x.migrated[i - 1] = m[i - 1]
          BY <3>3, <3>5, <5>1
        <5>5. QED
          BY <3>4, <5>2, <5>3, <5>4
      <4>3. QED
        BY <3>2, <3>3, <4>1, <4>2
    <3>7. QED
      BY <3>6 DEF MigratedInOrder
  <2>4. QED
    BY <2>2, <2>3
<1>12. QED
  BY <1>2, <1>4, <1>5, <1>7, <1>8, <1>9, <1>10, <1>11, HistoryAppends

\* A write's commit keeps the history in order.
LEMMA WriteInOrder ==
  ASSUME STypeOK, History, NEW r \in Realms, CommitWrite(r)
  PROVE  History'
<1> DEFINE x == [file[Latest] EXCEPT !.log = {}]
<1>1. FileKept /\ Latest' = Latest + 1 /\ file'[Latest + 1] = x
  BY AppendKeeps DEF CommitWrite
<1>2. file[Latest] \in SnapshotType /\ Latest \in 1 .. Latest
  BY LatestType
<1>3. x.version = file[Latest].version /\ x.tables = file[Latest].tables /\ x.migrated = file[Latest].migrated
      /\ x.version \in Nat \cup {NotVersioned}
  BY <1>2 DEF SnapshotType
<1> HIDE DEF x
<1>4. MigratedInOrder(x)
  BY <1>2, <1>3 DEF History, MigratedInOrder
<1>5. file[Latest].version <= x.version
  BY <1>3 DEF NotVersioned
<1>6. QED
  BY <1>1, <1>3, <1>4, <1>5, HistoryAppends

---------------------------------------------------------------------------------
(* What a step makes of the instance that takes it. *)

\* What the invariant says of one instance and of its process.
LEMMA ActorFacts ==
  ASSUME STypeOK, SInv, NEW r \in Realms
  PROVE  /\ History /\ Standing(r) /\ Informed(r) /\ OpensAlone(r) /\ Near(r)
         /\ ProcessOf[r] \in Processes /\ CacheFits(ProcessOf[r]) /\ Cache(r) \in CacheType
         /\ Wanted(r) \in Nat /\ Latest \in Nat \ {0}
         /\ pc[r] \in Locations
         /\ group[r] \in Nat /\ transaction[r] \in Nat /\ newSchema[r] \in Nat
         /\ version[r] \in Nat \cup {NotVersioned}
BY ConfigFacts DEF SInv, STypeOK, Cache

\* A closed instance stands nowhere and knows nothing.
LEMMA GonePlace ==
  ASSUME STypeOK, NEW r \in Realms, Gone(r)
  PROVE  Standing(r)' /\ Informed(r)'
<1>1. pc'[r] = "closed" /\ group'[r] = 0 /\ transaction'[r] = 0 /\ newSchema'[r] = 0
  BY DEF Gone, STypeOK
<1>2. Standing(r)'
  BY <1>1 DEF Standing, Uncached, Writing
<1>3. Informed(r)'
  BY <1>1 DEF Informed, Uncached
<1>4. QED
  BY <1>2, <1>3

\* Who is not told of a change has missed none.
LEMMA NotToldIsQuiet ==
  ASSUME STypeOK, NEW i \in Nat, NEW j \in 1 .. Latest, ~Told(i, j)
  PROVE  Quiet(i, j)
<1>1. \A k \in i + 1 .. j : file[k].log = {}
  BY DEF Told, Between
<1>2. QED
  BY <1>1 DEF Quiet

\* What an instance has after its snapshot moved.
LEMMA AdvancePlace ==
  ASSUME STypeOK, SInv, NEW r \in Realms, NEW dynamic \in BOOLEAN, Advance(r, dynamic),
         group[r] \in 1 .. Latest, version[r] = file[group[r]].version, newSchema[r] = 0
  PROVE  /\ group'[r] = Latest /\ version'[r] = file[Latest].version
         /\ newSchema'[r] = IF Told(group[r], Latest) THEN Latest ELSE 0
         /\ newSchema'[r] = 0 => Quiet(group[r], Latest)
<1>1. History /\ Latest \in Nat \ {0}
  BY ActorFacts
<1>2. group'[r] = Latest
  BY DEF Advance, STypeOK
<1>3. CASE Told(group[r], Latest)
  BY <1>1, <1>2, <1>3 DEF Advance, STypeOK
<1>4. CASE ~Told(group[r], Latest)
  <2>1. Quiet(group[r], Latest)
    BY <1>1, <1>4, NotToldIsQuiet
  <2>2. file[group[r]].version = file[Latest].version
    BY <1>1, <2>1 DEF History
  <2>3. newSchema' = newSchema /\ version' = version
    BY <1>4 DEF Advance
  <2>4. QED
    BY <1>2, <1>4, <2>1, <2>2, <2>3
<1>5. QED
  BY <1>3, <1>4

\* What opens an instance from the cache is of the last snapshot it is good for.
LEMMA CacheIsOfMax ==
  ASSUME STypeOK, SInv, NEW r \in Realms, Cache(r).snapshot # 0, Reliable(ProcessOf[r])
  PROVE  /\ Cache(r).max \in 1 .. Latest /\ Cache(r).version = file[Cache(r).max].version
         /\ file[Cache(r).snapshot].tables = file[Cache(r).max].tables
         /\ Cache(r).snapshot \in 1 .. Latest
<1> DEFINE k == Cache(r)
<1>1. k \in CacheType /\ CacheFits(ProcessOf[r]) /\ History /\ Latest \in Nat
  BY ActorFacts
<1>2. k.min \in Nat /\ k.max \in Nat /\ k.snapshot \in Nat
  BY <1>1 DEF CacheType
<1>3. /\ k.max <= Latest /\ 1 <= k.min /\ k.min <= k.snapshot /\ k.snapshot <= k.max
      /\ Quiet(k.min, k.max) /\ k.version = file[k.snapshot].version
  BY <1>1 DEF CacheFits, Cache
<1> HIDE DEF k
<1>4. k.snapshot \in 1 .. Latest /\ k.max \in 1 .. Latest
  BY <1>1, <1>2, <1>3
<1>5. Quiet(k.snapshot, k.max)
  BY <1>2, <1>3 DEF Quiet
<1>6. file[k.snapshot].version = file[k.max].version /\ file[k.snapshot].tables = file[k.max].tables
  BY <1>1, <1>3, <1>4, <1>5 DEF History
<1>7. QED
  BY <1>3, <1>4, <1>6 DEF k

\* An instance may open while nobody in its process is in an update.
LEMMA OpensReliably ==
  ASSUME NEW r \in Realms, CanOpen(r)
  PROVE  Reliable(ProcessOf[r])
BY DEF CanOpen, Siblings, Reliable, Opening

\* An answer other than "throws" means that the configuration is not the older one.
LEMMA VerdictFacts ==
  ASSUME STypeOK, NEW r \in Realms, NEW v \in Nat \cup {NotVersioned}, NEW changes,
         Verdict(r, v, changes) # "throws", mode = "Automatic"
  PROVE  v <= Wanted(r)
<1>1. Wanted(r) \in Nat
  BY ConfigFacts
<1>2. Wanted(r) = v \/ ~(Wanted(r) < v) \/ v = NotVersioned
  BY DEF Verdict
<1>3. QED
  BY <1>1, <1>2 DEF NotVersioned

\* The steps that open an instance keep its place in the history right.
LEMMA OpeningPlace ==
  ASSUME STypeOK, SInv, NEW r \in Realms,
         OpenFromCache(r) \/ OpenFromFile(r) \/ CacheConstructed(r) \/ AlignWithThread(r) \/ AlignWithFile(r)
  PROVE  Standing(r)' /\ Informed(r)'
<1>1. UNCHANGED <<file, mode, config>> /\ Latest' = Latest /\ Wanted(r)' = Wanted(r)
  BY DEF OpenFromCache, OpenFromFile, CacheConstructed, AlignWithThread, AlignWithFile, Latest, Wanted
<1>2. /\ Standing(r) /\ Informed(r) /\ Latest \in Nat \ {0}
      /\ group[r] \in Nat /\ transaction[r] \in Nat /\ newSchema[r] \in Nat
      /\ version[r] \in Nat \cup {NotVersioned} /\ file[Latest].version \in Nat \cup {NotVersioned}
  BY ActorFacts, LatestType
<1>3. CASE OpenFromCache(r)
  <2>1. pc[r] = "closed" /\ group[r] = 0 /\ newSchema[r] = 0
    BY <1>2, <1>3 DEF OpenFromCache, CanOpen, Standing
  <2>2. /\ pc'[r] = "aligning" /\ group'[r] = 0 /\ newSchema'[r] = 0
        /\ transaction'[r] = Cache(r).max /\ version'[r] = Cache(r).version
    BY <1>3, <2>1 DEF OpenFromCache, STypeOK
  <2>3. Cache(r).max \in 1 .. Latest /\ Cache(r).version = file[Cache(r).max].version
    BY <1>3, OpensReliably, CacheIsOfMax DEF OpenFromCache
  <2>4. Standing(r)'
    BY <1>1, <2>2, <2>3 DEF Standing, Uncached, Writing
  <2>5. Informed(r)'
    BY <1>1, <2>2, <2>3 DEF Informed, Uncached, At
  <2>6. QED
    BY <2>4, <2>5
<1>4. CASE OpenFromFile(r)
  <2>1. pc[r] = "closed" /\ newSchema[r] = 0
    BY <1>2, <1>4 DEF OpenFromFile, CanOpen, Standing
  <2>2. /\ pc'[r] = "constructed" /\ group'[r] = Latest /\ newSchema'[r] = 0
        /\ transaction'[r] = Latest /\ version'[r] = file[Latest].version
    BY <1>4, <2>1 DEF OpenFromFile, STypeOK
  <2>3. Standing(r)'
    BY <1>1, <1>2, <2>2 DEF Standing, Uncached, Writing
  <2>4. Informed(r)'
    BY <1>1, <1>2, <2>2 DEF Informed, Uncached, At
  <2>5. QED
    BY <2>3, <2>4
<1>5. CASE CacheConstructed(r)
  <2>1. /\ group[r] = transaction[r] /\ transaction[r] \in 1 .. Latest /\ newSchema[r] = 0
        /\ version[r] = file[transaction[r]].version
    BY <1>2, <1>5 DEF CacheConstructed, Standing, Informed, Uncached, At
  <2>2. /\ pc'[r] = "aligning" /\ group'[r] = 0 /\ newSchema'[r] = newSchema[r]
        /\ transaction'[r] = transaction[r] /\ version'[r] = version[r]
    BY <1>5 DEF CacheConstructed, STypeOK
  <2>3. Standing(r)'
    BY <1>1, <1>2, <2>1, <2>2 DEF Standing, Uncached, Writing
  <2>4. Informed(r)'
    BY <1>1, <2>1, <2>2 DEF Informed, Uncached, At
  <2>5. QED
    BY <2>3, <2>4
<1>6. CASE AlignWithThread(r)
  <2>1. \/ Gone(r)
        \/ /\ pc[r] = "aligning" /\ UNCHANGED <<version, transaction, newSchema>>
           /\ pc' = [pc EXCEPT ![r] = "open"] /\ group' = [group EXCEPT ![r] = 0]
    BY <1>6 DEF AlignWithThread, Opened
  <2>2. CASE Gone(r)
    BY <2>2, GonePlace
  <2>3. CASE /\ pc[r] = "aligning" /\ UNCHANGED <<version, transaction, newSchema>>
             /\ pc' = [pc EXCEPT ![r] = "open"] /\ group' = [group EXCEPT ![r] = 0]
    <3>1. /\ transaction[r] \in 1 .. Latest /\ newSchema[r] = 0 /\ version[r] = file[transaction[r]].version
      BY <1>2, <2>3 DEF Standing, Informed, Uncached, At
    <3>2. pc'[r] = "open" /\ group'[r] = 0 /\ newSchema'[r] = 0
      BY <2>3, <3>1 DEF STypeOK
    <3>3. Standing(r)'
      BY <1>1, <2>3, <3>1, <3>2 DEF Standing, Uncached, Writing
    <3>4. Informed(r)'
      BY <1>1, <2>3, <3>1, <3>2 DEF Informed, Uncached, At
    <3>5. QED
      BY <3>3, <3>4
  <2>4. QED
    BY <2>1, <2>2, <2>3
<1>7. CASE AlignWithFile(r)
  <2> DEFINE fresh == transaction[r] # Latest
             known == IF fresh THEN file[Latest].version ELSE version[r]
  <2>1. pc[r] = "aligning" /\ newSchema[r] = 0 /\ version[r] = file[transaction[r]].version
    BY <1>2, <1>7 DEF AlignWithFile, Standing, Informed, Uncached, At
  <2>2. known = file[Latest].version
    BY <2>1
  <2>3. \/ Gone(r)
        \/ /\ \E l \in {"open", "waiting"} :
                /\ pc' = [pc EXCEPT ![r] = l]
                /\ group' = [group EXCEPT ![r] = IF l = "open" THEN 0 ELSE Latest]
                /\ l = "waiting" => \E changes : Verdict(r, known, changes) = "yes"
           /\ version' = [version EXCEPT ![r] = known]
           /\ transaction' = [transaction EXCEPT ![r] = Latest]
           /\ UNCHANGED newSchema
    BY <1>7 DEF AlignWithFile, Opened, known
  <2> HIDE DEF known
  <2>4. CASE Gone(r)
    BY <2>4, GonePlace
  <2>5. CASE ~Gone(r)
    <3>1. PICK l \in {"open", "waiting"} :
            /\ pc' = [pc EXCEPT ![r] = l]
            /\ group' = [group EXCEPT ![r] = IF l = "open" THEN 0 ELSE Latest]
            /\ l = "waiting" => \E changes : Verdict(r, known, changes) = "yes"
            /\ version' = [version EXCEPT ![r] = known]
            /\ transaction' = [transaction EXCEPT ![r] = Latest]
            /\ UNCHANGED newSchema
      BY <2>3, <2>5
    <3>2. /\ pc'[r] = l /\ group'[r] = IF l = "open" THEN 0 ELSE Latest
          /\ version'[r] = file[Latest].version /\ transaction'[r] = Latest /\ newSchema'[r] = 0
      BY <2>1, <2>2, <3>1 DEF STypeOK
    <3>3. l = "waiting" /\ mode = "Automatic" => version'[r] <= Wanted(r)
      BY <1>2, <2>2, <3>1, <3>2, VerdictFacts
    <3>4. Standing(r)'
      BY <1>1, <1>2, <3>2 DEF Standing, Uncached, Writing
    <3>5. Informed(r)'
      BY <1>1, <1>2, <3>2, <3>3 DEF Informed, Uncached, At
    <3>6. QED
      BY <3>4, <3>5
  <2>6. QED
    BY <2>4, <2>5
<1>8. QED
  BY <1>3, <1>4, <1>5, <1>6, <1>7

\* The steps of an update but its commit keep the instance's place right.
LEMMA UpdatePlace ==
  ASSUME STypeOK, SInv, NEW r \in Realms,
         BeginUpdate(r) \/ UpdateFails(r) \/ FinishUpdate(r) \/ CacheNewSchema(r)
  PROVE  Standing(r)' /\ Informed(r)'
<1>1. UNCHANGED <<file, mode, config>> /\ Latest' = Latest /\ Wanted(r)' = Wanted(r)
  BY DEF BeginUpdate, UpdateFails, FinishUpdate, CacheNewSchema, Latest, Wanted
<1>2. /\ Standing(r) /\ Informed(r) /\ Latest \in Nat \ {0}
      /\ group[r] \in Nat /\ transaction[r] \in Nat /\ newSchema[r] \in Nat
      /\ version[r] \in Nat \cup {NotVersioned} /\ file[Latest].version \in Nat \cup {NotVersioned}
  BY ActorFacts, LatestType
<1>3. CASE BeginUpdate(r)
  <2> DEFINE new == SchemaFromGroup(file[Latest].tables)
             told == Told(group[r], Latest)
             changes == Compare(new, Target(r))
  <2>1. pc[r] = "waiting" /\ newSchema[r] = 0 /\ group[r] = transaction[r] /\ transaction[r] \in 1 .. Latest
        /\ version[r] = file[group[r]].version
    BY <1>2, <1>3 DEF BeginUpdate, Standing, Informed, Uncached, At
  <2>2. \/ Gone(r)
        \/ /\ Advance(r, TRUE) /\ UNCHANGED transaction
           /\ told => Verdict(r, file[Latest].version, changes) # "throws"
           /\ \E l \in {"satisfied", "rechecked"} : pc' = [pc EXCEPT ![r] = l]
    BY <1>3 DEF BeginUpdate
  <2> HIDE DEF told, changes
  <2>3. CASE Gone(r)
    BY <2>3, GonePlace
  <2>4. CASE /\ Advance(r, TRUE) /\ UNCHANGED transaction
             /\ told => Verdict(r, file[Latest].version, changes) # "throws"
             /\ \E l \in {"satisfied", "rechecked"} : pc' = [pc EXCEPT ![r] = l]
    <3>1. /\ group'[r] = Latest /\ version'[r] = file[Latest].version
          /\ newSchema'[r] = IF told THEN Latest ELSE 0
          /\ newSchema'[r] = 0 => Quiet(group[r], Latest)
      BY <2>1, <2>4, AdvancePlace DEF told
    <3>2. pc'[r] \in {"satisfied", "rechecked"} /\ transaction'[r] = transaction[r]
      BY <2>4 DEF STypeOK
    <3>3. mode = "Automatic" => version'[r] <= Wanted(r)
      <4>1. CASE told
        BY <1>2, <2>4, <3>1, <4>1, VerdictFacts
      <4>2. CASE ~told
        <5>1. version'[r] = version[r]
          BY <2>4, <4>2 DEF Advance, told
        <5>2. QED
          BY <1>2, <2>1, <5>1 DEF Informed
      <4>3. QED
        BY <4>1, <4>2
    <3>4. Standing(r)'
      BY <1>1, <1>2, <2>1, <3>1, <3>2 DEF Standing, Uncached, Writing
    <3>5. newSchema'[r] = 0 => Quiet(transaction[r], group[r])'
      BY <1>1, <2>1, <3>1, <3>2 DEF Quiet
    <3>6. Informed(r)'
      BY <1>1, <1>2, <3>1, <3>2, <3>3, <3>5 DEF Informed, Uncached, At
    <3>7. QED
      BY <3>4, <3>6
  <2>5. QED
    BY <2>2, <2>3, <2>4
<1>4. CASE UpdateFails(r)
  BY <1>4, GonePlace DEF UpdateFails
<1>5. CASE FinishUpdate(r)
  <2>1. pc[r] = "finishing" /\ newSchema[r] = 0 /\ group[r] = transaction[r] /\ transaction[r] \in 1 .. Latest
    BY <1>2, <1>5 DEF FinishUpdate, Standing, Uncached
  <2>2. /\ pc'[r] = "open" /\ group'[r] = 0 /\ newSchema'[r] = 0 /\ transaction'[r] = transaction[r]
        /\ version'[r] = file[transaction[r]].version
    BY <1>5, <2>1 DEF FinishUpdate, Opened, STypeOK
  <2>3. Standing(r)'
    BY <1>1, <2>1, <2>2 DEF Standing, Uncached, Writing
  <2>4. Informed(r)'
    BY <1>1, <2>1, <2>2 DEF Informed, Uncached, At
  <2>5. QED
    BY <2>3, <2>4
<1>6. CASE CacheNewSchema(r)
  <2>1. pc[r] \in Uncached /\ group[r] \in 1 .. Latest
    BY <1>2, <1>6 DEF CacheNewSchema, Standing
  <2>2. transaction'[r] = group[r] /\ newSchema'[r] = 0 /\ version'[r] = version[r]
    BY <1>6 DEF CacheNewSchema, STypeOK
  <2>3. \/ pc[r] = "satisfied" /\ pc'[r] = "open" /\ group'[r] = 0
        \/ pc[r] \in Uncached \ {"satisfied"} /\ pc'[r] = After(pc[r]) /\ group'[r] = group[r]
    BY <1>6 DEF CacheNewSchema, Opened, STypeOK
  <2>4. pc[r] # "updated" => version[r] = file[group[r]].version
    BY <1>2, <2>1 DEF Informed, Uncached, At
  <2>5. CASE pc[r] = "satisfied"
    <3>1. pc'[r] = "open" /\ group'[r] = 0
      BY <2>3, <2>5
    <3>2. Standing(r)'
      BY <1>1, <2>1, <2>2, <3>1 DEF Standing, Uncached, Writing
    <3>3. Informed(r)'
      BY <1>1, <2>1, <2>2, <2>4, <2>5, <3>1 DEF Informed, Uncached, At
    <3>4. QED
      BY <3>2, <3>3
  <2>6. CASE pc[r] # "satisfied"
    <3>1. /\ group'[r] = group[r]
          /\ \/ pc[r] = "rechecked" /\ pc'[r] = "updating"
             \/ pc[r] = "updated" /\ pc'[r] = "finishing"
             \/ pc[r] = "begun" /\ pc'[r] = "writing"
             \/ pc[r] \in {"advanced", "written"} /\ pc'[r] = "open"
      BY <2>1, <2>3, <2>6 DEF Uncached, After
    <3>2. pc[r] \in {"rechecked", "begun"} => group[r] = Latest
      BY <1>2 DEF Standing, Writing
    <3>3. pc[r] = "rechecked" /\ mode = "Automatic" => version[r] <= Wanted(r)
      BY <1>2 DEF Informed
    <3>4. Standing(r)'
      BY <1>1, <1>2, <2>1, <2>2, <3>1, <3>2 DEF Standing, Uncached, Writing
    <3>5. Informed(r)'
      BY <1>1, <2>1, <2>2, <2>4, <3>1, <3>3 DEF Informed, Uncached, At
    <3>6. QED
      BY <3>4, <3>5
  <2>7. QED
    BY <2>5, <2>6
<1>7. QED
  BY <1>3, <1>4, <1>5, <1>6

\* The steps of an open instance but its commit keep its place right.
LEMMA UsePlace ==
  ASSUME STypeOK, SInv, NEW r \in Realms,
         BeginRead(r) \/ Refresh(r) \/ BeginWrite(r) \/ CancelWrite(r) \/ Invalidate(r) \/ Release(r)
  PROVE  Standing(r)' /\ Informed(r)'
<1>1. UNCHANGED <<file, mode, config>> /\ Latest' = Latest /\ Wanted(r)' = Wanted(r)
  BY DEF BeginRead, Refresh, BeginWrite, CancelWrite, Invalidate, Release, Latest, Wanted
<1>2. /\ Standing(r) /\ Informed(r) /\ Latest \in Nat \ {0}
      /\ group[r] \in Nat /\ transaction[r] \in Nat /\ newSchema[r] \in Nat
      /\ version[r] \in Nat \cup {NotVersioned} /\ file[Latest].version \in Nat \cup {NotVersioned}
  BY ActorFacts, LatestType
<1>3. ASSUME pc[r] \in {"open", "writing"}
      PROVE  /\ newSchema[r] = 0 /\ transaction[r] \in 1 .. Latest
             /\ group[r] \in {0, transaction[r]} /\ version[r] = file[At(r)].version
             /\ version[r] = file[transaction[r]].version
             /\ pc[r] = "writing" => group[r] = transaction[r] /\ group[r] = Latest
  BY <1>2, <1>3 DEF Standing, Informed, Uncached, Writing, At
<1>4. CASE BeginRead(r)
  <2>1. pc[r] = "open"
    BY <1>4 DEF BeginRead
  <2>2. \/ Gone(r)
        \/ /\ UNCHANGED <<pc, newSchema>> /\ group' = [group EXCEPT ![r] = Latest]
           /\ \/ transaction[r] = Latest /\ UNCHANGED <<version, transaction>>
              \/ /\ transaction' = [transaction EXCEPT ![r] = Latest]
                 /\ version' = [version EXCEPT ![r] = file[Latest].version]
    BY <1>4 DEF BeginRead
  <2>3. CASE Gone(r)
    BY <2>3, GonePlace
  <2>4. CASE ~Gone(r)
    <3>1. /\ pc'[r] = "open" /\ newSchema'[r] = 0 /\ group'[r] = Latest
          /\ transaction'[r] = Latest /\ version'[r] = file[Latest].version
      BY <1>3, <2>1, <2>2, <2>4 DEF STypeOK
    <3>2. Standing(r)'
      BY <1>1, <1>2, <3>1 DEF Standing, Uncached, Writing
    <3>3. Informed(r)'
      BY <1>1, <1>2, <3>1 DEF Informed, Uncached, At
    <3>4. QED
      BY <3>2, <3>3
  <2>5. QED
    BY <2>3, <2>4
<1>5. CASE Refresh(r) \/ BeginWrite(r)
  <2>1. /\ pc[r] = "open" /\ group[r] # 0 /\ Advance(r, FALSE) /\ UNCHANGED transaction
        /\ \E l \in {"advanced", "begun"} : pc' = [pc EXCEPT ![r] = l]
    <3>1. CASE Refresh(r)
      <4>1. group[r] # 0
        BY <1>2, <3>1 DEF Refresh
      <4>2. QED
        BY <3>1, <4>1 DEF Refresh
    <3>2. CASE BeginWrite(r)
      BY <3>2 DEF BeginWrite
    <3>3. QED
      BY <1>5, <3>1, <3>2
  <2>2. group[r] = transaction[r] /\ transaction[r] \in 1 .. Latest /\ newSchema[r] = 0
        /\ version[r] = file[group[r]].version
    BY <1>3, <2>1
  <2>3. /\ group'[r] = Latest /\ version'[r] = file[Latest].version
        /\ newSchema'[r] = IF Told(group[r], Latest) THEN Latest ELSE 0
        /\ newSchema'[r] = 0 => Quiet(group[r], Latest)
    BY <2>1, <2>2, AdvancePlace
  <2>4. pc'[r] \in {"advanced", "begun"} /\ transaction'[r] = transaction[r]
    BY <2>1 DEF STypeOK
  <2>5. Standing(r)'
    BY <1>1, <1>2, <2>2, <2>3, <2>4 DEF Standing, Uncached, Writing
  <2>6. newSchema'[r] = 0 => Quiet(transaction[r], group[r])'
    BY <1>1, <2>2, <2>3, <2>4 DEF Quiet
  <2>7. Informed(r)'
    BY <1>1, <1>2, <2>3, <2>4, <2>6 DEF Informed, Uncached, At
  <2>8. QED
    BY <2>5, <2>7
<1>6. CASE CancelWrite(r)
  <2>1. /\ pc[r] = "writing" /\ pc'[r] = "open"
        /\ UNCHANGED <<group, version, transaction, newSchema>>
    BY <1>6 DEF CancelWrite, STypeOK
  <2>2. Standing(r)'
    BY <1>1, <1>2, <1>3, <2>1 DEF Standing, Uncached, Writing
  <2>3. Informed(r)'
    BY <1>1, <1>3, <2>1 DEF Informed, Uncached, At
  <2>4. QED
    BY <2>2, <2>3
<1>7. CASE Invalidate(r)
  <2>1. /\ pc[r] = "open" /\ group'[r] = 0
        /\ UNCHANGED <<pc, version, transaction, newSchema>>
    BY <1>7 DEF Invalidate, STypeOK
  <2>2. Standing(r)'
    BY <1>1, <1>2, <1>3, <2>1 DEF Standing, Uncached, Writing
  <2>3. Informed(r)'
    BY <1>1, <1>3, <2>1 DEF Informed, Uncached, At
  <2>4. QED
    BY <2>2, <2>3
<1>8. CASE Release(r)
  BY <1>8, GonePlace DEF Release
<1>9. QED
  BY <1>4, <1>5, <1>6, <1>7, <1>8

\* A commit puts the instance at the snapshot it made.
LEMMA CommitPlace ==
  ASSUME STypeOK, SInv, NEW r \in Realms, CommitUpdate(r) \/ CommitWrite(r)
  PROVE  Standing(r)' /\ Informed(r)'
<1>1. PICK n \in Nat \ {0} : n = Latest
  BY ActorFacts
<1>2. /\ Standing(r) /\ Informed(r)
      /\ group[r] \in Nat /\ transaction[r] \in Nat /\ newSchema[r] \in Nat
      /\ version[r] \in Nat \cup {NotVersioned}
  BY ActorFacts
<1>3. FileKept /\ Latest' = n + 1
  BY <1>1, AppendKeeps DEF CommitUpdate, CommitWrite
<1>4. CommitWrite(r) => file'[n + 1].version = file[n].version /\ file'[n + 1].log = {}
  <2> SUFFICES ASSUME CommitWrite(r)
               PROVE  file'[n + 1].version = file[n].version /\ file'[n + 1].log = {}
    OBVIOUS
  <2> DEFINE x == [file[n] EXCEPT !.log = {}]
  <2>1. x.version = file[n].version /\ x.log = {}
    BY <1>1, LatestType DEF SnapshotType
  <2> HIDE DEF x
  <2>2. file'[n + 1] = x
    BY <1>1, AppendKeeps DEF CommitWrite, x
  <2>3. QED
    BY <2>1, <2>2
<1>5. pc[r] \in {"updating", "writing"} /\ newSchema[r] = 0 /\ group[r] = n /\ transaction[r] = n
      /\ version[r] = file[n].version
  BY <1>1, <1>2 DEF CommitUpdate, CommitWrite, Standing, Informed, Uncached, Writing, At
<1>6. /\ transaction'[r] = n /\ newSchema'[r] = 0 /\ group'[r] = n + 1 /\ version'[r] = file[n].version
      /\ pc'[r] = IF CommitWrite(r) THEN "written" ELSE "updated"
  BY <1>1, <1>5 DEF CommitUpdate, CommitWrite, STypeOK
<1>7. Standing(r)'
  BY <1>1, <1>3, <1>6 DEF Standing, Uncached, Writing
<1>8. CommitWrite(r) => Quiet(transaction[r], group[r])' /\ version'[r] = file'[n + 1].version
  BY <1>1, <1>4, <1>6 DEF Quiet
<1>9. Informed(r)'
  BY <1>1, <1>6, <1>8 DEF Informed, Uncached, At
<1>10. QED
  BY <1>7, <1>9

---------------------------------------------------------------------------------
(* What a step leaves to the others. *)

Step(r) == Open(r) \/ CacheNewSchema(r) \/ Use(r)

SameInstance(q) ==
  /\ pc'[q] = pc[q] /\ group'[q] = group[q] /\ version'[q] = version[q]
  /\ transaction'[q] = transaction[q] /\ newSchema'[q] = newSchema[q]

\* Only the instance and the cache of its process change.
LEMMA StepFrame ==
  ASSUME STypeOK, NEW r \in Realms, Step(r)
  PROVE  /\ UNCHANGED <<mode, config>>
         /\ \A q \in Realms \ {r} : SameInstance(q)
         /\ \A p \in Processes \ {ProcessOf[r]} : cache'[p] = cache[p]
<1> DEFINE Frame ==
             /\ UNCHANGED <<mode, config>>
             /\ \A q \in Realms \ {r} : SameInstance(q)
             /\ \A p \in Processes \ {ProcessOf[r]} : cache'[p] = cache[p]
<1>1. Left(cache, r) \in [Processes -> CacheType]
      /\ \A p \in Processes \ {ProcessOf[r]} : Left(cache, r)[p] = cache[p]
  BY LeftTypes DEF Left, STypeOK
<1>2. ASSUME Gone(r)
      PROVE  \A q \in Realms \ {r} : SameInstance(q)
  BY <1>2 DEF Gone, SameInstance, STypeOK
<1>3. CASE OpenFromCache(r)
  BY <1>3 DEF OpenFromCache, SameInstance, STypeOK
<1>4. CASE OpenFromFile(r)
  BY <1>4 DEF OpenFromFile, SameInstance, STypeOK
<1>5. CASE CacheConstructed(r)
  BY <1>5 DEF CacheConstructed, SameInstance, STypeOK
<1>6. CASE AlignWithThread(r)
  <2>1. UNCHANGED <<mode, config>> /\ (cache' = cache \/ cache' = Left(cache, r))
        /\ \/ Gone(r)
           \/ \E s : Opened(r, s) /\ UNCHANGED <<version, transaction, newSchema>>
    BY <1>6 DEF AlignWithThread
  <2>2. \A q \in Realms \ {r} : SameInstance(q)
    BY <1>2, <2>1 DEF Opened, SameInstance, STypeOK
  <2>3. QED
    BY <1>1, <2>1, <2>2
<1>7. CASE AlignWithFile(r)
  <2> DEFINE fresh == transaction[r] # Latest
             known == IF fresh THEN file[Latest].version ELSE version[r]
             kept == IF fresh THEN [cache EXCEPT ![ProcessOf[r]] = CacheSchema(@, known, Latest)]
                     ELSE cache
  <2>1. \A p \in Processes \ {ProcessOf[r]} : kept[p] = cache[p]
    BY DEF STypeOK
  <2> HIDE DEF kept
  <2>2. UNCHANGED <<mode, config>> /\ (cache' = kept \/ cache' = Left(cache, r))
        /\ \/ Gone(r)
           \/ /\ \E l, g : pc' = [pc EXCEPT ![r] = l] /\ group' = [group EXCEPT ![r] = g]
              /\ version' = [version EXCEPT ![r] = known]
              /\ transaction' = [transaction EXCEPT ![r] = Latest]
              /\ UNCHANGED newSchema
    BY <1>7 DEF AlignWithFile, Opened, kept
  <2>3. \A q \in Realms \ {r} : SameInstance(q)
    BY <1>2, <2>2 DEF SameInstance, STypeOK
  <2>4. QED
    BY <1>1, <2>1, <2>2, <2>3
<1>8. ASSUME NEW dynamic, Advance(r, dynamic)
      PROVE  \A q \in Realms \ {r} :
               group'[q] = group[q] /\ version'[q] = version[q] /\ newSchema'[q] = newSchema[q]
  BY <1>8 DEF Advance, STypeOK
<1>9. CASE BeginUpdate(r)
  <2>1. UNCHANGED <<mode, config>> /\ (cache' = cache \/ cache' = Left(cache, r))
        /\ \/ Gone(r)
           \/ /\ Advance(r, TRUE) /\ transaction' = transaction
              /\ \E l : pc' = [pc EXCEPT ![r] = l]
    BY <1>9 DEF BeginUpdate
  <2>2. \A q \in Realms \ {r} : SameInstance(q)
    BY <1>2, <1>8, <2>1 DEF SameInstance, STypeOK
  <2>3. QED
    BY <1>1, <2>1, <2>2
<1>10. CASE CommitUpdate(r)
  BY <1>10 DEF CommitUpdate, SameInstance, STypeOK
<1>11. CASE UpdateFails(r)
  BY <1>1, <1>2, <1>11 DEF UpdateFails
<1>12. CASE FinishUpdate(r)
  BY <1>12 DEF FinishUpdate, Opened, SameInstance, STypeOK
<1>13. CASE CacheNewSchema(r)
  BY <1>13 DEF CacheNewSchema, Opened, SameInstance, STypeOK
<1>14. CASE BeginRead(r)
  <2> DEFINE kept == [cache EXCEPT ![ProcessOf[r]] = CacheSchema(@, file[Latest].version, Latest)]
  <2>1. kept \in [Processes -> CacheType] /\ \A p \in Processes \ {ProcessOf[r]} : kept[p] = cache[p]
    BY LatestType, CacheTypes DEF STypeOK
  <2>2. \A p \in Processes \ {ProcessOf[r]} : Left(kept, r)[p] = cache[p]
    BY <2>1 DEF Left
  <2> HIDE DEF kept
  <2>3. UNCHANGED <<mode, config>> /\ (cache' = cache \/ cache' = kept \/ cache' = Left(kept, r))
        /\ \/ Gone(r)
           \/ /\ UNCHANGED <<pc, newSchema>> /\ group' = [group EXCEPT ![r] = Latest]
              /\ \/ UNCHANGED <<version, transaction>>
                 \/ /\ transaction' = [transaction EXCEPT ![r] = Latest]
                    /\ version' = [version EXCEPT ![r] = file[Latest].version]
    BY <1>14 DEF BeginRead, kept
  <2>4. \A q \in Realms \ {r} : SameInstance(q)
    BY <1>2, <2>3 DEF SameInstance, STypeOK
  <2>5. QED
    BY <2>1, <2>2, <2>3, <2>4
<1>15. CASE Refresh(r) \/ BeginWrite(r)
  <2>1. UNCHANGED <<mode, config, cache, transaction>> /\ Advance(r, FALSE)
        /\ \E l : pc' = [pc EXCEPT ![r] = l]
    BY <1>15 DEF Refresh, BeginWrite
  <2>2. \A q \in Realms \ {r} : SameInstance(q)
    BY <1>8, <2>1 DEF SameInstance, STypeOK
  <2>3. QED
    BY <2>1, <2>2
<1>16. CASE CommitWrite(r)
  BY <1>16 DEF CommitWrite, SameInstance, STypeOK
<1>17. CASE CancelWrite(r) \/ Invalidate(r)
  BY <1>17 DEF CancelWrite, Invalidate, SameInstance, STypeOK
<1>18. CASE Release(r)
  BY <1>1, <1>2, <1>18 DEF Release
<1>19. QED
  BY <1>3, <1>4, <1>5, <1>6, <1>7, <1>9, <1>10, <1>11, <1>12, <1>13, <1>14, <1>15, <1>16, <1>17, <1>18
    DEF Step, Open, Use

\* The file changes by a commit of the writer.
LEMMA StepFile ==
  ASSUME STypeOK, NEW r \in Realms, Step(r)
  PROVE  /\ FileKept
         /\ \/ UNCHANGED file
            \/ pc[r] \in {"updating", "writing"} /\ Latest' = Latest + 1
<1>1. Latest \in Nat
  BY LatestType
<1>2. CASE CommitUpdate(r) \/ CommitWrite(r)
  BY <1>2, AppendKeeps DEF CommitUpdate, CommitWrite
<1>3. CASE ~CommitUpdate(r) /\ ~CommitWrite(r)
  <2>1. UNCHANGED file
    BY <1>3 DEF Step, Open, Use, OpenFromCache, OpenFromFile, CacheConstructed, AlignWithThread,
      AlignWithFile, BeginUpdate, UpdateFails, FinishUpdate, CacheNewSchema, BeginRead, Refresh,
      BeginWrite, CancelWrite, Invalidate, Release
  <2>2. QED
    BY <1>1, <2>1 DEF FileKept, Latest
<1>4. QED
  BY <1>2, <1>3

\* How the place of an instance changes.
LEMMA StepMoves ==
  ASSUME STypeOK, SInv, NEW r \in Realms, Step(r)
  PROVE  /\ pc'[r] \in Writing => pc[r] \in Writing \/ LockFree
         /\ \/ CanOpen(r) /\ pc'[r] \in {"constructed", "aligning"}
            \/ /\ pc[r] \in {"constructed", "aligning"} /\ pc'[r] \in Opening
               /\ pc'[r] \in {"constructed", "aligning"} \/ \A q \in Siblings(r) : pc[q] \notin Cached
            \/ pc[r] \in Opening \ {"constructed", "aligning"} /\ pc'[r] \in Opening
            \/ pc[r] # "closed" /\ pc'[r] \notin Opening
         /\ Reliable(ProcessOf[r])' =>
              Reliable(ProcessOf[r]) \/ (pc[r] = "finishing" /\ FinishUpdate(r))
<1> DEFINE Moves(l, m) == pc[r] = l /\ pc'[r] = m
<1>1. /\ pc \in [Realms -> Locations] /\ pc[r] \in Locations
      /\ \A q \in Realms \ {r} : pc'[q] = pc[q]
  BY StepFrame DEF STypeOK, SameInstance
<1>2. \/ CanOpen(r) /\ pc'[r] \in {"constructed", "aligning"}
      \/ pc[r] = "constructed" /\ pc'[r] = "aligning"
      \/ pc[r] = "aligning" /\ pc'[r] \in {"closed", "open"}
      \/ pc[r] = "aligning" /\ pc'[r] = "waiting" /\ \A q \in Siblings(r) : pc[q] \notin Cached
      \/ pc[r] = "waiting" /\ LockFree /\ pc'[r] \in {"closed", "satisfied", "rechecked"}
      \/ pc[r] = "updating" /\ pc'[r] \in {"updated", "closed"}
      \/ pc[r] = "finishing" /\ pc'[r] = "open" /\ FinishUpdate(r)
      \/ pc[r] \in Uncached /\ pc'[r] = After(pc[r])
      \/ pc[r] = "open" /\ pc'[r] \in {"open", "closed", "advanced"}
      \/ pc[r] = "open" /\ LockFree /\ pc'[r] = "begun"
      \/ pc[r] = "writing" /\ pc'[r] \in {"written", "open"}
  <2>1. CASE OpenFromCache(r) \/ OpenFromFile(r) \/ CacheConstructed(r)
    BY <1>1, <2>1 DEF OpenFromCache, OpenFromFile, CacheConstructed
  <2>2. CASE AlignWithThread(r) \/ AlignWithFile(r)
    BY <1>1, <2>2 DEF AlignWithThread, AlignWithFile, Opened, Gone
  <2>3. CASE BeginUpdate(r)
    BY <1>1, <2>3 DEF BeginUpdate, Gone
  <2>4. CASE CommitUpdate(r) \/ UpdateFails(r) \/ FinishUpdate(r)
    BY <1>1, <2>4 DEF CommitUpdate, UpdateFails, FinishUpdate, Opened, Gone
  <2>5. CASE CacheNewSchema(r)
    BY <1>1, <2>5 DEF CacheNewSchema, Opened, After
  <2>6. CASE Use(r)
    BY <1>1, <2>6 DEF Use, BeginRead, Refresh, BeginWrite, CommitWrite, CancelWrite, Invalidate, Release, Gone
  <2>7. QED
    BY <2>1, <2>2, <2>3, <2>4, <2>5, <2>6 DEF Step, Open
<1>3. pc[r] \in Uncached =>
        \/ pc[r] = "rechecked" /\ pc'[r] = "updating"
        \/ pc[r] = "updated" /\ pc'[r] = "finishing"
        \/ pc[r] = "begun" /\ pc'[r] = "writing"
        \/ pc[r] \in {"satisfied", "advanced", "written"} /\ pc'[r] = "open"
  BY <1>2 DEF Uncached, After, CanOpen
<1>4. pc'[r] \in Writing => pc[r] \in Writing \/ LockFree
  BY <1>2, <1>3 DEF Writing
<1>5. \/ CanOpen(r) /\ pc'[r] \in {"constructed", "aligning"}
      \/ /\ pc[r] \in {"constructed", "aligning"} /\ pc'[r] \in Opening
         /\ pc'[r] \in {"constructed", "aligning"} \/ \A q \in Siblings(r) : pc[q] \notin Cached
      \/ pc[r] \in Opening \ {"constructed", "aligning"} /\ pc'[r] \in Opening
      \/ pc[r] # "closed" /\ pc'[r] \notin Opening
  BY <1>2, <1>3 DEF Opening, Uncached
<1>6. pc[r] \in {"updated", "finishing"} =>
        pc'[r] \in {"updated", "finishing"} \/ (pc[r] = "finishing" /\ FinishUpdate(r))
  BY <1>2, <1>3 DEF Uncached, CanOpen
<1>7. Reliable(ProcessOf[r])' =>
        Reliable(ProcessOf[r]) \/ (pc[r] = "finishing" /\ FinishUpdate(r))
  BY <1>1, <1>6 DEF Reliable
<1>8. QED
  BY <1>4, <1>5, <1>7

\* Every step of an instance leaves one writer.
LEMMA KeepsOneWriter ==
  ASSUME STypeOK, SInv, NEW r \in Realms, Step(r)
  PROVE  OneWriter'
<1>1. /\ \A q \in Realms \ {r} : pc'[q] = pc[q]
      /\ pc'[r] \in Writing => pc[r] \in Writing \/ LockFree
  BY StepFrame, StepMoves DEF SameInstance
<1>2. OneWriter
  BY DEF SInv
<1>3. QED
  BY <1>1, <1>2 DEF OneWriter, LockFree

\* Every step of an instance leaves one at a time opening.
LEMMA KeepsOpensAlone ==
  ASSUME STypeOK, SInv, NEW r \in Realms, Step(r), NEW q \in Realms
  PROVE  OpensAlone(q)'
<1> DEFINE First == {"constructed", "aligning"}
<1>1. \A o \in Realms \ {r} : pc'[o] = pc[o]
  BY StepFrame DEF SameInstance
<1>2. OpensAlone(q) /\ OpensAlone(r) /\ pc \in [Realms -> Locations]
  BY DEF SInv, STypeOK
<1>3. First \subseteq Opening /\ "closed" \notin Opening /\ Locations = {"closed"} \cup Opening \cup Cached
  BY DEF Opening, Locations
<1>4. \/ CanOpen(r) /\ pc'[r] \in First
      \/ pc[r] \in First /\ pc'[r] \in Opening
         /\ (pc'[r] \in First \/ \A o \in Siblings(r) : pc[o] \notin Cached)
      \/ pc[r] \in Opening \ First /\ pc'[r] \in Opening
      \/ pc[r] # "closed" /\ pc'[r] \notin Opening
  BY StepMoves
<1> SUFFICES ASSUME pc'[q] \in Opening, NEW o \in Siblings(q)
             PROVE  pc'[o] \notin Opening /\ (pc'[q] \notin First => pc'[o] = "closed")
  BY DEF OpensAlone, Siblings
<1>5. o \in Realms /\ o # q /\ ProcessOf[o] = ProcessOf[q]
  BY DEF Siblings
<1>6. CASE q = r
  <2>1. pc'[o] = pc[o] /\ o \in Siblings(r) /\ pc[o] \in Locations
    BY <1>1, <1>2, <1>5, <1>6
  <2>2. CASE CanOpen(r) /\ pc'[r] \in First
    BY <1>6, <2>1, <2>2 DEF CanOpen
  <2>3. CASE pc[r] \in First /\ pc'[r] \in Opening
         /\ (pc'[r] \in First \/ \A x \in Siblings(r) : pc[x] \notin Cached)
    <3>1. pc[o] \notin Opening
      BY <1>2, <1>3, <2>1, <2>3 DEF OpensAlone
    <3>2. QED
      BY <1>3, <1>6, <2>1, <2>3, <3>1
  <2>4. CASE pc[r] \in Opening \ First /\ pc'[r] \in Opening
    BY <1>2, <1>3, <1>6, <2>1, <2>4 DEF OpensAlone
  <2>5. QED
    BY <1>4, <1>6, <2>2, <2>3, <2>4
<1>7. CASE q # r /\ o = r
  <2>1. pc'[q] = pc[q] /\ pc[q] \in Opening /\ q \in Siblings(r) /\ r \in Siblings(q)
    BY <1>1, <1>5, <1>7 DEF Siblings
  <2>2. pc[r] \notin Opening /\ (pc[q] \notin First => pc[r] = "closed")
    BY <1>2, <2>1 DEF OpensAlone
  <2>3. ~CanOpen(r)
    BY <2>1 DEF CanOpen
  <2>4. QED
    BY <1>3, <1>4, <1>7, <2>1, <2>2, <2>3
<1>8. CASE q # r /\ o # r
  BY <1>1, <1>2, <1>5, <1>8 DEF OpensAlone
<1>9. QED
  BY <1>6, <1>7, <1>8

\* Where another instance is, and what it knows, stays so.
LEMMA KeepsPlaceOfOthers ==
  ASSUME STypeOK, SInv, NEW r \in Realms, Step(r), NEW q \in Realms \ {r}
  PROVE  Standing(q)' /\ Informed(q)'
<1>1. SameInstance(q) /\ UNCHANGED <<mode, config>>
  BY StepFrame
<1>2. Wanted(q)' = Wanted(q)
  BY <1>1 DEF Wanted
<1>3. FileKept /\ (UNCHANGED file \/ (pc[r] \in {"updating", "writing"} /\ Latest' = Latest + 1))
  BY StepFile
<1>4. Standing(q) /\ Informed(q) /\ Latest \in Nat \ {0} /\ group[q] \in Nat /\ transaction[q] \in Nat
      /\ pc[q] \in Locations
  BY ActorFacts
<1>5. pc[q] \in Writing => Latest' = Latest
  <2>1. pc[q] \in Writing => pc[r] \notin {"updating", "writing"}
    BY DEF SInv, OneWriter, Writing
  <2>2. QED
    BY <1>3, <2>1 DEF Latest
<1>6. Standing(q)'
  <2>1. Latest <= Latest' /\ Latest' \in Nat
    <3>1. UNCHANGED file => Latest' = Latest
      BY DEF Latest
    <3>2. QED
      BY <1>3, <1>4, <3>1
  <2>2. QED
    BY <1>1, <1>4, <1>5, <2>1 DEF Standing, SameInstance
<1>7. Informed(q)'
  <2>1. pc[q] # "closed" => At(q) \in 1 .. Latest
    BY <1>4 DEF Standing, At
  <2>2. At(q)' = At(q)
    BY <1>1 DEF SameInstance, At
  <2>3. pc[q] # "closed" => file'[At(q)] = file[At(q)]
    BY <1>3, <2>1 DEF FileKept
  <2>4. Quiet(transaction[q], group[q]) => Quiet(transaction[q], group[q])'
    <3>1. \A k \in transaction[q] + 1 .. group[q] : k \in 1 .. Latest
      BY <1>4 DEF Standing
    <3>2. \A k \in transaction[q] + 1 .. group[q] : file'[k] = file[k]
      BY <1>3, <3>1 DEF FileKept
    <3>3. QED
      BY <1>1, <3>2 DEF Quiet, SameInstance
  <2>5. QED
    BY <1>1, <1>2, <1>4, <2>2, <2>3, <2>4 DEF Informed, SameInstance
<1>8. QED
  BY <1>6, <1>7

---------------------------------------------------------------------------------
(* The caches. *)

\* That two snapshots have nothing between them can be read off the longer file.
LEMMA QuietStays ==
  ASSUME STypeOK, FileKept, NEW i \in 0 .. Latest, NEW j \in 0 .. Latest
  PROVE  Quiet(i, j) <=> \A k \in i + 1 .. j : file'[k].log = {}
<1>1. \A k \in i + 1 .. j : file'[k] = file[k]
  BY LatestType DEF FileKept
<1>2. QED
  BY <1>1 DEF Quiet

\* The cache after a snapshot was read, and after the range was moved on.
Caches(k, l, t) == l = CacheSchema(k, file[t].version, t)
MovesOn(k, l, r) == l = AdvanceCache(k, transaction[r], group[r])

\* How a step changes the cache of its process.
LEMMA CacheMoves ==
  ASSUME STypeOK, SInv, NEW r \in Realms, Step(r)
  PROVE  LET k == cache[ProcessOf[r]]
             l == cache'[ProcessOf[r]]
         IN \/ /\ l = k
               /\ \/ OpenFromCache(r) \/ pc'[r] \in {"closed", "constructed"}
                  \/ pc[r] \notin {"closed", "constructed"} /\ transaction'[r] = transaction[r]
            \/ l = EmptyCache /\ pc'[r] = "closed" /\ \A q \in Siblings(r) : pc[q] = "closed"
            \/ \E t \in 1 .. Latest :
                 /\ Caches(k, l, t) /\ pc[r] # "closed" /\ transaction[r] <= t
                 /\ pc'[r] = "closed" \/ transaction'[r] = t
            \/ /\ MovesOn(k, l, r) /\ pc[r] \in Uncached /\ newSchema[r] = 0
               /\ transaction'[r] = group[r]
            \/ FinishUpdate(r) /\ l = ClearCache(k, Wanted(r)) /\ pc[r] = "finishing"
               /\ transaction'[r] = transaction[r]
<1> DEFINE p == ProcessOf[r]
           Emptied(c) == /\ pc'[r] = "closed"
                         /\ \/ cache'[p] = c[p]
                            \/ cache'[p] = EmptyCache /\ \A q \in Siblings(r) : pc[q] = "closed"
<1>1. p \in Processes /\ cache \in [Processes -> CacheType] /\ Latest \in Nat \ {0} /\ Latest \in 1 .. Latest
      /\ transaction[r] \in Nat /\ Standing(r) /\ Informed(r)
  BY ActorFacts, LatestType DEF STypeOK
<1>2. ASSUME NEW c \in [Processes -> CacheType], Gone(r), cache' = Left(c, r)
      PROVE  Emptied(c)
  <2>1. pc'[r] = "closed"
    BY <1>2 DEF Gone, STypeOK
  <2>2. QED
    BY <1>1, <1>2, <2>1 DEF Left
<1>3. CASE OpenFromCache(r) \/ OpenFromFile(r)
  BY <1>3 DEF OpenFromCache, OpenFromFile, STypeOK
<1>4. CASE CacheConstructed(r)
  <2>1. transaction[r] \in 1 .. Latest /\ version[r] = file[transaction[r]].version
    BY <1>1, <1>4 DEF CacheConstructed, Standing, Informed, At
  <2>2. Caches(cache[p], cache'[p], transaction[r]) /\ pc[r] # "closed" /\ transaction'[r] = transaction[r]
    BY <1>1, <1>4, <2>1 DEF CacheConstructed, Caches
  <2>3. QED
    BY <1>1, <2>1, <2>2
<1>5. CASE AlignWithThread(r)
  <2>1. \/ Gone(r) /\ cache' = Left(cache, r)
        \/ pc[r] = "aligning" /\ cache' = cache /\ transaction' = transaction
    BY <1>5 DEF AlignWithThread
  <2>2. CASE Gone(r) /\ cache' = Left(cache, r)
    <3>1. Emptied(cache)
      BY <1>1, <1>2, <2>2
    <3>2. QED
      BY <3>1
  <2>3. QED
    BY <2>1, <2>2
<1>6. CASE AlignWithFile(r)
  <2>1. pc[r] = "aligning" /\ transaction[r] \in 1 .. Latest
    BY <1>1, <1>6 DEF AlignWithFile, Standing
  <2>2. \/ Gone(r) /\ cache' = Left(cache, r)
        \/ transaction[r] # Latest
           /\ cache' = [cache EXCEPT ![p] = CacheSchema(@, file[Latest].version, Latest)]
           /\ transaction' = [transaction EXCEPT ![r] = Latest]
        \/ transaction[r] = Latest /\ cache' = cache /\ transaction' = [transaction EXCEPT ![r] = Latest]
    BY <1>6 DEF AlignWithFile
  <2>3. CASE Gone(r) /\ cache' = Left(cache, r)
    <3>1. Emptied(cache)
      BY <1>1, <1>2, <2>3
    <3>2. QED
      BY <3>1
  <2>4. CASE /\ transaction[r] # Latest
             /\ cache' = [cache EXCEPT ![p] = CacheSchema(@, file[Latest].version, Latest)]
             /\ transaction' = [transaction EXCEPT ![r] = Latest]
    <3>1. cache'[p] = CacheSchema(cache[p], file[Latest].version, Latest) /\ transaction'[r] = Latest
      BY <1>1, <2>4 DEF STypeOK
    <3>2. transaction[r] <= Latest /\ pc[r] # "closed"
      BY <1>1, <2>1
    <3>3. QED
      BY <1>1, <3>1, <3>2 DEF Caches
  <2>5. CASE transaction[r] = Latest /\ cache' = cache /\ transaction' = [transaction EXCEPT ![r] = Latest]
    BY <2>1, <2>5 DEF STypeOK
  <2>6. QED
    BY <2>2, <2>3, <2>4, <2>5
<1>7. CASE BeginUpdate(r) \/ UpdateFails(r)
  <2>1. \/ Gone(r) /\ cache' = Left(cache, r)
        \/ pc[r] = "waiting" /\ cache' = cache /\ transaction' = transaction
    BY <1>7 DEF BeginUpdate, UpdateFails
  <2>2. CASE Gone(r) /\ cache' = Left(cache, r)
    <3>1. Emptied(cache)
      BY <1>1, <1>2, <2>2
    <3>2. QED
      BY <3>1
  <2>3. QED
    BY <2>1, <2>2
<1>8. CASE CommitUpdate(r) \/ CommitWrite(r)
  BY <1>8 DEF CommitUpdate, CommitWrite
<1>9. CASE FinishUpdate(r)
  BY <1>1, <1>9 DEF FinishUpdate
<1>10. CASE CacheNewSchema(r)
  <2>1. /\ cache'[p] = Recached(r) /\ transaction'[r] = group[r] /\ pc[r] \in Uncached /\ Cache(r) = cache[p]
    BY <1>1, <1>10 DEF CacheNewSchema, STypeOK, Cache
  <2>2. CASE newSchema[r] = 0
    BY <2>1, <2>2 DEF Recached, MovesOn
  <2>3. CASE newSchema[r] # 0
    <3>1. pc[r] # "updated" /\ group[r] \in 1 .. Latest /\ transaction[r] <= group[r]
      BY <1>1, <2>1, <2>3 DEF Standing, STypeOK
    <3>2. version[r] = file[group[r]].version
      BY <1>1, <2>1, <3>1 DEF Informed, Uncached, At
    <3>3. Caches(cache[p], cache'[p], group[r])
      BY <2>1, <2>3, <3>2 DEF Recached, Caches
    <3>4. pc[r] # "closed"
      BY <2>1 DEF Uncached
    <3>5. QED
      BY <2>1, <3>1, <3>3, <3>4
  <2>4. QED
    BY <2>2, <2>3
<1>11. CASE BeginRead(r)
  <2> DEFINE kept == [cache EXCEPT ![p] = CacheSchema(@, file[Latest].version, Latest)]
  <2>1. kept \in [Processes -> CacheType] /\ kept[p] = CacheSchema(cache[p], file[Latest].version, Latest)
    BY <1>1, LatestType, CacheTypes
  <2> HIDE DEF kept
  <2>2. pc[r] = "open" /\ transaction[r] <= Latest
    BY <1>1, <1>11 DEF BeginRead, Standing
  <2>3. \/ cache' = cache /\ transaction' = transaction
        \/ cache' = kept /\ transaction' = [transaction EXCEPT ![r] = Latest]
        \/ Gone(r) /\ cache' = Left(kept, r)
    BY <1>11 DEF BeginRead, kept
  <2>4. CASE cache' = cache /\ transaction' = transaction
    BY <2>2, <2>4
  <2>5. CASE cache' = kept /\ transaction' = [transaction EXCEPT ![r] = Latest]
    <3>1. Caches(cache[p], cache'[p], Latest) /\ transaction'[r] = Latest
      BY <2>1, <2>5 DEF Caches, STypeOK
    <3>2. QED
      BY <1>1, <2>2, <3>1
  <2>6. CASE Gone(r) /\ cache' = Left(kept, r)
    <3>1. Emptied(kept)
      BY <1>2, <2>1, <2>6
    <3>2. Caches(cache[p], kept[p], Latest)
      BY <2>1 DEF Caches
    <3>3. QED
      <4>1. CASE cache'[p] = kept[p]
        BY <1>1, <2>2, <3>1, <3>2, <4>1
      <4>2. CASE cache'[p] = EmptyCache /\ \A q \in Siblings(r) : pc[q] = "closed"
        BY <3>1, <4>2
      <4>3. QED
        BY <3>1, <4>1, <4>2
  <2>7. QED
    BY <2>3, <2>4, <2>5, <2>6
<1>12. CASE Refresh(r) \/ BeginWrite(r) \/ CancelWrite(r) \/ Invalidate(r)
  BY <1>12 DEF Refresh, BeginWrite, CancelWrite, Invalidate
<1>13. CASE Release(r)
  <2>1. Emptied(cache)
    BY <1>1, <1>2, <1>13 DEF Release
  <2>2. QED
    BY <2>1
<1>14. QED
  BY <1>3, <1>4, <1>5, <1>6, <1>7, <1>8, <1>9, <1>10, <1>11, <1>12, <1>13 DEF Step, Open, Use

\* Both ways of caching, field by field.
LEMMA CachesFacts ==
  ASSUME STypeOK, NEW k \in CacheType, NEW l, NEW t \in 1 .. Latest, Caches(k, l, t)
  PROVE  \/ l = k /\ (t < k.max \/ Blank(t))
         \/ /\ l.snapshot = t /\ l.min = t /\ l.max = t /\ l.version = file[t].version
            /\ k.max <= t /\ ~Blank(t)
<1>1. k.max \in Nat /\ t \in Nat
  BY LatestType DEF CacheType
<1>2. CASE t < k.max \/ Blank(t)
  BY <1>2 DEF Caches, CacheSchema, Blank
<1>3. CASE ~(t < k.max) /\ ~Blank(t)
  <2>1. l = [snapshot |-> t, version |-> file[t].version, min |-> t, max |-> t]
    BY <1>3 DEF Caches, CacheSchema, Blank
  <2>2. QED
    BY <1>1, <1>3, <2>1
<1>4. QED
  BY <1>2, <1>3

\* Moving a cache on leaves it alone or widens its range to the two snapshots.
LEMMA MovesOnFacts ==
  ASSUME STypeOK, NEW r \in Realms, NEW k \in CacheType, NEW l, MovesOn(k, l, r)
  PROVE  \/ l = k /\ (k.snapshot = 0 \/ group[r] < k.min)
         \/ /\ k.snapshot # 0 /\ k.min <= group[r]
            /\ l.snapshot = k.snapshot /\ l.version = k.version
            /\ l.min \in {k.min, transaction[r]} /\ l.min <= k.min /\ l.min <= transaction[r]
            /\ l.max \in {k.max, group[r]} /\ k.max <= l.max /\ group[r] <= l.max
<1> DEFINE s == transaction[r]
           t == group[r]
<1>1. k.min \in Nat /\ k.max \in Nat /\ s \in Nat /\ t \in Nat
  BY DEF CacheType, STypeOK
<1> HIDE DEF s, t
<1>2. CASE k.snapshot = 0 \/ t < k.min
  BY <1>2 DEF MovesOn, AdvanceCache, s, t
<1>3. CASE ~(k.snapshot = 0 \/ t < k.min)
  <2>1. l = [k EXCEPT !.min = IF s < @ THEN s ELSE @, !.max = IF t > @ THEN t ELSE @]
    BY <1>3 DEF MovesOn, AdvanceCache, s, t
  <2>2. /\ l.snapshot = k.snapshot /\ l.version = k.version
        /\ l.min = IF s < k.min THEN s ELSE k.min
        /\ l.max = IF t > k.max THEN t ELSE k.max
    BY <2>1 DEF CacheType
  <2>3. QED
    BY <1>1, <1>3, <2>2 DEF s, t
<1>4. QED
  BY <1>2, <1>3 DEF s, t

\* A cache that is cleared has no snapshot and keeps the end of its range.
LEMMA ClearFacts ==
  ASSUME NEW k \in CacheType, NEW v, NEW l, l = ClearCache(k, v)
  PROVE  l.snapshot = 0 /\ l.max = k.max
BY DEF ClearCache, CacheType

\* A snapshot that the cache is past, or does not care for, and from which
\* nothing changed up to where an instance moved on from.
LEMMA RangesMeet ==
  ASSUME STypeOK, SInv, NEW r \in Realms, pc[r] \notin {"closed", "constructed"},
         Cache(r).snapshot # 0, Reliable(ProcessOf[r])
  PROVE  \E s \in 1 .. transaction[r] : Quiet(s, transaction[r]) /\ s <= Cache(r).max
<1> DEFINE k == Cache(r)
<1>1. PICK s \in 1 .. transaction[r] :
        Quiet(s, transaction[r]) /\ (Blank(s) \/ s <= k.max)
  BY ActorFacts DEF Near, Seen, Cache
<1>2. k.max \in 1 .. Latest /\ k.snapshot \in 1 .. Latest
  BY CacheIsOfMax
<1>3. ~Blank(k.snapshot) /\ k.snapshot <= k.max
  BY ActorFacts DEF CacheFits, Cache
<1>4. transaction[r] \in 1 .. Latest /\ History /\ Latest \in Nat
  BY ActorFacts DEF Standing
<1> HIDE DEF k
<1>5. CASE s <= k.max
  BY <1>1, <1>5 DEF k
<1>6. CASE ~(s <= k.max)
  <2>1. k.snapshot <= s /\ s \in 1 .. Latest
    BY <1>2, <1>3, <1>4, <1>6
  <2>2. /\ file[k.snapshot].version <= file[s].version
        /\ DOMAIN file[k.snapshot].tables \subseteq DOMAIN file[s].tables
    BY <1>2, <1>4, <2>1 DEF History
  <2>3. file[k.snapshot].version \in Nat \cup {NotVersioned}
        /\ file[s].version \in Nat \cup {NotVersioned}
    BY <1>2, <2>1, LatestType
  <2>4. ~Blank(s)
    BY <1>3, <2>2, <2>3 DEF Blank, NotVersioned
  <2>5. QED
    BY <1>1, <1>6, <2>4
<1>7. QED
  BY <1>5, <1>6

\* The cache of the process fits the file after a step.
LEMMA KeepsCacheFits ==
  ASSUME STypeOK, SInv, NEW r \in Realms, Step(r), NEW p \in Processes
  PROVE  CacheFits(p)'
<1> DEFINE k == cache[p]
           l == cache'[p]
<1>1. CacheFits(p) /\ k \in CacheType /\ Latest \in Nat \ {0}
  BY LatestType DEF SInv, STypeOK
<1>2. k.min \in Nat /\ k.max \in Nat /\ k.snapshot \in Nat
  BY <1>1 DEF CacheType
<1>3. FileKept
  BY StepFile
<1>4. Latest' \in Nat /\ Latest <= Latest'
  <2>1. UNCHANGED file => Latest' = Latest
    BY DEF Latest
  <2>2. QED
    BY <1>1, <2>1, StepFile
<1>5. k.max <= Latest /\ (k.snapshot # 0 =>
        /\ 1 <= k.min /\ k.min <= k.snapshot /\ k.snapshot <= k.max /\ ~Blank(k.snapshot)
        /\ Reliable(p) => Quiet(k.min, k.max) /\ k.version = file[k.snapshot].version)
  BY <1>1 DEF CacheFits
<1>6. ASSUME NEW s \in 1 .. Latest
      PROVE  file'[s] = file[s]
  BY <1>3, <1>6 DEF FileKept
<1>7. ASSUME l = k, l.snapshot # 0, Reliable(p)' => Reliable(p)
      PROVE  CacheFits(p)'
  <2>1. k.snapshot \in 1 .. Latest /\ k.min \in 0 .. Latest /\ k.max \in 0 .. Latest
    BY <1>1, <1>2, <1>5, <1>7
  <2>2. Quiet(k.min, k.max) => \A i \in k.min + 1 .. k.max : file'[i].log = {}
    BY <1>3, <2>1, QuietStays
  <2>3. file'[k.snapshot] = file[k.snapshot]
    BY <1>6, <2>1
  <2>4. QED
    BY <1>1, <1>2, <1>4, <1>5, <1>7, <2>1, <2>2, <2>3 DEF CacheFits, Quiet, Blank
<1>8. ASSUME l.snapshot = 0, l.max \in Nat, l.max <= Latest
      PROVE  CacheFits(p)'
  BY <1>1, <1>4, <1>8 DEF CacheFits
<1>9. CASE p # ProcessOf[r]
  <2>1. l = k
    BY <1>9, StepFrame
  <2>2. \A q \in Realms : ProcessOf[q] = p => pc'[q] = pc[q]
    BY <1>9, StepFrame DEF SameInstance
  <2>3. Reliable(p)' => Reliable(p)
    BY <2>2 DEF Reliable
  <2>4. QED
    BY <1>2, <1>5, <1>7, <1>8, <2>1, <2>3
<1>10. CASE p = ProcessOf[r]
  <2>1. Cache(r) = k
    BY <1>10 DEF Cache
  <2>2. Reliable(p)' => Reliable(p) \/ FinishUpdate(r)
    BY <1>10, StepMoves
  <2>3. CASE l = k /\ ~FinishUpdate(r)
    BY <1>2, <1>5, <1>7, <1>8, <2>2, <2>3
  <2>4. CASE l = EmptyCache
    BY <1>1, <1>8, <2>4 DEF EmptyCache
  <2>5. CASE FinishUpdate(r)
    <3>1. l = ClearCache(k, Wanted(r))
      BY <1>1, <1>10, <2>5 DEF FinishUpdate, STypeOK
    <3>2. QED
      BY <1>1, <1>2, <1>5, <1>8, <3>1, ClearFacts
  <2>6. CASE \E t \in 1 .. Latest : Caches(k, l, t) /\ l # k
    <3>1. PICK t \in 1 .. Latest : Caches(k, l, t) /\ l # k
      BY <2>6
    <3>2. l.snapshot = t /\ l.min = t /\ l.max = t /\ l.version = file[t].version /\ ~Blank(t)
      BY <1>1, <3>1, CachesFacts
    <3>3. file'[t] = file[t] /\ \A i \in t + 1 .. t : FALSE
      BY <1>1, <1>6
    <3>4. DOMAIN file'[l.snapshot].tables # {} /\ file'[l.snapshot].version # NotVersioned
      BY <3>2, <3>3 DEF Blank
    <3>5. QED
      BY <1>1, <1>4, <3>2, <3>3, <3>4 DEF CacheFits, Quiet, Blank
  <2>7. CASE MovesOn(k, l, r) /\ l # k /\ pc[r] \in Uncached /\ newSchema[r] = 0
    <3> DEFINE s == transaction[r]
               t == group[r]
    <3>1. /\ k.snapshot # 0 /\ k.min <= t /\ l.snapshot = k.snapshot /\ l.version = k.version
          /\ l.min \in {k.min, s} /\ l.min <= k.min /\ l.min <= s
          /\ l.max \in {k.max, t} /\ k.max <= l.max /\ t <= l.max
      BY <1>1, <2>7, MovesOnFacts
    <3>2. s \in 1 .. Latest /\ t \in 1 .. Latest /\ s <= t
      <4>1. Standing(r) /\ pc[r] # "closed" /\ group[r] # 0
        BY <2>7, ActorFacts DEF Standing, Uncached
      <4>2. QED
        BY <1>1, <4>1, ActorFacts DEF Standing
    <3>3. k.snapshot \in 1 .. Latest /\ file'[k.snapshot] = file[k.snapshot]
      BY <1>1, <1>2, <1>5, <1>6, <3>1
    <3>4. Reliable(p)' => \A i \in l.min + 1 .. l.max : file'[i].log = {}
      <4>1. SUFFICES ASSUME Reliable(p)'
                     PROVE  \A i \in l.min + 1 .. l.max : file'[i].log = {}
        OBVIOUS
      <4>2. ~FinishUpdate(r)
        BY <2>7 DEF FinishUpdate, Uncached
      <4>3. Reliable(p) /\ pc[r] # "updated"
        BY <1>10, <2>2, <4>1, <4>2 DEF Reliable
      <4>4. Quiet(s, t)
        BY <2>7, <4>3, ActorFacts DEF Informed
      <4>5. pc[r] \notin {"closed", "constructed"}
        BY <2>7 DEF Uncached
      <4>6. PICK o \in 1 .. s : Quiet(o, s) /\ o <= k.max
        BY <1>10, <2>1, <3>1, <4>3, <4>5, RangesMeet
      <4>7. Quiet(k.min, k.max)
        BY <1>5, <3>1, <4>3
      <4> HIDE DEF s, t, k, l
      <4>8. ASSUME NEW i \in l.min + 1 .. l.max
            PROVE  file'[i].log = {}
        <5>1. i \in 1 .. Latest
          BY <1>1, <1>2, <1>5, <3>1, <3>2
        <5>2. i \in k.min + 1 .. k.max \/ i \in s + 1 .. t \/ i \in o + 1 .. s
          BY <1>1, <1>2, <1>5, <3>1, <3>2, <4>6
        <5>3. file[i].log = {}
          BY <4>4, <4>6, <4>7, <5>2 DEF Quiet
        <5>4. QED
          BY <1>6, <5>1, <5>3
      <4>9. QED
        BY <4>8
    <3>5. /\ l.max <= Latest /\ 1 <= l.min /\ l.min <= l.snapshot /\ l.snapshot <= l.max
      BY <1>1, <1>2, <1>5, <3>1, <3>2
    <3>6. DOMAIN file'[l.snapshot].tables # {} /\ file'[l.snapshot].version # NotVersioned
      BY <1>5, <3>1, <3>3 DEF Blank
    <3>7. Reliable(p)' => l.version = file'[l.snapshot].version
      <4>1. ~FinishUpdate(r)
        BY <2>7 DEF FinishUpdate, Uncached
      <4>2. QED
        BY <1>5, <2>2, <3>1, <3>3, <4>1
    <3>8. l.max <= Latest'
      BY <1>1, <1>2, <1>4, <3>1, <3>2, <3>5
    <3>9. QED
      BY <3>4, <3>5, <3>6, <3>7, <3>8 DEF CacheFits, Quiet, Blank
  <2>8. QED
    BY <1>10, <2>3, <2>4, <2>5, <2>6, <2>7, CacheMoves
<1>11. QED
  BY <1>9, <1>10

\* The snapshot an instance has read up to never goes back.
LEMMA TransactionGrows ==
  ASSUME STypeOK, SInv, NEW r \in Realms, Step(r), pc'[r] # "closed"
  PROVE  \/ pc[r] # "closed" /\ transaction[r] <= transaction'[r]
         \/ transaction'[r] = Latest
         \/ Cache(r).snapshot # 0
<1>1. transaction[r] \in Nat /\ group[r] \in Nat /\ Standing(r) /\ Latest \in Nat \ {0}
  BY ActorFacts
<1>2. CASE OpenFromCache(r)
  BY <1>2 DEF OpenFromCache
<1>3. CASE OpenFromFile(r)
  BY <1>3 DEF OpenFromFile, STypeOK
<1>4. CASE ~OpenFromCache(r) /\ ~OpenFromFile(r)
  <2>1. pc[r] # "closed"
    BY <1>4, StepMoves DEF Step, Open, Use, CacheConstructed, AlignWithThread, AlignWithFile, BeginUpdate,
      CommitUpdate, UpdateFails, FinishUpdate, CacheNewSchema, BeginRead, Refresh, BeginWrite, CommitWrite,
      CancelWrite, Invalidate, Release, Uncached
  <2>2. CacheNewSchema(r) \/ transaction' = transaction \/ transaction' = [transaction EXCEPT ![r] = Latest]
    <3>1. ~Gone(r)
      BY DEF Gone, STypeOK
    <3>2. CASE CacheConstructed(r) \/ AlignWithThread(r) \/ BeginUpdate(r)
      BY <3>1, <3>2 DEF CacheConstructed, AlignWithThread, BeginUpdate
    <3>3. CASE CommitUpdate(r) \/ UpdateFails(r) \/ FinishUpdate(r)
      BY <3>1, <3>3 DEF CommitUpdate, UpdateFails, FinishUpdate
    <3>4. CASE AlignWithFile(r)
      BY <3>1, <3>4 DEF AlignWithFile
    <3>5. CASE BeginRead(r)
      BY <3>1, <3>5 DEF BeginRead
    <3>6. CASE Refresh(r) \/ BeginWrite(r) \/ CommitWrite(r) \/ CancelWrite(r) \/ Invalidate(r) \/ Release(r)
      BY <3>1, <3>6 DEF Refresh, BeginWrite, CommitWrite, CancelWrite, Invalidate, Release
    <3>7. QED
      BY <1>4, <3>2, <3>3, <3>4, <3>5, <3>6 DEF Step, Open, Use
  <2>3. CacheNewSchema(r) => transaction[r] <= group[r] /\ transaction'[r] = group[r]
    BY <1>1 DEF CacheNewSchema, Standing, STypeOK
  <2>4. transaction' = [transaction EXCEPT ![r] = Latest] => transaction'[r] = Latest
    BY DEF STypeOK
  <2>5. QED
    BY <1>1, <2>1, <2>2, <2>3, <2>4
<1>5. QED
  BY <1>2, <1>3, <1>4

\* What a coordinator is past, it stays past while its process has an instance.
LEMMA SeenStays ==
  ASSUME STypeOK, SInv, NEW r \in Realms, Step(r), NEW p \in Processes, NEW s \in 1 .. Latest, Seen(s, p)
  PROVE  Seen(s, p)' \/ \A q \in Realms : ProcessOf[q] = p => pc'[q] = "closed"
<1> DEFINE k == cache[p]
           l == cache'[p]
           Behind == \A q \in Realms : ProcessOf[q] = p /\ pc[q] # "closed" => s <= transaction[q]
<1>1. k \in CacheType /\ k.max \in Nat /\ Latest \in Nat
  BY LatestType DEF STypeOK, CacheType
<1>2. Blank(s) => Blank(s)'
  BY StepFile, QuietKept
<1>3. \A q \in Realms \ {r} : pc'[q] = pc[q] /\ transaction'[q] = transaction[q]
  BY StepFrame DEF SameInstance
<1>4. \A q \in Realms : transaction[q] \in Nat /\ transaction'[q] \in Nat
  BY StepFrame, TypesOfNext DEF STypeOK, Step, Next
<1>5. Seen(s, p)' <=> \/ Blank(s)'
                      \/ s <= l.max
                      \/ /\ l.snapshot = 0
                         /\ \A q \in Realms : ProcessOf[q] = p /\ pc'[q] # "closed" => s <= transaction'[q]
  BY DEF Seen
<1>6. Blank(s) \/ s <= k.max \/ (k.snapshot = 0 /\ Behind)
  BY DEF Seen
<1>7. ASSUME k.snapshot = 0, Behind
      PROVE  \A q \in Realms : ProcessOf[q] = p /\ pc'[q] # "closed" => s <= transaction'[q]
  <2> SUFFICES ASSUME NEW q \in Realms, ProcessOf[q] = p, pc'[q] # "closed"
               PROVE  s <= transaction'[q]
    OBVIOUS
  <2>1. CASE q # r
    BY <1>3, <1>7, <2>1
  <2>2. CASE q = r
    <3>1. \/ pc[r] # "closed" /\ transaction[r] <= transaction'[r]
          \/ transaction'[r] = Latest
      BY <1>7, <2>2, TransactionGrows DEF Cache
    <3>2. pc[r] # "closed" => s <= transaction[r]
      BY <1>7, <2>2
    <3>3. QED
      BY <1>1, <1>4, <2>2, <3>1, <3>2
  <2>3. QED
    BY <2>1, <2>2
<1>8. ASSUME k.max <= l.max, l.max \in Nat, k.snapshot = 0 => l.snapshot = 0
      PROVE  Seen(s, p)'
  <2>1. s <= k.max => s <= l.max
    BY <1>1, <1>8
  <2>2. QED
    BY <1>2, <1>5, <1>6, <1>7, <1>8, <2>1
<1>9. CASE p # ProcessOf[r]
  <2>1. l = k
    BY <1>9, StepFrame
  <2>2. QED
    BY <1>1, <1>8, <2>1
<1>10. CASE p = ProcessOf[r]
  <2>1. CASE l = k
    BY <1>1, <1>8, <2>1
  <2>2. CASE l = EmptyCache /\ pc'[r] = "closed" /\ \A q \in Siblings(r) : pc[q] = "closed"
    BY <1>3, <1>10, <2>2 DEF Siblings
  <2>3. CASE \E t \in 1 .. Latest :
               /\ Caches(k, l, t) /\ pc[r] # "closed" /\ transaction[r] <= t
               /\ pc'[r] = "closed" \/ transaction'[r] = t
    <3>1. PICK t \in 1 .. Latest :
               /\ Caches(k, l, t) /\ pc[r] # "closed" /\ transaction[r] <= t
      BY <2>3
    <3>2. l = k \/ (l.max = t /\ k.max <= t)
      BY <1>1, <3>1, CachesFacts
    <3>3. CASE l.max = t /\ k.max <= t
      <4>1. Behind => s <= t
        BY <1>1, <1>4, <1>10, <3>1
      <4>2. s <= k.max => s <= t
        BY <1>1, <3>3
      <4>3. QED
        BY <1>2, <1>5, <1>6, <3>3, <4>1, <4>2
    <3>4. QED
      BY <2>1, <3>2, <3>3
  <2>4. CASE MovesOn(k, l, r)
    <3>1. l = k \/ (l.max \in {k.max, group[r]} /\ k.max <= l.max /\ l.snapshot = k.snapshot)
      BY <1>1, <2>4, MovesOnFacts
    <3>2. group[r] \in Nat
      BY DEF STypeOK
    <3>3. QED
      BY <1>1, <1>8, <2>1, <3>1, <3>2
  <2>5. CASE l = ClearCache(k, Wanted(r))
    <3>1. l.snapshot = 0 /\ l.max = k.max
      BY <1>1, <2>5, ClearFacts
    <3>2. QED
      BY <1>1, <1>8, <3>1
  <2>6. QED
    BY <1>10, <2>1, <2>2, <2>3, <2>4, <2>5, CacheMoves
<1>11. QED
  BY <1>9, <1>10

\* An instance that did not move stays near.
LEMMA NearStays ==
  ASSUME STypeOK, SInv, NEW r \in Realms, Step(r), NEW q \in Realms, NEW t, t = transaction[q],
         NEW s \in 1 .. t, Quiet(s, t), Seen(s, ProcessOf[q]), pc[q] # "closed",
         transaction'[q] = t
  PROVE  Near(q)'
<1>1. Standing(q) /\ ProcessOf[q] \in Processes /\ Latest \in Nat
  BY ActorFacts
<1>2. t \in 1 .. Latest /\ s \in 1 .. Latest /\ s \in 0 .. Latest /\ t \in 0 .. Latest
  BY <1>1 DEF Standing
<1>3. Seen(s, ProcessOf[q])' \/ pc'[q] = "closed"
  BY <1>1, <1>2, SeenStays
<1>4. \A k \in s + 1 .. t : file'[k].log = {}
  BY <1>2, StepFile, QuietStays
<1>5. QED
  BY <1>3, <1>4 DEF Near, Quiet

\* Every step of an instance leaves the others near what their cache has seen.
LEMMA KeepsNear ==
  ASSUME STypeOK, SInv, NEW r \in Realms, Step(r), NEW q \in Realms
  PROVE  Near(q)'
<1> SUFFICES ASSUME pc'[q] \notin {"closed", "constructed"}
             PROVE  Near(q)'
  BY DEF Near
<1>1. PICK t : t = transaction[q]
  OBVIOUS
<1>2. CASE pc[q] \notin {"closed", "constructed"} /\ transaction'[q] = t
  <2>1. PICK s \in 1 .. t : Quiet(s, t) /\ Seen(s, ProcessOf[q])
    BY <1>1, <1>2, ActorFacts DEF Near
  <2>2. QED
    BY <1>1, <1>2, <2>1, NearStays
<1>3. CASE q # r
  <2>1. pc'[q] = pc[q] /\ transaction'[q] = t
    BY <1>1, <1>3, StepFrame DEF SameInstance
  <2>2. QED
    BY <1>2, <2>1
<1>4. CASE q = r /\ ~(pc[q] \notin {"closed", "constructed"} /\ transaction'[q] = t)
  <2> DEFINE p == ProcessOf[r]
             k == cache[p]
             l == cache'[p]
             u == transaction'[r]
  <2>1. /\ p \in Processes /\ k \in CacheType /\ Cache(r) = k /\ Latest \in Nat \ {0} /\ Standing(r) /\ CacheFits(p)
        /\ transaction[r] \in Nat
    BY ActorFacts DEF Cache
  <2>2. k.min \in Nat /\ k.max \in Nat /\ k.snapshot \in Nat
    BY <2>1 DEF CacheType
  <2>3. FileKept
    BY StepFile
  \* It suffices that some snapshot before it is near.
  <2>4. ASSUME NEW s \in 1 .. u, u \in 1 .. Latest,
               \A i \in s + 1 .. u : file'[i].log = {},
               \/ DOMAIN file'[s].tables = {} \/ file'[s].version = NotVersioned
               \/ s <= l.max
               \/ /\ l.snapshot = 0
                  /\ \A o \in Realms : ProcessOf[o] = p /\ pc'[o] # "closed" => s <= transaction'[o]
        PROVE  Near(q)'
    BY <1>4, <2>4 DEF Near, Quiet, Seen, Blank
  <2>5. CASE OpenFromCache(r)
    <3>1. u = k.max /\ l = k /\ k.snapshot # 0
      BY <2>1, <2>5 DEF OpenFromCache, STypeOK
    <3>2. k.max \in 1 .. Latest
      BY <2>1, <2>5, <3>1, OpensReliably, CacheIsOfMax DEF OpenFromCache
    <3>3. \A i \in k.max + 1 .. k.max : FALSE
      BY <2>2
    <3>4. QED
      BY <2>2, <2>4, <3>1, <3>2, <3>3
  <2>6. CASE \E t1 \in 1 .. Latest : Caches(k, l, t1) /\ u = t1
    <3>1. PICK t1 \in 1 .. Latest : Caches(k, l, t1) /\ u = t1
      BY <2>6
    <3>2. \/ l = k /\ (t1 < k.max \/ Blank(t1))
          \/ l.max = t1
      BY <2>1, <3>1, CachesFacts
    <3>3. file'[t1] = file[t1] /\ \A i \in t1 + 1 .. t1 : FALSE
      BY <2>1, <2>3 DEF FileKept
    <3>4. \/ DOMAIN file'[t1].tables = {} \/ file'[t1].version = NotVersioned
          \/ t1 <= l.max
      BY <2>1, <2>2, <3>2, <3>3 DEF Blank
    <3>5. QED
      BY <2>1, <2>4, <3>1, <3>3, <3>4
  <2>7. CASE MovesOn(k, l, r) /\ pc[r] \in Uncached /\ newSchema[r] = 0 /\ u = group[r]
    <3> DEFINE n == group[r]
    <3>1. transaction[r] \in 1 .. Latest /\ n \in 1 .. Latest /\ transaction[r] <= n
      BY <2>1, <2>7, ActorFacts DEF Standing, Uncached
    <3>2. \/ l = k /\ (k.snapshot = 0 \/ n < k.min)
          \/ n <= l.max /\ l.max \in {k.max, n}
      BY <2>1, <2>7, MovesOnFacts
    <3>3. \A i \in n + 1 .. n : FALSE
      BY <3>1
    <3>4. CASE n <= l.max
      BY <2>1, <2>4, <2>7, <3>1, <3>3, <3>4
    <3>5. CASE l = k /\ n < k.min /\ k.snapshot # 0
      <4>1. k.min <= k.max
        BY <2>1, <2>2, <3>5 DEF CacheFits
      <4>2. n <= l.max
        BY <2>2, <3>1, <3>5, <4>1
      <4>3. QED
        BY <3>4, <4>2
    <3>6. CASE l = k /\ k.snapshot = 0 /\ pc[r] = "updated"
      <4>1. \A o \in Siblings(r) : pc[o] = "closed"
        BY <3>6, ActorFacts DEF OpensAlone, Opening
      <4>2. \A o \in Realms : ProcessOf[o] = p /\ pc'[o] # "closed" => o = r
        BY <4>1, StepFrame DEF Siblings, SameInstance
      <4>3. n <= u
        BY <2>7, <3>1
      <4>4. QED
        BY <2>1, <2>4, <2>7, <3>1, <3>3, <3>6, <4>2, <4>3
    <3>7. CASE pc[r] # "updated"
      <4>1. PICK s \in 1 .. transaction[r] : Quiet(s, transaction[r]) /\ Seen(s, p)
        BY <2>7, ActorFacts DEF Near, Uncached
      <4>2. Quiet(transaction[r], n)
        BY <2>7, <3>7, ActorFacts DEF Informed
      <4>3. s \in 1 .. n /\ s \in 1 .. Latest /\ s \in 0 .. Latest /\ n \in 0 .. Latest
        BY <2>1, <3>1, <4>1
      <4>4. Quiet(s, n)
        <5>1. \A i \in s + 1 .. n : i \in s + 1 .. transaction[r] \/ i \in transaction[r] + 1 .. n
          BY <3>1, <4>1
        <5>2. QED
          BY <4>1, <4>2, <5>1 DEF Quiet
      <4>5. \A i \in s + 1 .. n : file'[i].log = {}
        BY <2>3, <4>3, <4>4, QuietStays
      <4>6. Seen(s, p)'
        BY <1>4, <2>1, <4>1, <4>3, SeenStays
      <4>7. \/ DOMAIN file'[s].tables = {} \/ file'[s].version = NotVersioned
            \/ s <= l.max
            \/ /\ l.snapshot = 0
               /\ \A o \in Realms : ProcessOf[o] = p /\ pc'[o] # "closed" => s <= transaction'[o]
        BY <4>6 DEF Seen, Blank
      <4>8. QED
        BY <2>4, <2>7, <3>1, <4>3, <4>5, <4>7
    <3>8. QED
      BY <3>2, <3>4, <3>5, <3>6, <3>7
  <2>8. FinishUpdate(r) => pc[r] = "finishing"
    BY DEF FinishUpdate
  <2>9. QED
    BY <1>1, <1>4, <2>5, <2>6, <2>7, <2>8, CacheMoves
<1>5. QED
  BY <1>2, <1>3, <1>4

---------------------------------------------------------------------------------
(* Starting a process again. *)

\* A restart keeps the invariant.
LEMMA KeptByRestart ==
  ASSUME STypeOK, SInv, NEW p \in Processes, NEW c \in Configs, Restart(p, c)
  PROVE  SInv'
<1>1. UNCHANGED <<file, mode>> /\ Latest' = Latest
  BY DEF Restart, Latest
<1>2. ASSUME NEW r \in Realms
      PROVE  \/ /\ ProcessOf[r] = p /\ pc'[r] = "closed" /\ group'[r] = 0
                /\ transaction'[r] = 0 /\ newSchema'[r] = 0
             \/ ProcessOf[r] # p /\ SameInstance(r) /\ Wanted(r)' = Wanted(r)
  BY ProcessOfAssumption DEF Restart, SameInstance, Wanted, STypeOK
<1>3. \A q \in Processes : cache'[q] = IF q = p THEN EmptyCache ELSE cache[q]
  BY DEF Restart, STypeOK
<1>4. History'
  BY <1>1 DEF SInv, History, Quiet, MigratedInOrder
<1>5. OneWriter'
  BY <1>2 DEF SInv, OneWriter, SameInstance, Writing
<1>6. ASSUME NEW r \in Realms
      PROVE  Standing(r)' /\ Informed(r)' /\ OpensAlone(r)' /\ Near(r)'
  <2>1. Standing(r) /\ Informed(r) /\ OpensAlone(r) /\ Near(r) /\ ProcessOf[r] \in Processes
    BY ActorFacts
  <2>2. CASE ProcessOf[r] = p
    <3>1. pc'[r] = "closed" /\ group'[r] = 0 /\ transaction'[r] = 0 /\ newSchema'[r] = 0
      BY <1>2, <2>2
    <3>2. Standing(r)'
      BY <3>1 DEF Standing, Uncached, Writing
    <3>3. Informed(r)'
      BY <3>1 DEF Informed, Uncached
    <3>4. OpensAlone(r)' /\ Near(r)'
      BY <3>1 DEF OpensAlone, Near, Opening
    <3>5. QED
      BY <3>2, <3>3, <3>4
  <2>3. CASE ProcessOf[r] # p
    <3>1. SameInstance(r) /\ Wanted(r)' = Wanted(r)
      BY <1>2, <2>3
    <3>2. \A q \in Realms : ProcessOf[q] = ProcessOf[r] => SameInstance(q)
      BY <1>2, <2>3
    <3>3. Standing(r)'
      BY <1>1, <2>1, <3>1 DEF Standing, SameInstance
    <3>4. Informed(r)'
      BY <1>1, <2>1, <3>1 DEF Informed, SameInstance, At, Quiet
    <3>5. OpensAlone(r)'
      BY <2>1, <3>1, <3>2 DEF OpensAlone, SameInstance, Siblings
    <3>6. cache'[ProcessOf[r]] = cache[ProcessOf[r]]
      BY <1>3, <2>1, <2>3
    <3>7. Near(r)'
      BY <1>1, <2>1, <3>1, <3>2, <3>6 DEF Near, Seen, SameInstance, Quiet, Blank
    <3>8. QED
      BY <3>3, <3>4, <3>5, <3>7
  <2>4. QED
    BY <2>2, <2>3
<1>7. ASSUME NEW q \in Processes
      PROVE  CacheFits(q)'
  <2>1. CASE q = p
    <3>1. cache'[q].snapshot = 0 /\ cache'[q].max = 0
      BY <1>3, <2>1 DEF EmptyCache
    <3>2. QED
      BY <1>1, <3>1, LatestType DEF CacheFits
  <2>2. CASE q # p
    <3>1. cache'[q] = cache[q]
      BY <1>3, <2>2
    <3>2. Reliable(q)' <=> Reliable(q)
      BY <1>2, <2>2 DEF Reliable, SameInstance
    <3>3. CacheFits(q)
      BY DEF SInv
    <3>4. QED
      BY <1>1, <3>1, <3>2, <3>3 DEF CacheFits, Quiet, Blank
  <2>3. QED
    BY <2>1, <2>2
<1>8. QED
  BY <1>4, <1>5, <1>6, <1>7 DEF SInv

---------------------------------------------------------------------------------
(* The theorems. *)

\* The invariant holds at first.
LEMMA InvariantOfInit == Init => SInv
<1> SUFFICES ASSUME Init
             PROVE  SInv
  OBVIOUS
<1>1. Latest = 1 /\ file[1].version = NotVersioned /\ file[1].migrated = <<>>
  BY DEF Init, Latest
<1>2. History
  <2>1. \A i \in 1 .. 1 : i = 1
    OBVIOUS
  <2>2. NotVersioned <= NotVersioned
    BY DEF NotVersioned
  <2>3. DOMAIN file[1].migrated = {}
    BY <1>1
  <2>4. QED
    BY <1>1, <2>1, <2>2, <2>3 DEF History, MigratedInOrder
<1>3. \A r \in Realms : pc[r] = "closed" /\ group[r] = 0 /\ transaction[r] = 0 /\ newSchema[r] = 0
  BY DEF Init
<1>4. OneWriter
  BY <1>3 DEF OneWriter, Writing
<1>5. \A r \in Realms : Standing(r) /\ Informed(r) /\ OpensAlone(r) /\ Near(r)
  BY <1>3 DEF Standing, Informed, OpensAlone, Near, Uncached, Writing, Opening
<1>6. \A p \in Processes : CacheFits(p)
  BY <1>1 DEF Init, CacheFits, EmptyCache
<1>7. QED
  BY <1>2, <1>4, <1>5, <1>6 DEF SInv

\* Every step of an instance keeps the invariant.
LEMMA InvariantOfStep ==
  ASSUME STypeOK, SInv, NumbersShow', NEW r \in Realms, Step(r)
  PROVE  SInv'
<1>1. History'
  <2>1. CASE CommitUpdate(r)
    BY <2>1, UpdateInOrder
  <2>2. CASE CommitWrite(r)
    BY <2>2, WriteInOrder DEF SInv
  <2>3. CASE UNCHANGED file
    <3>1. Latest' = Latest
      BY <2>3 DEF Latest
    <3>2. QED
      BY <2>3, <3>1 DEF SInv, History, Quiet, MigratedInOrder
  <2>4. UNCHANGED file \/ CommitUpdate(r) \/ CommitWrite(r)
    BY DEF Step, Open, Use, OpenFromCache, OpenFromFile, CacheConstructed, AlignWithThread,
      AlignWithFile, BeginUpdate, UpdateFails, FinishUpdate, CacheNewSchema, BeginRead, Refresh,
      BeginWrite, CancelWrite, Invalidate, Release
  <2>5. QED
    BY <2>1, <2>2, <2>3, <2>4
<1>2. Standing(r)' /\ Informed(r)'
  BY OpeningPlace, UpdatePlace, UsePlace, CommitPlace DEF Step, Open, Use
<1>3. \A q \in Realms : Standing(q)' /\ Informed(q)'
  BY <1>2, KeepsPlaceOfOthers
<1>4. QED
  BY <1>1, <1>3, KeepsOneWriter, KeepsOpensAlone, KeepsNear, KeepsCacheFits DEF SInv

\* The invariant holds as long as every new number shows in the tables.
LEMMA Invariant == Spec /\ []NumbersShow => []SInv
<1>1. ASSUME STypeOK, SInv, NumbersShow', [Next]_vars
      PROVE  SInv'
  <2>1. CASE \E r \in Realms : Step(r)
    BY <1>1, <2>1, InvariantOfStep
  <2>2. CASE \E p \in Processes, c \in Configs : Restart(p, c)
    BY <1>1, <2>2, KeptByRestart
  <2>3. CASE UNCHANGED vars
    <3>1. UNCHANGED vars /\ Latest' = Latest
      BY <2>3 DEF vars, Latest
    <3>2. History' /\ OneWriter'
      BY <1>1, <3>1 DEF vars, realmVars, SInv, History, OneWriter, Quiet, MigratedInOrder
    <3>3. ASSUME NEW r \in Realms
          PROVE  Standing(r)' /\ Informed(r)'
      <4>1. Standing(r) /\ Informed(r) /\ Latest' = Latest
            /\ UNCHANGED <<file, mode, config, pc, group, version, transaction, newSchema>>
        BY <1>1, <3>1 DEF vars, realmVars, SInv
      <4>2. Standing(r)'
        BY <4>1 DEF Standing
      <4>3. Informed(r)'
        BY <4>1 DEF Informed, Quiet, At, Wanted
      <4>4. QED
        BY <4>2, <4>3
    <3>4. \A r \in Realms : OpensAlone(r)' /\ Near(r)'
      <4>1. ASSUME NEW r \in Realms
            PROVE  OpensAlone(r)'
        <5>1. OpensAlone(r) /\ pc' = pc
          BY <1>1, <3>1 DEF vars, realmVars, SInv
        <5>2. QED
          BY <5>1 DEF OpensAlone, Siblings
      <4>2. ASSUME NEW r \in Realms
            PROVE  Near(r)'
        <5>1. Near(r) /\ UNCHANGED <<file, cache, pc, transaction>>
          BY <1>1, <3>1 DEF vars, realmVars, SInv
        <5>2. QED
          BY <5>1 DEF Near, Seen, Quiet, Blank
      <4>3. QED
        BY <4>1, <4>2
    <3>5. \A p \in Processes : CacheFits(p)'
      BY <1>1, <3>1 DEF vars, realmVars, SInv, CacheFits, Reliable, Quiet, Blank
    <3>6. QED
      BY <3>2, <3>3, <3>4, <3>5 DEF SInv
  <2>4. QED
    BY <1>1, <2>1, <2>2, <2>3 DEF Next, Step
<1>2. QED
  BY <1>1, InvariantOfInit, SchemaTypes, PTL DEF Spec

\* The version in the file only goes up, and each migration leads up from where
\* the one before it ended, in any number of processes and whoever waited for
\* whom (schema_change_needs_write_transaction, asked again after the lock).
THEOREM HistoryIsInOrder == Spec /\ []NumbersShow => []HistoryInOrder
<1>1. ASSUME STypeOK, SInv
      PROVE  HistoryInOrder
  <2>1. History /\ Latest \in Nat \ {0}
    BY <1>1, LatestType DEF SInv, STypeOK
  <2>2. \A s \in 1 .. Latest - 1 : s \in 1 .. Latest /\ s + 1 \in 1 .. Latest /\ s <= s + 1
    BY <2>1
  <2>3. \A s \in 1 .. Latest - 1 : file[s].version <= file[s + 1].version
    BY <2>1, <2>2 DEF History
  <2>4. MigratedInOrder(file[Latest])
    BY <2>1 DEF History
  <2>5. QED
    BY <2>3, <2>4 DEF HistoryInOrder, MigratedInOrder
<1>2. QED
  BY <1>1, SchemaTypes, Invariant, PTL

\* The schema and the version that a coordinator hands to the instances its
\* process opens are those of every snapshot it claims them for, whatever the
\* threads of the process and the other processes have done in the meantime.
THEOREM CachesAreRight == Spec /\ []NumbersShow => []CacheIsRight
<1>1. ASSUME STypeOK, SInv
      PROVE  CacheIsRight
  <2> SUFFICES ASSUME NEW p \in Processes, cache[p].snapshot # 0, Reliable(p),
                      NEW s \in cache[p].min .. cache[p].max
               PROVE  file[cache[p].snapshot].tables = file[s].tables /\ cache[p].version = file[s].version
    BY DEF CacheIsRight, Reliable
  <2> DEFINE k == cache[p]
  <2>1. k \in CacheType /\ CacheFits(p) /\ History /\ Latest \in Nat
    BY <1>1, LatestType DEF SInv, STypeOK
  <2>2. k.min \in Nat /\ k.max \in Nat /\ k.snapshot \in Nat
    BY <2>1 DEF CacheType
  <2>3. /\ k.max <= Latest /\ 1 <= k.min /\ k.min <= k.snapshot /\ k.snapshot <= k.max
        /\ Quiet(k.min, k.max) /\ k.version = file[k.snapshot].version
    BY <2>1 DEF CacheFits
  <2> HIDE DEF k
  <2>4. s \in 1 .. Latest /\ k.snapshot \in 1 .. Latest /\ k.min <= s /\ s <= k.max
    BY <2>1, <2>2, <2>3 DEF k
  <2>5. file[k.snapshot].tables = file[s].tables /\ file[k.snapshot].version = file[s].version
    <3>1. CASE k.snapshot <= s
      <4>1. Quiet(k.snapshot, s)
        BY <2>1, <2>2, <2>3, <2>4 DEF Quiet
      <4>2. QED
        BY <2>1, <2>4, <3>1, <4>1 DEF History
    <3>2. CASE s <= k.snapshot
      <4>1. Quiet(s, k.snapshot)
        BY <2>1, <2>2, <2>3, <2>4 DEF Quiet
      <4>2. QED
        BY <2>1, <2>4, <3>2, <4>1 DEF History
    <3>3. QED
      BY <2>4, <3>1, <3>2
  <2>6. QED
    BY <2>3, <2>5 DEF k
<1>2. QED
  BY <1>1, SchemaTypes, Invariant, PTL

---------------------------------------------------------------------------------
(* What an instance knows of the columns. *)

\* A property of a schema, with its column.
PropertyType == [name : PropNames, kind : Kinds, column : Nat]

IsSchema(s) == \A c \in DOMAIN s : s[c] \in Seq(PropertyType) /\ UniqueNames(s[c])

\* Each property has a column of its name and kind.
Has(s, t) ==
  /\ DOMAIN s \subseteq DOMAIN t
  /\ \A c \in DOMAIN s : \A i \in DOMAIN s[c] : \E k \in DOMAIN t[c] : t[c][k] = Column(s[c][i])

\* It also knows which one that is.
Fits(s, t) ==
  /\ DOMAIN s \subseteq DOMAIN t
  /\ \A c \in DOMAIN s : \A i \in DOMAIN s[c] :
       s[c][i].column \in DOMAIN t[c] /\ t[c][s[c][i].column] = Column(s[c][i])

\* No two columns of a table have one name.
Unambiguous(t) == \A c \in DOMAIN t : UniqueNames(t[c])

\* Every column of the tables t is, in its place, in the tables u.
Extends(u, t) ==
  /\ DOMAIN t \subseteq DOMAIN u
  /\ \A c \in DOMAIN t : DOMAIN t[c] \subseteq DOMAIN u[c] /\ \A k \in DOMAIN t[c] : u[c][k] = t[c][k]

\* What the log tells of the columns.
Columnwise ==
  /\ \A s \in 1 .. Latest : Unambiguous(file[s].tables)
  /\ \A i, j \in 1 .. Latest : i <= j /\ ~Refused(i, j) => Extends(file[j].tables, file[i].tables)
  /\ mode = "Additive" => \A s \in 1 .. Latest : "erase" \notin file[s].log

\* What an instance that is being opened is about to work with.
Reads(r) ==
  /\ pc[r] \in {"constructed", "aligning"} => schema[r] = SchemaFromGroup(file[transaction[r]].tables)
  /\ pc[r] \in {"waiting", "rechecked", "satisfied", "updating"} =>
       actual[r] = SchemaFromGroup(file[group[r]].tables)
  /\ pc[r] \in {"waiting", "rechecked", "updating"} /\ mode = "Additive" => ValidAdditive(Changes(r))
  /\ pc[r] \in {"satisfied", "updated", "finishing"} => Has(Fresh(r), file[group[r]].tables)

\* An open instance has the columns of the snapshot whose version it knows, and
\* all its properties were there when it last cached a schema.
Holds(r) ==
  pc[r] \in Cached =>
    /\ IsSchema(schema[r])
    /\ Fits(schema[r], file[At(r)].tables)
    /\ Has(schema[r], file[transaction[r]].tables)

\* Who is being opened has seen the classes of those open in its process, and
\* where no column is ever removed, their columns.
Covers(r) ==
  pc[r] \in {"constructed", "aligning"} =>
    \A q \in Siblings(r) : pc[q] \in Cached =>
      LET t == file[transaction[r]].tables
      IN DOMAIN schema[q] \subseteq DOMAIN t /\ (mode = "Additive" => Has(schema[q], t))

KInv ==
  /\ Columnwise
  /\ \A r \in Realms : Reads(r) /\ Holds(r) /\ Covers(r)

---------------------------------------------------------------------------------
(* Schemas and tables. *)

\* Two schemas with the same properties, wherever these have their columns.
Alike(u, s) ==
  /\ DOMAIN u = DOMAIN s
  /\ \A c \in DOMAIN s :
       /\ DOMAIN u[c] = DOMAIN s[c]
       /\ \A i \in DOMAIN s[c] : Column(u[c][i]) = Column(s[c][i])

\* Schemas that are alike are had by the same tables.
LEMMA AlikeHas ==
  ASSUME NEW s, NEW u, Alike(u, s)
  PROVE  \A t : Has(u, t) <=> Has(s, t)
<1> SUFFICES ASSUME NEW t
             PROVE  Has(u, t) <=> Has(s, t)
  OBVIOUS
<1>1. /\ DOMAIN u = DOMAIN s
      /\ \A c \in DOMAIN s : DOMAIN u[c] = DOMAIN s[c]
      /\ \A c \in DOMAIN s : \A i \in DOMAIN s[c] : Column(u[c][i]) = Column(s[c][i])
  BY DEF Alike
<1>2. QED
  BY <1>1 DEF Has

\* Tables that a schema fits have its properties.
LEMMA FitsHas ==
  ASSUME NEW s, NEW t, Fits(s, t)
  PROVE  Has(s, t)
BY DEF Fits, Has

\* More columns still have the properties.
LEMMA HasExtends ==
  ASSUME NEW s, NEW t, NEW u, Has(s, t), Extends(u, t)
  PROVE  Has(s, u)
<1>1. DOMAIN s \subseteq DOMAIN t /\ DOMAIN t \subseteq DOMAIN u
  BY DEF Has, Extends
<1>2. ASSUME NEW c \in DOMAIN s, NEW i \in DOMAIN s[c]
      PROVE  \E k \in DOMAIN u[c] : u[c][k] = Column(s[c][i])
  <2>1. PICK k \in DOMAIN t[c] : t[c][k] = Column(s[c][i])
    BY DEF Has
  <2>2. k \in DOMAIN u[c] /\ u[c][k] = t[c][k]
    BY <1>1 DEF Extends
  <2>3. QED
    BY <2>1, <2>2
<1>3. QED
  BY <1>1, <1>2 DEF Has

\* Adding columns twice is adding columns.
LEMMA ExtendsExtends ==
  ASSUME NEW s, NEW t, NEW u, Extends(t, s), Extends(u, t)
  PROVE  Extends(u, s)
BY DEF Extends

\* A column is the record of its name and its kind.
LEMMA ColumnParts ==
  ASSUME NEW t \in TablesType, NEW c \in DOMAIN t, NEW k \in DOMAIN t[c]
  PROVE  /\ t[c][k] \in ColumnType /\ k \in Nat
         /\ \A p : p.name = t[c][k].name /\ p.kind = t[c][k].kind <=> Column(p) = t[c][k]
<1>1. t[c] \in Seq(ColumnType)
  BY TablesParts
<1>2. t[c][k] \in ColumnType /\ k \in Nat
  BY <1>1, LenProperties, ElementOfSeq
<1>3. QED
  BY <1>2 DEF ColumnType, Column

\* The schema read from a file has a property for each column, in its place.
LEMMA GroupFacts ==
  ASSUME NEW t \in TablesType
  PROVE  /\ DOMAIN SchemaFromGroup(t) = DOMAIN t
         /\ \A c \in DOMAIN t :
              /\ SchemaFromGroup(t)[c] \in Seq(PropertyType)
              /\ DOMAIN SchemaFromGroup(t)[c] = DOMAIN t[c]
              /\ Names(SchemaFromGroup(t)[c]) = Names(t[c])
              /\ UniqueNames(t[c]) => UniqueNames(SchemaFromGroup(t)[c])
         /\ \A c \in DOMAIN t : \A i \in DOMAIN t[c] :
              /\ SchemaFromGroup(t)[c][i].name = t[c][i].name
              /\ SchemaFromGroup(t)[c][i].kind = t[c][i].kind
              /\ SchemaFromGroup(t)[c][i].column = i
<1> DEFINE Prop(c, i) == [name |-> t[c][i].name, kind |-> t[c][i].kind, column |-> i]
           s == SchemaFromGroup(t)
<1>1. s = [c \in DOMAIN t |-> [i \in DOMAIN t[c] |-> Prop(c, i)]]
  BY DEF SchemaFromGroup
<1> HIDE DEF s
<1>2. \A c \in DOMAIN t : \A i \in DOMAIN t[c] :
        /\ Prop(c, i) \in PropertyType
        /\ Prop(c, i).name = t[c][i].name /\ Prop(c, i).kind = t[c][i].kind /\ Prop(c, i).column = i
  BY ColumnParts DEF ColumnType, PropertyType
<1> HIDE DEF Prop
<1>3. DOMAIN s = DOMAIN t /\ \A c \in DOMAIN t : DOMAIN s[c] = DOMAIN t[c]
  BY <1>1
<1>4. \A c \in DOMAIN t : \A i \in DOMAIN t[c] : s[c][i] = Prop(c, i)
  BY <1>1
<1>5. ASSUME NEW c \in DOMAIN t
      PROVE  s[c] \in Seq(PropertyType)
  <2>1. t[c] \in Seq(ColumnType)
    BY TablesParts
  <2>2. Len(t[c]) \in Nat /\ DOMAIN t[c] = 1 .. Len(t[c])
    BY <2>1, LenProperties
  <2>3. s[c] = [i \in 1 .. Len(t[c]) |-> Prop(c, i)] /\ \A i \in 1 .. Len(t[c]) : Prop(c, i) \in PropertyType
    BY <1>1, <1>2, <2>2
  <2>4. QED
    BY <2>2, <2>3
<1>6. \A c \in DOMAIN t : Names(s[c]) = Names(t[c]) /\ (UniqueNames(t[c]) => UniqueNames(s[c]))
  BY <1>2, <1>3, <1>4 DEF Names, UniqueNames
<1>7. QED
  BY <1>2, <1>3, <1>4, <1>5, <1>6 DEF s

\* Taking the columns of the tables of a file.
LEMMA CopyFacts ==
  ASSUME NEW s, IsSchema(s), NEW t \in TablesType, Unambiguous(t)
  PROVE  /\ IsSchema(CopyTableColumns(s, SchemaFromGroup(t)))
         /\ Alike(CopyTableColumns(s, SchemaFromGroup(t)), s)
         /\ Has(s, t) => Fits(CopyTableColumns(s, SchemaFromGroup(t)), t)
<1> DEFINE g == SchemaFromGroup(t)
           u == CopyTableColumns(s, g)
           Place(c, i) == g[c][IndexOf(g[c], s[c][i].name)].column
           Knows(c, i) == c \in DOMAIN g /\ s[c][i].name \in Names(g[c])
           Prop(c, i) == IF Knows(c, i) THEN [s[c][i] EXCEPT !.column = Place(c, i)] ELSE s[c][i]
<1>1. /\ DOMAIN g = DOMAIN t
      /\ \A c \in DOMAIN t : g[c] \in Seq(PropertyType) /\ DOMAIN g[c] = DOMAIN t[c] /\ UniqueNames(g[c])
      /\ \A c \in DOMAIN t : \A i \in DOMAIN t[c] : g[c][i].name = t[c][i].name /\ g[c][i].column = i
  BY GroupFacts DEF Unambiguous
<1>2. \A c \in DOMAIN s : \A i \in DOMAIN s[c] : s[c][i] \in PropertyType
  BY LenProperties, ElementOfSeq DEF IsSchema
<1>3. DOMAIN u = DOMAIN s
  BY DEF CopyTableColumns
<1>4. ASSUME NEW c \in DOMAIN s
      PROVE  DOMAIN u[c] = DOMAIN s[c] /\ \A i \in DOMAIN s[c] : u[c][i] = Prop(c, i)
  BY <1>4 DEF CopyTableColumns
<1> HIDE DEF g, u
<1>5. ASSUME NEW c \in DOMAIN s, NEW i \in DOMAIN s[c], Knows(c, i)
      PROVE  Place(c, i) \in DOMAIN t[c] /\ Place(c, i) \in Nat /\ t[c][Place(c, i)].name = s[c][i].name
  <2> DEFINE k == IndexOf(g[c], s[c][i].name)
  <2>1. c \in DOMAIN t /\ g[c] \in Seq(PropertyType) /\ UniqueNames(g[c]) /\ s[c][i].name \in Names(g[c])
    BY <1>1, <1>5
  <2>2. k \in DOMAIN g[c] /\ g[c][k].name = s[c][i].name
    BY <2>1, IndexOfFacts
  <2> HIDE DEF k
  <2>3. k \in DOMAIN t[c] /\ k \in Nat /\ g[c][k].column = k /\ t[c][k].name = s[c][i].name
    BY <1>1, <2>1, <2>2, ColumnParts
  <2>4. QED
    BY <2>3 DEF k
<1> HIDE DEF Place
<1>6. ASSUME NEW c \in DOMAIN s, NEW i \in DOMAIN s[c]
      PROVE  /\ Prop(c, i) \in PropertyType
             /\ Prop(c, i).name = s[c][i].name /\ Prop(c, i).kind = s[c][i].kind
             /\ Knows(c, i) => Prop(c, i).column = Place(c, i)
  <2>1. s[c][i] \in PropertyType
    BY <1>2
  <2>2. CASE Knows(c, i)
    <3>1. Place(c, i) \in Nat
      BY <1>5, <2>2
    <3>2. Prop(c, i) = [s[c][i] EXCEPT !.column = Place(c, i)]
      BY <2>2
    <3> HIDE DEF Prop, Knows
    <3>3. QED
      BY <2>1, <3>1, <3>2 DEF PropertyType
  <2>3. CASE ~Knows(c, i)
    BY <2>1, <2>3
  <2>4. QED
    BY <2>2, <2>3
<1> HIDE DEF Prop, Knows
<1>7. IsSchema(u)
  <2> SUFFICES ASSUME NEW c \in DOMAIN s
               PROVE  u[c] \in Seq(PropertyType) /\ UniqueNames(u[c])
    BY <1>3 DEF IsSchema
  <2>1. s[c] \in Seq(PropertyType) /\ UniqueNames(s[c])
    BY DEF IsSchema
  <2>2. Len(s[c]) \in Nat /\ DOMAIN s[c] = 1 .. Len(s[c])
    BY <2>1, LenProperties
  <2>3. u[c] = [i \in 1 .. Len(s[c]) |-> u[c][i]]
    <3>1. \E f : u[c] = [i \in DOMAIN s[c] |-> f[i]]
      <4>1. \/ u[c] = s[c]
            \/ u[c] = [i \in DOMAIN s[c] |->
                         IF s[c][i].name \notin Names(g[c]) THEN s[c][i]
                         ELSE [s[c][i] EXCEPT !.column = g[c][IndexOf(g[c], s[c][i].name)].column]]
        BY DEF u, CopyTableColumns
      <4>2. s[c] = [i \in DOMAIN s[c] |-> s[c][i]]
        BY <2>1
      <4>3. CASE u[c] = s[c]
        BY <4>2, <4>3
      <4>4. CASE u[c] = [i \in DOMAIN s[c] |->
                         IF s[c][i].name \notin Names(g[c]) THEN s[c][i]
                         ELSE [s[c][i] EXCEPT !.column = g[c][IndexOf(g[c], s[c][i].name)].column]]
        <5>1. u[c] = [i \in DOMAIN s[c] |-> u[c][i]]
          BY <4>4
        <5>2. QED
          BY <5>1
      <4>5. QED
        BY <4>1, <4>3, <4>4
    <3>2. QED
      BY <2>2, <3>1
  <2>4. \A i \in 1 .. Len(s[c]) : u[c][i] \in PropertyType
    BY <1>4, <1>6, <2>2
  <2>5. u[c] \in Seq(PropertyType)
    BY <2>2, <2>3, <2>4
  <2>6. UniqueNames(u[c])
    BY <1>4, <1>6, <2>1 DEF UniqueNames
  <2>7. QED
    BY <2>5, <2>6
<1>8. Alike(u, s)
  BY <1>3, <1>4, <1>6 DEF Alike, Column
<1>9. ASSUME Has(s, t)
      PROVE  Fits(u, t)
  <2> SUFFICES ASSUME NEW c \in DOMAIN s, NEW i \in DOMAIN s[c]
               PROVE  u[c][i].column \in DOMAIN t[c] /\ t[c][u[c][i].column] = Column(u[c][i])
    BY <1>3, <1>4, <1>9 DEF Fits, Has
  <2>1. c \in DOMAIN t
    BY <1>9 DEF Has
  <2>2. PICK k \in DOMAIN t[c] : t[c][k] = Column(s[c][i])
    BY <1>9 DEF Has
  <2>3. t[c][k].name = s[c][i].name
    BY <2>2 DEF Column
  <2>4. Knows(c, i)
    BY <1>1, <2>1, <2>2, <2>3 DEF Knows, Names
  <2>5. Place(c, i) \in DOMAIN t[c] /\ t[c][Place(c, i)].name = s[c][i].name
    BY <1>5, <2>4
  <2>6. Place(c, i) = k
    BY <2>1, <2>2, <2>3, <2>5 DEF Unambiguous, UniqueNames
  <2>7. u[c][i].column = k
    BY <1>4, <1>6, <2>4, <2>6
  <2>8. Column(u[c][i]) = Column(s[c][i])
    BY <1>8 DEF Alike
  <2>9. QED
    BY <2>2, <2>7, <2>8
<1>10. QED
  BY <1>7, <1>8, <1>9 DEF u, g

---------------------------------------------------------------------------------
(* What a comparison without a certain kind of change says. *)

\* Where nothing is to be removed each property there is is wanted.
LEMMA NothingRemoved ==
  ASSUME NEW e, NEW s, Compare(e, s).removed = {},
         NEW c \in DOMAIN e \cap DOMAIN s, NEW i \in DOMAIN e[c]
  PROVE  e[c][i].name \in Names(s[c])
<1> DEFINE Lost(d) == {<<d, e[d][j].column>> : j \in DOMAIN e[d] \ Shared(e, s, d)}
<1>1. UNION {Lost(d) : d \in DOMAIN e \cap DOMAIN s} = {}
  BY DEF Compare
<1>2. Lost(c) = {}
  <2> HIDE DEF Lost
  <2>1. \A x \in Lost(c) : x \in UNION {Lost(d) : d \in DOMAIN e \cap DOMAIN s}
    OBVIOUS
  <2>2. QED
    BY <1>1, <2>1
<1>3. i \notin DOMAIN e[c] \ Shared(e, s, c)
  BY <1>2
<1>4. QED
  BY <1>3 DEF Shared

\* Where nothing is to be replaced each wanted property has its kind already.
LEMMA NothingReplaced ==
  ASSUME NEW e, NEW s, Compare(e, s).replaced = {},
         NEW c \in DOMAIN e \cap DOMAIN s, NEW i \in DOMAIN e[c], e[c][i].name \in Names(s[c])
  PROVE  e[c][i].kind = s[c][IndexOf(s[c], e[c][i].name)].kind
<1> DEFINE Want(d, j) == s[d][IndexOf(s[d], e[d][j].name)]
           Others(d) == {[class |-> d, at |-> e[d][j].column, kind |-> Want(d, j).kind] :
                           j \in {l \in Shared(e, s, d) : e[d][l].kind # Want(d, l).kind}}
<1>1. UNION {Others(d) : d \in DOMAIN e \cap DOMAIN s} = {}
  BY DEF Compare
<1>2. Others(c) = {}
  <2> HIDE DEF Others
  <2>1. \A x \in Others(c) : x \in UNION {Others(d) : d \in DOMAIN e \cap DOMAIN s}
    OBVIOUS
  <2>2. QED
    BY <1>1, <2>1
<1>3. i \in Shared(e, s, c)
  BY DEF Shared
<1>4. QED
  BY <1>2, <1>3

\* Where nothing is to be added each wanted property is there.
LEMMA NothingAdded ==
  ASSUME NEW e, NEW s, NoProperties(Compare(e, s)), NEW S,
         NEW c \in DOMAIN e \cap DOMAIN s, s[c] \in Seq(S), NEW i \in DOMAIN s[c]
  PROVE  s[c][i].name \in Names(e[c])
<1> DEFINE kept == {j \in DOMAIN s[c] : s[c][j].name \notin Names(e[c])}
           added == Subsequence(s[c], kept)
<1>1. Compare(e, s).added = [d \in DOMAIN e \cap DOMAIN s |->
                               Subsequence(s[d], {j \in DOMAIN s[d] : s[d][j].name \notin Names(e[d])})]
  BY DEF Compare
<1>2. added = <<>>
  BY <1>1 DEF NoProperties
<1>3. kept \in SUBSET DOMAIN s[c]
  OBVIOUS
<1> HIDE DEF kept
<1>4. SubsequenceOf(added, s[c], kept)
  BY <1>3, SubsequenceFacts
<1> HIDE DEF added
<1>5. \A j \in kept : \E k \in DOMAIN added : TRUE
  BY <1>4 DEF SubsequenceOf
<1>6. DOMAIN added = {}
  BY <1>2
<1>7. i \notin kept
  BY <1>5, <1>6
<1>8. QED
  BY <1>7 DEF kept

\* The properties of a class are those of a sequence without a name twice.
Listed(s, S) == \A c \in DOMAIN s : s[c] \in Seq(S) /\ UniqueNames(s[c])

\* A file in which a schema finds nothing to add and nothing to replace has all of it.
LEMMA NothingMissing ==
  ASSUME NEW t \in TablesType, NEW S, NEW s, Listed(s, S), DOMAIN s \subseteq DOMAIN t,
         NEW ch, ch = Compare(SchemaFromGroup(t), s), NoProperties(ch), ch.replaced = {}
  PROVE  Has(s, t)
<1> DEFINE e == SchemaFromGroup(t)
<1>1. /\ DOMAIN e = DOMAIN t
      /\ \A c \in DOMAIN t : Names(e[c]) = Names(t[c]) /\ DOMAIN e[c] = DOMAIN t[c]
      /\ \A c \in DOMAIN t : \A k \in DOMAIN t[c] : e[c][k].name = t[c][k].name /\ e[c][k].kind = t[c][k].kind
  BY GroupFacts
<1> HIDE DEF e
<1> SUFFICES ASSUME NEW c \in DOMAIN s, NEW i \in DOMAIN s[c]
             PROVE  \E k \in DOMAIN t[c] : t[c][k] = Column(s[c][i])
  BY DEF Has
<1>2. c \in DOMAIN e \cap DOMAIN s /\ c \in DOMAIN t /\ s[c] \in Seq(S) /\ UniqueNames(s[c])
  BY <1>1 DEF Listed
<1>3. s[c][i].name \in Names(e[c])
  BY <1>2, NothingAdded DEF e
<1>4. PICK k \in DOMAIN t[c] : t[c][k].name = s[c][i].name
  BY <1>1, <1>2, <1>3 DEF Names
<1>5. k \in DOMAIN e[c] /\ e[c][k].name = s[c][i].name /\ e[c][k].kind = t[c][k].kind
  BY <1>1, <1>2, <1>4
<1>6. e[c][k].name \in Names(s[c])
  BY <1>5 DEF Names
<1>7. e[c][k].kind = s[c][IndexOf(s[c], e[c][k].name)].kind
  BY <1>2, <1>5, <1>6, NothingReplaced DEF e
<1>8. IndexOf(s[c], e[c][k].name) = i
  <2>1. IndexOf(s[c], e[c][k].name) \in DOMAIN s[c]
        /\ s[c][IndexOf(s[c], e[c][k].name)].name = e[c][k].name
    BY <1>2, <1>6, IndexOfFacts
  <2>2. QED
    BY <1>2, <1>5, <2>1 DEF UniqueNames
<1>9. t[c][k] = Column(s[c][i])
  <2>1. s[c][i].name = t[c][k].name /\ s[c][i].kind = t[c][k].kind
    BY <1>4, <1>5, <1>7, <1>8
  <2>2. QED
    BY <1>2, <2>1, ColumnParts
<1>10. QED
  BY <1>9

\* A schema whose file has lost and replaced nothing still has all its columns.
LEMMA NothingLost ==
  ASSUME NEW t \in TablesType, Unambiguous(t), NEW s, DOMAIN s \subseteq DOMAIN t,
         ValidExternal(Compare(s, SchemaFromGroup(t)))
  PROVE  Has(s, t)
<1> DEFINE g == SchemaFromGroup(t)
<1>1. /\ DOMAIN g = DOMAIN t
      /\ \A c \in DOMAIN t : g[c] \in Seq(PropertyType) /\ UniqueNames(g[c]) /\ DOMAIN g[c] = DOMAIN t[c]
      /\ \A c \in DOMAIN t : \A k \in DOMAIN t[c] : g[c][k].name = t[c][k].name /\ g[c][k].kind = t[c][k].kind
  BY GroupFacts DEF Unambiguous
<1>2. Compare(s, g).removed = {} /\ Compare(s, g).replaced = {}
  BY DEF ValidExternal
<1> HIDE DEF g
<1> SUFFICES ASSUME NEW c \in DOMAIN s, NEW i \in DOMAIN s[c]
             PROVE  \E k \in DOMAIN t[c] : t[c][k] = Column(s[c][i])
  BY DEF Has
<1>3. c \in DOMAIN s \cap DOMAIN g /\ c \in DOMAIN t
  BY <1>1
<1>4. s[c][i].name \in Names(g[c])
  BY <1>2, <1>3, NothingRemoved
<1>5. PICK k : k = IndexOf(g[c], s[c][i].name)
  OBVIOUS
<1>6. k \in DOMAIN g[c] /\ g[c][k].name = s[c][i].name
  BY <1>1, <1>3, <1>4, <1>5, IndexOfFacts
<1>7. s[c][i].kind = g[c][k].kind
  BY <1>2, <1>3, <1>4, <1>5, NothingReplaced
<1>8. k \in DOMAIN t[c] /\ s[c][i].name = t[c][k].name /\ s[c][i].kind = t[c][k].kind
  BY <1>1, <1>3, <1>6, <1>7
<1>9. t[c][k] = Column(s[c][i])
  BY <1>3, <1>8, ColumnParts
<1>10. QED
  BY <1>8, <1>9

\* Choosing all places of a sequence leaves it as it is.
LEMMA SubsequenceOfAll ==
  ASSUME NEW S, NEW q \in Seq(S)
  PROVE  Subsequence(q, DOMAIN q) = q
<1> DEFINE kept == DOMAIN q
           n == Len(q)
           Rank(i) == Cardinality({j \in kept : j <= i})
<1>1. n \in Nat /\ kept = 1 .. n /\ q = [k \in 1 .. n |-> q[k]]
  BY LenProperties
<1>2. Cardinality(kept) = n
  <2>1. 1 \in Int /\ n \in Int /\ n - 1 + 1 = n
    BY <1>1
  <2>2. Cardinality(1 .. n) = IF 1 > n THEN 0 ELSE n - 1 + 1
    BY <2>1, FS_Interval
  <2>3. QED
    BY <1>1, <2>1, <2>2
<1>3. ASSUME NEW i \in 1 .. n
      PROVE  Rank(i) = i
  <2>1. {j \in kept : j <= i} = 1 .. i
    BY <1>1
  <2>2. 1 \in Int /\ i \in Int /\ ~(1 > i) /\ i - 1 + 1 = i
    BY <1>1
  <2>3. Cardinality(1 .. i) = IF 1 > i THEN 0 ELSE i - 1 + 1
    BY <2>2, FS_Interval
  <2>4. QED
    BY <2>1, <2>2, <2>3
<1>4. Subsequence(q, kept) = [k \in 1 .. n |-> q[CHOOSE i \in kept : Rank(i) = k]]
  BY <1>2 DEF Subsequence
<1> HIDE DEF Rank
<1>5. \A k \in 1 .. n : (CHOOSE i \in kept : Rank(i) = k) = k
  BY <1>1, <1>3
<1>6. Subsequence(q, kept) = [k \in 1 .. n |-> q[k]]
  BY <1>4, <1>5
<1>7. QED
  BY <1>1, <1>6

---------------------------------------------------------------------------------
(* What an update makes of the columns. *)

\* Where the elements of two sequences are in the two put together.
LEMMA ConcatParts ==
  ASSUME NEW S, NEW p \in Seq(S), NEW q \in Seq(S)
  PROVE  /\ \A k \in DOMAIN p : k \in DOMAIN (p \o q) /\ (p \o q)[k] = p[k]
         /\ \A l \in DOMAIN q : /\ Len(p) + l \in DOMAIN (p \o q) /\ Len(p) + l \notin DOMAIN p
                                /\ (p \o q)[Len(p) + l] = q[l]
         /\ \A k \in DOMAIN (p \o q) \ DOMAIN p : \E l \in DOMAIN q : k = Len(p) + l
<1>1. /\ Len(p) \in Nat /\ DOMAIN p = 1 .. Len(p) /\ Len(q) \in Nat /\ DOMAIN q = 1 .. Len(q)
      /\ DOMAIN (p \o q) = 1 .. Len(p) + Len(q)
  BY ConcatProperties, LenProperties
<1>2. \A k \in 1 .. Len(p) + Len(q) : (p \o q)[k] = IF k <= Len(p) THEN p[k] ELSE q[k - Len(p)]
  OBVIOUS
<1>3. ASSUME NEW l \in 1 .. Len(q)
      PROVE  /\ Len(p) + l \in 1 .. Len(p) + Len(q) /\ Len(p) + l \notin 1 .. Len(p)
             /\ (p \o q)[Len(p) + l] = q[l]
  <2>1. Len(p) + l \in 1 .. Len(p) + Len(q) /\ ~(Len(p) + l <= Len(p)) /\ Len(p) + l - Len(p) = l
    BY <1>1
  <2>2. QED
    BY <1>2, <2>1
<1>4. ASSUME NEW k \in (1 .. Len(p) + Len(q)) \ (1 .. Len(p))
      PROVE  \E l \in 1 .. Len(q) : k = Len(p) + l
  <2>1. k - Len(p) \in 1 .. Len(q) /\ k = Len(p) + (k - Len(p))
    BY <1>1
  <2>2. QED
    BY <2>1
<1>5. \A k \in 1 .. Len(p) : k \in 1 .. Len(p) + Len(q) /\ (p \o q)[k] = p[k]
  BY <1>1, <1>2
<1>6. QED
  BY <1>1, <1>3, <1>4, <1>5

\* A class to which the properties it lacks are added.
LEMMA GrownClass ==
  ASSUME NEW have \in Seq(ColumnType), UniqueNames(have),
         NEW props \in Seq(ColumnType), UniqueNames(props),
         NEW more \in Seq(ColumnType), NEW known, Names(known) = Names(have),
         SubsequenceOf(more, props, NotIn(props, known))
  PROVE  /\ UniqueNames(have \o more)
         /\ \A i \in DOMAIN props : \E k \in DOMAIN (have \o more) : (have \o more)[k].name = props[i].name
         /\ \A k \in DOMAIN (have \o more) \ DOMAIN have :
              \E j \in DOMAIN props : (have \o more)[k] = props[j]
<1> DEFINE u == have \o more
           n == Len(have)
<1>1. /\ \A k \in DOMAIN have : k \in DOMAIN u /\ u[k] = have[k]
      /\ \A l \in DOMAIN more : n + l \in DOMAIN u /\ n + l \notin DOMAIN have /\ u[n + l] = more[l]
      /\ \A k \in DOMAIN u \ DOMAIN have : \E l \in DOMAIN more : k = n + l
  BY ConcatParts
<1> HIDE DEF u, n
<1>2. PICK pick \in [DOMAIN more -> NotIn(props, known)] :
        /\ \A l \in DOMAIN more : more[l] = props[pick[l]]
        /\ \A i \in NotIn(props, known) : \E l \in DOMAIN more : pick[l] = i
        /\ \A l, m \in DOMAIN more : pick[l] = pick[m] => l = m
  BY DEF SubsequenceOf
<1>3. \A l \in DOMAIN more : pick[l] \in DOMAIN props /\ props[pick[l]].name \notin Names(have)
  BY <1>2 DEF NotIn
<1>4. ASSUME NEW k \in DOMAIN u \ DOMAIN have
      PROVE  \E l \in DOMAIN more : k = n + l /\ u[k] = props[pick[l]]
  BY <1>1, <1>2
<1>5. UniqueNames(u)
  <2> SUFFICES ASSUME NEW k \in DOMAIN u, NEW m \in DOMAIN u, u[k].name = u[m].name
               PROVE  k = m
    BY DEF UniqueNames
  <2>1. CASE k \in DOMAIN have /\ m \in DOMAIN have
    BY <1>1, <2>1 DEF UniqueNames
  <2>2. CASE k \notin DOMAIN have /\ m \notin DOMAIN have
    <3>1. PICK a \in DOMAIN more : k = n + a /\ u[k] = props[pick[a]]
      BY <1>4, <2>2
    <3>2. PICK b \in DOMAIN more : m = n + b /\ u[m] = props[pick[b]]
      BY <1>4, <2>2
    <3>3. pick[a] = pick[b]
      BY <1>3, <3>1, <3>2 DEF UniqueNames
    <3>4. QED
      BY <1>2, <3>1, <3>2, <3>3
  <2>3. ASSUME NEW a \in DOMAIN have, NEW b \in DOMAIN u \ DOMAIN have
        PROVE  u[a].name # u[b].name
    <3>1. u[a].name \in Names(have)
      BY <1>1 DEF Names
    <3>2. u[b].name \notin Names(have)
      BY <1>3, <1>4
    <3>3. QED
      BY <3>1, <3>2
  <2>4. QED
    BY <2>1, <2>2, <2>3
<1>6. ASSUME NEW i \in DOMAIN props
      PROVE  \E k \in DOMAIN u : u[k].name = props[i].name
  <2>1. CASE props[i].name \in Names(have)
    BY <1>1, <2>1 DEF Names
  <2>2. CASE props[i].name \notin Names(have)
    <3>1. i \in NotIn(props, known)
      BY <2>2 DEF NotIn
    <3>2. PICK l \in DOMAIN more : pick[l] = i
      BY <1>2, <3>1
    <3>3. n + l \in DOMAIN u /\ u[n + l] = props[i]
      BY <1>1, <1>2, <3>2
    <3>4. QED
      BY <3>3
  <2>3. QED
    BY <2>1, <2>2
<1>7. \A k \in DOMAIN u \ DOMAIN have : \E j \in DOMAIN props : u[k] = props[j]
  BY <1>3, <1>4
<1>8. QED
  BY <1>5, <1>6, <1>7 DEF u

\* After the additions every name of the target is there, once, and every
\* column that was there is in its place.
LEMMA GrownTables ==
  ASSUME NEW t \in TablesType, Unambiguous(t), NEW g \in Configs,
         NEW ch, ch = Compare(SchemaFromGroup(t), TargetOf[g]),
         NEW u, u = Grown(t, ch, TargetOf[g])
  PROVE  /\ u \in TablesType /\ DOMAIN u = DOMAIN t \cup DOMAIN TargetOf[g]
         /\ Extends(u, t) /\ Unambiguous(u)
         /\ \A c \in DOMAIN TargetOf[g] : \A i \in DOMAIN TargetOf[g][c] :
              \E k \in DOMAIN u[c] : u[c][k].name = TargetOf[g][c][i].name
         /\ \A c \in DOMAIN u : \A k \in DOMAIN u[c] :
              \/ c \in DOMAIN t /\ k \in DOMAIN t[c]
              \/ c \in DOMAIN TargetOf[g] /\ \E j \in DOMAIN TargetOf[g][c] : u[c][k] = TargetOf[g][c][j]
<1> DEFINE target == TargetOf[g]
           e == SchemaFromGroup(t)
<1>1. Compared(ch, e, target)
  BY CompareFacts
<1>2. u \in TablesType /\ DOMAIN u = DOMAIN t \cup ch.tables /\ GrownOf(u, t, ch, target)
  BY <1>1, GrownFacts
<1>3. DOMAIN e = DOMAIN t /\ \A c \in DOMAIN t : Names(e[c]) = Names(t[c])
  BY GroupFacts
<1>4. ch.tables = DOMAIN target \ DOMAIN t /\ DOMAIN ch.added = DOMAIN t \cap DOMAIN target
  BY <1>1, <1>3 DEF Compared
<1>5. \A c \in DOMAIN target : target[c] \in Seq(ColumnType) /\ UniqueNames(target[c])
  BY TargetParts
<1>6. \A c \in DOMAIN t : t[c] \in Seq(ColumnType) /\ UniqueNames(t[c])
  BY TablesParts DEF Unambiguous
<1> HIDE DEF target, e
<1>7. ASSUME NEW c \in DOMAIN target \ DOMAIN t
      PROVE  u[c] = target[c]
  <2>1. u[c] = <<>> \o target[c]
    BY <1>2, <1>4 DEF GrownOf
  <2>2. QED
    BY <1>5, <2>1, ConcatEmptySeq
<1>8. ASSUME NEW c \in DOMAIN t \ DOMAIN target
      PROVE  u[c] = t[c]
  BY <1>2, <1>4 DEF GrownOf
<1>9. ASSUME NEW c \in DOMAIN t \cap DOMAIN target
      PROVE  /\ UniqueNames(u[c])
             /\ \A k \in DOMAIN t[c] : k \in DOMAIN u[c] /\ u[c][k] = t[c][k]
             /\ \A i \in DOMAIN target[c] : \E k \in DOMAIN u[c] : u[c][k].name = target[c][i].name
             /\ \A k \in DOMAIN u[c] \ DOMAIN t[c] : \E j \in DOMAIN target[c] : u[c][k] = target[c][j]
  <2>1. u[c] = t[c] \o ch.added[c]
    BY <1>2, <1>4 DEF GrownOf
  <2>2. ch.added[c] \in Seq(ColumnType) /\ SubsequenceOf(ch.added[c], target[c], NotIn(target[c], e[c]))
    BY <1>1, <1>3 DEF Compared
  <2>3. t[c] \in Seq(ColumnType) /\ UniqueNames(t[c]) /\ target[c] \in Seq(ColumnType) /\ UniqueNames(target[c])
        /\ Names(e[c]) = Names(t[c])
    BY <1>3, <1>5, <1>6
  <2>4. \A k \in DOMAIN t[c] : k \in DOMAIN u[c] /\ u[c][k] = t[c][k]
    BY <2>1, <2>2, <2>3, ConcatParts
  <2>5. PICK have, props, more, known : have = t[c] /\ props = target[c] /\ more = ch.added[c] /\ known = e[c]
    OBVIOUS
  <2>6. /\ have \in Seq(ColumnType) /\ UniqueNames(have) /\ props \in Seq(ColumnType) /\ UniqueNames(props)
        /\ more \in Seq(ColumnType) /\ Names(known) = Names(have)
        /\ SubsequenceOf(more, props, NotIn(props, known))
    BY <2>2, <2>3, <2>5
  <2>7. /\ UniqueNames(have \o more)
        /\ \A i \in DOMAIN props : \E k \in DOMAIN (have \o more) : (have \o more)[k].name = props[i].name
        /\ \A k \in DOMAIN (have \o more) \ DOMAIN have :
             \E j \in DOMAIN props : (have \o more)[k] = props[j]
    BY <2>6, GrownClass
  <2>8. have \o more = u[c]
    BY <2>1, <2>5
  <2>9. QED
    BY <2>4, <2>5, <2>7, <2>8
<1>10. DOMAIN u = DOMAIN t \cup DOMAIN target
  BY <1>2, <1>4
<1>11. Extends(u, t)
  BY <1>8, <1>9, <1>10 DEF Extends
<1>12. Unambiguous(u)
  <2> SUFFICES ASSUME NEW c \in DOMAIN u
               PROVE  UniqueNames(u[c])
    BY DEF Unambiguous
  <2>1. CASE c \in DOMAIN target \ DOMAIN t
    BY <1>5, <1>7, <2>1
  <2>2. CASE c \in DOMAIN t \ DOMAIN target
    BY <1>6, <1>8, <2>2
  <2>3. CASE c \in DOMAIN t \cap DOMAIN target
    BY <1>9, <2>3
  <2>4. QED
    BY <1>10, <2>1, <2>2, <2>3
<1>13. \A c \in DOMAIN target : \A i \in DOMAIN target[c] :
         \E k \in DOMAIN u[c] : u[c][k].name = target[c][i].name
  BY <1>7, <1>9
<1>14. \A c \in DOMAIN u : \A k \in DOMAIN u[c] :
         \/ c \in DOMAIN t /\ k \in DOMAIN t[c]
         \/ c \in DOMAIN target /\ \E j \in DOMAIN target[c] : u[c][k] = target[c][j]
  BY <1>7, <1>8, <1>9, <1>10
<1>15. QED
  BY <1>2, <1>10, <1>11, <1>12, <1>13, <1>14 DEF target

\* The tables w have the columns of u, those of a name in the target as the target has them.
Takes(w, u, target) ==
  /\ DOMAIN w = DOMAIN u
  /\ \A c \in DOMAIN u : DOMAIN w[c] = DOMAIN u[c] /\ \A k \in DOMAIN u[c] : w[c][k].name = u[c][k].name
  /\ \A c \in DOMAIN target : \A k \in DOMAIN u[c], i \in DOMAIN target[c] :
       u[c][k].name = target[c][i].name => w[c][k] = target[c][i]

\* That is so after the replacements.
LEMMA ReplacedTables ==
  ASSUME NEW t \in TablesType, Unambiguous(t), NEW g \in Configs,
         NEW ch, ch = Compare(SchemaFromGroup(t), TargetOf[g]),
         NEW u, u = Grown(t, ch, TargetOf[g]), NEW w, w = Replaced(u, ch)
  PROVE  w \in TablesType /\ Takes(w, u, TargetOf[g])
<1> DEFINE target == TargetOf[g]
           e == SchemaFromGroup(t)
           New(c, k) == {x \in ch.replaced : x.class = c /\ x.at = k}
<1>1. Compared(ch, e, target)
  BY CompareFacts
<1>2. /\ u \in TablesType /\ DOMAIN u = DOMAIN t \cup DOMAIN target /\ Extends(u, t)
      /\ \A c \in DOMAIN u : \A k \in DOMAIN u[c] :
           \/ c \in DOMAIN t /\ k \in DOMAIN t[c]
           \/ c \in DOMAIN target /\ \E j \in DOMAIN target[c] : u[c][k] = target[c][j]
  BY GrownTables
<1> HIDE DEF New
<1>3. w \in TablesType /\ DOMAIN w = DOMAIN u /\ ReplacedOf(w, u, ch)
  <2>1. u \in TablesType
    BY <1>2
  <2>2. Compared(ch, e, TargetOf[g])
    BY <1>1
  <2> HIDE DEF e
  <2>3. Replaced(u, ch) \in TablesType /\ DOMAIN Replaced(u, ch) = DOMAIN u /\ ReplacedOf(Replaced(u, ch), u, ch)
    BY <2>1, <2>2, ReplacedFacts
  <2>4. QED
    BY <2>3
<1>4. /\ DOMAIN e = DOMAIN t /\ \A c \in DOMAIN t : DOMAIN e[c] = DOMAIN t[c]
      /\ \A c \in DOMAIN t : \A k \in DOMAIN t[c] :
           e[c][k].name = t[c][k].name /\ e[c][k].kind = t[c][k].kind /\ e[c][k].column = k
  BY GroupFacts
<1>5. \A c \in DOMAIN target : target[c] \in Seq(ColumnType) /\ UniqueNames(target[c])
  BY TargetParts
<1> HIDE DEF target, e
<1>6. ASSUME NEW c \in DOMAIN u, NEW k \in DOMAIN u[c]
      PROVE  /\ w[c][k].name = u[c][k].name
             /\ New(c, k) = {} => w[c][k] = u[c][k]
             /\ New(c, k) # {} => \E x \in New(c, k) : w[c][k].kind = x.kind
  BY <1>3 DEF ReplacedOf, New
\* Only columns that were there are replaced, by the kind of their namesake.
<1>7. ASSUME NEW c, NEW k, NEW x \in New(c, k)
      PROVE  /\ c \in DOMAIN t /\ k \in DOMAIN t[c] /\ c \in DOMAIN target
             /\ t[c][k].name \in Names(target[c])
             /\ x.kind = target[c][IndexOf(target[c], t[c][k].name)].kind
             /\ t[c][k].kind # x.kind
  <2>1. PICK d \in DOMAIN e \cap DOMAIN target : \E i \in DOMAIN e[d] :
          /\ e[d][i].name \in Names(target[d])
          /\ e[d][i].kind # target[d][IndexOf(target[d], e[d][i].name)].kind
          /\ x = [class |-> d, at |-> e[d][i].column,
                  kind |-> target[d][IndexOf(target[d], e[d][i].name)].kind]
    BY <1>1 DEF Compared, New
  <2>2. PICK i \in DOMAIN e[d] :
          /\ e[d][i].name \in Names(target[d])
          /\ e[d][i].kind # target[d][IndexOf(target[d], e[d][i].name)].kind
          /\ x = [class |-> d, at |-> e[d][i].column,
                  kind |-> target[d][IndexOf(target[d], e[d][i].name)].kind]
    BY <2>1
  <2>3. d = c /\ k = e[d][i].column /\ x.kind = target[d][IndexOf(target[d], e[d][i].name)].kind
    BY <2>2 DEF New
  <2>4. d \in DOMAIN t /\ i \in DOMAIN t[d] /\ k = i /\ e[d][i].name = t[d][i].name /\ e[d][i].kind = t[d][i].kind
    BY <1>4, <2>1, <2>2, <2>3
  <2>5. QED
    BY <2>1, <2>2, <2>3, <2>4
<1>8. ASSUME NEW c \in DOMAIN target, NEW k \in DOMAIN u[c], NEW i \in DOMAIN target[c],
             u[c][k].name = target[c][i].name
      PROVE  w[c][k] = target[c][i]
  <2>1. c \in DOMAIN u /\ target[c] \in Seq(ColumnType) /\ UniqueNames(target[c])
    BY <1>2, <1>5
  <2>2. target[c][i] \in ColumnType
    BY <2>1, LenProperties, ElementOfSeq
  <2>3. w[c][k] \in ColumnType /\ u[c][k] \in ColumnType
    <3>1. DOMAIN w[c] = DOMAIN u[c]
      BY <1>3, <2>1 DEF ReplacedOf
    <3>2. QED
      BY <1>2, <1>3, <2>1, <3>1, ColumnParts
  <2>4. w[c][k].name = target[c][i].name
    BY <1>6, <1>8, <2>1
  <2>5. w[c][k].kind = target[c][i].kind
    <3>1. CASE c \in DOMAIN t /\ k \in DOMAIN t[c]
      <4>1. t[c][k] = u[c][k] /\ k \in DOMAIN e[c] /\ e[c][k].name = t[c][k].name
            /\ e[c][k].kind = t[c][k].kind /\ e[c][k].column = k
        BY <1>2, <1>4, <3>1 DEF Extends
      <4>2. t[c][k].name \in Names(target[c])
        BY <1>8, <4>1 DEF Names
      <4>3. IndexOf(target[c], t[c][k].name) = i
        <5>1. IndexOf(target[c], t[c][k].name) \in DOMAIN target[c]
              /\ target[c][IndexOf(target[c], t[c][k].name)].name = t[c][k].name
          BY <2>1, <4>2, IndexOfFacts
        <5>2. QED
          BY <1>8, <2>1, <4>1, <5>1 DEF UniqueNames
      <4>4. CASE t[c][k].kind = target[c][i].kind
        <5>1. New(c, k) = {}
          BY <1>7, <4>3, <4>4
        <5>2. QED
          BY <1>6, <2>1, <4>1, <4>4, <5>1
      <4>5. CASE t[c][k].kind # target[c][i].kind
        <5>1. PICK x : x = [class |-> c, at |-> k, kind |-> target[c][i].kind]
          OBVIOUS
        <5>2. x \in ch.replaced
          BY <1>1, <1>4, <3>1, <4>1, <4>2, <4>3, <4>5, <5>1 DEF Compared
        <5>3. New(c, k) # {}
          <6>1. x.class = c /\ x.at = k
            BY <5>1
          <6>2. x \in New(c, k)
            BY <5>2, <6>1 DEF New
          <6>3. QED
            BY <6>2
        <5>4. PICK y \in New(c, k) : w[c][k].kind = y.kind
          BY <1>6, <2>1, <5>3
        <5>5. y.kind = target[c][i].kind
          BY <1>7, <4>3
        <5>6. QED
          BY <5>4, <5>5
      <4>6. QED
        BY <4>4, <4>5
    <3>2. CASE ~(c \in DOMAIN t /\ k \in DOMAIN t[c])
      <4>1. New(c, k) = {}
        BY <1>7, <3>2
      <4>2. w[c][k] = u[c][k]
        BY <1>6, <2>1, <4>1
      <4>3. PICK j \in DOMAIN target[c] : u[c][k] = target[c][j]
        BY <1>2, <2>1, <3>2
      <4>4. j = i
        BY <1>8, <2>1, <4>3 DEF UniqueNames
      <4>5. QED
        BY <4>2, <4>3, <4>4
    <3>3. QED
      BY <3>1, <3>2
  <2>6. QED
    BY <2>2, <2>3, <2>4, <2>5 DEF ColumnType
<1>9. \A c \in DOMAIN u : DOMAIN w[c] = DOMAIN u[c]
  BY <1>3 DEF ReplacedOf
<1>10. QED
  BY <1>3, <1>6, <1>8, <1>9 DEF Takes, target

\* Replacing nothing leaves the tables as they are.
LEMMA ReplacedByNone ==
  ASSUME NEW t \in TablesType, NEW ch, ch.replaced = {}
  PROVE  Replaced(t, ch) = t
<1>1. \A c \in DOMAIN t : t[c] = [i \in DOMAIN t[c] |-> t[c][i]]
  BY TablesParts
<1>2. t = [c \in DOMAIN t |-> t[c]]
  BY TablesParts
<1>3. Replaced(t, ch) = [c \in DOMAIN t |-> [i \in DOMAIN t[c] |-> t[c][i]]]
  BY DEF Replaced
<1>4. QED
  BY <1>1, <1>2, <1>3

\* Removing nothing leaves the tables as they are.
LEMMA ShrunkByNone ==
  ASSUME NEW t \in TablesType, NEW removed,
         \A c \in DOMAIN t : \A i \in DOMAIN t[c] : <<c, i>> \notin removed
  PROVE  Shrunk(t, removed) = t
<1> DEFINE Kept(c) == {i \in DOMAIN t[c] : <<c, i>> \notin removed}
<1>1. \A c \in DOMAIN t : Kept(c) = DOMAIN t[c]
  OBVIOUS
<1>2. Shrunk(t, removed) = [c \in DOMAIN t |-> Subsequence(t[c], Kept(c))]
  BY DEF Shrunk
<1> HIDE DEF Kept
<1>3. \A c \in DOMAIN t : Subsequence(t[c], Kept(c)) = t[c]
  BY <1>1, TablesParts, SubsequenceOfAll
<1>4. t = [c \in DOMAIN t |-> t[c]]
  BY TablesParts
<1>5. QED
  BY <1>2, <1>3, <1>4

\* Of what is removed nothing is in the target.
LEMMA ShrunkTables ==
  ASSUME NEW w \in TablesType, Unambiguous(w), NEW target, NEW removed, Has(target, w),
         \A c \in DOMAIN w : \A k \in DOMAIN w[c] :
           <<c, k>> \in removed => c \in DOMAIN target /\ w[c][k].name \notin Names(target[c])
  PROVE  Unambiguous(Shrunk(w, removed)) /\ Has(target, Shrunk(w, removed))
<1> DEFINE z == Shrunk(w, removed)
           Kept(c) == {k \in DOMAIN w[c] : <<c, k>> \notin removed}
<1>1. DOMAIN z = DOMAIN w /\ \A c \in DOMAIN w : SubsequenceOf(z[c], w[c], Kept(c))
  BY ShrunkFacts DEF ShrunkOf
<1> HIDE DEF z
<1>2. ASSUME NEW c \in DOMAIN w
      PROVE  \E pick \in [DOMAIN z[c] -> Kept(c)] :
               /\ \A k \in DOMAIN z[c] : z[c][k] = w[c][pick[k]]
               /\ \A i \in Kept(c) : \E k \in DOMAIN z[c] : pick[k] = i
               /\ \A k, l \in DOMAIN z[c] : pick[k] = pick[l] => k = l
  <2> HIDE DEF Kept
  <2>1. QED
    BY <1>1 DEF SubsequenceOf
<1>3. Unambiguous(z)
  <2> SUFFICES ASSUME NEW c \in DOMAIN w, NEW k \in DOMAIN z[c], NEW l \in DOMAIN z[c], z[c][k].name = z[c][l].name
               PROVE  k = l
    BY <1>1 DEF Unambiguous, UniqueNames
  <2>1. PICK pick \in [DOMAIN z[c] -> Kept(c)] :
               /\ \A m \in DOMAIN z[c] : z[c][m] = w[c][pick[m]]
               /\ \A m, n \in DOMAIN z[c] : pick[m] = pick[n] => m = n
    BY <1>2
  <2>2. pick[k] \in DOMAIN w[c] /\ pick[l] \in DOMAIN w[c] /\ w[c][pick[k]].name = w[c][pick[l]].name
    BY <2>1
  <2>3. pick[k] = pick[l]
    BY <2>2 DEF Unambiguous, UniqueNames
  <2>4. QED
    BY <2>1, <2>3
<1>4. Has(target, z)
  <2> SUFFICES ASSUME NEW c \in DOMAIN target, NEW i \in DOMAIN target[c]
               PROVE  \E k \in DOMAIN z[c] : z[c][k] = Column(target[c][i])
    BY <1>1 DEF Has
  <2>1. c \in DOMAIN w
    BY DEF Has
  <2>2. PICK l \in DOMAIN w[c] : w[c][l] = Column(target[c][i])
    BY DEF Has
  <2>3. w[c][l].name \in Names(target[c])
    BY <2>2 DEF Column, Names
  <2>4. l \in Kept(c)
    BY <2>1, <2>3
  <2>5. PICK pick \in [DOMAIN z[c] -> Kept(c)] :
               /\ \A m \in DOMAIN z[c] : z[c][m] = w[c][pick[m]]
               /\ \A m \in Kept(c) : \E n \in DOMAIN z[c] : pick[n] = m
    BY <1>2, <2>1
  <2> HIDE DEF Kept
  <2>6. QED
    BY <2>2, <2>4, <2>5
<1>5. QED
  BY <1>3, <1>4 DEF z

\* Whoever applies its changes to the file they were computed from makes a file
\* with all the columns it wants, and erases none unless the log says so.
LEMMA UpdatedTables ==
  ASSUME STypeOK, NEW r \in Realms, NEW t, t = file[Latest].tables, Unambiguous(t),
         actual[r] = SchemaFromGroup(t), CanApply(r), mode = "Additive" => ValidAdditive(Changes(r))
  PROVE  /\ NewTables(r) \in TablesType /\ Unambiguous(NewTables(r)) /\ Has(Target(r), NewTables(r))
         /\ "erase" \notin NewLog(r) => Extends(NewTables(r), t)
         /\ mode = "Additive" => "erase" \notin NewLog(r)
<1> DEFINE target == Target(r)
           ch == Changes(r)
           e == SchemaFromGroup(t)
<1>1. PICK g \in Configs : g = config[ProcessOf[r]]
  BY ConfigFacts
<1>2. target = TargetOf[g] /\ t \in TablesType /\ NewTables(r) \in TablesType
  BY <1>1, LatestType, SnapshotParts, NewTablesFacts DEF Target
<1>3. ch = Compare(e, TargetOf[g]) /\ Compared(ch, e, TargetOf[g])
  BY <1>2, CompareFacts DEF Changes
<1>4. PICK u : u = Grown(t, ch, TargetOf[g])
  OBVIOUS
<1>5. PICK w : w = Replaced(u, ch)
  OBVIOUS
<1>6. /\ NewTables(r) = IF mode = "Additive" \/ ~(CreatesFile(r) \/ Migrates(r)) THEN u
                        ELSE Shrunk(w, ToRemove(r, w))
      /\ "erase" \in NewLog(r) => mode # "Additive" /\ (ch.replaced # {} \/ ch.removed # {})
      /\ mode # "Additive" => (ch.replaced # {} \/ ch.removed # {} => "erase" \in NewLog(r))
  BY <1>2, <1>4, <1>5 DEF NewTables, NewLog, Instructions
<1>7. mode = "Additive" \/ ~(CreatesFile(r) \/ Migrates(r)) => ch.replaced = {}
  BY DEF CanApply, NoMigrationRequired, ValidAdditive
<1> HIDE DEF target, ch, e
<1>8. /\ u \in TablesType /\ DOMAIN u = DOMAIN t \cup DOMAIN TargetOf[g]
      /\ Extends(u, t) /\ Unambiguous(u)
      /\ \A c \in DOMAIN TargetOf[g] : \A i \in DOMAIN TargetOf[g][c] :
           \E k \in DOMAIN u[c] : u[c][k].name = TargetOf[g][c][i].name
      /\ \A c \in DOMAIN u : \A k \in DOMAIN u[c] :
           \/ c \in DOMAIN t /\ k \in DOMAIN t[c]
           \/ c \in DOMAIN TargetOf[g] /\ \E j \in DOMAIN TargetOf[g][c] : u[c][k] = TargetOf[g][c][j]
  BY <1>2, <1>3, <1>4, GrownTables DEF e
<1>9. w \in TablesType /\ Takes(w, u, TargetOf[g])
  BY <1>2, <1>3, <1>4, <1>5, ReplacedTables DEF e
<1>10. \A c \in DOMAIN TargetOf[g] : \A i \in DOMAIN TargetOf[g][c] :
         Column(TargetOf[g][c][i]) = TargetOf[g][c][i]
  <2> SUFFICES ASSUME NEW c \in DOMAIN TargetOf[g], NEW i \in DOMAIN TargetOf[g][c]
               PROVE  Column(TargetOf[g][c][i]) = TargetOf[g][c][i]
    OBVIOUS
  <2>1. TargetOf[g][c] \in Seq(ColumnType)
    BY TargetParts
  <2>2. TargetOf[g][c][i] \in ColumnType
    BY <2>1, LenProperties, ElementOfSeq
  <2>3. QED
    BY <2>2 DEF Column, ColumnType
<1>11. Has(TargetOf[g], w)
  BY <1>8, <1>9, <1>10 DEF Has, Takes
<1>12. Unambiguous(w)
  <2> SUFFICES ASSUME NEW c \in DOMAIN u
               PROVE  UniqueNames(w[c])
    BY <1>9 DEF Unambiguous, Takes
  <2>1. UniqueNames(u[c])
    BY <1>8 DEF Unambiguous
  <2>2. QED
    BY <1>9, <2>1 DEF UniqueNames, Takes
<1>13. ch.replaced = {} => w = u
  BY <1>5, <1>8, ReplacedByNone
<1>14. DOMAIN e = DOMAIN t /\ \A c \in DOMAIN t : /\ DOMAIN e[c] = DOMAIN t[c]
                                               /\ \A k \in DOMAIN t[c] : e[c][k].name = t[c][k].name /\ e[c][k].column = k
  BY <1>2, GroupFacts DEF e
\* What is removed.
<1>15. ASSUME NEW c \in DOMAIN w, NEW k \in DOMAIN w[c], <<c, k>> \in ToRemove(r, w)
       PROVE  /\ c \in DOMAIN TargetOf[g] /\ w[c][k].name \notin Names(TargetOf[g][c])
              /\ ch.removed # {}
  <2>1. CASE CallsMigration(r)
    <3> DEFINE f == SchemaFromGroup(w)
    <3>1. <<c, k>> \in Compare(f, TargetOf[g]).removed
      BY <1>1, <1>15, <2>1 DEF ToRemove, Target
    <3>2. Compared(Compare(f, TargetOf[g]), f, TargetOf[g])
      BY CompareFacts
    <3>3. /\ DOMAIN f = DOMAIN w
          /\ \A d \in DOMAIN w : DOMAIN f[d] = DOMAIN w[d]
          /\ \A d \in DOMAIN w : \A l \in DOMAIN w[d] : f[d][l].name = w[d][l].name /\ f[d][l].column = l
      BY <1>9, GroupFacts
    <3> HIDE DEF f
    <3>4. PICK d \in DOMAIN f \cap DOMAIN TargetOf[g] : \E i \in DOMAIN f[d] :
            f[d][i].name \notin Names(TargetOf[g][d]) /\ <<c, k>> = <<d, f[d][i].column>>
      BY <3>1, <3>2 DEF Compared
    <3>5. PICK i \in DOMAIN f[d] :
            f[d][i].name \notin Names(TargetOf[g][d]) /\ <<c, k>> = <<d, f[d][i].column>>
      BY <3>4
    <3>6. d = c /\ i = k /\ w[c][k].name \notin Names(TargetOf[g][c])
      BY <3>3, <3>4, <3>5
    <3>7. c \in DOMAIN t /\ k \in DOMAIN t[c]
      <4>1. u[c][k].name \notin Names(TargetOf[g][c]) /\ c \in DOMAIN u /\ k \in DOMAIN u[c]
        BY <1>9, <3>6 DEF Takes
      <4>2. \A j \in DOMAIN TargetOf[g][c] : u[c][k] # TargetOf[g][c][j]
        BY <4>1 DEF Names
      <4>3. QED
        BY <1>8, <4>1, <4>2
    <3>8. e[c][k].name \notin Names(TargetOf[g][c]) /\ k \in DOMAIN e[c] /\ c \in DOMAIN e \cap DOMAIN TargetOf[g]
      <4>1. u[c][k] = t[c][k] /\ k \in DOMAIN u[c] /\ c \in DOMAIN u
        BY <1>8, <3>7 DEF Extends
      <4>2. QED
        BY <1>9, <1>14, <3>4, <3>6, <3>7, <4>1 DEF Takes
    <3>9. <<c, e[c][k].column>> \in ch.removed
      BY <1>3, <3>8 DEF Compared
    <3>10. QED
      BY <3>4, <3>6, <3>9
  <2>2. CASE ~CallsMigration(r)
    <3>1. <<c, k>> \in ch.removed
      BY <1>15, <2>2 DEF ToRemove, ch
    <3>2. PICK d \in DOMAIN e \cap DOMAIN TargetOf[g] : \E i \in DOMAIN e[d] :
            e[d][i].name \notin Names(TargetOf[g][d]) /\ <<c, k>> = <<d, e[d][i].column>>
      BY <1>3, <3>1 DEF Compared
    <3>3. PICK i \in DOMAIN e[d] :
            e[d][i].name \notin Names(TargetOf[g][d]) /\ <<c, k>> = <<d, e[d][i].column>>
      BY <3>2
    <3>4. d = c /\ i = k /\ c \in DOMAIN t /\ k \in DOMAIN t[c] /\ t[c][k].name \notin Names(TargetOf[g][c])
      BY <1>14, <3>2, <3>3
    <3>5. w[c][k].name = t[c][k].name
      BY <1>8, <1>9, <3>4 DEF Extends, Takes
    <3>6. QED
      BY <3>1, <3>2, <3>4, <3>5
  <2>3. QED
    BY <2>1, <2>2
<1>16. CASE mode = "Additive" \/ ~(CreatesFile(r) \/ Migrates(r))
  <2>1. NewTables(r) = u /\ w = u
    BY <1>6, <1>7, <1>13, <1>16 DEF ch
  <2>2. QED
    BY <1>2, <1>6, <1>8, <1>11, <2>1 DEF target
<1>17. CASE ~(mode = "Additive" \/ ~(CreatesFile(r) \/ Migrates(r)))
  <2>1. NewTables(r) = Shrunk(w, ToRemove(r, w))
    BY <1>6, <1>17
  <2>2. Unambiguous(NewTables(r)) /\ Has(TargetOf[g], NewTables(r))
    BY <1>9, <1>11, <1>12, <1>15, <2>1, ShrunkTables
  <2>3. ASSUME "erase" \notin NewLog(r)
        PROVE  Extends(NewTables(r), t)
    <3>1. ch.replaced = {} /\ ch.removed = {}
      BY <1>6, <1>17, <2>3 DEF ch
    <3>2. \A c \in DOMAIN w : \A k \in DOMAIN w[c] : <<c, k>> \notin ToRemove(r, w)
      BY <1>15, <3>1
    <3>3. NewTables(r) = u
      BY <1>9, <1>13, <2>1, <3>1, <3>2, ShrunkByNone
    <3>4. QED
      BY <1>8, <3>3
  <2>4. QED
    BY <1>2, <1>17, <2>2, <2>3 DEF target
<1>18. QED
  BY <1>16, <1>17

---------------------------------------------------------------------------------
(* The columns in the history of the file. *)

\* A snapshot that keeps the columns, unless its log says otherwise, keeps the
\* history so.
LEMMA ColumnwiseAppends ==
  ASSUME STypeOK, Columnwise, NEW x, FileKept, Latest' = Latest + 1, file'[Latest + 1] = x, UNCHANGED mode,
         Unambiguous(x.tables),
         "erase" \notin x.log => Extends(x.tables, file[Latest].tables),
         mode = "Additive" => "erase" \notin x.log
  PROVE  Columnwise'
<1>1. PICK n \in Nat : n = Latest
  BY LatestType
<1>2. n \in 1 .. n /\ Latest' = n + 1 /\ file'[n + 1] = x /\ \A s \in 1 .. n : file'[s] = file[s]
  BY <1>1, LatestType DEF FileKept
<1>3. /\ \A s \in 1 .. n : Unambiguous(file[s].tables)
      /\ \A i, j \in 1 .. n : i <= j /\ ~Refused(i, j) => Extends(file[j].tables, file[i].tables)
      /\ mode = "Additive" => \A s \in 1 .. n : "erase" \notin file[s].log
  BY <1>1 DEF Columnwise
<1>4. \A s \in 1 .. n + 1 : s \in 1 .. n \/ s = n + 1
  BY <1>1
<1>5. \A s \in 1 .. n + 1 : Unambiguous(file'[s].tables)
  BY <1>2, <1>3, <1>4
<1>6. mode' = "Additive" => \A s \in 1 .. n + 1 : "erase" \notin file'[s].log
  BY <1>2, <1>3, <1>4
<1>7. \A i, j \in 1 .. n + 1 : Refused(i, j)' <=> \E k \in i + 1 .. j : "erase" \in file'[k].log
  BY DEF Refused, Between
<1>8. \A i, j \in 1 .. n : Refused(i, j) <=> \E k \in i + 1 .. j : "erase" \in file[k].log
  BY DEF Refused, Between
<1>9. ASSUME NEW i \in 1 .. n + 1, NEW j \in 1 .. n + 1, i <= j, ~Refused(i, j)'
      PROVE  Extends(file'[j].tables, file'[i].tables)
  <2>1. CASE i = j
    BY <2>1 DEF Extends
  <2>2. CASE i \in 1 .. n /\ j \in 1 .. n
    <3>1. \A k \in i + 1 .. j : file'[k] = file[k]
      BY <1>1, <1>2, <2>2
    <3>2. ~Refused(i, j)
      BY <1>7, <1>8, <1>9, <2>2, <3>1
    <3>3. QED
      BY <1>2, <1>3, <1>9, <2>2, <3>2
  <2>3. CASE i \in 1 .. n /\ j = n + 1
    <3>1. i <= n /\ n + 1 \in i + 1 .. n + 1 /\ \A k \in i + 1 .. n : k \in i + 1 .. n + 1 /\ k \in 1 .. n
      BY <1>1, <2>3
    <3>2. \A k \in i + 1 .. n : "erase" \notin file[k].log
      BY <1>2, <1>7, <1>9, <2>3, <3>1
    <3>3. ~Refused(i, n)
      BY <1>2, <1>8, <2>3, <3>2
    <3>4. Extends(file[n].tables, file[i].tables)
      BY <1>2, <1>3, <2>3, <3>1, <3>3
    <3>5. "erase" \notin x.log
      BY <1>2, <1>7, <1>9, <2>3, <3>1
    <3>6. Extends(x.tables, file[i].tables)
      BY <1>1, <3>4, <3>5, ExtendsExtends
    <3>7. QED
      BY <1>2, <2>3, <3>6
  <2>4. i = n + 1 => j = n + 1
    BY <1>1, <1>9
  <2>5. QED
    BY <1>4, <2>1, <2>2, <2>3, <2>4
<1>10. QED
  BY <1>2, <1>5, <1>6, <1>9 DEF Columnwise

\* Every step of an instance keeps what the log tells of the columns.
LEMMA KeepsColumnwise ==
  ASSUME STypeOK, SInv, KInv, NEW r \in Realms, Step(r)
  PROVE  Columnwise'
<1>1. Columnwise /\ Reads(r) /\ Standing(r) /\ UNCHANGED mode /\ Latest \in 1 .. Latest
  BY ActorFacts, StepFrame, LatestType DEF KInv
<1>2. CASE CommitUpdate(r)
  <2> DEFINE x == ApplySchemaChanges(r)
  <2>1. x.tables = NewTables(r) /\ x.log = NewLog(r)
    BY DEF ApplySchemaChanges
  <2>2. file' = Append(file, x) /\ pc[r] = "updating" /\ CanApply(r)
    BY <1>2 DEF CommitUpdate
  <2> HIDE DEF x
  <2>3. group[r] = Latest
    BY <1>1, <2>2 DEF Standing, Writing
  <2>4. actual[r] = SchemaFromGroup(file[Latest].tables) /\ (mode = "Additive" => ValidAdditive(Changes(r)))
    BY <1>1, <2>2, <2>3 DEF Reads
  <2>5. Unambiguous(file[Latest].tables)
    BY <1>1 DEF Columnwise
  <2>6. /\ Unambiguous(x.tables)
        /\ "erase" \notin x.log => Extends(x.tables, file[Latest].tables)
        /\ mode = "Additive" => "erase" \notin x.log
    BY <2>1, <2>2, <2>4, <2>5, UpdatedTables
  <2>7. FileKept /\ Latest' = Latest + 1 /\ file'[Latest + 1] = x
    BY <2>2, AppendKeeps
  <2>8. QED
    BY <1>1, <2>6, <2>7, ColumnwiseAppends
<1>3. CASE CommitWrite(r)
  <2> DEFINE x == [file[Latest] EXCEPT !.log = {}]
  <2>1. x.tables = file[Latest].tables /\ x.log = {}
    BY <1>1, LatestType DEF SnapshotType
  <2>2. file' = Append(file, x)
    BY <1>3 DEF CommitWrite
  <2> HIDE DEF x
  <2>3. FileKept /\ Latest' = Latest + 1 /\ file'[Latest + 1] = x
    BY <2>2, AppendKeeps
  <2>4. Unambiguous(x.tables) /\ Extends(x.tables, file[Latest].tables)
    BY <1>1, <2>1 DEF Columnwise, Extends
  <2>5. QED
    BY <1>1, <2>1, <2>3, <2>4, ColumnwiseAppends
<1>4. CASE UNCHANGED file
  BY <1>1, <1>4 DEF Columnwise, Latest, Refused, Between
<1>5. UNCHANGED file \/ CommitUpdate(r) \/ CommitWrite(r)
  BY DEF Step, Open, Use, OpenFromCache, OpenFromFile, CacheConstructed, AlignWithThread,
    AlignWithFile, BeginUpdate, UpdateFails, FinishUpdate, CacheNewSchema, BeginRead, Refresh,
    BeginWrite, CancelWrite, Invalidate, Release
<1>6. QED
  BY <1>2, <1>3, <1>4, <1>5

---------------------------------------------------------------------------------
(* What the instances know, after a step. *)

\* A step of one instance leaves the schemas of the others alone.
LEMMA SchemaFrame ==
  ASSUME STypeOK, NEW r \in Realms, Step(r)
  PROVE  \A q \in Realms \ {r} : schema'[q] = schema[q] /\ actual'[q] = actual[q]
<1>1. DOMAIN schema = Realms /\ DOMAIN actual = Realms
  BY DEF STypeOK
<1>2. ASSUME Gone(r)
      PROVE  \A q \in Realms \ {r} : schema'[q] = schema[q] /\ actual'[q] = actual[q]
  BY <1>1, <1>2 DEF Gone
<1>3. ASSUME NEW s, Opened(r, s)
      PROVE  \A q \in Realms \ {r} : schema'[q] = schema[q] /\ actual'[q] = actual[q]
  BY <1>1, <1>3 DEF Opened
<1>4. ASSUME NEW dynamic, Advance(r, dynamic)
      PROVE  \A q \in Realms \ {r} : schema'[q] = schema[q]
  BY <1>1, <1>4 DEF Advance
<1>5. CASE OpenFromCache(r)
  BY <1>1, <1>5 DEF OpenFromCache
<1>6. CASE OpenFromFile(r)
  BY <1>1, <1>6 DEF OpenFromFile
<1>7. CASE CacheConstructed(r)
  BY <1>7 DEF CacheConstructed
<1>8. CASE AlignWithThread(r)
  <2>1. Gone(r) \/ \E s : Opened(r, s)
    BY <1>8 DEF AlignWithThread
  <2>2. QED
    BY <1>2, <1>3, <2>1
<1>9. CASE AlignWithFile(r)
  <2>1. \/ Gone(r) \/ \E s : Opened(r, s)
        \/ \E s : schema' = [schema EXCEPT ![r] = s] /\ actual' = [actual EXCEPT ![r] = s]
    BY <1>9 DEF AlignWithFile
  <2>2. CASE \E s : schema' = [schema EXCEPT ![r] = s] /\ actual' = [actual EXCEPT ![r] = s]
    BY <1>1, <2>2
  <2>3. QED
    BY <1>2, <1>3, <2>1, <2>2
<1>10. CASE BeginUpdate(r)
  <2>1. \/ Gone(r)
        \/ Advance(r, TRUE) /\ (actual' = actual \/ \E s : actual' = [actual EXCEPT ![r] = s])
    BY <1>10 DEF BeginUpdate
  <2>2. CASE Advance(r, TRUE) /\ (actual' = actual \/ \E s : actual' = [actual EXCEPT ![r] = s])
    BY <1>1, <1>4, <2>2
  <2>3. QED
    BY <1>2, <2>1, <2>2
<1>11. CASE CommitUpdate(r) \/ CommitWrite(r) \/ CancelWrite(r) \/ Invalidate(r)
  BY <1>11 DEF CommitUpdate, CommitWrite, CancelWrite, Invalidate
<1>12. CASE UpdateFails(r) \/ Release(r)
  BY <1>2, <1>12 DEF UpdateFails, Release
<1>13. CASE FinishUpdate(r)
  <2>1. \E s : Opened(r, s)
    BY <1>13 DEF FinishUpdate
  <2>2. QED
    BY <1>3, <2>1
<1>14. CASE CacheNewSchema(r)
  <2>1. (\E s : Opened(r, s)) \/ UNCHANGED <<schema, actual>>
    BY <1>14 DEF CacheNewSchema
  <2>2. QED
    BY <1>3, <2>1
<1>15. CASE BeginRead(r)
  <2>1. Gone(r) \/ (actual' = actual /\ (schema' = schema \/ \E s : schema' = [schema EXCEPT ![r] = s]))
    BY <1>15 DEF BeginRead
  <2>2. CASE actual' = actual /\ (schema' = schema \/ \E s : schema' = [schema EXCEPT ![r] = s])
    BY <1>1, <2>2
  <2>3. QED
    BY <1>2, <2>1, <2>2
<1>16. CASE Refresh(r) \/ BeginWrite(r)
  <2>1. Advance(r, FALSE) /\ actual' = actual
    BY <1>16 DEF Refresh, BeginWrite
  <2>2. QED
    BY <1>4, <2>1
<1>17. QED
  BY <1>5, <1>6, <1>7, <1>8, <1>9, <1>10, <1>11, <1>12, <1>13, <1>14, <1>15, <1>16 DEF Step, Open, Use

\* What another instance knows is still so.
LEMMA KeepsColumnsOfOthers ==
  ASSUME STypeOK, SInv, KInv, NEW r \in Realms, Step(r), NEW q \in Realms \ {r}
  PROVE  Reads(q)' /\ Holds(q)'
<1>1. /\ SameInstance(q) /\ schema'[q] = schema[q] /\ actual'[q] = actual[q] /\ UNCHANGED <<mode, config>>
      /\ FileKept
  BY StepFrame, StepFile, SchemaFrame
<1>2. Reads(q) /\ Holds(q) /\ Standing(q) /\ Latest \in Nat /\ group[q] \in Nat /\ transaction[q] \in Nat
      /\ pc[q] \in Locations
  BY ActorFacts DEF KInv
<1>3. pc[q] # "closed" => transaction[q] \in 1 .. Latest /\ At(q) \in 1 .. Latest
  BY <1>2 DEF Standing, At
<1>4. pc[q] \in {"waiting", "rechecked", "satisfied", "updating", "updated", "finishing"} =>
        group[q] \in 1 .. Latest
  BY <1>2 DEF Standing, Uncached
<1>5. At(q)' = At(q) /\ pc'[q] = pc[q] /\ group'[q] = group[q] /\ transaction'[q] = transaction[q]
  BY <1>1 DEF SameInstance, At
<1>6. Fresh(q)' = Fresh(q) /\ Changes(q)' = Changes(q)
  BY <1>1 DEF Fresh, Changes, Target
<1>7. pc[q] # "closed" => file'[transaction[q]] = file[transaction[q]] /\ file'[At(q)] = file[At(q)]
  BY <1>1, <1>3 DEF FileKept
<1>8. pc[q] \in {"waiting", "rechecked", "satisfied", "updating", "updated", "finishing"} =>
        file'[group[q]] = file[group[q]]
  BY <1>1, <1>4 DEF FileKept
<1>9. Holds(q)'
  <2>1. "closed" \notin Cached
    BY DEF Cached
  <2>2. QED
    BY <1>1, <1>2, <1>5, <1>7, <2>1 DEF Holds
<1>10. Reads(q)'
  <2>1. pc[q] \in {"constructed", "aligning"} => schema'[q] = SchemaFromGroup(file'[transaction'[q]].tables)
    BY <1>1, <1>2, <1>5, <1>7 DEF Reads
  <2>2. pc[q] \in {"waiting", "rechecked", "satisfied", "updating"} =>
          actual'[q] = SchemaFromGroup(file'[group'[q]].tables)
    BY <1>1, <1>2, <1>5, <1>8 DEF Reads
  <2>3. pc[q] \in {"waiting", "rechecked", "updating"} /\ mode' = "Additive" => ValidAdditive(Changes(q)')
    BY <1>1, <1>2, <1>6 DEF Reads
  <2>4. pc[q] \in {"satisfied", "updated", "finishing"} => Has(Fresh(q)', file'[group'[q]].tables)
    BY <1>2, <1>5, <1>6, <1>8 DEF Reads
  <2>5. QED
    BY <1>5, <2>1, <2>2, <2>3, <2>4 DEF Reads, ValidAdditive
<1>11. QED
  BY <1>9, <1>10

\* The schema that is wanted, with the columns found, is alike what the
\* configuration says.
LEMMA FreshFacts ==
  ASSUME STypeOK, NEW r \in Realms
  PROVE  /\ IsSchema(Fresh(r)) /\ Alike(Fresh(r), Target(r))
         /\ Listed(Target(r), ColumnType)
<1> DEFINE target == Target(r)
           Prop(c, i) == [name |-> target[c][i].name, kind |-> target[c][i].kind, column |-> 0]
           s == Fresh(r)
<1>1. \A c \in DOMAIN target : target[c] \in Seq(ColumnType) /\ UniqueNames(target[c])
  BY ConfigFacts, TargetParts DEF Target
<1>2. s = [c \in DOMAIN target |-> [i \in DOMAIN target[c] |-> Prop(c, i)]]
  BY DEF Fresh
<1> HIDE DEF s, target
<1>3. \A c \in DOMAIN target : \A i \in DOMAIN target[c] : target[c][i] \in ColumnType
  BY <1>1, LenProperties, ElementOfSeq
<1>4. \A c \in DOMAIN target : \A i \in DOMAIN target[c] :
        /\ Prop(c, i) \in PropertyType /\ Prop(c, i).name = target[c][i].name
        /\ Column(Prop(c, i)) = Column(target[c][i])
  BY <1>3 DEF ColumnType, PropertyType, Column
<1> HIDE DEF Prop
<1>5. DOMAIN s = DOMAIN target /\ \A c \in DOMAIN target : DOMAIN s[c] = DOMAIN target[c]
      /\ \A i \in DOMAIN target[c] : s[c][i] = Prop(c, i)
  BY <1>2
<1>6. Alike(s, target)
  BY <1>4, <1>5 DEF Alike
<1>7. IsSchema(s)
  <2> SUFFICES ASSUME NEW c \in DOMAIN target
               PROVE  s[c] \in Seq(PropertyType) /\ UniqueNames(s[c])
    BY <1>5 DEF IsSchema
  <2>1. Len(target[c]) \in Nat /\ DOMAIN target[c] = 1 .. Len(target[c])
    BY <1>1, LenProperties
  <2>2. s[c] = [i \in 1 .. Len(target[c]) |-> Prop(c, i)] /\ \A i \in 1 .. Len(target[c]) : Prop(c, i) \in PropertyType
    BY <1>2, <1>4, <2>1
  <2>3. s[c] \in Seq(PropertyType)
    BY <2>1, <2>2
  <2>4. UniqueNames(target[c])
    BY <1>1
  <2>5. UniqueNames(s[c])
    BY <1>4, <1>5, <2>4 DEF UniqueNames
  <2>6. QED
    BY <2>3, <2>5
<1>8. QED
  BY <1>1, <1>6, <1>7 DEF s, target, Listed

\* What the history keeps of what a schema finds in a snapshot.
LEMMA LaterSnapshots ==
  ASSUME STypeOK, SInv, KInv
  PROVE  /\ \A s \in 1 .. Latest : file[s].tables \in TablesType /\ Unambiguous(file[s].tables)
         /\ \A s : \A i, j \in 1 .. Latest : i <= j /\ Has(s, file[i].tables) =>
              /\ DOMAIN s \subseteq DOMAIN file[j].tables
              /\ mode = "Additive" => Has(s, file[j].tables)
<1>1. /\ \A s \in 1 .. Latest : Unambiguous(file[s].tables)
      /\ \A i, j \in 1 .. Latest : i <= j /\ ~Refused(i, j) => Extends(file[j].tables, file[i].tables)
      /\ mode = "Additive" => \A s \in 1 .. Latest : "erase" \notin file[s].log
      /\ \A i, j \in 1 .. Latest : i <= j => DOMAIN file[i].tables \subseteq DOMAIN file[j].tables
  BY DEF KInv, Columnwise, SInv, History
<1>2. \A s \in 1 .. Latest : file[s].tables \in TablesType
  BY LatestType, SnapshotParts
<1>3. ASSUME NEW s, NEW i \in 1 .. Latest, NEW j \in 1 .. Latest, i <= j, Has(s, file[i].tables)
      PROVE  /\ DOMAIN s \subseteq DOMAIN file[j].tables
             /\ mode = "Additive" => Has(s, file[j].tables)
  <2>1. DOMAIN s \subseteq DOMAIN file[j].tables
    BY <1>1, <1>3 DEF Has
  <2>2. ASSUME mode = "Additive"
        PROVE  Has(s, file[j].tables)
    <3>1. \A k \in i + 1 .. j : k \in 1 .. Latest
      BY LatestType
    <3>2. ~Refused(i, j)
      BY <1>1, <2>2, <3>1 DEF Refused, Between
    <3>3. QED
      BY <1>1, <1>3, <3>2, HasExtends
  <2>3. QED
    BY <2>1, <2>2
<1>4. QED
  BY <1>1, <1>2, <1>3

\* What the answer to the question what is to be done says of the changes.
LEMMA AnswerMeans ==
  ASSUME NEW r, NEW v, NEW ch
  PROVE  /\ Verdict(r, v, ch) = "no" => ch.tables = {} /\ NoProperties(ch) /\ ValidAdditive(ch)
         /\ Verdict(r, v, ch) = "yes" /\ mode = "Additive" => ValidAdditive(ch)
<1>1. CASE Wanted(r) = v /\ NoChanges(ch)
  <2>1. ch.tables = {} /\ NoProperties(ch) /\ ValidAdditive(ch)
    BY <1>1 DEF NoChanges, ValidAdditive
  <2>2. QED
    BY <2>1
<1>2. CASE ~(Wanted(r) = v /\ NoChanges(ch)) /\ mode = "Automatic"
  <2>1. Verdict(r, v, ch) = IF Wanted(r) < v /\ v # NotVersioned THEN "throws" ELSE "yes"
    BY <1>2 DEF Verdict
  <2>2. QED
    BY <1>2, <2>1
<1>3. CASE ~(Wanted(r) = v /\ NoChanges(ch)) /\ mode # "Automatic"
  BY <1>3 DEF Verdict
<1>4. QED
  BY <1>1, <1>2, <1>3

\* What an answer to the question what is to be done says of the file.
LEMMA AnswerFacts ==
  ASSUME STypeOK, NEW r \in Realms, NEW t \in TablesType, NEW v, NEW answer,
         answer = Verdict(r, v, Compare(SchemaFromGroup(t), Target(r)))
  PROVE  /\ answer = "no" => Has(Fresh(r), t)
         /\ answer = "yes" /\ mode = "Additive" => ValidAdditive(Compare(SchemaFromGroup(t), Target(r)))
<1>1. PICK ch : ch = Compare(SchemaFromGroup(t), Target(r))
  OBVIOUS
<1>2. /\ answer = "no" => ch.tables = {} /\ NoProperties(ch) /\ ch.replaced = {}
      /\ answer = "yes" /\ mode = "Additive" => ValidAdditive(ch)
  BY <1>1, AnswerMeans DEF ValidAdditive
<1>3. ASSUME answer = "no"
      PROVE  Has(Fresh(r), t)
  <2>1. ch.tables = DOMAIN Target(r) \ DOMAIN SchemaFromGroup(t)
    BY <1>1 DEF Compare
  <2>2. DOMAIN Target(r) \subseteq DOMAIN t
    BY <1>2, <1>3, <2>1, GroupFacts
  <2>3. Listed(Target(r), ColumnType) /\ Alike(Fresh(r), Target(r))
    BY FreshFacts
  <2>4. Has(Target(r), t)
    BY <1>1, <1>2, <1>3, <2>2, <2>3, NothingMissing
  <2>5. QED
    BY <2>3, <2>4, AlikeHas
<1>4. QED
  BY <1>1, <1>2, <1>3

\* A schema that takes the columns of a file that has all its properties.
LEMMA TakenFacts ==
  ASSUME NEW s, IsSchema(s), NEW t \in TablesType, Unambiguous(t), Has(s, t),
         NEW u, u = CopyTableColumns(s, SchemaFromGroup(t))
  PROVE  IsSchema(u) /\ Fits(u, t) /\ Has(u, t) /\ Alike(u, s)
<1>1. IsSchema(u) /\ Alike(u, s) /\ Fits(u, t)
  BY CopyFacts
<1>2. QED
  BY <1>1, FitsHas

\* Who begins to open has seen the classes of those that are open.
LEMMA OpensCovering ==
  ASSUME STypeOK, SInv, KInv, NEW r \in Realms, OpenFromCache(r) \/ OpenFromFile(r)
  PROVE  Covers(r)' /\ Reads(r)'
<1>1. /\ file' = file /\ mode' = mode /\ CanOpen(r)
      /\ \A q \in Siblings(r) : pc'[q] = pc[q] /\ schema'[q] = schema[q]
  BY SchemaFrame, StepFrame DEF Step, Open, OpenFromCache, OpenFromFile, SameInstance, Siblings
<1>2. Reliable(ProcessOf[r]) /\ Latest \in 1 .. Latest /\ Latest \in Nat
  BY <1>1, OpensReliably, LatestType
<1>3. PICK m : m = transaction'[r]
  OBVIOUS
<1>4. /\ m \in 1 .. Latest /\ pc'[r] \in {"constructed", "aligning"}
      /\ schema'[r] = SchemaFromGroup(file[m].tables)
      /\ m = Latest \/ (Cache(r).snapshot # 0 /\ m = Cache(r).max)
  <2>1. CASE OpenFromCache(r)
    <3>1. Cache(r).snapshot # 0
      BY <2>1 DEF OpenFromCache
    <3>2. Cache(r).max \in 1 .. Latest /\ file[Cache(r).snapshot].tables = file[Cache(r).max].tables
      BY <1>2, <3>1, CacheIsOfMax
    <3>3. pc'[r] = "aligning" /\ schema'[r] = SchemaFromGroup(file[Cache(r).snapshot].tables)
          /\ transaction'[r] = Cache(r).max
      BY <2>1 DEF OpenFromCache, STypeOK
    <3>4. QED
      BY <1>3, <3>1, <3>2, <3>3
  <2>2. CASE OpenFromFile(r)
    BY <1>2, <1>3, <2>2 DEF OpenFromFile, STypeOK
  <2>3. QED
    BY <2>1, <2>2
<1>5. Reads(r)'
  BY <1>1, <1>3, <1>4 DEF Reads
<1>6. ASSUME NEW q \in Siblings(r), pc[q] \in Cached
      PROVE  /\ DOMAIN schema[q] \subseteq DOMAIN file[m].tables
             /\ mode = "Additive" => Has(schema[q], file[m].tables)
  <2>1. q \in Realms /\ ProcessOf[q] = ProcessOf[r] /\ pc[q] \notin {"closed", "constructed"}
    BY <1>6 DEF Siblings, Cached
  <2>2. Holds(q) /\ Standing(q) /\ History
    BY <2>1, ActorFacts DEF KInv
  <2>3. Has(schema[q], file[transaction[q]].tables) /\ transaction[q] \in 1 .. Latest
    BY <1>6, <2>1, <2>2 DEF Holds, Standing
  <2>4. PICK i \in 1 .. Latest : i <= m /\ Has(schema[q], file[i].tables)
    <3>1. CASE m = Latest
      BY <1>2, <2>3, <3>1
    <3>2. CASE Cache(r).snapshot # 0 /\ m = Cache(r).max
      <4>1. Cache(q) = Cache(r) /\ Reliable(ProcessOf[q])
        BY <1>2, <2>1 DEF Cache
      <4>2. PICK i \in 1 .. transaction[q] : Quiet(i, transaction[q]) /\ i <= Cache(q).max
        BY <2>1, <3>2, <4>1, RangesMeet
      <4>3. i \in 1 .. Latest /\ i <= transaction[q]
        BY <1>2, <2>3
      <4>4. file[i].tables = file[transaction[q]].tables
        BY <2>2, <2>3, <4>2, <4>3 DEF History
      <4>5. QED
        BY <2>3, <3>2, <4>1, <4>2, <4>3, <4>4
    <3>3. QED
      BY <1>4, <3>1, <3>2
  <2>5. QED
    BY <1>4, <2>4, LaterSnapshots
<1>7. Covers(r)'
  BY <1>1, <1>3, <1>6 DEF Covers, Siblings
<1>8. QED
  BY <1>5, <1>7

\* A released instance knows nothing.
LEMMA GoneKnows ==
  ASSUME STypeOK, NEW r \in Realms, Gone(r)
  PROVE  Reads(r)' /\ Holds(r)' /\ Covers(r)'
<1>1. pc'[r] = "closed"
  BY DEF Gone, STypeOK
<1>2. QED
  BY <1>1 DEF Reads, Holds, Covers, Cached

\* What makes an instance that has just been opened know the file.
LEMMA OpenedKnows ==
  ASSUME STypeOK, NEW r \in Realms, NEW s, Opened(r, s), UNCHANGED file,
         NEW t, t = transaction'[r], IsSchema(s), Fits(s, file[t].tables), Has(s, file[t].tables)
  PROVE  Reads(r)' /\ Holds(r)' /\ Covers(r)'
<1>1. pc'[r] = "open" /\ group'[r] = 0 /\ schema'[r] = s
  BY DEF Opened, STypeOK
<1>2. At(r)' = t
  BY <1>1 DEF At
<1>3. Holds(r)'
  BY <1>1, <1>2 DEF Holds
<1>4. QED
  BY <1>1, <1>3 DEF Reads, Covers

\* An open instance that moved within the file, or took the columns of another
\* snapshot.
LEMMA CachedKnows ==
  ASSUME NEW r \in Realms, pc'[r] \in Cached, IsSchema(schema'[r]),
         NEW i, i = transaction'[r], NEW j, j = At(r)',
         Fits(schema'[r], file'[j].tables), Has(schema'[r], file'[i].tables)
  PROVE  Reads(r)' /\ Holds(r)' /\ Covers(r)'
<1>1. Holds(r)'
  BY DEF Holds
<1>2. QED
  BY <1>1 DEF Reads, Covers, Cached

\* The snapshots of the file.
LEMMA TablesOf ==
  ASSUME STypeOK, SInv, KInv, NEW s \in 1 .. Latest
  PROVE  file[s].tables \in TablesType /\ Unambiguous(file[s].tables)
<1>1. file[s].tables \in TablesType
  BY LatestType, SnapshotParts
<1>2. Unambiguous(file[s].tables)
  BY DEF KInv, Columnwise
<1>3. QED
  BY <1>1, <1>2

\* After its construction was cached an instance knows its file.
LEMMA KnowsOfConstructed ==
  ASSUME STypeOK, SInv, KInv, NEW r \in Realms, CacheConstructed(r)
  PROVE  Reads(r)' /\ Holds(r)' /\ Covers(r)'
<1>1. pc[r] = "constructed" /\ pc'[r] = "aligning" /\ UNCHANGED <<file, mode, schema, transaction>>
      /\ \A q \in Realms \ {r} : pc'[q] = pc[q]
  BY DEF CacheConstructed, STypeOK
<1>2. Reads(r) /\ Covers(r)
  BY DEF KInv
<1>3. Reads(r)'
  BY <1>1, <1>2 DEF Reads
<1>4. Holds(r)'
  BY <1>1 DEF Holds, Cached
<1>5. Covers(r)'
  BY <1>1, <1>2 DEF Covers, Siblings
<1>6. QED
  BY <1>3, <1>4, <1>5

\* Aligned with another instance of its thread an instance knows its file.
LEMMA KnowsOfThread ==
  ASSUME STypeOK, SInv, KInv, NEW r \in Realms, AlignWithThread(r)
  PROVE  Reads(r)' /\ Holds(r)' /\ Covers(r)'
<1> DEFINE i == transaction[r]
           t == file[i].tables
<1>1. Reads(r) /\ Covers(r) /\ i \in 1 .. Latest /\ pc[r] = "aligning"
  BY ActorFacts DEF KInv, Standing, AlignWithThread
<1>2. schema[r] = SchemaFromGroup(t) /\ t \in TablesType /\ Unambiguous(t)
  BY <1>1, TablesOf DEF Reads
<1>3. mode \in {"Automatic", "Additive"}
  BY ConfigFacts DEF STypeOK
<1>4. PICK q \in Siblings(r) :
        /\ pc[q] \in Cached
        /\ LET changes == Compare(schema[r], schema[q])
               fits == IF mode = "Automatic" THEN NoMigrationRequired(changes)
                       ELSE ValidAdditive(changes)
           IN IF fits
              THEN /\ Opened(r, CopyTableColumns(schema[q], schema[r]))
                   /\ UNCHANGED <<file, mode, config, cache, version, transaction, newSchema>>
              ELSE Gone(r)
  BY DEF AlignWithThread
<1>5. CASE Gone(r)
  BY <1>5, GoneKnows
<1>6. CASE ~Gone(r)
  <2>1. /\ mode = "Automatic" => NoMigrationRequired(Compare(schema[r], schema[q]))
        /\ Opened(r, CopyTableColumns(schema[q], schema[r])) /\ UNCHANGED <<file, transaction>>
    BY <1>4, <1>6
  <2>2. q \in Realms /\ Holds(q)
    BY DEF Siblings, KInv
  <2>3. IsSchema(schema[q])
    BY <1>4, <2>2 DEF Holds
  <2>4. DOMAIN schema[q] \subseteq DOMAIN t /\ (mode = "Additive" => Has(schema[q], t))
    BY <1>1, <1>4 DEF Covers
  <2>5. Has(schema[q], t)
    <3>1. CASE mode = "Automatic"
      <4>1. PICK ch : ch = Compare(SchemaFromGroup(t), schema[q])
        OBVIOUS
      <4>2. NoProperties(ch) /\ ch.replaced = {}
        BY <1>2, <2>1, <3>1, <4>1 DEF NoMigrationRequired
      <4>3. Listed(schema[q], PropertyType)
        BY <2>3 DEF Listed, IsSchema
      <4>4. QED
        BY <1>2, <2>4, <4>1, <4>2, <4>3, NothingMissing
    <3>2. QED
      BY <1>3, <2>4, <3>1
  <2>6. PICK u : u = CopyTableColumns(schema[q], SchemaFromGroup(t))
    OBVIOUS
  <2>7. IsSchema(u) /\ Fits(u, t) /\ Has(u, t)
    BY <1>2, <2>3, <2>5, <2>6, TakenFacts
  <2>8. Opened(r, u) /\ i = transaction'[r]
    BY <1>2, <2>1, <2>6
  <2>9. QED
    BY <2>1, <2>7, <2>8, OpenedKnows
<1>7. QED
  BY <1>5, <1>6

\* What makes an instance that waits for the lock, or holds it, know what it has to do.
LEMMA WaitingKnows ==
  ASSUME NEW r \in Realms, UNCHANGED <<file, mode, config>>, NEW g, g = group'[r],
         pc'[r] \in {"waiting", "rechecked", "satisfied", "updating"},
         actual'[r] = SchemaFromGroup(file[g].tables),
         pc'[r] # "satisfied" /\ mode = "Additive" =>
           ValidAdditive(Compare(SchemaFromGroup(file[g].tables), Target(r))),
         pc'[r] = "satisfied" => Has(Fresh(r), file[g].tables)
  PROVE  Reads(r)' /\ Holds(r)' /\ Covers(r)'
<1>1. Target(r)' = Target(r) /\ Fresh(r)' = Fresh(r)
  BY DEF Target, Fresh
<1>2. Changes(r)' = Compare(SchemaFromGroup(file[g].tables), Target(r))
  BY <1>1 DEF Changes
<1>3. Reads(r)'
  BY <1>1, <1>2 DEF Reads, ValidAdditive
<1>4. QED
  BY <1>3 DEF Holds, Covers, Cached

\* Aligned with the file an instance knows it.
LEMMA KnowsOfFile ==
  ASSUME STypeOK, SInv, KInv, NEW r \in Realms, AlignWithFile(r)
  PROVE  Reads(r)' /\ Holds(r)' /\ Covers(r)'
<1>1. PICK n \in 1 .. Latest : n = Latest
  BY LatestType
<1>2. PICK t \in TablesType : t = file[n].tables /\ Unambiguous(t)
  BY TablesOf
<1>3. PICK seen : seen = IF transaction[r] # Latest THEN SchemaFromGroup(file[Latest].tables) ELSE schema[r]
  OBVIOUS
<1>4. seen = SchemaFromGroup(t)
  BY <1>1, <1>2, <1>3 DEF KInv, Reads, AlignWithFile
<1>5. PICK known : known = IF transaction[r] # Latest THEN file[Latest].version ELSE version[r]
  OBVIOUS
<1>6. PICK answer : answer = Verdict(r, known, Compare(SchemaFromGroup(t), Target(r)))
  OBVIOUS
<1>7. /\ UNCHANGED <<file, mode, config>>
      /\ \/ Gone(r)
         \/ answer = "no" /\ Opened(r, SetSchema(r, seen)) /\ transaction' = [transaction EXCEPT ![r] = Latest]
         \/ /\ answer = "yes" /\ pc' = [pc EXCEPT ![r] = "waiting"]
            /\ group' = [group EXCEPT ![r] = Latest] /\ actual' = [actual EXCEPT ![r] = seen]
  BY <1>3, <1>4, <1>5, <1>6 DEF AlignWithFile
<1>8. /\ answer = "no" => Has(Fresh(r), t)
      /\ answer = "yes" /\ mode = "Additive" => ValidAdditive(Compare(SchemaFromGroup(t), Target(r)))
  BY <1>6, AnswerFacts
<1>9. CASE Gone(r)
  BY <1>9, GoneKnows
<1>10. CASE answer = "no" /\ Opened(r, SetSchema(r, seen)) /\ transaction' = [transaction EXCEPT ![r] = Latest]
  <2>1. PICK u : u = CopyTableColumns(Fresh(r), SchemaFromGroup(t))
    OBVIOUS
  <2>2. IsSchema(Fresh(r)) /\ Has(Fresh(r), t)
    BY <1>8, <1>10, FreshFacts
  <2>3. IsSchema(u) /\ Fits(u, t) /\ Has(u, t)
    BY <1>2, <2>1, <2>2, TakenFacts
  <2>4. Opened(r, u) /\ n = transaction'[r]
    BY <1>1, <1>4, <1>10, <2>1 DEF SetSchema, STypeOK
  <2>5. QED
    BY <1>2, <1>7, <2>3, <2>4, OpenedKnows
<1>11. CASE /\ answer = "yes" /\ pc' = [pc EXCEPT ![r] = "waiting"]
            /\ group' = [group EXCEPT ![r] = Latest] /\ actual' = [actual EXCEPT ![r] = seen]
  <2>1. pc'[r] = "waiting" /\ group'[r] = n /\ actual'[r] = SchemaFromGroup(t)
    BY <1>1, <1>4, <1>11 DEF STypeOK
  <2>2. mode = "Additive" => ValidAdditive(Compare(SchemaFromGroup(t), Target(r)))
    BY <1>8, <1>11
  <2>3. QED
    BY <1>2, <1>7, <2>1, <2>2, WaitingKnows
<1>12. QED
  BY <1>7, <1>9, <1>10, <1>11

\* The tables of the snapshots between which nobody is told of a change.
LEMMA QuietTables ==
  ASSUME STypeOK, SInv, NEW i \in 1 .. Latest, NEW j \in 1 .. Latest, i <= j, ~Told(i, j)
  PROVE  file[i].tables = file[j].tables
<1>1. Quiet(i, j)
  BY LatestType, NotToldIsQuiet
<1>2. QED
  BY <1>1 DEF SInv, History

\* Beginning an update an instance knows what it is about to change.
LEMMA KnowsOfBeginUpdate ==
  ASSUME STypeOK, SInv, KInv, NEW r \in Realms, BeginUpdate(r)
  PROVE  Reads(r)' /\ Holds(r)' /\ Covers(r)'
<1>1. PICK n \in 1 .. Latest : n = Latest
  BY LatestType
<1>2. PICK t \in TablesType : t = file[n].tables /\ Unambiguous(t)
  BY TablesOf
<1>3. PICK i : i = group[r]
  OBVIOUS
<1>4. pc[r] = "waiting" /\ i \in 1 .. Latest /\ i <= n
  BY <1>1, <1>3, ActorFacts DEF BeginUpdate, Standing
<1>5. /\ actual[r] = SchemaFromGroup(file[i].tables)
      /\ mode = "Additive" => ValidAdditive(Compare(SchemaFromGroup(file[i].tables), Target(r)))
  BY <1>3, <1>4 DEF KInv, Reads, Changes
<1>6. PICK told \in BOOLEAN : told = Told(i, n)
  BY DEF Told
<1>7. PICK answer : answer = Verdict(r, file[n].version, Compare(SchemaFromGroup(t), Target(r)))
  OBVIOUS
<1>8. /\ answer = "no" => Has(Fresh(r), t)
      /\ answer = "yes" /\ mode = "Additive" => ValidAdditive(Compare(SchemaFromGroup(t), Target(r)))
  BY <1>7, AnswerFacts
<1>9. answer \in {"no", "yes", "throws"}
  BY <1>7 DEF Verdict
<1>10. PICK verdict : verdict = IF told THEN answer ELSE "yes"
  OBVIOUS
<1>11. /\ UNCHANGED <<file, mode, config>>
       /\ \/ Gone(r)
          \/ /\ verdict # "throws" /\ Advance(r, TRUE)
             /\ actual' = IF told THEN [actual EXCEPT ![r] = SchemaFromGroup(t)] ELSE actual
             /\ pc' = [pc EXCEPT ![r] = IF verdict = "no" THEN "satisfied" ELSE "rechecked"]
  BY <1>1, <1>2, <1>3, <1>6, <1>7, <1>10 DEF BeginUpdate
<1>12. CASE Gone(r)
  BY <1>12, GoneKnows
<1>13. CASE ~Gone(r)
  <2>1. /\ group'[r] = n /\ pc'[r] = IF verdict = "no" THEN "satisfied" ELSE "rechecked"
        /\ told => actual'[r] = SchemaFromGroup(t)
        /\ ~told => actual'[r] = actual[r]
        /\ verdict # "throws"
    BY <1>1, <1>11, <1>13 DEF Advance, STypeOK
  <2>2. ~told => file[i].tables = t
    BY <1>1, <1>2, <1>4, <1>6, QuietTables
  <2>3. actual'[r] = SchemaFromGroup(t)
    BY <1>5, <2>1, <2>2
  <2>4. pc'[r] # "satisfied" /\ mode = "Additive" => ValidAdditive(Compare(SchemaFromGroup(t), Target(r)))
    BY <1>5, <1>8, <1>9, <1>10, <2>1, <2>2
  <2>5. pc'[r] = "satisfied" => Has(Fresh(r), t)
    BY <1>8, <1>10, <2>1
  <2>6. QED
    BY <1>2, <1>11, <2>1, <2>3, <2>4, <2>5, WaitingKnows
<1>14. QED
  BY <1>12, <1>13

\* Having committed an update an instance knows its file.
LEMMA KnowsOfCommitUpdate ==
  ASSUME STypeOK, SInv, KInv, NEW r \in Realms, CommitUpdate(r)
  PROVE  Reads(r)' /\ Holds(r)' /\ Covers(r)'
<1>1. pc[r] = "updating" /\ pc'[r] = "updated" /\ CanApply(r) /\ file' = Append(file, ApplySchemaChanges(r))
      /\ group'[r] = Latest + 1 /\ UNCHANGED <<mode, config>>
  BY DEF CommitUpdate, STypeOK
<1>2. Latest \in 1 .. Latest /\ Latest \in Nat /\ group[r] = Latest
  BY <1>1, ActorFacts, LatestType DEF Standing, Writing
<1>3. PICK t \in TablesType : t = file[Latest].tables /\ Unambiguous(t)
  BY <1>2, TablesOf
<1>4. actual[r] = SchemaFromGroup(t) /\ (mode = "Additive" => ValidAdditive(Changes(r)))
  BY <1>1, <1>2, <1>3 DEF KInv, Reads
<1>5. Has(Target(r), NewTables(r))
  BY <1>1, <1>3, <1>4, UpdatedTables
<1>6. file'[group'[r]].tables = NewTables(r)
  <2>1. file'[Latest + 1] = ApplySchemaChanges(r)
    BY <1>1, AppendKeeps
  <2>2. ApplySchemaChanges(r).tables = NewTables(r)
    BY DEF ApplySchemaChanges
  <2>3. QED
    BY <1>1, <2>1, <2>2
<1>7. Alike(Fresh(r), Target(r)) /\ Fresh(r)' = Fresh(r)
  BY <1>1, FreshFacts DEF Fresh, Target
<1>8. Has(Fresh(r), NewTables(r))
  BY <1>5, <1>7, AlikeHas
<1>9. Reads(r)'
  BY <1>1, <1>6, <1>7, <1>8 DEF Reads
<1>10. QED
  BY <1>1, <1>9 DEF Holds, Covers, Cached

\* Having finished an update an instance knows its file.
LEMMA KnowsOfFinishUpdate ==
  ASSUME STypeOK, SInv, KInv, NEW r \in Realms, FinishUpdate(r)
  PROVE  Reads(r)' /\ Holds(r)' /\ Covers(r)'
<1>1. pc[r] = "finishing" /\ UNCHANGED <<file, transaction>>
  BY DEF FinishUpdate
<1>2. PICK n \in 1 .. Latest : n = group[r] /\ n = transaction[r]
  BY <1>1, ActorFacts DEF Standing
<1>3. PICK t \in TablesType : t = file[n].tables /\ Unambiguous(t)
  BY TablesOf
<1>4. Has(Fresh(r), t) /\ IsSchema(Fresh(r))
  BY <1>1, <1>2, <1>3, FreshFacts DEF KInv, Reads
<1>5. PICK u : u = CopyTableColumns(Fresh(r), SchemaFromGroup(t))
  OBVIOUS
<1>6. IsSchema(u) /\ Fits(u, t) /\ Has(u, t)
  BY <1>3, <1>4, <1>5, TakenFacts
<1>7. Opened(r, u) /\ n = transaction'[r]
  BY <1>1, <1>2, <1>3, <1>5 DEF FinishUpdate, SetSchema
<1>8. QED
  BY <1>1, <1>3, <1>6, <1>7, OpenedKnows

\* Having cached its new schema an instance knows its file.
LEMMA KnowsOfCacheNewSchema ==
  ASSUME STypeOK, SInv, KInv, NEW r \in Realms, CacheNewSchema(r)
  PROVE  Reads(r)' /\ Holds(r)' /\ Covers(r)'
<1>1. pc[r] \in Uncached /\ UNCHANGED <<file, mode, config>>
  BY DEF CacheNewSchema
<1>2. PICK n \in 1 .. Latest : n = group[r]
  BY <1>1, ActorFacts DEF Standing
<1>3. PICK t \in TablesType : t = file[n].tables /\ Unambiguous(t)
  BY TablesOf
<1>4. transaction'[r] = n /\ Reads(r) /\ Holds(r)
  BY <1>2 DEF CacheNewSchema, STypeOK, KInv
<1>5. CASE pc[r] = "satisfied"
  <2>1. actual[r] = SchemaFromGroup(t) /\ Has(Fresh(r), t) /\ IsSchema(Fresh(r))
    BY <1>2, <1>3, <1>4, <1>5, FreshFacts DEF Reads
  <2>2. PICK u : u = CopyTableColumns(Fresh(r), SchemaFromGroup(t))
    OBVIOUS
  <2>3. IsSchema(u) /\ Fits(u, t) /\ Has(u, t)
    BY <1>3, <2>1, <2>2, TakenFacts
  <2>4. Opened(r, u)
    BY <1>5, <2>1, <2>2 DEF CacheNewSchema, SetSchema
  <2>5. QED
    BY <1>1, <1>3, <1>4, <2>3, <2>4, OpenedKnows
<1>6. CASE pc[r] # "satisfied"
  <2>1. /\ group'[r] = n /\ schema'[r] = schema[r] /\ actual'[r] = actual[r]
        /\ \/ pc[r] = "rechecked" /\ pc'[r] = "updating"
           \/ pc[r] = "updated" /\ pc'[r] = "finishing"
           \/ pc[r] = "begun" /\ pc'[r] = "writing"
           \/ pc[r] \in {"advanced", "written"} /\ pc'[r] = "open"
    BY <1>1, <1>2, <1>6 DEF CacheNewSchema, Uncached, After, STypeOK
  <2>2. n # 0
    BY LatestType
  <2>3. CASE pc[r] = "rechecked"
    <3>1. /\ actual[r] = SchemaFromGroup(t)
          /\ mode = "Additive" => ValidAdditive(Compare(SchemaFromGroup(t), Target(r)))
      BY <1>2, <1>3, <1>4, <2>3 DEF Reads, Changes
    <3>2. pc'[r] = "updating"
      BY <2>1, <2>3
    <3>3. QED
      BY <1>1, <1>3, <2>1, <3>1, <3>2, WaitingKnows
  <2>4. CASE pc[r] = "updated"
    <3>1. Has(Fresh(r), t) /\ Fresh(r)' = Fresh(r)
      BY <1>1, <1>2, <1>3, <1>4, <2>4 DEF Reads, Fresh, Target
    <3>2. pc'[r] = "finishing"
      BY <2>1, <2>4
    <3>3. QED
      BY <1>1, <1>3, <2>1, <3>1, <3>2 DEF Reads, Holds, Covers, Cached
  <2>5. CASE pc[r] \in {"begun", "advanced", "written"}
    <3>1. At(r) = n /\ At(r)' = n
      BY <1>2, <2>1, <2>2 DEF At
    <3>2. IsSchema(schema[r]) /\ Fits(schema[r], t)
      BY <1>3, <1>4, <2>5, <3>1 DEF Holds, Cached
    <3>3. Has(schema[r], t)
      BY <3>2, FitsHas
    <3>4. pc'[r] \in Cached
      BY <2>1, <2>5 DEF Cached
    <3>5. QED
      BY <1>1, <1>3, <1>4, <2>1, <3>1, <3>2, <3>3, <3>4, CachedKnows
  <2>6. QED
    BY <2>1, <2>3, <2>4, <2>5
<1>7. QED
  BY <1>5, <1>6

\* An open instance reads the version it knows.
LEMMA OpenFacts ==
  ASSUME STypeOK, SInv, KInv, NEW r \in Realms, pc[r] = "open"
  PROVE  /\ transaction[r] \in 1 .. Latest /\ At(r) = transaction[r] /\ group[r] \in {0, transaction[r]}
         /\ IsSchema(schema[r])
         /\ Fits(schema[r], file[transaction[r]].tables) /\ Has(schema[r], file[transaction[r]].tables)
<1>1. transaction[r] \in 1 .. Latest /\ group[r] \in {0, transaction[r]}
  BY ActorFacts DEF Standing
<1>2. At(r) = transaction[r]
  BY <1>1 DEF At
<1>3. Holds(r)
  BY DEF KInv
<1>4. QED
  BY <1>1, <1>2, <1>3 DEF Holds, Cached

\* Beginning to read an instance knows its file, unless it is used after that
\* threw.
LEMMA KnowsOfRead ==
  ASSUME STypeOK, SInv, KInv, ~UsesAfterError, NEW r \in Realms, BeginRead(r)
  PROVE  Reads(r)' /\ Holds(r)' /\ Covers(r)'
<1>1. PICK n \in 1 .. Latest : n = Latest
  BY LatestType
<1>2. PICK t \in TablesType : t = file[n].tables /\ Unambiguous(t)
  BY TablesOf
<1>3. PICK i \in 1 .. Latest : i = transaction[r] /\ IsSchema(schema[r])
                               /\ Fits(schema[r], file[i].tables) /\ Has(schema[r], file[i].tables)
  BY OpenFacts DEF BeginRead
<1>4. /\ UNCHANGED file /\ pc[r] = "open"
      /\ \/ /\ i = n /\ group' = [group EXCEPT ![r] = n]
            /\ UNCHANGED <<pc, schema, transaction>>
         \/ /\ ValidExternal(Compare(schema[r], SchemaFromGroup(t)))
            /\ group' = [group EXCEPT ![r] = n] /\ transaction' = [transaction EXCEPT ![r] = n]
            /\ schema' = [schema EXCEPT ![r] = CopyTableColumns(schema[r], SchemaFromGroup(t))]
            /\ UNCHANGED pc
         \/ Gone(r)
  BY <1>1, <1>2, <1>3 DEF BeginRead
<1>5. n # 0
  BY LatestType
<1>6. CASE i = n /\ group' = [group EXCEPT ![r] = n] /\ UNCHANGED <<pc, schema, transaction>>
  <2>1. group'[r] = n /\ transaction'[r] = n /\ schema'[r] = schema[r] /\ pc'[r] \in Cached
    BY <1>3, <1>4, <1>6 DEF STypeOK, Cached
  <2>2. At(r)' = n
    BY <1>5, <2>1 DEF At
  <2>3. QED
    BY <1>3, <1>4, <1>6, <2>1, <2>2, CachedKnows
<1>7. CASE /\ ValidExternal(Compare(schema[r], SchemaFromGroup(t)))
           /\ group' = [group EXCEPT ![r] = n] /\ transaction' = [transaction EXCEPT ![r] = n]
           /\ schema' = [schema EXCEPT ![r] = CopyTableColumns(schema[r], SchemaFromGroup(t))]
           /\ UNCHANGED pc
  <2>1. PICK u : u = CopyTableColumns(schema[r], SchemaFromGroup(t))
    OBVIOUS
  <2>2. group'[r] = n /\ transaction'[r] = n /\ schema'[r] = u /\ pc'[r] \in Cached
    BY <1>4, <1>7, <2>1 DEF STypeOK, Cached
  <2>3. At(r)' = n
    BY <1>5, <2>2 DEF At
  <2>4. DOMAIN schema[r] \subseteq DOMAIN t
    BY <1>1, <1>2, <1>3, LaterSnapshots
  <2>5. Has(schema[r], t)
    BY <1>2, <1>7, <2>4, NothingLost
  <2>6. IsSchema(u) /\ Fits(u, t) /\ Has(u, t)
    BY <1>2, <1>3, <2>1, <2>5, TakenFacts
  <2>7. QED
    BY <1>2, <1>4, <2>2, <2>3, <2>6, CachedKnows
<1>8. CASE Gone(r)
  BY <1>8, GoneKnows
<1>9. QED
  BY <1>4, <1>6, <1>7, <1>8

\* Moving to a later snapshot an instance knows its file.
LEMMA KnowsOfAdvance ==
  ASSUME STypeOK, SInv, KInv, NEW r \in Realms, Refresh(r) \/ BeginWrite(r)
  PROVE  Reads(r)' /\ Holds(r)' /\ Covers(r)'
<1>1. PICK n \in 1 .. Latest : n = Latest
  BY LatestType
<1>2. PICK t \in TablesType : t = file[n].tables /\ Unambiguous(t)
  BY TablesOf
<1>3. /\ pc[r] = "open" /\ group[r] # 0 /\ ~Refused(group[r], n) /\ Advance(r, FALSE)
      /\ UNCHANGED <<file, transaction>> /\ \E l \in {"advanced", "begun"} : pc' = [pc EXCEPT ![r] = l]
  <2>1. CASE Refresh(r)
    <3>1. group[r] # 0
      BY <2>1 DEF Refresh
    <3>2. QED
      BY <1>1, <2>1, <3>1 DEF Refresh
  <2>2. CASE BeginWrite(r)
    BY <1>1, <2>2 DEF BeginWrite
  <2>3. QED
    BY <2>1, <2>2
<1>4. PICK i \in 1 .. Latest : i = transaction[r] /\ i = group[r] /\ IsSchema(schema[r])
                               /\ Fits(schema[r], file[i].tables) /\ Has(schema[r], file[i].tables)
  BY <1>3, OpenFacts
<1>5. i <= n /\ n # 0
  BY <1>1, LatestType
<1>6. PICK told \in BOOLEAN : told = Told(i, n)
  BY DEF Told
<1>7. /\ group'[r] = n /\ transaction'[r] = i /\ pc'[r] \in Cached
      /\ told => schema'[r] = CopyTableColumns(schema[r], SchemaFromGroup(t))
      /\ ~told => schema'[r] = schema[r]
  BY <1>1, <1>2, <1>3, <1>4, <1>6 DEF Advance, STypeOK, Cached
<1>8. At(r)' = n
  BY <1>5, <1>7 DEF At
<1>9. Has(schema[r], t)
  <2>1. Extends(t, file[i].tables)
    BY <1>1, <1>2, <1>3, <1>4, <1>5 DEF KInv, Columnwise
  <2>2. QED
    BY <1>4, <2>1, HasExtends
<1>10. CASE told
  <2>1. PICK u : u = CopyTableColumns(schema[r], SchemaFromGroup(t))
    OBVIOUS
  <2>2. IsSchema(u) /\ Fits(u, t) /\ Has(u, t) /\ Alike(u, schema[r])
    BY <1>2, <1>4, <1>9, <2>1, TakenFacts
  <2>3. Has(u, file[i].tables)
    BY <1>4, <2>2, AlikeHas
  <2>4. schema'[r] = u
    BY <1>7, <1>10, <2>1
  <2>5. QED
    BY <1>2, <1>3, <1>7, <1>8, <2>2, <2>3, <2>4, CachedKnows
<1>11. CASE ~told
  <2>1. file[i].tables = t
    BY <1>1, <1>2, <1>5, <1>6, <1>11, QuietTables
  <2>2. QED
    BY <1>2, <1>3, <1>4, <1>7, <1>8, <1>11, <2>1, CachedKnows
<1>12. QED
  BY <1>10, <1>11

\* Ending a write, or leaving the snapshot, an instance knows its file.
LEMMA KnowsOfWriting ==
  ASSUME STypeOK, SInv, KInv, NEW r \in Realms, CommitWrite(r) \/ CancelWrite(r) \/ Invalidate(r)
  PROVE  Reads(r)' /\ Holds(r)' /\ Covers(r)'
<1>1. CASE CommitWrite(r)
  <2>1. PICK n \in 1 .. Latest : n = Latest
    BY LatestType
  <2>2. PICK x : x = [file[Latest] EXCEPT !.log = {}]
    OBVIOUS
  <2>3. /\ pc[r] = "writing" /\ pc'[r] \in Cached /\ file' = Append(file, x) /\ group'[r] = n + 1
        /\ schema'[r] = schema[r] /\ transaction'[r] = transaction[r]
    BY <1>1, <2>1, <2>2 DEF CommitWrite, STypeOK, Cached
  <2>4. transaction[r] = n /\ At(r) = n
    BY <2>1, <2>3, ActorFacts, LatestType DEF Standing, Writing, At
  <2>5. IsSchema(schema[r]) /\ Fits(schema[r], file[n].tables) /\ Has(schema[r], file[n].tables)
    BY <2>3, <2>4 DEF KInv, Holds, Cached
  <2>6. file'[n + 1] = x /\ file'[n] = file[n]
    BY <2>1, <2>3, AppendKeeps DEF FileKept
  <2>7. x.tables = file[n].tables
    BY <2>1, <2>2, LatestType DEF SnapshotType
  <2>8. At(r)' = n + 1
    BY <2>1, <2>3 DEF At
  <2>9. QED
    BY <2>3, <2>4, <2>5, <2>6, <2>7, <2>8, CachedKnows
<1>2. CASE CancelWrite(r)
  <2>1. pc[r] = "writing" /\ pc'[r] = "open" /\ UNCHANGED <<file, group, schema, transaction>>
    BY <1>2 DEF CancelWrite, STypeOK
  <2>2. At(r)' = At(r)
    BY <2>1 DEF At
  <2>3. Holds(r)'
    BY <2>1, <2>2 DEF KInv, Holds, Cached
  <2>4. QED
    BY <2>1, <2>3 DEF Reads, Covers
<1>3. CASE Invalidate(r)
  <2>1. pc[r] = "open" /\ pc'[r] = "open" /\ group'[r] = 0 /\ UNCHANGED <<file, schema, transaction>>
    BY <1>3 DEF Invalidate, STypeOK
  <2>2. At(r)' = At(r)
    BY <2>1, OpenFacts DEF At
  <2>3. Holds(r)'
    BY <2>1, <2>2 DEF KInv, Holds, Cached
  <2>4. QED
    BY <2>1, <2>3 DEF Reads, Covers
<1>4. QED
  BY <1>1, <1>2, <1>3

\* While an instance stays open its schema keeps its properties; only their
\* columns change.
LEMMA CachedSchemaStays ==
  ASSUME STypeOK, SInv, KInv, NEW r \in Realms, Step(r), pc[r] \in Cached, pc'[r] \in Cached
  PROVE  Alike(schema'[r], schema[r])
<1>1. PICK t \in TablesType : t = file[Latest].tables /\ Unambiguous(t)
  BY LatestType, TablesOf
<1>2. IsSchema(schema[r])
  BY DEF KInv, Holds
<1>3. ~Gone(r) /\ pc[r] \notin Opening
  BY DEF Gone, Cached, Opening, STypeOK
<1>4. schema'[r] = schema[r] \/ schema'[r] = CopyTableColumns(schema[r], SchemaFromGroup(t))
  <2>1. CASE Open(r)
    BY <1>3, <2>1 DEF Open, OpenFromCache, OpenFromFile, CacheConstructed, AlignWithThread, AlignWithFile,
      BeginUpdate, CommitUpdate, UpdateFails, FinishUpdate, CanOpen, Opening, Cached
  <2>2. CASE CacheNewSchema(r)
    BY <1>3, <2>2 DEF CacheNewSchema, Opening
  <2>3. CASE BeginRead(r)
    BY <1>1, <1>3, <2>3 DEF BeginRead, STypeOK
  <2>4. CASE Refresh(r) \/ BeginWrite(r)
    <3>1. Advance(r, FALSE)
      BY <2>4 DEF Refresh, BeginWrite
    <3>2. QED
      BY <1>1, <3>1 DEF Advance, STypeOK
  <2>5. CASE CommitWrite(r) \/ CancelWrite(r) \/ Invalidate(r) \/ Release(r)
    BY <1>3, <2>5 DEF CommitWrite, CancelWrite, Invalidate, Release
  <2>6. QED
    BY <2>1, <2>2, <2>3, <2>4, <2>5 DEF Step, Use
<1>5. CASE schema'[r] = schema[r]
  BY <1>5 DEF Alike
<1>6. CASE schema'[r] = CopyTableColumns(schema[r], SchemaFromGroup(t))
  BY <1>1, <1>2, <1>6, CopyFacts
<1>7. QED
  BY <1>4, <1>5, <1>6

\* Who is being opened still covers the others.
LEMMA KeepsCovering ==
  ASSUME STypeOK, SInv, KInv, NEW r \in Realms, Step(r), NEW q \in Realms \ {r}
  PROVE  Covers(q)'
<1> SUFFICES ASSUME pc'[q] \in {"constructed", "aligning"}, NEW o \in Siblings(q), pc'[o] \in Cached
             PROVE  /\ DOMAIN schema'[o] \subseteq DOMAIN file'[transaction'[q]].tables
                    /\ mode' = "Additive" => Has(schema'[o], file'[transaction'[q]].tables)
  BY DEF Covers, Siblings
<1>1. /\ \A x \in Realms \ {r} : SameInstance(x) /\ schema'[x] = schema[x]
      /\ mode' = mode /\ FileKept
  BY StepFrame, StepFile, SchemaFrame
<1>2. PICK n : n = transaction[q]
  OBVIOUS
<1>3. pc[q] \in {"constructed", "aligning"} /\ transaction'[q] = n
  BY <1>1, <1>2 DEF SameInstance
<1>4. n \in 1 .. Latest /\ OpensAlone(q) /\ Covers(q)
  BY <1>2, <1>3, ActorFacts DEF Standing, KInv
<1>5. PICK t : t = file[n].tables /\ t = file'[n].tables
  BY <1>1, <1>4 DEF FileKept
<1>6. o \in Realms /\ pc[o] \notin Opening
  BY <1>3, <1>4 DEF OpensAlone, Siblings, Opening
<1>7. pc[o] \in Cached
  <2>1. CASE o # r
    BY <1>1, <1>6, <2>1 DEF SameInstance
  <2>2. CASE o = r
    <3>1. q \in Siblings(r)
      BY <2>2 DEF Siblings
    <3>2. ~CanOpen(r)
      BY <1>3, <3>1 DEF CanOpen, Opening
    <3>3. pc[r] # "closed"
      BY <1>6, <2>2, <3>2, StepMoves DEF Opening
    <3>4. QED
      BY <1>6, <2>2, <3>3 DEF STypeOK, Locations
  <2>3. QED
    BY <2>1, <2>2
<1>8. Alike(schema'[o], schema[o])
  <2>1. CASE o # r
    BY <1>1, <1>6, <2>1 DEF Alike
  <2>2. CASE o = r
    BY <1>7, <2>2, CachedSchemaStays
  <2>3. QED
    BY <2>1, <2>2
<1>9. DOMAIN schema[o] \subseteq DOMAIN t /\ (mode = "Additive" => Has(schema[o], t))
  BY <1>2, <1>3, <1>4, <1>5, <1>7 DEF Covers
<1>10. DOMAIN schema'[o] = DOMAIN schema[o]
  BY <1>8 DEF Alike
<1>11. mode = "Additive" => Has(schema'[o], t)
  BY <1>8, <1>9, AlikeHas
<1>12. QED
  BY <1>1, <1>3, <1>5, <1>9, <1>10, <1>11

\* What the instance that acts knows.
LEMMA KnowsOfStep ==
  ASSUME STypeOK, SInv, KInv, ~UsesAfterError, NEW r \in Realms, Step(r)
  PROVE  Reads(r)' /\ Holds(r)' /\ Covers(r)'
<1>1. CASE OpenFromCache(r) \/ OpenFromFile(r)
  <2>1. pc'[r] \in {"constructed", "aligning"}
    BY <1>1 DEF OpenFromCache, OpenFromFile, STypeOK
  <2>2. Holds(r)'
    BY <2>1 DEF Holds, Cached
  <2>3. QED
    BY <1>1, <2>2, OpensCovering
<1>2. CASE CacheConstructed(r) \/ AlignWithThread(r) \/ AlignWithFile(r)
  BY <1>2, KnowsOfConstructed, KnowsOfThread, KnowsOfFile
<1>3. CASE BeginUpdate(r) \/ CommitUpdate(r) \/ FinishUpdate(r) \/ CacheNewSchema(r)
  BY <1>3, KnowsOfBeginUpdate, KnowsOfCommitUpdate, KnowsOfFinishUpdate, KnowsOfCacheNewSchema
<1>4. CASE UpdateFails(r) \/ Release(r)
  BY <1>4, GoneKnows DEF UpdateFails, Release
<1>5. CASE BeginRead(r)
  BY <1>5, KnowsOfRead
<1>6. CASE Refresh(r) \/ BeginWrite(r)
  BY <1>6, KnowsOfAdvance
<1>7. CASE CommitWrite(r) \/ CancelWrite(r) \/ Invalidate(r)
  BY <1>7, KnowsOfWriting
<1>8. QED
  BY <1>1, <1>2, <1>3, <1>4, <1>5, <1>6, <1>7 DEF Step, Open, Use

\* A process that is killed takes its instances with it; the others know what
\* they knew.
LEMMA KnowsAfterRestart ==
  ASSUME STypeOK, SInv, KInv, NEW p \in Processes, NEW c \in Configs, Restart(p, c)
  PROVE  KInv'
<1>1. UNCHANGED <<file, mode>> /\ Latest' = Latest
  BY DEF Restart, Latest
<1>2. ASSUME NEW r \in Realms
      PROVE  \/ ProcessOf[r] = p /\ pc'[r] = "closed"
             \/ /\ ProcessOf[r] # p /\ SameInstance(r) /\ schema'[r] = schema[r] /\ actual'[r] = actual[r]
                /\ Target(r)' = Target(r)
  BY ProcessOfAssumption DEF Restart, SameInstance, Target, STypeOK
<1>3. Columnwise'
  BY <1>1 DEF KInv, Columnwise, Refused, Between
<1>4. ASSUME NEW r \in Realms
      PROVE  Reads(r)' /\ Holds(r)' /\ Covers(r)'
  <2>1. CASE ProcessOf[r] = p
    <3>1. pc'[r] = "closed"
      BY <1>2, <2>1
    <3>2. QED
      BY <3>1 DEF Reads, Holds, Covers, Cached
  <2>2. CASE ProcessOf[r] # p
    <3>1. /\ pc'[r] = pc[r] /\ group'[r] = group[r] /\ transaction'[r] = transaction[r]
          /\ schema'[r] = schema[r] /\ actual'[r] = actual[r] /\ Target(r)' = Target(r)
      BY <1>2, <2>2 DEF SameInstance
    <3>2. Reads(r) /\ Holds(r) /\ Covers(r)
      BY DEF KInv
    <3>3. At(r)' = At(r) /\ Fresh(r)' = Fresh(r) /\ Changes(r)' = Changes(r)
      BY <3>1 DEF At, Fresh, Changes
    <3>4. Reads(r)'
      BY <1>1, <3>1, <3>2, <3>3 DEF Reads
    <3>5. Holds(r)'
      BY <1>1, <3>1, <3>2, <3>3 DEF Holds
    <3>6. \A q \in Siblings(r) : pc'[q] = pc[q] /\ schema'[q] = schema[q]
      BY <1>2, <2>2 DEF Siblings, SameInstance
    <3>7. Covers(r)'
      BY <1>1, <3>1, <3>2, <3>6 DEF Covers, Siblings
    <3>8. QED
      BY <3>4, <3>5, <3>7
  <2>3. QED
    BY <2>1, <2>2
<1>5. QED
  BY <1>3, <1>4 DEF KInv

\* At first nobody has opened the file.
LEMMA KnowsAtFirst == Init => KInv
<1> SUFFICES ASSUME Init
             PROVE  KInv
  OBVIOUS
<1>1. Latest = 1 /\ file[1].tables = <<>> /\ file[1].log = {}
  BY DEF Init, Latest
<1>2. \A s \in 1 .. Latest : s = 1
  BY <1>1
<1>3. DOMAIN file[1].tables = {}
  BY <1>1
<1>4. Unambiguous(file[1].tables) /\ Extends(file[1].tables, file[1].tables)
  BY <1>3 DEF Unambiguous, Extends
<1>5. Columnwise
  BY <1>1, <1>2, <1>4 DEF Columnwise
<1>6. \A r \in Realms : pc[r] = "closed"
  BY DEF Init
<1>7. QED
  BY <1>5, <1>6 DEF KInv, Reads, Holds, Covers, Cached

\* What instances know is invariant while none is used after an error.
LEMMA Knowledge ==
  ASSUME ~UsesAfterError
  PROVE  Spec /\ []NumbersShow => []KInv
<1>1. ASSUME STypeOK, SInv, KInv, [Next]_vars
      PROVE  KInv'
  <2>1. ASSUME NEW r \in Realms, Step(r)
        PROVE  KInv'
    <3>1. Columnwise'
      BY <1>1, <2>1, KeepsColumnwise
    <3>2. Reads(r)' /\ Holds(r)' /\ Covers(r)'
      BY <1>1, <2>1, KnowsOfStep
    <3>3. \A q \in Realms \ {r} : Reads(q)' /\ Holds(q)' /\ Covers(q)'
      BY <1>1, <2>1, KeepsColumnsOfOthers, KeepsCovering
    <3>4. QED
      BY <3>1, <3>2, <3>3 DEF KInv
  <2>2. CASE \E p \in Processes, c \in Configs : Restart(p, c)
    BY <1>1, <2>2, KnowsAfterRestart
  <2>3. CASE UNCHANGED vars
    <3>1. /\ UNCHANGED <<file, mode, config, pc, group, transaction, schema, actual>>
          /\ Latest' = Latest
      BY <2>3 DEF vars, realmVars, Latest
    <3>2. Columnwise'
      BY <1>1, <3>1 DEF KInv, Columnwise, Refused, Between
    <3>3. ASSUME NEW r \in Realms
          PROVE  Reads(r)' /\ Holds(r)' /\ Covers(r)'
      <4>1. Reads(r) /\ Holds(r) /\ Covers(r)
        BY <1>1 DEF KInv
      <4>2. Reads(r)'
        BY <3>1, <4>1 DEF Reads, Changes, Fresh, Target
      <4>3. Holds(r)'
        BY <3>1, <4>1 DEF Holds, At
      <4>4. Covers(r)'
        BY <3>1, <4>1 DEF Covers, Siblings
      <4>5. QED
        BY <4>2, <4>3, <4>4
    <3>4. QED
      BY <3>2, <3>3 DEF KInv
  <2>4. QED
    BY <1>1, <2>1, <2>2, <2>3 DEF Next, Step
<1>2. QED
  BY <1>1, KnowsAtFirst, SchemaTypes, Invariant, PTL DEF Spec

\* An open instance that reads a snapshot knows its version and finds each of its
\* properties in the one column of that name, of the right kind, whoever has added
\* and removed columns since it was opened (copy_table_columns_from), as long as
\* no instance is used after reading threw (begin_read).
THEOREM InstancesKnowTheFile ==
  ASSUME ~UsesAfterError
  PROVE  Spec /\ []NumbersShow => []RealmKnowsFile
<1>1. ASSUME STypeOK, SInv, KInv
      PROVE  RealmKnowsFile
  <2> SUFFICES ASSUME NEW r \in Realms, pc[r] \in Cached, group[r] # 0
               PROVE  LET f == file[group[r]]
                      IN /\ version[r] = f.version
                         /\ DOMAIN schema[r] \subseteq DOMAIN f.tables
                         /\ \A c \in DOMAIN schema[r] : \A i \in DOMAIN schema[r][c] :
                              LET p == schema[r][c][i]
                              IN /\ {k \in DOMAIN f.tables[c] : f.tables[c][k].name = p.name} = {p.column}
                                 /\ f.tables[c][p.column] = Column(p)
    BY DEF RealmKnowsFile
  <2>1. PICK n : n = group[r]
    OBVIOUS
  <2>2. n \in 1 .. Latest /\ At(r) = n
    BY <1>1, <2>1, ActorFacts DEF Standing, At
  <2>3. version[r] = file[n].version
    BY <1>1, <2>2, ActorFacts DEF Informed, Cached
  <2>4. PICK t \in TablesType : t = file[n].tables /\ Unambiguous(t)
    BY <1>1, <2>2, TablesOf
  <2>5. Fits(schema[r], t)
    BY <1>1, <2>2, <2>4 DEF KInv, Holds
  <2>6. ASSUME NEW c \in DOMAIN schema[r], NEW i \in DOMAIN schema[r][c], NEW p, p = schema[r][c][i]
        PROVE  /\ {k \in DOMAIN t[c] : t[c][k].name = p.name} = {p.column}
               /\ t[c][p.column] = Column(p)
    <3>1. c \in DOMAIN t /\ p.column \in DOMAIN t[c] /\ t[c][p.column] = Column(p)
      BY <2>5, <2>6 DEF Fits
    <3>2. t[c][p.column].name = p.name
      BY <3>1 DEF Column
    <3>3. UniqueNames(t[c])
      BY <2>4, <3>1 DEF Unambiguous
    <3>4. \A k \in DOMAIN t[c] : t[c][k].name = p.name => k = p.column
      BY <3>1, <3>2, <3>3 DEF UniqueNames
    <3>5. QED
      BY <3>1, <3>2, <3>4
  <2>7. DOMAIN schema[r] \subseteq DOMAIN t
    BY <2>5 DEF Fits
  <2>8. \A c \in DOMAIN schema[r] : \A i \in DOMAIN schema[r][c] :
          LET p == schema[r][c][i]
          IN /\ {k \in DOMAIN t[c] : t[c][k].name = p.name} = {p.column}
             /\ t[c][p.column] = Column(p)
    BY <2>6
  <2>9. file[group[r]].tables = t /\ version[r] = file[group[r]].version
    BY <2>1, <2>3, <2>4
  <2>10. QED
    BY <2>7, <2>8, <2>9
<1>2. Spec /\ []NumbersShow => []KInv
  BY Knowledge
<1>3. QED
  BY <1>1, <1>2, SchemaTypes, Invariant, PTL

=================================================================================
