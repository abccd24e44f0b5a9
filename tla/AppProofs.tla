------------------------------- MODULE AppProofs -------------------------------
(***************************************************************************)
(* That the list is whole and that keys act on what was chosen, for any    *)
(* number of hosts, sites, queries and imports.  Neither is inductive.     *)
(* ListIsWhole holds because the order is always the one Order makes of    *)
(* the hosts by some count of uses (OrderInv), and then because of what    *)
(* sorting, retaining and joining sequences do, which the first half of    *)
(* the module shows by induction on their recursive functions.             *)
(* ActsOnTheChosen needs that ids are never given out twice (HostsInv) and *)
(* that what an open popup is for is still what was chosen (OpenInv).      *)
(***************************************************************************)
EXTENDS App, SequenceTheorems, FiniteSetTheorems, WellFoundedInduction, TLAPS

\* The hosts have an id each, that was given out.
HostsInv ==
    /\ hosts \in Seq(HostType)
    /\ sites \subseteq SiteNames
    /\ uses \in [Ids -> 0..MaxUses]
    /\ next \in FirstNew..(MaxId + 1)
    /\ \A i \in DOMAIN hosts : hosts[i].id < next
    /\ \A i, j \in DOMAIN hosts : hosts[i].id = hosts[j].id => i = j

\* The order was right by the uses of some moment: a connect that stays on the
\* screen counts as a use and leaves the list as it is.
OrderInv ==
    /\ world \in [pick : BOOLEAN, tmux : BOOLEAN, sort : Sorts]
    /\ query \in Queries
    /\ query.typed \/ query = NoQuery
    /\ \E u \in [Ids -> 0..MaxUses] : order = Order(hosts, query, u, world.sort)
    /\ selected \in {0} \cup 0..(Len(order) - 1)

\* What a popup is for is what was chosen when it was opened, and nothing is
\* decided or stored before it closes; pick mode opens none, and its marks are
\* those of hosts that are there.
OpenInv ==
    /\ stored \subseteq Ids \cup Creds
    /\ marked \subseteq Ids
    /\ chosen \subseteq Ids
    /\ quit \in BOOLEAN
    /\ popup \in Popups /\ popup.at \subseteq DOMAIN hosts
    /\ pending \in DOMAIN hosts \cup {0}
    /\ pending # 0 => quit
    /\ popup # NoPopup => stored = {}
    /\ popup.kind = "code" => \E i \in DOMAIN hosts : popup.at = {i}
    /\ popup.at # {} => IdsAt(popup.at) = chosen
    /\ popup.id # None => popup.id \in IdsOf(hosts) /\ chosen = {popup.id}
    /\ world.pick => popup = NoPopup /\ marked \subseteq IdsOf(hosts)

AppInv == HostsInv /\ OrderInv /\ OpenInv

-----------------------------------------------------------------------------
(* Induction on the natural numbers, and the function Retained takes.      *)

\* Every set of natural numbers has a least element.
LEMMA LeastNatural ==
    ASSUME NEW T, T \subseteq Nat, T # {}
    PROVE  \E least \in T : \A n \in T : least <= n
<1>1. IsWellFoundedOn(OpToRel(<, Nat), Nat)
  BY NatLessThanWellFounded
<1>2. \E least \in T : \A n \in T : <<n, least>> \notin OpToRel(<, Nat)
  BY <1>1, WFMin
<1>3. \A m, n \in Nat : <<n, m>> \notin OpToRel(<, Nat) => m <= n
  BY DEF OpToRel
<1> QED
  BY <1>2, <1>3

\* Induction, for a set: the theorems of the library take a predicate, which no
\* prover at hand can instantiate.
LEMMA InductiveSet ==
    ASSUME NEW T, 0 \in T, \A n \in Nat : n \in T => n + 1 \in T
    PROVE  Nat \subseteq T
<1> SUFFICES ASSUME Nat \ T # {} PROVE FALSE
  OBVIOUS
<1>1. PICK least \in Nat \ T : \A n \in Nat \ T : least <= n
  BY LeastNatural
<1>2. least # 0 /\ least - 1 \in Nat /\ least - 1 + 1 = least
  BY <1>1
<1>3. least - 1 \in T
  BY <1>1, <1>2
<1> QED
  BY <1>1, <1>2, <1>3
\* The recursive function of Retained, taken as far as m.
Unfolds(f, s, keep, m) ==
    f = [n \in 0 .. m |-> IF n = 0 THEN <<>>
                          ELSE IF s[n] \in keep THEN Append(f[n - 1], s[n])
                          ELSE f[n - 1]]

LEMMA UnfoldingExists ==
    ASSUME NEW s, NEW keep
    PROVE  \A m \in Nat : \E f : Unfolds(f, s, keep, m)
<1> DEFINE T == {m \in Nat : \E f : Unfolds(f, s, keep, m)}
<1>1. 0 \in T
  <2>1. Unfolds([n \in 0 .. 0 |-> <<>>], s, keep, 0)
    BY DEF Unfolds
  <2> QED
    BY <2>1
<1>2. ASSUME NEW n \in Nat, n \in T PROVE n + 1 \in T
  <2>1. PICK f : Unfolds(f, s, keep, n)
    BY <1>2
  <2> DEFINE g == [i \in 0 .. n + 1 |-> IF i = n + 1
                      THEN IF s[i] \in keep THEN Append(f[n], s[i]) ELSE f[n]
                      ELSE f[i]]
  <2>2. \A i \in 0 .. n : f[i] = IF i = 0 THEN <<>>
                                 ELSE IF s[i] \in keep THEN Append(f[i - 1], s[i])
                                 ELSE f[i - 1]
    BY <2>1 DEF Unfolds
  <2>3. \A i \in 0 .. n : g[i] = f[i]
    OBVIOUS
  <2>4. g[n + 1] = IF s[n + 1] \in keep THEN Append(f[n], s[n + 1]) ELSE f[n]
    OBVIOUS
  <2>5. g = [i \in 0 .. n + 1 |-> g[i]]
    OBVIOUS
  <2> HIDE DEF g
  <2>6. ASSUME NEW i \in 0 .. n + 1
        PROVE  g[i] = IF i = 0 THEN <<>>
                      ELSE IF s[i] \in keep THEN Append(g[i - 1], s[i])
                      ELSE g[i - 1]
    <3>1. CASE i = n + 1
      BY <3>1, <2>3, <2>4
    <3>2. CASE i \in 0 .. n
      BY <3>2, <2>2, <2>3
    <3> QED
      BY <3>1, <3>2
  <2>7. Unfolds(g, s, keep, n + 1)
    BY <2>5, <2>6 DEF Unfolds
  <2> QED
    BY <2>7
<1> HIDE DEF T
<1>3. Nat \subseteq T
  BY <1>1, <1>2, InductiveSet
<1> QED
  BY <1>3 DEF T

LEMMA RetainedUnfolds ==
    ASSUME NEW s, NEW keep, Len(s) \in Nat
    PROVE  \E f : Unfolds(f, s, keep, Len(s)) /\ Retained(s, keep) = f[Len(s)]
<1> DEFINE upTo == CHOOSE f : Unfolds(f, s, keep, Len(s))
<1>1. Unfolds(upTo, s, keep, Len(s))
  BY UnfoldingExists
<1>2. Retained(s, keep) = upTo[Len(s)]
  BY DEF Retained, Unfolds
<1> HIDE DEF upTo
<1> QED
  BY <1>1, <1>2
-----------------------------------------------------------------------------
(* Sorting.                                                                *)

StrictOrder(S, before) ==
    /\ \A x \in S : <<x, x>> \notin before
    /\ \A x, y \in S : x # y => <<x, y>> \in before \/ <<y, x>> \in before
    /\ \A x, y, z \in S : <<x, y>> \in before /\ <<y, z>> \in before => <<x, z>> \in before

\* A finite set with a strict total order: each place from 0 on is that of exactly
\* one element.
LEMMA EachHasItsPlace ==
    ASSUME NEW S, IsFiniteSet(S), NEW before, StrictOrder(S, before)
    PROVE  [x \in S |-> Cardinality({y \in S : <<y, x>> \in before})]
               \in Bijection(S, 0 .. Cardinality(S) - 1)
<1> DEFINE under(x) == {y \in S : <<y, x>> \in before}
           place == [x \in S |-> Cardinality(under(x))]
           top == Cardinality(S) - 1
<1>1. Cardinality(S) \in Nat
  BY FS_CardinalityType
<1>2. \A x \in S : IsFiniteSet(under(x)) /\ Cardinality(under(x)) \in Nat
  <2> TAKE x \in S
  <2>1. under(x) \in SUBSET S
    OBVIOUS
  <2> QED
    BY <2>1, FS_Subset, FS_CardinalityType
<1>3. ASSUME NEW x \in S, NEW y \in S, <<x, y>> \in before
      PROVE  Cardinality(under(x)) < Cardinality(under(y))
  <2>1. under(x) \in SUBSET under(y)
    BY <1>3 DEF StrictOrder
  <2>2. x \in under(y) /\ x \notin under(x)
    BY <1>3 DEF StrictOrder
  <2>3. under(x) # under(y)
    BY <2>2
  <2> HIDE DEF under
  <2> QED
    BY <1>2, <2>1, <2>3, FS_Subset
<1>4. \A x \in S : Cardinality(under(x)) \in 0 .. top
  <2> TAKE x \in S
  <2>1. under(x) \in SUBSET S /\ x \notin under(x)
    BY DEF StrictOrder
  <2>2. under(x) # S
    BY <2>1
  <2> HIDE DEF under
  <2>3. Cardinality(under(x)) <= Cardinality(S) /\ Cardinality(under(x)) # Cardinality(S)
    BY <2>1, <2>2, FS_Subset
  <2> QED
    BY <1>1, <1>2, <2>3
<1> HIDE DEF under
<1>5. place \in [S -> 0 .. top]
  BY <1>4
<1>6. ASSUME NEW x \in S, NEW y \in S, x # y PROVE place[x] # place[y]
  <2>1. <<x, y>> \in before \/ <<y, x>> \in before
    BY <1>6 DEF StrictOrder
  <2>2. Cardinality(under(x)) \in Nat /\ Cardinality(under(y)) \in Nat
    BY <1>2
  <2> QED
    BY <1>3, <2>1, <2>2
<1>7. place \in Injection(S, 0 .. top)
  BY <1>5, <1>6 DEF Injection, IsInjective
<1>8. IsFiniteSet(0 .. top) /\ Cardinality(0 .. top) = Cardinality(S)
  <2>1. 0 \in Int /\ top \in Int
    BY <1>1
  <2> QED
    BY <1>1, <2>1, FS_Interval
<1> HIDE DEF place, top
<1>9. place \in Surjection(S, 0 .. top)
  BY <1>7, <1>8, FS_Injection
<1> QED
  BY <1>7, <1>9 DEF Bijection, place, top, under

\* Sorted enumerates its set.
LEMMA SortedEnumerates ==
    ASSUME NEW S, IsFiniteSet(S), NEW before, StrictOrder(S, before)
    PROVE  /\ Sorted(S, before) \in Seq(S)
           /\ IsInjective(Sorted(S, before))
           /\ ToSet(Sorted(S, before)) = S
<1> DEFINE place(x) == Cardinality({y \in S : <<y, x>> \in before})
           r == Sorted(S, before)
<1>1. Cardinality(S) \in Nat
  BY FS_CardinalityType
<1>2. [x \in S |-> place(x)] \in Bijection(S, 0 .. Cardinality(S) - 1)
  BY EachHasItsPlace
<1>3. r = [n \in 1 .. Cardinality(S) |-> CHOOSE x \in S : place(x) = n - 1]
  BY DEF Sorted
<1> HIDE DEF place, r
<1>4. /\ \A x \in S : place(x) \in 0 .. Cardinality(S) - 1
      /\ \A x, y \in S : place(x) = place(y) => x = y
      /\ \A k \in 0 .. Cardinality(S) - 1 : \E x \in S : place(x) = k
  BY <1>2 DEF Bijection, Injection, Surjection, IsInjective
<1>5. \A n \in 1 .. Cardinality(S) : r[n] \in S /\ place(r[n]) = n - 1
  <2> TAKE n \in 1 .. Cardinality(S)
  <2>1. n - 1 \in 0 .. Cardinality(S) - 1
    BY <1>1
  <2>2. \E x \in S : place(x) = n - 1
    BY <1>4, <2>1
  <2> QED
    BY <1>3, <2>2
<1>6. r \in Seq(S) /\ DOMAIN r = 1 .. Cardinality(S)
  <2>1. r \in [1 .. Cardinality(S) -> S]
    BY <1>3, <1>5
  <2> QED
    BY <1>1, <2>1, SeqDef
<1>7. IsInjective(r)
  BY <1>1, <1>5, <1>6 DEF IsInjective
<1>8. \A x \in S : \E n \in 1 .. Cardinality(S) : r[n] = x
  <2> TAKE x \in S
  <2> DEFINE n == place(x) + 1
  <2>1. n \in 1 .. Cardinality(S) /\ n - 1 = place(x)
    BY <1>1, <1>4
  <2> HIDE DEF n
  <2> QED
    BY <1>4, <1>5, <2>1
<1>9. ToSet(r) = S
  BY <1>5, <1>6, <1>8 DEF ToSet
<1> QED
  BY <1>6, <1>7, <1>9 DEF r
-----------------------------------------------------------------------------
(* Putting sequences together.                                             *)

\* The recursive function of FlattenSeq, taken as far as m.
Joins(f, ss, m) ==
    f = [i \in 1 .. m |-> IF i = 1 THEN ss[i] ELSE f[i - 1] \o ss[i]]

LEMMA JoinsAt ==
    ASSUME NEW ss, NEW m, NEW f, Joins(f, ss, m), NEW i \in 1 .. m
    PROVE  f[i] = IF i = 1 THEN ss[i] ELSE f[i - 1] \o ss[i]
BY DEF Joins

LEMMA JoinsExist ==
    ASSUME NEW ss
    PROVE  \A m \in Nat : \E f : Joins(f, ss, m)
<1> DEFINE T == {m \in Nat : \E f : Joins(f, ss, m)}
<1>1. 0 \in T
  <2>1. Joins([i \in 1 .. 0 |-> <<>>], ss, 0)
    BY DEF Joins
  <2> QED
    BY <2>1
<1>2. ASSUME NEW n \in Nat, n \in T PROVE n + 1 \in T
  <2>1. PICK f : Joins(f, ss, n)
    BY <1>2
  <2> DEFINE g == [i \in 1 .. n + 1 |-> IF i = n + 1
                      THEN IF i = 1 THEN ss[i] ELSE f[n] \o ss[i]
                      ELSE f[i]]
  <2>2. \A i \in 1 .. n : g[i] = f[i]
    OBVIOUS
  <2>3. g[n + 1] = IF n + 1 = 1 THEN ss[n + 1] ELSE f[n] \o ss[n + 1]
    OBVIOUS
  <2>4. g = [i \in 1 .. n + 1 |-> g[i]]
    OBVIOUS
  <2> HIDE DEF g
  <2>5. ASSUME NEW i \in 1 .. n + 1
        PROVE  g[i] = IF i = 1 THEN ss[i] ELSE g[i - 1] \o ss[i]
    <3>1. CASE i \in 1 .. n
      <4>1. g[i] = f[i] /\ (i # 1 => g[i - 1] = f[i - 1])
        BY <2>2, <3>1
      <4> QED
        BY <2>1, <3>1, <4>1 DEF Joins
    <3>2. CASE i = n + 1
      <4>1. i # 1 => i - 1 = n /\ g[n] = f[n]
        BY <2>2, <3>2
      <4> QED
        BY <2>3, <3>2, <4>1
    <3> QED
      BY <3>1, <3>2
  <2>6. Joins(g, ss, n + 1)
    BY <2>4, <2>5 DEF Joins
  <2> QED
    BY <2>6
<1> HIDE DEF T
<1>3. Nat \subseteq T
  BY <1>1, <1>2, InductiveSet
<1> QED
  BY <1>3 DEF T

LEMMA JoinsAgree ==
    ASSUME NEW ss, NEW f, NEW g, NEW m \in Nat, NEW n \in Nat, m <= n,
           Joins(f, ss, m), Joins(g, ss, n)
    PROVE  \A i \in 1 .. m : f[i] = g[i]
<1> DEFINE T == {i \in Nat : i \in 1 .. m => f[i] = g[i]}
<1>1. 0 \in T
  OBVIOUS
<1>2. ASSUME NEW i \in Nat, i \in T PROVE i + 1 \in T
  <2> SUFFICES ASSUME i + 1 \in 1 .. m PROVE f[i + 1] = g[i + 1]
    OBVIOUS
  <2>1. i + 1 \in 1 .. n /\ (i + 1 # 1 => i \in 1 .. m) /\ i + 1 - 1 = i
    OBVIOUS
  <2>2. i + 1 # 1 => f[i] = g[i]
    BY <1>2, <2>1
  <2>3. f[i + 1] = IF i + 1 = 1 THEN ss[i + 1] ELSE f[i] \o ss[i + 1]
    <3> DEFINE k == i + 1
    <3>1. k \in 1 .. m /\ k - 1 = i
      BY <2>1
    <3> HIDE DEF k
    <3>2. f[k] = IF k = 1 THEN ss[k] ELSE f[k - 1] \o ss[k]
      BY <3>1, JoinsAt
    <3> QED
      BY <3>1, <3>2 DEF k
  <2>4. g[i + 1] = IF i + 1 = 1 THEN ss[i + 1] ELSE g[i] \o ss[i + 1]
    <3> DEFINE k == i + 1
    <3>1. k \in 1 .. n /\ k - 1 = i
      BY <2>1
    <3> HIDE DEF k
    <3>2. g[k] = IF k = 1 THEN ss[k] ELSE g[k - 1] \o ss[k]
      BY <3>1, JoinsAt
    <3> QED
      BY <3>1, <3>2 DEF k
  <2> QED
    BY <2>2, <2>3, <2>4
<1> HIDE DEF T
<1>3. Nat \subseteq T
  BY <1>1, <1>2, InductiveSet
<1> QED
  BY <1>3 DEF T

\* The first n of ss put together.
Joined(ss, n) == FlattenSeq(SubSeq(ss, 1, n))

LEMMA JoinedIs ==
    ASSUME NEW C, NEW ss \in Seq(C), NEW n \in 1 .. Len(ss)
    PROVE  \E f : Joins(f, ss, n) /\ Joined(ss, n) = f[n]
<1> DEFINE s == SubSeq(ss, 1, n)
           flatten == CHOOSE f : f = [i \in 1 .. Len(s) |->
                          IF i = 1 THEN s[i] ELSE f[i - 1] \o s[i]]
<1>1. Len(s) = n /\ n \in Nat /\ n # 0 /\ \A i \in 1 .. n : s[i] = ss[i]
  BY SubSeqProperties
<1>2. Joined(ss, n) = flatten[n]
  BY <1>1 DEF Joined, FlattenSeq
<1> HIDE DEF s
<1>3. \A f : Joins(f, ss, n) <=> f = [i \in 1 .. Len(s) |->
                          IF i = 1 THEN s[i] ELSE f[i - 1] \o s[i]]
  <2> TAKE f
  <2>1. [i \in 1 .. n |-> IF i = 1 THEN ss[i] ELSE f[i - 1] \o ss[i]]
           = [i \in 1 .. Len(s) |-> IF i = 1 THEN s[i] ELSE f[i - 1] \o s[i]]
    BY <1>1
  <2> QED
    BY <2>1 DEF Joins
<1>4. PICK f : Joins(f, ss, n)
  BY <1>1, JoinsExist
<1>5. Joins(flatten, ss, n)
  BY <1>3, <1>4
<1> QED
  BY <1>2, <1>5

\* It is put together one after the other.
LEMMA JoinedSteps ==
    ASSUME NEW C, NEW ss \in Seq(Seq(C))
    PROVE  /\ Joined(ss, 0) = <<>>
           /\ \A n \in 0 .. Len(ss) - 1 : Joined(ss, n + 1) = Joined(ss, n) \o ss[n + 1]
           /\ \A n \in 0 .. Len(ss) : Joined(ss, n) \in Seq(C)
           /\ Joined(ss, Len(ss)) = FlattenSeq(ss)
<1>1. Joined(ss, 0) = <<>>
  <2>1. SubSeq(ss, 1, 0) = <<>>
    BY SubSeqEmpty
  <2> QED
    BY <2>1 DEF Joined, FlattenSeq
<1>2. ASSUME NEW n \in 1 .. Len(ss) PROVE Joined(ss, n) = Joined(ss, n - 1) \o ss[n]
  <2>1. PICK f : Joins(f, ss, n) /\ Joined(ss, n) = f[n]
    BY JoinedIs
  <2>2. f[n] = IF n = 1 THEN ss[n] ELSE f[n - 1] \o ss[n]
    <3>1. n \in 1 .. n
      OBVIOUS
    <3> QED
      BY <2>1, <3>1, JoinsAt
  <2>3. CASE n = 1
    <3>1. ss[1] \in Seq(C)
      BY <2>3
    <3>2. <<>> \o ss[1] = ss[1]
      BY <3>1, ConcatEmptySeq
    <3> QED
      BY <1>1, <2>1, <2>2, <2>3, <3>2
  <2>4. CASE n # 1
    <3>1. n - 1 \in 1 .. Len(ss) /\ n - 1 \in Nat /\ n \in Nat /\ n - 1 <= n
      BY <2>4
    <3>2. PICK g : Joins(g, ss, n - 1) /\ Joined(ss, n - 1) = g[n - 1]
      BY <3>1, JoinedIs
    <3>3. \A i \in 1 .. n - 1 : g[i] = f[i]
      BY <2>1, <3>1, <3>2, JoinsAgree
    <3>4. n - 1 \in 1 .. n - 1
      BY <3>1
    <3>5. g[n - 1] = f[n - 1]
      BY <3>3, <3>4
    <3> QED
      BY <2>1, <2>2, <2>4, <3>2, <3>5
  <2> QED
    BY <2>3, <2>4
<1>3. ASSUME NEW n \in 0 .. Len(ss) - 1
      PROVE  Joined(ss, n + 1) = Joined(ss, n) \o ss[n + 1]
  <2> DEFINE k == n + 1
  <2>1. k \in 1 .. Len(ss) /\ k - 1 = n
    OBVIOUS
  <2> HIDE DEF k
  <2>2. Joined(ss, k) = Joined(ss, k - 1) \o ss[k]
    BY <1>2, <2>1
  <2> QED
    BY <2>1, <2>2 DEF k
<1> DEFINE T == {n \in Nat : n \in 0 .. Len(ss) => Joined(ss, n) \in Seq(C)}
<1>4. 0 \in T
  BY <1>1, EmptySeq
<1>5. ASSUME NEW n \in Nat, n \in T PROVE n + 1 \in T
  <2> SUFFICES ASSUME n + 1 \in 0 .. Len(ss) PROVE Joined(ss, n + 1) \in Seq(C)
    OBVIOUS
  <2>1. n + 1 \in 1 .. Len(ss) /\ n + 1 - 1 = n /\ Joined(ss, n) \in Seq(C)
    BY <1>5
  <2>2. ss[n + 1] \in Seq(C)
    BY <2>1
  <2>3. Joined(ss, n + 1) = Joined(ss, n) \o ss[n + 1]
    BY <1>3, <2>1
  <2> QED
    BY <2>1, <2>2, <2>3, ConcatProperties
<1> HIDE DEF T
<1>6. Nat \subseteq T
  BY <1>4, <1>5, InductiveSet
<1>7. Joined(ss, Len(ss)) = FlattenSeq(ss)
  BY SubSeqFull DEF Joined
<1>8. \A n \in 0 .. Len(ss) : Joined(ss, n) \in Seq(C)
  BY <1>6 DEF T
<1> QED
  BY <1>1, <1>3, <1>7, <1>8
-----------------------------------------------------------------------------
(* A list in sections.                                                     *)

\* s has no element twice, and its elements come in the order of their parts.
InParts(s, part) ==
    /\ IsInjective(s)
    /\ \A p, q \in DOMAIN s : p < q => part[s[p]] <= part[s[q]]

InEarlierParts(s, t, part) == \A x \in ToSet(s), y \in ToSet(t) : part[x] < part[y]

LEMMA PartsJoin ==
    ASSUME NEW C, NEW part \in [C -> Nat], NEW s \in Seq(C), NEW t \in Seq(C),
           InParts(s, part), InParts(t, part),
           InEarlierParts(s, t, part)
    PROVE  /\ s \o t \in Seq(C)
           /\ InParts(s \o t, part)
           /\ \A x : x \in ToSet(s \o t) <=> x \in ToSet(s) \/ x \in ToSet(t)
<1> DEFINE r == s \o t
           left(p) == p \in 1 .. Len(s)
           right(p) == p - Len(s) \in 1 .. Len(t)
<1>1. /\ Len(s) \in Nat /\ DOMAIN s = 1 .. Len(s) /\ \A p \in 1 .. Len(s) : s[p] \in C
      /\ Len(t) \in Nat /\ DOMAIN t = 1 .. Len(t) /\ \A p \in 1 .. Len(t) : t[p] \in C
  OBVIOUS
<1>2. /\ r \in Seq(C) /\ DOMAIN r = 1 .. Len(s) + Len(t)
      /\ \A p \in 1 .. Len(s) + Len(t) :
            r[p] = IF p <= Len(s) THEN s[p] ELSE t[p - Len(s)]
  BY ConcatProperties
<1> HIDE DEF r
<1>3. \A p \in DOMAIN r : \/ left(p) /\ r[p] = s[p]
                          \/ right(p) /\ ~left(p) /\ r[p] = t[p - Len(s)]
  BY <1>1, <1>2
<1>4. \A p \in DOMAIN s, q \in DOMAIN t : part[s[p]] < part[t[q]]
  BY DEF ToSet, InEarlierParts
<1>5. \A x \in C : part[x] \in Nat
  OBVIOUS
<1>6. ASSUME NEW p \in DOMAIN r, NEW q \in DOMAIN r, p < q
      PROVE  r[p] # r[q] /\ part[r[p]] <= part[r[q]]
  <2>0. p \in Int /\ q \in Int
    BY <1>1, <1>2
  <2>1. CASE left(p) /\ left(q)
    <3>1. r[p] = s[p] /\ r[q] = s[q] /\ p \in DOMAIN s /\ q \in DOMAIN s /\ p # q
      BY <1>1, <1>3, <1>6, <2>0, <2>1
    <3> QED
      BY <1>6, <3>1 DEF InParts, IsInjective
  <2>2. CASE left(p) /\ ~left(q)
    <3>1. r[p] = s[p] /\ r[q] = t[q - Len(s)] /\ p \in DOMAIN s /\ q - Len(s) \in DOMAIN t
      BY <1>1, <1>3, <2>2
    <3>2. part[r[p]] < part[r[q]] /\ part[r[p]] \in Nat /\ part[r[q]] \in Nat
      BY <1>1, <1>4, <1>5, <3>1
    <3> QED
      BY <3>2
  <2>3. CASE ~left(p) /\ ~left(q)
    <3>1. /\ r[p] = t[p - Len(s)] /\ r[q] = t[q - Len(s)]
          /\ p - Len(s) \in DOMAIN t /\ q - Len(s) \in DOMAIN t
      BY <1>1, <1>3, <2>3
    <3>2. p - Len(s) < q - Len(s) /\ p - Len(s) # q - Len(s)
      BY <1>1, <1>6, <2>0
    <3> QED
      BY <3>1, <3>2 DEF InParts, IsInjective
  <2>4. CASE ~left(p) /\ left(q)
    BY <1>1, <1>3, <1>6, <2>0, <2>4
  <2> QED
    BY <2>1, <2>2, <2>3, <2>4
<1>7. InParts(r, part)
  <2>1. \A p, q \in DOMAIN r : p < q \/ p = q \/ q < p
    BY <1>1, <1>2
  <2> QED
    BY <1>6, <2>1 DEF InParts, IsInjective
<1>8. ToSet(r) = ToSet(s) \cup ToSet(t)
  <2>1. ToSet(r) \subseteq ToSet(s) \cup ToSet(t)
    BY <1>1, <1>3 DEF ToSet
  <2>2. ASSUME NEW p \in DOMAIN s PROVE s[p] \in ToSet(r)
    <3>1. p \in DOMAIN r /\ r[p] = s[p]
      BY <1>1, <1>2
    <3> QED
      BY <3>1 DEF ToSet
  <2>3. ASSUME NEW p \in DOMAIN t PROVE t[p] \in ToSet(r)
    <3> DEFINE k == p + Len(s)
    <3>1. k \in DOMAIN r /\ ~(k <= Len(s)) /\ k - Len(s) = p
      BY <1>1, <1>2
    <3> HIDE DEF k
    <3>2. r[k] = t[p]
      BY <1>2, <3>1
    <3> QED
      BY <3>1, <3>2 DEF ToSet
  <2> QED
    BY <2>1, <2>2, <2>3 DEF ToSet
<1> QED
  BY <1>2, <1>7, <1>8 DEF r

\* One section after the other.
LEMMA SectionsJoin ==
    ASSUME NEW C, NEW part \in [C -> Nat], NEW ss \in Seq(Seq(C)),
           \A n \in 1 .. Len(ss) : IsInjective(ss[n]) /\ \A x \in ToSet(ss[n]) : part[x] = n
    PROVE  /\ FlattenSeq(ss) \in Seq(C)
           /\ InParts(FlattenSeq(ss), part)
           /\ \A x : x \in ToSet(FlattenSeq(ss)) <=> \E n \in 1 .. Len(ss) : x \in ToSet(ss[n])
           /\ \A x \in ToSet(FlattenSeq(ss)) : part[x] <= Len(ss)
<1> DEFINE OK(n) ==
        /\ InParts(Joined(ss, n), part)
        /\ \A x : x \in ToSet(Joined(ss, n)) <=> \E k \in 1 .. n : x \in ToSet(ss[k])
        /\ \A x \in ToSet(Joined(ss, n)) : part[x] <= n
           T == {n \in Nat : n \in 0 .. Len(ss) => OK(n)}
<1>0. Len(ss) \in Nat /\ \A n \in 0 .. Len(ss) : Joined(ss, n) \in Seq(C)
  BY JoinedSteps
<1>1. 0 \in T
  <2>1. Joined(ss, 0) = <<>> /\ DOMAIN <<>> = {}
    BY JoinedSteps
  <2>2. ToSet(Joined(ss, 0)) = {}
    BY <2>1 DEF ToSet
  <2>3. InParts(Joined(ss, 0), part)
    BY <2>1 DEF InParts, IsInjective
  <2> QED
    BY <2>2, <2>3
<1>2. ASSUME NEW m \in Nat, m \in T PROVE m + 1 \in T
  <2> SUFFICES ASSUME m + 1 \in 0 .. Len(ss) PROVE OK(m + 1)
    OBVIOUS
  <2> DEFINE sofar == Joined(ss, m)
             piece == ss[m + 1]
  <2>1. m + 1 \in 1 .. Len(ss) /\ m \in 0 .. Len(ss) /\ m \in 0 .. Len(ss) - 1
    BY <1>0
  <2>2. OK(m)
    BY <1>2, <2>1
  <2>3. sofar \in Seq(C) /\ piece \in Seq(C) /\ Joined(ss, m + 1) = sofar \o piece
    BY <1>0, <2>1, JoinedSteps
  <2>4. IsInjective(piece) /\ \A x \in ToSet(piece) : part[x] = m + 1
    BY <2>1
  <2>5. \A x \in ToSet(sofar) : x \in C /\ part[x] \in Nat /\ part[x] <= m
    BY <2>2, <2>3 DEF ToSet
  <2> HIDE DEF OK, T, sofar, piece
  <2>6. InParts(piece, part)
    <3>1. \A p \in DOMAIN piece : piece[p] \in ToSet(piece)
      BY DEF ToSet
    <3> QED
      BY <2>4, <3>1 DEF InParts
  <2>7. InEarlierParts(sofar, piece, part)
    BY <2>4, <2>5 DEF InEarlierParts
  <2>8. /\ InParts(sofar, part)
        /\ \A x : x \in ToSet(sofar) <=> \E k \in 1 .. m : x \in ToSet(ss[k])
    BY <2>2 DEF OK, sofar
  <2>9. /\ InParts(Joined(ss, m + 1), part)
        /\ \A x : x \in ToSet(Joined(ss, m + 1)) <=> x \in ToSet(sofar) \/ x \in ToSet(piece)
    <3>1. InParts(sofar, part)
      BY <2>8
    <3>2. InParts(sofar \o piece, part)
      BY <2>3, <2>6, <2>7, <3>1, PartsJoin
    <3>3. \A x : x \in ToSet(sofar \o piece) <=> x \in ToSet(sofar) \/ x \in ToSet(piece)
      BY <2>3, <2>6, <2>7, <3>1, PartsJoin
    <3> QED
      BY <2>3, <3>2, <3>3
  <2>10. ASSUME NEW x
         PROVE  x \in ToSet(Joined(ss, m + 1)) <=> \E k \in 1 .. m + 1 : x \in ToSet(ss[k])
    <3>1. \A k \in 1 .. m + 1 : k \in 1 .. m \/ k = m + 1
      OBVIOUS
    <3>2. \A k \in 1 .. m : k \in 1 .. m + 1
      OBVIOUS
    <3>3. m + 1 \in 1 .. m + 1
      OBVIOUS
    <3>4. (\E k \in 1 .. m + 1 : x \in ToSet(ss[k]))
             <=> (\E k \in 1 .. m : x \in ToSet(ss[k])) \/ x \in ToSet(piece)
      BY <3>1, <3>2, <3>3 DEF piece
    <3>5. x \in ToSet(sofar) <=> \E k \in 1 .. m : x \in ToSet(ss[k])
      BY <2>8
    <3> QED
      BY <2>9, <3>4, <3>5
  <2>11. ASSUME NEW x \in ToSet(Joined(ss, m + 1)) PROVE part[x] <= m + 1
    <3>1. CASE x \in ToSet(sofar)
      BY <2>5, <3>1
    <3>2. CASE x \in ToSet(piece)
      BY <2>4, <3>2
    <3> QED
      BY <2>9, <3>1, <3>2
  <2> QED
    BY <2>9, <2>10, <2>11 DEF OK
<1> HIDE DEF T, OK
<1>3. Nat \subseteq T
  BY <1>1, <1>2, InductiveSet
<1>4. OK(Len(ss))
  BY <1>0, <1>3 DEF T
<1>5. Joined(ss, Len(ss)) = FlattenSeq(ss)
  BY JoinedSteps
<1> QED
  BY <1>0, <1>4, <1>5 DEF OK
-----------------------------------------------------------------------------
(* Ranking.                                                                *)

\* What a host of the list is ranked by.
LEMMA RankedBy ==
    ASSUME NEW h \in HostType, NEW q \in Queries, NEW u \in [Ids -> Nat], NEW sort
    PROVE  Points(h, q) \in Nat /\ Used(h, q, u, sort) \in Nat /\ h.name \in Int
<1>1. h.id \in Ids /\ h.name \in Names /\ h.site \in SiteNames \cup {None}
  BY DEF HostType
<1>2. q.text \in Texts \cup {None}
  BY DEF Queries
<1>3. Score \in [Texts \X Names \X (SiteNames \cup {None}) -> Nat]
  BY HostListAssumption
<1>0. Names \subseteq Int
  BY HostListAssumption
<1>4. ASSUME q.text # None PROVE Score[<<q.text, h.name, h.site>>] \in Nat
  <2>1. <<q.text, h.name, h.site>> \in Texts \X Names \X (SiteNames \cup {None})
    BY <1>1, <1>2, <1>4
  <2> QED
    BY <1>3, <2>1
<1>5. Points(h, q) \in Nat
  BY <1>4 DEF Points
<1>6. Used(h, q, u, sort) \in Nat
  BY <1>1 DEF Used
<1> QED
  BY <1>0, <1>1, <1>5, <1>6

\* The comparison, term by term.
LEMMA BeforeIs ==
    ASSUME NEW hs, NEW q, NEW u, NEW sort, NEW i, NEW j,
           NEW a, a = hs[i], NEW b, b = hs[j]
    PROVE  Before(hs, q, u, sort, i, j) <=>
               \/ -Points(a, q) < -Points(b, q)
               \/ /\ -Points(a, q) = -Points(b, q)
                  /\ \/ -Used(a, q, u, sort) < -Used(b, q, u, sort)
                     \/ /\ -Used(a, q, u, sort) = -Used(b, q, u, sort)
                        /\ a.name < b.name \/ (a.name = b.name /\ i < j)
<1> DEFINE key(h) == <<-Points(h, q), -Used(h, q, u, sort), h.name>>
           at(n) == /\ \A m \in 1 .. (n - 1) : key(a)[m] = key(b)[m]
                    /\ IF n = 4 THEN i < j ELSE key(a)[n] < key(b)[n]
<1>1. Before(hs, q, u, sort, i, j) <=> \E n \in 1 .. 4 : at(n)
  BY DEF Before
<1>2. \A h : /\ key(h)[1] = -Points(h, q)
             /\ key(h)[2] = -Used(h, q, u, sort)
             /\ key(h)[3] = h.name
  OBVIOUS
<1> HIDE DEF key
<1>3. at(1) <=> key(a)[1] < key(b)[1]
  OBVIOUS
<1>4. at(2) <=> key(a)[1] = key(b)[1] /\ key(a)[2] < key(b)[2]
  OBVIOUS
<1>5. at(3) <=> key(a)[1] = key(b)[1] /\ key(a)[2] = key(b)[2] /\ key(a)[3] < key(b)[3]
  OBVIOUS
<1>6. at(4) <=> /\ key(a)[1] = key(b)[1] /\ key(a)[2] = key(b)[2] /\ key(a)[3] = key(b)[3]
                /\ i < j
  OBVIOUS
<1> HIDE DEF at
<1>7. (\E n \in 1 .. 4 : at(n)) <=> at(1) \/ at(2) \/ at(3) \/ at(4)
  OBVIOUS
<1> QED
  BY <1>1, <1>2, <1>3, <1>4, <1>5, <1>6, <1>7

\* Each host that matches is ranked, once.
LEMMA RankIsWhole ==
    ASSUME NEW hs \in Seq(HostType), NEW q \in Queries, NEW u \in [Ids -> Nat], NEW sort
    PROVE  /\ Rank(hs, q, u, sort) \in Seq(DOMAIN hs)
           /\ IsInjective(Rank(hs, q, u, sort))
           /\ ToSet(Rank(hs, q, u, sort)) = {i \in DOMAIN hs : Matches(hs[i], q)}
<1> DEFINE S == {i \in DOMAIN hs : Matches(hs[i], q)}
           before == {x \in S \X S : Before(hs, q, u, sort, x[1], x[2])}
           r == Sorted(S, before)
<1>1. DOMAIN hs = 1 .. Len(hs) /\ Len(hs) \in Nat /\ \A i \in DOMAIN hs : hs[i] \in HostType
  OBVIOUS
<1>2. IsFiniteSet(S)
  <2>1. IsFiniteSet(DOMAIN hs)
    BY <1>1, FS_Interval
  <2>2. S \in SUBSET DOMAIN hs
    OBVIOUS
  <2> QED
    BY <2>1, <2>2, FS_Subset
<1> DEFINE p(i) == -Points(hs[i], q)
           v(i) == -Used(hs[i], q, u, sort)
           n(i) == hs[i].name
<1>3. ASSUME NEW i \in S PROVE p(i) \in Int /\ v(i) \in Int /\ n(i) \in Int /\ i \in Int
  <2>1. hs[i] \in HostType /\ i \in Int
    BY <1>1
  <2>2. Points(hs[i], q) \in Nat /\ Used(hs[i], q, u, sort) \in Nat /\ hs[i].name \in Int
    BY <2>1, RankedBy
  <2> QED
    BY <2>1, <2>2
<1>4. \A i, j \in S : <<i, j>> \in before <=>
          \/ p(i) < p(j)
          \/ p(i) = p(j) /\ (v(i) < v(j) \/ (v(i) = v(j) /\ (n(i) < n(j) \/ (n(i) = n(j) /\ i < j))))
  <2> TAKE i, j \in S
  <2>1. <<i, j>> \in before <=> Before(hs, q, u, sort, i, j)
    OBVIOUS
  <2> QED
    BY <2>1, BeforeIs
<1>5. Rank(hs, q, u, sort) = r
  BY DEF Rank
<1> HIDE DEF before, p, v, n
<1>6. StrictOrder(S, before)
  <2>1. \A i \in S : <<i, i>> \notin before
    BY <1>3, <1>4
  <2>2. ASSUME NEW i \in S, NEW j \in S, i # j
        PROVE  <<i, j>> \in before \/ <<j, i>> \in before
    <3>1. /\ p(i) \in Int /\ v(i) \in Int /\ n(i) \in Int /\ i \in Int
          /\ p(j) \in Int /\ v(j) \in Int /\ n(j) \in Int /\ j \in Int
      BY <1>3
    <3> QED
      BY <1>4, <2>2, <3>1
  <2>3. ASSUME NEW i \in S, NEW j \in S, NEW k \in S, <<i, j>> \in before, <<j, k>> \in before
        PROVE  <<i, k>> \in before
    <3>1. /\ p(i) \in Int /\ v(i) \in Int /\ n(i) \in Int /\ i \in Int
          /\ p(j) \in Int /\ v(j) \in Int /\ n(j) \in Int /\ j \in Int
          /\ p(k) \in Int /\ v(k) \in Int /\ n(k) \in Int /\ k \in Int
      BY <1>3
    <3>2. \/ p(i) < p(j)
          \/ p(i) = p(j) /\ (v(i) < v(j) \/ (v(i) = v(j) /\ (n(i) < n(j) \/ (n(i) = n(j) /\ i < j))))
      BY <1>4, <2>3
    <3>3. \/ p(j) < p(k)
          \/ p(j) = p(k) /\ (v(j) < v(k) \/ (v(j) = v(k) /\ (n(j) < n(k) \/ (n(j) = n(k) /\ j < k))))
      BY <1>4, <2>3
    <3>4. \/ p(i) < p(k)
          \/ p(i) = p(k) /\ (v(i) < v(k) \/ (v(i) = v(k) /\ (n(i) < n(k) \/ (n(i) = n(k) /\ i < k))))
      BY <3>1, <3>2, <3>3
    <3> QED
      BY <1>4, <3>4
  <2> QED
    BY <2>1, <2>2, <2>3 DEF StrictOrder
<1> HIDE DEF S
<1>7. r \in Seq(S) /\ IsInjective(r) /\ ToSet(r) = S
  BY <1>2, <1>6, SortedEnumerates
<1>8. S \subseteq DOMAIN hs
  BY DEF S
<1>9. r \in Seq(DOMAIN hs)
  BY <1>7, <1>8, SeqMonotonic
<1> QED
  BY <1>5, <1>7, <1>9 DEF S
-----------------------------------------------------------------------------
(* Sections of hosts.                                                      *)

\* What is retained of a sequence is one over the same set.
LEMMA RetainedType ==
    ASSUME NEW C, NEW s \in Seq(C), NEW keep
    PROVE  Retained(s, keep) \in Seq(C)
<1>1. Len(s) \in Nat /\ \A n \in 1 .. Len(s) : s[n] \in C
  OBVIOUS
<1>2. PICK f : Unfolds(f, s, keep, Len(s)) /\ Retained(s, keep) = f[Len(s)]
  BY <1>1, RetainedUnfolds
<1>3. \A n \in 0 .. Len(s) : f[n] = IF n = 0 THEN <<>>
                                   ELSE IF s[n] \in keep THEN Append(f[n - 1], s[n])
                                   ELSE f[n - 1]
  BY <1>2 DEF Unfolds
<1> DEFINE T == {n \in Nat : n <= Len(s) => f[n] \in Seq(C)}
<1>4. 0 \in T
  <2>1. f[0] = <<>>
    BY <1>1, <1>3
  <2>2. <<>> \in Seq(C)
    OBVIOUS
  <2> QED
    BY <2>1, <2>2
<1>5. ASSUME NEW n \in Nat, n \in T PROVE n + 1 \in T
  <2> SUFFICES ASSUME n + 1 <= Len(s) PROVE f[n + 1] \in Seq(C)
    OBVIOUS
  <2> DEFINE r == f[n]
             x == s[n + 1]
  <2>1. r \in Seq(C)
    BY <1>1, <1>5
  <2>2. f[n + 1] = IF x \in keep THEN Append(r, x) ELSE r
    BY <1>1, <1>3
  <2>3. x \in C
    BY <1>1
  <2> HIDE DEF r, x, T
  <2> QED
    BY <2>1, <2>2, <2>3
<1>6. Nat \subseteq T
  <2> HIDE DEF T
  <2> QED
    BY <1>4, <1>5, InductiveSet
<1> DEFINE m == Len(s)
<1>7. m \in T /\ m \in Nat
  BY <1>1, <1>6
<1> HIDE DEF m
<1>8. f[m] \in Seq(C)
  <2>1. m <= Len(s)
    BY <1>7 DEF m
  <2> QED
    BY <1>7, <2>1
<1> QED
  BY <1>2, <1>8 DEF m

\* The elements of keep are retained, in a sequence that repeats none if s does not.
LEMMA RetainedSet ==
    ASSUME NEW C, NEW s \in Seq(C), IsInjective(s), NEW keep
    PROVE  /\ Retained(s, keep) \in Seq(C)
           /\ IsInjective(Retained(s, keep))
           /\ \A x : x \in ToSet(Retained(s, keep)) <=> x \in ToSet(s) /\ x \in keep
<1>1. /\ DOMAIN s = 1 .. Len(s) /\ Len(s) \in Nat /\ \A n \in 1 .. Len(s) : s[n] \in C
      /\ \A i, j \in 1 .. Len(s) : s[i] = s[j] => i = j
  BY DEF IsInjective
<1>2. PICK f : Unfolds(f, s, keep, Len(s)) /\ Retained(s, keep) = f[Len(s)]
  BY <1>1, RetainedUnfolds
<1>3. \A n \in 0 .. Len(s) : f[n] = IF n = 0 THEN <<>>
                                   ELSE IF s[n] \in keep THEN Append(f[n - 1], s[n])
                                   ELSE f[n - 1]
  BY <1>2 DEF Unfolds
<1> DEFINE Left(r, n) ==
               /\ r \in Seq(C) /\ IsInjective(r)
               /\ \A x : x \in ToSet(r) <=> x \in keep /\ \E i \in 1 .. n : x = s[i]
           T == {n \in Nat : n <= Len(s) => Left(f[n], n)}
<1>4. 0 \in T
  <2>1. f[0] = <<>>
    BY <1>1, <1>3
  <2>2. Left(<<>>, 0)
    BY DEF ToSet, IsInjective
  <2> QED
    BY <2>1, <2>2
<1>5. ASSUME NEW n \in Nat, n \in T PROVE n + 1 \in T
  <2> SUFFICES ASSUME n + 1 <= Len(s) PROVE Left(f[n + 1], n + 1)
    OBVIOUS
  <2> DEFINE r == f[n]
             x == s[n + 1]
             q == Append(r, x)
  <2>1. Left(r, n)
    BY <1>1, <1>5
  <2>2. f[n + 1] = IF x \in keep THEN q ELSE r
    BY <1>1, <1>3
  <2>3. x \in C /\ n + 1 \in 1 .. Len(s)
    BY <1>1
  <2> HIDE DEF r, T
  <2>4. r \in Seq(C) /\ DOMAIN r = 1 .. Len(r) /\ Len(r) \in Nat /\ IsInjective(r)
    BY <2>1
  <2>5. \A y : y \in ToSet(r) <=> y \in keep /\ \E i \in 1 .. n : y = s[i]
    BY <2>1
  <2>6. \A i \in 1 .. n + 1 : i \in 1 .. n \/ i = n + 1
    OBVIOUS
  <2>7. 1 .. n \subseteq 1 .. n + 1 /\ n + 1 \in 1 .. n + 1
    OBVIOUS
  <2>8. \A i \in 1 .. n : s[i] # x
    BY <1>1, <2>3
  <2> HIDE DEF x
  <2>9. CASE x \notin keep
    <3>1. \A y : y \in ToSet(r) <=> y \in keep /\ \E i \in 1 .. n + 1 : y = s[i]
      BY <2>5, <2>6, <2>7, <2>9 DEF x
    <3> QED
      BY <2>2, <2>4, <2>9, <3>1
  <2>10. CASE x \in keep
    <3>1. /\ q \in Seq(C) /\ Len(q) = Len(r) + 1 /\ DOMAIN q = 1 .. Len(r) + 1
          /\ \A j \in 1 .. Len(r) : q[j] = r[j]
          /\ q[Len(r) + 1] = x
      BY <2>3, <2>4, AppendProperties
    <3>2. \A j \in 1 .. Len(r) + 1 : j \in 1 .. Len(r) \/ j = Len(r) + 1
      BY <2>4
    <3>3. 1 .. Len(r) \subseteq 1 .. Len(r) + 1 /\ Len(r) + 1 \in 1 .. Len(r) + 1
      BY <2>4
    <3> HIDE DEF q
    <3>4. \A y : y \in ToSet(q) <=> y \in ToSet(r) \/ y = x
      BY <2>4, <3>1, <3>2, <3>3 DEF ToSet
    <3>5. x \notin ToSet(r)
      BY <2>5, <2>8
    <3>6. IsInjective(q)
      <4>1. \A j \in 1 .. Len(r) : q[j] # x
        BY <2>4, <3>1, <3>5 DEF ToSet
      <4> QED
        BY <2>4, <3>1, <3>2, <4>1 DEF IsInjective
    <3>7. \A y : y \in ToSet(q) <=> y \in keep /\ \E i \in 1 .. n + 1 : y = s[i]
      BY <2>5, <2>6, <2>7, <2>10, <3>4 DEF x
    <3> QED
      BY <2>2, <2>10, <3>1, <3>6, <3>7
  <2> QED
    BY <2>9, <2>10
<1> HIDE DEF T
<1>6. Nat \subseteq T
  BY <1>4, <1>5, InductiveSet
<1>7. Left(f[Len(s)], Len(s))
  <2> DEFINE m == Len(s)
  <2>1. m \in T /\ m \in Nat /\ m = Len(s)
    BY <1>1, <1>6
  <2> HIDE DEF m, Left
  <2>2. Left(f[m], m)
    BY <2>1 DEF T
  <2> QED
    BY <2>1, <2>2
<1>8. \A x : x \in ToSet(s) <=> \E i \in 1 .. Len(s) : x = s[i]
  BY <1>1 DEF ToSet
<1> QED
  BY <1>2, <1>7, <1>8

\* The keys: those of the hosts that are shown, each once.
LEMMA SectionKeysAre ==
    ASSUME NEW hs \in Seq(HostType), NEW ranked \in Seq(DOMAIN hs)
    PROVE  /\ SectionKeys(hs, ranked) \in Seq(SiteNames)
           /\ IsInjective(SectionKeys(hs, ranked))
           /\ \A k : k \in ToSet(SectionKeys(hs, ranked)) <=>
                  \E i \in ToSet(ranked) : hs[i].site # None /\ k = Lower[hs[i].site]
<1> DEFINE J == {j \in ToSet(ranked) : hs[j].site # None}
           S == {Lower[hs[i].site] : i \in J}
           before == {x \in S \X S : Alphabet[x[1]] < Alphabet[x[2]]}
           f == [i \in J |-> Lower[hs[i].site]]
<1>1. ToSet(ranked) \subseteq DOMAIN hs /\ DOMAIN hs = 1 .. Len(hs) /\ Len(hs) \in Nat
  BY DEF ToSet
<1>2. \A i \in J : hs[i].site \in SiteNames
  <2> TAKE i \in J
  <2>1. hs[i] \in HostType /\ hs[i].site # None
    BY <1>1
  <2> QED
    BY <2>1 DEF HostType
<1>3. IsFiniteSet(S)
  <2>1. IsFiniteSet(DOMAIN hs)
    BY <1>1, FS_Interval
  <2>2. J \in SUBSET DOMAIN hs
    BY <1>1
  <2>3. IsFiniteSet(J)
    BY <2>1, <2>2, FS_Subset
  <2>4. f \in Surjection(J, S)
    BY DEF Surjection
  <2> HIDE DEF f, J, S
  <2> QED
    BY <2>3, <2>4, FS_Surjection
<1>4. S \subseteq SiteNames /\ \A k \in S : \E t \in SiteNames : k = Lower[t]
  BY <1>2, HostListAssumption
<1>5. \A k \in S : Alphabet[k] \in Int
  BY <1>4, HostListAssumption
<1>6. ASSUME NEW k \in S, NEW l \in S, Alphabet[k] = Alphabet[l] PROVE k = l
  <2>1. PICK t \in SiteNames : k = Lower[t]
    BY <1>4
  <2>2. PICK w \in SiteNames : l = Lower[w]
    BY <1>4
  <2>3. Alphabet[Lower[t]] = Alphabet[Lower[w]]
    BY <1>6, <2>1, <2>2
  <2> QED
    BY <2>1, <2>2, <2>3, HostListAssumption
<1>7. \A k, l \in S : <<k, l>> \in before <=> Alphabet[k] < Alphabet[l]
  OBVIOUS
<1>8. SectionKeys(hs, ranked) = Sorted(S, before)
  BY DEF SectionKeys
<1>9. \A k : k \in S <=> \E i \in ToSet(ranked) : hs[i].site # None /\ k = Lower[hs[i].site]
  OBVIOUS
<1> HIDE DEF before, S
<1>10. StrictOrder(S, before)
  <2>1. \A k \in S : <<k, k>> \notin before
    BY <1>5, <1>7
  <2>2. ASSUME NEW k \in S, NEW l \in S, k # l
        PROVE  <<k, l>> \in before \/ <<l, k>> \in before
    <3>1. Alphabet[k] \in Int /\ Alphabet[l] \in Int /\ Alphabet[k] # Alphabet[l]
      BY <1>5, <1>6, <2>2
    <3> QED
      BY <1>7, <3>1
  <2>3. ASSUME NEW k \in S, NEW l \in S, NEW m \in S, <<k, l>> \in before, <<l, m>> \in before
        PROVE  <<k, m>> \in before
    <3>1. /\ Alphabet[k] \in Int /\ Alphabet[l] \in Int /\ Alphabet[m] \in Int
          /\ Alphabet[k] < Alphabet[l] /\ Alphabet[l] < Alphabet[m]
      BY <1>5, <1>7, <2>3
    <3> QED
      BY <1>7, <3>1
  <2> QED
    BY <2>1, <2>2, <2>3 DEF StrictOrder
<1>11. /\ Sorted(S, before) \in Seq(S) /\ IsInjective(Sorted(S, before))
       /\ ToSet(Sorted(S, before)) = S
  BY <1>3, <1>10, SortedEnumerates
<1>12. Sorted(S, before) \in Seq(SiteNames)
  BY <1>4, <1>11, SeqMonotonic
<1> QED
  BY <1>8, <1>9, <1>11, <1>12

\* The hosts of a section, or without one, are next to each other.
Together(hs, list) ==
    \A p, q \in DOMAIN list : \A r \in p .. q :
        SectionKey(hs[list[p]]) = SectionKey(hs[list[q]])
            => SectionKey(hs[list[r]]) = SectionKey(hs[list[q]])

\* The list in sections has each host that one of them takes, once.
LEMMA GroupOrderIsWhole ==
    ASSUME NEW hs \in Seq(HostType), NEW ranked \in Seq(DOMAIN hs), IsInjective(ranked)
    PROVE  /\ GroupOrder(hs, ranked) \in Seq(DOMAIN hs)
           /\ IsInjective(GroupOrder(hs, ranked))
           /\ \A i : i \in ToSet(GroupOrder(hs, ranked))
                         <=> i \in ToSet(ranked) /\ ~Unsectioned(hs[i])
           /\ Together(hs, GroupOrder(hs, ranked))
<1> DEFINE D == DOMAIN hs
           keys == SectionKeys(hs, ranked)
           K == Len(keys)
           ss == Sections(hs, ranked)
           rest == Retained(ranked, Siteless(hs))
           g == GroupOrder(hs, ranked)
           part == [i \in D |-> IF hs[i].site = None THEN K + 1
                                ELSE IF \E n \in 1 .. K : keys[n] = SectionKey(hs[i])
                                THEN CHOOSE n \in 1 .. K : keys[n] = SectionKey(hs[i])
                                ELSE 0]
<1>1. /\ keys \in Seq(SiteNames) /\ IsInjective(keys)
      /\ K \in Nat /\ DOMAIN keys = 1 .. K /\ \A n \in 1 .. K : keys[n] \in SiteNames
      /\ \A k : k \in ToSet(keys) <=>
                    \E i \in ToSet(ranked) : hs[i].site # None /\ k = Lower[hs[i].site]
  BY SectionKeysAre
<1>2. ToSet(ranked) \subseteq D
  BY DEF ToSet
<1>3. \A i \in D : hs[i].site \in SiteNames \cup {None}
  <2>1. \A i \in D : hs[i] \in HostType
    OBVIOUS
  <2> QED
    BY <2>1 DEF HostType
<1>4. /\ DOMAIN ss = 1 .. K /\ Len(ss) = K /\ ss \in Seq(Seq(D))
      /\ \A n \in 1 .. K : ss[n] = Retained(ranked, Sectioned(hs, keys[n]))
  <2>1. ss = [n \in 1 .. K |-> Retained(ranked, Sectioned(hs, keys[n]))]
    BY <1>1 DEF Sections
  <2>2. \A n \in 1 .. K : Retained(ranked, Sectioned(hs, keys[n])) \in Seq(D)
    BY RetainedSet
  <2> HIDE DEF keys, K, ss, D
  <2>3. ss \in [1 .. K -> Seq(D)]
    BY <2>1, <2>2
  <2> QED
    BY <1>1, <2>1, <2>3
<1>5. g = FlattenSeq(ss) \o rest
  BY DEF GroupOrder
<1>6. /\ rest \in Seq(D) /\ IsInjective(rest)
      /\ \A x : x \in ToSet(rest) <=> x \in ToSet(ranked) /\ x \in Siteless(hs)
  BY RetainedSet
<1>7. \A n \in 1 .. K :
          /\ IsInjective(ss[n])
          /\ \A x : x \in ToSet(ss[n]) <=> x \in ToSet(ranked) /\ x \in Sectioned(hs, keys[n])
  BY <1>4, RetainedSet
<1> HIDE DEF keys, K, ss, rest, g, D
\* The key of a host's section is that of the host,
<1>8. ASSUME NEW n \in 1 .. K, NEW x \in D, x \in Sectioned(hs, keys[n])
      PROVE  SectionKey(hs[x]) = keys[n] /\ hs[x].site # None /\ ~Unsectioned(hs[x])
  <2>1. hs[x].site # None /\ hs[x].site \in SiteNames /\ SameSite(hs[x].site, keys[n])
    BY <1>3, <1>8 DEF Sectioned
  <2>2. keys[n] \in ToSet(keys)
    BY <1>1 DEF ToSet
  <2>3. PICK i \in ToSet(ranked) : hs[i].site # None /\ keys[n] = Lower[hs[i].site]
    BY <1>1, <2>2
  <2>4. hs[i].site \in SiteNames
    BY <1>2, <1>3, <2>3
  <2>5. Lower[hs[x].site] = keys[n]
    BY <2>1, <2>3, <2>4, HostListAssumption
  <2> QED
    BY <2>1, <2>5 DEF SectionKey, Unsectioned
\* and a host that can be in a section is.
<1>9. ASSUME NEW x \in ToSet(ranked), hs[x].site # None, ~Unsectioned(hs[x])
      PROVE  \E n \in 1 .. K : x \in Sectioned(hs, keys[n])
  <2>1. Lower[hs[x].site] \in ToSet(keys)
    BY <1>1, <1>9
  <2>2. PICK n \in 1 .. K : keys[n] = Lower[hs[x].site]
    BY <1>1, <2>1 DEF ToSet
  <2>3. x \in D
    BY <1>2
  <2> QED
    BY <1>9, <2>2, <2>3 DEF Sectioned, Unsectioned, D
<1>10. part \in [D -> Nat]
  <2>1. ASSUME NEW i \in D PROVE part[i] \in Nat
    BY <1>1
  <2> QED
    BY <2>1
<1>11. ASSUME NEW n \in 1 .. K, NEW x \in D, hs[x].site # None, SectionKey(hs[x]) = keys[n]
       PROVE  part[x] = n
  <2>1. \A m \in 1 .. K : keys[m] = SectionKey(hs[x]) => m = n
    BY <1>1, <1>11 DEF IsInjective
  <2>2. part[x] = CHOOSE m \in 1 .. K : keys[m] = SectionKey(hs[x])
    BY <1>11
  <2> QED
    BY <1>11, <2>1, <2>2
<1>12. \A x \in D : hs[x].site = None => part[x] = K + 1
  OBVIOUS
<1> HIDE DEF part
<1>13. /\ FlattenSeq(ss) \in Seq(D) /\ InParts(FlattenSeq(ss), part)
       /\ \A x : x \in ToSet(FlattenSeq(ss)) <=> \E n \in 1 .. K : x \in ToSet(ss[n])
       /\ \A x \in ToSet(FlattenSeq(ss)) : part[x] <= K
  <2>1. ASSUME NEW n \in 1 .. Len(ss)
        PROVE  IsInjective(ss[n]) /\ \A x \in ToSet(ss[n]) : part[x] = n
    BY <1>2, <1>4, <1>7, <1>8, <1>11
  <2> QED
    BY <1>4, <1>10, <2>1, SectionsJoin
<1>14. \A x \in ToSet(rest) : x \in D /\ part[x] = K + 1
  BY <1>2, <1>6, <1>12 DEF Siteless
<1>15. InParts(rest, part)
  <2>1. \A p \in DOMAIN rest : rest[p] \in ToSet(rest)
    BY DEF ToSet
  <2> QED
    BY <1>1, <1>6, <1>14, <2>1 DEF InParts
<1>16. InEarlierParts(FlattenSeq(ss), rest, part)
  <2>1. \A x \in ToSet(FlattenSeq(ss)) : x \in D
    BY <1>13 DEF ToSet
  <2> QED
    BY <1>1, <1>10, <1>13, <1>14, <2>1 DEF InEarlierParts
<1>17. /\ g \in Seq(D) /\ InParts(g, part)
       /\ \A x : x \in ToSet(g) <=> x \in ToSet(FlattenSeq(ss)) \/ x \in ToSet(rest)
  BY <1>5, <1>6, <1>10, <1>13, <1>15, <1>16, PartsJoin
<1>18. ASSUME NEW i
       PROVE  i \in ToSet(g) <=> i \in ToSet(ranked) /\ ~Unsectioned(hs[i])
  <2>1. CASE i \in ToSet(ranked) /\ hs[i].site = None
    <3>1. i \in Siteless(hs)
      BY <1>2, <2>1 DEF Siteless, D
    <3> QED
      BY <1>6, <1>17, <2>1, <3>1 DEF Unsectioned
  <2>2. CASE i \in ToSet(ranked) /\ hs[i].site # None
    <3>1. i \notin Siteless(hs) /\ i \in D
      BY <1>2, <2>2 DEF Siteless
    <3>2. i \in ToSet(g) <=> \E n \in 1 .. K : i \in ToSet(ss[n])
      BY <1>6, <1>13, <1>17, <3>1
    <3>3. i \in ToSet(g) <=> \E n \in 1 .. K : i \in Sectioned(hs, keys[n])
      BY <1>7, <2>2, <3>2
    <3> QED
      BY <1>8, <1>9, <2>2, <3>1, <3>3
  <2>3. CASE i \notin ToSet(ranked)
    BY <1>6, <1>7, <1>13, <1>17, <2>3
  <2> QED
    BY <2>1, <2>2, <2>3
<1>19. ASSUME NEW i \in ToSet(g)
       PROVE  /\ i \in D /\ part[i] \in Nat
              /\ \/ hs[i].site = None /\ part[i] = K + 1 /\ SectionKey(hs[i]) = None
                 \/ /\ part[i] \in 1 .. K /\ SectionKey(hs[i]) = keys[part[i]]
  <2>1. i \in ToSet(ranked) /\ i \in D
    BY <1>2, <1>18
  <2>2. CASE hs[i].site = None
    BY <1>10, <1>12, <2>1, <2>2 DEF SectionKey
  <2>3. CASE hs[i].site # None
    <3>1. PICK n \in 1 .. K : i \in Sectioned(hs, keys[n])
      BY <1>9, <1>18, <2>1, <2>3
    <3>2. SectionKey(hs[i]) = keys[n] /\ part[i] = n
      BY <1>8, <1>11, <2>1, <3>1
    <3> QED
      BY <1>10, <2>1, <3>2
  <2> QED
    BY <2>2, <2>3
<1>20. \A i, j \in ToSet(g) : SectionKey(hs[i]) = SectionKey(hs[j]) <=> part[i] = part[j]
  <2> TAKE i, j \in ToSet(g)
  <2>1. \A n \in 1 .. K : keys[n] # None
    BY <1>1, HostListAssumption
  <2>2. K + 1 \notin 1 .. K
    BY <1>1
  <2>3. \A n, m \in 1 .. K : keys[n] = keys[m] => n = m
    BY <1>1 DEF IsInjective
  <2> QED
    BY <1>19, <2>1, <2>2, <2>3
<1>21. Together(hs, g)
  <2> SUFFICES ASSUME NEW p \in DOMAIN g, NEW q \in DOMAIN g, NEW r \in p .. q,
                      SectionKey(hs[g[p]]) = SectionKey(hs[g[q]])
               PROVE  SectionKey(hs[g[r]]) = SectionKey(hs[g[q]])
    BY DEF Together
  <2>1. DOMAIN g = 1 .. Len(g) /\ Len(g) \in Nat
    BY <1>17
  <2>2. r \in DOMAIN g /\ p \in Int /\ q \in Int /\ r \in Int /\ p <= r /\ r <= q
    BY <2>1
  <2>3. g[p] \in ToSet(g) /\ g[q] \in ToSet(g) /\ g[r] \in ToSet(g)
    BY <2>2 DEF ToSet
  <2>4. part[g[p]] = part[g[q]]
    BY <1>20, <2>3
  <2>5. (p < r => part[g[p]] <= part[g[r]]) /\ (r < q => part[g[r]] <= part[g[q]])
    BY <1>17, <2>2 DEF InParts
  <2>6. part[g[p]] \in Nat /\ part[g[q]] \in Nat /\ part[g[r]] \in Nat
    BY <1>19, <2>3
  <2>7. part[g[r]] = part[g[q]]
    BY <2>2, <2>4, <2>5, <2>6
  <2> QED
    BY <1>20, <2>3, <2>7
<1> QED
  BY <1>17, <1>18, <1>21 DEF g, D, InParts
-----------------------------------------------------------------------------
(* Rows.                                                                   *)

\* The rows of the host in place p: itself, below a header if one is due.
RowsAt(hs, list, q) ==
    [p \in DOMAIN list |->
        IF ~q.typed /\ Headed(hs, list, p) THEN <<0, list[p]>> ELSE <<list[p]>>]

LEMMA RowsAtType ==
    ASSUME NEW hs \in Seq(HostType), NEW list \in Seq(DOMAIN hs), NEW q
    PROVE  /\ Rows(hs, list, q) = FlattenSeq(RowsAt(hs, list, q))
           /\ RowsAt(hs, list, q) \in Seq(Seq(Nat))
           /\ Len(RowsAt(hs, list, q)) = Len(list) /\ DOMAIN list = 1 .. Len(list)
           /\ Len(list) \in Nat /\ \A p \in 1 .. Len(list) : list[p] \in Nat \ {0}
<1> DEFINE rows == RowsAt(hs, list, q)
<1>1. DOMAIN list = 1 .. Len(list) /\ Len(list) \in Nat
  OBVIOUS
<1>2. \A p \in 1 .. Len(list) : list[p] \in Nat \ {0}
  <2>1. DOMAIN hs = 1 .. Len(hs)
    OBVIOUS
  <2> QED
    BY <2>1
<1>3. ASSUME NEW p \in 1 .. Len(list) PROVE rows[p] \in Seq(Nat)
  <2>1. list[p] \in Nat
    BY <1>2
  <2>2. <<0, list[p]>> \in Seq(Nat) /\ <<list[p]>> \in Seq(Nat)
    BY <2>1
  <2> QED
    BY <1>1, <2>2 DEF RowsAt
<1>4. rows = [p \in 1 .. Len(list) |-> rows[p]]
  BY <1>1 DEF RowsAt
<1>5. Rows(hs, list, q) = FlattenSeq(rows)
  BY DEF Rows, RowsAt
<1> HIDE DEF rows
<1>6. rows \in [1 .. Len(list) -> Seq(Nat)]
  BY <1>3, <1>4
<1>7. rows \in Seq(Seq(Nat)) /\ Len(rows) = Len(list)
  BY <1>1, <1>6
<1> QED
  BY <1>1, <1>2, <1>5, <1>7 DEF rows

\* The row in which those of the first k hosts end.
EndAt(hs, list, q, k) == Len(Joined(RowsAt(hs, list, q), k))

\* Where the rows of each host end there is the host, and a header is in the row
\* above that of a host whose header is due.
LEMMA RowsAre ==
    ASSUME NEW hs \in Seq(HostType), NEW list \in Seq(DOMAIN hs), NEW q
    PROVE  /\ Rows(hs, list, q) \in Seq(Nat)
           /\ \A k \in 1 .. Len(list) :
                 /\ EndAt(hs, list, q, k) \in DOMAIN Rows(hs, list, q)
                 /\ Rows(hs, list, q)[EndAt(hs, list, q, k)] = list[k]
           /\ \A p \in DOMAIN Rows(hs, list, q) : Rows(hs, list, q)[p] = 0 =>
                 \E k \in 1 .. Len(list) :
                     p + 1 = EndAt(hs, list, q, k) /\ ~q.typed /\ Headed(hs, list, k)
<1> DEFINE at == RowsAt(hs, list, q)
           rows == Rows(hs, list, q)
           end(k) == EndAt(hs, list, q, k)
           OK(n) ==
               /\ \A k \in 1 .. n : /\ end(k) \in 1 .. end(n)
                                    /\ Joined(at, n)[end(k)] = list[k]
               /\ \A p \in 1 .. end(n) : Joined(at, n)[p] = 0 =>
                     \E k \in 1 .. n : p + 1 = end(k) /\ ~q.typed /\ Headed(hs, list, k)
           T == {n \in Nat : n \in 0 .. Len(list) => OK(n)}
<1>1. /\ rows = FlattenSeq(at) /\ at \in Seq(Seq(Nat)) /\ Len(at) = Len(list)
      /\ DOMAIN list = 1 .. Len(list)
      /\ Len(list) \in Nat /\ \A p \in 1 .. Len(list) : list[p] \in Nat \ {0}
  BY RowsAtType
<1>2. \A n \in 1 .. Len(list) :
          at[n] = IF ~q.typed /\ Headed(hs, list, n) THEN <<0, list[n]>> ELSE <<list[n]>>
  BY <1>1 DEF RowsAt
<1>10. \A n : end(n) = Len(Joined(at, n))
  BY DEF EndAt
<1> HIDE DEF at, rows, end
<1>3. /\ Joined(at, 0) = <<>>
      /\ \A n \in 0 .. Len(list) - 1 : Joined(at, n + 1) = Joined(at, n) \o at[n + 1]
      /\ \A n \in 0 .. Len(list) : Joined(at, n) \in Seq(Nat)
      /\ Joined(at, Len(list)) = rows
  BY <1>1, JoinedSteps
<1>4. \A n \in 0 .. Len(list) : end(n) = Len(Joined(at, n)) /\ end(n) \in Nat
  <2> TAKE n \in 0 .. Len(list)
  <2>1. Joined(at, n) \in Seq(Nat)
    BY <1>3
  <2> QED
    BY <1>10, <2>1
<1>5. 0 \in T
  <2>1. 1 .. end(0) = {}
    BY <1>1, <1>3, <1>4
  <2> QED
    BY <2>1
<1>6. ASSUME NEW n \in Nat, n \in T PROVE n + 1 \in T
  <2> SUFFICES ASSUME n + 1 \in 0 .. Len(list) PROVE OK(n + 1)
    OBVIOUS
  <2> DEFINE m == n + 1
             above == Joined(at, n)
             below == Joined(at, m)
             piece == at[m]
             due == ~q.typed /\ Headed(hs, list, m)
  <2>1. /\ m \in 1 .. Len(list) /\ m \in 0 .. Len(list) /\ n \in 0 .. Len(list)
        /\ n \in 0 .. Len(list) - 1
    BY <1>1
  <2>2. OK(n)
    BY <1>6, <2>1
  <2>3. above \in Seq(Nat) /\ piece \in Seq(Nat) /\ below = above \o piece
    <3>1. Joined(at, n) \in Seq(Nat) /\ Joined(at, n + 1) = Joined(at, n) \o at[n + 1]
      BY <1>3, <2>1
    <3>2. at[n + 1] \in Seq(Nat)
      BY <1>1, <2>1
    <3> QED
      BY <3>1, <3>2
  <2>4. list[m] \in Nat \ {0} /\ piece = IF due THEN <<0, list[m]>> ELSE <<list[m]>>
    BY <1>1, <1>2, <2>1
  <2>5. \/ due /\ Len(piece) = 2 /\ piece[1] = 0 /\ piece[2] = list[m]
        \/ Len(piece) = 1 /\ piece[1] = list[m]
    BY <2>4
  <2>6. /\ end(n) \in Nat /\ end(n) = Len(above) /\ end(m) = Len(below)
        /\ \A k \in 1 .. n : end(k) \in Nat
    <3>1. \A k \in 1 .. n : k \in 0 .. Len(list)
      BY <2>1
    <3> QED
      BY <1>4, <2>1, <3>1
  <2>7. \A k \in 1 .. m : k \in 1 .. n \/ k = m
    OBVIOUS
  <2>8. n \in Int /\ m \in 1 .. m /\ \A k \in 1 .. n : k \in 1 .. m
    OBVIOUS
  <2> HIDE DEF OK, T, above, below, piece, due, m
  <2>9. /\ end(m) = end(n) + Len(piece)
        /\ \A p \in 1 .. end(n) : below[p] = above[p]
        /\ \A p \in 1 .. Len(piece) : below[end(n) + p] = piece[p]
    <3>1. /\ Len(below) = Len(above) + Len(piece)
          /\ \A p \in 1 .. Len(above) + Len(piece) :
                below[p] = IF p <= Len(above) THEN above[p] ELSE piece[p - Len(above)]
      BY <2>3, ConcatProperties
    <3>2. Len(above) \in Nat /\ Len(piece) \in Nat
      BY <2>3
    <3>3. ASSUME NEW p \in 1 .. Len(piece) PROVE below[end(n) + p] = piece[p]
      <4> DEFINE j == end(n) + p
      <4>1. /\ j \in 1 .. Len(above) + Len(piece) /\ ~(j <= Len(above))
            /\ j - Len(above) = p
        BY <2>6, <3>2
      <4> HIDE DEF j
      <4> QED
        BY <3>1, <4>1 DEF j
    <3>4. \A p \in 1 .. end(n) : p \in 1 .. Len(above) + Len(piece) /\ p <= Len(above)
      BY <2>6, <3>2
    <3> QED
      BY <2>6, <3>1, <3>3, <3>4
  <2>10. /\ Len(piece) \in 1 .. 2 /\ Len(piece) \in 1 .. Len(piece)
         /\ piece[Len(piece)] = list[m]
    BY <2>5
  <2>11. end(m) \in 1 .. end(m) /\ below[end(m)] = list[m] /\ end(n) \in 0 .. end(m)
    <3>1. end(m) \in 1 .. end(m) /\ end(n) \in 0 .. end(m)
      BY <2>6, <2>9, <2>10
    <3>2. below[end(n) + Len(piece)] = piece[Len(piece)]
      BY <2>9, <2>10
    <3> QED
      BY <2>9, <2>10, <3>1, <3>2
  <2>12. ASSUME NEW k \in 1 .. n PROVE end(k) \in 1 .. end(m) /\ below[end(k)] = list[k]
    <3>1. end(k) \in 1 .. end(n) /\ above[end(k)] = list[k]
      BY <2>2 DEF OK, above
    <3> QED
      BY <2>6, <2>9, <2>11, <3>1
  <2>13. ASSUME NEW p \in 1 .. end(m), below[p] = 0
         PROVE  \E k \in 1 .. m : p + 1 = end(k) /\ ~q.typed /\ Headed(hs, list, k)
    <3>1. CASE p \in 1 .. end(n)
      <4>1. above[p] = 0
        BY <2>9, <2>13, <3>1
      <4>2. PICK k \in 1 .. n : p + 1 = end(k) /\ ~q.typed /\ Headed(hs, list, k)
        BY <2>2, <3>1, <4>1 DEF OK, above
      <4> QED
        BY <2>8, <4>2
    <3>2. CASE p \notin 1 .. end(n)
      <4> DEFINE j == p - end(n)
      <4>1. j \in 1 .. Len(piece) /\ end(n) + j = p /\ p \in Int
        BY <2>6, <2>9, <2>10, <3>2
      <4> HIDE DEF j
      <4>2. piece[j] = 0
        BY <2>9, <2>13, <4>1
      <4>3. due /\ j = 1 /\ Len(piece) = 2
        BY <2>4, <2>5, <4>1, <4>2
      <4>4. p + 1 = end(m)
        BY <2>6, <2>9, <4>1, <4>3
      <4> QED
        BY <2>8, <4>3, <4>4 DEF due
    <3> QED
      BY <3>1, <3>2
  <2> QED
    BY <2>7, <2>11, <2>12, <2>13 DEF OK, below, m
<1> HIDE DEF T, OK
<1>7. Nat \subseteq T
  BY <1>5, <1>6, InductiveSet
<1>8. OK(Len(list))
  BY <1>1, <1>7 DEF T
<1>9. DOMAIN rows = 1 .. end(Len(list)) /\ rows \in Seq(Nat)
  BY <1>1, <1>3, <1>4
<1> QED
  BY <1>3, <1>8, <1>9 DEF OK, rows, end
-----------------------------------------------------------------------------
(* The list.                                                               *)

\* The order: each host that is to be shown once, those of a section together.
LEMMA OrderIsWhole ==
    ASSUME NEW hs \in Seq(HostType), NEW q \in Queries, q.typed \/ q = NoQuery,
           NEW u \in [Ids -> Nat], NEW sort
    PROVE  /\ Order(hs, q, u, sort) \in Seq(DOMAIN hs)
           /\ IsInjective(Order(hs, q, u, sort))
           /\ \A i : i \in ToSet(Order(hs, q, u, sort)) <=>
                  /\ i \in DOMAIN hs
                  /\ IF q.typed THEN Matches(hs[i], q) ELSE ~Unsectioned(hs[i])
           /\ ~q.typed => Together(hs, Order(hs, q, u, sort))
<1> DEFINE ranked == Rank(hs, q, u, sort)
<1>1. /\ ranked \in Seq(DOMAIN hs) /\ IsInjective(ranked)
      /\ ToSet(ranked) = {i \in DOMAIN hs : Matches(hs[i], q)}
  BY RankIsWhole
<1>2. Order(hs, q, u, sort) = IF q.typed THEN ranked ELSE GroupOrder(hs, ranked)
  BY DEF Order
<1>3. ASSUME ~q.typed PROVE \A i \in DOMAIN hs : Matches(hs[i], q)
  BY <1>3 DEF NoQuery, Matches, Candidate
<1> HIDE DEF ranked
<1>4. CASE q.typed
  BY <1>1, <1>2, <1>4
<1>5. CASE ~q.typed
  <2>1. \A i : i \in ToSet(ranked) <=> i \in DOMAIN hs
    BY <1>1, <1>3, <1>5
  <2> QED
    BY <1>1, <1>2, <1>5, <2>1, GroupOrderIsWhole
<1> QED
  BY <1>4, <1>5

\* No two headers are for the same section.
LEMMA HeadersDiffer ==
    ASSUME NEW hs \in Seq(HostType), NEW list \in Seq(DOMAIN hs), NEW q,
           ~q.typed => Together(hs, list),
           NEW p \in DOMAIN Rows(hs, list, q), NEW r \in DOMAIN Rows(hs, list, q),
           Rows(hs, list, q)[p] = 0, Rows(hs, list, q)[r] = 0,
           SectionKey(hs[Rows(hs, list, q)[p + 1]]) = SectionKey(hs[Rows(hs, list, q)[r + 1]])
    PROVE  p = r
<1> DEFINE rows == Rows(hs, list, q)
           end(k) == EndAt(hs, list, q, k)
<1>1. DOMAIN list = 1 .. Len(list) /\ Len(list) \in Nat
  OBVIOUS
<1>2. DOMAIN rows = 1 .. Len(rows) /\ Len(rows) \in Nat
  BY RowsAre
<1>3. /\ \A k \in 1 .. Len(list) : rows[end(k)] = list[k]
      /\ \A x \in DOMAIN rows : rows[x] = 0 =>
            \E k \in 1 .. Len(list) : x + 1 = end(k) /\ ~q.typed /\ Headed(hs, list, k)
  BY RowsAre
<1>4. /\ rows[p] = 0 /\ rows[r] = 0 /\ p \in Int /\ r \in Int
      /\ SectionKey(hs[rows[p + 1]]) = SectionKey(hs[rows[r + 1]])
  BY <1>2
<1> HIDE DEF rows, end
<1>5. PICK k \in 1 .. Len(list) : p + 1 = end(k) /\ ~q.typed /\ Headed(hs, list, k)
  BY <1>3, <1>4 DEF rows
<1>6. PICK l \in 1 .. Len(list) : r + 1 = end(l) /\ ~q.typed /\ Headed(hs, list, l)
  BY <1>3, <1>4 DEF rows
<1>7. SectionKey(hs[list[k]]) = SectionKey(hs[list[l]])
  BY <1>3, <1>4, <1>5, <1>6
\* A header below one of the same section would not be due.
<1>8. ASSUME NEW i \in 1 .. Len(list), NEW j \in 1 .. Len(list), i < j, Headed(hs, list, j),
             SectionKey(hs[list[i]]) = SectionKey(hs[list[j]])
      PROVE  FALSE
  <2>1. j # 1 /\ j - 1 \in i .. j
    BY <1>1, <1>8
  <2>2. SectionKey(hs[list[j]]) # SectionKey(hs[list[j - 1]])
    BY <1>8, <2>1 DEF Headed
  <2> QED
    BY <1>1, <1>5, <1>8, <2>1, <2>2 DEF Together
<1>9. k = l
  <2>1. k < l \/ k = l \/ l < k
    BY <1>1
  <2> QED
    BY <1>5, <1>6, <1>7, <1>8, <2>1
<1> QED
  BY <1>4, <1>5, <1>6, <1>9

\* The row of the cursor is that of the host below it.
LEMMA CursorIs ==
    ASSUME NEW hs \in Seq(HostType), NEW list \in Seq(DOMAIN hs), NEW q,
           NEW n \in Nat, n < Len(list)
    PROVE  Cursor(hs, list, q, n) = EndAt(hs, list, q, n + 1)
<1> DEFINE k == n + 1
           first == SubSeq(list, 1, k)
<1>1. DOMAIN list = 1 .. Len(list) /\ Len(list) \in Nat /\ k \in 1 .. Len(list)
  OBVIOUS
<1>2. /\ first \in Seq(DOMAIN hs) /\ Len(first) = k /\ DOMAIN first = 1 .. k
      /\ \A p \in 1 .. k : first[p] = list[p]
  <2>1. \A p \in 1 .. k : list[p] \in DOMAIN hs
    BY <1>1
  <2> QED
    BY <1>1, <2>1, SubSeqProperties
<1> HIDE DEF first
<1>3. Rows(hs, first, q) = FlattenSeq(RowsAt(hs, first, q))
  BY <1>2, RowsAtType
<1>4. RowsAt(hs, list, q) \in Seq(Seq(Nat)) /\ Len(RowsAt(hs, list, q)) = Len(list)
  BY RowsAtType
<1>5. RowsAt(hs, first, q) \in Seq(Seq(Nat)) /\ Len(RowsAt(hs, first, q)) = k
  BY <1>2, RowsAtType
<1> DEFINE part == SubSeq(RowsAt(hs, list, q), 1, k)
<1>6. /\ part \in Seq(Seq(Nat)) /\ Len(part) = k
      /\ \A p \in 1 .. k : part[p] = RowsAt(hs, list, q)[p]
  <2>1. \A p \in 1 .. k : RowsAt(hs, list, q)[p] \in Seq(Nat)
    BY <1>1, <1>4
  <2> QED
    BY <1>1, <2>1, SubSeqProperties
<1> HIDE DEF part, k
<1>7. ASSUME NEW p \in 1 .. k PROVE RowsAt(hs, first, q)[p] = RowsAt(hs, list, q)[p]
  <2>1. p \in 1 .. Len(list) /\ (p # 1 => p - 1 \in 1 .. k)
    BY <1>1
  <2>2. first[p] = list[p] /\ (p # 1 => first[p - 1] = list[p - 1])
    BY <1>2, <2>1
  <2>3. Headed(hs, first, p) <=> Headed(hs, list, p)
    BY <2>2 DEF Headed
  <2> QED
    BY <1>1, <1>2, <2>1, <2>2, <2>3 DEF RowsAt
<1>8. RowsAt(hs, first, q) = part
  BY <1>5, <1>6, <1>7, SeqEqual
<1> QED
  BY <1>3, <1>8 DEF Cursor, EndAt, Joined, first, part, k
-----------------------------------------------------------------------------
(* What the invariant implies.                                             *)

LEMMA Constants ==
    /\ MaxId \in Nat /\ MaxUses \in Nat /\ FirstNew \in Ids /\ None \notin Ids
    /\ Ids = 1 .. MaxId /\ Ids \subseteq Nat \ {0} /\ Creds = {0} /\ Ids \cap Creds = {}
    /\ Imports \subseteq Seq(Names)
    /\ Entered \subseteq [name : Names, site : SiteNames \cup {None}]
    /\ SiteLists \subseteq SUBSET SiteNames
    /\ \A q \in Asked : q \in Queries /\ q.typed
    /\ NoQuery \in Queries
<1>1. MaxId \in Nat /\ MaxUses \in Nat /\ FirstNew \in Ids /\ None \notin Ids
  BY AppAssumption
<1>2. Ids = 1 .. MaxId /\ Ids \subseteq Nat \ {0} /\ Creds = {0} /\ Ids \cap Creds = {}
  BY <1>1 DEF Ids, Creds
<1>3. NoQuery \in Queries
  BY DEF NoQuery, Queries
<1> QED
  BY <1>1, <1>2, <1>3, AppAssumption

\* The list, with the order the invariant says it has.
LEMMA ListOfInv ==
    ASSUME HostsInv, OrderInv
    PROVE  /\ order \in Seq(DOMAIN hosts)
           /\ IsInjective(order)
           /\ \A i : i \in ToSet(order) <=>
                  /\ i \in DOMAIN hosts
                  /\ IF query.typed THEN Matches(hosts[i], query) ELSE ~Unsectioned(hosts[i])
           /\ ~query.typed => Together(hosts, order)
           /\ selected \in Nat /\ Len(order) \in Nat
           /\ HasCurrent => Current \in DOMAIN hosts /\ Current \in ToSet(order)
<1>1. PICK u \in [Ids -> 0..MaxUses] : order = Order(hosts, query, u, world.sort)
  BY DEF OrderInv
<1>2. u \in [Ids -> Nat]
  BY Constants
<1>3. hosts \in Seq(HostType) /\ query \in Queries /\ (query.typed \/ query = NoQuery)
  BY DEF HostsInv, OrderInv
<1>4. /\ order \in Seq(DOMAIN hosts)
      /\ IsInjective(order)
      /\ \A i : i \in ToSet(order) <=>
             /\ i \in DOMAIN hosts
             /\ IF query.typed THEN Matches(hosts[i], query) ELSE ~Unsectioned(hosts[i])
      /\ ~query.typed => Together(hosts, order)
  BY <1>1, <1>2, <1>3, OrderIsWhole
<1>5. Len(order) \in Nat /\ selected \in Nat
  BY <1>4 DEF OrderInv
<1>6. ASSUME HasCurrent PROVE Current \in DOMAIN hosts /\ Current \in ToSet(order)
  <2>1. selected + 1 \in DOMAIN order
    BY <1>4, <1>5, <1>6 DEF HasCurrent
  <2> QED
    BY <1>4, <2>1 DEF Current, ToSet
<1> QED
  BY <1>4, <1>5, <1>6

LEMMA InvTypes ==
    ASSUME AppInv
    PROVE  AppTypeOK
BY ListOfInv DEF AppInv, HostsInv, OrderInv, OpenInv, AppTypeOK

\* ListIsWhole asks nothing of a state but that the order is right.
LEMMA InvLists ==
    ASSUME AppInv
    PROVE  ListIsWhole
<1> DEFINE rows == Rows(hosts, order, query)
<1>1. /\ hosts \in Seq(HostType)
      /\ order \in Seq(DOMAIN hosts) /\ IsInjective(order)
      /\ \A i : i \in ToSet(order) <=>
             /\ i \in DOMAIN hosts
             /\ IF query.typed THEN Matches(hosts[i], query) ELSE ~Unsectioned(hosts[i])
      /\ ~query.typed => Together(hosts, order)
      /\ selected \in Nat /\ Len(order) \in Nat
  BY ListOfInv DEF AppInv, HostsInv
<1>2. ToSet(order) = {i \in DOMAIN hosts :
         IF query.typed THEN Matches(hosts[i], query) ELSE ~Unsectioned(hosts[i])}
  BY <1>1
<1>3. \A p, q \in DOMAIN rows :
         /\ rows[p] = 0 /\ rows[q] = 0
         /\ SectionKey(hosts[rows[p + 1]]) = SectionKey(hosts[rows[q + 1]])
         => p = q
  BY <1>1, HeadersDiffer
<1>4. ASSUME HasCurrent PROVE rows[Cursor(hosts, order, query, selected)] = Current
  <2>1. selected < Len(order) /\ selected + 1 \in 1 .. Len(order)
    BY <1>1, <1>4 DEF HasCurrent
  <2>2. Cursor(hosts, order, query, selected) = EndAt(hosts, order, query, selected + 1)
    BY <1>1, <2>1, CursorIs
  <2>3. \A k \in 1 .. Len(order) : rows[EndAt(hosts, order, query, k)] = order[k]
    BY <1>1, RowsAre
  <2> HIDE DEF rows
  <2> QED
    BY <2>1, <2>2, <2>3 DEF Current
<1> QED
  BY <1>1, <1>2, <1>3, <1>4 DEF ListIsWhole
-----------------------------------------------------------------------------
(* What a step may do to the list: nothing, show it otherwise, change it.  *)

LEMMA ClampedIs ==
    ASSUME NEW S, NEW list \in Seq(S), NEW n \in Nat
    PROVE  Clamped(n, list) \in {0} \cup 0..(Len(list) - 1)
<1>1. Len(list) \in Nat /\ (list # <<>> => Len(list) # 0)
  OBVIOUS
<1> QED
  BY <1>1 DEF Clamped

LEMMA ListSame ==
    ASSUME HostsInv, OrderInv, UNCHANGED <<hosts, sites, next, query, order, selected, world>>,
           uses' \in [Ids -> 0..MaxUses]
    PROVE  HostsInv' /\ OrderInv'
BY DEF HostsInv, OrderInv

\* The order of a list of hosts by a query, as it is drawn.
LEMMA OrderDrawn ==
    ASSUME NEW hs \in Seq(HostType), NEW q \in Queries, q.typed \/ q = NoQuery,
           NEW u \in [Ids -> 0..MaxUses], NEW sort, NEW n \in Nat
    PROVE  Clamped(n, Order(hs, q, u, sort)) \in {0} \cup 0..(Len(Order(hs, q, u, sort)) - 1)
<1>1. u \in [Ids -> Nat]
  BY Constants
<1>2. Order(hs, q, u, sort) \in Seq(DOMAIN hs)
  BY <1>1, OrderIsWhole
<1> QED
  BY <1>2, ClampedIs

LEMMA ListLooks ==
    ASSUME HostsInv, OrderInv, UNCHANGED <<hosts, sites, next, uses, world>>,
           NEW q \in Asked \cup {NoQuery}, Looks(q, 0)
    PROVE  HostsInv' /\ OrderInv'
<1>1. q \in Queries /\ (q.typed \/ q = NoQuery)
  BY Constants
<1>2. hosts \in Seq(HostType) /\ uses \in [Ids -> 0..MaxUses]
  BY DEF HostsInv
<1>3. /\ query' = q /\ order' = Order(hosts, q, uses, world.sort)
      /\ selected' = Clamped(0, order')
  BY DEF Looks
<1>4. selected' \in {0} \cup 0..(Len(order') - 1)
  BY <1>1, <1>2, <1>3, OrderDrawn
<1>5. HostsInv'
  BY DEF HostsInv
<1>6. \E u \in [Ids -> 0..MaxUses] : order' = Order(hosts', query', u, world'.sort)
  BY <1>2, <1>3
<1>7. query' \in Queries /\ (query'.typed \/ query' = NoQuery)
  BY <1>1, <1>3
<1>8. (world \in [pick : BOOLEAN, tmux : BOOLEAN, sort : Sorts])'
  BY DEF OrderInv
<1> QED
  BY <1>4, <1>5, <1>6, <1>7, <1>8 DEF OrderInv

LEMMA ListChanges ==
    ASSUME HostsInv, OrderInv, UNCHANGED <<query, world>>,
           NEW h \in Seq(HostType), NEW s, s \subseteq SiteNames,
           NEW u \in [Ids -> 0..MaxUses], Changed(h, s, u),
           next' \in FirstNew..(MaxId + 1),
           \A i \in DOMAIN h : h[i].id < next',
           \A i, j \in DOMAIN h : h[i].id = h[j].id => i = j
    PROVE  HostsInv' /\ OrderInv'
<1>1. /\ hosts' = h /\ sites' = s /\ uses' = u /\ query' = query /\ world' = world
      /\ order' = Order(h, query, u, world.sort)
      /\ selected' = Clamped(selected, order')
  BY DEF Changed
<1>2. query \in Queries /\ (query.typed \/ query = NoQuery)
  BY DEF OrderInv
<1>3. selected \in Nat
  BY ListOfInv
<1>4. selected' \in {0} \cup 0..(Len(order') - 1)
  BY <1>1, <1>2, <1>3, OrderDrawn
<1>5. HostsInv'
  BY <1>1 DEF HostsInv
<1>6. \E v \in [Ids -> 0..MaxUses] : order' = Order(hosts', query', v, world'.sort)
  BY <1>1
<1> QED
  BY <1>1, <1>4, <1>5, <1>6 DEF OrderInv
-----------------------------------------------------------------------------
(* What a step is about.                                                   *)

\* Most steps are not about a host at all, or leave the hosts and the store alone.
LEMMA OnOthers ==
    ASSUME OpenInv, UNCHANGED pending, popup.kind \notin {"wizard", "confirm", "bulk"}
    PROVE  OnTheChosen
BY DEF OpenInv, OnTheChosen

LEMMA OnNone ==
    ASSUME OpenInv, UNCHANGED <<pending, hosts>>, stored' = {}
    PROVE  OnTheChosen
<1>1. Touched = {}
  BY DEF Touched
<1> QED
  BY <1>1 DEF OpenInv, OnTheChosen

LEMMA TypeQueryStep ==
    ASSUME AppInv, TypeQuery
    PROVE  AppInv' /\ OnTheChosen
<1>1. HostsInv /\ OrderInv /\ OpenInv
  BY DEF AppInv
<1>2. PICK q \in Asked \cup {NoQuery} : Looks(q, 0)
  BY DEF TypeQuery
<1>3. HostsInv' /\ OrderInv'
  BY <1>1, <1>2, ListLooks DEF TypeQuery, ListKey
<1>4. OpenInv'
  BY <1>1 DEF TypeQuery, ListKey, OpenInv, IdsAt, IdsOf, NoPopup, Over
<1>5. OnTheChosen
  BY <1>1, OnOthers DEF TypeQuery, ListKey, NoPopup, Over
<1> QED
  BY <1>3, <1>4, <1>5 DEF AppInv

LEMMA EscStep ==
    ASSUME AppInv, Esc
    PROVE  AppInv' /\ OnTheChosen
<1>1. HostsInv /\ OrderInv /\ OpenInv
  BY DEF AppInv
<1>2. HostsInv' /\ OrderInv'
  <2>1. CASE UNCHANGED <<query, order, selected>>
    <3>1. uses' \in [Ids -> 0..MaxUses]
      BY <1>1 DEF HostsInv, Esc
    <3> QED
      BY <1>1, <2>1, <3>1, ListSame DEF Esc, ListKey
  <2>2. CASE Looks(NoQuery, 0)
    BY <1>1, <2>2, ListLooks DEF Esc, ListKey
  <2> QED
    BY <2>1, <2>2 DEF Esc
<1>3. OpenInv'
  BY <1>1 DEF Esc, ListKey, OpenInv, IdsAt, IdsOf, NoPopup, Over
<1>4. OnTheChosen
  BY <1>1, OnOthers DEF Esc, ListKey, NoPopup, Over
<1> QED
  BY <1>2, <1>3, <1>4 DEF AppInv

LEMMA MoveStep ==
    ASSUME AppInv, Move
    PROVE  AppInv' /\ OnTheChosen
<1>1. HostsInv /\ OrderInv /\ OpenInv
  BY DEF AppInv
<1>2. HostsInv'
  BY <1>1 DEF Move, ListKey, HostsInv
<1>3. selected \in Nat /\ Len(order) \in Nat /\ selected \in {0} \cup 0..(Len(order) - 1)
  BY <1>1, ListOfInv DEF OrderInv
<1>4. selected' \in {0} \cup 0..(Len(order) - 1)
  BY <1>3 DEF Move
<1>5. OrderInv'
  BY <1>1, <1>4 DEF Move, ListKey, OrderInv
<1>6. OpenInv'
  BY <1>1 DEF Move, ListKey, OpenInv, IdsAt, IdsOf, NoPopup, Over
<1>7. OnTheChosen
  BY <1>1, OnOthers DEF Move, ListKey, NoPopup, Over
<1> QED
  BY <1>2, <1>5, <1>6, <1>7 DEF AppInv

LEMMA ToggleMarkStep ==
    ASSUME AppInv, ToggleMark
    PROVE  AppInv' /\ OnTheChosen
<1>1. HostsInv /\ OrderInv /\ OpenInv
  BY DEF AppInv
<1>2. uses' \in [Ids -> 0..MaxUses]
  BY <1>1 DEF ToggleMark, HostsInv
<1>3. HostsInv' /\ OrderInv'
  BY <1>1, <1>2, ListSame DEF ToggleMark, ListKey
<1> DEFINE id == hosts[Current].id
<1>4. id \in Ids /\ id \in IdsOf(hosts)
  <2>1. Current \in DOMAIN hosts
    BY <1>1, ListOfInv DEF ToggleMark
  <2>2. hosts[Current] \in HostType
    BY <1>1, <2>1 DEF HostsInv
  <2> QED
    BY <2>1, <2>2 DEF HostType, IdsOf
<1>5. marked' \subseteq marked \cup {id}
  BY DEF ToggleMark
<1> HIDE DEF id
<1>6. OpenInv'
  <2>1. marked' \subseteq Ids /\ (world.pick => marked' \subseteq IdsOf(hosts))
    BY <1>1, <1>4, <1>5 DEF OpenInv
  <2> QED
    BY <1>1, <2>1 DEF ToggleMark, ListKey, OpenInv, IdsAt, IdsOf, NoPopup, Over
<1>7. OnTheChosen
  BY <1>1, OnOthers DEF ToggleMark, ListKey, NoPopup, Over
<1> QED
  BY <1>3, <1>6, <1>7 DEF AppInv

\* The host under the cursor exists.
LEMMA CurrentIs ==
    ASSUME HostsInv, OrderInv, HasCurrent
    PROVE  /\ Current \in DOMAIN hosts
           /\ hosts[Current].id \in Ids
           /\ DOMAIN hosts \subseteq Nat \ {0}
<1>1. Current \in DOMAIN hosts
  BY ListOfInv
<1>2. DOMAIN hosts = 1 .. Len(hosts) /\ Len(hosts) \in Nat /\ hosts[Current] \in HostType
  BY <1>1 DEF HostsInv
<1> QED
  BY <1>1, <1>2 DEF HostType

\* Connecting counts a use and stays, or leaves.
LEMMA Connecting ==
    ASSUME HostsInv, NEW i \in DOMAIN hosts, NEW code, Connect(i, code)
    PROVE  /\ uses' \in [Ids -> 0..MaxUses]
           /\ \/ pending' = i /\ quit' = TRUE
              \/ UNCHANGED <<pending, quit>>
<1>1. CASE pending' = i /\ quit' = TRUE /\ UNCHANGED uses
  BY <1>1 DEF HostsInv
<1>2. CASE /\ uses[hosts[i].id] < MaxUses
           /\ uses' = Recorded(hosts[i].id)
           /\ UNCHANGED <<pending, quit>>
  <2>1. hosts[i].id \in Ids
    <3>1. hosts[i] \in HostType
      BY DEF HostsInv
    <3> QED
      BY <3>1 DEF HostType
  <2>2. uses \in [Ids -> 0..MaxUses] /\ MaxUses \in Nat
    BY Constants DEF HostsInv
  <2>3. uses[hosts[i].id] + 1 \in 0..MaxUses
    BY <1>2, <2>1, <2>2
  <2> QED
    BY <1>2, <2>2, <2>3 DEF Recorded
<1> QED
  BY <1>1, <1>2 DEF Connect

LEMMA EnterStep ==
    ASSUME AppInv, Enter
    PROVE  AppInv' /\ OnTheChosen
<1>1. HostsInv /\ OrderInv /\ OpenInv
  BY DEF AppInv
<1>2. /\ Current \in DOMAIN hosts /\ hosts[Current].id \in Ids
      /\ DOMAIN hosts \subseteq Nat \ {0}
  BY <1>1, CurrentIs DEF Enter
<1> DEFINE now == Current
           id == hosts[Current].id
<1>3. /\ popup = NoPopup /\ quit = FALSE /\ pending = 0 /\ stored' = {}
      /\ UNCHANGED <<hosts, sites, world, next, changes, query, order, selected, marked>>
      /\ chosen' = IF world.pick /\ marked # {} THEN marked ELSE {id}
  BY <1>1 DEF Enter, ListKey, OpenInv
<1>4. \/ /\ world.pick /\ pending' = now /\ quit' = TRUE
         /\ UNCHANGED <<uses, popup>>
      \/ /\ ~world.pick /\ popup' = Over("code", {now}, None)
         /\ UNCHANGED <<uses, pending, quit>>
      \/ ~world.pick /\ Connect(now, FALSE) /\ UNCHANGED popup
  BY DEF Enter
<1>5. now \in DOMAIN hosts /\ id \in Ids /\ now # 0 /\ id = hosts[now].id
  BY <1>2
<1> HIDE DEF now, id
<1>6. uses' \in [Ids -> 0..MaxUses]
  <2>1. uses \in [Ids -> 0..MaxUses]
    BY <1>1 DEF HostsInv
  <2> QED
    BY <1>1, <1>4, <1>5, <2>1, Connecting
<1>7. HostsInv' /\ OrderInv'
  BY <1>1, <1>3, <1>6, ListSame
<1>8. \/ pending' = now /\ quit' = TRUE /\ popup' = popup
      \/ /\ ~world.pick /\ popup' = Over("code", {now}, None) /\ pending' = pending
         /\ quit' = quit
      \/ ~world.pick /\ popup' = popup /\ pending' = pending /\ quit' = quit
  BY <1>1, <1>4, <1>5, Connecting
<1>9. OpenInv'
  <2>1. chosen' \subseteq Ids
    BY <1>1, <1>3, <1>5 DEF OpenInv
  <2>2. CASE popup' = popup
    BY <1>1, <1>3, <1>5, <1>8, <2>1, <2>2 DEF OpenInv, IdsOf, IdsAt, NoPopup, Over
  <2>3. CASE popup' = Over("code", {now}, None) /\ ~world.pick /\ pending' = pending
             /\ quit' = quit
    <3>1. popup' \in Popups /\ popup'.at = {now} /\ popup'.id = None /\ popup'.kind = "code"
      BY <1>2, <1>5, <2>3 DEF Over, Popups
    <3>2. chosen' = {id} /\ IdsAt(popup.at)' = {id}
      BY <1>3, <1>5, <2>3, <3>1 DEF IdsAt
    <3> QED
      BY <1>1, <1>3, <1>5, <2>1, <2>3, <3>1, <3>2 DEF OpenInv
  <2> QED
    BY <1>8, <2>2, <2>3
<1>10. OnTheChosen
  <2>1. popup.kind = "none" /\ popup.at = {}
    BY <1>3 DEF NoPopup, Over
  <2>2. ASSUME pending' # pending
        PROVE  chosen' = IF world.pick THEN {hosts[i].id : i \in PickedNames'}
                         ELSE {hosts[pending'].id}
    <3>1. pending' = now /\ hosts[now].id = id
      BY <1>5, <1>8, <2>2
    <3>2. CASE ~world.pick
      BY <1>3, <3>1, <3>2
    <3>3. CASE world.pick /\ marked = {}
      <4>1. PickedNames' = {now}
        BY <1>3, <1>5, <3>1, <3>3 DEF PickedNames
      <4> QED
        BY <1>3, <3>1, <3>3, <4>1
    <3>4. CASE world.pick /\ marked # {}
      <4>1. PickedNames' = {i \in DOMAIN hosts : hosts[i].id \in marked}
        BY <1>3, <1>5, <3>1, <3>4 DEF PickedNames
      <4>2. marked \subseteq IdsOf(hosts)
        BY <1>1, <3>4 DEF OpenInv
      <4>3. {hosts[i].id : i \in PickedNames'} = marked
        BY <4>1, <4>2 DEF IdsOf
      <4> QED
        BY <1>3, <3>4, <4>3
    <3> QED
      BY <3>2, <3>3, <3>4
  <2> QED
    BY <2>1, <2>2 DEF OnTheChosen
<1> QED
  BY <1>7, <1>9, <1>10 DEF AppInv

\* Opening a popup that is for nothing but what was chosen.
LEMMA OpensStep ==
    ASSUME AppInv, ListKey, Stays, NEW p \in Popups, Opens(p),
           p.at \subseteq DOMAIN hosts, p.kind # "code",
           chosen' \subseteq Ids,
           p.at # {} => IdsAt(p.at) = chosen',
           p.id # None => p.id \in IdsOf(hosts) /\ chosen' = {p.id}
    PROVE  AppInv' /\ OnTheChosen
<1>1. HostsInv /\ OrderInv /\ OpenInv
  BY DEF AppInv
<1>2. /\ popup = NoPopup /\ quit = FALSE /\ ~world.pick /\ popup' = p /\ stored' = {}
      /\ UNCHANGED <<hosts, sites, world, next, changes, uses, query, order, selected, marked,
                     pending, quit>>
  BY <1>1 DEF ListKey, Stays, Opens, OpenInv
<1>3. uses' \in [Ids -> 0..MaxUses]
  BY <1>1, <1>2 DEF HostsInv
<1>4. HostsInv' /\ OrderInv'
  BY <1>1, <1>2, <1>3, ListSame
<1>5. IdsAt(popup.at)' = IdsAt(p.at)
  BY <1>2 DEF IdsAt
<1>6. OpenInv'
  <2>1. IdsOf(hosts)' = IdsOf(hosts)
    BY <1>2 DEF IdsOf
  <2> QED
    BY <1>1, <1>2, <1>5, <2>1 DEF OpenInv
<1>7. OnTheChosen
  BY <1>1, <1>2, OnOthers DEF NoPopup, Over
<1> QED
  BY <1>4, <1>6, <1>7 DEF AppInv

LEMMA OpenForHostStep ==
    ASSUME AppInv, OpenForHost
    PROVE  AppInv' /\ OnTheChosen
<1> DEFINE now == Current
           id == hosts[Current].id
<1>1. /\ now \in DOMAIN hosts /\ id \in Ids /\ DOMAIN hosts \subseteq Nat
      /\ id = hosts[now].id
  BY CurrentIs DEF OpenForHost, AppInv
<1>0. id \in IdsOf(hosts)
  BY <1>1 DEF IdsOf
<1>2. ListKey /\ Stays /\ chosen' = {id}
  BY DEF OpenForHost
<1>3. \/ \E k \in {"transfer", "forward"} : Opens(Over(k, {now}, None))
      \/ \E k \in {"wizard", "confirm"} : Opens(Over(k, {}, id))
  BY DEF OpenForHost
<1> HIDE DEF now, id
<1>4. ASSUME NEW k \in {"transfer", "forward"}, Opens(Over(k, {now}, None))
      PROVE  AppInv' /\ OnTheChosen
  <2> DEFINE p == Over(k, {now}, None)
  <2>1. p \in Popups /\ p.at = {now} /\ p.id = None /\ p.kind = k
    BY <1>1 DEF Over, Popups
  <2>2. IdsAt({now}) = {id}
    BY <1>1 DEF IdsAt
  <2> HIDE DEF p
  <2>3. Opens(p)
    BY <1>4 DEF p
  <2> QED
    BY <1>1, <1>2, <2>1, <2>2, <2>3, OpensStep
<1>5. ASSUME NEW k \in {"wizard", "confirm"}, Opens(Over(k, {}, id))
      PROVE  AppInv' /\ OnTheChosen
  <2> DEFINE p == Over(k, {}, id)
  <2>1. p \in Popups /\ p.at = {} /\ p.id = id /\ p.kind = k
    BY <1>1 DEF Over, Popups
  <2> HIDE DEF p
  <2>2. Opens(p)
    BY <1>5 DEF p
  <2> QED
    BY <1>0, <1>1, <1>2, <2>1, <2>2, OpensStep
<1> QED
  BY <1>3, <1>4, <1>5

LEMMA OpenOtherStep ==
    ASSUME AppInv, OpenOther
    PROVE  AppInv' /\ OnTheChosen
<1>1. ListKey /\ Stays /\ chosen' = {}
  BY DEF OpenOther
<1>2. PICK k \in {"wizard", "help", "settings", "sites", "forwards"} : Opens(Over(k, {}, None))
  BY DEF OpenOther
<1> DEFINE p == Over(k, {}, None)
<1>3. p \in Popups /\ p.at = {} /\ p.id = None /\ p.kind = k
  BY DEF Over, Popups
<1>4. Opens(p)
  BY <1>2
<1> HIDE DEF p
<1> QED
  BY <1>1, <1>3, <1>4, OpensStep

\* The marked hosts, or all that are shown, are those whose ids were chosen.
LEMMA OpenBulkSecretStep ==
    ASSUME AppInv, OpenBulkSecret
    PROVE  AppInv' /\ OnTheChosen
<1> DEFINE at == BulkTargets
           p == Over("bulk", at, None)
           shown == marked \cap IdsOf(hosts)
<1>1. ListKey /\ Stays /\ Opens(p) /\ at # {}
  BY DEF OpenBulkSecret
<1>2. chosen' = IF shown # {} THEN shown ELSE IdsAt(ToSet(order))
  BY DEF OpenBulkSecret
<1>3. ToSet(order) \subseteq DOMAIN hosts /\ DOMAIN hosts \subseteq Nat
  <2>1. \A i \in ToSet(order) : i \in DOMAIN hosts
    BY ListOfInv DEF AppInv
  <2>2. DOMAIN hosts = 1 .. Len(hosts)
    BY DEF AppInv, HostsInv
  <2> QED
    BY <2>1, <2>2
<1>4. at \subseteq DOMAIN hosts
  BY <1>3 DEF BulkTargets
<1>5. IdsAt(at) = chosen'
  <2>1. CASE marked = {}
    BY <1>2, <2>1 DEF BulkTargets
  <2>2. CASE marked # {}
    <3>1. at = {i \in DOMAIN hosts : hosts[i].id \in marked}
      BY <2>2 DEF BulkTargets
    <3> HIDE DEF at
    <3>2. IdsAt(at) = shown
      BY <3>1 DEF IdsAt, IdsOf
    <3>3. shown # {}
      BY <1>1, <3>1 DEF IdsOf
    <3> QED
      BY <1>2, <3>2, <3>3
  <2> QED
    BY <2>1, <2>2
<1> HIDE DEF at
<1>6. IdsAt(at) \subseteq Ids
  <2>1. \A i \in DOMAIN hosts : hosts[i] \in HostType
    BY DEF AppInv, HostsInv
  <2> QED
    BY <1>4, <2>1 DEF IdsAt, HostType
<1>7. p \in Popups /\ p.at = at /\ p.id = None /\ p.kind = "bulk"
  BY <1>3, <1>4 DEF Over, Popups
<1> HIDE DEF p
<1> QED
  BY <1>1, <1>4, <1>5, <1>6, <1>7, OpensStep

LEMMA ClosePopupStep ==
    ASSUME AppInv, ClosePopup
    PROVE  AppInv' /\ OnTheChosen
<1>1. HostsInv /\ OrderInv /\ OpenInv
  BY DEF AppInv
<1>2. /\ popup # NoPopup /\ quit = FALSE /\ popup' = NoPopup /\ stored' = stored /\ chosen' = {}
      /\ UNCHANGED <<hosts, sites, world, next, changes, uses, query, order, selected, marked,
                     pending, quit>>
  BY <1>1 DEF ClosePopup, Stays, OpenInv
<1>3. uses' \in [Ids -> 0..MaxUses]
  BY <1>1, <1>2 DEF HostsInv
<1>4. HostsInv' /\ OrderInv'
  BY <1>1, <1>2, <1>3, ListSame
<1>5. NoPopup \in Popups /\ NoPopup.at = {} /\ NoPopup.id = None /\ NoPopup.kind = "none"
  BY DEF NoPopup, Over, Popups
<1>6. OpenInv'
  BY <1>1, <1>2, <1>5 DEF OpenInv, IdsOf
<1>7. stored' = {}
  BY <1>1, <1>2 DEF OpenInv
<1>8. OnTheChosen
  BY <1>1, <1>2, <1>7, OnNone
<1> QED
  BY <1>4, <1>6, <1>8 DEF AppInv
-----------------------------------------------------------------------------
(* What a popup does when it is done.                                      *)

LEMMA SavesIs ==
    ASSUME OpenInv, NEW kind, kind # "none", Saves(kind)
    PROVE  /\ popup.kind = kind /\ popup' = NoPopup /\ chosen' = {} /\ quit = FALSE
           /\ ~world.pick /\ stored = {}
           /\ UNCHANGED <<query, world, pending, quit>>
<1>1. popup.kind = kind /\ popup # NoPopup
  BY DEF Saves, IsOpen, NoPopup, Over
<1> QED
  BY <1>1 DEF OpenInv, Saves, IsOpen

LEMMA PopupGone ==
    ASSUME OpenInv, quit = FALSE, ~world.pick, UNCHANGED <<world, pending, quit>>,
           popup' = NoPopup, chosen' \subseteq Ids, marked' \subseteq Ids,
           stored' \subseteq Ids \cup Creds
    PROVE  OpenInv'
<1>1. pending' = 0 /\ quit' = FALSE /\ ~world'.pick
  BY DEF OpenInv
<1>2. NoPopup \in Popups /\ NoPopup.at = {} /\ NoPopup.id = None /\ NoPopup.kind = "none"
  BY DEF NoPopup, Over, Popups
<1> QED
  BY <1>1, <1>2 DEF OpenInv

\* The hosts that differ, in which ids they have.
LEMMA TouchedOnly ==
    ASSUME NEW X,
           \A h : h.id \notin X => (h \in ToSet(hosts) <=> h \in ToSet(hosts'))
    PROVE  Touched \subseteq X
BY DEF Touched, Of

\* The ids of the hosts, told apart.
LEMMA HostIds ==
    ASSUME HostsInv
    PROVE  /\ DOMAIN hosts = 1 .. Len(hosts) /\ Len(hosts) \in Nat
           /\ \A i \in DOMAIN hosts : hosts[i] \in HostType /\ hosts[i].id \in Ids
           /\ next \notin IdsOf(hosts) /\ IdsOf(hosts) \subseteq Ids
           /\ IsInjective(hosts)
<1>1. DOMAIN hosts = 1 .. Len(hosts) /\ Len(hosts) \in Nat
  BY DEF HostsInv
<1>2. \A i \in DOMAIN hosts : hosts[i] \in HostType
  BY DEF HostsInv
<1>3. \A i \in DOMAIN hosts : hosts[i].id \in Ids
  BY <1>2 DEF HostType
<1>4. next \in Int /\ \A i \in DOMAIN hosts : hosts[i].id \in Int /\ hosts[i].id < next
  BY <1>3, Constants DEF HostsInv
<1>5. next \notin IdsOf(hosts)
  BY <1>4 DEF IdsOf
<1>6. IsInjective(hosts)
  BY DEF HostsInv, IsInjective
<1> QED
  BY <1>1, <1>2, <1>3, <1>5, <1>6 DEF IdsOf

\* Hosts that change but for their ids.
LEMMA ListEdits ==
    ASSUME HostsInv, OrderInv, UNCHANGED <<query, world>>,
           NEW h \in [DOMAIN hosts -> HostType], NEW s, s \subseteq SiteNames,
           Changed(h, s, uses), next' = next,
           \A i \in DOMAIN hosts : h[i].id = hosts[i].id
    PROVE  HostsInv' /\ OrderInv'
<1>1. DOMAIN hosts = 1 .. Len(hosts) /\ Len(hosts) \in Nat
  BY HostIds
<1>2. h \in Seq(HostType) /\ DOMAIN h = DOMAIN hosts
  BY <1>1
<1>3. /\ uses \in [Ids -> 0..MaxUses]
      /\ next \in FirstNew..(MaxId + 1)
      /\ \A i \in DOMAIN h : h[i].id < next
      /\ \A i, j \in DOMAIN h : h[i].id = h[j].id => i = j
  BY <1>2 DEF HostsInv
<1> QED
  BY <1>2, <1>3, ListChanges

\* The form replaces the host it was opened for.
LEMMA FormEdits ==
    ASSUME AppInv, Saves("wizard"), UNCHANGED marked, next' = next,
           NEW h \in HostType, h.id = popup.id,
           popup.id # None,
           NEW new, new = [i \in DOMAIN hosts |-> IF hosts[i].id = popup.id THEN h ELSE hosts[i]],
           Changed(new, sites, uses),
           stored' \subseteq {popup.id}
    PROVE  AppInv' /\ OnTheChosen
<1>1. HostsInv /\ OrderInv /\ OpenInv
  BY DEF AppInv
<1>2. /\ popup.kind = "wizard" /\ popup' = NoPopup /\ chosen' = {} /\ quit = FALSE
      /\ ~world.pick /\ UNCHANGED <<query, world, pending, quit>>
  BY <1>1, SavesIs
<1>3. \A i \in DOMAIN hosts : hosts[i] \in HostType
  BY <1>1, HostIds
<1>4. new \in [DOMAIN hosts -> HostType] /\ \A i \in DOMAIN hosts : new[i].id = hosts[i].id
  BY <1>3
<1>5. sites \subseteq SiteNames
  BY <1>1 DEF HostsInv
<1>6. HostsInv' /\ OrderInv'
  BY <1>1, <1>2, <1>4, <1>5, ListEdits
<1>7. popup.id \in Ids /\ chosen = {popup.id} /\ marked \subseteq Ids
  BY <1>1 DEF OpenInv
<1>8. OpenInv'
  BY <1>1, <1>2, <1>7, PopupGone
<1>9. Touched \subseteq {popup.id}
  <2>1. hosts' = new
    BY DEF Changed
  <2>2. ASSUME NEW x, x.id # popup.id PROVE x \in ToSet(hosts) <=> x \in ToSet(hosts')
    BY <2>1, <2>2 DEF ToSet
  <2> QED
    BY <2>2, TouchedOnly
<1>10. OnTheChosen
  BY <1>1, <1>2, <1>7, <1>9 DEF OnTheChosen, OpenInv
<1> QED
  BY <1>6, <1>8, <1>10 DEF AppInv

\* The form adds a host.
LEMMA FormAdds ==
    ASSUME AppInv, Saves("wizard"), UNCHANGED marked, next \in Ids, next' = next + 1,
           NEW h \in HostType, h.id = next, popup.id = None,
           Changed(Append(hosts, h), sites, uses),
           stored' \subseteq {next}
    PROVE  AppInv' /\ OnTheChosen
<1> DEFINE new == Append(hosts, h)
<1>1. HostsInv /\ OrderInv /\ OpenInv
  BY DEF AppInv
<1>2. /\ popup.kind = "wizard" /\ popup' = NoPopup /\ chosen' = {} /\ quit = FALSE
      /\ ~world.pick /\ UNCHANGED <<query, world, pending, quit>>
  BY <1>1, SavesIs
<1>3. /\ hosts \in Seq(HostType) /\ sites \subseteq SiteNames /\ uses \in [Ids -> 0..MaxUses]
      /\ DOMAIN hosts = 1 .. Len(hosts) /\ Len(hosts) \in Nat
      /\ next \in FirstNew..(MaxId + 1)
      /\ \A i \in DOMAIN hosts : hosts[i].id \in Ids /\ hosts[i].id < next
      /\ \A i, j \in DOMAIN hosts : hosts[i].id = hosts[j].id => i = j
  BY <1>1, HostIds DEF HostsInv
<1>4. /\ new \in Seq(HostType) /\ DOMAIN new = 1 .. Len(hosts) + 1
      /\ \A i \in 1 .. Len(hosts) : new[i] = hosts[i]
      /\ new[Len(hosts) + 1] = h
  BY <1>3, AppendProperties
<1>5. Changed(new, sites, uses)
  OBVIOUS
<1> HIDE DEF new
<1>6. next \in 1 .. MaxId /\ next' \in FirstNew..(MaxId + 1) /\ next < next'
      /\ Ids \subseteq Nat
  BY <1>3, Constants
<1>7. \A i \in DOMAIN new : new[i].id \in Ids /\ new[i].id < next'
  <2> TAKE i \in DOMAIN new
  <2>1. CASE i = Len(hosts) + 1
    BY <1>4, <1>6, <2>1, Constants
  <2>2. CASE i \in 1 .. Len(hosts)
    <3>1. new[i].id \in Ids /\ new[i].id < next
      BY <1>3, <1>4, <2>2
    <3>2. next' = next + 1
      OBVIOUS
    <3> DEFINE id == new[i].id
    <3>3. id \in Ids /\ id < next
      BY <3>1
    <3> HIDE DEF id
    <3>4. id \in Int /\ next \in Int
      BY <1>6, <3>3
    <3>5. id < next'
      BY <3>2, <3>3, <3>4
    <3> QED
      BY <3>3, <3>5 DEF id
  <2> QED
    BY <1>3, <1>4, <2>1, <2>2
<1>8. \A i, j \in DOMAIN new : new[i].id = new[j].id => i = j
  <2>1. \A i \in 1 .. Len(hosts) : new[i].id # next /\ new[i].id = hosts[i].id
    BY <1>3, <1>4, <1>6
  <2>2. \A i \in DOMAIN new : i \in 1 .. Len(hosts) \/ i = Len(hosts) + 1
    BY <1>3, <1>4
  <2> QED
    BY <1>3, <1>4, <2>1, <2>2
<1>9. HostsInv' /\ OrderInv'
  BY <1>1, <1>2, <1>3, <1>4, <1>5, <1>6, <1>7, <1>8, ListChanges
<1>10. marked \subseteq Ids
  BY <1>1 DEF OpenInv
<1>11. OpenInv'
  BY <1>1, <1>2, <1>10, PopupGone
<1>12. next \notin IdsOf(hosts)
  BY <1>1, HostIds
<1>13. Touched \subseteq {next}
  <2>1. hosts' = new
    BY <1>5 DEF Changed
  <2>2. ASSUME NEW x, x.id # next PROVE x \in ToSet(hosts) <=> x \in ToSet(new)
    <3>1. \A i \in DOMAIN new : i \in 1 .. Len(hosts) \/ i = Len(hosts) + 1
      BY <1>3, <1>4
    <3>2. \A i \in 1 .. Len(hosts) : i \in DOMAIN new
      BY <1>3, <1>4
    <3> QED
      BY <1>3, <1>4, <2>2, <3>1, <3>2 DEF ToSet
  <2> QED
    BY <2>1, <2>2, TouchedOnly
<1>14. Touched = {}
  BY <1>12, <1>13 DEF Touched
<1>15. OnTheChosen
  BY <1>1, <1>2, <1>12, <1>14 DEF OnTheChosen, OpenInv
<1> QED
  BY <1>9, <1>11, <1>15 DEF AppInv

LEMMA SaveFormStep ==
    ASSUME AppInv, SaveForm
    PROVE  AppInv' /\ OnTheChosen
<1>1. Saves("wizard") /\ UNCHANGED marked
  BY DEF SaveForm
<1> DEFINE id == IF popup.id = None THEN next ELSE popup.id
           at == {i \in DOMAIN hosts : hosts[i].id = id}
           host(e, tfa) == [id |-> id, name |-> e.name, site |-> e.site, tags |-> {}, tfa |-> tfa,
                            cred |-> None]
<1>2. PICK e \in Entered, tfa \in BOOLEAN, secret \in BOOLEAN :
         /\ id \in Ids
         /\ Changed(IF at = {} THEN Append(hosts, host(e, tfa))
                    ELSE [i \in DOMAIN hosts |-> IF i \in at THEN host(e, tfa) ELSE hosts[i]],
                    sites, uses)
         /\ stored' = IF secret THEN {id} ELSE {}
         /\ next' = IF popup.id = None THEN next + 1 ELSE next
  BY DEF SaveForm
<1> DEFINE h == host(e, tfa)
<1>3. h \in HostType /\ h.id = id
  BY <1>2, Constants DEF HostType
<1>4. HostsInv /\ OpenInv
  BY DEF AppInv
<1> HIDE DEF host
<1>5. CASE popup.id = None
  <2>1. id = next
    BY <1>5
  <2>2. next \notin IdsOf(hosts)
    BY <1>4, HostIds
  <2>3. at = {}
    BY <2>1, <2>2 DEF IdsOf
  <2> HIDE DEF id, at, h
  <2>4. Changed(Append(hosts, h), sites, uses)
    BY <1>2, <2>3 DEF h
  <2>5. next' = next + 1 /\ next \in Ids /\ h.id = next /\ stored' \subseteq {next}
    BY <1>2, <1>3, <1>5, <2>1
  <2> QED
    BY <1>1, <1>3, <1>5, <2>4, <2>5, FormAdds
<1>6. CASE popup.id # None
  <2>1. id = popup.id
    BY <1>6
  <2>2. popup.id \in IdsOf(hosts)
    BY <1>4, <1>6 DEF OpenInv
  <2>3. at # {}
    BY <2>1, <2>2 DEF IdsOf
  <2>4. \A i \in DOMAIN hosts : i \in at <=> hosts[i].id = popup.id
    BY <2>1
  <2> DEFINE new == [i \in DOMAIN hosts |-> IF hosts[i].id = popup.id THEN h ELSE hosts[i]]
  <2> HIDE DEF id, at, h
  <2>5. new = [i \in DOMAIN hosts |-> IF i \in at THEN h ELSE hosts[i]]
    BY <2>4
  <2>6. Changed(new, sites, uses)
    BY <1>2, <2>3, <2>5 DEF h
  <2>7. next' = next /\ h.id = popup.id /\ stored' \subseteq {popup.id}
    BY <1>2, <1>3, <1>6, <2>1
  <2> QED
    BY <1>1, <1>3, <1>6, <2>6, <2>7, FormEdits
<1> QED
  BY <1>5, <1>6

LEMMA DeleteStep ==
    ASSUME AppInv, Delete
    PROVE  AppInv' /\ OnTheChosen
<1> DEFINE new == Retained(hosts, Besides(popup.id))
           used == Forgotten(popup.id)
<1>1. HostsInv /\ OrderInv /\ OpenInv
  BY DEF AppInv
<1>2. /\ Saves("confirm") /\ Changed(new, sites, used)
      /\ marked' = marked /\ next' = next /\ stored' = stored
  BY DEF Delete
<1>3. /\ popup.kind = "confirm" /\ popup' = NoPopup /\ chosen' = {} /\ quit = FALSE
      /\ ~world.pick /\ stored = {} /\ UNCHANGED <<query, world, pending, quit>>
  BY <1>1, <1>2, SavesIs
<1>4. /\ hosts \in Seq(HostType) /\ sites \subseteq SiteNames
      /\ next \in FirstNew..(MaxId + 1)
      /\ \A i \in DOMAIN hosts : hosts[i].id < next
      /\ \A i, j \in DOMAIN hosts : hosts[i].id = hosts[j].id => i = j
  BY <1>1 DEF HostsInv
<1>5. used \in [Ids -> 0..MaxUses]
  <2>1. uses \in [Ids -> 0..MaxUses] /\ 0 \in 0..MaxUses
    BY <1>1, Constants DEF HostsInv
  <2> QED
    BY <2>1 DEF Forgotten
<1>6. /\ new \in Seq(HostType) /\ IsInjective(new)
      /\ \A x : x \in ToSet(new) <=> x \in ToSet(hosts) /\ x \in Besides(popup.id)
  BY <1>1, <1>4, HostIds, RetainedSet
<1> HIDE DEF new, used
<1>7. ASSUME NEW i \in DOMAIN new
      PROVE  new[i] \in ToSet(hosts) /\ \E k \in DOMAIN hosts : new[i] = hosts[k]
  <2>1. new[i] \in ToSet(new)
    BY DEF ToSet
  <2> QED
    BY <1>6, <2>1 DEF ToSet
<1>8. \A i \in DOMAIN new : new[i].id < next'
  BY <1>2, <1>4, <1>7
<1>9. ASSUME NEW i \in DOMAIN new, NEW j \in DOMAIN new, new[i].id = new[j].id PROVE i = j
  <2>1. PICK k \in DOMAIN hosts : new[i] = hosts[k]
    BY <1>7
  <2>2. PICK l \in DOMAIN hosts : new[j] = hosts[l]
    BY <1>7
  <2>3. new[i] = new[j]
    BY <1>4, <1>9, <2>1, <2>2
  <2> QED
    BY <1>6, <2>3 DEF IsInjective
<1>10. HostsInv' /\ OrderInv'
  BY <1>1, <1>2, <1>3, <1>4, <1>5, <1>6, <1>8, <1>9, ListChanges
<1>11. OpenInv'
  <2>1. marked \subseteq Ids
    BY <1>1 DEF OpenInv
  <2> QED
    BY <1>1, <1>2, <1>3, <2>1, PopupGone
<1>12. Touched \subseteq {popup.id}
  <2>1. hosts' = new
    BY <1>2 DEF Changed
  <2>2. ASSUME NEW x, x.id # popup.id PROVE x \in ToSet(hosts) <=> x \in ToSet(new)
    BY <1>6, <2>2 DEF Besides
  <2> QED
    BY <2>1, <2>2, TouchedOnly
<1>13. Touched \subseteq chosen
  <2>1. CASE popup.id = None
    <3>1. Touched \subseteq Ids
      BY <1>1, HostIds DEF Touched
    <3> QED
      BY <1>12, <2>1, <3>1, Constants
  <2>2. CASE popup.id # None
    BY <1>1, <1>12, <2>2 DEF OpenInv
  <2> QED
    BY <2>1, <2>2
<1>14. OnTheChosen
  BY <1>1, <1>2, <1>3, <1>13 DEF OnTheChosen, OpenInv
<1> QED
  BY <1>10, <1>11, <1>14 DEF AppInv

LEMMA SaveSitesStep ==
    ASSUME AppInv, SaveSites
    PROVE  AppInv' /\ OnTheChosen
<1> DEFINE site(rename, h) == IF rename # <<>> /\ h.site # None /\ SameSite(h.site, rename[1])
                              THEN rename[2] ELSE h.site
           defined(s) == {None} \cup {t \in SiteNames : \E d \in s : Lower[t] = Lower[d]}
           edited(s, rename) == [i \in DOMAIN hosts |-> [hosts[i] EXCEPT
                                    !.site = IF site(rename, hosts[i]) \in defined(s)
                                             THEN site(rename, hosts[i]) ELSE None]]
<1>1. HostsInv /\ OrderInv /\ OpenInv
  BY DEF AppInv
<1>2. PICK s \in SiteLists, rename \in {<<>>} \cup (sites \X SiteNames) :
         Changed(edited(s, rename), s, uses)
  BY DEF SaveSites
<1>3. Saves("sites") /\ marked' = marked /\ next' = next /\ stored' = stored
  BY DEF SaveSites
<1>4. /\ popup.kind = "sites" /\ popup' = NoPopup /\ chosen' = {} /\ quit = FALSE
      /\ ~world.pick /\ stored = {} /\ UNCHANGED <<query, world, pending, quit>>
  BY <1>1, <1>3, SavesIs
<1> DEFINE new == edited(s, rename)
<1>5. defined(s) \subseteq SiteNames \cup {None}
  OBVIOUS
<1> HIDE DEF site, defined
<1>6. ASSUME NEW i \in DOMAIN hosts PROVE new[i] \in HostType /\ new[i].id = hosts[i].id
  <2> DEFINE to == IF site(rename, hosts[i]) \in defined(s) THEN site(rename, hosts[i]) ELSE None
  <2>1. to \in SiteNames \cup {None}
    BY <1>5
  <2>2. hosts[i] \in HostType
    BY <1>1 DEF HostsInv
  <2>3. new[i] = [hosts[i] EXCEPT !.site = to]
    OBVIOUS
  <2> HIDE DEF to, new
  <2>4. [hosts[i] EXCEPT !.site = to] \in HostType /\ [hosts[i] EXCEPT !.site = to].id = hosts[i].id
    BY <2>1, <2>2 DEF HostType
  <2> QED
    BY <2>3, <2>4
<1>7. new = [i \in DOMAIN hosts |-> new[i]]
  OBVIOUS
<1> HIDE DEF new
<1>8. new \in [DOMAIN hosts -> HostType] /\ \A i \in DOMAIN hosts : new[i].id = hosts[i].id
  BY <1>6, <1>7
<1>9. Changed(new, s, uses) /\ s \subseteq SiteNames
  BY <1>2, Constants DEF new
<1>10. HostsInv' /\ OrderInv'
  BY <1>1, <1>3, <1>4, <1>8, <1>9, ListEdits
<1>11. OpenInv'
  <2>1. marked \subseteq Ids
    BY <1>1 DEF OpenInv
  <2> QED
    BY <1>1, <1>3, <1>4, <2>1, PopupGone
<1>12. OnTheChosen
  BY <1>1, <1>4, OnOthers
<1> QED
  BY <1>10, <1>11, <1>12 DEF AppInv

LEMMA AdoptStep ==
    ASSUME AppInv, Adopt
    PROVE  AppInv' /\ OnTheChosen
<1>1. HostsInv /\ OrderInv /\ OpenInv
  BY DEF AppInv
<1>2. PICK f \in Others : Changed(f.hosts, f.sites, uses)
  BY DEF Adopt
<1>3. Saves("settings") /\ marked' = marked /\ next' = next /\ stored' = stored
  BY DEF Adopt
<1>4. /\ popup.kind = "settings" /\ popup' = NoPopup /\ chosen' = {} /\ quit = FALSE
      /\ ~world.pick /\ stored = {} /\ UNCHANGED <<query, world, pending, quit>>
  BY <1>1, <1>3, SavesIs
<1> DEFINE h == f.hosts
<1>5. /\ h \in Seq(HostType) /\ f.sites \subseteq SiteNames
      /\ \A i \in DOMAIN h : h[i].id < FirstNew
      /\ \A i, j \in DOMAIN h : h[i].id = h[j].id => i = j
  BY AppAssumption
<1>6. Changed(h, f.sites, uses)
  BY <1>2
<1> HIDE DEF h
<1>7. uses \in [Ids -> 0..MaxUses] /\ next \in FirstNew..(MaxId + 1)
  BY <1>1 DEF HostsInv
<1>8. \A i \in DOMAIN h : h[i].id < next
  <2> TAKE i \in DOMAIN h
  <2>1. h[i] \in HostType
    BY <1>5
  <2>2. h[i].id \in Ids
    BY <2>1 DEF HostType
  <2>3. h[i].id \in Int /\ FirstNew \in Int /\ MaxId \in Int
    BY <2>2, Constants
  <2> QED
    BY <1>5, <1>7, <2>3
<1>9. HostsInv' /\ OrderInv'
  BY <1>1, <1>3, <1>4, <1>5, <1>6, <1>7, <1>8, ListChanges
<1>10. OpenInv'
  <2>1. marked \subseteq Ids
    BY <1>1 DEF OpenInv
  <2> QED
    BY <1>1, <1>3, <1>4, <2>1, PopupGone
<1>11. OnTheChosen
  BY <1>1, <1>4, OnOthers
<1> QED
  BY <1>9, <1>10, <1>11 DEF AppInv

LEMMA ImportStep ==
    ASSUME AppInv, ImportSshConfig
    PROVE  AppInv' /\ OnTheChosen
<1> DEFINE fresh(f) == Retained(f, Names \ {h.name : h \in ToSet(hosts)})
           host(f, i) == [id |-> next + i - 1, name |-> fresh(f)[i], site |-> None, tags |-> {},
                          tfa |-> FALSE, cred |-> None]
           hostsOf(f) == [i \in DOMAIN fresh(f) |-> host(f, i)]
<1>1. HostsInv /\ OrderInv /\ OpenInv
  BY DEF AppInv
<1>2. PICK f \in Imports :
         /\ next + Len(fresh(f)) <= MaxId + 1
         /\ Changed(hosts \o hostsOf(f), sites, uses)
         /\ next' = next + Len(fresh(f))
  BY DEF ImportSshConfig
<1>3. /\ popup = NoPopup /\ quit = FALSE /\ ~world.pick
      /\ UNCHANGED <<query, marked, popup, world, pending, quit, stored, chosen>>
  BY <1>1 DEF ImportSshConfig, OpenInv
<1> DEFINE names == fresh(f)
           more == hostsOf(f)
           new == hosts \o more
<1>4. names \in Seq(Names)
  <2>1. f \in Seq(Names)
    BY Constants
  <2> QED
    BY <2>1, RetainedType
<1>5. DOMAIN names = 1 .. Len(names) /\ Len(names) \in Nat
  BY <1>4
<1>6. /\ hosts \in Seq(HostType) /\ sites \subseteq SiteNames /\ uses \in [Ids -> 0..MaxUses]
      /\ DOMAIN hosts = 1 .. Len(hosts) /\ Len(hosts) \in Nat
      /\ next \in FirstNew..(MaxId + 1)
      /\ \A i \in DOMAIN hosts : hosts[i].id \in Ids /\ hosts[i].id < next
      /\ \A i, j \in DOMAIN hosts : hosts[i].id = hosts[j].id => i = j
  BY <1>1, HostIds DEF HostsInv
<1>7. /\ MaxId \in Nat /\ FirstNew \in Nat \ {0} /\ Ids = 1 .. MaxId /\ next \in Nat \ {0}
      /\ next + Len(names) <= MaxId + 1 /\ next' = next + Len(names)
      /\ next' \in FirstNew..(MaxId + 1)
  <2>1. MaxId \in Nat /\ FirstNew \in Nat \ {0} /\ Ids = 1 .. MaxId
    BY Constants
  <2>2. next \in Nat \ {0} /\ FirstNew <= next
    BY <1>6, <2>1
  <2>3. next + Len(names) <= MaxId + 1 /\ next' = next + Len(names)
    BY <1>2
  <2> HIDE DEF names
  <2> QED
    BY <1>5, <2>1, <2>2, <2>3
<1>8. ASSUME NEW i \in 1 .. Len(names)
      PROVE  more[i] \in HostType /\ more[i].id = next + i - 1
  <2>1. next + i - 1 \in Ids
    <3> HIDE DEF names
    <3> QED
      BY <1>5, <1>7
  <2>2. names[i] \in Names
    BY <1>4
  <2>3. more[i] = [id |-> next + i - 1, name |-> names[i], site |-> None, tags |-> {},
                   tfa |-> FALSE, cred |-> None]
    BY <1>5
  <2> HIDE DEF names, more
  <2> QED
    BY <2>1, <2>2, <2>3 DEF HostType
<1>9. more = [i \in 1 .. Len(names) |-> more[i]]
  BY <1>5
<1> HIDE DEF names, more
<1>10. more \in Seq(HostType) /\ Len(more) = Len(names)
  <2>1. more \in [1 .. Len(names) -> HostType]
    BY <1>8, <1>9
  <2> QED
    BY <1>5, <2>1
<1>11. /\ new \in Seq(HostType) /\ DOMAIN new = 1 .. Len(hosts) + Len(names)
       /\ \A i \in 1 .. Len(hosts) + Len(names) :
             new[i] = IF i <= Len(hosts) THEN hosts[i] ELSE more[i - Len(hosts)]
  <2>1. /\ new \in Seq(HostType) /\ Len(new) = Len(hosts) + Len(more)
        /\ \A i \in 1 .. Len(hosts) + Len(more) :
              new[i] = IF i <= Len(hosts) THEN hosts[i] ELSE more[i - Len(hosts)]
    <3>1. hosts \in Seq(HostType) /\ more \in Seq(HostType)
      BY <1>6, <1>10
    <3> QED
      BY <3>1, ConcatProperties
  <2>2. DOMAIN new = 1 .. Len(new)
    BY <2>1
  <2> HIDE DEF new
  <2> QED
    BY <1>10, <2>1, <2>2
<1>12. Changed(new, sites, uses)
  BY <1>2 DEF more
<1> HIDE DEF new
\* The ids of those that were there are below next, of the others from it on.
<1>13. ASSUME NEW i \in DOMAIN new
       PROVE  \/ i \in DOMAIN hosts /\ new[i].id = hosts[i].id /\ new[i].id < next
                 /\ new[i].id \in Nat
              \/ i \notin DOMAIN hosts /\ new[i].id = next + (i - Len(hosts)) - 1
                 /\ i - Len(hosts) \in 1 .. Len(names)
  <2>1. CASE i <= Len(hosts)
    <3>1. i \in DOMAIN hosts /\ new[i] = hosts[i]
      BY <1>5, <1>6, <1>11, <2>1
    <3> QED
      BY <1>6, <1>7, <3>1
  <2>2. CASE ~(i <= Len(hosts))
    <3>1. i - Len(hosts) \in 1 .. Len(names) /\ new[i] = more[i - Len(hosts)] /\ i \notin DOMAIN hosts
      BY <1>5, <1>6, <1>11, <2>2
    <3> QED
      BY <1>8, <3>1
  <2> QED
    BY <2>1, <2>2
<1>14. \A i \in DOMAIN new : i \in Int
  BY <1>5, <1>6, <1>11
<1>15. ASSUME NEW i \in DOMAIN new PROVE new[i].id < next'
  <2>1. next \in Int /\ Len(names) \in Nat /\ next' = next + Len(names)
    BY <1>5, <1>7
  <2>2. CASE new[i].id < next /\ new[i].id \in Nat
    BY <2>1, <2>2
  <2>3. CASE new[i].id = next + (i - Len(hosts)) - 1 /\ i - Len(hosts) \in 1 .. Len(names)
    <3> DEFINE k == i - Len(hosts)
    <3>1. new[i].id = next + k - 1 /\ k \in 1 .. Len(names)
      BY <2>3
    <3> HIDE DEF k
    <3>2. k \in Int /\ k <= Len(names)
      BY <2>1, <3>1
    <3>3. next + k - 1 < next + Len(names)
      BY <2>1, <3>2
    <3> QED
      BY <2>1, <3>1, <3>3
  <2> QED
    BY <1>13, <2>2, <2>3
<1>16. ASSUME NEW i \in DOMAIN new, NEW j \in DOMAIN new, new[i].id = new[j].id PROVE i = j
  <2>1. i \in Int /\ j \in Int /\ Len(hosts) \in Int /\ next \in Int
    BY <1>6, <1>7, <1>14
  <2>2. CASE i \in DOMAIN hosts /\ j \in DOMAIN hosts
    BY <1>6, <1>13, <1>16, <2>2
  <2>3. ASSUME NEW a \in DOMAIN new, a \notin DOMAIN hosts
        PROVE  new[a].id = next + (a - Len(hosts)) - 1 /\ ~(new[a].id < next)
    <3> DEFINE k == a - Len(hosts)
    <3>1. new[a].id = next + k - 1 /\ k \in 1 .. Len(names)
      BY <1>13, <2>3
    <3> HIDE DEF k
    <3>2. k \in Int /\ 1 <= k
      BY <1>5, <3>1
    <3>3. ~(next + k - 1 < next)
      BY <2>1, <3>2
    <3> QED
      BY <3>1, <3>3 DEF k
  <2>4. \A a \in DOMAIN new : a \in DOMAIN hosts => new[a].id < next
    BY <1>13
  <2>5. CASE i \notin DOMAIN hosts /\ j \notin DOMAIN hosts
    <3>1. next + (i - Len(hosts)) - 1 = next + (j - Len(hosts)) - 1
      BY <1>16, <2>3, <2>5
    <3> QED
      BY <2>1, <3>1
  <2> QED
    BY <1>16, <2>2, <2>3, <2>4, <2>5
<1>17. HostsInv' /\ OrderInv'
  BY <1>1, <1>3, <1>6, <1>7, <1>11, <1>12, <1>15, <1>16, ListChanges
<1>18. OpenInv'
  <2>1. marked \subseteq Ids /\ chosen \subseteq Ids /\ stored \subseteq Ids \cup Creds
    BY <1>1 DEF OpenInv
  <2> QED
    BY <1>1, <1>3, <2>1, PopupGone
<1>19. OnTheChosen
  BY <1>1, <1>3, OnOthers DEF NoPopup, Over
<1> QED
  BY <1>17, <1>18, <1>19 DEF AppInv

\* A key of the secret store is a credential, which is no host's id, or an id.
LEMMA BulkEachStep ==
    ASSUME AppInv, ApplyBulk, BulkEach
    PROVE  AppInv' /\ OnTheChosen
<1> DEFINE key(h) == IF h.cred = None THEN h.id ELSE h.cred
<1>1. HostsInv /\ OrderInv /\ OpenInv
  BY DEF AppInv
<1>2. /\ Saves("bulk") /\ marked' = {} /\ next' = next
  BY DEF ApplyBulk
<1>3. PICK failed \in SUBSET popup.at : stored' = {key(hosts[i]) : i \in popup.at \ failed}
  BY DEF BulkEach
<1>4. /\ popup.kind = "bulk" /\ popup' = NoPopup /\ chosen' = {} /\ quit = FALSE
      /\ ~world.pick /\ stored = {} /\ UNCHANGED <<query, world, pending, quit>>
  BY <1>1, <1>2, SavesIs
<1>5. Changed(hosts, sites, uses) /\ hosts' = hosts
  BY DEF BulkEach, Changed
<1>6. /\ \A i \in DOMAIN hosts : hosts[i] \in HostType /\ hosts[i].id \in Ids
      /\ hosts \in [DOMAIN hosts -> HostType] /\ sites \subseteq SiteNames
      /\ popup.at \subseteq DOMAIN hosts
  <2>1. \A i \in DOMAIN hosts : hosts[i] \in HostType /\ hosts[i].id \in Ids
    BY <1>1, HostIds
  <2>2. hosts \in [DOMAIN hosts -> HostType] /\ sites \subseteq SiteNames
    BY <1>1 DEF HostsInv
  <2> QED
    BY <1>1, <2>1, <2>2 DEF OpenInv
<1>7. ASSUME NEW k \in stored'
      PROVE  k \in Ids \cup Creds /\ (k \in Creds \/ k \in IdsAt(popup.at))
  <2>1. PICK i \in popup.at : k = key(hosts[i])
    BY <1>3
  <2>2. CASE hosts[i].cred = None
    BY <1>6, <2>1, <2>2 DEF IdsAt
  <2>3. CASE hosts[i].cred # None
    <3>1. hosts[i].cred \in Creds
      BY <1>6, <2>3 DEF HostType
    <3> QED
      BY <2>1, <2>3, <3>1
  <2> QED
    BY <2>2, <2>3
<1>8. HostsInv' /\ OrderInv'
  BY <1>1, <1>2, <1>4, <1>5, <1>6, ListEdits
<1>9. OpenInv'
  <2>1. stored' \subseteq Ids \cup Creds
    BY <1>7
  <2> QED
    BY <1>1, <1>2, <1>4, <2>1, PopupGone
<1>10. Touched = {}
  BY <1>5 DEF Touched
<1>11. stored' \cap IdsOf(hosts) \subseteq chosen
  <2>1. ASSUME NEW k \in stored', k \in IdsOf(hosts) PROVE k \in chosen
    <3>1. k \notin Creds
      BY <1>1, <2>1, HostIds, Constants
    <3>2. k \in IdsAt(popup.at)
      BY <1>7, <3>1
    <3>3. popup.at # {}
      BY <3>2 DEF IdsAt
    <3> QED
      BY <1>1, <3>2, <3>3 DEF OpenInv
  <2> QED
    BY <2>1
<1>12. OnTheChosen
  BY <1>1, <1>4, <1>10, <1>11 DEF OnTheChosen, OpenInv
<1> QED
  BY <1>8, <1>9, <1>12 DEF AppInv

\* All of what was chosen is given the same credential, and nothing else is.
LEMMA BulkBinds ==
    ASSUME AppInv, ApplyBulk, NEW c \in Creds \cup {None}, Changed(Bound(c), sites, uses),
           stored' \subseteq Creds
    PROVE  AppInv' /\ OnTheChosen
<1> DEFINE new == Bound(c)
<1>1. HostsInv /\ OrderInv /\ OpenInv
  BY DEF AppInv
<1>2. /\ Saves("bulk") /\ marked' = {} /\ next' = next
  BY DEF ApplyBulk
<1>3. /\ popup.kind = "bulk" /\ popup' = NoPopup /\ chosen' = {} /\ quit = FALSE
      /\ ~world.pick /\ stored = {} /\ UNCHANGED <<query, world, pending, quit>>
  BY <1>1, <1>2, SavesIs
<1>4. /\ \A i \in DOMAIN hosts : hosts[i] \in HostType /\ hosts[i].id \in Ids
      /\ \A i, j \in DOMAIN hosts : hosts[i].id = hosts[j].id => i = j
      /\ sites \subseteq SiteNames /\ IdsOf(hosts) \subseteq Ids
      /\ popup.at \subseteq DOMAIN hosts
      /\ popup.at # {} => IdsAt(popup.at) = chosen
  BY <1>1, HostIds DEF HostsInv, OpenInv
<1>5. /\ DOMAIN new = DOMAIN hosts /\ new = [i \in DOMAIN hosts |-> new[i]]
      /\ \A i \in DOMAIN hosts :
            new[i] = IF i \in popup.at THEN [hosts[i] EXCEPT !.cred = c] ELSE hosts[i]
  BY DEF Bound
<1>6. Changed(new, sites, uses) /\ hosts' = new
  BY DEF Changed
<1> HIDE DEF new
<1>7. ASSUME NEW i \in DOMAIN hosts
      PROVE  /\ new[i] \in HostType /\ new[i].id = hosts[i].id
             /\ i \in popup.at => new[i].cred = c
             /\ i \notin popup.at => new[i] = hosts[i]
  <2>1. hosts[i] \in HostType
    BY <1>4
  <2>2. /\ [hosts[i] EXCEPT !.cred = c] \in HostType
        /\ [hosts[i] EXCEPT !.cred = c].id = hosts[i].id
        /\ [hosts[i] EXCEPT !.cred = c].cred = c
    BY <2>1 DEF HostType
  <2> QED
    BY <1>5, <2>1, <2>2
<1>8. new \in [DOMAIN hosts -> HostType]
  BY <1>5, <1>7
<1>9. HostsInv' /\ OrderInv'
  BY <1>1, <1>2, <1>3, <1>4, <1>6, <1>7, <1>8, ListEdits
<1>10. OpenInv'
  <2>1. stored' \subseteq Ids \cup Creds
    OBVIOUS
  <2> QED
    BY <1>1, <1>2, <1>3, <2>1, PopupGone
<1>11. Touched \subseteq IdsAt(popup.at)
  <2>1. ASSUME NEW h, h.id \notin IdsAt(popup.at)
        PROVE  h \in ToSet(hosts) <=> h \in ToSet(new)
    <3>1. ASSUME NEW i \in DOMAIN hosts, h = hosts[i] \/ h = new[i] PROVE hosts[i] = new[i]
      <4>1. h.id = hosts[i].id
        BY <1>7, <3>1
      <4>2. i \notin popup.at
        BY <2>1, <4>1 DEF IdsAt
      <4> QED
        BY <1>7, <4>2
    <3> QED
      BY <1>5, <3>1 DEF ToSet
  <2> QED
    BY <1>6, <2>1, TouchedOnly
<1>12. Touched \subseteq chosen /\ stored' \cap IdsOf(hosts) \subseteq chosen
  <2>1. stored' \cap IdsOf(hosts) = {}
    BY <1>4, Constants
  <2>2. CASE popup.at = {}
    <3>1. Touched = {}
      BY <1>11, <2>2 DEF IdsAt
    <3> QED
      BY <2>1, <3>1
  <2> QED
    BY <1>4, <1>11, <2>1, <2>2
<1>13. ASSUME Touched # {}, NEW h \in ToSet(hosts'), h.id \in chosen PROVE h.cred = c
  <2>1. popup.at # {}
    BY <1>11, <1>13 DEF IdsAt
  <2>2. PICK i \in DOMAIN hosts : h = new[i]
    BY <1>5, <1>6 DEF ToSet
  <2>3. PICK j \in popup.at : h.id = hosts[j].id
    BY <1>4, <1>13, <2>1 DEF IdsAt
  <2>4. i = j
    BY <1>4, <1>7, <2>2, <2>3
  <2> QED
    BY <1>7, <2>2, <2>3, <2>4
<1>14. OnTheChosen
  <2>1. Touched # {} =>
           \E d \in Creds \cup {None} : \A h \in ToSet(hosts') : h.id \in chosen => h.cred = d
    BY <1>13
  <2> QED
    BY <1>1, <1>3, <1>12, <2>1 DEF OnTheChosen, OpenInv
<1> QED
  BY <1>9, <1>10, <1>14 DEF AppInv

LEMMA ApplyBulkStep ==
    ASSUME AppInv, ApplyBulk
    PROVE  AppInv' /\ OnTheChosen
<1>1. HostsInv /\ OrderInv /\ OpenInv
  BY DEF AppInv
<1>2. Saves("bulk") /\ marked' = {} /\ next' = next /\ (BulkEach \/ BulkShared \/ BulkUnbind)
  BY DEF ApplyBulk
<1>3. /\ popup.kind = "bulk" /\ popup' = NoPopup /\ chosen' = {} /\ quit = FALSE
      /\ ~world.pick /\ stored = {} /\ UNCHANGED <<query, world, pending, quit>>
  BY <1>1, <1>2, SavesIs
<1>4. CASE BulkEach
  BY <1>4, BulkEachStep
<1>5. CASE BulkUnbind
  <2>1. stored' \subseteq Creds /\ Changed(Bound(None), sites, uses)
    BY <1>3, <1>5 DEF BulkUnbind
  <2> QED
    BY <2>1, BulkBinds
<1>6. ASSUME NEW c \in Creds, stored' \in {{}, {c}}, Changed(Bound(c), sites, uses)
      PROVE  AppInv' /\ OnTheChosen
  <2>1. stored' \subseteq Creds
    BY <1>6
  <2> QED
    BY <1>6, <2>1, BulkBinds
<1>7. CASE UNCHANGED stored /\ Changed(hosts, sites, uses)
  <2>1. stored' = {} /\ hosts' = hosts
    BY <1>3, <1>7 DEF Changed
  <2>2. hosts \in [DOMAIN hosts -> HostType] /\ sites \subseteq SiteNames
    BY <1>1 DEF HostsInv
  <2>3. HostsInv' /\ OrderInv'
    BY <1>1, <1>2, <1>3, <1>7, <2>2, ListEdits
  <2>4. OpenInv'
    BY <1>1, <1>2, <1>3, <2>1, PopupGone
  <2>5. OnTheChosen
    BY <1>1, <1>3, <2>1, OnNone
  <2> QED
    BY <2>3, <2>4, <2>5 DEF AppInv
<1> QED
  BY <1>2, <1>4, <1>5, <1>6, <1>7 DEF BulkShared

LEMMA SubmitCodeStep ==
    ASSUME AppInv, SubmitCode
    PROVE  AppInv' /\ OnTheChosen
<1>1. HostsInv /\ OrderInv /\ OpenInv
  BY DEF AppInv
<1>2. /\ popup.kind = "code" /\ quit = FALSE /\ popup' = NoPopup
      /\ UNCHANGED <<hosts, sites, query, order, selected, marked, world, next, changes, stored,
                     chosen>>
  BY <1>1 DEF SubmitCode, IsOpen, OpenInv
<1>3. PICK i \in popup.at : Connect(i, TRUE)
  BY DEF SubmitCode
<1>4. popup # NoPopup /\ ~world.pick /\ pending = 0
  BY <1>1, <1>2 DEF OpenInv, NoPopup, Over
<1>5. i \in DOMAIN hosts /\ popup.at = {i} /\ chosen = {hosts[i].id}
  <2>1. popup.at = {i} /\ IdsAt(popup.at) = chosen
    BY <1>1, <1>2 DEF OpenInv
  <2> QED
    BY <1>1, <2>1 DEF OpenInv, IdsAt
<1>6. /\ uses' \in [Ids -> 0..MaxUses]
      /\ \/ pending' = i /\ quit' = TRUE
         \/ UNCHANGED <<pending, quit>>
  BY <1>1, <1>3, <1>5, Connecting
<1>7. HostsInv' /\ OrderInv'
  BY <1>1, <1>2, <1>6, ListSame
<1>8. OpenInv'
  <2>1. NoPopup \in Popups /\ NoPopup.at = {} /\ NoPopup.id = None /\ NoPopup.kind = "none"
    BY DEF NoPopup, Over, Popups
  <2>2. (pending' \in DOMAIN hosts \cup {0}) /\ (pending' # 0 => quit') /\ quit' \in BOOLEAN
    BY <1>2, <1>4, <1>5, <1>6
  <2> QED
    BY <1>1, <1>2, <1>4, <2>1, <2>2 DEF OpenInv
<1>9. OnTheChosen
  <2>1. pending' # pending => chosen' = {hosts[pending'].id}
    BY <1>2, <1>5, <1>6
  <2> QED
    BY <1>1, <1>2, <1>4, <2>1 DEF OnTheChosen, OpenInv
<1> QED
  BY <1>7, <1>8, <1>9 DEF AppInv
-----------------------------------------------------------------------------
LEMMA InitInv ==
    ASSUME Init
    PROVE  AppInv
<1> DEFINE none == [i \in Ids |-> 0]
<1>1. PICK f \in Starts : hosts = f.hosts /\ sites = f.sites
  BY DEF Init
<1>2. /\ f.hosts \in Seq(HostType)
      /\ \A i \in DOMAIN f.hosts : f.hosts[i].id < FirstNew
      /\ \A i, j \in DOMAIN f.hosts : f.hosts[i].id = f.hosts[j].id => i = j
      /\ f.sites \subseteq SiteNames
  BY AppAssumption
<1>3. MaxId \in Nat /\ FirstNew \in 1 .. MaxId /\ next = FirstNew
  BY Constants DEF Init
<1>4. none \in [Ids -> 0..MaxUses] /\ uses = none
  BY Constants DEF Init
<1> HIDE DEF none
<1>5. HostsInv
  <2>1. next \in FirstNew..(MaxId + 1)
    BY <1>3
  <2> QED
    BY <1>1, <1>2, <1>3, <1>4, <2>1 DEF HostsInv
<1>6. query \in Queries /\ (query.typed \/ query = NoQuery)
  BY Constants DEF Init
<1>7. OrderInv
  <2>1. order = Order(hosts, query, none, world.sort)
    BY <1>4 DEF Init
  <2> QED
    BY <1>4, <1>6, <2>1 DEF Init, OrderInv
<1>8. OpenInv
  <2>1. \/ popup = NoPopup
        \/ popup = Over("wizard", {}, None) /\ ~world.pick
    BY DEF Init
  <2>2. popup \in Popups /\ popup.at = {} /\ popup.id = None /\ popup.kind \in {"none", "wizard"}
    BY <2>1 DEF NoPopup, Over, Popups
  <2> QED
    BY <2>1, <2>2 DEF Init, OpenInv
<1> QED
  BY <1>5, <1>7, <1>8 DEF AppInv

LEMMA StutterInv ==
    ASSUME AppInv, UNCHANGED appVars
    PROVE  AppInv'
<1>1. HostsInv /\ OrderInv /\ OpenInv
  BY DEF AppInv
<1>2. /\ UNCHANGED <<hosts, sites, uses, query, order, selected, marked, popup, world, pending>>
      /\ UNCHANGED <<quit, next, changes, stored, chosen>>
  BY DEF appVars
<1>3. uses' \in [Ids -> 0..MaxUses]
  BY <1>1, <1>2 DEF HostsInv
<1>4. HostsInv' /\ OrderInv'
  BY <1>1, <1>2, <1>3, ListSame
<1>5. OpenInv'
  BY <1>1, <1>2 DEF OpenInv, IdsAt, IdsOf
<1> QED
  BY <1>4, <1>5 DEF AppInv

LEMMA NextInv ==
    ASSUME AppInv, Next
    PROVE  AppInv' /\ OnTheChosen
BY TypeQueryStep, EscStep, MoveStep, ToggleMarkStep, EnterStep, OpenForHostStep, OpenOtherStep,
   OpenBulkSecretStep, ClosePopupStep, SaveFormStep, DeleteStep, SaveSitesStep, AdoptStep,
   ImportStep, ApplyBulkStep, SubmitCodeStep DEF Next

\* What the application relies on after every key: the hosts have an id each that was
\* given out, the order is that of some count of uses, and an open popup is for what
\* the user saw chosen when it opened (App in src/src/app.rs).
THEOREM AppInvariant == Spec => []AppInv
<1>1. AppInv /\ [Next]_appVars => AppInv'
  BY NextInv, StutterInv
<1> QED
  BY InitInv, <1>1, PTL DEF Spec

\* Every index the application uses without asking - a row's host, the selection, the
\* hosts a popup or a connect is for - names a host that exists, however hosts are
\* added, removed, imported and adopted in between.
THEOREM AppTypeCorrect == Spec => []AppTypeOK
<1>1. AppInv => AppTypeOK
  BY InvTypes
<1> QED
  BY AppInvariant, <1>1, PTL

\* However many hosts, sites and queries there are: the list shows each host that it
\* should exactly once, under one header for each site, and the row drawn as selected
\* is the host that a key acts on (recompute, group_order, render_list).
THEOREM ListStaysWhole == Spec => []ListIsWhole
<1>1. AppInv => ListIsWhole
  BY InvLists
<1> QED
  BY AppInvariant, <1>1, PTL

\* No key connects to, edits, deletes or gives credentials to a host but those that
\* were chosen when the user asked for it, and a bulk change reaches all of them.
THEOREM KeysActOnTheChosen == Spec => ActsOnTheChosen
<1>1. AppInv /\ [Next]_appVars => [OnTheChosen]_appVars
  BY NextInv
<1> QED
  BY AppInvariant, <1>1, PTL DEF Spec, ActsOnTheChosen
=============================================================================
