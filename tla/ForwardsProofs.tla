---------------------------- MODULE ForwardsProofs ----------------------------
(***************************************************************************)
(* That no forward is left running unnoticed, for any number of screens,   *)
(* processes and forwards.  RunningIsListed alone is not inductive: when a *)
(* stopped forward leaves the ledger it must be dead or spared (DoneInv),  *)
(* which kill() knows only because ps shows every forward that runs        *)
(* (ProcessInv).                                                           *)
(***************************************************************************)
EXTENDS Forwards, SequenceTheorems, WellFoundedInduction, TLAPS

\* A forward that runs has the pid and the spec it was recorded with, no other
\* pid, and ps shows it.
ProcessInv ==
    \A p \in Pids : os[p].of \in Ids =>
        /\ os[p].of \in DOMAIN entry
        /\ entry[os[p].of] = [pid |-> p, spec |-> os[p].spec]
        /\ ~os[p].zombie

\* What kill() is through with does not run, or is known to.
DoneInv == \A t \in Tuis : At(t, "done") /\ Running(tui[t].job) => tui[t].job \in spared

ForwardsInv ==
    ForwardsTypeOK /\ ProcessInv /\ DoneInv /\ RunningIsListed /\ StoppedIsDead
-----------------------------------------------------------------------------
(* Induction on the natural numbers, and the function Retained takes.      *)

\* Every set of natural numbers has a least element.
LEMMA LeastNatural ==
    ASSUME NEW T, T \subseteq Nat, T # {}
    PROVE  \E least \in T : \A n \in T : least <= n
<1>1. IsWellFoundedOn(OpToRel(<, Nat), Nat)
  BY NatLessThanWellFounded
<1>2. \E least \in T : \A n \in T : <<n, least>> \notin OpToRel(<, Nat)
  BY <1>1, WFMin
<1>3. \A m, n \in Nat : <<n, m>> \notin OpToRel(<, Nat) => m <= n
  BY DEF OpToRel
<1> QED
  BY <1>2, <1>3

\* Induction, for a set: the theorems of the library take a predicate, which no
\* prover at hand can instantiate.
LEMMA InductiveSet ==
    ASSUME NEW T, 0 \in T, \A n \in Nat : n \in T => n + 1 \in T
    PROVE  Nat \subseteq T
<1> SUFFICES ASSUME Nat \ T # {} PROVE FALSE
  OBVIOUS
<1>1. PICK least \in Nat \ T : \A n \in Nat \ T : least <= n
  BY LeastNatural
<1>2. least # 0 /\ least - 1 \in Nat /\ least - 1 + 1 = least
  BY <1>1
<1>3. least - 1 \in T
  BY <1>1, <1>2
<1> QED
  BY <1>1, <1>2, <1>3
\* The recursive function of Retained, taken as far as m.
Unfolds(f, s, keep, m) ==
    f = [n \in 0 .. m |-> IF n = 0 THEN <<>>
                          ELSE IF s[n] \in keep THEN Append(f[n - 1], s[n])
                          ELSE f[n - 1]]

LEMMA UnfoldingExists ==
    ASSUME NEW s, NEW keep
    PROVE  \A m \in Nat : \E f : Unfolds(f, s, keep, m)
<1> DEFINE T == {m \in Nat : \E f : Unfolds(f, s, keep, m)}
<1>1. 0 \in T
  <2>1. Unfolds([n \in 0 .. 0 |-> <<>>], s, keep, 0)
    BY DEF Unfolds
  <2> QED
    BY <2>1
<1>2. ASSUME NEW n \in Nat, n \in T PROVE n + 1 \in T
  <2>1. PICK f : Unfolds(f, s, keep, n)
    BY <1>2
  <2> DEFINE g == [i \in 0 .. n + 1 |-> IF i = n + 1
                      THEN IF s[i] \in keep THEN Append(f[n], s[i]) ELSE f[n]
                      ELSE f[i]]
  <2>2. \A i \in 0 .. n : f[i] = IF i = 0 THEN <<>>
                                 ELSE IF s[i] \in keep THEN Append(f[i - 1], s[i])
                                 ELSE f[i - 1]
    BY <2>1 DEF Unfolds
  <2>3. \A i \in 0 .. n : g[i] = f[i]
    OBVIOUS
  <2>4. g[n + 1] = IF s[n + 1] \in keep THEN Append(f[n], s[n + 1]) ELSE f[n]
    OBVIOUS
  <2>5. g = [i \in 0 .. n + 1 |-> g[i]]
    OBVIOUS
  <2> HIDE DEF g
  <2>6. ASSUME NEW i \in 0 .. n + 1
        PROVE  g[i] = IF i = 0 THEN <<>>
                      ELSE IF s[i] \in keep THEN Append(g[i - 1], s[i])
                      ELSE g[i - 1]
    <3>1. CASE i = n + 1
      BY <3>1, <2>3, <2>4
    <3>2. CASE i \in 0 .. n
      BY <3>2, <2>2, <2>3
    <3> QED
      BY <3>1, <3>2
  <2>7. Unfolds(g, s, keep, n + 1)
    BY <2>5, <2>6 DEF Unfolds
  <2> QED
    BY <2>7
<1> HIDE DEF T
<1>3. Nat \subseteq T
  BY <1>1, <1>2, InductiveSet
<1> QED
  BY <1>3 DEF T

LEMMA RetainedUnfolds ==
    ASSUME NEW s, NEW keep, Len(s) \in Nat
    PROVE  \E f : Unfolds(f, s, keep, Len(s)) /\ Retained(s, keep) = f[Len(s)]
<1> DEFINE upTo == CHOOSE f : Unfolds(f, s, keep, Len(s))
<1>1. Unfolds(upTo, s, keep, Len(s))
  BY UnfoldingExists
<1>2. Retained(s, keep) = upTo[Len(s)]
  BY DEF Retained, Unfolds
<1> HIDE DEF upTo
<1> QED
  BY <1>1, <1>2
-----------------------------------------------------------------------------
(* The ledger as a set.                                                    *)

LEMMA MembersOf ==
    ASSUME NEW C, NEW s \in Seq(C)
    PROVE  /\ Members(s) \subseteq C
           /\ \A x \in C : /\ Append(s, x) \in Seq(C)
                           /\ Members(Append(s, x)) = Members(s) \cup {x}
<1>1. DOMAIN s = 1 .. Len(s) /\ Len(s) \in Nat /\ \A n \in 1 .. Len(s) : s[n] \in C
  OBVIOUS
<1>2. ASSUME NEW x \in C
      PROVE  Append(s, x) \in Seq(C) /\ Members(Append(s, x)) = Members(s) \cup {x}
  <2> DEFINE l == Append(s, x)
  <2>1. /\ l \in Seq(C) /\ Len(l) = Len(s) + 1 /\ DOMAIN l = 1 .. Len(s) + 1
        /\ l[Len(s) + 1] = x /\ \A n \in 1 .. Len(s) : l[n] = s[n]
    BY <1>2
  <2> HIDE DEF l
  <2>2. Members(l) \subseteq Members(s) \cup {x}
    <3>1. \A n \in 1 .. Len(s) + 1 : n = Len(s) + 1 \/ n \in 1 .. Len(s)
      BY <1>1
    <3> QED
      BY <1>1, <2>1, <3>1 DEF Members
  <2>3. Members(s) \cup {x} \subseteq Members(l)
    <3>1. \A n \in 1 .. Len(s) : n \in 1 .. Len(s) + 1
      BY <1>1
    <3>2. Len(s) + 1 \in 1 .. Len(s) + 1
      BY <1>1
    <3> QED
      BY <1>1, <2>1, <3>1, <3>2 DEF Members
  <2> QED
    BY <2>1, <2>2, <2>3 DEF l
<1> QED
  BY <1>1, <1>2 DEF Members

\* What is retained is what was there of keep.
LEMMA RetainedOf ==
    ASSUME NEW C, NEW s \in Seq(C), NEW keep
    PROVE  /\ Retained(s, keep) \in Seq(C)
           /\ Members(Retained(s, keep)) = Members(s) \cap keep
<1>1. DOMAIN s = 1 .. Len(s) /\ Len(s) \in Nat /\ \A n \in 1 .. Len(s) : s[n] \in C
  OBVIOUS
<1>2. PICK f : Unfolds(f, s, keep, Len(s)) /\ Retained(s, keep) = f[Len(s)]
  BY <1>1, RetainedUnfolds
<1>3. \A n \in 0 .. Len(s) : f[n] = IF n = 0 THEN <<>>
                                   ELSE IF s[n] \in keep THEN Append(f[n - 1], s[n])
                                   ELSE f[n - 1]
  BY <1>2 DEF Unfolds
<1> DEFINE left(n) == {s[i] : i \in 1 .. n} \cap keep
           T == {n \in Nat : n <= Len(s) => f[n] \in Seq(C) /\ Members(f[n]) = left(n)}
<1>4. 0 \in T
  <2>1. f[0] = <<>>
    BY <1>1, <1>3
  <2>2. Members(<<>>) = {} /\ left(0) = {}
    BY DEF Members
  <2> HIDE DEF left
  <2>3. <<>> \in Seq(C)
    OBVIOUS
  <2> QED
    BY <2>1, <2>2, <2>3
<1>5. ASSUME NEW n \in Nat, n \in T PROVE n + 1 \in T
  <2> SUFFICES ASSUME n + 1 <= Len(s)
               PROVE  f[n + 1] \in Seq(C) /\ Members(f[n + 1]) = left(n + 1)
    OBVIOUS
  <2> DEFINE r == f[n]
             x == s[n + 1]
  <2>1. r \in Seq(C) /\ Members(r) = left(n)
    BY <1>1, <1>5
  <2>2. f[n + 1] = IF x \in keep THEN Append(r, x) ELSE r
    BY <1>1, <1>3
  <2>3. x \in C
    BY <1>1
  <2>4. {s[i] : i \in 1 .. n + 1} = {s[i] : i \in 1 .. n} \cup {x}
    <3>1. 1 .. n + 1 = (1 .. n) \cup {n + 1}
      OBVIOUS
    <3> QED
      BY <3>1
  <2>5. left(n + 1) = IF x \in keep THEN left(n) \cup {x} ELSE left(n)
    BY <2>4
  <2> HIDE DEF r, x, left, T
  <2>6. Append(r, x) \in Seq(C) /\ Members(Append(r, x)) = Members(r) \cup {x}
    BY <2>1, <2>3, MembersOf
  <2> QED
    BY <2>1, <2>2, <2>5, <2>6
<1> HIDE DEF T
<1>6. Nat \subseteq T
  BY <1>4, <1>5, InductiveSet
<1>7. f[Len(s)] \in Seq(C) /\ Members(f[Len(s)]) = left(Len(s))
  <2> DEFINE m == Len(s)
  <2>1. m \in T /\ m \in Nat /\ m = Len(s)
    BY <1>1, <1>6
  <2> HIDE DEF m, left
  <2>2. f[m] \in Seq(C) /\ Members(f[m]) = left(m)
    BY <2>1 DEF T
  <2> QED
    BY <2>1, <2>2
<1>8. Members(s) = {s[i] : i \in 1 .. Len(s)}
  BY <1>1 DEF Members
<1> QED
  BY <1>2, <1>7, <1>8

LEMMA WithoutOf ==
    ASSUME NEW C, NEW s \in Seq(C), NEW X
    PROVE  Without(s, X) \in Seq(C) /\ Members(Without(s, X)) = Members(s) \ X
<1> DEFINE keep == Members(s) \ X
<1>1. Without(s, X) = Retained(s, keep)
  BY DEF Without
<1> HIDE DEF keep
<1>2. Without(s, X) \in Seq(C) /\ Members(Without(s, X)) = Members(s) \cap keep
  BY <1>1, RetainedOf
<1> QED
  BY <1>2 DEF keep
-----------------------------------------------------------------------------
(* Screens.                                                                *)

Working == {"spawning", "term", "wait", "kill", "done"}

\* The type of one screen, without and with its positions in the list.
ScreenType(q) ==
    /\ q \in Screens /\ q.mem \in Seq(DOMAIN entry)
    /\ q.sel # 0
    /\ q.job \in DOMAIN entry \cup {None}
    /\ q.pc \in Working <=> q.job # None

ScreenOK(q) ==
    /\ ScreenType(q)
    /\ q.confirm \in 0 .. Len(q.mem)
    /\ q.sel = 1 \/ q.sel \in 1 .. Len(q.mem)

LedgerOK ==
    /\ os \in [Pids -> Processes]
    /\ DOMAIN entry \subseteq Ids
    /\ \A i \in DOMAIN entry : entry[i] \in [pid : Pids, spec : Specs]
    /\ file \in Seq(DOMAIN entry)
    /\ stopped \cup spared \cup lost \subseteq DOMAIN entry

LEMMA TypeParts ==
    ForwardsTypeOK <=> /\ LedgerOK
                       /\ tui \in [Tuis -> Screens]
                       /\ \A t \in Tuis : ScreenOK(tui[t])
<1>1. ASSUME tui \in [Tuis -> Screens] PROVE \A t \in Tuis : tui[t] \in Screens
  BY <1>1
<1> QED
  BY <1>1 DEF ForwardsTypeOK, LedgerOK, ScreenOK, ScreenType, Working

LEMMA TypePartsNext ==
    ForwardsTypeOK' <=> /\ LedgerOK'
                        /\ tui' \in [Tuis -> Screens]
                        /\ \A t \in Tuis : ScreenOK(tui[t])'
<1>1. ASSUME tui' \in [Tuis -> Screens] PROVE \A t \in Tuis : tui'[t] \in Screens
  BY <1>1
<1> QED
  BY <1>1 DEF ForwardsTypeOK, LedgerOK, ScreenOK, ScreenType, Working

\* A step of one screen has the type right if its own state has.
LEMMA OneScreen ==
    ASSUME NEW t \in Tuis, NEW q, ForwardsTypeOK, LedgerOK',
           tui' = [tui EXCEPT ![t] = q], ScreenOK(q)', DOMAIN entry \subseteq DOMAIN entry'
    PROVE  ForwardsTypeOK'
<1>1. tui \in [Tuis -> Screens] /\ \A u \in Tuis : ScreenOK(tui[u])
  BY TypeParts
<1>2. q \in Screens
  BY DEF ScreenOK, ScreenType
<1>3. tui' \in [Tuis -> Screens]
  BY <1>1, <1>2
<1>4. ASSUME NEW u \in Tuis PROVE ScreenOK(tui[u])'
  <2>1. CASE u = t
    BY <2>1, <1>1
  <2>2. CASE u # t
    <3>1. tui'[u] = tui[u] /\ ScreenOK(tui[u])
      BY <2>2, <1>1
    <3>2. Seq(DOMAIN entry) \subseteq Seq(DOMAIN entry')
      OBVIOUS
    <3> QED
      BY <3>1, <3>2 DEF ScreenOK, ScreenType
  <2> QED
    BY <2>1, <2>2
<1> QED
  BY <1>3, <1>4, TypePartsNext

\* Whatever the manager points at is in range after the list has changed.
LEMMA ClampedOK ==
    ASSUME NEW q, ScreenType(q)
    PROVE  /\ ScreenOK(Clamped(q))
           /\ Clamped(q).pc = q.pc /\ Clamped(q).job = q.job /\ Clamped(q).mem = q.mem
<1>1. q \in Screens /\ q.mem \in Seq(DOMAIN entry) /\ q.sel \in Nat /\ q.confirm \in Nat
  BY DEF ScreenType, Screens
<1>2. Len(q.mem) \in Nat /\ (q.mem = <<>> <=> Len(q.mem) = 0)
  BY <1>1
<1> DEFINE sel == IF q.sel > Len(q.mem) /\ q.mem # <<>> THEN Len(q.mem)
                  ELSE IF q.mem = <<>> THEN 1 ELSE q.sel
           confirm == IF q.confirm > Len(q.mem) THEN 0 ELSE q.confirm
<1>3. Clamped(q) = [q EXCEPT !.sel = sel, !.confirm = confirm]
  BY <1>1 DEF Clamped, Screens
<1>4. /\ sel \in Nat /\ sel # 0 /\ (sel = 1 \/ sel \in 1 .. Len(q.mem))
      /\ confirm \in 0 .. Len(q.mem) /\ confirm \in Nat
  BY <1>1, <1>2 DEF ScreenType
<1> DEFINE c == Clamped(q)
<1> HIDE DEF sel, confirm
<1>5. /\ c \in Screens /\ c.sel = sel /\ c.confirm = confirm
      /\ c.pc = q.pc /\ c.job = q.job /\ c.mem = q.mem
  BY <1>1, <1>3, <1>4 DEF Screens
<1> HIDE DEF c
<1>6. ScreenOK(c)
  BY <1>4, <1>5 DEF ScreenOK, ScreenType
<1> QED
  BY <1>5, <1>6 DEF c
-----------------------------------------------------------------------------
(* Processes.                                                              *)

\* A forward runs under the pid it was recorded with, and ps shows it.
LEMMA RunsWhereRecorded ==
    ASSUME ForwardsTypeOK, ProcessInv, NEW p \in Pids, os[p].of \in Ids
    PROVE  /\ os[p].of \in DOMAIN entry /\ entry[os[p].of].pid = p
           /\ entry[os[p].of].spec = os[p].spec /\ Alive(os[p].of)
<1>1. /\ os[p].of \in DOMAIN entry /\ entry[os[p].of] = [pid |-> p, spec |-> os[p].spec]
      /\ ~os[p].zombie
  BY DEF ProcessInv
<1>2. os[p].spec \in Specs
  BY <1>1 DEF ForwardsTypeOK
<1>3. <<os[p].spec, os[p].spec>> \in Shows /\ os[p].spec # None
  BY <1>2, ForwardsAssumption
<1> QED
  BY <1>1, <1>3 DEF Alive

LEMMA RunningIsAlive ==
    ASSUME ForwardsTypeOK, ProcessInv, NEW i \in Ids, Running(i)
    PROVE  i \in DOMAIN entry /\ Alive(i)
  BY RunsWhereRecorded DEF Running

\* What dies is the process at p: whatever else ran still does.
LEMMA DyingStep ==
    ASSUME ForwardsTypeOK, ProcessInv, NEW p \in Pids, Dying(p), UNCHANGED entry
    PROVE  /\ os' \in [Pids -> Processes]
           /\ ProcessInv'
           /\ \A i \in Ids : Running(i)' => Running(i) /\ i # os[p].of
           /\ stopped' \subseteq stopped
           /\ spared' = spared \ {os[p].of} /\ stopped' = stopped \ {os[p].of}
           /\ lost' = lost \ {os[p].of}
<1> DEFINE dead == IF os[p].parent = None THEN Free
                   ELSE [Free EXCEPT !.parent = os[p].parent, !.zombie = TRUE]
<1>1. os' = [os EXCEPT ![p] = dead] /\ os \in [Pids -> Processes]
  BY DEF Dying, ForwardsTypeOK
<1>2. dead \in Processes /\ dead.of = None
  BY <1>1 DEF Processes, Free
<1> HIDE DEF dead
<1>3. \A r \in Pids : os'[r] = IF r = p THEN dead ELSE os[r]
  BY <1>1
<1>4. ProcessInv'
  BY <1>2, <1>3, ForwardsAssumption DEF ProcessInv
<1>5. ASSUME NEW i \in Ids, Running(i)' PROVE Running(i) /\ i # os[p].of
  <2>1. PICK r \in Pids : os'[r].of = i
    BY <1>5 DEF Running
  <2>2. r # p /\ os[r].of = i
    BY <2>1, <1>2, <1>3, ForwardsAssumption
  <2>3. entry[i].pid = r
    BY <2>2, RunsWhereRecorded
  <2>4. i # os[p].of
    BY <2>2, <2>3, RunsWhereRecorded
  <2> QED
    BY <2>2, <2>4 DEF Running
<1> QED
  BY <1>1, <1>2, <1>4, <1>5 DEF Dying

\* A step that starts no forward and keeps what is recorded of them.
LEMMA NothingStarts ==
    ASSUME ForwardsTypeOK, ProcessInv, UNCHANGED entry,
           \A p \in Pids : os'[p].of \in Ids => /\ os'[p].of = os[p].of
                                              /\ os'[p].spec = os[p].spec
                                              /\ os'[p].zombie = os[p].zombie
    PROVE  ProcessInv' /\ \A i \in Ids : Running(i)' => Running(i)
  BY DEF ProcessInv, Running
-----------------------------------------------------------------------------
(* Reconcile.                                                              *)

\* The step of one screen, whichever way the save went.
LEMMA ReconcileStep ==
    ASSUME ForwardsTypeOK, ProcessInv, UNCHANGED <<os, entry>>, NEW t \in Tuis,
           NEW q, ScreenType(q), NEW held, NEW disk \in Seq(DOMAIN entry),
           NEW missing, missing \subseteq DOMAIN entry, Reconcile(t, q, held, disk, missing)
    PROVE  /\ \E c : /\ tui' = [tui EXCEPT ![t] = c] /\ ScreenOK(c)
                    /\ c.pc = q.pc /\ c.job = q.job
           /\ file' \in Seq(DOMAIN entry) /\ lost' \subseteq DOMAIN entry
           /\ \A i \in DOMAIN entry :
                 (Running(i) /\ i \in Members(disk) \cup missing
                       /\ (i \in Members(held) => i \in Members(q.mem)))
                     => i \in Members(file') \cup lost'
<1>1. PICK unseen \in SUBSET Members(q.mem), ok \in BOOLEAN :
        LET gone == Gone(q.mem, unseen)
            left == Without(q.mem, gone)
        IN  /\ tui' = [tui EXCEPT ![t] = Clamped([q EXCEPT !.mem = left])]
            /\ IF gone = {}
               THEN file' = disk /\ lost' = missing
               ELSE /\ file' = IF ok THEN left ELSE disk
                    /\ lost' = (missing \ Found(left, ok)) \cup Missing(disk, left, held, ok)
                                    \cup {i \in gone : Running(i)}
  BY DEF Reconcile
<1> DEFINE gone == Gone(q.mem, unseen)
           left == Without(q.mem, gone)
           c == Clamped([q EXCEPT !.mem = left])
<1>2. q \in Screens /\ q.mem \in Seq(DOMAIN entry)
  BY DEF ScreenType
<1>3. /\ gone \subseteq Members(q.mem) /\ Members(q.mem) \subseteq DOMAIN entry
      /\ left \in Seq(DOMAIN entry) /\ Members(left) = Members(q.mem) \ gone
  BY <1>2, WithoutOf, MembersOf DEF Gone
<1>4. tui' = [tui EXCEPT ![t] = c]
  BY <1>1
<1>5. \/ gone = {} /\ file' = disk /\ lost' = missing
      \/ file' = left /\ lost' = (missing \ Members(left))
                            \cup {i \in Members(disk) \ Members(held) : Running(i)}
                            \cup {i \in gone : Running(i)}
      \/ file' = disk /\ lost' = missing \cup {i \in Members(left) \ Members(disk) : Running(i)}
                            \cup {i \in gone : Running(i)}
  BY <1>1 DEF Found, Missing
<1> HIDE DEF gone, left
<1>6. ScreenType([q EXCEPT !.mem = left])
  <2>1. DOMAIN entry \subseteq Ids
    BY DEF ForwardsTypeOK
  <2>2. left \in Seq(Ids)
    BY <1>3, <2>1
  <2> QED
    BY <1>2, <1>3, <2>2 DEF ScreenType, Screens
<1>7. ScreenOK(c) /\ c.pc = q.pc /\ c.job = q.job
  BY <1>2, <1>6, ClampedOK DEF Screens
<1> HIDE DEF c
<1>8. Members(disk) \subseteq DOMAIN entry
  BY MembersOf
<1>9. file' \in Seq(DOMAIN entry) /\ lost' \subseteq DOMAIN entry
  BY <1>3, <1>5, <1>8
<1>10. ASSUME NEW i \in DOMAIN entry, Running(i), i \in Members(disk) \cup missing,
              i \in Members(held) => i \in Members(q.mem)
       PROVE  i \in Members(file') \cup lost'
  BY <1>3, <1>5, <1>10
<1> QED
  BY <1>4, <1>7, <1>9, <1>10
-----------------------------------------------------------------------------
(* The steps.                                                              *)

\* What a step has to show of a list that may have changed, when no forward
\* starts: whatever runs is accounted for, and so is what kill() is done with.
LEMMA Accounted ==
    ASSUME ForwardsInv, ForwardsTypeOK', ProcessInv', UNCHANGED entry,
           \A i \in DOMAIN entry : Running(i)' =>
               /\ Running(i)
               /\ i \in spared => i \in spared'
               /\ i \in Members(file) \cup lost => i \in Members(file') \cup lost' \cup spared',
           \A t \in Tuis, i \in DOMAIN entry : tui[t].pc = "spawning" /\ tui[t].job = i =>
               \/ tui'[t].pc = "spawning" /\ tui'[t].job = i
               \/ Running(i)' => i \in Members(file') \cup lost',
           \A t \in Tuis, i \in DOMAIN entry : tui'[t].pc = "done" /\ tui'[t].job = i =>
               \/ tui[t].pc = "done" /\ tui[t].job = i
               \/ Running(i)' => i \in spared',
           stopped' \subseteq spared'
    PROVE  ForwardsInv'
<1>1. RunningIsListed'
  <2> SUFFICES ASSUME NEW i \in DOMAIN entry, Running(i)'
               PROVE  i \in Members(file') \cup Spawning' \cup lost' \cup spared'
    BY DEF RunningIsListed
  <2>1. i \in Members(file) \cup Spawning \cup lost \cup spared
    BY DEF ForwardsInv, RunningIsListed
  <2>2. CASE i \in Spawning
    <3>1. PICK t \in Tuis : tui[t].pc = "spawning" /\ i = tui[t].job
      BY <2>2 DEF Spawning, At
    <3>2. \/ tui'[t].pc = "spawning" /\ tui'[t].job = i
          \/ i \in Members(file') \cup lost'
      BY <3>1
    <3> QED
      BY <3>2 DEF Spawning, At
  <2> QED
    BY <2>1, <2>2
<1>2. DoneInv'
  <2> SUFFICES ASSUME NEW t \in Tuis, tui'[t].pc = "done", Running(tui[t].job)'
               PROVE  tui'[t].job \in spared'
    BY DEF DoneInv, At
  <2>1. PICK i : i = tui'[t].job
    OBVIOUS
  <2>2. Running(i)'
    BY <2>1 DEF Running
  <2>3. i \in DOMAIN entry
    <3>1. DOMAIN entry' = DOMAIN entry /\ i \in DOMAIN entry' \cup {None} /\ i # None
      BY <2>1 DEF ForwardsTypeOK
    <3> QED
      BY <3>1
  <2>4. CASE tui[t].pc = "done" /\ tui[t].job = i
    BY <2>1, <2>2, <2>3, <2>4 DEF ForwardsInv, DoneInv, At
  <2> QED
    BY <2>1, <2>2, <2>3, <2>4
<1> QED
  BY <1>1, <1>2 DEF ForwardsInv, StoppedIsDead

\* A screen turns to something else; no process and no ledger changes.
LEMMA QuietStep ==
    ASSUME ForwardsInv, UNCHANGED <<os, entry, file, stopped, lost>>, NEW t \in Tuis, NEW q,
           tui' = [tui EXCEPT ![t] = q], ScreenOK(q), tui[t].pc # "spawning",
           spared \subseteq spared', spared' \subseteq DOMAIN entry,
           q.pc = "done" => (Running(q.job) => q.job \in spared')
    PROVE  ForwardsInv'
<1>1. ForwardsTypeOK /\ tui \in [Tuis -> Screens]
  BY DEF ForwardsInv, ForwardsTypeOK
<1>2. LedgerOK' /\ ScreenOK(q)'
  BY <1>1 DEF ForwardsTypeOK, LedgerOK, ScreenOK, ScreenType
<1>3. ForwardsTypeOK'
  BY <1>1, <1>2, OneScreen
<1>4. ProcessInv' /\ \A i \in Ids : Running(i)' <=> Running(i)
  BY DEF ForwardsInv, ProcessInv, Running
<1>5. Running(q.job)' <=> Running(q.job)
  BY DEF Running
<1>6. DOMAIN entry \subseteq Ids /\ stopped' \subseteq spared'
  BY DEF ForwardsInv, ForwardsTypeOK, StoppedIsDead
<1>7. \A u \in Tuis : tui'[u] = IF u = t THEN q ELSE tui[u]
  BY <1>1
<1> QED
  BY <1>1, <1>3, <1>4, <1>5, <1>6, <1>7, Accounted

\* A process dies of a signal the screen t sent it,
LEMMA DeathStep ==
    ASSUME ForwardsInv, NEW p \in Pids, Dying(p), UNCHANGED <<entry, file>>, NEW t \in Tuis, NEW q,
           tui' = [tui EXCEPT ![t] = q], ScreenOK(q), tui[t].pc # "spawning",
           q.pc = "done" => entry[q.job].pid = p
    PROVE  ForwardsInv'
<1>1. ForwardsTypeOK /\ ProcessInv /\ DOMAIN entry \subseteq Ids
  BY DEF ForwardsInv, ForwardsTypeOK
<1>2. /\ os' \in [Pids -> Processes] /\ ProcessInv'
      /\ \A i \in Ids : Running(i)' => Running(i) /\ i # os[p].of
      /\ spared' = spared \ {os[p].of} /\ stopped' = stopped \ {os[p].of}
      /\ lost' = lost \ {os[p].of}
  BY <1>1, DyingStep
<1>3. LedgerOK'
  BY <1>1, <1>2 DEF LedgerOK, ForwardsTypeOK
<1>4. stopped' \subseteq spared'
  BY <1>2 DEF ForwardsInv, StoppedIsDead
<1>5. ScreenOK(q)'
  BY DEF ScreenOK, ScreenType
<1>6. ForwardsTypeOK'
  BY <1>1, <1>3, <1>5, OneScreen
<1>7. \A u \in Tuis : tui'[u] = IF u = t THEN q ELSE tui[u]
  BY <1>1 DEF ForwardsTypeOK
<1>8. ASSUME q.pc = "done" PROVE ~Running(q.job)'
  <2>1. q.job \in Ids
    BY <1>1, <1>8 DEF ScreenOK, ScreenType, Working
  <2>2. ASSUME Running(q.job)' PROVE FALSE
    <3>1. Running(q.job) /\ q.job # os[p].of
      BY <2>1, <2>2, <1>2
    <3>2. PICK r \in Pids : os[r].of = q.job
      BY <3>1 DEF Running
    <3>3. r = p
      BY <3>2, <2>1, <1>1, RunsWhereRecorded, <1>8
    <3> QED
      BY <3>1, <3>2, <3>3
  <2> QED
    BY <2>2
<1>9. /\ \A u \in Tuis : tui[u].pc = "spawning" => tui'[u].pc = "spawning" /\ tui'[u].job = tui[u].job
      /\ \A u \in Tuis : \A i : tui'[u].pc = "done" /\ tui'[u].job = i =>
            \/ tui[u].pc = "done" /\ tui[u].job = i
            \/ q.pc = "done" /\ q.job = i
  BY <1>7
<1>10. \A i : q.pc = "done" /\ q.job = i => ~Running(i)'
  BY <1>8
<1> QED
  BY <1>6, <1>9, <1>10, <1>1, <1>2, <1>4, Accounted

\* or by itself.
LEMMA DiesKeeps ==
    ASSUME ForwardsInv, NEW p \in Pids, Dies(p)
    PROVE  ForwardsInv'
<1>0. Dying(p) /\ UNCHANGED <<entry, file, tui>>
  BY DEF Dies
<1>1. ForwardsTypeOK /\ ProcessInv /\ DOMAIN entry \subseteq Ids
  BY DEF ForwardsInv, ForwardsTypeOK
<1>2. /\ os' \in [Pids -> Processes] /\ ProcessInv'
      /\ \A i \in Ids : Running(i)' => Running(i) /\ i # os[p].of
      /\ spared' = spared \ {os[p].of} /\ stopped' = stopped \ {os[p].of}
      /\ lost' = lost \ {os[p].of}
  BY <1>0, <1>1, DyingStep
<1>3. LedgerOK'
  BY <1>0, <1>1, <1>2 DEF LedgerOK, ForwardsTypeOK
<1>4. stopped' \subseteq spared'
  BY <1>2 DEF ForwardsInv, StoppedIsDead
<1>5. ForwardsTypeOK'
  BY <1>0, <1>1, <1>3 DEF ForwardsTypeOK, LedgerOK
<1> QED
  BY <1>0, <1>5, <1>1, <1>2, <1>4, Accounted

\* The list is brought up to date; q is the screen before that, held its list.
LEMMA ReconciledStep ==
    ASSUME ForwardsInv, UNCHANGED <<os, entry, spared>>, NEW t \in Tuis,
           NEW q, ScreenType(q), NEW held, NEW disk \in Seq(DOMAIN entry),
           NEW missing, missing \subseteq DOMAIN entry, Reconcile(t, q, held, disk, missing),
           tui[t].pc # "spawning", q.pc # "done", stopped' \subseteq spared,
           \A i \in DOMAIN entry : Running(i) =>
               /\ i \in Members(file) \cup lost => i \in Members(disk) \cup missing \cup spared
               /\ i \in Members(held) => i \in Members(q.mem) \cup spared
    PROVE  ForwardsInv'
<1>1. ForwardsTypeOK /\ ProcessInv /\ DOMAIN entry \subseteq Ids
  BY DEF ForwardsInv, ForwardsTypeOK
<1>2. /\ \E c : /\ tui' = [tui EXCEPT ![t] = c] /\ ScreenOK(c)
               /\ c.pc = q.pc /\ c.job = q.job
      /\ file' \in Seq(DOMAIN entry) /\ lost' \subseteq DOMAIN entry
      /\ \A i \in DOMAIN entry :
            (Running(i) /\ i \in Members(disk) \cup missing
                  /\ (i \in Members(held) => i \in Members(q.mem)))
                => i \in Members(file') \cup lost'
  BY <1>1, ReconcileStep
<1>3. PICK c : tui' = [tui EXCEPT ![t] = c] /\ ScreenOK(c) /\ c.pc = q.pc
  BY <1>2
<1>4. ScreenOK(c)' /\ LedgerOK'
  BY <1>1, <1>2, <1>3 DEF ForwardsTypeOK, LedgerOK, ScreenOK, ScreenType
<1>5. ForwardsTypeOK'
  BY <1>1, <1>3, <1>4, OneScreen
<1>6. ProcessInv' /\ \A i \in Ids : Running(i)' => Running(i)
  BY <1>1 DEF ProcessInv, Running
<1>7. \A u \in Tuis : tui'[u] = IF u = t THEN c ELSE tui[u]
  BY <1>1, <1>3 DEF ForwardsTypeOK
<1>8. /\ \A u \in Tuis : tui[u].pc = "spawning" => tui'[u].pc = "spawning" /\ tui'[u].job = tui[u].job
      /\ \A u \in Tuis : tui'[u].pc = "done" => tui[u].pc = "done" /\ tui[u].job = tui'[u].job
  BY <1>3, <1>7
<1>9. ASSUME NEW i \in DOMAIN entry, Running(i)', i \in Members(file) \cup lost
      PROVE  i \in Members(file') \cup lost' \cup spared'
  BY <1>1, <1>2, <1>6, <1>9
<1> QED
  BY <1>1, <1>5, <1>6, <1>8, <1>9, Accounted

LEMMA StartKeeps ==
    ASSUME ForwardsInv, NEW t \in Tuis, Start(t)
    PROVE  ForwardsInv'
<1> DEFINE q == [Off EXCEPT !.pc = "list", !.mem = file]
<1>1. At(t, "off") /\ Reconcile(t, q, file, file, lost) /\ UNCHANGED <<os, entry, stopped, spared>>
  BY DEF Start
<1>2. file \in Seq(DOMAIN entry) /\ DOMAIN entry \subseteq Ids /\ lost \subseteq DOMAIN entry
      /\ stopped \subseteq spared
  BY DEF ForwardsInv, ForwardsTypeOK, StoppedIsDead
<1>3. ScreenType(q) /\ q.mem = file /\ q.pc = "list"
  <2>1. file \in Seq(Ids)
    BY <1>2
  <2>2. Off \in Screens /\ Off.sel = 1 /\ Off.job = None
    BY DEF Off, Screens
  <2>3. q \in Screens /\ q.pc = "list" /\ q.mem = file /\ q.sel = 1 /\ q.job = None
    BY <2>1, <2>2 DEF Screens
  <2> HIDE DEF q
  <2> QED
    BY <1>2, <2>3 DEF ScreenType, Working
<1> HIDE DEF q
<1>4. tui[t].pc # "spawning"
  BY <1>1 DEF At
<1> QED
  BY <1>1, <1>2, <1>3, <1>4, ReconciledStep

LEMMA RefreshKeeps ==
    ASSUME ForwardsInv, NEW t \in Tuis, OpenManager(t) \/ Tick(t)
    PROVE  ForwardsInv'
<1>1. PICK q : /\ tui[t].pc \in {"list", "manager"}
               /\ q = [tui[t] EXCEPT !.pc = "manager", !.sel = 1, !.confirm = 0] \/ q = tui[t]
               /\ Reconcile(t, q, tui[t].mem, file, lost)
               /\ UNCHANGED <<os, entry, stopped, spared>>
  BY DEF OpenManager, Tick, At
<1>2. file \in Seq(DOMAIN entry) /\ lost \subseteq DOMAIN entry /\ stopped \subseteq spared
      /\ ScreenOK(tui[t])
  BY TypeParts DEF ForwardsInv, ForwardsTypeOK, StoppedIsDead
<1>3. ScreenType(q) /\ q.mem = tui[t].mem /\ q.pc \in {"list", "manager"}
  <2>1. CASE q = tui[t]
    BY <2>1, <1>1, <1>2 DEF ScreenOK, ScreenType
  <2>2. CASE q = [tui[t] EXCEPT !.pc = "manager", !.sel = 1, !.confirm = 0]
    <3>1. /\ tui[t] \in Screens /\ tui[t].mem \in Seq(DOMAIN entry) /\ tui[t].job = None
      BY <1>1, <1>2 DEF ScreenOK, ScreenType, Working
    <3>2. /\ q \in Screens /\ q.mem = tui[t].mem /\ q.job = None /\ q.pc = "manager" /\ q.sel = 1
      BY <2>2, <3>1 DEF Screens
    <3> QED
      BY <3>1, <3>2 DEF ScreenType, Working
  <2> QED
    BY <1>1, <2>1, <2>2
<1> QED
  BY <1>1, <1>2, <1>3, ReconciledStep

\* The stopped forward leaves the ledger: it does not run, or it is spared.
LEMMA DoneKeeps ==
    ASSUME ForwardsInv, NEW t \in Tuis, NEW ok \in BOOLEAN, Done(t, ok)
    PROVE  ForwardsInv'
<1> DEFINE i == tui[t].job
           mem == tui[t].mem
           rest == Without(mem, {i})
           q == [tui[t] EXCEPT !.pc = "manager", !.job = None, !.chosen = None, !.mem = rest]
           disk == IF ok THEN rest ELSE file
           missing == (lost \ Found(rest, ok)) \cup Missing(file, rest, mem, ok)
<1>1. /\ tui[t].pc = "done" /\ Reconcile(t, q, mem, disk, missing)
      /\ stopped' = stopped \cup {j \in {i} : Running(j)}
      /\ UNCHANGED <<os, entry, spared>>
  BY DEF Done, At
<1>2. /\ file \in Seq(DOMAIN entry) /\ lost \subseteq DOMAIN entry /\ stopped \subseteq spared
      /\ ScreenOK(tui[t])
      /\ Running(i) => i \in spared
      /\ mem \in Seq(DOMAIN entry) /\ DOMAIN entry \subseteq Ids /\ i \in DOMAIN entry
  BY TypeParts, <1>1 DEF ForwardsInv, ForwardsTypeOK, StoppedIsDead, DoneInv, At
<1>3. rest \in Seq(DOMAIN entry) /\ Members(rest) = Members(mem) \ {i}
  BY <1>2, WithoutOf
<1>4. stopped' \subseteq spared
  BY <1>1, <1>2
<1> HIDE DEF rest
<1>5. ScreenType(q) /\ q.mem = rest /\ q.pc = "manager"
  <2>1. rest \in Seq(Ids) /\ tui[t] \in Screens /\ tui[t].sel # 0
    BY <1>2, <1>3 DEF ScreenOK, ScreenType
  <2> QED
    BY <1>3, <2>1 DEF ScreenType, Screens, Working
<1>6. disk \in Seq(DOMAIN entry)
  BY <1>2, <1>3
<1>7. /\ missing \subseteq DOMAIN entry
      /\ \A j \in DOMAIN entry : Running(j) /\ j \in Members(file) \cup lost =>
            j \in Members(disk) \cup missing \cup spared
  <2>1. Members(file) \subseteq DOMAIN entry /\ Members(rest) \subseteq DOMAIN entry
    BY <1>2, <1>3, MembersOf
  <2>2. CASE ok
    <3>1. disk = rest /\ missing = (lost \ Members(rest)) \cup {j \in Members(file) \ Members(mem) : Running(j)}
      BY <2>2 DEF Found, Missing
    <3> QED
      BY <3>1, <2>1, <1>2, <1>3
  <2>3. CASE ~ok
    <3>1. disk = file /\ missing = lost \cup {j \in Members(rest) \ Members(file) : Running(j)}
      BY <2>3 DEF Found, Missing
    <3> QED
      BY <3>1, <2>1, <1>2
  <2> QED
    BY <2>2, <2>3
<1>8. \A j \in Members(mem) : Running(j) => j \in Members(q.mem) \cup spared
  BY <1>2, <1>3, <1>5
<1> HIDE DEF q, mem, disk, missing, i
<1> QED
  BY <1>1, <1>4, <1>5, <1>6, <1>7, <1>8, ReconciledStep

\* A new forward is accounted for by the screen that waits for it.
LEMMA SpawnKeeps ==
    ASSUME ForwardsInv, NEW t \in Tuis, NEW p \in Pids, NEW s \in Specs, Spawn(t, p, s)
    PROVE  ForwardsInv'
<1> DEFINE i == CHOOSE j \in Ids : j \notin DOMAIN entry
           new == [of |-> i, spec |-> s, parent |-> t, zombie |-> FALSE]
<1>1. /\ tui[t].pc = "list" /\ Ids # DOMAIN entry /\ os[p] = Free
      /\ os' = [os EXCEPT ![p] = new]
      /\ entry' = [j \in DOMAIN entry \cup {i} |-> IF j = i THEN [pid |-> p, spec |-> s]
                                                   ELSE entry[j]]
      /\ tui' = [tui EXCEPT ![t].pc = "spawning", ![t].job = i]
      /\ UNCHANGED <<file, stopped, spared, lost>>
  BY DEF Spawn, At
<1>2. /\ os \in [Pids -> Processes] /\ tui \in [Tuis -> Screens] /\ ScreenOK(tui[t])
      /\ DOMAIN entry \subseteq Ids
      /\ \A j \in DOMAIN entry : entry[j] \in [pid : Pids, spec : Specs]
      /\ file \in Seq(DOMAIN entry) /\ stopped \cup spared \cup lost \subseteq DOMAIN entry
  BY TypeParts DEF ForwardsInv, ForwardsTypeOK
<1>3. i \in Ids /\ i \notin DOMAIN entry
  BY <1>1, <1>2
<1> HIDE DEF i
<1>4. /\ DOMAIN entry' = DOMAIN entry \cup {i} /\ entry'[i] = [pid |-> p, spec |-> s]
      /\ \A j \in DOMAIN entry : entry'[j] = entry[j]
  BY <1>1, <1>3
<1>5. /\ new \in Processes /\ new.of = i /\ new.spec = s /\ ~new.zombie
      /\ \A r \in Pids : os'[r] = IF r = p THEN new ELSE os[r]
  BY <1>1, <1>2, <1>3 DEF Processes
<1> HIDE DEF new
<1>6. LedgerOK'
  <2>1. os' \in [Pids -> Processes]
    BY <1>1, <1>2, <1>5
  <2>2. Seq(DOMAIN entry) \subseteq Seq(DOMAIN entry')
    BY <1>4
  <2>3. \A j \in DOMAIN entry' : entry'[j] \in [pid : Pids, spec : Specs]
    BY <1>2, <1>4
  <2> QED
    BY <1>1, <1>2, <1>3, <1>4, <2>1, <2>2, <2>3 DEF LedgerOK
<1>7. PICK q : q = [tui[t] EXCEPT !.pc = "spawning", !.job = i] /\ tui' = [tui EXCEPT ![t] = q]
  BY <1>1, <1>2
<1>8. ScreenOK(q)' /\ q.pc = "spawning" /\ q.job = i
  <2>1. /\ tui[t] \in Screens /\ tui[t].mem \in Seq(DOMAIN entry) /\ tui[t].sel # 0
        /\ tui[t].confirm \in 0 .. Len(tui[t].mem)
        /\ tui[t].sel = 1 \/ tui[t].sel \in 1 .. Len(tui[t].mem)
    BY <1>2 DEF ScreenOK, ScreenType
  <2>2. /\ q \in Screens /\ q.mem = tui[t].mem /\ q.job = i /\ q.pc = "spawning"
        /\ q.sel = tui[t].sel /\ q.confirm = tui[t].confirm
    BY <2>1, <1>3, <1>7 DEF Screens
  <2>3. q.mem \in Seq(DOMAIN entry')
    <3>1. Seq(DOMAIN entry) \subseteq Seq(DOMAIN entry')
      BY <1>4
    <3> QED
      BY <2>1, <2>2, <3>1
  <2>4. i # None
    BY <1>3, ForwardsAssumption
  <2> QED
    BY <2>1, <2>2, <2>3, <2>4, <1>4 DEF ScreenOK, ScreenType, Working
<1>9. \A u \in Tuis : tui'[u] = IF u = t THEN q ELSE tui[u]
  BY <1>2, <1>7
<1>10. ForwardsTypeOK'
  BY <1>4, <1>6, <1>7, <1>8, OneScreen DEF ForwardsInv
<1>11. Free.of = None /\ None \notin Ids
  BY ForwardsAssumption DEF Free
<1>12. ProcessInv'
  <2> SUFFICES ASSUME NEW r \in Pids, os'[r].of \in Ids
               PROVE  /\ os'[r].of \in DOMAIN entry'
                      /\ entry'[os'[r].of] = [pid |-> r, spec |-> os'[r].spec]
                      /\ ~os'[r].zombie
    BY DEF ProcessInv
  <2>1. CASE r = p
    BY <2>1, <1>4, <1>5
  <2>2. CASE r # p
    BY <2>2, <1>4, <1>5 DEF ForwardsInv, ProcessInv
  <2> QED
    BY <2>1, <2>2
<1>13. \A j \in DOMAIN entry' : Running(j)' => j = i \/ (j \in DOMAIN entry /\ Running(j))
  BY <1>4, <1>5 DEF Running
<1>14. RunningIsListed'
  <2> SUFFICES ASSUME NEW j \in DOMAIN entry', Running(j)'
               PROVE  j \in Members(file') \cup Spawning' \cup lost' \cup spared'
    BY DEF RunningIsListed
  <2>1. CASE j = i
    BY <2>1, <1>8, <1>9 DEF Spawning, At
  <2>2. CASE j \in DOMAIN entry /\ Running(j)
    <3>1. j \in Members(file) \cup Spawning \cup lost \cup spared
      BY <2>2 DEF ForwardsInv, RunningIsListed
    <3>2. Spawning \subseteq Spawning'
      BY <1>1, <1>9 DEF Spawning, At
    <3> QED
      BY <1>1, <3>1, <3>2
  <2> QED
    BY <1>13, <2>1, <2>2
<1>15. DoneInv'
  <2> SUFFICES ASSUME NEW u \in Tuis, tui'[u].pc = "done", Running(tui[u].job)'
               PROVE  tui'[u].job \in spared'
    BY DEF DoneInv, At
  <2>1. tui'[u] = tui[u] /\ tui[u].job \in DOMAIN entry
    BY <1>8, <1>9, TypeParts DEF ForwardsInv, ScreenOK, ScreenType, Working
  <2>2. PICK j : j = tui[u].job
    OBVIOUS
  <2>3. Running(j)'
    BY <2>1, <2>2 DEF Running
  <2>4. Running(j)
    BY <2>1, <2>2, <2>3, <1>3, <1>4, <1>13
  <2> QED
    BY <1>1, <2>1, <2>2, <2>4 DEF ForwardsInv, DoneInv, At
<1> QED
  BY <1>1, <1>10, <1>12, <1>14, <1>15 DEF ForwardsInv, StoppedIsDead

\* Only the process under the pid of the failed forward is gone.
LEMMA SpawnFailsKeeps ==
    ASSUME ForwardsInv, NEW t \in Tuis, SpawnFails(t)
    PROVE  ForwardsInv'
<1>1. /\ tui[t].pc = "spawning" /\ os' = [os EXCEPT ![entry[tui[t].job].pid] = Free]
      /\ tui' = [tui EXCEPT ![t].pc = "list", ![t].job = None]
      /\ UNCHANGED <<entry, file, stopped, spared, lost>>
  BY DEF SpawnFails, At
<1>2. /\ ForwardsTypeOK /\ ProcessInv /\ os \in [Pids -> Processes]
      /\ tui \in [Tuis -> Screens] /\ ScreenOK(tui[t]) /\ DOMAIN entry \subseteq Ids
      /\ \A j \in DOMAIN entry : entry[j] \in [pid : Pids, spec : Specs]
  BY TypeParts DEF ForwardsInv, ForwardsTypeOK
<1>3. PICK q : q = [tui[t] EXCEPT !.pc = "list", !.job = None] /\ tui' = [tui EXCEPT ![t] = q]
  BY <1>1, <1>2
<1>4. PICK i : i = tui[t].job
  OBVIOUS
<1>5. i \in DOMAIN entry /\ entry[i].pid \in Pids
  BY <1>1, <1>2, <1>4 DEF ScreenOK, ScreenType, Working
<1>6. ScreenOK(q) /\ q.pc = "list"
  <2>1. /\ tui[t] \in Screens /\ tui[t].mem \in Seq(DOMAIN entry) /\ tui[t].sel # 0
        /\ tui[t].confirm \in 0 .. Len(tui[t].mem)
        /\ tui[t].sel = 1 \/ tui[t].sel \in 1 .. Len(tui[t].mem)
    BY <1>2 DEF ScreenOK, ScreenType
  <2>2. /\ q \in Screens /\ q.mem = tui[t].mem /\ q.job = None /\ q.pc = "list"
        /\ q.sel = tui[t].sel /\ q.confirm = tui[t].confirm
    BY <2>1, <1>3 DEF Screens
  <2> QED
    BY <2>1, <2>2 DEF ScreenOK, ScreenType, Working
<1>7. Free \in Processes /\ Free.of \notin Ids
  BY ForwardsAssumption DEF Free, Processes
<1>8. \A p \in Pids : os'[p] = IF p = entry[i].pid THEN Free ELSE os[p]
  BY <1>1, <1>2, <1>4, <1>5
<1>9. ScreenOK(q)' /\ LedgerOK'
  BY <1>1, <1>2, <1>4, <1>5, <1>6, <1>7 DEF ScreenOK, ScreenType, LedgerOK, ForwardsTypeOK
<1>10. ForwardsTypeOK'
  BY <1>1, <1>2, <1>3, <1>9, OneScreen
<1>11. ProcessInv' /\ \A j \in Ids : Running(j)' => Running(j)
  BY <1>1, <1>2, <1>7, <1>8, NothingStarts
<1>12. ~Running(i)'
  <2>1. ASSUME NEW p \in Pids, os'[p].of = i PROVE FALSE
    <3>1. os[p].of = i /\ p # entry[i].pid
      BY <2>1, <1>2, <1>5, <1>7, <1>8
    <3> QED
      BY <3>1, <1>2, <1>5, RunsWhereRecorded
  <2> QED
    BY <2>1 DEF Running
<1>13. \A u \in Tuis : tui'[u] = IF u = t THEN q ELSE tui[u]
  BY <1>2, <1>3
<1>14. /\ \A u \in Tuis : \A j : tui[u].pc = "spawning" /\ tui[u].job = j =>
              j = i \/ (tui'[u].pc = "spawning" /\ tui'[u].job = j)
       /\ \A u \in Tuis : tui'[u].pc = "done" => tui[u].pc = "done" /\ tui[u].job = tui'[u].job
  BY <1>4, <1>6, <1>13
<1>15. stopped' \subseteq spared'
  BY <1>1 DEF ForwardsInv, StoppedIsDead
<1> QED
  BY <1>1, <1>2, <1>10, <1>11, <1>12, <1>14, <1>15, Accounted

\* The forward joins the list, and its screen no longer waits for it.
LEMMA SpawnUpKeeps ==
    ASSUME ForwardsInv, NEW t \in Tuis, NEW ok \in BOOLEAN, SpawnUp(t, ok)
    PROVE  ForwardsInv'
<1>1. PICK i, now :
        /\ i = tui[t].job /\ now = Append(tui[t].mem, i)
        /\ tui[t].pc = "spawning"
        /\ tui' = [tui EXCEPT ![t].pc = "list", ![t].job = None, ![t].mem = now]
        /\ file' = IF ok THEN now ELSE file
        /\ lost' = (lost \ Found(now, ok)) \cup Missing(file, now, now, ok)
        /\ UNCHANGED <<os, entry, stopped, spared>>
  BY DEF SpawnUp, At
<1>2. /\ ForwardsTypeOK /\ ProcessInv /\ os \in [Pids -> Processes]
      /\ tui \in [Tuis -> Screens] /\ ScreenOK(tui[t]) /\ DOMAIN entry \subseteq Ids
      /\ file \in Seq(DOMAIN entry) /\ lost \subseteq DOMAIN entry
  BY TypeParts DEF ForwardsInv, ForwardsTypeOK
<1>3. /\ tui[t] \in Screens /\ tui[t].mem \in Seq(DOMAIN entry) /\ tui[t].sel # 0
      /\ tui[t].confirm \in 0 .. Len(tui[t].mem)
      /\ tui[t].sel = 1 \/ tui[t].sel \in 1 .. Len(tui[t].mem)
      /\ i \in DOMAIN entry
  BY <1>1, <1>2 DEF ScreenOK, ScreenType, Working
<1>4. /\ now \in Seq(DOMAIN entry) /\ Members(now) = Members(tui[t].mem) \cup {i}
      /\ Len(now) = Len(tui[t].mem) + 1 /\ Len(tui[t].mem) \in Nat
      /\ Members(file) \subseteq DOMAIN entry /\ Members(now) \subseteq DOMAIN entry
  <2>1. now \in Seq(DOMAIN entry) /\ Members(now) = Members(tui[t].mem) \cup {i}
    BY <1>1, <1>3, MembersOf
  <2>2. Len(now) = Len(tui[t].mem) + 1 /\ Len(tui[t].mem) \in Nat
    BY <1>1, <1>3
  <2> QED
    BY <2>1, <2>2, <1>2, MembersOf
<1>5. PICK q : /\ q = [tui[t] EXCEPT !.pc = "list", !.job = None, !.mem = now]
               /\ tui' = [tui EXCEPT ![t] = q]
  BY <1>1, <1>2
<1>6. ScreenOK(q)' /\ q.pc = "list"
  <2>1. now \in Seq(Ids)
    BY <1>2, <1>4
  <2>2. /\ q \in Screens /\ q.mem = now /\ q.job = None /\ q.pc = "list"
        /\ q.sel = tui[t].sel /\ q.confirm = tui[t].confirm
    BY <1>3, <1>5, <2>1 DEF Screens
  <2>3. q.confirm \in 0 .. Len(now) /\ (q.sel = 1 \/ q.sel \in 1 .. Len(now))
    BY <1>3, <1>4, <2>2
  <2>4. q.mem \in Seq(DOMAIN entry')
    BY <1>1, <1>4, <2>2
  <2> QED
    BY <1>3, <2>2, <2>3, <2>4 DEF ScreenOK, ScreenType, Working
<1>7. \/ /\ file' = now
         /\ lost' = (lost \ Members(now)) \cup {j \in Members(file) \ Members(now) : Running(j)}
      \/ /\ file' = file
         /\ lost' = lost \cup {j \in Members(now) \ Members(file) : Running(j)}
  BY <1>1 DEF Found, Missing
<1>8. file' \in Seq(DOMAIN entry) /\ lost' \subseteq DOMAIN entry
  BY <1>2, <1>4, <1>7
<1>9. LedgerOK'
  BY <1>1, <1>2, <1>8 DEF LedgerOK, ForwardsTypeOK
<1>10. ForwardsTypeOK'
  BY <1>1, <1>2, <1>5, <1>6, <1>9, OneScreen
<1>11. ProcessInv' /\ \A j \in Ids : Running(j)' <=> Running(j)
  BY <1>1, <1>2 DEF ProcessInv, Running
<1>12. \A u \in Tuis : tui'[u] = IF u = t THEN q ELSE tui[u]
  BY <1>2, <1>5
<1>13. /\ \A u \in Tuis : \A j : tui[u].pc = "spawning" /\ tui[u].job = j =>
              j = i \/ (tui'[u].pc = "spawning" /\ tui'[u].job = j)
       /\ \A u \in Tuis : tui'[u].pc = "done" => tui[u].pc = "done" /\ tui[u].job = tui'[u].job
  BY <1>1, <1>6, <1>12
<1>14. stopped' \subseteq spared'
  BY <1>1 DEF ForwardsInv, StoppedIsDead
<1>15. \A j \in DOMAIN entry : Running(j) /\ (j = i \/ j \in Members(file) \cup lost) =>
          j \in Members(file') \cup lost'
  BY <1>4, <1>7
<1> QED
  BY <1>1, <1>2, <1>10, <1>11, <1>13, <1>14, <1>15, Accounted

\* What a screen had started and not yet recorded is known to be lost.
LEMMA EndsKeeps ==
    ASSUME ForwardsInv, NEW t \in Tuis, Ends(t)
    PROVE  ForwardsInv'
<1>1. /\ os' = [p \in Pids |-> IF os[p].parent # t THEN os[p]
                               ELSE IF os[p].zombie THEN Free
                               ELSE [os[p] EXCEPT !.parent = None]]
      /\ tui' = [tui EXCEPT ![t] = Off]
      /\ lost' = lost \cup {i \in {tui[t].job} : tui[t].pc = "spawning" /\ Running(i)}
      /\ UNCHANGED <<entry, file, stopped, spared>>
  BY DEF Ends, At
<1>2. /\ ForwardsTypeOK /\ ProcessInv /\ os \in [Pids -> Processes]
      /\ tui \in [Tuis -> Screens] /\ ScreenOK(tui[t]) /\ DOMAIN entry \subseteq Ids
      /\ file \in Seq(DOMAIN entry) /\ lost \subseteq DOMAIN entry
  BY TypeParts DEF ForwardsInv, ForwardsTypeOK
<1>3. Free \in Processes /\ Free.of \notin Ids
  BY ForwardsAssumption DEF Free, Processes
<1>4. ASSUME NEW p \in Pids
      PROVE  /\ os'[p] \in Processes
             /\ os'[p].of \in Ids => /\ os'[p].of = os[p].of /\ os'[p].spec = os[p].spec
                                     /\ os'[p].zombie = os[p].zombie
  BY <1>1, <1>2, <1>3 DEF Processes
<1>5. os' \in [Pids -> Processes]
  BY <1>1, <1>4
<1>6. ProcessInv' /\ \A j \in Ids : Running(j)' => Running(j)
  BY <1>1, <1>2, <1>4, NothingStarts
<1>7. lost' \subseteq DOMAIN entry
  BY <1>1, <1>2 DEF ScreenOK, ScreenType, Working
<1>8. LedgerOK'
  BY <1>1, <1>2, <1>5, <1>7 DEF LedgerOK, ForwardsTypeOK
<1>9. ScreenOK(Off)' /\ Off.pc = "off"
  <2>1. /\ Off \in Screens /\ Off.sel = 1 /\ Off.job = None /\ Off.confirm = 0
        /\ Off.mem = <<>> /\ Off.pc = "off"
    BY DEF Off, Screens
  <2>2. <<>> \in Seq(DOMAIN entry') /\ Len(<<>>) = 0
    OBVIOUS
  <2> QED
    BY <2>1, <2>2 DEF ScreenOK, ScreenType, Working
<1>10. ForwardsTypeOK'
  BY <1>1, <1>2, <1>8, <1>9, OneScreen
<1>11. \A u \in Tuis : tui'[u] = IF u = t THEN Off ELSE tui[u]
  BY <1>1, <1>2
<1>12. /\ \A u \in Tuis : \A j : tui[u].pc = "spawning" /\ tui[u].job = j =>
              \/ Running(j) => j \in lost'
              \/ tui'[u].pc = "spawning" /\ tui'[u].job = j
       /\ \A u \in Tuis : tui'[u].pc = "done" => tui[u].pc = "done" /\ tui[u].job = tui'[u].job
  BY <1>1, <1>9, <1>11
<1>13. stopped' \subseteq spared' /\ lost \subseteq lost'
  BY <1>1 DEF ForwardsInv, StoppedIsDead
<1> QED
  BY <1>1, <1>2, <1>6, <1>10, <1>12, <1>13, Accounted

\* What the keys of the manager change in a screen, and what they leave.
Kept(q, w) == q \in Screens /\ q.mem = w.mem

LEMMA Moved ==
    ASSUME NEW w \in Screens, NEW n \in Nat, NEW i \in Ids \cup {None}
    PROVE  /\ Kept([w EXCEPT !.pc = "list", !.sel = n], w)
           /\ Kept([w EXCEPT !.sel = n], w)
           /\ Kept([w EXCEPT !.confirm = n, !.chosen = i], w)
           /\ Kept([w EXCEPT !.job = i, !.confirm = n], w)
<1>1. Kept([w EXCEPT !.pc = "list", !.sel = n], w)
  BY DEF Screens, Kept
<1>2. Kept([w EXCEPT !.sel = n], w)
  BY DEF Screens, Kept
<1>3. Kept([w EXCEPT !.confirm = n, !.chosen = i], w)
  BY DEF Screens, Kept
<1>4. Kept([w EXCEPT !.job = i, !.confirm = n], w)
  BY DEF Screens, Kept
<1> QED
  BY <1>1, <1>2, <1>3, <1>4

LEMMA KeysKeep ==
    ASSUME ForwardsInv, NEW t \in Tuis, Keys(t) \/ Refuse(t)
    PROVE  ForwardsInv'
<1>1. /\ tui \in [Tuis -> Screens] /\ tui[t] \in Screens /\ tui[t].mem \in Seq(DOMAIN entry)
      /\ tui[t].confirm \in 0 .. Len(tui[t].mem) /\ Len(tui[t].mem) \in Nat
      /\ tui[t].sel \in Nat /\ tui[t].sel # 0
      /\ tui[t].sel = 1 \/ tui[t].sel \in 1 .. Len(tui[t].mem)
      /\ tui[t].job \in DOMAIN entry \cup {None} /\ DOMAIN entry \subseteq Ids
      /\ tui[t].pc \in Working <=> tui[t].job # None
      /\ spared \subseteq DOMAIN entry
  BY TypeParts DEF ForwardsInv, ForwardsTypeOK, ScreenOK, ScreenType
<1>2. PICK q : /\ tui[t].pc = "manager" /\ UNCHANGED <<os, entry, file, stopped, spared, lost>>
               /\ tui' = [tui EXCEPT ![t] = q]
               /\ \/ q = [tui[t] EXCEPT !.pc = "list", !.sel = 1]
                  \/ tui[t].sel < Len(tui[t].mem) /\ q = [tui[t] EXCEPT !.sel = tui[t].sel + 1]
                  \/ tui[t].sel > 1 /\ q = [tui[t] EXCEPT !.sel = tui[t].sel - 1]
                  \/ /\ tui[t].sel <= Len(tui[t].mem)
                     /\ q = [tui[t] EXCEPT !.confirm = tui[t].sel, !.chosen = tui[t].mem[tui[t].sel]]
                  \/ q = [tui[t] EXCEPT !.confirm = 0, !.chosen = None]
  <2>1. CASE Keys(t)
    <3>1. tui' = [tui EXCEPT ![t].pc = "list", ![t].sel = 1]
             => tui' = [tui EXCEPT ![t] = [tui[t] EXCEPT !.pc = "list", !.sel = 1]]
      BY <1>1
    <3>2. tui' = [tui EXCEPT ![t].confirm = tui[t].sel, ![t].chosen = tui[t].mem[tui[t].sel]]
             => tui' = [tui EXCEPT ![t] = [tui[t] EXCEPT !.confirm = tui[t].sel,
                                                         !.chosen = tui[t].mem[tui[t].sel]]]
      BY <1>1
    <3> QED
      BY <2>1, <3>1, <3>2 DEF Keys, At
  <2>2. CASE Refuse(t)
    <3>1. tui' = [tui EXCEPT ![t].confirm = 0, ![t].chosen = None]
             => tui' = [tui EXCEPT ![t] = [tui[t] EXCEPT !.confirm = 0, !.chosen = None]]
      BY <1>1
    <3> QED
      BY <2>2, <3>1 DEF Refuse, At
  <2> QED
    BY <2>1, <2>2
<1>3. /\ q \in Screens /\ q.mem = tui[t].mem /\ q.job = None /\ q.pc \in {"list", "manager"}
      /\ q.confirm \in 0 .. Len(tui[t].mem) /\ q.sel # 0
      /\ q.sel = 1 \/ q.sel \in 1 .. Len(tui[t].mem)
  <2>1. tui[t].job = None
    BY <1>1, <1>2 DEF Working
  <2>2. PICK n \in Nat, i \in Ids \cup {None} :
          \/ q = [tui[t] EXCEPT !.pc = "list", !.sel = n] /\ n = 1
          \/ q = [tui[t] EXCEPT !.sel = n] /\ n \in 1 .. Len(tui[t].mem)
          \/ q = [tui[t] EXCEPT !.confirm = n, !.chosen = i] /\ n \in 0 .. Len(tui[t].mem)
    <3>1. tui[t].sel <= Len(tui[t].mem) =>
            tui[t].sel \in 1 .. Len(tui[t].mem) /\ tui[t].mem[tui[t].sel] \in Ids
      BY <1>1
    <3>2. tui[t].sel < Len(tui[t].mem) => tui[t].sel + 1 \in 1 .. Len(tui[t].mem)
      BY <1>1
    <3>3. tui[t].sel > 1 => tui[t].sel - 1 \in 1 .. Len(tui[t].mem)
      BY <1>1
    <3>4. 1 \in Nat /\ 0 \in 0 .. Len(tui[t].mem)
          /\ \A k \in 1 .. Len(tui[t].mem) : k \in Nat /\ k \in 0 .. Len(tui[t].mem)
      BY <1>1
    <3> QED
      BY <1>2, <3>1, <3>2, <3>3, <3>4
  <2>3. q \in Screens /\ q.mem = tui[t].mem
    <3>1. tui[t] \in Screens
      BY <1>1
    <3>2. /\ Kept([tui[t] EXCEPT !.pc = "list", !.sel = n], tui[t])
          /\ Kept([tui[t] EXCEPT !.sel = n], tui[t])
          /\ Kept([tui[t] EXCEPT !.confirm = n, !.chosen = i], tui[t])
      BY <3>1, Moved
    <3> QED
      BY <3>2, <2>2 DEF Kept
  <2>4. CASE q = [tui[t] EXCEPT !.pc = "list", !.sel = n] /\ n = 1
    BY <2>1, <2>4, <1>1, <2>3, <1>2 DEF Screens
  <2>5. CASE q = [tui[t] EXCEPT !.sel = n] /\ n \in 1 .. Len(tui[t].mem)
    BY <2>1, <2>5, <1>1, <2>3, <1>2 DEF Screens
  <2>6. CASE q = [tui[t] EXCEPT !.confirm = n, !.chosen = i] /\ n \in 0 .. Len(tui[t].mem)
    BY <2>1, <2>6, <1>1, <2>3, <1>2 DEF Screens
  <2> QED
    BY <2>2, <2>4, <2>5, <2>6
<1>4. ScreenOK(q)
  BY <1>1, <1>3 DEF ScreenOK, ScreenType, Working
<1> QED
  BY <1>1, <1>2, <1>3, <1>4, QuietStep

\* Looking, as kill() does before and after SIGTERM: what ps does not show is
\* dead, or it runs and is spared.
LEMMA LookKeeps ==
    ASSUME ForwardsInv, NEW t \in Tuis, NEW seen \in BOOLEAN, Stop(t, seen) \/ Wait(t, seen)
    PROVE  ForwardsInv'
<1>1. /\ tui \in [Tuis -> Screens] /\ tui[t] \in Screens /\ tui[t].mem \in Seq(DOMAIN entry)
      /\ tui[t].confirm \in 0 .. Len(tui[t].mem) /\ Len(tui[t].mem) \in Nat /\ tui[t].sel # 0
      /\ tui[t].sel = 1 \/ tui[t].sel \in 1 .. Len(tui[t].mem)
      /\ tui[t].job \in DOMAIN entry \cup {None} /\ DOMAIN entry \subseteq Ids
      /\ tui[t].pc \in Working <=> tui[t].job # None
      /\ spared \subseteq DOMAIN entry /\ ForwardsTypeOK /\ ProcessInv
  BY TypeParts DEF ForwardsInv, ForwardsTypeOK, ScreenOK, ScreenType
<1>2. PICK q0, yes : /\ yes \in {"term", "kill"} /\ Look(t, q0, seen, yes)
                    /\ tui[t].pc \in {"manager", "wait"}
                    /\ \/ tui[t].pc = "wait" /\ q0 = tui[t]
                       \/ /\ tui[t].confirm > 0
                          /\ q0 = [tui[t] EXCEPT !.job = tui[t].mem[tui[t].confirm], !.confirm = 0]
  BY DEF Stop, Wait, At
<1>3. /\ q0 \in Screens /\ q0.mem = tui[t].mem /\ q0.sel = tui[t].sel
      /\ q0.job \in DOMAIN entry /\ q0.confirm \in 0 .. Len(tui[t].mem)
  <2>1. CASE tui[t].pc = "wait" /\ q0 = tui[t]
    BY <2>1, <1>1 DEF Working
  <2>2. CASE /\ tui[t].confirm > 0
             /\ q0 = [tui[t] EXCEPT !.job = tui[t].mem[tui[t].confirm], !.confirm = 0]
    <3>1. tui[t].mem[tui[t].confirm] \in DOMAIN entry
      BY <2>2, <1>1
    <3>2. PICK i \in Ids \cup {None} : i = tui[t].mem[tui[t].confirm] /\ i \in DOMAIN entry
      BY <3>1, <1>1
    <3>3. q0 = [tui[t] EXCEPT !.job = i, !.confirm = 0]
      BY <2>2, <3>2
    <3>4. q0 \in Screens /\ q0.mem = tui[t].mem
      <4>1. tui[t] \in Screens /\ 0 \in Nat
        BY <1>1
      <4>2. Kept([tui[t] EXCEPT !.job = i, !.confirm = 0], tui[t])
        BY <4>1, Moved
      <4> QED
        BY <4>2, <3>3 DEF Kept
    <3>5. q0.sel = tui[t].sel /\ q0.job = i /\ q0.confirm = 0
      BY <3>3, <1>1 DEF Screens
    <3> QED
      BY <3>2, <3>4, <3>5, <1>1
  <2> QED
    BY <1>2, <2>1, <2>2
<1>4. PICK q : /\ q = [q0 EXCEPT !.pc = IF Alive(q0.job) /\ seen THEN yes ELSE "done"]
               /\ tui' = [tui EXCEPT ![t] = q]
               /\ spared' = spared \cup {i \in {q0.job} : Running(i) /\ ~seen}
               /\ UNCHANGED <<os, entry, file, stopped, lost>>
  BY <1>2 DEF Look
<1>5. /\ q \in Screens /\ q.mem = tui[t].mem /\ q.sel = tui[t].sel /\ q.job = q0.job
      /\ q.confirm = q0.confirm /\ q.pc \in {"term", "kill", "done"}
      /\ q.pc = "done" => ~(Alive(q0.job) /\ seen)
  BY <1>2, <1>3, <1>4 DEF Screens
<1>6. q0.job # None
  BY <1>1, <1>3, ForwardsAssumption
<1>7. ScreenOK(q)
  BY <1>1, <1>3, <1>5, <1>6 DEF ScreenOK, ScreenType, Working
<1>8. q.pc = "done" => (Running(q.job) => q.job \in spared')
  BY <1>1, <1>3, <1>4, <1>5, RunningIsAlive
<1>9. spared \subseteq spared' /\ spared' \subseteq DOMAIN entry /\ tui[t].pc # "spawning"
  BY <1>1, <1>2, <1>3, <1>4
<1> QED
  BY <1>4, <1>7, <1>8, <1>9, QuietStep

\* The signals: one process dies, or none.
LEMMA SignalKeeps ==
    ASSUME ForwardsInv, NEW t \in Tuis, Term(t) \/ Kill(t)
    PROVE  ForwardsInv'
<1>1. /\ tui \in [Tuis -> Screens] /\ tui[t] \in Screens /\ ScreenOK(tui[t])
      /\ tui[t].pc \in {"term", "kill"} /\ tui[t].job \in DOMAIN entry
      /\ entry[tui[t].job].pid \in Pids /\ spared \subseteq DOMAIN entry
  BY TypeParts DEF ForwardsInv, ForwardsTypeOK, ScreenOK, ScreenType, Working, Term, Kill, At
<1>2. PICK q : /\ q = [tui[t] EXCEPT !.pc = IF tui[t].pc = "term" THEN "wait" ELSE "done"]
               /\ tui' = [tui EXCEPT ![t] = q] /\ UNCHANGED <<entry, file>>
               /\ \/ Dying(entry[tui[t].job].pid)
                  \/ /\ UNCHANGED <<os, stopped, lost>>
                     /\ \/ UNCHANGED spared /\ tui[t].pc = "term"
                        \/ spared' = spared \cup {i \in {tui[t].job} : Running(i)}
  <2>1. CASE Term(t)
    <3>1. tui' = [tui EXCEPT ![t] = [tui[t] EXCEPT !.pc = "wait"]]
      BY <2>1, <1>1 DEF Term
    <3> QED
      BY <2>1, <3>1 DEF Term, At
  <2>2. CASE Kill(t)
    <3>1. tui' = [tui EXCEPT ![t] = [tui[t] EXCEPT !.pc = "done"]]
      BY <2>2, <1>1 DEF Kill
    <3> QED
      BY <2>2, <3>1 DEF Kill, At
  <2> QED
    BY <2>1, <2>2
<1>3. /\ q \in Screens /\ q.mem = tui[t].mem /\ q.sel = tui[t].sel /\ q.job = tui[t].job
      /\ q.confirm = tui[t].confirm /\ q.pc \in {"wait", "done"}
      /\ q.pc = "done" => tui[t].pc = "kill"
  BY <1>1, <1>2 DEF Screens
<1>4. ScreenOK(q)
  BY <1>1, <1>3 DEF ScreenOK, ScreenType, Working
<1>5. CASE Dying(entry[tui[t].job].pid)
  <2>1. PICK p \in Pids : p = entry[tui[t].job].pid
    BY <1>1
  <2>2. Dying(p) /\ entry[q.job].pid = p /\ tui[t].pc # "spawning"
    BY <1>1, <1>3, <1>5, <2>1
  <2> QED
    BY <1>2, <1>4, <2>2, DeathStep
<1>6. CASE /\ UNCHANGED <<os, stopped, lost>>
           /\ \/ UNCHANGED spared /\ tui[t].pc = "term"
              \/ spared' = spared \cup {i \in {tui[t].job} : Running(i)}
  <2>1. q.pc = "done" => (Running(q.job) => q.job \in spared')
    BY <1>3, <1>6
  <2>2. spared \subseteq spared' /\ spared' \subseteq DOMAIN entry
    BY <1>1, <1>6
  <2> QED
    BY <1>1, <1>2, <1>4, <1>6, <2>1, <2>2, QuietStep
<1> QED
  BY <1>2, <1>5, <1>6

LEMMA WorldKeeps ==
    ASSUME ForwardsInv, NEW p \in Pids, World(p)
    PROVE  ForwardsInv'
<1>1. CASE Dies(p)
  BY <1>1, DiesKeeps
<1>2. CASE OtherStarts(p)
  <2>1. ForwardsTypeOK /\ ProcessInv /\ os \in [Pids -> Processes] /\ DOMAIN entry \subseteq Ids
    BY DEF ForwardsInv, ForwardsTypeOK
  <2>2. PICK s \in Specs \cup {None} : os' = [os EXCEPT ![p] = [Free EXCEPT !.of = Other, !.spec = s]]
    BY <1>2 DEF OtherStarts
  <2>3. UNCHANGED <<entry, file, tui, stopped, spared, lost>>
    BY <1>2 DEF OtherStarts
  <2>4. PICK new : new = [Free EXCEPT !.of = Other, !.spec = s]
    OBVIOUS
  <2>5. Free \in Processes
    BY DEF Free, Processes
  <2>6. new \in Processes /\ new.of = Other
    BY <2>4, <2>5 DEF Processes
  <2>7. os' \in [Pids -> Processes] /\ \A r \in Pids : os'[r] = IF r = p THEN new ELSE os[r]
    BY <2>1, <2>2, <2>4, <2>6
  <2>8. ForwardsTypeOK'
    BY <2>1, <2>3, <2>7 DEF ForwardsTypeOK
  <2>9. ProcessInv' /\ \A i \in Ids : Running(i)' => Running(i)
    BY <2>1, <2>3, <2>6, <2>7, NothingStarts, ForwardsAssumption
  <2>10. stopped' \subseteq spared'
    BY <2>3 DEF ForwardsInv, StoppedIsDead
  <2> QED
    BY <2>1, <2>3, <2>8, <2>9, <2>10, Accounted
<1> QED
  BY <1>1, <1>2 DEF World
-----------------------------------------------------------------------------
LEMMA InitIsInv == Init => ForwardsInv
<1> SUFFICES ASSUME Init PROVE ForwardsInv
  OBVIOUS
<1>1. /\ os = [p \in Pids |-> Free] /\ entry = [i \in {} |-> None] /\ file = <<>>
      /\ tui = [t \in Tuis |-> Off] /\ stopped = {} /\ spared = {} /\ lost = {}
  BY DEF Init
<1>2. Free \in Processes /\ Free.of \notin Ids
  BY ForwardsAssumption DEF Free, Processes
<1>3. LedgerOK
  BY <1>1, <1>2 DEF LedgerOK
<1>4. Off \in Screens /\ ScreenOK(Off) /\ Off.pc = "off"
  <2>1. /\ Off \in Screens /\ Off.sel = 1 /\ Off.job = None /\ Off.confirm = 0
        /\ Off.mem = <<>> /\ Off.pc = "off"
    BY DEF Off, Screens
  <2>2. <<>> \in Seq(DOMAIN entry) /\ Len(<<>>) = 0
    OBVIOUS
  <2> QED
    BY <2>1, <2>2 DEF ScreenOK, ScreenType, Working
<1>5. ForwardsTypeOK
  BY <1>1, <1>3, <1>4, TypeParts
<1>6. ProcessInv
  BY <1>1, <1>2 DEF ProcessInv
<1> QED
  BY <1>1, <1>4, <1>5, <1>6 DEF ForwardsInv, DoneInv, RunningIsListed, StoppedIsDead, At

\* Whatever screens, processes and other programs do, every forward that runs
\* is accounted for (Next and all it calls in src/src/forwards.rs).
THEOREM ForwardsInvariant == Spec => []ForwardsInv
<1>1. ForwardsInv /\ [Next]_forwardsVars => ForwardsInv'
  <2> SUFFICES ASSUME ForwardsInv, [Next]_forwardsVars PROVE ForwardsInv'
    OBVIOUS
  <2>1. ASSUME NEW t \in Tuis, Own(t) PROVE ForwardsInv'
    BY <2>1, SpawnFailsKeeps, RefreshKeeps, SignalKeeps, SpawnUpKeeps, DoneKeeps, LookKeeps
    DEF Own
  <2>2. ASSUME NEW t \in Tuis, User(t) PROVE ForwardsInv'
    BY <2>2, StartKeeps, EndsKeeps, RefreshKeeps, KeysKeep, SpawnKeeps, LookKeeps DEF User
  <2>3. ASSUME NEW p \in Pids, World(p) PROVE ForwardsInv'
    BY <2>3, WorldKeeps
  <2>4. CASE UNCHANGED forwardsVars
    BY <2>4 DEF forwardsVars, ForwardsInv, ForwardsTypeOK, ProcessInv, DoneInv,
                RunningIsListed, StoppedIsDead, Running, At, Spawning
  <2> QED
    BY <2>1, <2>2, <2>3, <2>4 DEF Next
<1> QED
  BY InitIsInv, <1>1, PTL DEF Spec

\* The ledger, the screens' lists and what they point at have their types
\* (set_forwards() keeps the manager's positions in range).
THEOREM ForwardsTypeCorrect == Spec => []ForwardsTypeOK
<1>1. ForwardsInv => ForwardsTypeOK
  BY DEF ForwardsInv
<1> QED
  BY <1>1, ForwardsInvariant, PTL

\* No forward runs that the ledger on disk has forgotten, but for the causes
\* the code knows (spawn(), reconcile() and the saves of src/src/app.rs).
THEOREM NoForwardIsForgotten == Spec => []RunningIsListed
<1>1. ForwardsInv => RunningIsListed
  BY DEF ForwardsInv
<1> QED
  BY <1>1, ForwardsInvariant, PTL

\* What kill() reports as stopped has ended, unless SIGKILL or ps failed.
THEOREM WhatWasStoppedIsDead == Spec => []StoppedIsDead
<1>1. ForwardsInv => StoppedIsDead
  BY DEF ForwardsInv
<1> QED
  BY <1>1, ForwardsInvariant, PTL
=============================================================================
