------------------------- MODULE WorkerServiceProofs -------------------------
(***************************************************************************)
(* Proofs about WorkerService: its type, that no request is forgotten or   *)
(* answered twice, and that requests are served in order.                  *)
(*                                                                         *)
(* All of it follows from the numbers of the commands: the channel holds   *)
(* the last ones posted, those parked before them come in order and behind *)
(* the one being served, and no parked transfer precedes a Cancel that was *)
(* taken.                                                                  *)
(***************************************************************************)
EXTENDS WorkerService, SequenceTheorems, WellFoundedInduction, TLAPS

\* How many commands have left the channel.
Taken == Len(posted) - Len(rx)

\* The channel holds the last commands posted, as they were posted.
ChannelInv ==
    /\ Len(rx) <= Len(posted)
    /\ \A k \in 1 .. Len(rx) : rx[k].id = Taken + k /\ posted[rx[k].id] = rx[k].op

\* Parked are requests that were taken after the one being served, in order.
ParkedInv ==
    /\ \A k \in 1 .. Len(deferred) :
          /\ serving.id < deferred[k].id /\ deferred[k].id <= Taken
          /\ posted[deferred[k].id] = deferred[k].op
    /\ \A j, k \in 1 .. Len(deferred) : j < k => deferred[j].id < deferred[k].id

\* The last Cancel and the command being served were taken; no transfer that
\* is parked was posted before that Cancel.
TakenInv ==
    /\ serving.id <= Taken /\ cancelSeen <= Taken
    /\ \A k \in 1 .. Len(deferred) :
          deferred[k].op = "transfer" => cancelSeen < deferred[k].id

\* While a request is served it is the last one that was taken.
ServingInv ==
    worker \in Serving =>
        /\ serving.id > 0
        /\ posted[serving.id] = serving.op
        /\ serving.op = IF worker \in {"copying", "settling"} THEN "transfer" ELSE worker

\* What was answered was served, and the request being served was not.
AnswersInv ==
    \A i \in 1 .. Len(events) :
        /\ events[i].id <= serving.id
        /\ worker \in Serving => events[i].id < serving.id

NumbersInv == ChannelInv /\ ParkedInv /\ TakenInv

AnsweringInv == ServiceTypeOK /\ NumbersInv /\ ServingInv /\ AnswersInv /\ AnsweredOnce

ServiceInv == AnsweringInv /\ NothingForgotten
-----------------------------------------------------------------------------
(***************************************************************************)
(* Induction on the natural numbers, and by it what Retained computes.     *)
(***************************************************************************)
\* Every set of natural numbers has a least element.
LEMMA LeastNatural ==
    ASSUME NEW T, T \subseteq Nat, T # {}
    PROVE  \E least \in T : \A n \in T : least <= n
<1>1. IsWellFoundedOn(OpToRel(<, Nat), Nat)
  BY NatLessThanWellFounded
<1>2. \E least \in T : \A n \in T : <<n, least>> \notin OpToRel(<, Nat)
  BY <1>1, WFMin
<1>3. \A m, n \in Nat : <<n, m>> \notin OpToRel(<, Nat) => m <= n
  BY DEF OpToRel
<1> QED
  BY <1>2, <1>3

\* Induction, for a set: the theorems of the library take a predicate, which no
\* prover at hand can instantiate.
LEMMA InductiveSet ==
    ASSUME NEW T, 0 \in T, \A n \in Nat : n \in T => n + 1 \in T
    PROVE  Nat \subseteq T
<1> SUFFICES ASSUME Nat \ T # {} PROVE FALSE
  OBVIOUS
<1>1. PICK least \in Nat \ T : \A n \in Nat \ T : least <= n
  BY LeastNatural
<1>2. least # 0 /\ least - 1 \in Nat /\ least - 1 + 1 = least
  BY <1>1
<1>3. least - 1 \in T
  BY <1>1, <1>2
<1> QED
  BY <1>1, <1>2, <1>3
\* The recursive function of Retained, taken as far as m.
Unfolds(f, s, keep, m) ==
    f = [n \in 0 .. m |-> IF n = 0 THEN <<>>
                          ELSE IF s[n] \in keep THEN Append(f[n - 1], s[n])
                          ELSE f[n - 1]]

LEMMA UnfoldingExists ==
    ASSUME NEW s, NEW keep
    PROVE  \A m \in Nat : \E f : Unfolds(f, s, keep, m)
<1> DEFINE T == {m \in Nat : \E f : Unfolds(f, s, keep, m)}
<1>1. 0 \in T
  <2>1. Unfolds([n \in 0 .. 0 |-> <<>>], s, keep, 0)
    BY DEF Unfolds
  <2> QED
    BY <2>1
<1>2. ASSUME NEW n \in Nat, n \in T PROVE n + 1 \in T
  <2>1. PICK f : Unfolds(f, s, keep, n)
    BY <1>2
  <2> DEFINE g == [i \in 0 .. n + 1 |-> IF i = n + 1
                      THEN IF s[i] \in keep THEN Append(f[n], s[i]) ELSE f[n]
                      ELSE f[i]]
  <2>2. \A i \in 0 .. n : f[i] = IF i = 0 THEN <<>>
                                 ELSE IF s[i] \in keep THEN Append(f[i - 1], s[i])
                                 ELSE f[i - 1]
    BY <2>1 DEF Unfolds
  <2>3. \A i \in 0 .. n : g[i] = f[i]
    OBVIOUS
  <2>4. g[n + 1] = IF s[n + 1] \in keep THEN Append(f[n], s[n + 1]) ELSE f[n]
    OBVIOUS
  <2>5. g = [i \in 0 .. n + 1 |-> g[i]]
    OBVIOUS
  <2> HIDE DEF g
  <2>6. ASSUME NEW i \in 0 .. n + 1
        PROVE  g[i] = IF i = 0 THEN <<>>
                      ELSE IF s[i] \in keep THEN Append(g[i - 1], s[i])
                      ELSE g[i - 1]
    <3>1. CASE i = n + 1
      BY <3>1, <2>3, <2>4
    <3>2. CASE i \in 0 .. n
      BY <3>2, <2>2, <2>3
    <3> QED
      BY <3>1, <3>2
  <2>7. Unfolds(g, s, keep, n + 1)
    BY <2>5, <2>6 DEF Unfolds
  <2> QED
    BY <2>7
<1> HIDE DEF T
<1>3. Nat \subseteq T
  BY <1>1, <1>2, InductiveSet
<1> QED
  BY <1>3 DEF T

LEMMA RetainedUnfolds ==
    ASSUME NEW s, NEW keep, Len(s) \in Nat
    PROVE  \E f : Unfolds(f, s, keep, Len(s)) /\ Retained(s, keep) = f[Len(s)]
<1> DEFINE upTo == CHOOSE f : Unfolds(f, s, keep, Len(s))
<1>1. Unfolds(upTo, s, keep, Len(s))
  BY UnfoldingExists
<1>2. Retained(s, keep) = upTo[Len(s)]
  BY DEF Retained, Unfolds
<1> HIDE DEF upTo
<1> QED
  BY <1>1, <1>2
\* r is what s has of keep among its first m elements; at says which of them.
Picks(at, r, s, keep, m) ==
    /\ at \in [1 .. Len(r) -> 1 .. m]
    /\ \A j \in 1 .. Len(r) : r[j] = s[at[j]] /\ r[j] \in keep
    /\ \A j, k \in 1 .. Len(r) : j < k => at[j] < at[k]
    /\ \A i \in 1 .. m : s[i] \in keep => \E j \in 1 .. Len(r) : at[j] = i

\* What is retained: the elements of keep, all of them, in their order.
LEMMA RetainedPicks ==
    ASSUME NEW C, NEW s \in Seq(C), NEW keep
    PROVE  /\ Retained(s, keep) \in Seq(C)
           /\ \E at : Picks(at, Retained(s, keep), s, keep, Len(s))
<1>1. PICK f : Unfolds(f, s, keep, Len(s)) /\ Retained(s, keep) = f[Len(s)]
  BY RetainedUnfolds
<1>2. \A n \in 0 .. Len(s) : f[n] = IF n = 0 THEN <<>>
                                   ELSE IF s[n] \in keep THEN Append(f[n - 1], s[n])
                                   ELSE f[n - 1]
  BY <1>1 DEF Unfolds
<1> DEFINE T == {n \in Nat : n <= Len(s) =>
                     f[n] \in Seq(C) /\ \E at : Picks(at, f[n], s, keep, n)}
<1>3. 0 \in T
  <2>1. f[0] = <<>>
    BY <1>2
  <2>2. Picks([j \in 1 .. 0 |-> 1], <<>>, s, keep, 0)
    BY DEF Picks
  <2>3. \E at : Picks(at, f[0], s, keep, 0)
    BY <2>1, <2>2
  <2>4. f[0] \in Seq(C)
    BY <2>1
  <2> QED
    BY <2>3, <2>4
<1>4. ASSUME NEW n \in Nat, n \in T PROVE n + 1 \in T
  <2> SUFFICES ASSUME n + 1 <= Len(s)
               PROVE  f[n + 1] \in Seq(C) /\ \E at : Picks(at, f[n + 1], s, keep, n + 1)
    OBVIOUS
  <2> DEFINE r == f[n]
  <2>1. r \in Seq(C)
    BY <1>4
  <2>2. PICK at : Picks(at, r, s, keep, n)
    BY <1>4
  <2>3. f[n + 1] = IF s[n + 1] \in keep THEN Append(r, s[n + 1]) ELSE r
    BY <1>2
  <2>4. s[n + 1] \in C
    OBVIOUS
  <2> HIDE DEF r, T
  <2>5. CASE s[n + 1] \notin keep
    <3>1. Picks(at, r, s, keep, n + 1)
      BY <2>2, <2>5, <2>1 DEF Picks
    <3> QED
      BY <3>1, <2>1, <2>3, <2>5
  <2>6. CASE s[n + 1] \in keep
    <3> DEFINE q == Append(r, s[n + 1])
               to == [j \in 1 .. Len(r) + 1 |-> IF j = Len(r) + 1 THEN n + 1 ELSE at[j]]
    <3>1. /\ q \in Seq(C) /\ Len(q) = Len(r) + 1 /\ Len(r) \in Nat
          /\ \A j \in 1 .. Len(r) : q[j] = r[j]
          /\ q[Len(r) + 1] = s[n + 1]
      BY <2>1, <2>4
    <3> HIDE DEF q
    <3>2. to \in [1 .. Len(q) -> 1 .. n + 1]
      BY <3>1, <2>2 DEF Picks
    <3>3. \A j \in 1 .. Len(q) : q[j] = s[to[j]] /\ q[j] \in keep
      BY <3>1, <2>2, <2>6 DEF Picks
    <3>4. ASSUME NEW j \in 1 .. Len(q), NEW k \in 1 .. Len(q), j < k
          PROVE  to[j] < to[k]
      <4>1. j \in 1 .. Len(r) /\ at[j] \in 1 .. n /\ to[j] = at[j]
        BY <3>1, <3>4, <2>2 DEF Picks
      <4>2. CASE k = Len(r) + 1
        BY <4>1, <4>2
      <4>3. CASE k \in 1 .. Len(r)
        BY <4>1, <4>3, <3>4, <2>2 DEF Picks
      <4> QED
        BY <4>2, <4>3, <3>1
    <3>5. ASSUME NEW i \in 1 .. n + 1, s[i] \in keep
          PROVE  \E j \in 1 .. Len(q) : to[j] = i
      <4>1. CASE i = n + 1
        BY <4>1, <3>1
      <4>2. CASE i \in 1 .. n
        <5>1. PICK j \in 1 .. Len(r) : at[j] = i
          BY <4>2, <3>5, <2>2 DEF Picks
        <5> QED
          BY <5>1, <3>1
      <4> QED
        BY <4>1, <4>2
    <3>6. Picks(to, q, s, keep, n + 1)
      BY <3>2, <3>3, <3>4, <3>5 DEF Picks
    <3> QED
      BY <3>6, <3>1, <2>3, <2>6 DEF q
  <2> QED
    BY <2>5, <2>6
<1> HIDE DEF T
<1>5. Nat \subseteq T
  BY <1>3, <1>4, InductiveSet
<1> QED
  BY <1>1, <1>5 DEF T
-----------------------------------------------------------------------------
(***************************************************************************)
(* The channel.                                                            *)
(***************************************************************************)
Kinds == {"list", "mkdir", "transfer", "cancel", "shutdown"}

ChannelTypeOK ==
    /\ rx \in Seq(Commands) /\ deferred \in Seq(Requests)
    /\ posted \in Seq(Kinds)
    /\ serving \in Commands /\ cancelSeen \in Nat

LEMMA CommandFacts ==
    /\ \A c \in Commands : c.id \in Nat /\ c.op \in Kinds /\ (IsStop(c) \/ c \in Requests)
    /\ \A c \in Requests : c \in Commands /\ ~IsStop(c)
BY DEF Commands, Requests, Kinds, IsStop

\* StopAt is the first stop request in the channel.
LEMMA StopIsFirst ==
    ASSUME rx \in Seq(Commands)
    PROVE  /\ StopAt \in 0 .. Len(rx)
           /\ StopAt # 0 => IsStop(rx[StopAt])
           /\ \A k \in 1 .. Len(rx) : StopAt = 0 \/ k < StopAt => ~IsStop(rx[k])
<1> DEFINE stops == {i \in 1 .. Len(rx) : IsStop(rx[i])}
<1>1. StopAt = IF stops # {} THEN Min(stops) ELSE 0
  BY DEF StopAt, SelectInSeq
<1>2. stops \subseteq Nat
  OBVIOUS
<1>3. CASE stops = {}
  BY <1>1, <1>3
<1>4. CASE stops # {}
  <2>1. \E least \in stops : \A n \in stops : least <= n
    BY <1>2, <1>4, LeastNatural
  <2>2. Min(stops) \in stops /\ \A n \in stops : Min(stops) <= n
    BY <2>1 DEF Min
  <2>3. /\ StopAt \in 1 .. Len(rx) /\ IsStop(rx[StopAt])
        /\ \A n \in 1 .. Len(rx) : IsStop(rx[n]) => StopAt <= n
    BY <1>1, <1>4, <2>2
  <2> HIDE DEF stops
  <2>4. Len(rx) \in Nat
    OBVIOUS
  <2> QED
    BY <2>3, <2>4
<1> QED
  BY <1>3, <1>4

\* How many commands a poll passes over, and how many it takes.
Over  == IF StopAt = 0 THEN Len(rx) ELSE StopAt - 1
Gone  == IF StopAt = 0 THEN Len(rx) ELSE StopAt

LEMMA PollSplitsChannel ==
    ASSUME rx \in Seq(Commands)
    PROVE  /\ Passed \in Seq(Requests) /\ Len(Passed) = Over
           /\ \A k \in 1 .. Over : Passed[k] = rx[k]
           /\ Left \in Seq(Commands) /\ Len(Left) = Len(rx) - Gone
           /\ \A k \in 1 .. Len(Left) : Left[k] = rx[Gone + k]
           /\ Over \in 0 .. Len(rx) /\ Gone \in Over .. Len(rx)
<1>1. /\ StopAt \in 0 .. Len(rx)
      /\ \A k \in 1 .. Over : ~IsStop(rx[k]) /\ rx[k] \in Commands
  BY StopIsFirst DEF Over
<1>2. \A k \in 1 .. Over : rx[k] \in Requests
  BY <1>1, CommandFacts
<1>3. CASE StopAt = 0
  <2>1. /\ Passed = rx /\ Left = <<>> /\ Over = Len(rx) /\ Gone = Len(rx)
    BY <1>3 DEF Passed, Left, Over, Gone
  <2>2. Len(rx) \in Nat /\ rx \in [1 .. Len(rx) -> Requests]
    BY <1>2, <2>1
  <2>3. rx \in Seq(Requests)
    BY <2>2, SeqDef
  <2> QED
    BY <2>1, <2>2, <2>3
<1>4. CASE StopAt # 0
  <2>1. /\ Passed = SubSeq(rx, 1, StopAt - 1) /\ Over = StopAt - 1 /\ Gone = StopAt
        /\ Left = SubSeq(rx, StopAt + 1, Len(rx))
    BY <1>4 DEF Passed, Left, Over, Gone
  <2>2. \A i \in 1 .. StopAt - 1 : rx[i] \in Requests
    BY <1>2, <2>1
  <2>3. /\ Passed \in Seq(Requests) /\ Len(Passed) = Over
        /\ \A k \in 1 .. Over : Passed[k] = rx[k]
    BY <1>1, <1>4, <2>1, <2>2, SubSeqProperties
  <2>4. \A i \in StopAt + 1 .. Len(rx) : rx[i] \in Commands
    BY <1>1
  <2>5. /\ Left \in Seq(Commands) /\ Len(Left) = Len(rx) - StopAt
        /\ \A k \in 1 .. Len(rx) - StopAt : Left[k] = rx[StopAt + k]
    <3> DEFINE m == StopAt + 1
               n == Len(rx)
    <3>1. m \in Int /\ n \in Int /\ n - m + 1 = n - StopAt
      BY <1>1
    <3>2. /\ SubSeq(rx, m, n) \in Seq(Commands)
          /\ Len(SubSeq(rx, m, n)) = IF m <= n THEN n - m + 1 ELSE 0
          /\ \A k \in 1 .. n - m + 1 : SubSeq(rx, m, n)[k] = rx[m + k - 1]
      BY <2>4, <3>1, SubSeqProperties
    <3>3. \A k \in 1 .. Len(rx) - StopAt : m + k - 1 = StopAt + k
      BY <1>1
    <3>4. Len(SubSeq(rx, m, n)) = Len(rx) - StopAt
      <4>1. n \in Nat /\ StopAt \in Nat /\ StopAt <= n
        BY <1>1
      <4>2. (IF m <= n THEN n - m + 1 ELSE 0) = n - StopAt
        BY <4>1
      <4>3. Len(SubSeq(rx, m, n)) = IF m <= n THEN n - m + 1 ELSE 0
        BY <3>2
      <4> HIDE DEF m
      <4> QED
        BY <4>2, <4>3
    <3>5. \A k \in 1 .. Len(rx) - StopAt : SubSeq(rx, m, n)[k] = rx[StopAt + k]
      BY <3>1, <3>2, <3>3
    <3> QED
      BY <2>1, <3>2, <3>4, <3>5
  <2> QED
    BY <1>1, <1>4, <2>1, <2>3, <2>5
<1> QED
  BY <1>3, <1>4

\* What is parked once a poll is over, unless a Cancel purges it.
Parked == deferred \o Passed

LEMMA ParkingKeepsOrder ==
    ASSUME ChannelTypeOK, NumbersInv
    PROVE  /\ Parked \in Seq(Requests)
           /\ Len(Parked) = Len(deferred) + Over
           /\ \A k \in 1 .. Len(deferred) : Parked[k] = deferred[k]
           /\ \A k \in 1 .. Over : Parked[Len(deferred) + k] = rx[k]
           /\ \A k \in 1 .. Len(Parked) :
                 /\ serving.id < Parked[k].id /\ Parked[k].id <= Taken + Over
                 /\ posted[Parked[k].id] = Parked[k].op
                 /\ Parked[k].op = "transfer" => cancelSeen < Parked[k].id
           /\ \A j, k \in 1 .. Len(Parked) : j < k => Parked[j].id < Parked[k].id
<1>1. /\ Passed \in Seq(Requests) /\ Len(Passed) = Over
      /\ \A k \in 1 .. Over : Passed[k] = rx[k]
      /\ Over \in 0 .. Len(rx)
  BY PollSplitsChannel DEF ChannelTypeOK
<1>2. /\ Parked \in Seq(Requests)
      /\ Len(Parked) = Len(deferred) + Over
      /\ \A k \in 1 .. Len(deferred) : Parked[k] = deferred[k]
      /\ \A k \in 1 .. Over : Parked[Len(deferred) + k] = rx[k]
  <2>1. deferred \in Seq(Requests)
    BY DEF ChannelTypeOK
  <2> QED
    BY <1>1, <2>1, ConcatProperties DEF Parked
<1>3. /\ Len(rx) \in Nat /\ Len(deferred) \in Nat /\ Over \in Nat /\ Over <= Len(rx)
      /\ Taken \in Nat /\ serving.id \in Nat /\ cancelSeen \in Nat
  BY <1>1, CommandFacts DEF Taken, ChannelInv, ChannelTypeOK, NumbersInv
<1>4. /\ \A k \in 1 .. Len(deferred) : deferred[k].id \in Nat
      /\ \A k \in 1 .. Len(rx) : rx[k].id \in Nat /\ rx[k].id = Taken + k
  BY CommandFacts DEF ChannelInv, ChannelTypeOK, NumbersInv
<1>5. ASSUME NEW k \in 1 .. Len(Parked)
      PROVE  \/ k \in 1 .. Len(deferred) /\ Parked[k] = deferred[k]
             \/ \E i \in 1 .. Over : /\ k = Len(deferred) + i /\ Parked[k] = rx[i]
                                     /\ i \in 1 .. Len(rx)
  <2>1. CASE k > Len(deferred)
    <3>1. k - Len(deferred) \in 1 .. Over /\ k = Len(deferred) + (k - Len(deferred))
      BY <1>2, <1>3, <2>1
    <3> QED
      BY <1>2, <1>3, <3>1
  <2> QED
    BY <1>2, <1>3, <2>1
<1>6. ASSUME NEW k \in 1 .. Len(Parked)
      PROVE  /\ serving.id < Parked[k].id /\ Parked[k].id <= Taken + Over
             /\ posted[Parked[k].id] = Parked[k].op
             /\ Parked[k].op = "transfer" => cancelSeen < Parked[k].id
  <2>1. CASE k \in 1 .. Len(deferred) /\ Parked[k] = deferred[k]
    BY <1>3, <1>4, <2>1 DEF ParkedInv, TakenInv, NumbersInv
  <2>2. ASSUME NEW i \in 1 .. Over, Parked[k] = rx[i], i \in 1 .. Len(rx)
        PROVE  /\ serving.id < Parked[k].id /\ Parked[k].id <= Taken + Over
               /\ posted[Parked[k].id] = Parked[k].op
               /\ Parked[k].op = "transfer" => cancelSeen < Parked[k].id
    BY <1>3, <1>4, <2>2 DEF ChannelInv, TakenInv, NumbersInv
  <2> QED
    BY <1>5, <2>1, <2>2
<1>7. ASSUME NEW j \in 1 .. Len(Parked), NEW k \in 1 .. Len(Parked), j < k
      PROVE  Parked[j].id < Parked[k].id
  <2>1. CASE k \in 1 .. Len(deferred)
    <3>1. j \in 1 .. Len(deferred)
      BY <1>2, <1>3, <1>7, <2>1
    <3>2. deferred[j].id < deferred[k].id
      BY <1>7, <2>1, <3>1 DEF ParkedInv, NumbersInv
    <3> QED
      BY <1>2, <2>1, <3>1, <3>2
  <2>2. ASSUME NEW i \in 1 .. Over, k = Len(deferred) + i, Parked[k] = rx[i], i \in 1 .. Len(rx)
        PROVE  Parked[j].id < Parked[k].id
    <3>1. CASE j \in 1 .. Len(deferred)
      <4>1. deferred[j].id \in Nat /\ deferred[j].id <= Taken
        BY <1>4, <3>1 DEF ParkedInv, NumbersInv
      <4>2. Parked[j] = deferred[j] /\ rx[i].id = Taken + i
        BY <1>2, <1>4, <2>2, <3>1
      <4> QED
        BY <1>3, <2>2, <4>1, <4>2
    <3>2. ASSUME NEW h \in 1 .. Over, j = Len(deferred) + h, Parked[j] = rx[h], h \in 1 .. Len(rx)
          PROVE  Parked[j].id < Parked[k].id
      BY <1>3, <1>4, <1>7, <2>2, <3>2
    <3> QED
      BY <1>5, <3>1, <3>2
  <2> QED
    BY <1>5, <2>1, <2>2
<1> QED
  BY <1>2, <1>6, <1>7

\* What a Cancel leaves of the parked commands.
LEMMA PurgeKeepsRequests ==
    ASSUME NEW cmds \in Seq(Requests)
    PROVE  /\ Purged(cmds) \in Seq(Requests)
           /\ \A j \in 1 .. Len(Purged(cmds)) : Purged(cmds)[j].op # "transfer"
           /\ \E at \in [1 .. Len(Purged(cmds)) -> 1 .. Len(cmds)] :
                 /\ \A j \in 1 .. Len(Purged(cmds)) : Purged(cmds)[j] = cmds[at[j]]
                 /\ \A j, k \in 1 .. Len(Purged(cmds)) : j < k => at[j] < at[k]
                 /\ \A i \in 1 .. Len(cmds) :
                       cmds[i].op # "transfer" => \E j \in 1 .. Len(Purged(cmds)) : at[j] = i
<1> DEFINE keep == {c \in ToSet(cmds) : c.op # "transfer"}
<1>1. Purged(cmds) = Retained(cmds, keep)
  BY DEF Purged
<1>2. \A i \in 1 .. Len(cmds) : cmds[i] \in keep <=> cmds[i].op # "transfer"
  BY DEF ToSet
<1>3. \A c \in keep : c.op # "transfer"
  OBVIOUS
<1> HIDE DEF keep
<1>4. /\ Purged(cmds) \in Seq(Requests)
      /\ \E at : Picks(at, Purged(cmds), cmds, keep, Len(cmds))
  BY <1>1, RetainedPicks
<1>5. PICK at : Picks(at, Purged(cmds), cmds, keep, Len(cmds))
  BY <1>4
<1>6. /\ at \in [1 .. Len(Purged(cmds)) -> 1 .. Len(cmds)]
      /\ \A j \in 1 .. Len(Purged(cmds)) : Purged(cmds)[j] = cmds[at[j]] /\ Purged(cmds)[j] \in keep
      /\ \A j, k \in 1 .. Len(Purged(cmds)) : j < k => at[j] < at[k]
      /\ \A i \in 1 .. Len(cmds) : cmds[i] \in keep => \E j \in 1 .. Len(Purged(cmds)) : at[j] = i
  BY <1>5 DEF Picks
<1> QED
  BY <1>2, <1>3, <1>4, <1>6

\* A poll leaves the channel and what is parked in order, whatever it finds.
LEMMA PollKeepsNumbers ==
    ASSUME ChannelTypeOK, NumbersInv, PollStop, UNCHANGED serving
    PROVE  /\ ChannelTypeOK' /\ NumbersInv'
           /\ cancelSeen <= cancelSeen'
           /\ Found = "cancel" => serving.id < cancelSeen'
           /\ UNCHANGED <<posted, closing, hungUp>>
<1>1. /\ Parked \in Seq(Requests)
      /\ \A k \in 1 .. Len(Parked) :
            /\ serving.id < Parked[k].id /\ Parked[k].id <= Taken + Over
            /\ posted[Parked[k].id] = Parked[k].op
            /\ Parked[k].op = "transfer" => cancelSeen < Parked[k].id
      /\ \A j, k \in 1 .. Len(Parked) : j < k => Parked[j].id < Parked[k].id
  BY ParkingKeepsOrder
<1>2. /\ Left \in Seq(Commands) /\ Len(Left) = Len(rx) - Gone
      /\ \A k \in 1 .. Len(Left) : Left[k] = rx[Gone + k]
      /\ Over \in 0 .. Len(rx) /\ Gone \in Over .. Len(rx)
  BY PollSplitsChannel DEF ChannelTypeOK
<1>3. /\ rx' = Left /\ UNCHANGED <<posted, closing, hungUp, serving>>
      /\ deferred' = IF Found = "cancel" THEN Purged(Parked) ELSE Parked
      /\ cancelSeen' = IF Found = "cancel" THEN rx[StopAt].id ELSE cancelSeen
  BY DEF PollStop, Parked, screenEnd
<1>4. /\ Len(rx) \in Nat /\ Over \in Nat /\ Gone \in Nat /\ Taken \in Nat
      /\ serving.id \in Nat /\ cancelSeen \in Nat
      /\ Len(posted) \in Nat /\ Taken = Len(posted) - Len(rx)
      /\ serving.id <= Taken /\ cancelSeen <= Taken
      /\ Over <= Gone /\ Gone <= Len(rx)
  BY <1>2, CommandFacts DEF Taken, ChannelInv, TakenInv, ChannelTypeOK, NumbersInv
<1>5. Taken' = Taken + Gone
  <2>1. Taken' = Len(posted) - Len(Left)
    BY <1>3 DEF Taken
  <2> QED
    BY <1>2, <1>4, <2>1
<1>6. ChannelInv'
  <2>1. Len(Left) \in Nat /\ Len(Left) <= Len(posted)
    BY <1>2, <1>4
  <2>2. ASSUME NEW k \in 1 .. Len(Left)
        PROVE  Left[k].id = Taken + Gone + k /\ posted[Left[k].id] = Left[k].op
    <3>1. Gone + k \in 1 .. Len(rx) /\ Left[k] = rx[Gone + k]
      BY <1>2, <1>4, <2>1
    <3> QED
      BY <1>4, <2>1, <3>1 DEF ChannelInv, NumbersInv
  <2> QED
    BY <1>3, <1>5, <2>1, <2>2 DEF ChannelInv
<1>7. CASE Found = "cancel"
  <2>1. /\ StopAt \in 1 .. Len(rx) /\ Gone = StopAt /\ Over = StopAt - 1
        /\ rx[StopAt].id = Taken + StopAt
    BY <1>7, StopIsFirst DEF Found, Gone, Over, ChannelTypeOK, ChannelInv, NumbersInv
  <2>2. /\ cancelSeen' = Taken' /\ cancelSeen' \in Nat /\ serving.id < cancelSeen'
        /\ cancelSeen <= cancelSeen'
    BY <1>3, <1>4, <1>5, <1>7, <2>1
  <2>3. PICK at \in [1 .. Len(Purged(Parked)) -> 1 .. Len(Parked)] :
          /\ \A j \in 1 .. Len(Purged(Parked)) : Purged(Parked)[j] = Parked[at[j]]
          /\ \A j, k \in 1 .. Len(Purged(Parked)) : j < k => at[j] < at[k]
    BY <1>1, PurgeKeepsRequests
  <2>4. /\ Purged(Parked) \in Seq(Requests)
        /\ \A j \in 1 .. Len(Purged(Parked)) : Purged(Parked)[j].op # "transfer"
    BY <1>1, PurgeKeepsRequests
  <2>5. \A k \in 1 .. Len(Parked) : Parked[k].id \in Nat
    BY <1>1, CommandFacts
  <2>6. ASSUME NEW j \in 1 .. Len(Purged(Parked))
        PROVE  /\ serving.id < Purged(Parked)[j].id /\ Purged(Parked)[j].id <= Taken + Gone
               /\ posted[Purged(Parked)[j].id] = Purged(Parked)[j].op
    <3>1. at[j] \in 1 .. Len(Parked) /\ Purged(Parked)[j] = Parked[at[j]]
      BY <2>3
    <3> DEFINE c == Parked[at[j]]
    <3>2. /\ serving.id < c.id /\ c.id <= Taken + Over
          /\ posted[c.id] = c.op /\ c.id \in Nat
      BY <1>1, <2>5, <3>1
    <3> HIDE DEF c
    <3>3. c.id <= Taken + Gone
      BY <1>4, <3>2
    <3> QED
      BY <3>1, <3>2, <3>3 DEF c
  <2>7. \A j, k \in 1 .. Len(Purged(Parked)) :
            j < k => Purged(Parked)[j].id < Purged(Parked)[k].id
    BY <1>1, <2>3
  <2>8. ParkedInv' /\ TakenInv'
    BY <1>3, <1>4, <1>5, <1>7, <2>2, <2>4, <2>6, <2>7 DEF ParkedInv, TakenInv
  <2>9. ChannelTypeOK'
    BY <1>2, <1>3, <1>7, <2>2, <2>4 DEF ChannelTypeOK
  <2> QED
    BY <1>3, <1>6, <2>2, <2>8, <2>9 DEF NumbersInv
<1>8. CASE Found # "cancel"
  <2>1. \A k \in 1 .. Len(Parked) : Parked[k].id \in Nat
    BY <1>1, CommandFacts
  <2>2. \A k \in 1 .. Len(Parked) : Parked[k].id <= Taken + Gone
    BY <1>1, <1>4, <2>1
  <2>3. serving.id <= Taken + Gone /\ cancelSeen <= Taken + Gone
    BY <1>4
  <2>4. ParkedInv' /\ TakenInv'
    BY <1>1, <1>3, <1>5, <1>8, <2>2, <2>3 DEF ParkedInv, TakenInv
  <2>5. ChannelTypeOK'
    BY <1>1, <1>2, <1>3, <1>8 DEF ChannelTypeOK
  <2> QED
    BY <1>3, <1>4, <1>6, <1>8, <2>4, <2>5 DEF NumbersInv
<1> QED
  BY <1>7, <1>8

InChannel(id) == \E i \in 1 .. Len(rx) : rx[i].id = id
IsParked(id)  == \E i \in 1 .. Len(deferred) : deferred[i].id = id
Pending(id)   == InChannel(id) \/ IsParked(id)

\* What a Cancel took along, and what needs no answer.
Dropped(id) == \/ posted[id] = "transfer" /\ id < cancelSeen
               \/ posted[id] \in {"cancel", "shutdown"}

\* A poll loses nothing but stop requests and what a Cancel takes along.
LEMMA PollLosesNothing ==
    ASSUME ChannelTypeOK, NumbersInv, PollStop, NEW id, Pending(id)
    PROVE  Pending(id)' \/ Dropped(id)'
<1>1. /\ Parked \in Seq(Requests)
      /\ Len(Parked) = Len(deferred) + Over
      /\ \A k \in 1 .. Len(deferred) : Parked[k] = deferred[k]
      /\ \A k \in 1 .. Over : Parked[Len(deferred) + k] = rx[k]
      /\ \A k \in 1 .. Len(Parked) : Parked[k].id <= Taken + Over /\ posted[Parked[k].id] = Parked[k].op
  BY ParkingKeepsOrder
<1>2. /\ Left \in Seq(Commands) /\ Len(Left) = Len(rx) - Gone
      /\ \A k \in 1 .. Len(Left) : Left[k] = rx[Gone + k]
      /\ Over \in 0 .. Len(rx) /\ Gone \in Over .. Len(rx)
  BY PollSplitsChannel DEF ChannelTypeOK
<1>3. /\ rx' = Left /\ UNCHANGED posted
      /\ deferred' = IF Found = "cancel" THEN Purged(Parked) ELSE Parked
      /\ cancelSeen' = IF Found = "cancel" THEN rx[StopAt].id ELSE cancelSeen
  BY DEF PollStop, Parked, screenEnd
<1>4. /\ Len(rx) \in Nat /\ Len(deferred) \in Nat /\ Taken \in Nat
      /\ \A k \in 1 .. Len(rx) : posted[rx[k].id] = rx[k].op /\ rx[k].id = Taken + k
  BY DEF ChannelTypeOK, ChannelInv, NumbersInv, Taken
<1>5. \/ \E k \in 1 .. Len(Parked) : Parked[k].id = id
      \/ \E k \in 1 .. Len(Left) : Left[k].id = id
      \/ posted[id] \in {"cancel", "shutdown"}
  <2>1. CASE IsParked(id)
    BY <1>1, <1>2, <1>4, <2>1 DEF IsParked
  <2>2. CASE InChannel(id)
    <3>1. PICK i \in 1 .. Len(rx) : rx[i].id = id
      BY <2>2 DEF InChannel
    <3>2. CASE i <= Over
      <4>1. Len(deferred) + i \in 1 .. Len(Parked) /\ Parked[Len(deferred) + i] = rx[i]
        BY <1>1, <1>2, <1>4, <3>2
      <4> QED
        BY <3>1, <4>1
    <3>3. CASE i > Gone
      <4>1. i - Gone \in 1 .. Len(Left) /\ Gone + (i - Gone) = i
        BY <1>2, <1>4, <3>3
      <4>2. Left[i - Gone] = rx[i]
        BY <1>2, <4>1
      <4> QED
        BY <3>1, <4>1, <4>2
    <3>4. CASE Over < i /\ i <= Gone
      <4>1. i = StopAt /\ IsStop(rx[i])
        BY <1>4, <3>4, StopIsFirst DEF Over, Gone, ChannelTypeOK
      <4>2. posted[id] = rx[i].op
        BY <1>4, <3>1
      <4> QED
        BY <4>1, <4>2 DEF IsStop
    <3> QED
      BY <1>2, <1>4, <3>2, <3>3, <3>4
  <2> QED
    BY <2>1, <2>2 DEF Pending
<1>6. CASE \E k \in 1 .. Len(Left) : Left[k].id = id
  BY <1>3, <1>6 DEF Pending, InChannel
<1>7. ASSUME NEW k \in 1 .. Len(Parked), Parked[k].id = id, Found # "cancel"
      PROVE  Pending(id)'
  BY <1>3, <1>7 DEF Pending, IsParked
<1>8. ASSUME NEW k \in 1 .. Len(Parked), Parked[k].id = id, Found = "cancel"
      PROVE  Pending(id)' \/ Dropped(id)'
  <2>1. CASE Parked[k].op # "transfer"
    <3>1. \E j \in 1 .. Len(Purged(Parked)) : Purged(Parked)[j] = Parked[k]
      BY <1>1, <2>1, PurgeKeepsRequests
    <3> QED
      BY <1>3, <1>8, <3>1 DEF Pending, IsParked
  <2>2. CASE Parked[k].op = "transfer"
    <3>1. /\ StopAt \in 1 .. Len(rx) /\ Over = StopAt - 1
          /\ rx[StopAt].id = Taken + StopAt
      BY <1>4, <1>8, StopIsFirst DEF Found, Over, ChannelTypeOK
    <3>2. id \in Nat /\ id <= Taken + Over /\ posted[id] = "transfer"
      BY <1>1, <1>8, <2>2, CommandFacts
    <3>3. id < cancelSeen'
      BY <1>3, <1>4, <1>8, <3>1, <3>2
    <3> QED
      BY <1>3, <3>2, <3>3 DEF Dropped
  <2> QED
    BY <2>1, <2>2
<1>9. CASE posted[id] \in {"cancel", "shutdown"}
  BY <1>3, <1>9 DEF Dropped
<1> QED
  BY <1>5, <1>6, <1>7, <1>8, <1>9

\* The next command is the oldest that is pending.
LEMMA TakeKeepsNumbers ==
    ASSUME ChannelTypeOK, NumbersInv, TakeCommand, UNCHANGED posted,
           serving' = NextCommand,
           cancelSeen' = IF NextCommand.op = "cancel" THEN NextCommand.id ELSE cancelSeen
    PROVE  /\ ChannelTypeOK' /\ NumbersInv'
           /\ serving.id < serving'.id /\ posted[serving'.id] = serving'.op
           /\ serving'.op = "transfer" => cancelSeen < serving'.id
           /\ cancelSeen <= cancelSeen'
           /\ \A id : Pending(id) => Pending(id)' \/ id = serving'.id
<1>1. /\ rx \in Seq(Commands) /\ deferred \in Seq(Requests) /\ posted \in Seq(Kinds)
      /\ Len(rx) \in Nat /\ Len(deferred) \in Nat /\ Len(posted) \in Nat
      /\ Taken \in Nat /\ cancelSeen \in Nat /\ serving.id \in Nat
      /\ Taken = Len(posted) - Len(rx)
  BY CommandFacts DEF ChannelTypeOK, ChannelInv, NumbersInv, Taken
<1>2. /\ \A k \in 1 .. Len(rx) : rx[k].id = Taken + k /\ posted[rx[k].id] = rx[k].op
      /\ \A k \in 1 .. Len(deferred) :
            /\ serving.id < deferred[k].id /\ deferred[k].id <= Taken
            /\ posted[deferred[k].id] = deferred[k].op
            /\ deferred[k].op = "transfer" => cancelSeen < deferred[k].id
      /\ \A j, k \in 1 .. Len(deferred) : j < k => deferred[j].id < deferred[k].id
      /\ serving.id <= Taken /\ cancelSeen <= Taken
  BY DEF NumbersInv, ChannelInv, ParkedInv, TakenInv
<1>3. \A k \in 1 .. Len(deferred) : deferred[k].id \in Nat /\ deferred[k] \in Requests
                                     /\ deferred[k].op \notin {"cancel", "shutdown"}
  BY <1>1, CommandFacts DEF IsStop
<1>4. CASE deferred # <<>>
  <2>1. /\ serving' = deferred[1] /\ deferred' = Tail(deferred) /\ rx' = rx /\ Taken' = Taken
        /\ 1 \in 1 .. Len(deferred) /\ cancelSeen' = cancelSeen
    BY <1>1, <1>3, <1>4 DEF TakeCommand, NextCommand, Taken
  <2>2. /\ deferred' \in Seq(Requests) /\ Len(deferred') = Len(deferred) - 1
        /\ \A k \in 1 .. Len(deferred') : deferred'[k] = deferred[k + 1] /\ k + 1 \in 1 .. Len(deferred)
    BY <1>1, <1>4, <2>1, HeadTailProperties
  <2>3. ChannelTypeOK'
    BY <1>1, <1>3, <2>1, <2>2, CommandFacts DEF ChannelTypeOK
  <2>4. ChannelInv'
    BY <2>1 DEF ChannelInv, NumbersInv
  <2>5. \A k \in 1 .. Len(deferred') : serving'.id < deferred'[k].id
    BY <1>1, <1>2, <2>1, <2>2
  <2>6. ASSUME NEW j \in 1 .. Len(deferred'), NEW k \in 1 .. Len(deferred'), j < k
        PROVE  deferred'[j].id < deferred'[k].id
    <3>1. deferred'[j] = deferred[j + 1] /\ deferred'[k] = deferred[k + 1] /\ j + 1 < k + 1
      BY <1>1, <2>2, <2>6
    <3> QED
      BY <1>2, <2>2, <3>1
  <2>7. ParkedInv' /\ TakenInv'
    BY <1>2, <2>1, <2>2, <2>5, <2>6 DEF ParkedInv, TakenInv
  <2>8. ASSUME NEW id, Pending(id) PROVE Pending(id)' \/ id = serving'.id
    <3>1. CASE InChannel(id)
      BY <2>1, <3>1 DEF Pending, InChannel
    <3>2. ASSUME NEW i \in 1 .. Len(deferred), deferred[i].id = id, i # 1
          PROVE  IsParked(id)'
      <4>1. i - 1 \in 1 .. Len(deferred') /\ i - 1 + 1 = i
        BY <1>1, <2>2, <3>2
      <4>2. deferred'[i - 1] = deferred[i]
        BY <2>2, <4>1
      <4> QED
        BY <3>2, <4>1, <4>2 DEF IsParked
    <3> QED
      BY <2>1, <2>8, <3>1, <3>2 DEF Pending, IsParked
  <2> QED
    BY <1>1, <1>2, <2>1, <2>3, <2>4, <2>7, <2>8 DEF NumbersInv
<1>5. CASE deferred = <<>>
  <2>1. /\ serving' = rx[1] /\ rx' = Tail(rx) /\ deferred' = deferred /\ rx # <<>>
        /\ 1 \in 1 .. Len(rx) /\ serving'.id = Taken + 1 /\ serving'.op = posted[serving'.id]
        /\ cancelSeen' = IF serving'.op = "cancel" THEN Taken + 1 ELSE cancelSeen
        /\ Len(deferred) = 0
    BY <1>1, <1>2, <1>5 DEF TakeCommand, NextCommand
  <2>2. /\ rx' \in Seq(Commands) /\ Len(rx') = Len(rx) - 1
        /\ \A k \in 1 .. Len(rx') : rx'[k] = rx[k + 1] /\ k + 1 \in 1 .. Len(rx)
    BY <1>1, <2>1, HeadTailProperties
  <2>3. Taken' = Taken + 1
    BY <1>1, <2>2 DEF Taken
  <2>4. ChannelTypeOK'
    BY <1>1, <2>1, <2>2 DEF ChannelTypeOK
  <2>5. ChannelInv'
    BY <1>1, <1>2, <2>1, <2>2, <2>3 DEF ChannelInv
  <2>6. ParkedInv' /\ TakenInv'
    BY <1>1, <1>2, <2>1, <2>3 DEF ParkedInv, TakenInv
  <2>7. ASSUME NEW id, Pending(id) PROVE Pending(id)' \/ id = serving'.id
    <3>1. PICK i \in 1 .. Len(rx) : rx[i].id = id
      BY <2>1, <2>7 DEF Pending, InChannel, IsParked
    <3>2. CASE i # 1
      <4>1. i - 1 \in 1 .. Len(rx') /\ i - 1 + 1 = i
        BY <1>1, <2>2, <3>2
      <4>2. rx'[i - 1] = rx[i]
        BY <2>2, <4>1
      <4> QED
        BY <3>1, <4>1, <4>2 DEF InChannel, Pending
    <3> QED
      BY <2>1, <3>1, <3>2
  <2> QED
    BY <1>1, <1>2, <2>1, <2>4, <2>5, <2>6, <2>7 DEF NumbersInv
<1> QED
  BY <1>4, <1>5

\* Commands that are posted come behind all the others.
LEMMA PostKeepsNumbers ==
    ASSUME ChannelTypeOK, NumbersInv,
           NEW cmds \in Seq(Commands), \A k \in 1 .. Len(cmds) : cmds[k].id = Len(posted) + k,
           Post(cmds), UNCHANGED <<deferred, serving, cancelSeen>>
    PROVE  /\ ChannelTypeOK' /\ NumbersInv'
           /\ Len(posted') = Len(posted) + Len(cmds)
           /\ \A id \in 1 .. Len(posted) : posted'[id] = posted[id]
           /\ \A k \in 1 .. Len(cmds) : posted'[Len(posted) + k] = cmds[k].op
           /\ \A id : Pending(id)' <=> Pending(id) \/ \E k \in 1 .. Len(cmds) : cmds[k].id = id
<1> DEFINE ops == [i \in DOMAIN cmds |-> cmds[i].op]
           n   == Len(cmds)
<1>1. /\ rx \in Seq(Commands) /\ deferred \in Seq(Requests) /\ posted \in Seq(Kinds)
      /\ Len(rx) \in Nat /\ Len(deferred) \in Nat /\ Len(posted) \in Nat /\ n \in Nat
      /\ Taken \in Nat /\ Taken = Len(posted) - Len(rx)
      /\ serving.id \in Nat /\ cancelSeen \in Nat
  BY CommandFacts DEF ChannelTypeOK, ChannelInv, NumbersInv, Taken
<1>2. /\ \A k \in 1 .. Len(rx) : rx[k].id = Taken + k /\ posted[rx[k].id] = rx[k].op
      /\ \A k \in 1 .. Len(deferred) :
            /\ serving.id < deferred[k].id /\ deferred[k].id <= Taken
            /\ posted[deferred[k].id] = deferred[k].op
      /\ \A j, k \in 1 .. Len(deferred) : j < k => deferred[j].id < deferred[k].id
      /\ serving.id <= Taken
  BY DEF NumbersInv, ChannelInv, ParkedInv, TakenInv
<1>3. ops \in Seq(Kinds) /\ Len(ops) = n /\ \A k \in 1 .. n : ops[k] = cmds[k].op
  <2>1. ops \in [1 .. n -> Kinds]
    BY CommandFacts
  <2> QED
    BY <1>1, <2>1, SeqDef
<1>4. /\ rx' = rx \o cmds /\ posted' = posted \o ops
      /\ UNCHANGED <<deferred, serving, cancelSeen>>
  BY DEF Post
<1> HIDE DEF ops, n
<1>5. /\ rx' \in Seq(Commands) /\ Len(rx') = Len(rx) + n
      /\ \A k \in 1 .. Len(rx) : rx'[k] = rx[k]
      /\ \A k \in 1 .. n : rx'[Len(rx) + k] = cmds[k]
  BY <1>1, <1>4, ConcatProperties DEF n
<1>6. /\ posted' \in Seq(Kinds) /\ Len(posted') = Len(posted) + n
      /\ \A k \in 1 .. Len(posted) : posted'[k] = posted[k]
      /\ \A k \in 1 .. n : posted'[Len(posted) + k] = cmds[k].op
  <2>1. /\ posted \o ops \in Seq(Kinds) /\ Len(posted \o ops) = Len(posted) + Len(ops)
        /\ \A i \in 1 .. Len(posted) + Len(ops) : (posted \o ops)[i] =
                IF i <= Len(posted) THEN posted[i] ELSE ops[i - Len(posted)]
    BY <1>1, <1>3, ConcatProperties
  <2>2. ASSUME NEW k \in 1 .. n PROVE posted'[Len(posted) + k] = cmds[k].op
    <3>1. /\ Len(posted) + k \in 1 .. Len(posted) + Len(ops)
          /\ ~(Len(posted) + k <= Len(posted)) /\ Len(posted) + k - Len(posted) = k
      BY <1>1, <1>3
    <3> QED
      BY <1>3, <1>4, <2>1, <3>1
  <2>3. ASSUME NEW k \in 1 .. Len(posted) PROVE posted'[k] = posted[k]
    <3>1. k \in 1 .. Len(posted) + Len(ops) /\ k <= Len(posted)
      BY <1>1, <1>3
    <3> QED
      BY <1>4, <2>1, <3>1
  <2> QED
    BY <1>3, <1>4, <2>1, <2>2, <2>3
<1>7. Taken' = Taken
  <2>1. Taken' = Len(posted') - Len(rx')
    BY DEF Taken
  <2> QED
    BY <1>1, <1>5, <1>6, <2>1
<1>8. ASSUME NEW k \in 1 .. Len(rx')
      PROVE  rx'[k].id = Taken + k /\ posted'[rx'[k].id] = rx'[k].op
  <2>1. CASE k \in 1 .. Len(rx)
    <3>1. rx'[k] = rx[k] /\ rx[k].id = Taken + k /\ Taken + k \in 1 .. Len(posted)
      BY <1>1, <1>2, <1>5, <2>1
    <3> QED
      BY <1>2, <1>6, <2>1, <3>1
  <2>2. CASE k > Len(rx)
    <3> DEFINE j == k - Len(rx)
    <3>1. j \in 1 .. n /\ Len(rx) + j = k
      BY <1>1, <1>5, <2>2
    <3> HIDE DEF j
    <3>2. rx'[k] = cmds[j] /\ cmds[j].id = Len(posted) + j /\ posted'[Len(posted) + j] = cmds[j].op
      BY <1>5, <1>6, <3>1 DEF n
    <3>3. Len(posted) + j = Taken + k
      <4>1. j \in Nat /\ k = Len(rx) + j
        BY <3>1
      <4> QED
        BY <1>1, <4>1
    <3> QED
      BY <3>2, <3>3
  <2> QED
    BY <1>1, <1>5, <2>1, <2>2
<1>9. ChannelInv'
  BY <1>1, <1>5, <1>6, <1>7, <1>8 DEF ChannelInv
<1>10. ParkedInv' /\ TakenInv'
  <2>1. ASSUME NEW k \in 1 .. Len(deferred) PROVE posted'[deferred[k].id] = deferred[k].op
    <3>1. deferred[k].id \in Nat
      BY <1>1, CommandFacts
    <3>2. deferred[k].id \in 1 .. Len(posted)
      BY <1>1, <1>2, <3>1
    <3> QED
      BY <1>2, <1>6, <3>2
  <2> QED
    BY <1>2, <1>4, <1>7, <2>1 DEF ParkedInv, TakenInv, NumbersInv
<1>11. ChannelTypeOK'
  BY <1>4, <1>5, <1>6 DEF ChannelTypeOK
<1>12. ASSUME NEW id
       PROVE  Pending(id)' <=> Pending(id) \/ \E k \in 1 .. n : cmds[k].id = id
  <2>1. InChannel(id)' => InChannel(id) \/ \E k \in 1 .. n : cmds[k].id = id
    <3> SUFFICES ASSUME NEW i \in 1 .. Len(rx'), rx'[i].id = id
                 PROVE  InChannel(id) \/ \E k \in 1 .. n : cmds[k].id = id
      BY DEF InChannel
    <3>1. CASE i \in 1 .. Len(rx)
      BY <1>5, <3>1 DEF InChannel
    <3>2. CASE i > Len(rx)
      <4>1. i - Len(rx) \in 1 .. n /\ Len(rx) + (i - Len(rx)) = i
        BY <1>1, <1>5, <3>2
      <4>2. rx'[i] = cmds[i - Len(rx)]
        BY <1>5, <4>1
      <4> QED
        BY <4>1, <4>2
    <3> QED
      BY <1>1, <1>5, <3>1, <3>2
  <2>2. InChannel(id) => InChannel(id)'
    BY <1>1, <1>5 DEF InChannel
  <2>3. ASSUME NEW k \in 1 .. n, cmds[k].id = id PROVE InChannel(id)'
    <3>1. Len(rx) + k \in 1 .. Len(rx')
      BY <1>1, <1>5
    <3> QED
      BY <1>5, <2>3, <3>1 DEF InChannel
  <2>4. IsParked(id)' <=> IsParked(id)
    BY <1>4 DEF IsParked
  <2> QED
    BY <2>1, <2>2, <2>3, <2>4 DEF Pending
<1> QED
  BY <1>6, <1>9, <1>10, <1>11, <1>12 DEF NumbersInv, n
-----------------------------------------------------------------------------
(***************************************************************************)
(* What a step of the worker does, but for the commands it takes.          *)
(***************************************************************************)
Workers == {"handshake", "idle", "teardown", "gone"} \cup InBatch

LEMMA TypeParts ==
    ServiceTypeOK <=> /\ ChannelTypeOK
                      /\ hungUp \in BOOLEAN /\ closing \in BOOLEAN
                      /\ worker \in Workers /\ events \in Seq(Events)
BY DEF ServiceTypeOK, ChannelTypeOK, Kinds, Workers

LEMMA TypePartsNext ==
    ServiceTypeOK' <=> /\ ChannelTypeOK'
                       /\ hungUp' \in BOOLEAN /\ closing' \in BOOLEAN
                       /\ worker' \in Workers /\ events' \in Seq(Events)
BY DEF ServiceTypeOK, ChannelTypeOK, Kinds, Workers

\* It may poll; it leaves the command it serves only with an answer to it or
\* to tear down, and says nothing else but how the session opened.
WorkerStep ==
    /\ PollStop \/ UNCHANGED <<channel, cancelSeen>>
    /\ UNCHANGED serving
    /\ worker' \in Workers
    /\ worker' \in Serving => worker' = worker \/ (worker = "copying" /\ worker' = "settling")
    /\ worker \in {"teardown", "gone"} => worker' \in {"teardown", "gone"}
    /\ \/ /\ UNCHANGED events
          /\ worker \in Serving => worker' \in Serving \cup {"teardown"}
       \/ \E e \in Events : /\ Emit(e) /\ worker' \notin Serving
                            /\ e.id = IF worker \in Serving THEN serving.id ELSE 0

LEMMA FoundIs == ServiceTypeOK => Found \in {"cancel", "shutdown", "none"}
<1> SUFFICES ASSUME ServiceTypeOK PROVE Found \in {"cancel", "shutdown", "none"}
  OBVIOUS
<1>1. StopAt # 0 => rx[StopAt].op \in {"cancel", "shutdown"}
  BY StopIsFirst DEF ServiceTypeOK, IsStop
<1> QED
  BY <1>1 DEF Found

LEMMA AnswersAreEvents ==
    ASSUME serving \in Commands
    PROVE  /\ \A ev \in {"notReady", "done", "skipped", "cancelled", "mkdirFailed", "error"} :
                 Outcome(ev) \in Events /\ Outcome(ev).id = serving.id
           /\ [ev |-> "notReady", id |-> 0] \in Events
           /\ \A dir \in {Home, Root} : [ev |-> "ready", dir |-> dir, id |-> 0] \in Events
BY CommandFacts, WorkerAssumption DEF Events, Outcome

LEMMA SessionIsWorkerStep ==
    ASSUME ServiceTypeOK, ServingInv, Session
    PROVE  Recv \/ WorkerStep
<1> USE DEF Serving, InBatch, Workers
<1>1. serving \in Commands
  BY DEF ServiceTypeOK
<1>2. CASE Connected
  BY <1>2 DEF Connected, WorkerStep
<1>3. CASE ConnectFails
  BY <1>1, <1>3, AnswersAreEvents DEF ConnectFails, WorkerStep
<1>4. CASE ConnectCancelled
  BY <1>1, <1>4, AnswersAreEvents DEF ConnectCancelled, WorkerStep
<1>5. CASE HomeKnown
  BY <1>1, <1>5, AnswersAreEvents DEF HomeKnown, WorkerStep
<1>6. CASE RecvDisconnected
  BY <1>6 DEF RecvDisconnected, WorkerStep
<1>7. CASE Teardown
  BY <1>7 DEF Teardown, WorkerStep
<1> QED
  BY <1>2, <1>3, <1>4, <1>5, <1>6, <1>7 DEF Session

LEMMA ChildrenAreWorkerSteps ==
    ASSUME ServiceTypeOK, ServingInv, Children
    PROVE  WorkerStep
<1> USE DEF Serving, InBatch, Workers
<1>1. serving \in Commands /\ serving.id \in Nat
  BY CommandFacts DEF ServiceTypeOK
<1>2. CASE Park
  BY <1>2 DEF Park, WorkerStep, ServiceTypeOK
<1>3. CASE ListAnswered
  <2>1. serving.op = "list"
    BY <1>3 DEF ListAnswered, ServingInv
  <2>2. ASSUME NEW shown \in SUBSET Names, NEW cut \in BOOLEAN
        PROVE  [ev |-> "listing", dir |-> serving.dir, names |-> shown,
                truncated |-> cut, id |-> serving.id] \in Events
    BY <1>1, <2>1 DEF Commands, Requests, Events
  <2> QED
    BY <1>1, <1>3, <2>2, AnswersAreEvents DEF ListAnswered, Answer, WorkerStep
<1>4. CASE MkdirAnswered
  <2>1. serving.op = "mkdir"
    BY <1>4 DEF MkdirAnswered, ServingInv
  <2>2. [ev |-> "mkdirDone", path |-> serving.path, id |-> serving.id] \in Events
    BY <1>1, <2>1 DEF Commands, Requests, Events
  <2> QED
    BY <1>1, <1>4, <2>2, AnswersAreEvents DEF MkdirAnswered, Answer, WorkerStep
<1>5. CASE CopyEnds
  BY <1>1, <1>5, AnswersAreEvents DEF CopyEnds, Answer, WorkerStep
<1>6. CASE Settles
  BY <1>1, <1>6, AnswersAreEvents DEF Settles, SettledAs, Answer, WorkerStep
<1>7. CASE Interrupted
  <2>1. Found \in {"cancel", "shutdown"}
    BY <1>7, FoundIs DEF Interrupted
  <2> QED
    BY <1>1, <1>7, <2>1, AnswersAreEvents DEF Interrupted, Answer, WorkerStep
<1>8. CASE SettlingInterrupted
  BY <1>1, <1>8, AnswersAreEvents DEF SettlingInterrupted, SettledAs, Answer, WorkerStep
<1> QED
  BY <1>2, <1>3, <1>4, <1>5, <1>6, <1>7, <1>8 DEF Children
-----------------------------------------------------------------------------
(***************************************************************************)
(* Numbers and answers, whatever the other end does with the events.       *)
(***************************************************************************)
LEMMA WorkerStepKeepsAnswering ==
    ASSUME AnsweringInv, WorkerStep
    PROVE  /\ AnsweringInv'
           /\ cancelSeen <= cancelSeen' /\ UNCHANGED <<posted, closing, hungUp>>
           /\ \A id : Pending(id) => Pending(id)' \/ Dropped(id)'
<1>1. ChannelTypeOK /\ NumbersInv /\ UNCHANGED serving
  BY TypeParts DEF AnsweringInv, WorkerStep
<1>2. /\ ChannelTypeOK' /\ NumbersInv'
      /\ cancelSeen <= cancelSeen' /\ UNCHANGED <<posted, closing, hungUp>>
      /\ \A id : Pending(id) => Pending(id)' \/ Dropped(id)'
  <2>1. CASE PollStop
    BY <1>1, <2>1, PollKeepsNumbers, PollLosesNothing
  <2>2. CASE UNCHANGED <<channel, cancelSeen>>
    <3>1. cancelSeen \in Nat
      BY <1>1 DEF ChannelTypeOK
    <3>2. UNCHANGED <<rx, deferred, posted, hungUp, closing, serving, cancelSeen>>
      BY <1>1, <2>2 DEF channel, screenEnd
    <3> QED
      BY <1>1, <3>1, <3>2 DEF ChannelTypeOK, NumbersInv, ChannelInv, ParkedInv, TakenInv, Taken,
                              Pending, InChannel, IsParked
  <2> QED
    BY <2>1, <2>2 DEF WorkerStep
<1>3. ServingInv'
  BY <1>1, <1>2 DEF AnsweringInv, ServingInv, WorkerStep, Serving
<1>4. events \in Seq(Events) /\ serving.id \in Nat /\ \A i \in 1 .. Len(events) : events[i].id \in Nat
  BY <1>1, CommandFacts DEF AnsweringInv, ServiceTypeOK, Events
<1>5. CASE UNCHANGED events
  <2>1. AnswersInv' /\ AnsweredOnce' /\ events' \in Seq(Events)
    BY <1>1, <1>4, <1>5 DEF AnsweringInv, AnswersInv, AnsweredOnce, WorkerStep, Serving
  <2> QED
    BY <1>2, <1>3, <2>1, TypeParts, TypePartsNext DEF AnsweringInv, WorkerStep
<1>6. ASSUME NEW e \in Events, Emit(e), worker' \notin Serving,
             e.id = IF worker \in Serving THEN serving.id ELSE 0
      PROVE  AnswersInv' /\ AnsweredOnce' /\ events' \in Seq(Events)
  <2>1. /\ events' = Append(events, e) /\ events' \in Seq(Events)
        /\ Len(events') = Len(events) + 1 /\ Len(events) \in Nat
        /\ \A i \in 1 .. Len(events) : events'[i] = events[i]
        /\ events'[Len(events) + 1] = e
    BY <1>4, <1>6, AppendProperties DEF Emit
  <2>2. \A i \in 1 .. Len(events') : i \in 1 .. Len(events) \/ i = Len(events) + 1
    BY <2>1
  <2>3. AnswersInv'
    BY <1>1, <1>4, <1>6, <2>1, <2>2 DEF AnsweringInv, AnswersInv
  <2>4. DOMAIN events = 1 .. Len(events) /\ DOMAIN events' = 1 .. Len(events')
    BY <1>4, <2>1
  <2>5. ASSUME NEW i \in 1 .. Len(events), events[i].id = e.id
        PROVE  e.id = 0
    BY <1>4, <1>6, <2>5 DEF AnsweringInv, AnswersInv
  <2>6. ASSUME NEW i \in 1 .. Len(events'), NEW j \in 1 .. Len(events'), events'[i].id = events'[j].id
        PROVE  i = j \/ events'[i].id = 0
    <3>1. CASE i \in 1 .. Len(events) /\ j \in 1 .. Len(events)
      BY <2>1, <2>4, <2>6, <3>1 DEF AnsweringInv, AnsweredOnce
    <3>2. CASE i = Len(events) + 1 /\ j = Len(events) + 1
      BY <3>2
    <3> QED
      BY <2>1, <2>2, <2>5, <2>6, <3>1, <3>2
  <2>7. AnsweredOnce'
    BY <2>4, <2>6 DEF AnsweredOnce
  <2> QED
    BY <2>1, <2>3, <2>7
<1>7. AnswersInv' /\ AnsweredOnce' /\ events' \in Seq(Events)
  BY <1>1, <1>4, <1>5, <1>6 DEF AnsweringInv, AnswersInv, AnsweredOnce, WorkerStep, Serving
<1> QED
  BY <1>2, <1>3, <1>7, TypeParts, TypePartsNext DEF AnsweringInv, WorkerStep

\* The worker takes its next command, and that is a request that was never
\* answered, or a stop request.
LEMMA RecvKeepsAnswering ==
    ASSUME AnsweringInv, Recv
    PROVE  /\ AnsweringInv'
           /\ cancelSeen <= cancelSeen' /\ UNCHANGED <<posted, closing, hungUp>>
           /\ \A id : Pending(id) =>
                 Pending(id)' \/ Dropped(id)' \/ (id = serving'.id /\ worker' \in Serving)
           /\ serving.id < serving'.id
           /\ serving'.op = "transfer" => cancelSeen < serving'.id
<1>1. ChannelTypeOK /\ NumbersInv /\ worker \notin Serving /\ UNCHANGED <<events, posted, closing, hungUp>>
  BY TypeParts DEF AnsweringInv, Recv, screenEnd, Serving
<1>2. /\ ChannelTypeOK' /\ NumbersInv'
      /\ serving.id < serving'.id /\ posted[serving'.id] = serving'.op
      /\ serving'.op = "transfer" => cancelSeen < serving'.id
      /\ cancelSeen <= cancelSeen'
      /\ \A id : Pending(id) => Pending(id)' \/ id = serving'.id
  BY <1>1, TakeKeepsNumbers DEF Recv
<1>3. /\ serving' \in Commands /\ serving'.id \in Nat /\ serving.id \in Nat /\ serving'.op \in Kinds
      /\ serving' = NextCommand
  BY <1>1, <1>2, CommandFacts DEF ChannelTypeOK, Recv
<1>4. /\ worker' = CASE serving'.op = "transfer" -> "copying"
                     [] serving'.op \in {"list", "mkdir"} -> serving'.op
                     [] serving'.op = "cancel" -> "idle"
                     [] serving'.op = "shutdown" -> "teardown"
  BY <1>3 DEF Recv
<1>5. \/ serving'.op = "transfer" /\ worker' = "copying"
      \/ serving'.op \in {"list", "mkdir"} /\ worker' = serving'.op
      \/ serving'.op = "cancel" /\ worker' = "idle"
      \/ serving'.op = "shutdown" /\ worker' = "teardown"
  BY <1>3, <1>4 DEF Kinds
<1>6. worker' \in Workers /\ ServingInv'
  BY <1>1, <1>2, <1>3, <1>5 DEF ServingInv, Workers, InBatch, Serving
<1>7. AnswersInv' /\ AnsweredOnce' /\ events' \in Seq(Events)
  <2>1. \A i \in 1 .. Len(events) : events[i].id \in Nat /\ events[i].id <= serving.id
    BY DEF AnsweringInv, AnswersInv, ServiceTypeOK, Events
  <2> QED
    BY <1>1, <1>2, <1>3, <2>1 DEF AnsweringInv, AnswersInv, AnsweredOnce, ServiceTypeOK
<1>8. ASSUME NEW id, id = serving'.id
      PROVE  worker' \in Serving \/ Dropped(id)'
  BY <1>1, <1>2, <1>5, <1>8 DEF Dropped, Serving
<1>9. AnsweringInv'
  BY <1>1, <1>2, <1>6, <1>7, TypeParts, TypePartsNext DEF AnsweringInv
<1> QED
  BY <1>1, <1>2, <1>8, <1>9

LEMMA PostKeepsAnswering ==
    ASSUME AnsweringInv,
           NEW cmds \in Seq(Commands), \A k \in 1 .. Len(cmds) : cmds[k].id = Len(posted) + k,
           Post(cmds), closing' \in BOOLEAN,
           UNCHANGED <<deferred, hungUp, worker, serving, events, cancelSeen>>
    PROVE  AnsweringInv'
<1>1. ChannelTypeOK /\ NumbersInv
  BY TypeParts DEF AnsweringInv
<1>2. /\ ChannelTypeOK' /\ NumbersInv'
      /\ \A id \in 1 .. Len(posted) : posted'[id] = posted[id]
  BY <1>1, PostKeepsNumbers
<1>3. /\ worker \in Serving => serving.id \in 1 .. Len(posted)
      /\ serving.id \in Nat
  BY <1>1, CommandFacts DEF AnsweringInv, ServingInv, NumbersInv, TakenInv, ChannelInv, ChannelTypeOK, Taken
<1>4. ServingInv' /\ AnswersInv' /\ AnsweredOnce'
  BY <1>2, <1>3 DEF AnsweringInv, ServingInv, AnswersInv, AnsweredOnce
<1> QED
  BY <1>2, <1>4, TypeParts, TypePartsNext DEF AnsweringInv
-----------------------------------------------------------------------------
(***************************************************************************)
(* The specification of the service.                                       *)
(***************************************************************************)
LEMMA WaitingParts ==
    ASSUME ServiceTypeOK
    PROVE  /\ \A id : Waiting(id) <=> Pending(id) \/ (serving.id = id /\ worker \in Serving)
           /\ DOMAIN posted = 1 .. Len(posted) /\ DOMAIN events = 1 .. Len(events)
BY DEF ServiceTypeOK, Waiting, Pending, InChannel, IsParked

LEMMA WaitingPartsNext ==
    ASSUME ServiceTypeOK'
    PROVE  /\ \A id : Waiting(id)' <=> Pending(id)' \/ (serving'.id = id /\ worker' \in Serving)
           /\ DOMAIN posted' = 1 .. Len(posted') /\ DOMAIN events' = 1 .. Len(events')
BY DEF ServiceTypeOK, Waiting, Pending, InChannel, IsParked

Serves == worker \notin {"teardown", "gone"}
Cared(id) == Waiting(id) \/ Answered(id) \/ Dropped(id)

LEMMA ForgottenParts ==
    /\ NothingForgotten <=> (Serves => \A id \in DOMAIN posted : Cared(id))
    /\ NothingForgotten' <=> (Serves' => \A id \in DOMAIN posted' : Cared(id)')
BY DEF NothingForgotten, Serves, Cared, Dropped

LEMMA WorkerStepForgetsNothing ==
    ASSUME AnsweringInv, NothingForgotten, WorkerStep
    PROVE  NothingForgotten'
<1>1. /\ AnsweringInv'
      /\ cancelSeen <= cancelSeen' /\ UNCHANGED <<posted, serving>>
      /\ \A id : Pending(id) => Pending(id)' \/ Dropped(id)'
  BY WorkerStepKeepsAnswering DEF WorkerStep
<1>2. /\ cancelSeen \in Nat /\ cancelSeen' \in Nat
      /\ posted \in Seq(Kinds) /\ events \in Seq(Events)
  BY <1>1, TypeParts, TypePartsNext DEF AnsweringInv, ChannelTypeOK
<1> SUFFICES ASSUME Serves', NEW id \in DOMAIN posted
             PROVE  Cared(id)'
  BY <1>1, ForgottenParts
<1>3. Serves /\ Cared(id) /\ id \in Nat
  BY <1>2, ForgottenParts DEF Serves, WorkerStep
<1>4. CASE Pending(id)
  BY <1>1, <1>4, WaitingPartsNext DEF Cared, AnsweringInv
<1>5. CASE Dropped(id)
  BY <1>1, <1>2, <1>3, <1>5 DEF Cared, Dropped
<1>6. Answered(id) => Answered(id)'
  <2>1. ASSUME NEW e \in Events, Emit(e), Answered(id)
        PROVE  Answered(id)'
    BY <1>2, <2>1, AppendProperties DEF Emit, Answered
  <2> QED
    BY <2>1 DEF Answered, WorkerStep
<1>7. CASE serving.id = id /\ worker \in Serving
  <2>1. CASE worker' \in Serving
    BY <1>1, <1>7, <2>1, WaitingPartsNext DEF Cared, AnsweringInv
  <2>2. ASSUME NEW e \in Events, Emit(e), e.id = serving.id
        PROVE  Answered(id)'
    <3>1. /\ events' = Append(events, e) /\ Len(events) \in Nat /\ events' \in Seq(Events)
          /\ Len(events') = Len(events) + 1 /\ events'[Len(events) + 1] = e
      BY <1>2, <2>2, AppendProperties DEF Emit
    <3>2. Len(events) + 1 \in DOMAIN events'
      BY <3>1
    <3> QED
      BY <1>7, <2>2, <3>1, <3>2 DEF Answered
  <2> QED
    BY <1>7, <2>1, <2>2 DEF Serves, WorkerStep, Cared
<1> QED
  BY <1>3, <1>4, <1>5, <1>6, <1>7, WaitingParts DEF Cared, AnsweringInv

LEMMA RecvForgetsNothing ==
    ASSUME AnsweringInv, NothingForgotten, Recv
    PROVE  NothingForgotten'
<1>1. /\ AnsweringInv'
      /\ cancelSeen <= cancelSeen' /\ UNCHANGED <<posted, events>>
      /\ \A id : Pending(id) =>
            Pending(id)' \/ Dropped(id)' \/ (id = serving'.id /\ worker' \in Serving)
  BY RecvKeepsAnswering DEF Recv
<1>2. /\ cancelSeen \in Nat /\ cancelSeen' \in Nat /\ posted \in Seq(Kinds)
      /\ Serves /\ worker \notin Serving
  BY <1>1, TypeParts, TypePartsNext DEF AnsweringInv, ChannelTypeOK, Recv, Serves, Serving
<1> SUFFICES ASSUME Serves', NEW id \in DOMAIN posted
             PROVE  Cared(id)'
  BY <1>1, ForgottenParts
<1>3. Cared(id) /\ id \in Nat
  BY <1>2, ForgottenParts
<1>4. CASE Pending(id)
  BY <1>1, <1>4, WaitingPartsNext DEF Cared, AnsweringInv
<1>5. CASE Dropped(id)
  BY <1>1, <1>2, <1>3, <1>5 DEF Cared, Dropped
<1>6. CASE Answered(id)
  BY <1>1, <1>6 DEF Cared, Answered
<1> QED
  BY <1>2, <1>3, <1>4, <1>5, <1>6, WaitingParts DEF Cared, AnsweringInv

LEMMA PostForgetsNothing ==
    ASSUME AnsweringInv, NothingForgotten,
           NEW cmds \in Seq(Commands), \A k \in 1 .. Len(cmds) : cmds[k].id = Len(posted) + k,
           Post(cmds), closing' \in BOOLEAN,
           UNCHANGED <<deferred, hungUp, worker, serving, events, cancelSeen>>
    PROVE  NothingForgotten'
<1>1. /\ AnsweringInv'
      /\ Len(posted') = Len(posted) + Len(cmds)
      /\ \A id \in 1 .. Len(posted) : posted'[id] = posted[id]
      /\ \A id : Pending(id)' <=> Pending(id) \/ \E k \in 1 .. Len(cmds) : cmds[k].id = id
  BY PostKeepsAnswering, PostKeepsNumbers, TypeParts DEF AnsweringInv
<1>2. /\ DOMAIN posted = 1 .. Len(posted) /\ DOMAIN posted' = 1 .. Len(posted')
      /\ Len(posted) \in Nat /\ Len(cmds) \in Nat
  BY <1>1, WaitingParts, WaitingPartsNext, TypeParts DEF AnsweringInv, ChannelTypeOK
<1> SUFFICES ASSUME Serves, NEW id \in DOMAIN posted'
             PROVE  Cared(id)'
  BY ForgottenParts DEF Serves
<1>3. CASE id \in DOMAIN posted
  <2>1. Cared(id)
    BY <1>3, ForgottenParts
  <2>2. Dropped(id) => Dropped(id)'
    BY <1>1, <1>2, <1>3 DEF Dropped
  <2> QED
    BY <1>1, <2>1, <2>2, WaitingParts, WaitingPartsNext DEF Cared, AnsweringInv, Answered
<1>4. CASE id \notin DOMAIN posted
  <2>1. id - Len(posted) \in 1 .. Len(cmds) /\ Len(posted) + (id - Len(posted)) = id
    BY <1>1, <1>2, <1>4
  <2>2. cmds[id - Len(posted)].id = id
    BY <2>1
  <2>3. Pending(id)'
    BY <1>1, <2>1, <2>2
  <2> QED
    BY <1>1, <2>3, WaitingPartsNext DEF Cared, AnsweringInv
<1> QED
  BY <1>3, <1>4

LEMMA InitAnswers == ServiceInit => AnsweringInv
<1> SUFFICES ASSUME ServiceInit PROVE AnsweringInv
  OBVIOUS
<1> USE DEF ServiceInit
<1>1. Nothing \in Commands /\ Nothing.id = 0
  BY DEF Nothing, Commands
<1>2. ServiceTypeOK
  <2>1. ChannelTypeOK
    BY <1>1 DEF ChannelTypeOK
  <2>2. worker \in Workers /\ events \in Seq(Events)
    BY DEF Workers
  <2> QED
    BY <2>1, <2>2, TypeParts
<1>3. NumbersInv
  BY <1>1 DEF NumbersInv, ChannelInv, ParkedInv, TakenInv, Taken
<1>4. ServingInv /\ AnswersInv /\ AnsweredOnce
  BY DEF ServingInv, AnswersInv, AnsweredOnce, Serving
<1> QED
  BY <1>2, <1>3, <1>4 DEF AnsweringInv

\* Close and the client post one command each, with the next number.
LEMMA OnePostKeeps ==
    ASSUME AnsweringInv, NEW c \in Commands, c.id = NextId, Post(<<c>>), closing' \in BOOLEAN,
           UNCHANGED <<deferred, hungUp, worker, serving, events, cancelSeen>>
    PROVE  AnsweringInv' /\ (NothingForgotten => NothingForgotten')
<1>1. <<c>> \in Seq(Commands) /\ \A k \in 1 .. Len(<<c>>) : <<c>>[k].id = Len(posted) + k
  BY DEF NextId
<1> HIDE DEF Post
<1> QED
  BY <1>1, PostKeepsAnswering, PostForgetsNothing

LEMMA CloseKeeps ==
    ASSUME AnsweringInv, Close
    PROVE  AnsweringInv' /\ (NothingForgotten => NothingForgotten')
<1>1. posted \in Seq(Kinds) /\ NextId \in Nat
  BY TypeParts DEF AnsweringInv, ChannelTypeOK, NextId
<1>2. [op |-> "shutdown", id |-> NextId] \in Commands
  BY <1>1 DEF Commands
<1> QED
  BY <1>2, OnePostKeeps DEF Close

LEMMA HangUpKeeps ==
    ASSUME AnsweringInv, HangUp
    PROVE  AnsweringInv' /\ (NothingForgotten => NothingForgotten')
<1>1. UNCHANGED <<rx, deferred, posted, closing, worker, serving, events, cancelSeen>> /\ hungUp'
  BY DEF HangUp
<1>2. AnsweringInv'
  BY <1>1 DEF AnsweringInv, ServiceTypeOK, NumbersInv, ChannelInv, ParkedInv, TakenInv, Taken,
              ServingInv, AnswersInv, AnsweredOnce
<1> QED
  BY <1>1, <1>2 DEF NothingForgotten, Waiting, Answered

LEMMA ClientKeeps ==
    ASSUME AnsweringInv, Client
    PROVE  AnsweringInv' /\ (NothingForgotten => NothingForgotten')
<1>1. posted \in Seq(Kinds) /\ NextId \in Nat /\ closing' \in BOOLEAN
  BY TypeParts DEF AnsweringInv, ChannelTypeOK, NextId, Client
<1>2. /\ \A d \in RemoteDirs : [op |-> "list", dir |-> d, id |-> NextId] \in Commands
      /\ \A p \in RemotePaths : [op |-> "mkdir", path |-> p, id |-> NextId] \in Commands
      /\ \A j \in Jobs : [op |-> "transfer", job |-> j, id |-> NextId] \in Commands
      /\ [op |-> "cancel", id |-> NextId] \in Commands
  BY <1>1 DEF Commands, Requests
<1>3. PICK c \in Commands : c.id = NextId /\ Post(<<c>>)
  BY <1>2 DEF Client
<1> QED
  BY <1>1, <1>3, OnePostKeeps DEF Client

LEMMA ServiceStep == ServiceInv /\ [ServiceNext]_serviceVars => ServiceInv'
<1> SUFFICES ASSUME ServiceInv, [ServiceNext]_serviceVars PROVE ServiceInv'
  OBVIOUS
<1>1. AnsweringInv /\ NothingForgotten /\ ServiceTypeOK /\ ServingInv
  BY DEF ServiceInv, AnsweringInv
<1>2. CASE WorkerStep
  BY <1>1, <1>2, WorkerStepKeepsAnswering, WorkerStepForgetsNothing DEF ServiceInv
<1>3. CASE Recv
  BY <1>1, <1>3, RecvKeepsAnswering, RecvForgetsNothing DEF ServiceInv
<1>4. CASE Close \/ HangUp \/ Client
  BY <1>1, <1>4, CloseKeeps, HangUpKeeps, ClientKeeps DEF ServiceInv
<1>5. CASE UNCHANGED serviceVars
  BY <1>1, <1>5 DEF serviceVars, channel, screenEnd, ServiceInv, AnsweringInv, ServiceTypeOK, NumbersInv,
                    ChannelInv, ParkedInv, TakenInv, Taken, ServingInv, AnswersInv, AnsweredOnce,
                    NothingForgotten, Waiting, Answered
<1> QED
  BY <1>1, <1>2, <1>3, <1>4, <1>5, SessionIsWorkerStep, ChildrenAreWorkerSteps DEF ServiceNext

THEOREM ServiceInvariant == ServiceSpec => []ServiceInv
<1>1. ServiceInit => ServiceInv
  <2> SUFFICES ASSUME ServiceInit PROVE NothingForgotten
    BY InitAnswers DEF ServiceInv
  <2> QED
    BY DEF ServiceInit, NothingForgotten
<1> QED
  BY <1>1, ServiceStep, PTL DEF ServiceSpec

\* Every reachable state of the service is well typed: in particular only
\* requests are ever parked (Commands::poll_stop).
THEOREM ServiceTypeCorrect == ServiceSpec => []ServiceTypeOK
<1>1. ServiceInv => ServiceTypeOK
  BY DEF ServiceInv, AnsweringInv
<1> QED
  BY <1>1, ServiceInvariant, PTL

\* Every request is waiting or answered, but for transfers that a later Cancel
\* took along (Commands::poll_stop, serve).
THEOREM NoRequestIsForgotten == ServiceSpec => []NothingForgotten
<1>1. ServiceInv => NothingForgotten
  BY DEF ServiceInv
<1> QED
  BY <1>1, ServiceInvariant, PTL

\* No request is answered twice (serve).
THEOREM OneAnswerEach == ServiceSpec => []AnsweredOnce
<1>1. ServiceInv => AnsweredOnce
  BY DEF ServiceInv, AnsweringInv
<1> QED
  BY <1>1, ServiceInvariant, PTL

\* Requests are served in the order they were posted, and no transfer starts
\* that was posted before a Cancel that was taken (Commands::recv, poll_stop).
THEOREM RequestsInOrder == ServiceSpec => ServedInOrder
<1> DEFINE InOrder == serving' # serving =>
                          /\ serving'.id > serving.id
                          /\ serving'.op = "transfer" => serving'.id > cancelSeen
<1>1. ServiceInv /\ [ServiceNext]_serviceVars => [InOrder]_serviceVars
  <2> SUFFICES ASSUME ServiceInv, ServiceNext, serving' # serving
               PROVE  serving'.id > serving.id /\ (serving'.op = "transfer" => serving'.id > cancelSeen)
    OBVIOUS
  <2>1. AnsweringInv /\ ServiceTypeOK /\ ServingInv
    BY DEF ServiceInv, AnsweringInv
  <2>2. Recv
    BY <2>1, SessionIsWorkerStep, ChildrenAreWorkerSteps
       DEF ServiceNext, WorkerStep, Close, HangUp, Client
  <2>3. AnsweringInv' /\ serving.id < serving'.id /\ (serving'.op = "transfer" => cancelSeen < serving'.id)
    BY <2>1, <2>2, RecvKeepsAnswering
  <2>4. serving.id \in Nat /\ serving'.id \in Nat /\ cancelSeen \in Nat
    BY <2>1, <2>3, CommandFacts DEF AnsweringInv, ServiceTypeOK
  <2> QED
    BY <2>3, <2>4
<1> QED
  BY <1>1, ServiceInvariant, PTL DEF ServiceSpec, ServedInOrder
=============================================================================
