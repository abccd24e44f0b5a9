---------------------------- MODULE StoresProofs ----------------------------
(***************************************************************************)
(* Theorems about Stores.  What a file holds depends on what its writers   *)
(* read, so the invariant speaks of their copies: see StoresInv.           *)
(***************************************************************************)
EXTENDS Stores, SequenceTheorems, WellFoundedInduction, TLAPS

LEMMA HostFunctions ==
    ASSUME NEW S \in SUBSET Hosts, NEW f \in [S -> HostRecords]
    PROVE  f \in UNION {[T -> HostRecords] : T \in SUBSET Hosts}
  OBVIOUS

LEMMA ContentFacts ==
    ASSUME NEW x \in Contents
    PROVE  /\ Listed(x) \subseteq Hosts
           /\ x.hosts \in [Listed(x) -> HostRecords]
           /\ x.creds \subseteq Creds
           /\ x.sites \subseteq Sites
  BY DEF Contents, Listed

LEMMA EmptyType == Empty \in Contents
  <1>1. Empty.hosts \in [{} -> HostRecords]
    BY DEF Empty
  <1>2. Empty.hosts \in UNION {[T -> HostRecords] : T \in SUBSET Hosts}
    BY <1>1, HostFunctions
  <1> QED
    BY <1>2 DEF Empty, Contents

LEMMA ReadType ==
    ASSUME NEW f \in Files
    PROVE  Read(f) \in Contents
  BY EmptyType DEF Read, Files

\* A database is its hosts, its credentials and its sites.
LEMMA Rebuilt ==
    ASSUME NEW x \in Contents, NEW S \in SUBSET Hosts, NEW f \in [S -> HostRecords],
           NEW c \in SUBSET Creds, NEW s \in SUBSET Sites
    PROVE  /\ [x EXCEPT !.hosts = f] \in Contents
           /\ [x EXCEPT !.hosts = f, !.creds = c] \in Contents
           /\ [x EXCEPT !.hosts = f, !.sites = s] \in Contents
           /\ [x EXCEPT !.creds = c] \in Contents
           /\ [x EXCEPT !.sites = s] \in Contents
  <1>1. f \in UNION {[T -> HostRecords] : T \in SUBSET Hosts}
    BY HostFunctions
  <1> QED
    BY <1>1 DEF Contents

\* Every edit of a database gives a database.
LEMMA ApplyType ==
    ASSUME NEW e \in Edits, NEW x \in Contents
    PROVE  Apply(e, x) \in Contents
  <1>0. /\ x.hosts \in [Listed(x) -> HostRecords]
        /\ Listed(x) \in SUBSET Hosts /\ x.creds \subseteq Creds /\ x.sites \subseteq Sites
    BY ContentFacts
  <1>r. \A k \in Listed(x) : /\ x.hosts[k] \in HostRecords
                             /\ x.hosts[k].cred \in Creds \cup {None}
                             /\ x.hosts[k].site \in Sites \cup {None}
    BY <1>0 DEF HostRecords
  <1>1. CASE e.op = "host"
    <2>1. e.host \in Hosts /\ e.record \in HostRecords
      BY <1>1 DEF Edits, Changes
    <2>2. [k \in Listed(x) \cup {e.host} |-> IF k = e.host THEN e.record ELSE x.hosts[k]]
             \in [Listed(x) \cup {e.host} -> HostRecords]
      BY <1>r, <2>1
    <2>3. Listed(x) \cup {e.host} \in SUBSET Hosts
      BY <1>0, <2>1
    <2>4. PutHost(x, e.host, e.record) \in Contents
      BY <2>2, <2>3, Rebuilt DEF PutHost
    <2> QED
      BY <1>1, <2>4 DEF Apply
  <1>2. CASE e.op = "import"
    <2>1. e.hosts \subseteq Hosts /\ e.site \in Sites \cup {None}
      BY <1>2 DEF Edits, Changes
    <2> DEFINE new == NewHosts(x, e.hosts)
               f == [k \in Listed(x) \cup new |->
                        IF k \in new THEN [cred |-> None, site |-> e.site] ELSE x.hosts[k]]
               s == x.sites \cup (IF new = {} THEN {} ELSE {e.site} \ {None})
    <2>2. new \subseteq Hosts
      BY <2>1 DEF NewHosts
    <2>3. [cred |-> None, site |-> e.site] \in HostRecords
      BY <2>1 DEF HostRecords
    <2>4. f \in [Listed(x) \cup new -> HostRecords]
      BY <1>r, <2>3
    <2>5. s \in SUBSET Sites
      BY <1>0, <2>1
    <2>6. Listed(x) \cup new \in SUBSET Hosts
      BY <1>0, <2>2
    <2> HIDE DEF f, s
    <2>7. [x EXCEPT !.hosts = f, !.sites = s] \in Contents
      BY <2>4, <2>5, <2>6, Rebuilt
    <2>8. Import(x, e.hosts, e.site) = [x EXCEPT !.hosts = f, !.sites = s]
      BY DEF Import, f, s
    <2> QED
      BY <1>2, <2>7, <2>8 DEF Apply
  <1>3. CASE e.op = "delete"
    <2>1. [k \in Listed(x) \ {e.host} |-> x.hosts[k]] \in [Listed(x) \ {e.host} -> HostRecords]
      BY <1>r
    <2>2. DropHost(x, e.host) \in Contents
      BY <1>0, <2>1, Rebuilt DEF DropHost
    <2> QED
      BY <1>3, <2>2 DEF Apply
  <1>4. CASE e.op = "bind"
    <2>1. e.cred \in Creds \cup {None} /\ e.declare \in BOOLEAN
      BY <1>4 DEF Edits, Changes
    <2> DEFINE f == [k \in Listed(x) |->
                        IF k \in e.hosts THEN [x.hosts[k] EXCEPT !.cred = e.cred] ELSE x.hosts[k]]
               c == IF e.declare THEN x.creds \cup ({e.cred} \ {None}) ELSE x.creds
    <2>2. \A k \in Listed(x) : [x.hosts[k] EXCEPT !.cred = e.cred] \in HostRecords
      BY <1>r, <2>1 DEF HostRecords
    <2>3. f \in [Listed(x) -> HostRecords]
      BY <1>r, <2>2
    <2>4. c \in SUBSET Creds
      BY <1>0, <2>1
    <2> HIDE DEF f, c
    <2>5. [x EXCEPT !.hosts = f, !.creds = c] \in Contents
      BY <1>0, <2>3, <2>4, Rebuilt
    <2>6. Bind(x, e.hosts, e.cred, e.declare) = [x EXCEPT !.hosts = f, !.creds = c]
      BY DEF Bind, f, c
    <2> QED
      BY <1>4, <2>5, <2>6 DEF Apply
  <1>5. CASE e.op = "declare"
    <2>1. e.cred \in Creds
      BY <1>5 DEF Edits, Changes
    <2>2. x.creds \cup {e.cred} \in SUBSET Creds
      BY <1>0, <2>1
    <2>3. [x EXCEPT !.creds = x.creds \cup {e.cred}] \in Contents
      BY <1>0, <2>2, Rebuilt
    <2> QED
      BY <1>5, <2>3 DEF Apply
  <1>6. CASE e.op = "remove"
    <2> DEFINE f == [k \in Listed(x) |->
                        IF x.hosts[k].cred = e.cred THEN [x.hosts[k] EXCEPT !.cred = None]
                                                    ELSE x.hosts[k]]
    <2>1. \A k \in Listed(x) : [x.hosts[k] EXCEPT !.cred = None] \in HostRecords
      BY <1>r DEF HostRecords
    <2>2. f \in [Listed(x) -> HostRecords]
      BY <1>r, <2>1
    <2> HIDE DEF f
    <2>3. [x EXCEPT !.hosts = f, !.creds = x.creds \ {e.cred}] \in Contents
      BY <1>0, <2>2, Rebuilt
    <2>4. RemoveCred(x, e.cred) = [x EXCEPT !.hosts = f, !.creds = x.creds \ {e.cred}]
      BY DEF RemoveCred, f
    <2> QED
      BY <1>6, <2>3, <2>4 DEF Apply
  <1>7. CASE e.op = "site"
    <2>1. e.site \in Sites
      BY <1>7 DEF Edits, Changes
    <2>2. x.sites \cup {e.site} \in SUBSET Sites
      BY <1>0, <2>1
    <2>3. [x EXCEPT !.sites = x.sites \cup {e.site}] \in Contents
      BY <1>0, <2>2, Rebuilt
    <2> QED
      BY <1>7, <2>3 DEF Apply
  <1>8. CASE e.op = "sites"
    <2>1. e.sites \in SUBSET Sites
      BY <1>8 DEF Edits, Changes
    <2> DEFINE f == [k \in Listed(x) |->
                        [x.hosts[k] EXCEPT !.site = Cascade(x.hosts[k].site, e.sites, e.renames)]]
    <2>2. \A s : Cascade(s, e.sites, e.renames) \in Sites \cup {None}
      BY <2>1 DEF Cascade
    <2>3. \A k \in Listed(x) :
             [x.hosts[k] EXCEPT !.site = Cascade(x.hosts[k].site, e.sites, e.renames)]
                \in HostRecords
      BY <1>r, <2>2 DEF HostRecords
    <2>4. f \in [Listed(x) -> HostRecords]
      BY <2>3
    <2> HIDE DEF f
    <2>5. [x EXCEPT !.hosts = f, !.sites = e.sites] \in Contents
      BY <1>0, <2>1, <2>4, Rebuilt
    <2>6. SaveSites(x, e.sites, e.renames) = [x EXCEPT !.hosts = f, !.sites = e.sites]
      BY DEF SaveSites, f
    <2> QED
      BY <1>8, <2>5, <2>6 DEF Apply
  <1>9. CASE e.op \notin {"host", "import", "delete", "bind", "declare", "remove", "site", "sites"}
    BY <1>9 DEF Apply
  <1> QED
    BY <1>1, <1>2, <1>3, <1>4, <1>5, <1>6, <1>7, <1>8, <1>9
-----------------------------------------------------------------------------
(* Induction on the natural numbers.                                       *)

\* Every set of natural numbers has a least element.
LEMMA LeastNatural ==
    ASSUME NEW T, T \subseteq Nat, T # {}
    PROVE  \E least \in T : \A n \in T : least <= n
<1>1. IsWellFoundedOn(OpToRel(<, Nat), Nat)
  BY NatLessThanWellFounded
<1>2. \E least \in T : \A n \in T : <<n, least>> \notin OpToRel(<, Nat)
  BY <1>1, WFMin
<1>3. \A m, n \in Nat : <<n, m>> \notin OpToRel(<, Nat) => m <= n
  BY DEF OpToRel
<1> QED
  BY <1>2, <1>3

\* Induction, for a set: the theorems of the library take a predicate, which no
\* prover at hand can instantiate.
LEMMA InductiveSet ==
    ASSUME NEW T, 0 \in T, \A n \in Nat : n \in T => n + 1 \in T
    PROVE  Nat \subseteq T
<1> SUFFICES ASSUME Nat \ T # {} PROVE FALSE
  OBVIOUS
<1>1. PICK least \in Nat \ T : \A n \in Nat \ T : least <= n
  BY LeastNatural
<1>2. least # 0 /\ least - 1 \in Nat /\ least - 1 + 1 = least
  BY <1>1
<1>3. least - 1 \in T
  BY <1>1, <1>2
<1> QED
  BY <1>1, <1>2, <1>3
-----------------------------------------------------------------------------
(* The records the processes work with.                                    *)

LEMMA ReadIsContents ==
    ASSUME StoresTypeOK, NEW p \in Paths
    PROVE  files[p] \in Files /\ Read(files[p]) \in Contents
  BY ReadType DEF StoresTypeOK

LEMMA JobTypes ==
    ASSUME NEW K \in SUBSET Keys, NEW keep \in BOOLEAN, NEW must \in BOOLEAN
    PROVE  Store(K, keep, must) \in Jobs /\ Delete(K) \in Jobs /\ NoJob \in Jobs
  BY DEF Store, Delete, NoJob, Jobs

LEMMA NoChangeIsEdit == NoChange \in Edits
  BY DEF NoChange, Edits

LEMMA OffType == Off \in Processes
  <1>1. NoJob \in Jobs
    BY JobTypes
  <1> QED
    BY <1>1, EmptyType, NoChangeIsEdit, StoresAssumption DEF Off, Processes, Files

LEMMA AfterSecretType ==
    ASSUME NEW p \in Procs, NEW q \in Processes
    PROVE  AfterSecret(p, q) \in Processes
  BY OffType DEF AfterSecret, NextPhase, Processes

LEMMA AfterFailureType ==
    ASSUME NEW p \in Procs, NEW q \in Processes
    PROVE  AfterFailure(p, q) \in Processes
  BY OffType, AfterSecretType, JobTypes, NoChangeIsEdit DEF AfterFailure, Processes

LEMMA LoadedType ==
    ASSUME StoresTypeOK, NEW now \in {"loaded", "open"}
    PROVE  Loaded(now) \in Processes
  BY OffType, ReadIsContents DEF Loaded, Processes, StoresTypeOK, Files

LEMMA EditedType ==
    ASSUME NEW q \in Processes
    PROVE  Edited(q) \in Processes
  <1>1. q.edit \in Edits /\ q.mem \in Contents /\ q.view \in Contents
    BY DEF Processes
  <1>2. Apply(q.edit, q.mem) \in Contents /\ Apply(q.edit, q.view) \in Contents
    BY <1>1, ApplyType
  <1>3. NoJob \in Jobs
    BY JobTypes
  <1> QED
    BY <1>2, <1>3, NoChangeIsEdit DEF Edited, Processes

LEMMA SecretKeyType ==
    ASSUME NEW x \in Contents, NEW h \in Listed(x)
    PROVE  SecretKey(x, h) \in Keys
  BY ContentFacts DEF SecretKey, Keys, HostRecords

-----------------------------------------------------------------------------
(* A step that only changes one process.                                   *)

\* A step that leaves the files and their histories alone keeps EditsSurvive,
\* and a process that ends well typed, with a true copy, keeps the rest.
Kept(p, q) ==
    /\ q \in Processes
    /\ q.pc = "checked" => q.seen = q.base
    /\ q.pc = "write" => q.key \in Keys
    /\ p \in Calls /\ q.pc \in {"loaded", "checked"} => q.mem = Read(q.base)
    /\ p \in Screens /\ ~q.forgets => q.view = q.mem

LEMMA OneProcess ==
    ASSUME StoresInv, NEW p \in Procs, NEW q, Kept(p, q),
           proc' = [proc EXCEPT ![p] = q]
    PROVE  /\ proc' \in [Procs -> Processes]
           /\ \A r \in Procs : /\ proc'[r].pc = "checked" => proc'[r].seen = proc'[r].base
                               /\ proc'[r].pc = "write" => proc'[r].key \in Keys
           /\ CopiesTrue'
  <1>1. proc \in [Procs -> Processes]
    BY DEF StoresInv, StoresTypeOK
  <1>2. \A r \in Procs : proc'[r] = IF r = p THEN q ELSE proc[r]
    BY <1>1
  <1>3. proc' \in [Procs -> Processes]
    BY <1>1 DEF Kept
  <1>c. \A r \in Procs : /\ proc[r].pc = "checked" => proc[r].seen = proc[r].base
                         /\ proc[r].pc = "write" => proc[r].key \in Keys
    BY DEF StoresInv, StoresTypeOK, At
  <1>4. \A r \in Procs : /\ proc'[r].pc = "checked" => proc'[r].seen = proc'[r].base
                         /\ proc'[r].pc = "write" => proc'[r].key \in Keys
    <2> SUFFICES ASSUME NEW r \in Procs
                 PROVE  /\ proc'[r].pc = "checked" => proc'[r].seen = proc'[r].base
                        /\ proc'[r].pc = "write" => proc'[r].key \in Keys
      OBVIOUS
    <2>1. CASE r = p
      BY <1>2, <2>1 DEF Kept
    <2>2. CASE r # p
      BY <1>2, <1>c, <2>2
    <2> QED
      BY <2>1, <2>2
  <1>5. CopiesTrue'
    BY <1>2 DEF Kept, StoresInv, CopiesTrue, Procs
  <1> QED
    BY <1>3, <1>4, <1>5

\* What the secret steps, the popups and the failures have in common.
LEMMA PrivateStep ==
    ASSUME StoresInv, NEW p \in Procs, NEW q, Kept(p, q),
           proc' = [proc EXCEPT ![p] = q],
           config' \in Paths, vault' \subseteq Keys, used' \subseteq Hosts,
           {calls', popups'} \subseteq Nat, twins' \subseteq used',
           UNCHANGED <<files, table, lost, stripped>>
    PROVE  StoresInv'
  <1>1. /\ proc' \in [Procs -> Processes]
        /\ \A r \in Procs : /\ proc'[r].pc = "checked" => proc'[r].seen = proc'[r].base
                            /\ proc'[r].pc = "write" => proc'[r].key \in Keys
        /\ CopiesTrue'
    BY OneProcess
  <1>2. StoresTypeOK'
    BY <1>1 DEF StoresInv, StoresTypeOK, At
  <1>3. EditsSurvive'
    BY DEF StoresInv, EditsSurvive
  <1> QED
    BY <1>1, <1>2, <1>3 DEF StoresInv

\* A process that stops, and one whose copy is as it was.
LEMMA KeptOff == ASSUME NEW p \in Procs PROVE Kept(p, Off)
  BY OffType DEF Kept, Off

LEMMA KeptSame ==
    ASSUME StoresInv, NEW p \in Procs, NEW q \in Processes,
           q.mem = proc[p].mem, q.view = proc[p].view, q.forgets = proc[p].forgets,
           q.pc \notin {"loaded", "checked"}, q.pc = "write" => q.key \in Keys
    PROVE  Kept(p, q)
  BY DEF Kept, StoresInv, CopiesTrue, Procs

LEMMA KeptAfterSecret ==
    ASSUME StoresInv, NEW p \in Procs, NEW q \in Processes,
           q.mem = proc[p].mem, q.view = proc[p].view, q.forgets = proc[p].forgets
    PROVE  Kept(p, AfterSecret(p, q)) /\ Kept(p, AfterFailure(p, q))
  <1>0. AfterSecret(p, q) \in Processes /\ AfterFailure(p, q) \in Processes
    BY AfterSecretType, AfterFailureType
  <1>1. Kept(p, AfterSecret(p, q))
    <2>1. CASE AfterSecret(p, q) = Off
      BY <2>1, KeptOff
    <2>2. CASE AfterSecret(p, q) # Off
      <3>1. AfterSecret(p, q) = [q EXCEPT !.pc = NextPhase(q), !.key = None, !.map = {}]
        BY <2>2 DEF AfterSecret
      <3>2. /\ AfterSecret(p, q).mem = q.mem /\ AfterSecret(p, q).view = q.view
            /\ AfterSecret(p, q).forgets = q.forgets
            /\ AfterSecret(p, q).pc \notin {"loaded", "checked", "write"}
        BY <3>1 DEF Processes, NextPhase
      <3> QED
        BY <1>0, <3>2, KeptSame
    <2> QED
      BY <2>1, <2>2
  <1>2. Kept(p, AfterFailure(p, q))
    <2>1. CASE p \in Calls
      BY <2>1, KeptOff DEF AfterFailure
    <2>2. CASE p \notin Calls /\ q.job.must
      <3> DEFINE r == AfterFailure(p, q)
      <3>1. r = [q EXCEPT !.pc = "open", !.edit = NoChange, !.job = NoJob,
                          !.key = None, !.map = {}]
        BY <2>2 DEF AfterFailure
      <3>2. /\ r.mem = q.mem /\ r.view = q.view /\ r.forgets = q.forgets
            /\ r.pc \notin {"loaded", "checked", "write"}
        BY <3>1 DEF Processes
      <3> QED
        BY <1>0, <3>2, KeptSame
    <2>3. CASE p \notin Calls /\ ~q.job.must
      BY <2>3, <1>1 DEF AfterFailure
    <2> QED
      BY <2>1, <2>2, <2>3
  <1> QED
    BY <1>1, <1>2
-----------------------------------------------------------------------------
(* Each step keeps the invariant.                                          *)

LEMMA InitStores == Init => StoresInv
  <1> SUFFICES ASSUME Init PROVE StoresInv
    OBVIOUS
  <1>1. files \in [Paths -> Files]
    BY StoresAssumption DEF Init, Files
  <1>2. used \subseteq Hosts
    <2>1. \A p \in Paths : Listed(Read(files[p])) \subseteq Hosts
      BY <1>1, ReadType, ContentFacts
    <2> QED
      BY <2>1 DEF Init
  <1>3. proc \in [Procs -> Processes]
    BY OffType DEF Init
  <1>p. \A p \in Procs : proc[p].pc = "off"
    BY DEF Init, Off
  <1>4. StoresTypeOK
    BY <1>1, <1>2, <1>3, <1>p, StoresAssumption DEF Init, StoresTypeOK, At
  <1>5. CopiesTrue
    BY DEF Init, CopiesTrue, Off, Procs
  <1> QED
    BY <1>4, <1>5 DEF StoresInv, EditsSurvive, Init

LEMMA VaultSteps ==
    ASSUME StoresInv, NEW p \in Procs, ReadVault(p) \/ WriteVault(p) \/ VaultFails(p)
    PROVE  StoresInv'
  <1>0. proc[p] \in Processes
    BY DEF StoresInv, StoresTypeOK
  <1>t. config \in Paths /\ vault \subseteq Keys /\ used \subseteq Hosts
        /\ {calls, popups} \subseteq Nat /\ twins \subseteq used
    BY DEF StoresInv, StoresTypeOK
  <1>k. \A k : [proc[p] EXCEPT !.job.keys = @ \ {k}] \in Processes
    BY <1>0 DEF Processes, Jobs
  <1>m. \A k : LET q == [proc[p] EXCEPT !.job.keys = @ \ {k}]
               IN  q.mem = proc[p].mem /\ q.view = proc[p].view /\ q.forgets = proc[p].forgets
    BY <1>0 DEF Processes
  <1>1. CASE ReadVault(p)
    <2>1. PICK k \in proc[p].job.keys :
             LET q == [proc[p] EXCEPT !.job.keys = @ \ {k}]
             IN  proc' = [proc EXCEPT ![p] =
                    IF NothingToDo(q, k) THEN AfterSecret(p, q)
                    ELSE [q EXCEPT !.pc = "write", !.key = k, !.map = vault]]
      BY <1>1 DEF ReadVault
    <2> DEFINE q == [proc[p] EXCEPT !.job.keys = @ \ {k}]
               r == [q EXCEPT !.pc = "write", !.key = k, !.map = vault]
    <2>2. q \in Processes /\ q.mem = proc[p].mem /\ q.view = proc[p].view
          /\ q.forgets = proc[p].forgets
      BY <1>k, <1>m
    <2>3. k \in Keys
      BY <1>0 DEF Processes, Jobs
    <2> HIDE DEF q
    <2>4. r \in Processes /\ r.mem = q.mem /\ r.view = q.view /\ r.forgets = q.forgets
          /\ r.pc = "write" /\ r.key \in Keys
      BY <2>2, <2>3, <1>t DEF Processes
    <2>5. Kept(p, r)
      BY <2>2, <2>4, KeptSame
    <2>6. Kept(p, AfterSecret(p, q))
      BY <2>2, KeptAfterSecret
    <2>7. CASE proc' = [proc EXCEPT ![p] = r]
      BY <2>5, <2>7, <1>1, <1>t, PrivateStep DEF ReadVault, Secrets
    <2>8. CASE proc' = [proc EXCEPT ![p] = AfterSecret(p, q)]
      BY <2>6, <2>8, <1>1, <1>t, PrivateStep DEF ReadVault, Secrets
    <2> QED
      BY <2>1, <2>7, <2>8 DEF q
  <1>2. CASE WriteVault(p)
    <2>1. Kept(p, AfterSecret(p, proc[p]))
      BY <1>0, KeptAfterSecret
    <2>2. proc[p].key \in Keys
      BY <1>2 DEF WriteVault, Secrets, StoresInv, StoresTypeOK, At
    <2>3. vault' \subseteq Keys
      BY <1>0, <1>2, <2>2 DEF WriteVault, Processes
    <2> QED
      BY <2>1, <2>3, <1>2, <1>t, PrivateStep DEF WriteVault, Secrets
  <1>3. CASE VaultFails(p)
    <2>1. CASE proc' = [proc EXCEPT ![p] = AfterFailure(p, proc[p])]
      <3>1. Kept(p, AfterFailure(p, proc[p]))
        BY <1>0, KeptAfterSecret
      <3> QED
        BY <2>1, <3>1, <1>3, <1>t, PrivateStep DEF VaultFails, Secrets
    <2>2. ASSUME NEW k \in proc[p].job.keys,
                 proc' = [proc EXCEPT ![p] =
                             AfterFailure(p, [proc[p] EXCEPT !.job.keys = @ \ {k}])]
          PROVE  StoresInv'
      <3>1. Kept(p, AfterFailure(p, [proc[p] EXCEPT !.job.keys = @ \ {k}]))
        BY <1>k, <1>m, KeptAfterSecret
      <3> QED
        BY <2>2, <3>1, <1>3, <1>t, PrivateStep DEF VaultFails, Secrets
    <2> QED
      BY <1>3, <2>1, <2>2 DEF VaultFails
  <1> QED
    BY <1>1, <1>2, <1>3

\* What a process that has just read its file holds.
LEMMA LoadedFacts ==
    ASSUME StoresInv, NEW now \in {"loaded", "open"}, NEW e \in Edits, NEW j \in Jobs
    PROVE  LET q == [Loaded(now) EXCEPT !.edit = e, !.job = j]
           IN  /\ q \in Processes
               /\ q.mem = Read(q.base) /\ q.view = q.mem /\ q.pc = now
  <1>1. Loaded(now) \in Processes
    BY LoadedType DEF StoresInv
  <1>2. /\ Loaded(now).mem = Read(Loaded(now).base)
        /\ Loaded(now).view = Loaded(now).mem
        /\ Loaded(now).pc = now
    BY OffType DEF Loaded, Processes
  <1> QED
    BY <1>1, <1>2 DEF Processes

LEMMA LaunchStep ==
    ASSUME StoresInv, NEW p \in Calls, NEW e \in Edits, NEW j \in Jobs, Launch(p, e, j),
           used' \subseteq Hosts, used \subseteq used'
    PROVE  StoresInv'
  <1> DEFINE q == [Loaded("loaded") EXCEPT !.edit = e, !.job = j]
  <1>1. q \in Processes /\ q.mem = Read(q.base) /\ q.view = q.mem /\ q.pc = "loaded"
    BY LoadedFacts
  <1>2. proc' = [proc EXCEPT ![p] = q]
    BY DEF Launch
  <1> HIDE DEF q
  <1>3. Kept(p, q) /\ p \in Procs
    BY <1>1 DEF Kept, Procs
  <1>4. /\ config' \in Paths /\ vault' \subseteq Keys
        /\ {calls', popups'} \subseteq Nat /\ twins' \subseteq used'
        /\ UNCHANGED <<files, table, lost, stripped>>
    BY DEF Launch, Begins, StoresInv, StoresTypeOK
  <1> QED
    BY <1>2, <1>3, <1>4, PrivateStep

LEMMA CallsBegin ==
    ASSUME StoresInv, NEW p \in Calls,
           \/ SaveNewHost(p) \/ ApplyImport(p) \/ CredentialsAdd(p)
           \/ CredentialsRm(p) \/ CredentialsBind(p) \/ SitesAdd(p)
    PROVE  StoresInv'
  <1>0. used \subseteq Hosts /\ Disk \in Contents
    BY ReadIsContents DEF StoresInv, StoresTypeOK, Disk
  <1>1. CASE SaveNewHost(p)
    <2>1. PICK h \in Hosts \ used, r \in HostRecords, secret \in BOOLEAN :
             /\ Launch(p, [op |-> "host", host |-> h, record |-> r],
                       Store(IfAny(secret, {IF r.cred = None THEN h ELSE r.cred}), FALSE, FALSE))
             /\ used' = used \cup {h}
      BY <1>1 DEF SaveNewHost
    <2>2. IfAny(secret, {IF r.cred = None THEN h ELSE r.cred}) \in SUBSET Keys
      BY DEF IfAny, Keys, HostRecords
    <2>3. Store(IfAny(secret, {IF r.cred = None THEN h ELSE r.cred}), FALSE, FALSE) \in Jobs
      BY <2>2, JobTypes
    <2>4. [op |-> "host", host |-> h, record |-> r] \in Edits
      BY DEF Edits, Changes
    <2> QED
      BY <1>0, <2>1, <2>3, <2>4, LaunchStep
  <1>2. CASE ApplyImport(p)
    <2>1. PICK H \in SUBSET (Hosts \ used), s \in SiteArgs :
             /\ Launch(p, [op |-> "import", hosts |-> H, site |-> s], NoJob)
             /\ used' = used \cup H
      BY <1>2 DEF ApplyImport
    <2>2. [op |-> "import", hosts |-> H, site |-> s] \in Edits
      BY StoresAssumption DEF Edits, Changes
    <2> QED
      BY <1>0, <2>1, <2>2, JobTypes, LaunchStep
  <1>3. CASE CredentialsAdd(p)
    <2>1. PICK c \in Creds, secret \in BOOLEAN :
             Launch(p, [op |-> "declare", cred |-> c], Store(IfAny(secret, {c}), FALSE, FALSE))
      BY <1>3 DEF CredentialsAdd
    <2>2. IfAny(secret, {c}) \in SUBSET Keys
      BY DEF IfAny, Keys
    <2>3. [op |-> "declare", cred |-> c] \in Edits
      BY DEF Edits, Changes
    <2> QED
      BY <1>0, <1>3, <2>1, <2>2, <2>3, JobTypes, LaunchStep DEF CredentialsAdd
  <1>4. CASE CredentialsRm(p)
    <2>1. PICK c \in Creds : Launch(p, [op |-> "remove", cred |-> c], Delete({c}))
      BY <1>4 DEF CredentialsRm
    <2>2. {c} \in SUBSET Keys /\ [op |-> "remove", cred |-> c] \in Edits
      BY DEF Edits, Changes, Keys
    <2> QED
      BY <1>0, <1>4, <2>1, <2>2, JobTypes, LaunchStep DEF CredentialsRm
  <1>5. CASE CredentialsBind(p)
    <2>1. PICK H \in SUBSET Listed(Disk) \ {{}}, c \in Creds \cup {None} :
             Launch(p, [op |-> "bind", hosts |-> H, cred |-> c, declare |-> FALSE], NoJob)
      BY <1>5 DEF CredentialsBind
    <2>2. H \in SUBSET Hosts
      BY <1>0, ContentFacts
    <2>3. [op |-> "bind", hosts |-> H, cred |-> c, declare |-> FALSE] \in Edits
      BY <2>2 DEF Edits, Changes
    <2> QED
      BY <1>0, <1>5, <2>1, <2>3, JobTypes, LaunchStep DEF CredentialsBind
  <1>6. CASE SitesAdd(p)
    <2>1. PICK s \in Sites : Launch(p, [op |-> "site", site |-> s], NoJob)
      BY <1>6 DEF SitesAdd
    <2>2. [op |-> "site", site |-> s] \in Edits
      BY DEF Edits, Changes
    <2> QED
      BY <1>0, <1>6, <2>1, <2>2, JobTypes, LaunchStep DEF SitesAdd
  <1> QED
    BY <1>1, <1>2, <1>3, <1>4, <1>5, <1>6

LEMMA CallsPrivate ==
    ASSUME StoresInv, NEW p \in Calls, SetPassword(p) \/ Check(p) \/ SaveFails(p)
    PROVE  StoresInv'
  <1>t. config \in Paths /\ vault \subseteq Keys /\ used \subseteq Hosts
        /\ {calls, popups} \subseteq Nat /\ twins \subseteq used
    BY DEF StoresInv, StoresTypeOK
  <1>p. p \in Procs /\ proc[p] \in Processes
    BY DEF StoresInv, StoresTypeOK, Procs
  <1>1. CASE SetPassword(p)
    <2>1. PICK k \in {SecretKey(Disk, h) : h \in Listed(Disk)} \cup Creds :
             proc' = [proc EXCEPT ![p] =
                         [Off EXCEPT !.job = Store({k}, FALSE, FALSE), !.pc = "secret"]]
      BY <1>1 DEF SetPassword
    <2>2. Disk \in Contents
      BY ReadIsContents DEF StoresInv, StoresTypeOK, Disk
    <2>3. k \in Keys
      BY <2>2, SecretKeyType DEF Keys
    <2> DEFINE q == [Off EXCEPT !.job = Store({k}, FALSE, FALSE), !.pc = "secret"]
    <2>4. q \in Processes /\ q.pc = "secret" /\ q.view = q.mem
      BY <2>3, OffType, JobTypes DEF Processes, Off
    <2>5. Kept(p, q)
      BY <2>4 DEF Kept
    <2> HIDE DEF q
    <2>6. proc' = [proc EXCEPT ![p] = q]
      BY <2>1 DEF q
    <2>7. /\ UNCHANGED <<config, files, vault, used, popups, twins, table, lost, stripped>>
          /\ calls' = calls + 1
      BY <1>1 DEF SetPassword, Begins
    <2>8. {calls', popups'} \subseteq Nat
      BY <1>t, <2>7
    <2> QED
      BY <1>t, <1>p, <2>5, <2>6, <2>7, <2>8, PrivateStep
  <1>2. CASE Check(p)
    <2> DEFINE q == [proc[p] EXCEPT !.pc = "checked", !.seen = files[proc[p].path]]
    <2>1. CASE Unchanged(proc[p])
      <3>1. files[proc[p].path] = proc[p].base
        BY <2>1 DEF Unchanged
      <3>2. q \in Processes /\ q.pc = "checked" /\ q.seen = q.base
            /\ q.mem = proc[p].mem /\ q.base = proc[p].base
            /\ q.view = proc[p].view /\ q.forgets = proc[p].forgets
        BY <1>p, <3>1 DEF Processes
      <3>3. proc[p].mem = Read(proc[p].base)
        BY <1>2 DEF Check, At, StoresInv, CopiesTrue
      <3> HIDE DEF q
      <3>4. Kept(p, q)
        BY <3>2, <3>3, <1>p DEF Kept, StoresInv, CopiesTrue, Procs
      <3>5. proc' = [proc EXCEPT ![p] = q]
        BY <1>2, <2>1 DEF Check, q
      <3> QED
        BY <1>2, <1>t, <1>p, <3>4, <3>5, PrivateStep DEF Check
    <2>2. CASE ~Unchanged(proc[p])
      <3>1. proc' = [proc EXCEPT ![p] = Off]
        BY <1>2, <2>2 DEF Check
      <3> QED
        BY <1>2, <1>t, <1>p, <3>1, KeptOff, PrivateStep DEF Check
    <2> QED
      BY <2>1, <2>2
  <1>3. CASE SaveFails(p)
    BY <1>3, <1>t, <1>p, KeptOff, PrivateStep DEF SaveFails
  <1> QED
    BY <1>1, <1>2, <1>3

\* A call that saves over what it had seen appends its edit to the file as it
\* had read it, which is the file; over anything else, the file is lost.
LEMMA SaveStep ==
    ASSUME StoresInv, NEW p \in Calls, Save(p)
    PROVE  StoresInv'
  <1> DEFINE q == proc[p]
             r == IF q.job.keys = {} THEN Off
                  ELSE [Off EXCEPT !.pc = "secret", !.edit = q.edit, !.job = q.job]
  <1>p. p \in Procs /\ q \in Processes
    BY DEF StoresInv, StoresTypeOK, Procs
  <1>t. /\ files \in [Paths -> Files] /\ table \in [Paths -> Files]
        /\ q.path \in Paths /\ q.edit \in Edits /\ q.mem \in Contents
    BY <1>p DEF Processes, StoresInv, StoresTypeOK
  <1>s. q.seen = q.base /\ q.mem = Read(q.base)
    BY <1>p DEF Save, At, StoresInv, StoresTypeOK, CopiesTrue
  <1>1. r \in Processes /\ r.pc \in {"off", "secret"} /\ r.view = r.mem
    BY <1>p, OffType DEF Processes, Off
  <1>2. Kept(p, r)
    BY <1>1 DEF Kept
  <1>3. proc' = [proc EXCEPT ![p] = r]
    BY DEF Save
  <1>4. /\ files' = [files EXCEPT ![q.path] = Apply(q.edit, q.mem)]
        /\ table' = [table EXCEPT ![q.path] = Apply(q.edit, Read(table[q.path]))]
        /\ lost' = IF files[q.path] = q.seen THEN lost ELSE lost \cup {q.path}
        /\ UNCHANGED <<config, vault, used, calls, popups, twins, stripped>>
    BY DEF Save
  <1> HIDE DEF q, r
  <1>5. /\ proc' \in [Procs -> Processes]
        /\ \A o \in Procs : /\ proc'[o].pc = "checked" => proc'[o].seen = proc'[o].base
                            /\ proc'[o].pc = "write" => proc'[o].key \in Keys
        /\ CopiesTrue'
    BY <1>2, <1>3, <1>p, OneProcess
  <1>6. Apply(q.edit, q.mem) \in Files /\ Apply(q.edit, Read(table[q.path])) \in Files
    BY <1>t, ReadType, ApplyType DEF Files
  <1>7. files' \in [Paths -> Files] /\ table' \in [Paths -> Files] /\ lost' \subseteq Paths
    BY <1>t, <1>4, <1>6 DEF StoresInv, StoresTypeOK
  <1>8. StoresTypeOK'
    BY <1>4, <1>5, <1>7 DEF StoresInv, StoresTypeOK, At
  <1>9. EditsSurvive'
    <2> SUFFICES ASSUME NEW f \in Paths, f \notin lost' \cup stripped'
                 PROVE  files'[f] = table'[f]
      BY DEF EditsSurvive
    <2>1. files[f] = table[f]
      BY <1>4 DEF StoresInv, EditsSurvive
    <2>2. CASE f = q.path
      <3>1. files[f] = q.base
        BY <1>4, <1>s, <2>2 DEF q
      <3>2. q.mem = Read(table[f])
        BY <1>s, <2>1, <3>1 DEF q
      <3> QED
        BY <1>4, <1>t, <2>2, <3>2
    <2>3. CASE f # q.path
      BY <1>4, <1>t, <2>1, <2>3
    <2> QED
      BY <2>2, <2>3
  <1> QED
    BY <1>5, <1>8, <1>9 DEF StoresInv

\* The sites manager, whatever the user does in it.
Managers ==
    [sites : SUBSET Sites, renames : Seq(Sites \X Sites), deleted : SUBSET Sites,
     reused : BOOLEAN, follow : [Sites \cup {None} -> Sites \cup {None}]]

LEMMA NamedType ==
    ASSUME NEW m \in Managers, NEW s \in Sites
    PROVE  Named(m, s) \in Managers
  BY DEF Named, Managers

LEMMA ManagedType ==
    ASSUME NEW m \in Managers, NEW n \in Managed(m)
    PROVE  n \in Managers
  <1>1. CASE n \in Added(m)
    BY <1>1, NamedType DEF Added
  <1>2. CASE n \in Deleted(m)
    <2>1. PICK s \in m.sites :
             n = [m EXCEPT !.sites = m.sites \ {s}, !.deleted = m.deleted \cup {s},
                           !.follow = [k \in DOMAIN m.follow |->
                                          IF m.follow[k] = s THEN None ELSE m.follow[k]]]
      BY <1>2 DEF Deleted
    <2>2. [k \in DOMAIN m.follow |-> IF m.follow[k] = s THEN None ELSE m.follow[k]]
             \in [Sites \cup {None} -> Sites \cup {None}]
      BY DEF Managers
    <2> QED
      BY <2>1, <2>2 DEF Managers
  <1>3. CASE n \in Renamed(m)
    <2>1. PICK r \in m.sites \X (Sites \ m.sites) :
             n = [Named([m EXCEPT !.sites = m.sites \ {r[1]}], r[2]) EXCEPT
                     !.renames = Append(@, r),
                     !.follow = [k \in DOMAIN @ |-> IF @[k] = r[1] THEN r[2] ELSE @[k]]]
      BY <1>3 DEF Renamed
    <2> DEFINE o == Named([m EXCEPT !.sites = m.sites \ {r[1]}], r[2])
    <2>2. r \in Sites \X Sites /\ r[2] \in Sites
      BY <2>1 DEF Managers
    <2>3. [m EXCEPT !.sites = m.sites \ {r[1]}] \in Managers
      BY DEF Managers
    <2>4. o \in Managers
      BY <2>2, <2>3, NamedType
    <2> HIDE DEF o
    <2>5. n = [o EXCEPT !.renames = Append(o.renames, r),
                        !.follow = [k \in DOMAIN o.follow |->
                                       IF o.follow[k] = r[1] THEN r[2] ELSE o.follow[k]]]
      BY <2>1 DEF o
    <2>6. Append(o.renames, r) \in Seq(Sites \X Sites)
      BY <2>2, <2>4 DEF Managers
    <2>7. [k \in DOMAIN o.follow |-> IF o.follow[k] = r[1] THEN r[2] ELSE o.follow[k]]
             \in [Sites \cup {None} -> Sites \cup {None}]
      BY <2>2, <2>4 DEF Managers
    <2> HIDE <2>1
    <2> QED
      BY <2>4, <2>5, <2>6, <2>7 DEF Managers
  <1> QED
    BY <1>1, <1>2, <1>3 DEF Managed

LEMMA SessionsType ==
    ASSUME NEW S \in SUBSET Sites, NEW m \in Sessions(S)
    PROVE  m.sites \in SUBSET Sites /\ m.renames \in Seq(Sites \X Sites)
  <1>1. OpenManager(S) \in Managers
    BY DEF OpenManager, Managers
  <1>2. Managed(OpenManager(S)) \subseteq Managers
    BY <1>1, ManagedType
  <1>3. m \in Managers
    BY <1>2, ManagedType DEF Sessions
  <1> QED
    BY <1>3 DEF Managers

\* A popup leaves the screen's copy alone until it saves.
LEMMA ConfirmStep ==
    ASSUME StoresInv, NEW t \in Screens, NEW e \in Edits, NEW j \in Jobs, Confirm(t, e, j),
           used' \subseteq Hosts, twins' \subseteq used'
    PROVE  StoresInv'
  <1> DEFINE q == [proc[t] EXCEPT !.edit = e, !.job = j,
                       !.pc = IF j.keys # {} THEN "secret" ELSE "save"]
  <1>1. t \in Procs /\ proc[t] \in Processes
    BY DEF StoresInv, StoresTypeOK, Procs
  <1>2. /\ q \in Processes /\ q.pc \in {"secret", "save"} /\ q.mem = proc[t].mem
        /\ q.view = proc[t].view /\ q.forgets = proc[t].forgets
    BY <1>1 DEF Processes
  <1>3. proc' = [proc EXCEPT ![t] = q]
    BY DEF Confirm
  <1> HIDE DEF q
  <1>4. Kept(t, q)
    BY <1>1, <1>2, KeptSame
  <1>5. /\ UNCHANGED <<config, files, vault, calls, table, lost, stripped>>
        /\ popups' = popups + 1
    BY DEF Confirm, Confirms
  <1>6. config' \in Paths /\ vault' \subseteq Keys /\ {calls', popups'} \subseteq Nat
    BY <1>5 DEF StoresInv, StoresTypeOK
  <1> QED
    BY <1>1, <1>3, <1>4, <1>5, <1>6, PrivateStep

LEMMA PopupSteps ==
    ASSUME StoresInv, NEW t \in Screens, Popup(t)
    PROVE  StoresInv'
  <1> DEFINE x == Memory(t)
  <1>0. /\ x \in Contents /\ Listed(x) \subseteq Hosts /\ x.sites \subseteq Sites
        /\ used \subseteq Hosts /\ twins \subseteq used
    BY ContentFacts DEF StoresInv, StoresTypeOK, Processes, Procs, Memory
  <1> HIDE DEF x
  <1>1. \A h, s, secret : h \in Hosts /\ s \in Sites \cup {None} =>
           /\ [op |-> "host", host |-> h, record |-> FormRecord(s)] \in Edits
           /\ Store(IfAny(secret, {h}), FALSE, FALSE) \in Jobs
    <2> TAKE h, s, secret
    <2> HAVE h \in Hosts /\ s \in Sites \cup {None}
    <2>1. FormRecord(s) \in HostRecords
      BY DEF FormRecord, HostRecords
    <2>2. IfAny(secret, {h}) \in SUBSET Keys
      BY DEF IfAny, Keys
    <2> QED
      BY <2>1, <2>2, JobTypes DEF Edits, Changes
  <1>2. CASE AddHost(t)
    <2>1. PICK h \in Hosts \ used, s \in x.sites \cup {None}, secret \in BOOLEAN :
             /\ SaveForm(t, h, s, secret)
             /\ used' = used \cup {h}
             /\ twins' = IF NameTaken(Memory(t), h) THEN twins \cup {h} ELSE twins
      BY <1>2 DEF AddHost, x
    <2> QED
      BY <1>0, <1>1, <2>1, ConfirmStep DEF SaveForm
  <1>3. CASE EditHost(t)
    <2>1. PICK h \in Listed(x), s \in x.sites \cup {None}, secret \in BOOLEAN :
             /\ SaveForm(t, h, s, secret)
             /\ UNCHANGED <<used, twins>>
      BY <1>3 DEF EditHost, x
    <2> QED
      BY <1>0, <1>1, <2>1, ConfirmStep DEF SaveForm
  <1>4. CASE DeleteHost(t)
    <2>1. PICK h \in Listed(x) :
             /\ Confirm(t, [op |-> "delete", host |-> h], Delete(OwnSecret(x, h)))
             /\ UNCHANGED <<used, twins>>
      BY <1>4 DEF DeleteHost, x
    <2>2. OwnSecret(x, h) \in SUBSET Keys
      BY DEF OwnSecret, Keys
    <2>3. [op |-> "delete", host |-> h] \in Edits
      BY <1>0 DEF Edits, Changes
    <2> QED
      BY <1>0, <2>1, <2>2, <2>3, JobTypes, ConfirmStep
  <1>5. CASE BulkEach(t)
    <2>1. PICK H \in SUBSET Listed(x), keep \in BOOLEAN :
             /\ Confirm(t, NoChange, Store({SecretKey(x, h) : h \in H}, keep, FALSE))
             /\ UNCHANGED <<used, twins>>
      BY <1>5 DEF BulkEach, x
    <2>2. {SecretKey(x, h) : h \in H} \in SUBSET Keys
      BY <1>0, SecretKeyType
    <2> QED
      BY <1>0, <2>1, <2>2, JobTypes, NoChangeIsEdit, ConfirmStep
  <1>6. CASE BulkShared(t)
    <2>1. PICK H \in SUBSET Listed(x), c \in Creds, secret \in BOOLEAN, keep \in BOOLEAN :
             /\ Confirm(t, [op |-> "bind", hosts |-> H, cred |-> c, declare |-> TRUE],
                        Store(IfAny(secret, {c}), keep, TRUE))
             /\ UNCHANGED <<used, twins>>
      BY <1>6 DEF BulkShared, x
    <2>2. IfAny(secret, {c}) \in SUBSET Keys
      BY DEF IfAny, Keys
    <2>3. [op |-> "bind", hosts |-> H, cred |-> c, declare |-> TRUE] \in Edits
      BY <1>0 DEF Edits, Changes
    <2> QED
      BY <1>0, <2>1, <2>2, <2>3, JobTypes, ConfirmStep
  <1>7. CASE BulkUnbind(t)
    <2>1. PICK H \in SUBSET Listed(x) :
             /\ Confirm(t, [op |-> "bind", hosts |-> H, cred |-> None, declare |-> FALSE], NoJob)
             /\ UNCHANGED <<used, twins>>
      BY <1>7 DEF BulkUnbind, x
    <2>2. [op |-> "bind", hosts |-> H, cred |-> None, declare |-> FALSE] \in Edits
      BY <1>0 DEF Edits, Changes
    <2> QED
      BY <1>0, <2>1, <2>2, JobTypes, ConfirmStep
  <1>8. CASE SaveManager(t)
    <2>1. PICK m \in Sessions(x.sites) :
             /\ Confirm(t, [op |-> "sites", sites |-> m.sites, renames |-> m.renames], NoJob)
             /\ UNCHANGED <<used, twins>>
      BY <1>8 DEF SaveManager, x
    <2>2. m.sites \in SUBSET Sites /\ m.renames \in Seq(Sites \X Sites)
      BY <1>0, SessionsType
    <2>3. [op |-> "sites", sites |-> m.sites, renames |-> m.renames] \in Edits
      BY <2>2 DEF Edits, Changes
    <2> QED
      BY <1>0, <2>1, <2>3, JobTypes, ConfirmStep
  <1>9. CASE ImportSshConfig(t)
    <2>1. PICK H \in SUBSET (Hosts \ used) :
             /\ Confirm(t, [op |-> "import", hosts |-> H, site |-> None], NoJob)
             /\ used' = used \cup H
             /\ UNCHANGED twins
      BY <1>9 DEF ImportSshConfig
    <2>2. [op |-> "import", hosts |-> H, site |-> None] \in Edits
      BY DEF Edits, Changes
    <2> QED
      BY <1>0, <2>1, <2>2, JobTypes, ConfirmStep
  <1> QED
    BY <1>2, <1>3, <1>4, <1>5, <1>6, <1>7, <1>8, <1>9 DEF Popup

\* A screen that writes what its user takes it to hold loses no edit of its
\* own; what it did not know of is lost, and noted.
LEMMA OverwriteStep ==
    ASSUME StoresInv, NEW t \in Screens, NEW f \in Paths, NEW content \in Contents,
           NEW meant \in Contents, NEW known, Overwrite(t, f, content, meant, known),
           ~proc[t].forgets => meant = content,
           NEW r, Kept(t, r), proc' = [proc EXCEPT ![t] = r]
    PROVE  StoresInv'
  <1>1. /\ files' = [files EXCEPT ![f] = content]
        /\ table' = [table EXCEPT ![f] = meant]
        /\ lost' \in {lost, lost \cup {f}}
        /\ stripped' = IF proc[t].forgets THEN stripped \cup {f} ELSE stripped
        /\ UNCHANGED <<config, vault, used, calls, popups, twins>>
    BY DEF Overwrite
  <1>2. /\ files \in [Paths -> Files] /\ table \in [Paths -> Files]
        /\ lost \subseteq Paths /\ stripped \subseteq Paths /\ t \in Procs
    BY DEF StoresInv, StoresTypeOK, Procs
  <1>3. /\ proc' \in [Procs -> Processes]
        /\ \A o \in Procs : /\ proc'[o].pc = "checked" => proc'[o].seen = proc'[o].base
                            /\ proc'[o].pc = "write" => proc'[o].key \in Keys
        /\ CopiesTrue'
    BY <1>2, OneProcess
  <1>4. /\ files' \in [Paths -> Files] /\ table' \in [Paths -> Files]
        /\ lost' \subseteq Paths /\ stripped' \subseteq Paths
    BY <1>1, <1>2 DEF Files
  <1>5. StoresTypeOK'
    BY <1>1, <1>3, <1>4 DEF StoresInv, StoresTypeOK, At
  <1>6. EditsSurvive'
    <2> SUFFICES ASSUME NEW p \in Paths, p \notin lost' \cup stripped'
                 PROVE  files'[p] = table'[p]
      BY DEF EditsSurvive
    <2>1. CASE p = f
      BY <1>1, <1>2, <2>1
    <2>2. CASE p # f
      BY <1>1, <1>2, <2>2 DEF StoresInv, EditsSurvive
    <2> QED
      BY <2>1, <2>2
  <1> QED
    BY <1>3, <1>5, <1>6 DEF StoresInv

LEMMA ScreenSaves ==
    ASSUME StoresInv, NEW t \in Screens,
           PersistHosts(t) \/ PersistFails(t) \/ MoveHosts(t) \/ MoveFails(t)
    PROVE  StoresInv'
  <1>p. t \in Procs /\ proc[t] \in Processes
    BY DEF StoresInv, StoresTypeOK, Procs
  <1>t. config \in Paths /\ vault \subseteq Keys /\ used \subseteq Hosts
        /\ {calls, popups} \subseteq Nat /\ twins \subseteq used
    BY DEF StoresInv, StoresTypeOK
  <1>v. ~proc[t].forgets => proc[t].view = proc[t].mem
    BY DEF StoresInv, CopiesTrue
  <1> DEFINE q == Edited(proc[t])
  <1>e. /\ q \in Processes /\ q.pc = "open" /\ q.forgets = proc[t].forgets
        /\ ~q.forgets => q.view = q.mem
    BY <1>p, <1>v, EditedType DEF Edited, Processes
  <1>1. CASE PersistHosts(t)
    <2> DEFINE r == [q EXCEPT !.base = q.mem]
    <2>1. proc' = [proc EXCEPT ![t] = r] /\ Overwrite(t, q.path, q.mem, q.view, q.base)
      BY <1>1 DEF PersistHosts
    <2> HIDE DEF q
    <2>2. q.path \in Paths /\ q.mem \in Contents /\ q.view \in Contents
      BY <1>e DEF Processes
    <2>3. /\ r \in Processes /\ r.pc = "open" /\ r.forgets = q.forgets
          /\ r.mem = q.mem /\ r.view = q.view
      BY <1>e DEF Processes, Files
    <2> HIDE DEF r
    <2>4. Kept(t, r)
      BY <1>e, <2>3 DEF Kept
    <2> QED
      BY <1>e, <2>1, <2>2, <2>4, OverwriteStep
  <1>2. CASE PersistFails(t)
    <2>1. proc' = [proc EXCEPT ![t] = q]
      BY <1>2 DEF PersistFails
    <2> HIDE DEF q
    <2>2. Kept(t, q)
      BY <1>e DEF Kept
    <2> QED
      BY <1>2, <1>p, <1>t, <2>1, <2>2, PrivateStep DEF PersistFails
  <1>3. CASE MoveHosts(t)
    <2> DEFINE o == proc[t]
               r == [o EXCEPT !.path = o.target, !.base = o.mem, !.target = DefaultPath,
                              !.pc = "settings"]
    <2>1. proc' = [proc EXCEPT ![t] = r] /\ Overwrite(t, o.target, o.mem, o.view, None)
      BY <1>3 DEF MoveHosts
    <2>2. o.target \in Paths /\ o.mem \in Contents /\ o.view \in Contents
      BY <1>p DEF Processes
    <2>3. /\ r \in Processes /\ r.pc = "settings" /\ r.forgets = o.forgets
          /\ r.mem = o.mem /\ r.view = o.view
      BY <1>p, StoresAssumption DEF Processes, Files
    <2> HIDE DEF r
    <2>4. Kept(t, r)
      BY <1>p, <2>3, KeptSame
    <2> QED
      BY <1>v, <2>1, <2>2, <2>4, OverwriteStep
  <1>4. CASE MoveFails(t)
    <2> DEFINE r == [proc[t] EXCEPT !.target = DefaultPath, !.pc = "open"]
    <2>1. proc' = [proc EXCEPT ![t] = r]
      BY <1>4 DEF MoveFails
    <2>2. /\ r \in Processes /\ r.pc = "open" /\ r.forgets = proc[t].forgets
          /\ r.mem = proc[t].mem /\ r.view = proc[t].view
      BY <1>p, StoresAssumption DEF Processes
    <2> HIDE DEF r
    <2>3. Kept(t, r)
      BY <1>p, <2>2, KeptSame
    <2> QED
      BY <1>4, <1>p, <1>t, <2>1, <2>3, PrivateStep DEF MoveFails
  <1> QED
    BY <1>1, <1>2, <1>3, <1>4

LEMMA ScreenPrivate ==
    ASSUME StoresInv, NEW t \in Screens,
           OpenScreen(t) \/ KeepPath(t) \/ Adopt(t) \/ Move(t) \/ SaveConfig(t)
    PROVE  StoresInv'
  <1>p. t \in Procs /\ proc[t] \in Processes
    BY DEF StoresInv, StoresTypeOK, Procs
  <1>t. config \in Paths /\ vault \subseteq Keys /\ used \subseteq Hosts
        /\ {calls, popups} \subseteq Nat /\ twins \subseteq used
        /\ files \in [Paths -> Files]
    BY DEF StoresInv, StoresTypeOK
  <1>1. CASE OpenScreen(t)
    <2>1. proc' = [proc EXCEPT ![t] = Loaded("open")]
      BY <1>1 DEF OpenScreen
    <2>2. Loaded("open") \in Processes
      BY LoadedType DEF StoresInv
    <2>3. Loaded("open").pc = "open" /\ Loaded("open").view = Loaded("open").mem
      BY OffType DEF Loaded, Processes
    <2>4. Kept(t, Loaded("open"))
      BY <2>2, <2>3 DEF Kept
    <2> QED
      BY <1>1, <1>p, <1>t, <2>1, <2>4, PrivateStep DEF OpenScreen
  <1>2. CASE Adopt(t)
    <2>1. PICK f \in Paths \ {proc[t].path} :
             /\ files[f] # None
             /\ Confirms(t)
             /\ proc' = [proc EXCEPT ![t] =
                   [proc[t] EXCEPT !.mem = [files[f] EXCEPT !.creds = proc[t].mem.creds],
                        !.view = files[f], !.base = files[f], !.path = f, !.pc = "settings",
                        !.forgets = files[f].creds # proc[t].mem.creds]]
             /\ UNCHANGED <<used, twins>>
      BY <1>2 DEF Adopt
    <2> DEFINE x == files[f]
               m == [x EXCEPT !.creds = proc[t].mem.creds]
               r == [proc[t] EXCEPT !.mem = m, !.view = x, !.base = x, !.path = f,
                        !.pc = "settings", !.forgets = x.creds # proc[t].mem.creds]
    <2>2. x \in Contents
      BY <1>t, <2>1 DEF Files
    <2>3. proc[t].mem \in Contents /\ proc[t].mem.creds \in SUBSET Creds
      BY <1>p, ContentFacts DEF Processes
    <2>4. m \in Contents /\ (x.creds = proc[t].mem.creds => m = x)
      BY <2>2, <2>3 DEF Contents
    <2>5. proc' = [proc EXCEPT ![t] = r]
      BY <2>1
    <2> HIDE DEF x, m
    <2>6. /\ r \in Processes /\ r.pc = "settings" /\ r.view = x /\ r.mem = m
          /\ r.forgets <=> x.creds # proc[t].mem.creds
      BY <1>p, <2>2, <2>4 DEF Processes, Files
    <2> HIDE DEF r
    <2>7. Kept(t, r)
      BY <2>4, <2>6 DEF Kept
    <2>8. /\ UNCHANGED <<config, files, vault, calls, used, twins, table, lost, stripped>>
          /\ popups' = popups + 1
      BY <2>1 DEF Confirms
    <2>9. {calls', popups'} \subseteq Nat
      BY <1>t, <2>8
    <2> QED
      BY <1>p, <1>t, <2>5, <2>7, <2>8, <2>9, PrivateStep
  <1>3. CASE Move(t)
    <2>1. PICK f \in Paths :
             proc' = [proc EXCEPT ![t] = [proc[t] EXCEPT !.target = f, !.pc = "move"]]
      BY <1>3 DEF Move
    <2> DEFINE r == [proc[t] EXCEPT !.target = f, !.pc = "move"]
    <2>2. /\ r \in Processes /\ r.pc = "move" /\ r.forgets = proc[t].forgets
          /\ r.mem = proc[t].mem /\ r.view = proc[t].view
      BY <1>p DEF Processes
    <2>3. proc' = [proc EXCEPT ![t] = r]
      BY <2>1
    <2> HIDE DEF r
    <2>4. Kept(t, r)
      BY <1>p, <2>2, KeptSame
    <2>5. /\ UNCHANGED <<config, files, vault, calls, used, twins, table, lost, stripped>>
          /\ popups' = popups + 1
      BY <1>3 DEF Move, Confirms
    <2>6. {calls', popups'} \subseteq Nat
      BY <1>t, <2>5
    <2> QED
      BY <1>p, <1>t, <2>3, <2>4, <2>5, <2>6, PrivateStep
  <1>4. CASE SaveConfig(t)
    <2> DEFINE r == [proc[t] EXCEPT !.pc = "open"]
    <2>1. proc' = [proc EXCEPT ![t] = r]
      BY <1>4, <1>p, <1>t DEF SaveConfig, StoresInv, StoresTypeOK
    <2>2. /\ r \in Processes /\ r.pc = "open" /\ r.forgets = proc[t].forgets
          /\ r.mem = proc[t].mem /\ r.view = proc[t].view
      BY <1>p DEF Processes
    <2> HIDE DEF r
    <2>3. Kept(t, r)
      BY <1>p, <2>2, KeptSame
    <2>4. config' \in Paths
      BY <1>4, <1>p, <1>t DEF SaveConfig, Processes
    <2> QED
      BY <1>4, <1>p, <1>t, <2>1, <2>3, <2>4, PrivateStep DEF SaveConfig
  <1>5. CASE KeepPath(t)
    <2> DEFINE r == [proc[t] EXCEPT !.pc = "settings"]
    <2>1. proc' = [proc EXCEPT ![t] = r]
      BY <1>5, <1>p DEF KeepPath, StoresInv, StoresTypeOK
    <2>2. /\ r \in Processes /\ r.pc = "settings" /\ r.forgets = proc[t].forgets
          /\ r.mem = proc[t].mem /\ r.view = proc[t].view
      BY <1>p DEF Processes
    <2> HIDE DEF r
    <2>3. Kept(t, r)
      BY <1>p, <2>2, KeptSame
    <2>4. /\ UNCHANGED <<config, files, vault, calls, used, twins, table, lost, stripped>>
          /\ popups' = popups + 1
      BY <1>5 DEF KeepPath, Confirms
    <2>5. {calls', popups'} \subseteq Nat
      BY <1>t, <2>4
    <2> QED
      BY <1>p, <1>t, <2>1, <2>3, <2>4, <2>5, PrivateStep
  <1> QED
    BY <1>1, <1>2, <1>3, <1>4, <1>5

\* Every step, and so every state.
LEMMA NextStores == StoresInv /\ [Next]_storesVars => StoresInv'
  <1> SUFFICES ASSUME StoresInv, [Next]_storesVars PROVE StoresInv'
    OBVIOUS
  <1>1. CASE UNCHANGED storesVars
    BY <1>1 DEF storesVars, StoresInv, StoresTypeOK, EditsSurvive, CopiesTrue, At
  <1>2. ASSUME NEW p \in Calls, Call(p) PROVE StoresInv'
    BY <1>2, CallsBegin, CallsPrivate, SaveStep DEF Call
  <1>3. ASSUME NEW t \in Screens, Screen(t) PROVE StoresInv'
    BY <1>3, PopupSteps, ScreenSaves, ScreenPrivate DEF Screen
  <1>4. ASSUME NEW p \in Procs, ReadVault(p) \/ WriteVault(p) \/ VaultFails(p)
        PROVE  StoresInv'
    BY <1>4, VaultSteps
  <1>5. ASSUME NEW p \in Procs, Die(p) PROVE StoresInv'
    <2>1. config \in Paths /\ vault \subseteq Keys /\ used \subseteq Hosts
          /\ {calls, popups} \subseteq Nat /\ twins \subseteq used
      BY DEF StoresInv, StoresTypeOK
    <2> QED
      BY <1>5, <2>1, KeptOff, PrivateStep DEF Die
  <1> QED
    BY <1>1, <1>2, <1>3, <1>4, <1>5 DEF Next

THEOREM StoresInvariant == Spec => []StoresInv
  BY InitStores, NextStores, PTL DEF Spec

\* Every reachable state is well typed.
THEOREM StoresTypeCorrect == Spec => []StoresTypeOK
  <1>1. StoresInv => StoresTypeOK
    BY DEF StoresInv
  <1> QED
    BY <1>1, StoresInvariant, PTL

\* However many calls and screens run, whatever they do and wherever they
\* fail: no acknowledged edit is lost, but to a save that did not see what it
\* replaced or to a screen that adopted a file without its credentials.
THEOREM NoEditIsLost == Spec => []EditsSurvive
  <1>1. StoresInv => EditsSurvive
    BY DEF StoresInv
  <1> QED
    BY <1>1, StoresInvariant, PTL

\* A call that has loaded a file holds what it read of it, and a screen that did
\* not keep foreign credentials holds what its user takes it to hold, whatever the
\* processes around them save (src/src/main.rs:1199, save_new_host).
THEOREM CopiesAreTrue == Spec => []CopiesTrue
  <1>1. StoresInv => CopiesTrue
    BY DEF StoresInv
  <1> QED
    BY <1>1, StoresInvariant, PTL
-----------------------------------------------------------------------------
(* Where config.toml points.  It follows some process's path, so every      *)
(* process must be at a file that is there, or at the default one.          *)

AtAFile(f) == f # DefaultPath => files[f] # None

SettingsInv == AtAFile(config) /\ \A p \in Procs : AtAFile(proc[p].path)

LEMMA SettingsStep ==
    ASSUME StoresInv, SettingsInv, NEW p \in Procs, NEW q, proc' = [proc EXCEPT ![p] = q],
           \A f \in Paths : files[f] # None => files'[f] # None,
           config' \in {config, proc[p].path},
           q.path \in {proc[p].path, DefaultPath, config} \/ files'[q.path] # None
    PROVE  SettingsInv'
  <1>1. /\ config \in Paths /\ DefaultPath \in Paths
        /\ proc \in [Procs -> Processes] /\ \A o \in Procs : proc[o].path \in Paths
    BY StoresAssumption DEF StoresInv, StoresTypeOK, Processes
  <1>2. AtAFile(config)'
    BY <1>1 DEF SettingsInv, AtAFile
  <1>3. ASSUME NEW o \in Procs PROVE AtAFile(proc[o].path)'
    <2>1. CASE o = p
      BY <1>1, <2>1 DEF SettingsInv, AtAFile
    <2>2. CASE o # p
      BY <1>1, <2>2 DEF SettingsInv, AtAFile
    <2> QED
      BY <2>1, <2>2
  <1> QED
    BY <1>2, <1>3 DEF SettingsInv

\* A step that touches no file and leaves its process where it was, or stops
\* it, or starts it where config.toml says.
LEMMA SettingsPrivate ==
    ASSUME StoresInv, SettingsInv, NEW p \in Procs, NEW q, proc' = [proc EXCEPT ![p] = q],
           UNCHANGED <<config, files>>, q.path \in {proc[p].path, DefaultPath, config}
    PROVE  SettingsInv'
  BY SettingsStep

LEMMA PathsKept ==
    ASSUME NEW p \in Procs, NEW q \in Processes
    PROVE  /\ AfterSecret(p, q).path \in {q.path, DefaultPath}
           /\ AfterFailure(p, q).path \in {q.path, DefaultPath}
           /\ Edited(q).path = q.path
  <1>1. Off.path = DefaultPath
    BY DEF Off
  <1>2. AfterSecret(p, q).path \in {q.path, DefaultPath}
    BY <1>1 DEF AfterSecret, Processes
  <1>3. AfterFailure(p, q).path \in {q.path, DefaultPath}
    BY <1>1, <1>2 DEF AfterFailure, Processes
  <1>4. Edited(q).path = q.path
    BY DEF Edited, Processes
  <1> QED
    BY <1>2, <1>3, <1>4

LEMMA SettingsVault ==
    ASSUME StoresInv, SettingsInv, NEW p \in Procs,
           ReadVault(p) \/ WriteVault(p) \/ VaultFails(p) \/ Die(p)
    PROVE  SettingsInv'
  <1>0. proc[p] \in Processes /\ Off.path = DefaultPath
    BY DEF StoresInv, StoresTypeOK, Off
  <1>k. \A k : LET q == [proc[p] EXCEPT !.job.keys = @ \ {k}]
               IN  q \in Processes /\ q.path = proc[p].path
    BY <1>0 DEF Processes, Jobs
  <1>f. UNCHANGED <<config, files>>
    BY DEF ReadVault, WriteVault, VaultFails, Die, Secrets
  <1>1. CASE ReadVault(p)
    <2>1. PICK k \in proc[p].job.keys :
             LET q == [proc[p] EXCEPT !.job.keys = @ \ {k}]
             IN  proc' = [proc EXCEPT ![p] =
                    IF NothingToDo(q, k) THEN AfterSecret(p, q)
                    ELSE [q EXCEPT !.pc = "write", !.key = k, !.map = vault]]
      BY <1>1 DEF ReadVault
    <2> DEFINE q == [proc[p] EXCEPT !.job.keys = @ \ {k}]
               r == [q EXCEPT !.pc = "write", !.key = k, !.map = vault]
    <2>2. q \in Processes /\ q.path = proc[p].path
      BY <1>k
    <2> HIDE DEF q
    <2>3. r.path = q.path /\ AfterSecret(p, q).path \in {q.path, DefaultPath}
      BY <2>2, PathsKept DEF Processes
    <2>4. CASE proc' = [proc EXCEPT ![p] = r]
      BY <1>f, <2>2, <2>3, <2>4, SettingsPrivate
    <2>5. CASE proc' = [proc EXCEPT ![p] = AfterSecret(p, q)]
      BY <1>f, <2>2, <2>3, <2>5, SettingsPrivate
    <2> QED
      BY <2>1, <2>4, <2>5 DEF q
  <1>2. CASE WriteVault(p)
    BY <1>0, <1>2, <1>f, PathsKept, SettingsPrivate DEF WriteVault
  <1>3. CASE VaultFails(p)
    <2>1. CASE proc' = [proc EXCEPT ![p] = AfterFailure(p, proc[p])]
      BY <1>0, <1>f, <2>1, PathsKept, SettingsPrivate
    <2>2. ASSUME NEW k \in proc[p].job.keys,
                 proc' = [proc EXCEPT ![p] =
                             AfterFailure(p, [proc[p] EXCEPT !.job.keys = @ \ {k}])]
          PROVE  SettingsInv'
      <3> DEFINE q == [proc[p] EXCEPT !.job.keys = @ \ {k}]
      <3>1. q \in Processes /\ q.path = proc[p].path
        BY <1>k
      <3> HIDE DEF q
      <3>2. AfterFailure(p, q).path \in {proc[p].path, DefaultPath}
        BY <3>1, PathsKept
      <3> QED
        BY <1>f, <2>2, <3>2, SettingsPrivate DEF q
    <2> QED
      BY <1>3, <2>1, <2>2 DEF VaultFails
  <1>4. CASE Die(p)
    BY <1>0, <1>4, <1>f, SettingsPrivate DEF Die
  <1> QED
    BY <1>1, <1>2, <1>3, <1>4

LEMMA SettingsCall ==
    ASSUME StoresInv, SettingsInv, NEW p \in Calls, Call(p)
    PROVE  SettingsInv'
  <1>0. /\ p \in Procs /\ proc[p] \in Processes /\ Off.path = DefaultPath
        /\ files \in [Paths -> Files] /\ None \notin Contents
    BY HostFileAssumption DEF StoresInv, StoresTypeOK, Off, Procs
  <1>1. ASSUME NEW e, NEW j, Launch(p, e, j) PROVE SettingsInv'
    <2>1. [Loaded("loaded") EXCEPT !.edit = e, !.job = j].path = config
      BY DEF Loaded, Off
    <2>2. /\ proc' = [proc EXCEPT ![p] = [Loaded("loaded") EXCEPT !.edit = e, !.job = j]]
          /\ UNCHANGED <<config, files>>
      BY <1>1 DEF Launch, Begins
    <2> QED
      BY <1>0, <2>1, <2>2, SettingsPrivate
  <1>2. CASE \/ SaveNewHost(p) \/ ApplyImport(p) \/ CredentialsAdd(p)
             \/ CredentialsRm(p) \/ CredentialsBind(p) \/ SitesAdd(p)
    BY <1>1, <1>2 DEF SaveNewHost, ApplyImport, CredentialsAdd, CredentialsRm,
                      CredentialsBind, SitesAdd
  <1>3. CASE SetPassword(p)
    <2>1. PICK k : proc' = [proc EXCEPT ![p] =
                               [Off EXCEPT !.job = Store({k}, FALSE, FALSE), !.pc = "secret"]]
      BY <1>3 DEF SetPassword
    <2>2. [Off EXCEPT !.job = Store({k}, FALSE, FALSE), !.pc = "secret"].path = DefaultPath
      BY DEF Off
    <2>3. UNCHANGED <<config, files>>
      BY <1>3 DEF SetPassword, Begins
    <2> QED
      BY <1>0, <2>1, <2>2, <2>3, SettingsPrivate
  <1>4. CASE Check(p)
    <2>1. [proc[p] EXCEPT !.pc = "checked", !.seen = files[proc[p].path]].path = proc[p].path
      BY <1>0 DEF Processes
    <2>2. UNCHANGED <<config, files>>
      BY <1>4 DEF Check
    <2>3. CASE Unchanged(proc[p])
      BY <1>0, <1>4, <2>1, <2>2, <2>3, SettingsPrivate DEF Check
    <2>4. CASE ~Unchanged(proc[p])
      BY <1>0, <1>4, <2>2, <2>4, SettingsPrivate DEF Check
    <2> QED
      BY <2>3, <2>4
  <1>5. CASE SaveFails(p)
    BY <1>0, <1>5, SettingsPrivate DEF SaveFails
  <1>6. CASE Save(p)
    <2> DEFINE q == proc[p]
               r == IF q.job.keys = {} THEN Off
                    ELSE [Off EXCEPT !.pc = "secret", !.edit = q.edit, !.job = q.job]
    <2>1. /\ proc' = [proc EXCEPT ![p] = r] /\ UNCHANGED config
          /\ files' = [files EXCEPT ![q.path] = Apply(q.edit, q.mem)]
      BY <1>6 DEF Save
    <2>2. r.path = DefaultPath
      BY DEF Off
    <2>3. Apply(q.edit, q.mem) \in Contents
      BY <1>0, ApplyType DEF Processes
    <2>4. \A f \in Paths : files[f] # None => files'[f] # None
      BY <1>0, <2>1, <2>3
    <2> HIDE DEF r
    <2> QED
      BY <1>0, <2>1, <2>2, <2>4, SettingsStep
  <1> QED
    BY <1>2, <1>3, <1>4, <1>5, <1>6 DEF Call

LEMMA SettingsScreen ==
    ASSUME StoresInv, SettingsInv, NEW t \in Screens, Screen(t)
    PROVE  SettingsInv'
  <1>0. /\ t \in Procs /\ proc[t] \in Processes /\ proc \in [Procs -> Processes]
        /\ files \in [Paths -> Files] /\ None \notin Contents
        /\ proc[t].path \in Paths /\ proc[t].target \in Paths
        /\ proc[t].mem \in Contents /\ proc[t].view \in Contents
    BY HostFileAssumption DEF StoresInv, StoresTypeOK, Procs, Processes
  <1>1. CASE OpenScreen(t)
    <2>1. Loaded("open").path = config
      BY DEF Loaded, Off
    <2> QED
      BY <1>0, <1>1, <2>1, SettingsPrivate DEF OpenScreen
  <1>2. CASE Popup(t)
    <2>1. PICK e, j : Confirm(t, e, j)
      BY <1>2 DEF Popup, AddHost, EditHost, SaveForm, DeleteHost, BulkEach, BulkShared,
                  BulkUnbind, SaveManager, ImportSshConfig
    <2> DEFINE q == [proc[t] EXCEPT !.edit = e, !.job = j,
                         !.pc = IF j.keys # {} THEN "secret" ELSE "save"]
    <2>2. proc' = [proc EXCEPT ![t] = q] /\ UNCHANGED <<config, files>>
      BY <2>1 DEF Confirm, Confirms
    <2>3. q.path = proc[t].path
      BY <1>0 DEF Processes
    <2> HIDE DEF q
    <2> QED
      BY <1>0, <2>2, <2>3, SettingsPrivate
  <1>e. Edited(proc[t]) \in Processes /\ Edited(proc[t]).path = proc[t].path
    BY <1>0, EditedType, PathsKept
  <1>3. CASE PersistHosts(t)
    <2> DEFINE q == Edited(proc[t])
               r == [q EXCEPT !.base = q.mem]
    <2>1. /\ proc' = [proc EXCEPT ![t] = r] /\ UNCHANGED config
          /\ files' = [files EXCEPT ![q.path] = q.mem]
      BY <1>3 DEF PersistHosts, Overwrite
    <2> HIDE DEF q
    <2>2. r.path = proc[t].path /\ q.mem \in Contents
      BY <1>e DEF q, Processes
    <2>3. \A f \in Paths : files[f] # None => files'[f] # None
      BY <1>0, <2>1, <2>2
    <2> HIDE DEF r
    <2> QED
      BY <1>0, <2>1, <2>2, <2>3, SettingsStep
  <1>4. CASE PersistFails(t)
    BY <1>0, <1>4, <1>e, SettingsPrivate DEF PersistFails
  <1>5. CASE KeepPath(t)
    <2>1. proc' = [proc EXCEPT ![t] = [proc[t] EXCEPT !.pc = "settings"]]
          /\ UNCHANGED <<config, files>>
      BY <1>0, <1>5 DEF KeepPath, Confirms
    <2>2. [proc[t] EXCEPT !.pc = "settings"].path = proc[t].path
      BY <1>0 DEF Processes
    <2> QED
      BY <1>0, <2>1, <2>2, SettingsPrivate
  <1>6. CASE Adopt(t)
    <2>1. PICK f \in Paths :
             /\ files[f] # None
             /\ proc' = [proc EXCEPT ![t] =
                   [proc[t] EXCEPT !.mem = [files[f] EXCEPT !.creds = proc[t].mem.creds],
                        !.view = files[f], !.base = files[f], !.path = f, !.pc = "settings",
                        !.forgets = files[f].creds # proc[t].mem.creds]]
             /\ UNCHANGED <<config, files>>
      BY <1>6 DEF Adopt, Confirms
    <2> DEFINE r == [proc[t] EXCEPT !.mem = [files[f] EXCEPT !.creds = proc[t].mem.creds],
                        !.view = files[f], !.base = files[f], !.path = f, !.pc = "settings",
                        !.forgets = files[f].creds # proc[t].mem.creds]
    <2>2. r.path = f
      BY <1>0 DEF Processes
    <2>3. proc' = [proc EXCEPT ![t] = r]
      BY <2>1
    <2> HIDE DEF r
    <2> QED
      BY <1>0, <2>1, <2>2, <2>3, SettingsStep
  <1>7. CASE Move(t)
    <2>1. PICK f \in Paths :
             /\ proc' = [proc EXCEPT ![t] = [proc[t] EXCEPT !.target = f, !.pc = "move"]]
             /\ UNCHANGED <<config, files>>
      BY <1>7 DEF Move, Confirms
    <2>2. [proc[t] EXCEPT !.target = f, !.pc = "move"].path = proc[t].path
      BY <1>0 DEF Processes
    <2> QED
      BY <1>0, <2>1, <2>2, SettingsPrivate
  <1>8. CASE MoveHosts(t)
    <2> DEFINE o == proc[t]
               r == [o EXCEPT !.path = o.target, !.base = o.mem, !.target = DefaultPath,
                              !.pc = "settings"]
    <2>1. /\ proc' = [proc EXCEPT ![t] = r] /\ UNCHANGED config
          /\ files' = [files EXCEPT ![o.target] = o.mem]
      BY <1>8 DEF MoveHosts, Overwrite
    <2>2. r.path = o.target
      BY <1>0 DEF Processes
    <2>3. /\ \A f \in Paths : files[f] # None => files'[f] # None
          /\ files'[o.target] # None
      BY <1>0, <2>1
    <2> HIDE DEF r
    <2> QED
      BY <1>0, <2>1, <2>2, <2>3, SettingsStep
  <1>9. CASE MoveFails(t)
    <2>1. [proc[t] EXCEPT !.target = DefaultPath, !.pc = "open"].path = proc[t].path
      BY <1>0 DEF Processes
    <2> QED
      BY <1>0, <1>9, <2>1, SettingsPrivate DEF MoveFails
  <1>10. CASE SaveConfig(t)
    <2> DEFINE r == [proc[t] EXCEPT !.pc = "open"]
    <2>1. /\ proc' = [proc EXCEPT ![t] = r] /\ UNCHANGED files
          /\ config' \in {config, proc[t].path}
      BY <1>0, <1>10 DEF SaveConfig
    <2>2. r.path = proc[t].path
      BY <1>0 DEF Processes
    <2> HIDE DEF r
    <2> QED
      BY <1>0, <2>1, <2>2, SettingsStep
  <1> QED
    BY <1>1, <1>2, <1>3, <1>4, <1>5, <1>6, <1>7, <1>8, <1>9, <1>10 DEF Screen

\* The settings never name a hosts file that is not there, except the default
\* one, wherever a move fails or a process dies.
THEOREM SettingsStay == Spec => []SettingsNameAFile
  <1>1. Init => SettingsInv
    <2> SUFFICES ASSUME Init PROVE SettingsInv
      OBVIOUS
    <2> QED
      BY DEF Init, SettingsInv, AtAFile, Off
  <1>2. StoresInv /\ SettingsInv /\ [Next]_storesVars => SettingsInv'
    <2> SUFFICES ASSUME StoresInv, SettingsInv, [Next]_storesVars PROVE SettingsInv'
      OBVIOUS
    <2>1. CASE UNCHANGED storesVars
      BY <2>1 DEF storesVars, SettingsInv, AtAFile
    <2>2. CASE Next
      BY <2>2, SettingsCall, SettingsScreen, SettingsVault DEF Next
    <2> QED
      BY <2>1, <2>2
  <1>3. SettingsInv => SettingsNameAFile
    BY DEF SettingsInv, AtAFile, SettingsNameAFile
  <1> QED
    BY <1>1, <1>2, <1>3, StoresInvariant, PTL DEF Spec
-----------------------------------------------------------------------------
(* Names and secrets.  Both depend on what a process is about to do, and   *)
(* that must still fit the database in its memory when it is done: see     *)
(* Meant.                                                                  *)

\* No file there is at first holds two hosts of one name; the theorem about
\* names has this hypothesis.
ApartAtFirst == \A f \in Initial : \A p \in Paths : DistinctNames(Listed(Read(f[p])))

Apart(x, T) == ApartAtFirst => DistinctNames(Listed(x) \ T)

\* Putting h in x gives no two hosts one name.
Placed(x, h, T) == h \in T \/ h \in Listed(x) \/ ~NameTaken(x, h)

Removes(e, k) == e \in [op : {"remove"}, cred : {k}] \/ e \in [op : {"delete"}, host : {k}]

\* The database of a process, and what it has still to do.
Means(q, T) ==
    /\ Apart(q.mem, T)
    /\ q.edit.op = "host" => Placed(q.mem, q.edit.host, T)
    /\ q.edit.op = "import" => DistinctNames(q.edit.hosts)
    /\ q.job.op = "delete" => \A k \in q.job.keys \cup ({q.key} \ {None}) : Removes(q.edit, k)

\* It is at a key only while it writes the vault, and has no edit when it is
\* at none.
Meant(q, T) ==
    /\ Means(q, T)
    /\ q.pc # "write" => q.key = None
    /\ q.pc \in {"open", "move", "settings"} => q.edit = NoChange

MeantInv ==
    /\ \A p \in Paths : Apart(Read(files[p]), twins)
    /\ \A p \in Procs : Meant(proc[p], twins)

\* Which hosts an edit leaves there to be.
LEMMA ApplyLists ==
    ASSUME NEW x \in Contents, NEW e \in Edits
    PROVE  /\ e.op = "host" => Listed(Apply(e, x)) = Listed(x) \cup {e.host}
           /\ e.op = "import" => Listed(Apply(e, x)) = Listed(x) \cup NewHosts(x, e.hosts)
           /\ e.op \notin {"host", "import"} => Listed(Apply(e, x)) \subseteq Listed(x)
  <1>1. CASE e.op = "host"
    BY <1>1 DEF Apply, PutHost, Listed, Contents
  <1>2. CASE e.op = "import"
    BY <1>2 DEF Apply, Import, Listed, Contents
  <1>3. CASE e.op \in {"delete", "bind", "declare", "remove", "site", "sites"}
    BY <1>3 DEF Apply, DropHost, Bind, RemoveCred, SaveSites, Listed, Contents
  <1>4. CASE e.op \notin {"host", "import", "delete", "bind", "declare", "remove", "site", "sites"}
    BY <1>4 DEF Apply
  <1> QED
    BY <1>1, <1>2, <1>3, <1>4

\* An edit that fits gives no two hosts one name.
LEMMA ApplyApart ==
    ASSUME NEW x \in Contents, NEW e \in Edits, NEW T, Apart(x, T),
           e.op = "host" => Placed(x, e.host, T),
           e.op = "import" => DistinctNames(e.hosts)
    PROVE  Apart(Apply(e, x), T)
  <1> SUFFICES ASSUME ApartAtFirst PROVE DistinctNames(Listed(Apply(e, x)) \ T)
    BY DEF Apart
  <1>0. DistinctNames(Listed(x) \ T)
    BY DEF Apart
  <1>1. CASE e.op = "host"
    <2>1. Listed(Apply(e, x)) = Listed(x) \cup {e.host} /\ Placed(x, e.host, T)
      BY <1>1, ApplyLists
    <2> QED
      BY <1>0, <2>1 DEF Placed, NameTaken, DistinctNames
  <1>2. CASE e.op = "import"
    <2>1. Listed(Apply(e, x)) = Listed(x) \cup NewHosts(x, e.hosts) /\ DistinctNames(e.hosts)
      BY <1>2, ApplyLists
    <2>2. \A h \in NewHosts(x, e.hosts), k \in Listed(x) : NameOf[h] # NameOf[k]
      BY DEF NewHosts, NameTaken
    <2>3. NewHosts(x, e.hosts) \subseteq e.hosts
      BY DEF NewHosts
    <2> QED
      BY <1>0, <2>1, <2>2, <2>3 DEF DistinctNames
  <1>3. CASE e.op \notin {"host", "import"}
    BY <1>0, <1>3, ApplyLists DEF DistinctNames
  <1> QED
    BY <1>1, <1>2, <1>3

LEMMA ApartGrows ==
    ASSUME NEW x, NEW T, NEW U, T \subseteq U, Apart(x, T)
    PROVE  Apart(x, U)
  BY DEF Apart, DistinctNames

LEMMA MeantGrows ==
    ASSUME NEW q, NEW T, NEW U, T \subseteq U, Meant(q, T)
    PROVE  Meant(q, U)
  BY ApartGrows DEF Meant, Means, Placed

LEMMA ApartEmpty == ASSUME NEW T PROVE Apart(Empty, T)
  BY DEF Apart, DistinctNames, Empty, Listed

\* No host is listed in an empty database, so any may be put there.
LEMMA MeantOff ==
    ASSUME NEW T
    PROVE  /\ Off.mem = Empty /\ Meant(Off, T)
           /\ \A h : Placed(Empty, h, T)
  BY ApartEmpty DEF Off, Meant, Means, NoChange, NoJob, Store, Placed, NameTaken, Empty, Listed

LEMMA MeantAfterSecret ==
    ASSUME NEW p \in Procs, NEW q \in Processes, NEW T, Means(q, T)
    PROVE  Meant(AfterSecret(p, q), T) /\ Meant(AfterFailure(p, q), T)
  <1>1. Meant(AfterSecret(p, q), T)
    <2>1. CASE AfterSecret(p, q) = Off
      BY <2>1, MeantOff
    <2>2. CASE AfterSecret(p, q) # Off
      <3> DEFINE r == [q EXCEPT !.pc = NextPhase(q), !.key = None, !.map = {}]
      <3>1. AfterSecret(p, q) = r
        BY <2>2 DEF AfterSecret
      <3>2. /\ r.mem = q.mem /\ r.edit = q.edit /\ r.job = q.job /\ r.key = None
            /\ r.pc = NextPhase(q)
        BY DEF Processes
      <3>3. r.pc \in {"open", "move", "settings"} => r.edit = NoChange
        BY <3>2 DEF NextPhase
      <3> HIDE DEF r
      <3>4. Means(r, T)
        BY <3>2 DEF Means
      <3> QED
        BY <3>1, <3>2, <3>3, <3>4 DEF Meant
    <2> QED
      BY <2>1, <2>2
  <1>2. Meant(AfterFailure(p, q), T)
    <2>1. CASE p \in Calls
      BY <2>1, MeantOff DEF AfterFailure
    <2>2. CASE p \notin Calls /\ q.job.must
      <3> DEFINE r == [q EXCEPT !.pc = "open", !.edit = NoChange, !.job = NoJob,
                                !.key = None, !.map = {}]
      <3>1. AfterFailure(p, q) = r
        BY <2>2 DEF AfterFailure
      <3>2. r.mem = q.mem /\ r.edit = NoChange /\ r.job = NoJob /\ r.key = None /\ r.pc = "open"
        BY DEF Processes
      <3> HIDE DEF r
      <3>3. Meant(r, T)
        BY <3>2 DEF Meant, Means, NoChange, NoJob, Store
      <3> QED
        BY <3>1, <3>3
    <2>3. CASE p \notin Calls /\ ~q.job.must
      BY <2>3, <1>1 DEF AfterFailure
    <2> QED
      BY <2>1, <2>2, <2>3
  <1> QED
    BY <1>1, <1>2

\* What a screen holds after its save, well or ill, is apart.
LEMMA MeantEdited ==
    ASSUME NEW q \in Processes, NEW T, Meant(q, T), q.pc = "save"
    PROVE  /\ Edited(q) \in Processes
           /\ Apart(Edited(q).mem, T)
           /\ Edited(q).edit = NoChange /\ Edited(q).job = NoJob
           /\ Edited(q).key = None /\ Edited(q).pc = "open"
           /\ Meant(Edited(q), T)
  <1>1. q.mem \in Contents /\ q.edit \in Edits
    BY DEF Processes
  <1>2. Apart(Apply(q.edit, q.mem), T)
    BY <1>1, ApplyApart DEF Meant, Means
  <1>3. /\ Edited(q).mem = Apply(q.edit, q.mem)
        /\ Edited(q).edit = NoChange /\ Edited(q).job = NoJob
        /\ Edited(q).key = q.key /\ Edited(q).pc = "open"
    BY DEF Edited, Processes
  <1>4. q.key = None
    BY DEF Meant
  <1>5. Meant(Edited(q), T)
    BY <1>2, <1>3, <1>4 DEF Meant, Means, NoChange, NoJob, Store
  <1> QED
    BY <1>2, <1>3, <1>4, <1>5, EditedType

\* A process changes; a file does not, unless to a database in which names are
\* apart.
LEMMA MeantStep ==
    ASSUME StoresInv, MeantInv, NEW p \in Procs, NEW q, Meant(q, twins'),
           proc' = [proc EXCEPT ![p] = q], twins \subseteq twins',
           \A f \in Paths : files'[f] = files[f] \/ Apart(Read(files'[f]), twins')
    PROVE  MeantInv'
  <1>1. proc \in [Procs -> Processes]
    BY DEF StoresInv, StoresTypeOK
  <1>2. \A f \in Paths : Apart(Read(files'[f]), twins')
    BY ApartGrows DEF MeantInv
  <1>3. ASSUME NEW o \in Procs PROVE Meant(proc'[o], twins')
    <2>1. CASE o = p
      BY <1>1, <2>1
    <2>2. CASE o # p
      BY <1>1, <2>2, MeantGrows DEF MeantInv
    <2> QED
      BY <2>1, <2>2
  <1> QED
    BY <1>2, <1>3 DEF MeantInv

LEMMA MeantPrivate ==
    ASSUME StoresInv, MeantInv, NEW p \in Procs, NEW q, Meant(q, twins),
           proc' = [proc EXCEPT ![p] = q], UNCHANGED <<files, twins>>
    PROVE  MeantInv'
  BY MeantStep

LEMMA MeantVault ==
    ASSUME StoresInv, MeantInv, NEW p \in Procs,
           ReadVault(p) \/ WriteVault(p) \/ VaultFails(p) \/ Die(p)
    PROVE  MeantInv'
  <1>0. proc[p] \in Processes /\ Meant(proc[p], twins)
    BY DEF StoresInv, StoresTypeOK, MeantInv
  <1>k. ASSUME NEW k
        PROVE  LET q == [proc[p] EXCEPT !.job.keys = @ \ {k}]
               IN  q \in Processes /\ Means(q, twins)
    <2> DEFINE q == [proc[p] EXCEPT !.job.keys = @ \ {k}]
    <2>1. q \in Processes
      BY <1>0 DEF Processes, Jobs
    <2>2. /\ q.mem = proc[p].mem /\ q.edit = proc[p].edit /\ q.key = proc[p].key
          /\ q.job.op = proc[p].job.op /\ q.job.keys = proc[p].job.keys \ {k}
      BY <1>0 DEF Processes, Jobs
    <2> HIDE DEF q
    <2>3. Means(q, twins)
      BY <1>0, <2>2 DEF Meant, Means
    <2> QED
      BY <2>1, <2>3 DEF q
  <1>f. UNCHANGED <<files, twins>>
    BY DEF ReadVault, WriteVault, VaultFails, Die, Secrets
  <1>1. CASE ReadVault(p)
    <2>1. PICK k \in proc[p].job.keys :
             LET q == [proc[p] EXCEPT !.job.keys = @ \ {k}]
             IN  proc' = [proc EXCEPT ![p] =
                    IF NothingToDo(q, k) THEN AfterSecret(p, q)
                    ELSE [q EXCEPT !.pc = "write", !.key = k, !.map = vault]]
      BY <1>1 DEF ReadVault
    <2> DEFINE q == [proc[p] EXCEPT !.job.keys = @ \ {k}]
               r == [q EXCEPT !.pc = "write", !.key = k, !.map = vault]
    <2>2. q \in Processes /\ Means(q, twins)
      BY <1>k
    <2>3. /\ q.mem = proc[p].mem /\ q.edit = proc[p].edit
          /\ q.job.op = proc[p].job.op /\ q.job.keys \subseteq proc[p].job.keys
      BY <1>0 DEF Processes, Jobs
    <2> HIDE DEF q
    <2>4. r.mem = q.mem /\ r.edit = q.edit /\ r.job = q.job /\ r.key = k /\ r.pc = "write"
      BY <2>2 DEF Processes
    <2> HIDE DEF r
    <2>5. Meant(r, twins)
      BY <1>0, <2>2, <2>3, <2>4 DEF Meant, Means
    <2>6. CASE proc' = [proc EXCEPT ![p] = r]
      BY <1>f, <2>5, <2>6, MeantPrivate
    <2>7. CASE proc' = [proc EXCEPT ![p] = AfterSecret(p, q)]
      BY <1>f, <2>2, <2>7, MeantAfterSecret, MeantPrivate
    <2> QED
      BY <2>1, <2>6, <2>7 DEF q, r
  <1>2. CASE WriteVault(p)
    BY <1>0, <1>2, <1>f, MeantAfterSecret, MeantPrivate DEF WriteVault, Meant
  <1>3. CASE VaultFails(p)
    <2>1. CASE proc' = [proc EXCEPT ![p] = AfterFailure(p, proc[p])]
      BY <1>0, <1>f, <2>1, MeantAfterSecret, MeantPrivate DEF Meant
    <2>2. ASSUME NEW k \in proc[p].job.keys,
                 proc' = [proc EXCEPT ![p] =
                             AfterFailure(p, [proc[p] EXCEPT !.job.keys = @ \ {k}])]
          PROVE  MeantInv'
      <3> DEFINE q == [proc[p] EXCEPT !.job.keys = @ \ {k}]
      <3>1. q \in Processes /\ Means(q, twins)
        BY <1>k
      <3> HIDE DEF q
      <3>2. Meant(AfterFailure(p, q), twins)
        BY <3>1, MeantAfterSecret
      <3> QED
        BY <1>f, <2>2, <3>2, MeantPrivate DEF q
    <2> QED
      BY <1>3, <2>1, <2>2 DEF VaultFails
  <1>4. CASE Die(p)
    BY <1>4, <1>f, MeantOff, MeantPrivate DEF Die
  <1> QED
    BY <1>1, <1>2, <1>3, <1>4

\* A process that has just read its file, with an edit that fits what it read.
LEMMA MeantLoaded ==
    ASSUME StoresInv, MeantInv, NEW e, NEW j,
           e.op = "host" => Placed(Disk, e.host, twins),
           e.op = "import" => DistinctNames(e.hosts),
           j.op = "delete" => \A k \in j.keys : Removes(e, k)
    PROVE  Meant([Loaded("loaded") EXCEPT !.edit = e, !.job = j], twins)
  <1> DEFINE q == [Loaded("loaded") EXCEPT !.edit = e, !.job = j]
  <1>1. q.mem = Disk /\ q.edit = e /\ q.job = j /\ q.key = None /\ q.pc = "loaded"
    BY DEF Loaded, Off, Disk
  <1>2. Apart(Disk, twins)
    BY DEF Disk, MeantInv, StoresInv, StoresTypeOK
  <1> HIDE DEF q
  <1>3. Meant(q, twins)
    BY <1>1, <1>2 DEF Meant, Means
  <1> QED
    BY <1>3 DEF q

LEMMA MeantLaunch ==
    ASSUME StoresInv, MeantInv, NEW p \in Procs, NEW e, NEW j, Launch(p, e, j),
           e.op = "host" => Placed(Disk, e.host, twins),
           e.op = "import" => DistinctNames(e.hosts),
           j.op = "delete" => \A k \in j.keys : Removes(e, k)
    PROVE  MeantInv'
  <1>1. Meant([Loaded("loaded") EXCEPT !.edit = e, !.job = j], twins)
    BY MeantLoaded
  <1>2. /\ proc' = [proc EXCEPT ![p] = [Loaded("loaded") EXCEPT !.edit = e, !.job = j]]
        /\ UNCHANGED <<files, twins>>
    BY DEF Launch, Begins
  <1> QED
    BY <1>1, <1>2, MeantPrivate

LEMMA MeantCall ==
    ASSUME StoresInv, MeantInv, NEW p \in Calls, Call(p)
    PROVE  MeantInv'
  <1>0. /\ p \in Procs /\ proc[p] \in Processes /\ Meant(proc[p], twins)
        /\ files \in [Paths -> Files] /\ None \notin Contents
    BY HostFileAssumption DEF StoresInv, StoresTypeOK, MeantInv, Procs
  <1>s. \A K, keep, must : Store(K, keep, must).op = "store" /\ NoJob.op = "store"
    BY DEF Store, NoJob
  <1>1. CASE SaveNewHost(p)
    <2>1. PICK h \in Hosts, r \in HostRecords, secret \in BOOLEAN :
             /\ ~NameTaken(Disk, h)
             /\ Launch(p, [op |-> "host", host |-> h, record |-> r],
                       Store(IfAny(secret, {IF r.cred = None THEN h ELSE r.cred}), FALSE, FALSE))
      BY <1>1 DEF SaveNewHost
    <2> DEFINE e == [op |-> "host", host |-> h, record |-> r]
               j == Store(IfAny(secret, {IF r.cred = None THEN h ELSE r.cred}), FALSE, FALSE)
    <2>2. Placed(Disk, h, twins)
      BY <2>1 DEF Placed
    <2>3. e.op = "host" /\ e.host = h /\ j.op = "store" /\ Launch(p, e, j)
      BY <1>s, <2>1
    <2> HIDE DEF e, j
    <2> QED
      BY <1>0, <2>2, <2>3, MeantLaunch
  <1>2. CASE ApplyImport(p)
    <2>1. PICK H \in SUBSET Hosts, s \in SiteArgs :
             /\ DistinctNames(H)
             /\ Launch(p, [op |-> "import", hosts |-> H, site |-> s], NoJob)
      BY <1>2 DEF ApplyImport
    <2> QED
      BY <1>0, <1>s, <2>1, MeantLaunch
  <1>3. CASE CredentialsAdd(p)
    <2>1. PICK c \in Creds, secret \in BOOLEAN :
             Launch(p, [op |-> "declare", cred |-> c], Store(IfAny(secret, {c}), FALSE, FALSE))
      BY <1>3 DEF CredentialsAdd
    <2> QED
      BY <1>0, <1>s, <2>1, MeantLaunch
  <1>4. CASE CredentialsRm(p)
    <2>1. PICK c \in Creds : Launch(p, [op |-> "remove", cred |-> c], Delete({c}))
      BY <1>4 DEF CredentialsRm
    <2>2. \A k \in Delete({c}).keys : Removes([op |-> "remove", cred |-> c], k)
      BY DEF Delete, Removes
    <2> QED
      BY <1>0, <2>1, <2>2, MeantLaunch
  <1>5. CASE CredentialsBind(p)
    <2>1. PICK H \in SUBSET Listed(Disk), c \in Creds \cup {None} :
             Launch(p, [op |-> "bind", hosts |-> H, cred |-> c, declare |-> FALSE], NoJob)
      BY <1>5 DEF CredentialsBind
    <2> QED
      BY <1>0, <1>s, <2>1, MeantLaunch
  <1>6. CASE SitesAdd(p)
    <2>1. PICK s \in Sites : Launch(p, [op |-> "site", site |-> s], NoJob)
      BY <1>6 DEF SitesAdd
    <2> QED
      BY <1>0, <1>s, <2>1, MeantLaunch
  <1>7. CASE SetPassword(p)
    <2>1. PICK k : proc' = [proc EXCEPT ![p] =
                               [Off EXCEPT !.job = Store({k}, FALSE, FALSE), !.pc = "secret"]]
      BY <1>7 DEF SetPassword
    <2> DEFINE q == [Off EXCEPT !.job = Store({k}, FALSE, FALSE), !.pc = "secret"]
    <2>2. /\ q.mem = Empty /\ q.edit = NoChange /\ q.job = Store({k}, FALSE, FALSE)
          /\ q.key = None /\ q.pc = "secret"
      BY DEF Off
    <2>3. UNCHANGED <<files, twins>>
      BY <1>7 DEF SetPassword, Begins
    <2>4. proc' = [proc EXCEPT ![p] = q]
      BY <2>1
    <2> HIDE DEF q
    <2>5. q.job.op = "store" /\ q.edit.op = "none"
      BY <2>2 DEF NoChange, Store
    <2>6. Meant(q, twins)
      BY <2>2, <2>5, ApartEmpty DEF Meant, Means
    <2> QED
      BY <1>0, <2>3, <2>4, <2>6, MeantPrivate
  <1>8. CASE Check(p)
    <2> DEFINE q == [proc[p] EXCEPT !.pc = "checked", !.seen = files[proc[p].path]]
    <2>1. /\ q.mem = proc[p].mem /\ q.edit = proc[p].edit /\ q.job = proc[p].job
          /\ q.key = proc[p].key /\ q.pc = "checked"
      BY <1>0 DEF Processes
    <2>2. /\ UNCHANGED <<files, twins>> /\ proc[p].pc = "loaded"
          /\ proc' = [proc EXCEPT ![p] = IF Unchanged(proc[p]) THEN q ELSE Off]
      BY <1>8 DEF Check, At
    <2> HIDE DEF q
    <2>3. Meant(q, twins)
      BY <1>0, <2>1, <2>2 DEF Meant, Means
    <2>4. CASE Unchanged(proc[p])
      BY <1>0, <2>2, <2>3, <2>4, MeantPrivate
    <2>5. CASE ~Unchanged(proc[p])
      BY <1>0, <2>2, <2>5, MeantOff, MeantPrivate
    <2> QED
      BY <2>4, <2>5
  <1>9. CASE SaveFails(p)
    BY <1>0, <1>9, MeantOff, MeantPrivate DEF SaveFails
  <1>10. CASE Save(p)
    <2> DEFINE q == proc[p]
               s == [Off EXCEPT !.pc = "secret", !.edit = q.edit, !.job = q.job]
    <2>1. /\ proc' = [proc EXCEPT ![p] = IF q.job.keys = {} THEN Off ELSE s]
          /\ UNCHANGED twins
          /\ files' = [files EXCEPT ![q.path] = Apply(q.edit, q.mem)]
      BY <1>10 DEF Save
    <2>2. /\ q.mem \in Contents /\ q.edit \in Edits
      BY <1>0 DEF Processes
    <2>3. Apply(q.edit, q.mem) \in Contents /\ Apart(Apply(q.edit, q.mem), twins)
      BY <1>0, <2>2, ApplyType, ApplyApart DEF Meant, Means
    <2>4. Read(Apply(q.edit, q.mem)) = Apply(q.edit, q.mem)
      BY <1>0, <2>3 DEF Read
    <2>5. \A f \in Paths : files'[f] = files[f] \/ Apart(Read(files'[f]), twins')
      BY <1>0, <2>1, <2>3, <2>4
    <2>6. s.mem = Empty /\ s.edit = q.edit /\ s.job = q.job /\ s.key = None /\ s.pc = "secret"
      BY DEF Off
    <2> HIDE DEF s
    <2>7. Meant(s, twins)
      BY <1>0, <2>6, ApartEmpty, MeantOff DEF Meant, Means
    <2>8. CASE q.job.keys = {}
      BY <1>0, <2>1, <2>5, <2>8, MeantOff, MeantStep
    <2>9. CASE q.job.keys # {}
      BY <1>0, <2>1, <2>5, <2>7, <2>9, MeantStep
    <2> QED
      BY <2>8, <2>9
  <1> QED
    BY <1>1, <1>2, <1>3, <1>4, <1>5, <1>6, <1>7, <1>8, <1>9, <1>10 DEF Call

\* A popup is confirmed, with an edit that fits the database in memory.
LEMMA MeantConfirm ==
    ASSUME StoresInv, MeantInv, NEW t \in Procs, NEW e, NEW j, Confirm(t, e, j),
           twins \subseteq twins',
           e.op = "host" => Placed(Memory(t), e.host, twins'),
           e.op = "import" => DistinctNames(e.hosts),
           j.op = "delete" => \A k \in j.keys : Removes(e, k)
    PROVE  MeantInv'
  <1> DEFINE q == [proc[t] EXCEPT !.edit = e, !.job = j,
                       !.pc = IF j.keys # {} THEN "secret" ELSE "save"]
  <1>1. /\ proc' = [proc EXCEPT ![t] = q] /\ UNCHANGED files /\ proc[t].pc = "open"
    BY DEF Confirm, Confirms, At
  <1>2. proc[t] \in Processes /\ Meant(proc[t], twins)
    BY DEF StoresInv, StoresTypeOK, MeantInv
  <1>3. /\ q.mem = proc[t].mem /\ q.edit = e /\ q.job = j /\ q.key = proc[t].key
        /\ q.pc \in {"secret", "save"}
    BY <1>2 DEF Processes
  <1> HIDE DEF q
  <1>4. proc[t].key = None /\ Apart(proc[t].mem, twins')
    BY <1>1, <1>2, ApartGrows DEF Meant, Means
  <1>5. Meant(q, twins')
    BY <1>3, <1>4 DEF Meant, Means, Memory
  <1> QED
    BY <1>1, <1>5, MeantStep

LEMMA MeantPopup ==
    ASSUME StoresInv, MeantInv, NEW t \in Screens, Popup(t)
    PROVE  MeantInv'
  <1>0. t \in Procs /\ proc[t] \in Processes /\ Memory(t) \in Contents
    BY DEF StoresInv, StoresTypeOK, Procs, Processes, Memory
  <1>s. \A K, keep, must : Store(K, keep, must).op = "store" /\ NoJob.op = "store"
    BY DEF Store, NoJob
  <1>1. CASE AddHost(t)
    <2>1. PICK h \in Hosts, s \in Memory(t).sites \cup {None}, secret \in BOOLEAN :
             /\ SaveForm(t, h, s, secret)
             /\ twins' = IF NameTaken(Memory(t), h) THEN twins \cup {h} ELSE twins
      BY <1>1 DEF AddHost
    <2>2. twins \subseteq twins' /\ Placed(Memory(t), h, twins')
      BY <2>1 DEF Placed
    <2> QED
      BY <1>0, <1>s, <2>1, <2>2, MeantConfirm DEF SaveForm
  <1>2. CASE EditHost(t)
    <2>1. PICK h \in Listed(Memory(t)), s \in Memory(t).sites \cup {None}, secret \in BOOLEAN :
             SaveForm(t, h, s, secret) /\ twins' = twins
      BY <1>2 DEF EditHost
    <2>2. Placed(Memory(t), h, twins')
      BY DEF Placed
    <2> QED
      BY <1>0, <1>s, <2>1, <2>2, MeantConfirm DEF SaveForm
  <1>3. CASE DeleteHost(t)
    <2>1. PICK h \in Listed(Memory(t)) :
             /\ Confirm(t, [op |-> "delete", host |-> h], Delete(OwnSecret(Memory(t), h)))
             /\ twins' = twins
      BY <1>3 DEF DeleteHost
    <2>2. Memory(t).hosts[h] \in HostRecords
      BY <1>0, ContentFacts
    <2>3. OwnSecret(Memory(t), h) \subseteq {h}
      BY <2>2, HostFileAssumption DEF OwnSecret, SecretKey, HostRecords
    <2>4. \A k \in Delete(OwnSecret(Memory(t), h)).keys : Removes([op |-> "delete", host |-> h], k)
      BY <2>3 DEF Delete, Removes
    <2> QED
      BY <1>0, <2>1, <2>4, MeantConfirm
  <1>4. CASE BulkEach(t)
    <2>1. PICK K, keep : Confirm(t, NoChange, Store(K, keep, FALSE)) /\ twins' = twins
      BY <1>4 DEF BulkEach
    <2> QED
      BY <1>0, <1>s, <2>1, MeantConfirm DEF NoChange
  <1>5. CASE BulkShared(t)
    <2>1. PICK H, c, K, keep :
             /\ Confirm(t, [op |-> "bind", hosts |-> H, cred |-> c, declare |-> TRUE],
                        Store(K, keep, TRUE))
             /\ twins' = twins
      BY <1>5 DEF BulkShared
    <2> QED
      BY <1>0, <1>s, <2>1, MeantConfirm
  <1>6. CASE BulkUnbind(t)
    <2>1. PICK H :
             /\ Confirm(t, [op |-> "bind", hosts |-> H, cred |-> None, declare |-> FALSE], NoJob)
             /\ twins' = twins
      BY <1>6 DEF BulkUnbind
    <2> QED
      BY <1>0, <1>s, <2>1, MeantConfirm
  <1>7. CASE SaveManager(t)
    <2>1. PICK m :
             /\ Confirm(t, [op |-> "sites", sites |-> m.sites, renames |-> m.renames], NoJob)
             /\ twins' = twins
      BY <1>7 DEF SaveManager
    <2> QED
      BY <1>0, <1>s, <2>1, MeantConfirm
  <1>8. CASE ImportSshConfig(t)
    <2>1. PICK H :
             /\ DistinctNames(H)
             /\ Confirm(t, [op |-> "import", hosts |-> H, site |-> None], NoJob)
             /\ twins' = twins
      BY <1>8 DEF ImportSshConfig
    <2> QED
      BY <1>0, <1>s, <2>1, MeantConfirm
  <1> QED
    BY <1>1, <1>2, <1>3, <1>4, <1>5, <1>6, <1>7, <1>8 DEF Popup

LEMMA MeantScreen ==
    ASSUME StoresInv, MeantInv, NEW t \in Screens, Screen(t)
    PROVE  MeantInv'
  <1>0. /\ t \in Procs /\ proc[t] \in Processes /\ Meant(proc[t], twins)
        /\ proc \in [Procs -> Processes]
        /\ files \in [Paths -> Files] /\ None \notin Contents
        /\ proc[t].path \in Paths /\ proc[t].target \in Paths /\ proc[t].mem \in Contents
    BY HostFileAssumption DEF StoresInv, StoresTypeOK, MeantInv, Procs, Processes
  <1>r. \A x \in Contents : Read(x) = x
    BY <1>0 DEF Read
  <1>1. CASE OpenScreen(t)
    <2>1. /\ Loaded("open").mem = Read(files[config]) /\ Loaded("open").edit = NoChange
          /\ Loaded("open").job = NoJob /\ Loaded("open").key = None
      BY DEF Loaded, Off
    <2>2. Apart(Read(files[config]), twins)
      BY DEF MeantInv, StoresInv, StoresTypeOK
    <2>3. Meant(Loaded("open"), twins)
      BY <2>1, <2>2 DEF Meant, Means, NoChange, NoJob, Store
    <2> QED
      BY <1>0, <1>1, <2>3, MeantPrivate DEF OpenScreen
  <1>2. CASE PersistHosts(t)
    <2> DEFINE q == Edited(proc[t])
               r == [q EXCEPT !.base = q.mem]
    <2>1. /\ proc' = [proc EXCEPT ![t] = r] /\ UNCHANGED twins /\ proc[t].pc = "save"
          /\ files' = [files EXCEPT ![q.path] = q.mem]
      BY <1>2 DEF PersistHosts, Overwrite, At
    <2>2. /\ q \in Processes /\ Apart(q.mem, twins) /\ Meant(q, twins)
      BY <1>0, <2>1, MeantEdited
    <2> HIDE DEF q
    <2>3. /\ r.mem = q.mem /\ r.edit = q.edit /\ r.job = q.job /\ r.key = q.key /\ r.pc = q.pc
          /\ q.mem \in Contents
      BY <2>2 DEF Processes
    <2> HIDE DEF r
    <2>4. Meant(r, twins)
      BY <2>2, <2>3 DEF Meant, Means
    <2>5. \A f \in Paths : files'[f] = files[f] \/ Apart(Read(files'[f]), twins')
      BY <1>0, <1>r, <2>1, <2>2, <2>3
    <2> QED
      BY <1>0, <2>1, <2>4, <2>5, MeantStep
  <1>3. CASE PersistFails(t)
    BY <1>0, <1>3, MeantEdited, MeantPrivate DEF PersistFails, At
  \* The others keep no edit.
  <1>k. ASSUME NEW q, proc[t].pc \in {"open", "move", "settings"},
               Apart(q.mem, twins), q.edit = proc[t].edit, q.job = proc[t].job,
               q.key = proc[t].key, q.pc \in {"open", "move", "settings"}
        PROVE  Meant(q, twins)
    BY <1>0, <1>k DEF Meant, Means, NoChange
  <1>m. Apart(proc[t].mem, twins)
    BY <1>0 DEF Meant, Means
  <1>4. CASE KeepPath(t)
    <2> DEFINE r == [proc[t] EXCEPT !.pc = "settings"]
    <2>1. /\ proc' = [proc EXCEPT ![t] = r] /\ UNCHANGED <<files, twins>> /\ proc[t].pc = "open"
      BY <1>0, <1>4 DEF KeepPath, Confirms, At
    <2>2. /\ r.mem = proc[t].mem /\ r.edit = proc[t].edit /\ r.job = proc[t].job
          /\ r.key = proc[t].key /\ r.pc = "settings"
      BY <1>0 DEF Processes
    <2> HIDE DEF r
    <2>3. Meant(r, twins)
      BY <1>k, <1>m, <2>1, <2>2
    <2> QED
      BY <1>0, <2>1, <2>3, MeantPrivate
  <1>5. CASE Adopt(t)
    <2>1. PICK f \in Paths :
             /\ files[f] # None
             /\ proc[t].pc = "open"
             /\ proc' = [proc EXCEPT ![t] =
                   [proc[t] EXCEPT !.mem = [files[f] EXCEPT !.creds = proc[t].mem.creds],
                        !.view = files[f], !.base = files[f], !.path = f, !.pc = "settings",
                        !.forgets = files[f].creds # proc[t].mem.creds]]
             /\ UNCHANGED <<files, twins>>
      BY <1>5 DEF Adopt, Confirms, At
    <2> DEFINE x == [files[f] EXCEPT !.creds = proc[t].mem.creds]
               r == [proc[t] EXCEPT !.mem = x,
                        !.view = files[f], !.base = files[f], !.path = f, !.pc = "settings",
                        !.forgets = files[f].creds # proc[t].mem.creds]
    <2>2. files[f] \in Contents /\ Apart(files[f], twins)
      BY <1>0, <1>r, <2>1 DEF Files, MeantInv
    <2>3. Listed(x) = Listed(files[f])
      BY <2>2 DEF Listed, Contents
    <2>4. Apart(x, twins)
      BY <2>2, <2>3 DEF Apart
    <2>5. /\ r.mem = x /\ r.edit = proc[t].edit /\ r.job = proc[t].job
          /\ r.key = proc[t].key /\ r.pc = "settings"
      BY <1>0 DEF Processes
    <2>6. proc' = [proc EXCEPT ![t] = r]
      BY <2>1
    <2> HIDE DEF x, r
    <2>7. Meant(r, twins)
      BY <1>k, <2>1, <2>4, <2>5
    <2> QED
      BY <1>0, <2>1, <2>6, <2>7, MeantPrivate
  <1>6. CASE Move(t)
    <2>1. PICK f \in Paths :
             /\ proc' = [proc EXCEPT ![t] = [proc[t] EXCEPT !.target = f, !.pc = "move"]]
             /\ UNCHANGED <<files, twins>> /\ proc[t].pc = "open"
      BY <1>6 DEF Move, Confirms, At
    <2> DEFINE r == [proc[t] EXCEPT !.target = f, !.pc = "move"]
    <2>2. /\ r.mem = proc[t].mem /\ r.edit = proc[t].edit /\ r.job = proc[t].job
          /\ r.key = proc[t].key /\ r.pc = "move"
      BY <1>0 DEF Processes
    <2>3. proc' = [proc EXCEPT ![t] = r]
      BY <2>1
    <2> HIDE DEF r
    <2>4. Meant(r, twins)
      BY <1>k, <1>m, <2>1, <2>2
    <2> QED
      BY <1>0, <2>1, <2>3, <2>4, MeantPrivate
  <1>7. CASE MoveHosts(t)
    <2> DEFINE o == proc[t]
               r == [o EXCEPT !.path = o.target, !.base = o.mem, !.target = DefaultPath,
                              !.pc = "settings"]
    <2>1. /\ proc' = [proc EXCEPT ![t] = r] /\ UNCHANGED twins /\ o.pc = "move"
          /\ files' = [files EXCEPT ![o.target] = o.mem]
      BY <1>7 DEF MoveHosts, Overwrite, At
    <2>2. /\ r.mem = o.mem /\ r.edit = o.edit /\ r.job = o.job
          /\ r.key = o.key /\ r.pc = "settings"
      BY <1>0 DEF Processes
    <2> HIDE DEF r
    <2>3. Meant(r, twins)
      BY <1>k, <1>m, <2>1, <2>2
    <2>4. \A f \in Paths : files'[f] = files[f] \/ Apart(Read(files'[f]), twins')
      BY <1>0, <1>r, <1>m, <2>1
    <2> QED
      BY <1>0, <2>1, <2>3, <2>4, MeantStep
  <1>8. CASE MoveFails(t)
    <2> DEFINE r == [proc[t] EXCEPT !.target = DefaultPath, !.pc = "open"]
    <2>1. /\ proc' = [proc EXCEPT ![t] = r] /\ UNCHANGED <<files, twins>> /\ proc[t].pc = "move"
      BY <1>0, <1>8 DEF MoveFails, At
    <2>2. /\ r.mem = proc[t].mem /\ r.edit = proc[t].edit /\ r.job = proc[t].job
          /\ r.key = proc[t].key /\ r.pc = "open"
      BY <1>0 DEF Processes
    <2> HIDE DEF r
    <2>3. Meant(r, twins)
      BY <1>k, <1>m, <2>1, <2>2
    <2> QED
      BY <1>0, <2>1, <2>3, MeantPrivate
  <1>9. CASE SaveConfig(t)
    <2> DEFINE r == [proc[t] EXCEPT !.pc = "open"]
    <2>1. /\ proc' = [proc EXCEPT ![t] = r] /\ UNCHANGED <<files, twins>>
          /\ proc[t].pc = "settings"
      BY <1>0, <1>9 DEF SaveConfig, At
    <2>2. /\ r.mem = proc[t].mem /\ r.edit = proc[t].edit /\ r.job = proc[t].job
          /\ r.key = proc[t].key /\ r.pc = "open"
      BY <1>0 DEF Processes
    <2> HIDE DEF r
    <2>3. Meant(r, twins)
      BY <1>k, <1>m, <2>1, <2>2
    <2> QED
      BY <1>0, <2>1, <2>3, MeantPrivate
  <1> QED
    BY <1>1, <1>2, <1>3, <1>4, <1>5, <1>6, <1>7, <1>8, <1>9, MeantPopup DEF Screen

LEMMA InitMeant == Init => MeantInv
  <1> SUFFICES ASSUME Init PROVE MeantInv
    OBVIOUS
  <1>1. ASSUME NEW p \in Paths PROVE Apart(Read(files[p]), twins)
    <2>1. files \in Initial /\ twins = {}
      BY DEF Init
    <2> QED
      BY <2>1 DEF Apart, ApartAtFirst, DistinctNames
  <1>2. \A p \in Procs : Meant(proc[p], twins)
    BY MeantOff DEF Init
  <1> QED
    BY <1>1, <1>2 DEF MeantInv

LEMMA NextMeant == StoresInv /\ MeantInv /\ [Next]_storesVars => MeantInv'
  <1> SUFFICES ASSUME StoresInv, MeantInv, [Next]_storesVars PROVE MeantInv'
    OBVIOUS
  <1>1. CASE UNCHANGED storesVars
    BY <1>1 DEF storesVars, MeantInv
  <1>2. CASE Next
    BY <1>2, MeantCall, MeantScreen, MeantVault DEF Next
  <1> QED
    BY <1>1, <1>2

\* Two hosts of a file share a name only if the form, which does not look, gave
\* it to one of them: whatever calls and screens do to the same file, add and
\* import never give a name twice (src/src/main.rs:1199, save_new_host).
THEOREM NamesAreApart == ApartAtFirst /\ Spec => []NamesStayApart
  <1> SUFFICES ASSUME ApartAtFirst PROVE Spec => []NamesStayApart
    OBVIOUS
  <1>1. MeantInv => NamesStayApart
    BY DEF MeantInv, Apart, DistinctNames, NamesStayApart
  <1> QED
    BY <1>1, InitMeant, NextMeant, StoresInvariant, PTL DEF Spec

\* A secret that goes is one whose removal was asked for, or one that a vault read
\* before it was stored does not have.
LEMMA SecretsStep ==
    ASSUME StoresInv, MeantInv, [Next]_storesVars, NEW k \in vault \ vault'
    PROVE  \E p \in Procs : MayRemove(p, k)
  <1>1. PICK p \in Procs : WriteVault(p)
    <2>1. vault' # vault
      OBVIOUS
    <2>2. ASSUME NEW p \in Calls, Call(p) PROVE vault' = vault
      BY <2>2 DEF Call, SaveNewHost, ApplyImport, CredentialsAdd, CredentialsRm,
                  CredentialsBind, SitesAdd, SetPassword, Launch, Begins, Check, Save, SaveFails
    <2>3. ASSUME NEW t \in Screens, Screen(t) PROVE vault' = vault
      BY <2>3 DEF Screen, OpenScreen, Popup, AddHost, EditHost, SaveForm, DeleteHost, BulkEach,
                  BulkShared, BulkUnbind, SaveManager, ImportSshConfig, Confirm, Confirms,
                  PersistHosts, PersistFails, KeepPath, Adopt, Move, MoveHosts, MoveFails,
                  SaveConfig, Overwrite
    <2>4. ASSUME NEW p \in Procs, ReadVault(p) \/ VaultFails(p) \/ Die(p) PROVE vault' = vault
      BY <2>4 DEF ReadVault, VaultFails, Die
    <2> QED
      BY <2>1, <2>2, <2>3, <2>4 DEF Next, storesVars
  <1>2. /\ At(p, "write")
        /\ vault' = IF proc[p].job.op = "store" THEN proc[p].map \cup {proc[p].key}
                                                ELSE proc[p].map \ {proc[p].key}
    BY <1>1 DEF WriteVault, Secrets
  <1>3. CASE proc[p].map # vault
    BY <1>2, <1>3 DEF MayRemove
  <1>4. CASE proc[p].map = vault
    <2>1. proc[p].job.op # "store" /\ proc[p].key = k
      BY <1>2, <1>4
    <2>2. proc[p].job.op \in {"store", "delete"} /\ k # None
      BY <1>2, <2>1, HostFileAssumption DEF StoresInv, StoresTypeOK, Processes, Jobs, Keys
    <2>3. Removes(proc[p].edit, k)
      BY <2>1, <2>2 DEF MeantInv, Meant, Means
    <2> QED
      BY <1>2, <2>3 DEF MayRemove, Removes
  <1> QED
    BY <1>3, <1>4

\* A secret disappears only when its credential is removed, when the host whose
\* own it is is deleted, or when a vault read before it was stored is written
\* back: never because a host that shares it is deleted or unbound
\* (src/src/app.rs, own_secret_key).
THEOREM SecretsStay == Spec => SecretsOutliveMembers
  <1>1. StoresInv /\ MeantInv /\ [Next]_storesVars
          => [\A k \in vault \ vault' : \E p \in Procs : MayRemove(p, k)]_storesVars
    BY SecretsStep
  <1> QED
    BY <1>1, InitMeant, NextMeant, StoresInvariant, PTL DEF Spec, SecretsOutliveMembers
-----------------------------------------------------------------------------
(* Sessions of the sites manager, of any length.                           *)

\* The recursive function of AfterRenames, taken as far as n.
RenamesTo(f, s, renames, n) ==
    f = [i \in 0 .. n |-> IF i = 0 THEN s
                          ELSE IF f[i - 1] = renames[i][1] THEN renames[i][2]
                          ELSE f[i - 1]]

LEMMA RenamesToExists ==
    ASSUME NEW s, NEW renames
    PROVE  \A n \in Nat : \E f : RenamesTo(f, s, renames, n)
  <1> DEFINE T == {n \in Nat : \E f : RenamesTo(f, s, renames, n)}
  <1>1. 0 \in T
    <2>1. RenamesTo([i \in 0 .. 0 |-> s], s, renames, 0)
      BY DEF RenamesTo
    <2> QED
      BY <2>1
  <1>2. ASSUME NEW n \in Nat, n \in T PROVE n + 1 \in T
    <2>1. PICK f : RenamesTo(f, s, renames, n)
      BY <1>2
    <2> DEFINE g == [i \in 0 .. n + 1 |-> IF i = n + 1
                        THEN IF f[n] = renames[i][1] THEN renames[i][2] ELSE f[n]
                        ELSE f[i]]
    <2>2. \A i \in 0 .. n : f[i] = IF i = 0 THEN s
                                   ELSE IF f[i - 1] = renames[i][1] THEN renames[i][2]
                                   ELSE f[i - 1]
      BY <2>1 DEF RenamesTo
    <2>3. \A i \in 0 .. n : g[i] = f[i]
      OBVIOUS
    <2>4. g[n + 1] = IF f[n] = renames[n + 1][1] THEN renames[n + 1][2] ELSE f[n]
      OBVIOUS
    <2>5. g = [i \in 0 .. n + 1 |-> g[i]]
      OBVIOUS
    <2> HIDE DEF g
    <2>6. ASSUME NEW i \in 0 .. n + 1
          PROVE  g[i] = IF i = 0 THEN s
                        ELSE IF g[i - 1] = renames[i][1] THEN renames[i][2]
                        ELSE g[i - 1]
      <3>1. CASE i = n + 1
        BY <3>1, <2>3, <2>4
      <3>2. CASE i \in 0 .. n
        BY <3>2, <2>2, <2>3
      <3> QED
        BY <3>1, <3>2
    <2>7. RenamesTo(g, s, renames, n + 1)
      BY <2>5, <2>6 DEF RenamesTo
    <2> QED
      BY <2>7
  <1> HIDE DEF T
  <1>3. Nat \subseteq T
    BY <1>1, <1>2, InductiveSet
  <1> QED
    BY <1>3 DEF T

LEMMA RenamesToDefines ==
    ASSUME NEW s, NEW renames, Len(renames) \in Nat
    PROVE  \E f : /\ RenamesTo(f, s, renames, Len(renames))
                  /\ AfterRenames(s, renames) = f[Len(renames)]
  <1> DEFINE upTo == CHOOSE f : RenamesTo(f, s, renames, Len(renames))
  <1>1. RenamesTo(upTo, s, renames, Len(renames))
    BY RenamesToExists
  <1>2. AfterRenames(s, renames) = upTo[Len(renames)]
    BY DEF AfterRenames, RenamesTo
  <1> HIDE DEF upTo
  <1> QED
    BY <1>1, <1>2

\* No renames leave a name alone, and one more comes after the others.
LEMMA AfterRenamesSteps ==
    ASSUME NEW s, NEW C, NEW renames \in Seq(C), NEW p \in C
    PROVE  /\ AfterRenames(s, <<>>) = s
           /\ AfterRenames(s, Append(renames, p)) =
                  IF AfterRenames(s, renames) = p[1] THEN p[2] ELSE AfterRenames(s, renames)
  <1>1. AfterRenames(s, <<>>) = s
    <2>1. Len(<<>>) = 0
      OBVIOUS
    <2>2. PICK f : /\ RenamesTo(f, s, <<>>, Len(<<>>))
                   /\ AfterRenames(s, <<>>) = f[Len(<<>>)]
      BY <2>1, RenamesToDefines
    <2> QED
      BY <2>1, <2>2 DEF RenamesTo
  <1> DEFINE more == Append(renames, p)
             n == Len(renames)
  <1>2. /\ n \in Nat /\ more \in Seq(C) /\ Len(more) = n + 1 /\ more[n + 1] = p
        /\ \A i \in 1 .. n : more[i] = renames[i]
    OBVIOUS
  <1> HIDE DEF more, n
  <1>3. PICK f : RenamesTo(f, s, renames, n) /\ AfterRenames(s, renames) = f[n]
    BY <1>2, RenamesToDefines DEF n
  <1>4. PICK g : RenamesTo(g, s, more, n + 1) /\ AfterRenames(s, more) = g[n + 1]
    BY <1>2, RenamesToDefines
  <1>5. \A i \in 0 .. n : f[i] = IF i = 0 THEN s
                                 ELSE IF f[i - 1] = renames[i][1] THEN renames[i][2]
                                 ELSE f[i - 1]
    BY <1>3 DEF RenamesTo
  <1>6. \A i \in 0 .. n + 1 : g[i] = IF i = 0 THEN s
                                     ELSE IF g[i - 1] = more[i][1] THEN more[i][2]
                                     ELSE g[i - 1]
    BY <1>4 DEF RenamesTo
  \* The two functions agree as far as the shorter one goes.
  <1> DEFINE T == {i \in Nat : i <= n => g[i] = f[i]}
  <1>7. 0 \in T
    BY <1>2, <1>5, <1>6
  <1>8. ASSUME NEW i \in Nat, i \in T PROVE i + 1 \in T
    <2> SUFFICES ASSUME i + 1 <= n PROVE g[i + 1] = f[i + 1]
      OBVIOUS
    <2>1. i + 1 \in 0 .. n /\ i + 1 \in 0 .. n + 1 /\ i + 1 \in 1 .. n /\ i + 1 # 0
          /\ i + 1 - 1 = i /\ i <= n
      BY <1>2
    <2>2. g[i] = f[i]
      BY <1>8, <2>1
    <2>3. f[i + 1] = IF f[i] = renames[i + 1][1] THEN renames[i + 1][2] ELSE f[i]
      BY <1>5, <2>1
    <2>4. g[i + 1] = IF g[i] = more[i + 1][1] THEN more[i + 1][2] ELSE g[i]
      BY <1>6, <2>1
    <2>5. more[i + 1] = renames[i + 1]
      BY <1>2, <2>1
    <2> QED
      BY <2>2, <2>3, <2>4, <2>5
  <1> HIDE DEF T
  <1>9. Nat \subseteq T
    BY <1>7, <1>8, InductiveSet
  <1>10. g[n] = f[n]
    BY <1>2, <1>9 DEF T
  <1>11. g[n + 1] = IF g[n] = p[1] THEN p[2] ELSE g[n]
    <2>1. n + 1 \in 0 .. n + 1 /\ n + 1 # 0 /\ n + 1 - 1 = n
      BY <1>2
    <2> QED
      BY <1>2, <1>6, <2>1
  <1> QED
    BY <1>1, <1>3, <1>4, <1>10, <1>11 DEF more

\* The renames of a session follow every site that is left, and take the others
\* to a site that was deleted, unless the name of one was given to another.
SessionInv(m) ==
    /\ m \in [sites : SUBSET Sites, renames : Seq(Sites \X Sites), deleted : SUBSET Sites,
              reused : BOOLEAN, follow : [Sites \cup {None} -> Sites \cup {None}]]
    /\ ~m.reused =>
          /\ m.deleted \cap m.sites = {}
          /\ \A s \in Sites \cup {None} :
                IF m.follow[s] = None THEN AfterRenames(s, m.renames) \in m.deleted \cup {None}
                ELSE AfterRenames(s, m.renames) = m.follow[s]

LEMMA SessionOpens ==
    ASSUME NEW sites \in SUBSET Sites
    PROVE  SessionInv(OpenManager(sites))
  <1> DEFINE m == OpenManager(sites)
  <1>1. /\ m.sites = sites /\ m.renames = <<>> /\ m.deleted = {} /\ m.reused = FALSE
        /\ m.follow = [s \in Sites \cup {None} |-> s]
    BY DEF OpenManager
  <1>2. m \in [sites : SUBSET Sites, renames : Seq(Sites \X Sites), deleted : SUBSET Sites,
               reused : BOOLEAN, follow : [Sites \cup {None} -> Sites \cup {None}]]
    BY DEF OpenManager
  <1>3. \A s : AfterRenames(s, <<>>) = s
    <2> TAKE s
    <2>1. <<>> \in Seq({s}) /\ s \in {s}
      OBVIOUS
    <2> QED
      BY <2>1, AfterRenamesSteps
  <1> HIDE DEF m
  <1>4. SessionInv(m)
    BY <1>1, <1>2, <1>3 DEF SessionInv
  <1> QED
    BY <1>4 DEF m

\* What a session is after each change the user can make.
LEMMA SessionGoesOn ==
    ASSUME NEW m, SessionInv(m), NEW n \in Managed(m)
    PROVE  SessionInv(n)
  <1> DEFINE Ms == [sites : SUBSET Sites, renames : Seq(Sites \X Sites), deleted : SUBSET Sites,
                    reused : BOOLEAN, follow : [Sites \cup {None} -> Sites \cup {None}]]
  <1>0. /\ m \in Ms /\ m.sites \subseteq Sites /\ m.renames \in Seq(Sites \X Sites)
        /\ m.deleted \subseteq Sites /\ m.reused \in BOOLEAN
        /\ m.follow \in [Sites \cup {None} -> Sites \cup {None}] /\ None \notin Sites
    BY HostFileAssumption DEF SessionInv
  <1>1. CASE n \in Added(m)
    <2>1. PICK s \in Sites \ m.sites : n = Named(m, s)
      BY <1>1 DEF Added
    <2>2. /\ n \in Ms /\ n.sites = m.sites \cup {s} /\ n.renames = m.renames
          /\ n.deleted = m.deleted /\ n.follow = m.follow
          /\ n.reused = (m.reused \/ s \in m.deleted)
      BY <1>0, <2>1 DEF Named
    <2> HIDE DEF Ms
    <2> QED
      BY <2>1, <2>2 DEF SessionInv, Ms
  <1>2. CASE n \in Deleted(m)
    <2>1. PICK s \in m.sites :
             n = [m EXCEPT !.sites = @ \ {s}, !.deleted = @ \cup {s},
                           !.follow = [k \in DOMAIN @ |-> IF @[k] = s THEN None ELSE @[k]]]
      BY <1>2 DEF Deleted
    <2>2. /\ n \in Ms /\ n.sites = m.sites \ {s} /\ n.renames = m.renames
          /\ n.deleted = m.deleted \cup {s} /\ n.reused = m.reused
          /\ \A k \in Sites \cup {None} :
                n.follow[k] = IF m.follow[k] = s THEN None ELSE m.follow[k]
      BY <1>0, <2>1
    <2> HIDE DEF Ms
    <2> QED
      BY <1>0, <2>1, <2>2 DEF SessionInv, Ms
  <1>3. CASE n \in Renamed(m)
    <2>1. PICK p \in m.sites \X (Sites \ m.sites) :
             n = [Named([m EXCEPT !.sites = @ \ {p[1]}], p[2]) EXCEPT
                     !.renames = Append(@, p),
                     !.follow = [k \in DOMAIN @ |-> IF @[k] = p[1] THEN p[2] ELSE @[k]]]
      BY <1>3 DEF Renamed
    <2>2. /\ p \in Sites \X Sites /\ p[1] \in m.sites /\ p[2] \in Sites \ m.sites
      BY <1>0
    <2>3. /\ n \in Ms /\ n.sites = (m.sites \ {p[1]}) \cup {p[2]}
          /\ n.renames = Append(m.renames, p)
          /\ n.deleted = m.deleted /\ n.reused = (m.reused \/ p[2] \in m.deleted)
          /\ \A k \in Sites \cup {None} :
                n.follow[k] = IF m.follow[k] = p[1] THEN p[2] ELSE m.follow[k]
      <3> DEFINE f == [k \in Sites \cup {None} |->
                          IF m.follow[k] = p[1] THEN p[2] ELSE m.follow[k]]
                 rs == Append(m.renames, p)
                 ss == (m.sites \ {p[1]}) \cup {p[2]}
                 re == (m.reused \/ p[2] \in m.deleted)
      <3>1. DOMAIN m.follow = Sites \cup {None}
        BY <1>0
      <3>2. n = [sites |-> ss, renames |-> rs, deleted |-> m.deleted,
                 reused |-> re, follow |-> f]
        BY <1>0, <2>1, <3>1 DEF Named
      <3>3. /\ f \in [Sites \cup {None} -> Sites \cup {None}]
            /\ rs \in Seq(Sites \X Sites) /\ ss \subseteq Sites
            /\ re \in BOOLEAN
        BY <1>0, <2>2
      <3> HIDE DEF rs, ss, re
      <3>4. n \in Ms
        BY <1>0, <3>2, <3>3
      <3> QED
        BY <3>2, <3>4 DEF rs, ss, re
    <2>4. \A k : AfterRenames(k, n.renames) =
                    IF AfterRenames(k, m.renames) = p[1] THEN p[2]
                    ELSE AfterRenames(k, m.renames)
      BY <1>0, <2>2, <2>3, AfterRenamesSteps
    <2> HIDE DEF Ms
    <2> SUFFICES ASSUME ~n.reused
                 PROVE  /\ n.deleted \cap n.sites = {}
                        /\ \A s \in Sites \cup {None} :
                              IF n.follow[s] = None
                              THEN AfterRenames(s, n.renames) \in n.deleted \cup {None}
                              ELSE AfterRenames(s, n.renames) = n.follow[s]
      BY <2>3 DEF SessionInv, Ms
    <2>5. /\ p[2] \notin m.deleted /\ m.deleted \cap m.sites = {}
          /\ \A s \in Sites \cup {None} :
                IF m.follow[s] = None THEN AfterRenames(s, m.renames) \in m.deleted \cup {None}
                ELSE AfterRenames(s, m.renames) = m.follow[s]
      BY <2>3 DEF SessionInv
    <2>6. p[1] \notin m.deleted \cup {None} /\ p[2] # None
      BY <1>0, <2>2, <2>5
    <2>7. n.deleted \cap n.sites = {}
      BY <2>3, <2>5
    <2>8. ASSUME NEW s \in Sites \cup {None}
          PROVE  IF n.follow[s] = None
                 THEN AfterRenames(s, n.renames) \in n.deleted \cup {None}
                 ELSE AfterRenames(s, n.renames) = n.follow[s]
      <3>1. CASE m.follow[s] = None
        <4>1. n.follow[s] = None
          BY <2>3, <2>6, <3>1
        <4>2. AfterRenames(s, m.renames) \in m.deleted \cup {None}
          BY <2>5, <3>1
        <4> QED
          BY <2>3, <2>4, <2>6, <4>1, <4>2
      <3>2. CASE m.follow[s] # None
        <4>1. AfterRenames(s, m.renames) = m.follow[s]
          BY <2>5, <3>2
        <4>2. n.follow[s] = IF m.follow[s] = p[1] THEN p[2] ELSE m.follow[s]
          BY <2>3
        <4>3. n.follow[s] # None
          BY <2>6, <3>2, <4>2
        <4> QED
          BY <2>4, <4>1, <4>2, <4>3
      <3> QED
        BY <3>1, <3>2
    <2> QED
      BY <2>7, <2>8
  <1> QED
    BY <1>1, <1>2, <1>3 DEF Managed

\* A session that reused no name saves what the user did.
LEMMA SessionFollows ==
    ASSUME NEW x \in Contents, NEW m, SessionInv(m), ~m.reused
    PROVE  Follows(x, m)
  <1> SUFFICES ASSUME NEW h \in Listed(x)
               PROVE  SaveSites(x, m.sites, m.renames).hosts[h].site = Home(m, x.hosts[h].site)
    BY DEF Follows
  <1>1. x.hosts[h] \in HostRecords /\ None \notin Sites
    BY ContentFacts, HostFileAssumption
  <1> DEFINE s == x.hosts[h].site
             f == [k \in Listed(x) |->
                      [x.hosts[k] EXCEPT !.site = Cascade(x.hosts[k].site, m.sites, m.renames)]]
  <1>2. s \in Sites \cup {None}
    BY <1>1 DEF HostRecords
  <1>3. SaveSites(x, m.sites, m.renames).hosts = f
    BY DEF SaveSites, Contents
  <1>4. f[h].site = Cascade(s, m.sites, m.renames)
    BY <1>1 DEF HostRecords
  <1> HIDE DEF s, f
  <1>5. Cascade(s, m.sites, m.renames) = Home(m, s)
    <2>1. m.sites \subseteq Sites /\ m.deleted \cap m.sites = {}
          /\ IF m.follow[s] = None THEN AfterRenames(s, m.renames) \in m.deleted \cup {None}
             ELSE AfterRenames(s, m.renames) = m.follow[s]
      BY <1>2 DEF SessionInv
    <2> QED
      BY <1>1, <2>1 DEF Cascade, Home
  <1> QED
    BY <1>3, <1>4, <1>5 DEF s

\* Whatever a screen holds, what the sites manager saves is what the user did: a
\* host follows its site through every rename and has none once it is deleted, as
\* long as no name of a deleted site is given to another in the same session
\* (src/src/app.rs, on_key_sites).
THEOREM MembersAlwaysFollow == Spec => []MembersFollow
  <1>1. StoresInv => MembersFollow
    <2> SUFFICES ASSUME StoresInv, NEW t \in Screens, NEW m \in Sessions(Memory(t).sites),
                        ~m.reused
                 PROVE  Follows(Memory(t), m)
      BY DEF MembersFollow
    <2>1. Memory(t) \in Contents /\ Memory(t).sites \subseteq Sites
      BY DEF StoresInv, StoresTypeOK, Procs, Processes, Memory, Contents
    <2>2. \A n \in Managed(OpenManager(Memory(t).sites)) : SessionInv(n)
      BY <2>1, SessionOpens, SessionGoesOn
    <2>3. SessionInv(m)
      BY <2>2, SessionGoesOn DEF Sessions
    <2> QED
      BY <2>1, <2>3, SessionFollows
  <1> QED
    BY <1>1, StoresInvariant, PTL
=============================================================================
