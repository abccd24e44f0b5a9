------------------------------- MODULE Forwards -------------------------------
(***************************************************************************)
(* Background port forwards: detached ssh processes, the ledger in which   *)
(* every running sshelf remembers them (forwards.json is its copy on       *)
(* disk), and the manager that stops them (src/src/forwards.rs,            *)
(* src/src/ui/forwards.rs and the handlers of src/src/app.rs).  The        *)
(* processes are the truth, the ledger a list of pids that is checked      *)
(* against ps; processes die on their own, pids are used again, several    *)
(* screens run at once and each of them may end at any moment.  The stderr *)
(* log of a forward is left out.                                           *)
(***************************************************************************)
EXTENDS Naturals, Sequences, FiniteSets, Retain

CONSTANTS
    Tuis,      \* sshelf processes that show the list
    Ids,       \* forwards, one per spawn
    Pids,      \* process ids
    Specs,     \* what is forwarded
    Shows,     \* <<s, r>>: the text of s is found in a command line with r
    MaxOthers, \* bound: how many other processes run at once
    Other,     \* a process that is no forward
    None

ASSUME ForwardsAssumption ==
    /\ None \notin Ids \cup Tuis \cup Specs \cup {Other}
    /\ Other \notin Ids
    /\ Shows \subseteq Specs \X Specs
    /\ \A s \in Specs : <<s, s>> \in Shows
    /\ MaxOthers \in Nat

VARIABLES
    os,      \* what runs under each pid
    entry,   \* pid and spec of each forward that was spawned
    file,    \* the ledger on disk
    tui,     \* the screens
    stopped, \* history: forwards that run after they were reported as stopped
    spared,  \* history: those that run on because they outlived SIGKILL or ps
             \* did not show them
    lost     \* history: those that run and are not on disk for a known reason

forwardsVars == <<os, entry, file, tui, stopped, spared, lost>>

\* A process: the forward it is, the spec on its command line, the screen that
\* has to reap it.
Processes == [of : Ids \cup {Other, None}, spec : Specs \cup {None},
              parent : Tuis \cup {None}, zombie : BOOLEAN]

Free == [of |-> None, spec |-> None, parent |-> None, zombie |-> FALSE]

\* The popup is a matter of the list: nothing of this module tells them apart.
Screens ==
    [pc : {"off", "list", "spawning", "manager", "term", "wait", "kill", "done"},
     mem : Seq(Ids), sel : Nat, confirm : Nat,
     job : Ids \cup {None}, chosen : Ids \cup {None}]

Off == [pc |-> "off", mem |-> <<>>, sel |-> 1, confirm |-> 0, job |-> None, chosen |-> None]

Init ==
    /\ os = [p \in Pids |-> Free]
    /\ entry = [i \in {} |-> None]
    /\ file = <<>>
    /\ tui = [t \in Tuis |-> Off]
    /\ stopped = {}
    /\ spared = {}
    /\ lost = {}

At(t, phase) == tui[t].pc = phase
Members(l) == {l[n] : n \in DOMAIN l}
Without(l, S) == Retained(l, Members(l) \ S)
-----------------------------------------------------------------------------
(* Processes.                                                              *)

Running(i) == \E p \in Pids : os[p].of = i

\* What ps shows of the pid of a forward: an ssh with its spec, not a zombie.
\* Any such process passes, the forward's own or one that has its pid now.
Alive(i) ==
    LET q == os[entry[i].pid]
    IN  ~q.zombie /\ q.spec # None /\ <<entry[i].spec, q.spec>> \in Shows

\* A dead process stays a zombie for as long as its parent lives.
Dying(p) ==
    /\ os[p] # Free /\ ~os[p].zombie
    /\ os' = [os EXCEPT ![p] = IF os[p].parent = None THEN Free
                               ELSE [Free EXCEPT !.parent = os[p].parent, !.zombie = TRUE]]
    /\ stopped' = stopped \ {os[p].of}
    /\ spared' = spared \ {os[p].of}
    /\ lost' = lost \ {os[p].of}

Dies(p) == Dying(p) /\ UNCHANGED <<entry, file, tui>>

\* Another program gets a free pid; it may be an ssh of the user's own.
OtherStarts(p) ==
    /\ os[p] = Free /\ Cardinality({r \in Pids : os[r].of = Other}) < MaxOthers
    /\ \E s \in Specs \cup {None} :
          os' = [os EXCEPT ![p] = [Free EXCEPT !.of = Other, !.spec = s]]
    /\ UNCHANGED <<entry, file, tui, stopped, spared, lost>>
-----------------------------------------------------------------------------
(* The ledger.  A screen loads it once, keeps it in memory and writes it   *)
(* whole: forwards that were not in that memory are lost with it.          *)

\* What is written over, what was written and what the screen held before.
Missing(disk, now, before, ok) ==
    {i \in IF ok THEN Members(disk) \ Members(before) ELSE Members(now) \ Members(disk) :
        Running(i)}

Found(now, ok) == IF ok THEN Members(now) ELSE {}

\* ps may fail to run; the forward then counts as gone.
Gone(ledger, unseen) == {i \in Members(ledger) : ~Alive(i) \/ i \in unseen}

\* Mutant: a confirmation outlives the entry it points at.
ClampedSelection(q) ==
    [q EXCEPT !.sel = IF @ > Len(q.mem) /\ q.mem # <<>> THEN Len(q.mem)
                      ELSE IF q.mem = <<>> THEN 1 ELSE @]

\* The manager's selection and confirmation are kept in range.
Clamped(q) ==
    [q EXCEPT !.sel = IF @ > Len(q.mem) /\ q.mem # <<>> THEN Len(q.mem)
                      ELSE IF q.mem = <<>> THEN 1 ELSE @,
              !.confirm = IF @ > Len(q.mem) THEN 0 ELSE @]

\* Dropping what is gone and saving what is left; disk and missing are what
\* the handler has made of file and lost so far, held is its ledger before.
Reconcile(t, q, held, disk, missing) ==
    \E unseen \in SUBSET Members(q.mem), ok \in BOOLEAN :
        LET gone == Gone(q.mem, unseen)
            left == Without(q.mem, gone)
        IN  /\ tui' = [tui EXCEPT ![t] = Clamped([q EXCEPT !.mem = left])]
            /\ IF gone = {}
               THEN file' = disk /\ lost' = missing
               ELSE /\ file' = IF ok THEN left ELSE disk
                    /\ lost' = (missing \ Found(left, ok)) \cup Missing(disk, left, held, ok)
                                    \cup {i \in gone : Running(i)}

\* A new screen reads the ledger and drops what has ended meanwhile.
Start(t) ==
    /\ At(t, "off")
    /\ Reconcile(t, [Off EXCEPT !.pc = "list", !.mem = file], file, file, lost)
    /\ UNCHANGED <<os, entry, stopped, spared>>

\* A screen quits or is killed.  Its children go to init, which reaps them.
Ends(t) ==
    /\ ~At(t, "off")
    /\ os' = [p \in Pids |-> IF os[p].parent # t THEN os[p]
                             ELSE IF os[p].zombie THEN Free
                             ELSE [os[p] EXCEPT !.parent = None]]
    /\ tui' = [tui EXCEPT ![t] = Off]
    /\ lost' = lost \cup {i \in {tui[t].job} : At(t, "spawning") /\ Running(i)}
    /\ UNCHANGED <<entry, file, stopped, spared>>
-----------------------------------------------------------------------------
(* Creating a forward.                                                     *)

\* ssh is started in a process group of its own.  Invalid ports, a log that
\* cannot be made and a missing ssh leave the popup as it is.
Spawn(t, p, s) ==
    LET i == CHOOSE j \in Ids : j \notin DOMAIN entry IN
    /\ At(t, "list") /\ Ids # DOMAIN entry /\ os[p] = Free
    /\ os' = [os EXCEPT ![p] = [of |-> i, spec |-> s, parent |-> t, zombie |-> FALSE]]
    /\ entry' = [j \in DOMAIN entry \cup {i} |-> IF j = i THEN [pid |-> p, spec |-> s]
                                                 ELSE entry[j]]
    /\ tui' = [tui EXCEPT ![t].pc = "spawning", ![t].job = i]
    /\ UNCHANGED <<file, stopped, spared, lost>>

\* It ended within the grace period, or could not be asked and was killed.
SpawnFails(t) ==
    /\ At(t, "spawning")
    /\ os' = [os EXCEPT ![entry[tui[t].job].pid] = Free]
    /\ tui' = [tui EXCEPT ![t].pc = "list", ![t].job = None]
    /\ UNCHANGED <<entry, file, stopped, spared, lost>>

\* Mutant: the forward is saved before it joins the ledger.
SpawnUpUnsaved(t, ok) ==
    LET i == tui[t].job
    IN  /\ At(t, "spawning") /\ Running(i)
        /\ tui' = [tui EXCEPT ![t].pc = "list", ![t].job = None, ![t].mem = Append(@, i)]
        /\ file' = IF ok THEN tui[t].mem ELSE file
        /\ lost' = (lost \ Found(tui[t].mem, ok))
                      \cup Missing(file, tui[t].mem, tui[t].mem, ok)
        /\ UNCHANGED <<os, entry, stopped, spared>>

\* Still running when the grace period is over: it is recorded.
SpawnUp(t, ok) ==
    LET i   == tui[t].job
        now == Append(tui[t].mem, i)
    IN  /\ At(t, "spawning") /\ Running(i)
        /\ tui' = [tui EXCEPT ![t].pc = "list", ![t].job = None, ![t].mem = now]
        /\ file' = IF ok THEN now ELSE file
        /\ lost' = (lost \ Found(now, ok)) \cup Missing(file, now, now, ok)
        /\ UNCHANGED <<os, entry, stopped, spared>>
-----------------------------------------------------------------------------
(* The manager.  Its snapshot is the ledger: both change together.         *)

OpenManager(t) ==
    /\ At(t, "list")
    /\ Reconcile(t, [tui[t] EXCEPT !.pc = "manager", !.sel = 1, !.confirm = 0],
                 tui[t].mem, file, lost)
    /\ UNCHANGED <<os, entry, stopped, spared>>

\* Ten times a second.
Tick(t) ==
    /\ At(t, "manager")
    /\ Reconcile(t, tui[t], tui[t].mem, file, lost)
    /\ UNCHANGED <<os, entry, stopped, spared>>

Keys(t) ==
    LET q == tui[t]
    IN  /\ At(t, "manager") /\ q.confirm = 0
        /\ \/ tui' = [tui EXCEPT ![t].pc = "list", ![t].sel = 1]
           \/ q.sel < Len(q.mem) /\ tui' = [tui EXCEPT ![t].sel = q.sel + 1]
           \/ q.sel > 1 /\ tui' = [tui EXCEPT ![t].sel = q.sel - 1]
           \/ /\ q.sel <= Len(q.mem)
              /\ tui' = [tui EXCEPT ![t].confirm = q.sel, ![t].chosen = q.mem[q.sel]]
        /\ UNCHANGED <<os, entry, file, stopped, spared, lost>>

\* Any key but y.
Refuse(t) ==
    /\ At(t, "manager") /\ tui[t].confirm > 0
    /\ tui' = [tui EXCEPT ![t].confirm = 0, ![t].chosen = None]
    /\ UNCHANGED <<os, entry, file, stopped, spared, lost>>

\* One look with ps decides the next step; a forward it misses is spared.
Look(t, q, seen, yes) ==
    /\ tui' = [tui EXCEPT ![t] = [q EXCEPT !.pc = IF Alive(q.job) /\ seen THEN yes ELSE "done"]]
    /\ spared' = spared \cup {i \in {q.job} : Running(i) /\ ~seen}
    /\ UNCHANGED <<os, entry, file, stopped, lost>>

\* y: the entry the confirmation points at is to be stopped.
Stop(t, seen) ==
    /\ At(t, "manager") /\ tui[t].confirm > 0
    /\ Look(t, [tui[t] EXCEPT !.job = tui[t].mem[tui[t].confirm], !.confirm = 0], seen, "term")

\* SIGTERM goes to whatever has the pid now, which may or may not heed it.
Term(t) ==
    /\ At(t, "term")
    /\ Dying(entry[tui[t].job].pid) \/ UNCHANGED <<os, stopped, spared, lost>>
    /\ tui' = [tui EXCEPT ![t].pc = "wait"]
    /\ UNCHANGED <<entry, file>>

\* Mutant: what did not heed SIGTERM within its time is left alone.
WaitNoKill(t, seen) ==
    /\ At(t, "wait")
    /\ tui' = [tui EXCEPT ![t].pc = "done"]
    /\ UNCHANGED <<os, entry, file, stopped, spared, lost>>

\* It is gone, or its time is up and SIGKILL follows.
Wait(t, seen) == At(t, "wait") /\ Look(t, tui[t], seen, "kill")

Kill(t) ==
    /\ At(t, "kill")
    /\ \/ Dying(entry[tui[t].job].pid)
       \/ /\ spared' = spared \cup {i \in {tui[t].job} : Running(i)}
          /\ UNCHANGED <<os, stopped, lost>>
    /\ tui' = [tui EXCEPT ![t].pc = "done"]
    /\ UNCHANGED <<entry, file>>

\* Whatever came of it the forward leaves the ledger, which is saved, and the
\* manager is brought up to date.
Done(t, ok) ==
    LET i    == tui[t].job
        mem  == tui[t].mem
        rest == Without(mem, {i})
    IN  /\ At(t, "done")
        /\ Reconcile(t, [tui[t] EXCEPT !.pc = "manager", !.job = None, !.chosen = None,
                                       !.mem = rest],
                     mem, IF ok THEN rest ELSE file,
                     (lost \ Found(rest, ok)) \cup Missing(file, rest, mem, ok))
        /\ stopped' = stopped \cup {j \in {i} : Running(j)}
        /\ UNCHANGED <<os, entry, spared>>
-----------------------------------------------------------------------------
\* What a screen does by itself, and what its user makes it do.
Own(t) ==
    \/ SpawnFails(t) \/ Tick(t) \/ Term(t) \/ Kill(t)
    \/ \E ok \in BOOLEAN : SpawnUp(t, ok) \/ Done(t, ok)
    \/ \E seen \in BOOLEAN : Wait(t, seen)

User(t) ==
    \/ Start(t) \/ Ends(t) \/ OpenManager(t) \/ Keys(t) \/ Refuse(t)
    \/ \E p \in Pids, s \in Specs : Spawn(t, p, s)
    \/ \E seen \in BOOLEAN : Stop(t, seen)

World(p) == Dies(p) \/ OtherStarts(p)

Next ==
    \/ \E t \in Tuis : Own(t) \/ User(t)
    \/ \E p \in Pids : World(p)

Spec == Init /\ [][Next]_forwardsVars
-----------------------------------------------------------------------------
(* Properties.                                                             *)

\* The variables have their types, and what a screen lists, points at or works
\* on was spawned (src/src/ui/forwards.rs: set_forwards keeps selection and
\* confirmation in range).
ForwardsTypeOK ==
    /\ os \in [Pids -> Processes]
    /\ DOMAIN entry \subseteq Ids
    /\ \A i \in DOMAIN entry : entry[i] \in [pid : Pids, spec : Specs]
    /\ file \in Seq(DOMAIN entry)
    /\ stopped \cup spared \cup lost \subseteq DOMAIN entry
    /\ tui \in [Tuis -> Screens]
    /\ \A t \in Tuis :
          /\ tui[t].mem \in Seq(DOMAIN entry)
          /\ tui[t].confirm \in 0..Len(tui[t].mem)
          /\ tui[t].sel = 1 \/ tui[t].sel \in 1..Len(tui[t].mem)
          /\ tui[t].job \in DOMAIN entry \cup {None}
          /\ tui[t].pc \in {"spawning", "term", "wait", "kill", "done"} <=> tui[t].job # None

Spawning == {tui[t].job : t \in {u \in Tuis : At(u, "spawning")}}

\* A forward that runs is in the ledger on disk, unless its screen has not yet
\* recorded it or ended before it could, the save failed, ps did not show it,
\* it outlived SIGKILL, or a screen that had never heard of it wrote its own
\* ledger over the file (src/src/app.rs:976, 1001, 1031).
RunningIsListed ==
    \A i \in DOMAIN entry :
        Running(i) => i \in Members(file) \cup Spawning \cup lost \cup spared

\* A forward reported as stopped does not run, unless it outlived SIGKILL or ps
\* did not show it (src/src/forwards.rs:389, kill).
StoppedIsDead == stopped \subseteq spared

\* docs/port-forwarding.md:43: d, then y, stops the selected forward.
StopsTheChosen ==
    \A t \in Tuis : tui[t].pc \in {"term", "wait", "kill", "done"} => tui[t].job = tui[t].chosen
=============================================================================
