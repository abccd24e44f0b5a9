----------------------------- MODULE ConnectProofs -----------------------------
(***************************************************************************)
(* Theorems about Connect, for any number of connects, hosts, keys, files, *)
(* secrets and worlds.  ConnectInv has two parts: Sound says of each       *)
(* connect how its ssh is wired for its host and its phase, and Kept says  *)
(* for each key of the store who has yet to prove what it holds.           *)
(***************************************************************************)
EXTENDS Connect, TLAPS

\* What holds of one connect c and its ssh e.  A first secret is asked for only
\* where it can be used; tmux takes the popup and the window only; a wired ssh knows
\* its host and cannot be asked by a hop; a session on a stored secret can read it;
\* the first question is counted from the moment it is marked.
Askful(c) ==
    /\ c.pc = "probe" => Assess(c.host, FALSE) = "probe"
    /\ c.pc = "ask" => Assess(c.host, FALSE) # "connect"
    /\ c.pc = "ask" /\ c.host.auth = "key" => ~c.host.free
    /\ c.tmux => c.pc \in {"popup", "session"}

Wired(c, e) ==
    c.pc \in {"verify", "session"} /\ e.wired =>
        /\ JumpPlan(c.host, TRUE) # "terminal"
        /\ e.kind = c.host.auth
        /\ e.files = IF c.host.auth = "key" THEN c.host.files ELSE {}

Readable(c, e) ==
    c.pc = "session" /\ c.has =>
        IF e.wired THEN e.pass = world.vault
        ELSE JumpPlan(c.host, TRUE) = "terminal" /\ ~c.tmux

Counted(e) ==
    /\ e.first = None => e.times = 0
    /\ e.id => e.times <= 1

Sound(c, e) == Askful(c) /\ Wired(c, e) /\ Readable(c, e) /\ Counted(e)

\* What holds of one key of the store.
Owing(k) ==
    \A p \in Procs : owed[k] = p => (At(p, "verify") \/ At(p, "remove")) /\ Key(p) = k

Kept(k) ==
    vault[k] \notin Right[k] \cup {NoSecret} => owed[k] \in Procs \cup {"unproved", "unasked"}

Opened(k) ==
    \A p \in Procs : owed[k] = p /\ At(p, "verify") /\ ssh[p].opened => vault[k] \in Right[k]

ConnectInv ==
    /\ ConnectTypeOK
    /\ \A p \in Procs : Sound(con[p], ssh[p])
    /\ \A k \in Keys : Owing(k) /\ Kept(k) /\ Opened(k)

Acts(p) ==
    \/ Command(p) \/ Enter(p) \/ Popup(p) \/ PopupCancel(p)
    \/ Look(p) \/ Probe(p)
    \/ \E v \in Values : Typed(p, v)
    \/ Skipped(p) \/ Proved(p) \/ NotProved(p) \/ Remove(p)
    \/ Handoff(p) \/ Cancel(p) \/ Ends(p) \/ Killed(p)
    \/ \E by \in {"target", "hop"}, q \in Prompts : Answered(p, by, q)

-----------------------------------------------------------------------------
(* Types.                                                                  *)

LEMMA RecordTypes ==
    /\ Idle \in Connects /\ Idle.pc = "idle" /\ Idle.host = None /\ ~Idle.tmux
    /\ NoSsh \in Sshs /\ ~NoSsh.wired /\ ~NoSsh.opened /\ NoSsh.first = None
    /\ NoSsh.times = 0
  BY ConnectAssumption DEF Idle, Connects, NoSsh, Sshs

LEMMA ConfiguredFacts ==
    ASSUME ConnectTypeOK, NEW h \in Hosts, NEW secret \in BOOLEAN, NEW code \in BOOLEAN
    PROVE  LET e == Configured(h, secret, code)
           IN  /\ e \in Sshs
               /\ e.wired <=> secret \/ code
               /\ e.wired => /\ e.kind = h.auth
                             /\ e.files = IF h.auth = "key" THEN h.files ELSE {}
               /\ secret => e.pass = world.vault
               /\ ~e.opened /\ e.first = None /\ e.times = 0
  <1>1. h \in HostType /\ world \in WorldType
    BY ConnectAssumption DEF ConnectTypeOK
  <1>2. /\ h.auth \in Auths /\ h.files \subseteq Files
        /\ world.vault \in BOOLEAN /\ world.runtime \in BOOLEAN
    BY <1>1 DEF HostType, WorldType
  <1> DEFINE e == Configured(h, secret, code)
  <1>3. CASE ~(secret \/ code)
    <2>1. e = NoSsh
      BY <1>3 DEF Configured
    <2> QED
      BY <1>3, <2>1, RecordTypes
  <1>4. CASE secret \/ code
    <2>1. e = [wired |-> TRUE, kind |-> h.auth,
               files |-> IF h.auth = "key" THEN h.files ELSE {}, code |-> code,
               pass |-> secret /\ world.vault, id |-> world.runtime, first |-> None,
               times |-> 0, opened |-> FALSE]
      BY <1>4 DEF Configured, NoSsh
    <2>2. 0 \in 0..Tries
      BY ConnectAssumption
    <2>3. (secret /\ world.vault) \in BOOLEAN
      BY <1>2
    <2>4. (IF h.auth = "key" THEN h.files ELSE {}) \in SUBSET Files
      BY <1>2
    <2>5. e \in Sshs
      BY <1>2, <2>1, <2>2, <2>3, <2>4 DEF Sshs
    <2>6. secret => (secret /\ world.vault) = world.vault
      BY <1>2, Zenon
    <2>7. e.pass = (secret /\ world.vault)
      BY <2>1
    <2>8. secret => e.pass = world.vault
      BY <2>6, <2>7, Zenon
    <2>9. /\ e.wired /\ e.kind = h.auth
          /\ e.files = IF h.auth = "key" THEN h.files ELSE {}
          /\ ~e.opened /\ e.first = None /\ e.times = 0
      BY <2>1
    <2> HIDE DEF e
    <2> QED
      BY <1>4, <2>5, <2>8, <2>9, Zenon DEF e
  <1> QED
    BY <1>3, <1>4

LEMMA WiringFacts ==
    ASSUME ConnectTypeOK, NEW h \in Hosts, NEW secret \in BOOLEAN, NEW code \in BOOLEAN
    PROVE  LET e == Wiring(h, secret, code)
           IN  /\ e \in Sshs
               /\ e.wired => /\ JumpPlan(h, TRUE) # "terminal"
                             /\ e.kind = h.auth
                             /\ e.files = IF h.auth = "key" THEN h.files ELSE {}
               /\ secret /\ e.wired => e.pass = world.vault
               /\ secret /\ ~e.wired => JumpPlan(h, TRUE) = "terminal"
               /\ e.first = None /\ e.times = 0
  <1>1. world.vault \in BOOLEAN
    BY ConnectAssumption DEF ConnectTypeOK, WorldType
  <1>2. CASE ~(secret \/ code)
    <2>1. Wiring(h, secret, code) = NoSsh
      BY <1>2 DEF Wiring, Configured
    <2> QED
      BY <1>2, <2>1, RecordTypes
  <1>3. CASE (secret \/ code) /\ JumpPlan(h, TRUE) = "terminal"
    <2>1. Wiring(h, secret, code) = NoSsh
      BY <1>3 DEF Wiring
    <2> QED
      BY <1>3, <2>1, RecordTypes
  <1>4. CASE (secret \/ code) /\ JumpPlan(h, TRUE) # "terminal"
    <2>1. Wiring(h, secret, code) = Configured(h, secret, code)
      BY <1>4 DEF Wiring
    <2> DEFINE e == Wiring(h, secret, code)
    <2>2. /\ e \in Sshs /\ e.wired /\ e.kind = h.auth
          /\ e.files = IF h.auth = "key" THEN h.files ELSE {}
          /\ e.first = None /\ e.times = 0
      BY <1>4, <2>1, ConfiguredFacts
    <2>c. secret => Configured(h, secret, code).pass = world.vault
      BY ConfiguredFacts, Zenon
    <2>3. secret => e.pass = world.vault
      BY <2>1, <2>c, Zenon
    <2> HIDE DEF e
    <2> QED
      BY <1>4, <2>2, <2>3, Zenon DEF e
  <1> QED
    BY <1>2, <1>3, <1>4

LEMMA WindowFacts ==
    ASSUME ConnectTypeOK, NEW h \in Hosts, NEW secret \in BOOLEAN
    PROVE  LET e == WindowWiring(h, secret)
           IN  /\ e \in Sshs
               /\ e.wired <=> secret
               /\ e.wired => /\ e.kind = h.auth
                             /\ e.files = IF h.auth = "key" THEN h.files ELSE {}
               /\ ~e.pass /\ e.first = None /\ e.times = 0
  <1>1. Configured(h, secret, FALSE) \in Sshs
    BY ConfiguredFacts
  <1> QED
    BY <1>1, ConfiguredFacts DEF WindowWiring, Sshs

-----------------------------------------------------------------------------
(* One connect takes a step.  The others do not notice.                    *)

LEMMA PhaseStep ==
    ASSUME ConnectTypeOK, NEW p \in Procs, NEW c \in Connects, NEW e \in Sshs,
           c.pc = "idle" <=> c.host = None,
           con' = [con EXCEPT ![p] = c], ssh' = [ssh EXCEPT ![p] = e]
    PROVE  /\ con' \in [Procs -> Connects] /\ ssh' \in [Procs -> Sshs]
           /\ \A q \in Procs : At(q, "idle")' <=> Host(q)' = None
           /\ con'[p] = c /\ ssh'[p] = e
           /\ \A q \in Procs \ {p} : con'[q] = con[q] /\ ssh'[q] = ssh[q]
  BY DEF ConnectTypeOK, At, Host

\* What a connect from the list comes to: the terminal, or a window of tmux.
ListMoves(p, h, c, e) ==
    /\ con' = [con EXCEPT ![p] = c] /\ ssh' = [ssh EXCEPT ![p] = e]
    /\ c.host = h
    /\ \/ c.pc = "look" /\ ~c.tmux /\ e = ssh[p]
       \/ /\ c.pc = "session"
          /\ c.has => JumpPlan(h, TRUE) # "terminal" /\ ~world.vault
          /\ e = WindowWiring(h, c.has)

LEMMA FromListMoves ==
    ASSUME ConnectTypeOK, NEW p \in Procs, NEW h \in Hosts,
           NEW tmux \in BOOLEAN, NEW code \in BOOLEAN, FromList(p, h, tmux, code)
    PROVE  \E c \in Connects, e \in Sshs : ListMoves(p, h, c, e)
  <1>0. (IF code \/ ~tmux THEN {FALSE} ELSE Readings(h.skey)) \subseteq BOOLEAN
    BY DEF Readings
  <1>1. PICK stored \in BOOLEAN :
           LET first == ~code /\ ~stored /\ Assess(h, FALSE) # "connect"
               here == ~tmux \/ TmuxFallback(h, stored, code, first)
           IN  /\ con' = [con EXCEPT ![p] = [pc |-> IF here THEN "look" ELSE "session",
                                             host |-> h, tmux |-> ~here, has |-> stored,
                                             code |-> code]]
               /\ ssh' = IF here THEN ssh ELSE [ssh EXCEPT ![p] = WindowWiring(h, stored)]
    BY <1>0, Zenon DEF FromList
  <1> DEFINE first == ~code /\ ~stored /\ Assess(h, FALSE) # "connect"
             here == ~tmux \/ TmuxFallback(h, stored, code, first)
             c == [pc |-> IF here THEN "look" ELSE "session", host |-> h,
                   tmux |-> ~here, has |-> stored, code |-> code]
             e == IF here THEN ssh[p] ELSE WindowWiring(h, stored)
  <1>2. here \in BOOLEAN
    BY DEF TmuxFallback
  <1>3. c \in Connects
    <2> HIDE DEF here
    <2> QED
      BY <1>2 DEF Connects
  <1>4. con' = [con EXCEPT ![p] = c]
    BY <1>1, Zenon
  <1>5. e \in Sshs /\ ssh' = [ssh EXCEPT ![p] = e]
    <2>1. ssh \in [Procs -> Sshs] /\ WindowWiring(h, stored) \in Sshs
      BY WindowFacts DEF ConnectTypeOK
    <2>2. ssh' = IF here THEN ssh ELSE [ssh EXCEPT ![p] = WindowWiring(h, stored)]
      BY <1>1
    <2> HIDE DEF here
    <2> QED
      BY <2>1, <2>2
  <1>6. ~here /\ stored => JumpPlan(h, TRUE) # "terminal" /\ ~world.vault
    BY DEF TmuxFallback
  <1>7. /\ c.host = h
        /\ \/ c.pc = "look" /\ ~c.tmux /\ e = ssh[p]
           \/ /\ c.pc = "session"
              /\ c.has => JumpPlan(h, TRUE) # "terminal" /\ ~world.vault
              /\ e = WindowWiring(h, c.has)
    <2> HIDE DEF here
    <2> QED
      BY <1>2, <1>6
  <1> HIDE DEF c, e
  <1>8. ListMoves(p, h, c, e)
    BY <1>4, <1>5, <1>7 DEF ListMoves
  <1> QED
    BY <1>3, <1>5, <1>8

Moves(p, c, e) ==
    /\ con' = [con EXCEPT ![p] = c] /\ ssh' = [ssh EXCEPT ![p] = e]
    /\ c.pc = "idle" <=> c.host = None
    /\ Sound(c, e)

\* It gives up, and its ssh is gone or was never counted on.
Quits(p) ==
    /\ con' = [con EXCEPT ![p] = Idle]
    /\ ssh' = [ssh EXCEPT ![p] = NoSsh] \/ (ssh' = ssh /\ Counted(ssh[p]))

LEMMA IdleMoves ==
    ASSUME ConnectTypeOK, NEW p \in Procs, Quits(p)
    PROVE  \E c \in Connects, e \in Sshs : Moves(p, c, e)
  <1>1. \A e : Askful(Idle) /\ Wired(Idle, e) /\ Readable(Idle, e)
    BY RecordTypes DEF Askful, Wired, Readable
  <1>2. Counted(NoSsh)
    BY RecordTypes DEF Counted
  <1>3. \E e \in Sshs : ssh' = [ssh EXCEPT ![p] = e] /\ Counted(e)
    BY <1>2, RecordTypes DEF ConnectTypeOK, Quits
  <1> QED
    BY <1>1, <1>3, RecordTypes DEF Moves, Sound, Quits

\* A step that changes the phase only, and perhaps the ssh.
LEMMA PhaseMoves ==
    ASSUME ConnectInv, NEW p \in Procs, ~At(p, "idle"),
           NEW x \in {"look", "probe", "ask", "verify", "remove", "code"},
           con' = [con EXCEPT ![p].pc = x],
           Askful([con[p] EXCEPT !.pc = x]),
           NEW e \in Sshs, ssh' = [ssh EXCEPT ![p] = e],
           Wired([con[p] EXCEPT !.pc = x], e), Counted(e)
    PROVE  \E c \in Connects, f \in Sshs : Moves(p, c, f)
  <1> DEFINE c == [con[p] EXCEPT !.pc = x]
  <1>1. con[p] \in Connects /\ con[p].host # None
    BY DEF ConnectInv, ConnectTypeOK, At, Host
  <1>2. c \in Connects /\ c.pc = x /\ c.host = con[p].host
    BY <1>1 DEF Connects
  <1>3. con' = [con EXCEPT ![p] = c]
    BY DEF ConnectInv, ConnectTypeOK
  <1>4. Readable(c, e)
    BY <1>2 DEF Readable
  <1> HIDE DEF c
  <1>5. Moves(p, c, e)
    BY <1>1, <1>2, <1>3, <1>4 DEF Moves, Sound, c
  <1> QED
    BY <1>2, <1>5

LEMMA ConnectMoves ==
    ASSUME ConnectInv, NEW p \in Procs, Acts(p)
    PROVE  \E c \in Connects, e \in Sshs : Moves(p, c, e)
  <1>t. /\ ConnectTypeOK /\ con[p] \in Connects /\ ssh[p] \in Sshs
        /\ Sound(con[p], ssh[p]) /\ (At(p, "idle") <=> Host(p) = None)
    BY DEF ConnectInv, ConnectTypeOK
  <1>h. ~At(p, "idle") => Host(p) \in Hosts
    BY <1>t DEF Connects, Host
  <1>s. ssh = [ssh EXCEPT ![p] = ssh[p]]
    BY <1>t DEF ConnectTypeOK
  <1>c. Counted(ssh[p]) /\ Counted(NoSsh)
    BY <1>t, RecordTypes DEF Sound, Counted
  <1>w. \A c : Wired(c, NoSsh)
    BY RecordTypes DEF Wired
  <1>g. ASSUME Forget(p)
        PROVE  \E c \in Connects, e \in Sshs : Moves(p, c, e)
    <2>1. Quits(p)
      BY <1>g DEF Forget, Quits
    <2> QED
      BY <1>t, <2>1, IdleMoves
  <1>1. CASE Command(p)
    <2>1. PICK h \in Hosts : con' = [con EXCEPT ![p].pc = "look", ![p].host = h]
      BY <1>1 DEF Command
    <2> DEFINE c == [con[p] EXCEPT !.pc = "look", !.host = h]
    <2>2. con' = [con EXCEPT ![p] = c]
      BY <1>t, <2>1 DEF ConnectTypeOK
    <2>3. /\ c \in Connects /\ c.pc = "look" /\ c.host = h
          /\ c.tmux = con[p].tmux
      BY <1>t DEF Connects
    <2>4. h # None
      BY ConnectAssumption
    <2>5. ~con[p].tmux
      BY <1>1, <1>t DEF Sound, Askful, Command, At
    <2> HIDE DEF c
    <2>6. Sound(c, ssh[p])
      BY <1>c, <2>3, <2>5 DEF Sound, Askful, Wired, Readable
    <2>7. Moves(p, c, ssh[p])
      BY <1>1, <1>s, <2>2, <2>3, <2>4, <2>6 DEF Moves, Command
    <2> QED
      BY <1>t, <2>3, <2>7
  <1>f. ASSUME NEW h \in Hosts, NEW tmux \in BOOLEAN, NEW code \in BOOLEAN,
               FromList(p, h, tmux, code)
        PROVE  \E c \in Connects, e \in Sshs : Moves(p, c, e)
    <2>a. PICK c \in Connects, e \in Sshs : ListMoves(p, h, c, e)
      BY <1>t, <1>f, FromListMoves
    <2>1. /\ con' = [con EXCEPT ![p] = c] /\ ssh' = [ssh EXCEPT ![p] = e]
          /\ c.host = h
          /\ \/ c.pc = "look" /\ ~c.tmux /\ e = ssh[p]
             \/ /\ c.pc = "session"
                /\ c.has => JumpPlan(h, TRUE) # "terminal" /\ ~world.vault
                /\ e = WindowWiring(h, c.has)
      BY <2>a DEF ListMoves
    <2>2. h # None
      BY ConnectAssumption
    <2>3. CASE c.pc = "look" /\ ~c.tmux /\ e = ssh[p]
      <3>1. Sound(c, e)
        BY <1>c, <2>3 DEF Sound, Askful, Wired, Readable
      <3> QED
        BY <2>1, <2>2, <2>3, <3>1 DEF Moves
    <2>4. CASE /\ c.pc = "session"
               /\ c.has => JumpPlan(h, TRUE) # "terminal" /\ ~world.vault
               /\ e = WindowWiring(h, c.has)
      <3>1. c.has \in BOOLEAN /\ world.vault \in BOOLEAN /\ e.pass \in BOOLEAN
        BY <1>t, ConnectAssumption DEF Connects, Sshs, ConnectTypeOK, WorldType
      <3>2. /\ e.wired <=> c.has
            /\ e.wired => /\ e.kind = h.auth
                          /\ e.files = IF h.auth = "key" THEN h.files ELSE {}
            /\ ~e.pass /\ e.first = None /\ e.times = 0
        BY <1>t, <2>4, <3>1, WindowFacts
      <3>3. Askful(c)
        BY <2>4 DEF Askful
      <3>4. Wired(c, e)
        BY <2>1, <2>4, <3>2 DEF Wired
      <3>5. Readable(c, e)
        BY <2>4, <3>1, <3>2 DEF Readable
      <3>6. Counted(e)
        BY <3>2 DEF Counted
      <3> QED
        BY <2>1, <2>2, <2>4, <3>3, <3>4, <3>5, <3>6 DEF Moves, Sound
    <2> QED
      BY <2>1, <2>3, <2>4
  <1>2. CASE Enter(p)
    <2>1. PICK h \in Hosts, tmux \in BOOLEAN, stored \in BOOLEAN :
             IF h.twofa /\ Assess(h, stored) = "connect"
             THEN /\ con' = [con EXCEPT ![p].pc = "popup", ![p].host = h, ![p].tmux = tmux]
                  /\ ssh' = ssh
             ELSE FromList(p, h, tmux, FALSE)
      BY <1>2 DEF Enter
    <2>2. CASE con' = [con EXCEPT ![p].pc = "popup", ![p].host = h, ![p].tmux = tmux]
               /\ ssh' = ssh
      <3> DEFINE c == [con[p] EXCEPT !.pc = "popup", !.host = h, !.tmux = tmux]
      <3>1. con' = [con EXCEPT ![p] = c]
        BY <1>t, <2>2 DEF ConnectTypeOK
      <3>2. c \in Connects /\ c.pc = "popup" /\ c.host = h
        BY <1>t DEF Connects
      <3>3. h # None
        BY ConnectAssumption
      <3> HIDE DEF c
      <3>4. Sound(c, ssh[p])
        BY <1>c, <3>2 DEF Sound, Askful, Wired, Readable
      <3>5. Moves(p, c, ssh[p])
        BY <1>s, <2>2, <3>1, <3>2, <3>3, <3>4 DEF Moves
      <3> QED
        BY <1>t, <3>2, <3>5
    <2> QED
      BY <1>f, <2>1, <2>2
  <1>3. CASE Popup(p)
    BY <1>3, <1>f, <1>h, <1>t DEF Popup, At, Connects
  <1>4. CASE PopupCancel(p)
    BY <1>4, <1>c, <1>t, IdleMoves DEF PopupCancel, Quits
  <1>5. CASE Look(p)
    <2>1. PICK stored \in BOOLEAN, to \in {"code", "ask", "probe"} :
             /\ con' = [con EXCEPT ![p].pc = to, ![p].has = stored]
             /\ to = "ask" => Assess(Host(p), FALSE) = "password"
             /\ to = "probe" => Assess(Host(p), FALSE) = "probe"
      <3>1. PICK stored \in Readings(Key(p)) :
               LET to == CASE stored -> "code"
                           [] Assess(Host(p), stored) = "password" -> "ask"
                           [] Assess(Host(p), stored) = "probe" -> "probe"
                           [] OTHER -> "code"
               IN  con' = [con EXCEPT ![p].pc = to, ![p].has = stored]
        BY <1>5 DEF Look
      <3>2. stored \in BOOLEAN
        BY <3>1 DEF Readings
      <3>3. CASE stored = TRUE
        <4>1. con' = [con EXCEPT ![p].pc = "code", ![p].has = stored]
          BY <3>1, <3>3 DEF Assess
        <4> QED
          BY <3>2, <4>1
      <3>4. CASE stored = FALSE
        <4>1. CASE Assess(Host(p), FALSE) = "password"
          <5>1. con' = [con EXCEPT ![p].pc = "ask", ![p].has = stored]
            BY <3>1, <3>4, <4>1
          <5> QED
            BY <3>2, <4>1, <5>1
        <4>2. CASE Assess(Host(p), FALSE) = "probe"
          <5>1. con' = [con EXCEPT ![p].pc = "probe", ![p].has = stored]
            BY <3>1, <3>4, <4>2
          <5> QED
            BY <3>2, <4>2, <5>1
        <4>3. CASE Assess(Host(p), FALSE) \notin {"password", "probe"}
          <5>1. con' = [con EXCEPT ![p].pc = "code", ![p].has = stored]
            BY <3>1, <3>4, <4>3
          <5> QED
            BY <3>2, <5>1
        <4> QED
          BY <4>1, <4>2, <4>3
      <3> QED
        BY <3>2, <3>3, <3>4
    <2> DEFINE c == [con[p] EXCEPT !.pc = to, !.has = stored]
    <2>2. con' = [con EXCEPT ![p] = c]
      BY <1>t, <2>1 DEF ConnectTypeOK
    <2>3. c \in Connects /\ c.pc = to /\ c.host = Host(p) /\ c.tmux = con[p].tmux
      BY <1>t DEF Connects, Host
    <2>4. At(p, "look") /\ ssh' = ssh
      BY <1>5 DEF Look
    <2>5. ~con[p].tmux
      BY <1>t, <2>4 DEF Sound, Askful, At
    <2>6. Assess(Host(p), FALSE) = "password" => Host(p).auth # "key"
      BY DEF Assess
    <2> HIDE DEF c
    <2>7. Sound(c, ssh[p])
      BY <1>c, <2>1, <2>3, <2>5, <2>6 DEF Sound, Askful, Wired, Readable
    <2>8. Moves(p, c, ssh[p])
      BY <1>s, <1>t, <2>2, <2>3, <2>4, <2>7 DEF Moves, At
    <2> QED
      BY <1>t, <2>3, <2>8
  <1>6. CASE Probe(p)
    <2>1. At(p, "probe") /\ ssh' = ssh
      BY <1>6 DEF Probe
    <2>2. Assess(Host(p), FALSE) = "probe"
      BY <1>t, <2>1 DEF Sound, Askful, At, Host
    <2>3. \E x \in {"ask", "code"} :
             con' = [con EXCEPT ![p].pc = x] /\ (x = "ask" => ~Host(p).free)
      BY <1>6 DEF Probe, Starts
    <2>4. PICK x \in {"ask", "code"} :
             con' = [con EXCEPT ![p].pc = x] /\ (x = "ask" => ~Host(p).free)
      BY <2>3
    <2> DEFINE c == [con[p] EXCEPT !.pc = x]
    <2>5. c.pc = x /\ c.host = Host(p) /\ c.tmux = con[p].tmux
      BY <1>t DEF Connects, Host
    <2>6. ~con[p].tmux
      BY <1>t, <2>1 DEF Sound, Askful, At
    <2> HIDE DEF c
    <2>7. Askful(c) /\ Wired(c, ssh[p])
      BY <2>2, <2>4, <2>5, <2>6 DEF Askful, Wired
    <2>8. ~At(p, "idle")
      BY <2>1 DEF At
    <2> QED
      BY <1>c, <1>s, <1>t, <2>1, <2>4, <2>7, <2>8, PhaseMoves DEF c
  <1>7. CASE \E v \in Values : Typed(p, v)
    <2>1. At(p, "ask")
      BY <1>7 DEF Typed
    <2>2. /\ Host(p) \in Hosts /\ ~con[p].tmux /\ ~At(p, "idle")
          /\ Assess(Host(p), FALSE) # "connect"
      BY <1>h, <1>t, <2>1 DEF Sound, Askful, At, Host
    <2>3. JumpPlan(Host(p), TRUE) # "terminal"
      BY <2>2 DEF Assess
    <2>4. CASE con' = [con EXCEPT ![p].pc = "code", ![p].has = TRUE] /\ ssh' = ssh
      <3> DEFINE c == [con[p] EXCEPT !.pc = "code", !.has = TRUE]
      <3>1. con' = [con EXCEPT ![p] = c]
        BY <1>t, <2>4 DEF ConnectTypeOK
      <3>2. c \in Connects /\ c.pc = "code" /\ c.host = Host(p) /\ c.tmux = con[p].tmux
        BY <1>t DEF Connects, Host
      <3> HIDE DEF c
      <3>3. Sound(c, ssh[p])
        BY <1>c, <2>2, <3>2 DEF Sound, Askful, Wired, Readable
      <3>4. Moves(p, c, ssh[p])
        BY <1>s, <1>t, <2>2, <2>4, <3>1, <3>2, <3>3 DEF Moves
      <3> QED
        BY <1>t, <3>2, <3>4
    <2>5. CASE Starts(p, "verify") /\ ssh' = [ssh EXCEPT ![p] = Configured(Host(p), TRUE, FALSE)]
      <3> DEFINE e == Configured(Host(p), TRUE, FALSE)
                 c == [con[p] EXCEPT !.pc = "verify"]
      <3>1. e \in Sshs
        BY <1>t, <2>2, ConfiguredFacts
      <3>2. /\ e.kind = Host(p).auth
            /\ e.files = IF Host(p).auth = "key" THEN Host(p).files ELSE {}
            /\ e.first = None /\ e.times = 0
        BY <1>t, <2>2, ConfiguredFacts
      <3>3. c.pc = "verify" /\ c.host = Host(p) /\ c.tmux = con[p].tmux
        BY <1>t DEF Connects, Host
      <3>4. ssh' = [ssh EXCEPT ![p] = e] /\ con' = [con EXCEPT ![p].pc = "verify"]
        BY <2>5 DEF Starts
      <3> HIDE DEF c, e
      <3>5. Askful(c)
        BY <2>2, <3>3 DEF Askful
      <3>6. Wired(c, e)
        BY <2>3, <3>2, <3>3 DEF Wired
      <3>7. Counted(e)
        BY <3>2 DEF Counted
      <3> QED
        BY <1>t, <2>2, <3>1, <3>4, <3>5, <3>6, <3>7, PhaseMoves DEF c
    <2> QED
      BY <1>7, <2>4, <2>5 DEF Typed
  <1>8. CASE Skipped(p)
    <2>1. At(p, "ask") /\ con' = [con EXCEPT ![p].pc = "code"] /\ ssh' = ssh
      BY <1>8 DEF Skipped, Starts
    <2>2. ~con[p].tmux /\ ~At(p, "idle")
      BY <1>t, <2>1 DEF Sound, Askful, At
    <2> DEFINE c == [con[p] EXCEPT !.pc = "code"]
    <2>3. c.pc = "code" /\ c.tmux = con[p].tmux
      BY <1>t DEF Connects
    <2> HIDE DEF c
    <2>4. Askful(c) /\ Wired(c, ssh[p])
      BY <2>2, <2>3 DEF Askful, Wired
    <2> QED
      BY <1>c, <1>s, <1>t, <2>1, <2>2, <2>4, PhaseMoves DEF c
  <1>9. CASE Proved(p)
    <2>1. /\ At(p, "verify") /\ con' = [con EXCEPT ![p].pc = "code", ![p].has = TRUE]
          /\ ssh' = [ssh EXCEPT ![p] = NoSsh]
      BY <1>9 DEF Proved
    <2>2. ~con[p].tmux /\ ~At(p, "idle")
      BY <1>t, <2>1 DEF Sound, Askful, At
    <2> DEFINE c == [con[p] EXCEPT !.pc = "code", !.has = TRUE]
    <2>3. con' = [con EXCEPT ![p] = c]
      BY <1>t, <2>1 DEF ConnectTypeOK
    <2>4. c \in Connects /\ c.pc = "code" /\ c.host = Host(p) /\ c.tmux = con[p].tmux
      BY <1>t DEF Connects, Host
    <2> HIDE DEF c
    <2>5. Sound(c, NoSsh)
      BY <1>c, <2>2, <2>4 DEF Sound, Askful, Wired, Readable
    <2>6. Moves(p, c, NoSsh)
      BY <1>t, <2>1, <2>2, <2>3, <2>4, <2>5 DEF Moves
    <2> QED
      BY <2>4, <2>6, RecordTypes
  <1>10. CASE NotProved(p)
    <2>1. /\ At(p, "verify") /\ con' = [con EXCEPT ![p].pc = "remove"]
          /\ ssh' = [ssh EXCEPT ![p] = NoSsh]
      BY <1>10 DEF NotProved, Starts
    <2>2. ~con[p].tmux /\ ~At(p, "idle")
      BY <1>t, <2>1 DEF Sound, Askful, At
    <2> DEFINE c == [con[p] EXCEPT !.pc = "remove"]
    <2>3. c.pc = "remove" /\ c.tmux = con[p].tmux
      BY <1>t DEF Connects
    <2> HIDE DEF c
    <2>4. Askful(c) /\ Wired(c, NoSsh)
      BY <1>w, <2>2, <2>3 DEF Askful
    <2> QED
      BY <1>c, <2>1, <2>2, <2>4, RecordTypes, PhaseMoves DEF c
  <1>11. CASE Remove(p)
    BY <1>11, <1>g DEF Remove
  <1>12. CASE Handoff(p)
    <2>1. At(p, "code")
      BY <1>12 DEF Handoff
    <2>2. Host(p) \in Hosts /\ ~con[p].tmux /\ ~At(p, "idle") /\ con[p].has \in BOOLEAN
      BY <1>h, <1>t, <2>1 DEF Sound, Askful, At, Connects
    <2>3. PICK code \in BOOLEAN :
             /\ con' = [con EXCEPT ![p].pc = "session", ![p].code = code]
             /\ ssh' = [ssh EXCEPT ![p] = Wiring(Host(p), con[p].has, code)]
      <3>1. con[p].code \in BOOLEAN
        BY <1>t DEF Connects
      <3> QED
        BY <1>12, <3>1 DEF Handoff
    <2> DEFINE c == [con[p] EXCEPT !.pc = "session", !.code = code]
               e == Wiring(Host(p), con[p].has, code)
    <2>4. con' = [con EXCEPT ![p] = c] /\ ssh' = [ssh EXCEPT ![p] = e]
      BY <1>t, <2>3 DEF ConnectTypeOK
    <2>5. /\ c \in Connects /\ c.pc = "session" /\ c.host = Host(p)
          /\ c.tmux = con[p].tmux /\ c.has = con[p].has
      BY <1>t DEF Connects, Host
    <2>6. /\ e \in Sshs
          /\ e.wired => /\ JumpPlan(Host(p), TRUE) # "terminal"
                        /\ e.kind = Host(p).auth
                        /\ e.files = IF Host(p).auth = "key" THEN Host(p).files ELSE {}
          /\ con[p].has /\ ~e.wired => JumpPlan(Host(p), TRUE) = "terminal"
          /\ e.first = None /\ e.times = 0
      BY <1>t, <2>2, WiringFacts
    <2>7. con[p].has /\ e.wired => e.pass = world.vault
      BY <1>t, <2>2, WiringFacts, Zenon
    <2> HIDE DEF c, e
    <2>8. Readable(c, e)
      BY <2>2, <2>5, <2>6, <2>7 DEF Readable
    <2>9. Askful(c)
      BY <2>5 DEF Askful
    <2>10. Wired(c, e)
      BY <2>5, <2>6 DEF Wired
    <2>11. Counted(e)
      BY <2>6 DEF Counted
    <2>12. Moves(p, c, e)
      BY <1>t, <2>2, <2>4, <2>5, <2>8, <2>9, <2>10, <2>11 DEF Moves, Sound
    <2> QED
      BY <2>5, <2>6, <2>12
  <1>13. CASE Cancel(p)
    BY <1>13, <1>g DEF Cancel
  <1>14. CASE Ends(p)
    BY <1>14, <1>g DEF Ends
  <1>15. CASE Killed(p)
    BY <1>15, <1>g DEF Killed
  <1>16. CASE \E by \in {"target", "hop"}, q \in Prompts : Answered(p, by, q)
    <2>1. PICK by \in {"target", "hop"}, q \in Prompts : Answered(p, by, q)
      BY <1>16
    <2> DEFINE first == IF ssh[p].first = None THEN q ELSE ssh[p].first
               gets == by = "target" /\ vault[Key(p)] \in Right[Key(p)]
               f == [ssh[p] EXCEPT !.first = first, !.opened = ssh[p].opened \/ gets,
                                   !.times = IF first = q THEN ssh[p].times + 1
                                             ELSE ssh[p].times]
               g == [ssh[p] EXCEPT !.first = first]
    <2>2. /\ At(p, "verify") \/ At(p, "session")
          /\ ssh[p].first = q => ssh[p].times < Tries
          /\ ~(ssh[p].id /\ ssh[p].first = q)
          /\ Classify(ssh[p], q) = "secret"
          /\ con' = con
      BY <2>1 DEF Answered, Asks, Repeated
    <2>3. ssh' = [ssh EXCEPT ![p] = f] \/ ssh' = [ssh EXCEPT ![p] = g]
      BY <1>t, <2>1 DEF Answered, ConnectTypeOK
    <2>4. q # None /\ q \in Prompts
      BY ConnectAssumption DEF Prompts
    <2>5. first \in Prompts /\ first # None
      BY <1>t, <2>4 DEF Sshs
    <2>6. Tries \in Nat \ {0} /\ ssh[p].times \in 0..Tries
      BY <1>t, ConnectAssumption DEF Sshs
    <2> HIDE DEF first
    <2>7. (ssh[p].first = None => ssh[p].times = 0) /\ (ssh[p].id => ssh[p].times <= 1)
      BY <1>c DEF Counted
    <2>8. \E e \in Sshs : ssh' = [ssh EXCEPT ![p] = e] /\ Counted(e)
                             /\ e.wired = ssh[p].wired /\ e.kind = ssh[p].kind
                             /\ e.files = ssh[p].files /\ e.pass = ssh[p].pass
      <3>1. CASE ssh' = [ssh EXCEPT ![p] = f]
        <4> DEFINE t == IF first = q THEN ssh[p].times + 1 ELSE ssh[p].times
        <4>1. t \in 0..Tries /\ (ssh[p].id => t <= 1)
          BY <2>2, <2>4, <2>6, <2>7 DEF first
        <4> HIDE DEF t
        <4>2. (ssh[p].opened \/ gets) \in BOOLEAN
          BY <1>t DEF Sshs
        <4> HIDE DEF gets
        <4>3. f = [ssh[p] EXCEPT !.first = first, !.opened = ssh[p].opened \/ gets, !.times = t]
          BY DEF t
        <4>4. /\ f \in Sshs /\ f.first = first /\ f.times = t /\ f.id = ssh[p].id
              /\ f.wired = ssh[p].wired /\ f.kind = ssh[p].kind
              /\ f.files = ssh[p].files /\ f.pass = ssh[p].pass
          BY <1>t, <2>5, <4>1, <4>2, <4>3 DEF Sshs
        <4> HIDE DEF f
        <4>5. Counted(f)
          BY <2>5, <4>1, <4>4 DEF Counted
        <4> QED
          BY <3>1, <4>4, <4>5
      <3>2. CASE ssh' = [ssh EXCEPT ![p] = g]
        <4>1. /\ g \in Sshs /\ g.first = first /\ g.times = ssh[p].times /\ g.id = ssh[p].id
              /\ g.wired = ssh[p].wired /\ g.kind = ssh[p].kind
              /\ g.files = ssh[p].files /\ g.pass = ssh[p].pass
          BY <1>t, <2>5 DEF Sshs
        <4> HIDE DEF g
        <4>2. Counted(g)
          BY <2>5, <2>7, <4>1 DEF Counted
        <4> QED
          BY <3>2, <4>1, <4>2
      <3> QED
        BY <2>3, <3>1, <3>2
    <2>9. PICK e \in Sshs : /\ ssh' = [ssh EXCEPT ![p] = e] /\ Counted(e)
                             /\ e.wired = ssh[p].wired /\ e.kind = ssh[p].kind
                             /\ e.files = ssh[p].files /\ e.pass = ssh[p].pass
      BY <2>8
    <2>10. Sound(con[p], e)
      BY <1>t, <2>9 DEF Sound, Wired, Readable
    <2>11. con' = [con EXCEPT ![p] = con[p]]
      BY <1>t, <2>2 DEF ConnectTypeOK
    <2>12. Moves(p, con[p], e)
      BY <1>t, <2>9, <2>10, <2>11 DEF Moves, At, Host
    <2> QED
      BY <1>t, <2>12
  <1> QED
    BY <1>1, <1>2, <1>3, <1>4, <1>5, <1>6, <1>7, <1>8, <1>9, <1>10, <1>11, <1>12, <1>13,
       <1>14, <1>15, <1>16 DEF Acts

-----------------------------------------------------------------------------
(* The keys of the store.                                                  *)

LEMMA OwersDiffer ==
    /\ "nobody" \notin Procs /\ "unproved" \notin Procs /\ "unasked" \notin Procs
    /\ NoSecret \notin Values
  BY ConnectAssumption

Quietly == vault' = vault /\ owed' = owed

\* A connect that proves nothing and removes nothing has no key to its name.
LEMMA QuietStep ==
    ASSUME ConnectInv, NEW p \in Procs, ~At(p, "verify"), ~At(p, "remove"), Quietly,
           \A q \in Procs \ {p} : con'[q] = con[q] /\ ssh'[q] = ssh[q]
    PROVE  \A k \in Keys : Owing(k)' /\ Kept(k)' /\ Opened(k)'
  <1> TAKE k \in Keys
  <1>1. Owing(k) /\ Kept(k) /\ Opened(k)
    BY DEF ConnectInv
  <1>2. owed[k] # p
    BY <1>1 DEF Owing
  <1> QED
    BY <1>1, <1>2 DEF Owing, Kept, Opened, At, Key, Host, Quietly

LEMMA KeyStep ==
    ASSUME ConnectInv, NEW p \in Procs, Acts(p)
    PROVE  /\ vault' \in [Keys -> Values \cup {NoSecret}]
           /\ owed' \in [Keys -> Procs \cup {"nobody", "unproved", "unasked"}]
           /\ \A k \in Keys : Owing(k)' /\ Kept(k)' /\ Opened(k)'
  <1>t. /\ vault \in [Keys -> Values \cup {NoSecret}]
        /\ owed \in [Keys -> Procs \cup {"nobody", "unproved", "unasked"}]
        /\ con \in [Procs -> Connects] /\ ssh \in [Procs -> Sshs]
    BY DEF ConnectInv, ConnectTypeOK
  <1>k. \A k \in Keys : Owing(k) /\ Kept(k) /\ Opened(k)
    BY DEF ConnectInv
  <1>o. \A q \in Procs \ {p} : con'[q] = con[q] /\ ssh'[q] = ssh[q]
    <2>1. PICK c \in Connects, e \in Sshs : Moves(p, c, e)
      BY ConnectMoves
    <2> QED
      BY <1>t, <2>1 DEF Moves
  <1>h. Host(p) \in Hosts => Key(p) \in Keys
    BY ConnectAssumption DEF Key, HostType
  <1>i. (At(p, "idle") <=> Host(p) = None) /\ (~At(p, "idle") => Host(p) \in Hosts)
    BY DEF ConnectInv, ConnectTypeOK, Connects, Host
  <1>1. CASE Quietly /\ ~At(p, "verify") /\ ~At(p, "remove")
    <2>1. \A k \in Keys : Owing(k)' /\ Kept(k)' /\ Opened(k)'
      BY <1>o, <1>1, QuietStep
    <2> QED
      BY <1>1, <1>t, <2>1 DEF Quietly
  <1>2. CASE \E v \in Values : Typed(p, v)
    <2>1. PICK v \in Values : Typed(p, v)
      BY <1>2
    <2>2. At(p, "ask") /\ Key(p) \in Keys /\ vault' = [vault EXCEPT ![Key(p)] = v]
      BY <1>h, <1>i, <2>1 DEF Typed, At
    <2>3. \A k \in Keys : owed[k] # p
      BY <1>k, <2>2 DEF Owing, At
    <2>4. CASE owed' = [owed EXCEPT ![Key(p)] = "unproved"]
      <3>1. ASSUME NEW k \in Keys
            PROVE  Owing(k)' /\ Kept(k)' /\ Opened(k)'
        BY <1>t, <1>k, <1>o, <2>2, <2>3, <2>4, OwersDiffer
           DEF Owing, Kept, Opened, At, Key, Host
      <3> QED
        BY <1>t, <2>2, <2>4, <3>1
    <2>5. CASE /\ owed' = [owed EXCEPT ![Key(p)] = p] /\ Starts(p, "verify")
               /\ ssh' = [ssh EXCEPT ![p] = Configured(Host(p), TRUE, FALSE)]
      <3>1. con'[p].pc = "verify" /\ con'[p].host = con[p].host
        BY <1>t, <2>5 DEF Starts, Connects
      <3>2. ssh'[p] = Configured(Host(p), TRUE, FALSE)
        BY <1>t, <2>5
      <3>3. ~ssh'[p].opened
        BY <1>i, <2>2, <3>2, ConfiguredFacts DEF ConnectInv, At
      <3>4. ASSUME NEW k \in Keys
            PROVE  Owing(k)' /\ Kept(k)' /\ Opened(k)'
        <4>1. owed'[k] = IF k = Key(p) THEN p ELSE owed[k]
          BY <1>t, <2>2, <2>5
        <4>2. vault'[k] = IF k = Key(p) THEN v ELSE vault[k]
          BY <1>t, <2>2
        <4>3. Owing(k)'
          BY <1>k, <1>o, <2>3, <3>1, <4>1 DEF Owing, At, Key, Host
        <4>4. Kept(k)'
          BY <1>k, <4>1, <4>2 DEF Kept
        <4>5. Opened(k)'
          BY <1>k, <1>o, <2>3, <3>3, <4>1, <4>2 DEF Opened, At
        <4> QED
          BY <4>3, <4>4, <4>5
      <3> QED
        BY <1>t, <2>2, <2>5, <3>4
    <2> QED
      BY <2>1, <2>4, <2>5 DEF Typed
  <1>e. ASSUME NEW why \in {"nobody", "unproved", "unasked"}, vault' = vault,
               owed' = Excused(p, why),
               why = "nobody" => \A k \in Keys : owed[k] = p => vault[k] \in Right[k]
        PROVE  /\ vault' \in [Keys -> Values \cup {NoSecret}]
               /\ owed' \in [Keys -> Procs \cup {"nobody", "unproved", "unasked"}]
               /\ \A k \in Keys : Owing(k)' /\ Kept(k)' /\ Opened(k)'
    <2>1. owed' \in [Keys -> Procs \cup {"nobody", "unproved", "unasked"}]
      BY <1>t, <1>e DEF Excused
    <2>2. ASSUME NEW k \in Keys
          PROVE  Owing(k)' /\ Kept(k)' /\ Opened(k)'
      <3>1. owed'[k] = IF owed[k] = p THEN why ELSE owed[k]
        BY <1>e DEF Excused
      <3>2. why \notin Procs
        BY OwersDiffer
      <3> QED
        BY <1>t, <1>k, <1>o, <1>e, <3>1, <3>2 DEF Owing, Kept, Opened, At, Key, Host
    <2> QED
      BY <1>e, <1>t, <2>1, <2>2
  <1>3. CASE Proved(p)
    <2>1. ssh[p].opened => \A k \in Keys : owed[k] = p => vault[k] \in Right[k]
      BY <1>3, <1>k DEF Proved, Opened
    <2> QED
      BY <1>3, <1>e, <2>1 DEF Proved
  <1>4. CASE NotProved(p)
    <2>1. con'[p].pc = "remove" /\ con'[p].host = con[p].host
      BY <1>4, <1>t DEF NotProved, Starts, Connects
    <2>2. vault' = vault /\ owed' = owed
      BY <1>4 DEF NotProved
    <2>3. ASSUME NEW k \in Keys
          PROVE  Owing(k)' /\ Kept(k)' /\ Opened(k)'
      BY <1>k, <1>o, <2>1, <2>2 DEF Owing, Kept, Opened, At, Key, Host
    <2> QED
      BY <1>t, <2>2, <2>3
  <1>5. CASE Remove(p)
    <2>1. At(p, "remove") /\ Key(p) \in Keys
      BY <1>5, <1>h, <1>i DEF Remove, At
    <2>2. CASE /\ vault' = [vault EXCEPT ![Key(p)] = NoSecret]
               /\ owed' = [owed EXCEPT ![Key(p)] = "nobody"]
      <3>1. \A k \in Keys : owed[k] = p => k = Key(p)
        BY <1>k DEF Owing
      <3>2. ASSUME NEW k \in Keys
            PROVE  Owing(k)' /\ Kept(k)' /\ Opened(k)'
        BY <1>t, <1>k, <1>o, <2>1, <2>2, <3>1, OwersDiffer
           DEF Owing, Kept, Opened, At, Key, Host
      <3> QED
        BY <1>t, <2>1, <2>2, <3>2
    <2> QED
      BY <1>5, <1>e, <2>2 DEF Remove
  <1>6. CASE Killed(p)
    BY <1>6, <1>e DEF Killed
  <1>7. CASE \E by \in {"target", "hop"}, q \in Prompts : Answered(p, by, q)
    <2>1. PICK by \in {"target", "hop"}, q \in Prompts : Answered(p, by, q)
      BY <1>7
    <2>2. vault' = vault /\ owed' = owed /\ con' = con
      BY <2>1 DEF Answered
    <2>3. ssh'[p].opened => ssh[p].opened \/ vault[Key(p)] \in Right[Key(p)]
      BY <1>t, <2>1 DEF Answered, Sshs
    <2>4. ASSUME NEW k \in Keys
          PROVE  Owing(k)' /\ Kept(k)' /\ Opened(k)'
      <3>1. Owing(k)' /\ Kept(k)'
        BY <1>k, <2>2 DEF Owing, Kept, At, Key, Host
      <3>2. Opened(k)'
        BY <1>k, <1>o, <2>2, <2>3 DEF Owing, Opened, At, Key, Host
      <3> QED
        BY <3>1, <3>2
    <2> QED
      BY <1>t, <2>2, <2>4
  <1>8. CASE Enter(p)
    BY <1>1, <1>8 DEF Enter, FromList, Quietly, At
  <1>9. CASE Popup(p)
    BY <1>1, <1>9 DEF Popup, FromList, Quietly, At
  <1>10. CASE Command(p) \/ PopupCancel(p) \/ Look(p) \/ Probe(p) \/ Skipped(p)
    BY <1>1, <1>10 DEF Command, PopupCancel, Look, Probe, Skipped, Quietly, At
  <1>11. CASE Handoff(p) \/ Cancel(p) \/ Ends(p)
    BY <1>1, <1>11 DEF Handoff, Cancel, Ends, Quietly, At
  <1> QED
    BY <1>2, <1>3, <1>4, <1>5, <1>6, <1>7, <1>8, <1>9, <1>10, <1>11 DEF Acts

-----------------------------------------------------------------------------
(* The invariant.                                                          *)

LEMMA ConnectStarts == Init => ConnectInv
  <1> SUFFICES ASSUME Init PROVE ConnectInv
    OBVIOUS
  <1>1. \A p \in Procs : con[p] = Idle /\ ssh[p] = NoSsh
    BY DEF Init
  <1>2. ConnectTypeOK
    <2>1. con \in [Procs -> Connects] /\ ssh \in [Procs -> Sshs]
      BY RecordTypes DEF Init
    <2>2. \A p \in Procs : At(p, "idle") <=> Host(p) = None
      BY <1>1, RecordTypes DEF At, Host
    <2> QED
      BY <2>1, <2>2 DEF Init, ConnectTypeOK
  <1>3. \A p \in Procs : Sound(con[p], ssh[p])
    <2>1. Askful(Idle) /\ Wired(Idle, NoSsh) /\ Readable(Idle, NoSsh)
      BY RecordTypes DEF Askful, Wired, Readable
    <2>2. Counted(NoSsh)
      BY RecordTypes DEF Counted
    <2> QED
      BY <1>1, <2>1, <2>2 DEF Sound
  <1>4. \A k \in Keys : Owing(k) /\ Kept(k) /\ Opened(k)
    BY OwersDiffer DEF Init, Owing, Kept, Opened
  <1> QED
    BY <1>2, <1>3, <1>4 DEF ConnectInv

LEMMA ConnectStays == ConnectInv /\ [Next]_connectVars => ConnectInv'
  <1> SUFFICES ASSUME ConnectInv, [Next]_connectVars PROVE ConnectInv'
    OBVIOUS
  <1>t. ConnectTypeOK
    BY DEF ConnectInv
  <1>1. ASSUME NEW p \in Procs, Acts(p)
        PROVE  ConnectInv'
    <2>1. PICK c \in Connects, e \in Sshs : Moves(p, c, e)
      BY <1>1, ConnectMoves
    <2>2. /\ con' \in [Procs -> Connects] /\ ssh' \in [Procs -> Sshs]
          /\ \A q \in Procs : At(q, "idle")' <=> Host(q)' = None
          /\ con'[p] = c /\ ssh'[p] = e
          /\ \A q \in Procs \ {p} : con'[q] = con[q] /\ ssh'[q] = ssh[q]
      BY <1>t, <2>1 DEF Moves, ConnectTypeOK, At, Host
    <2>3. world' = world
      BY <1>1 DEF Acts, Command, Enter, Popup, PopupCancel, FromList, Look, Probe, Typed,
                  Skipped, Proved, NotProved, Remove, Handoff, Cancel, Ends, Killed, Answered
    <2>4. /\ vault' \in [Keys -> Values \cup {NoSecret}]
          /\ owed' \in [Keys -> Procs \cup {"nobody", "unproved", "unasked"}]
          /\ \A k \in Keys : Owing(k)' /\ Kept(k)' /\ Opened(k)'
      BY <1>1, KeyStep
    <2>5. ConnectTypeOK'
      BY <1>t, <2>2, <2>3, <2>4 DEF ConnectTypeOK
    <2>6. ASSUME NEW q \in Procs
          PROVE  Sound(con[q], ssh[q])'
      BY <2>1, <2>2, <2>3 DEF ConnectInv, Moves, Sound, Askful, Wired, Readable, Counted
    <2> QED
      BY <2>4, <2>5, <2>6 DEF ConnectInv
  <1>2. ASSUME NEW k \in Keys, SetByHand(k)
        PROVE  ConnectInv'
    <2>1. /\ world' = world /\ con' = con /\ ssh' = ssh
          /\ owed' = [owed EXCEPT ![k] = "unproved"]
          /\ vault' \in [Keys -> Values \cup {NoSecret}]
          /\ \A l \in Keys \ {k} : vault'[l] = vault[l]
      BY <1>t, <1>2 DEF SetByHand, ConnectTypeOK
    <2>2. ConnectTypeOK'
      BY <1>t, <2>1 DEF ConnectTypeOK, At, Host
    <2>3. \A q \in Procs : Sound(con[q], ssh[q])'
      BY <2>1 DEF ConnectInv, Sound, Askful, Wired, Readable, Counted
    <2>4. ASSUME NEW l \in Keys
          PROVE  Owing(l)' /\ Kept(l)' /\ Opened(l)'
      <3>1. owed'[l] = IF l = k THEN "unproved" ELSE owed[l]
        BY <1>t, <2>1 DEF ConnectTypeOK
      <3> QED
        BY <2>1, <3>1, OwersDiffer DEF ConnectInv, Owing, Kept, Opened, At, Key, Host
    <2> QED
      BY <2>2, <2>3, <2>4 DEF ConnectInv
  <1>3. CASE UNCHANGED connectVars
    BY <1>3 DEF connectVars, ConnectInv, ConnectTypeOK, Sound, Askful, Wired, Readable,
                Counted, Owing, Kept, Opened, At, Key, Host
  <1> QED
    BY <1>1, <1>2, <1>3 DEF Next, Acts

\* The inductive invariant: how each connect is wired, and who owes a proof of what.
THEOREM ConnectInvariant == Spec => []ConnectInv
  BY ConnectStarts, ConnectStays, PTL DEF Spec

\* The state of every connect, of its ssh and of the store has its type (the type
\* invariant of Connect).
THEOREM ConnectTypeCorrect == Spec => []ConnectTypeOK
  <1>1. ConnectInv => ConnectTypeOK
    BY DEF ConnectInv
  <1> QED
    BY <1>1, ConnectInvariant, PTL

\* A secret asked for on a connect stays only once it worked, or for a reason the
\* user was told (src/src/main.rs:1896, capture_first_secret).
THEOREM OnlyProvedSecretsStay == Spec => []KeptIsProved
  <1>1. ConnectInv => KeptIsProved
    BY DEF ConnectInv, KeptIsProved, Kept, Owing
  <1> QED
    BY <1>1, ConnectInvariant, PTL

\* No jump host is given the secret or the code of its target, and no prompt the
\* answer to another (src/src/ssh.rs:262, connect_command; src/src/askpass.rs:107,
\* classify).
THEOREM SecretsStayOnTarget == Spec => []AnswersMatch
  <1>1. ConnectInv => AnswersMatch
    <2> SUFFICES ASSUME ConnectInv, NEW p \in Procs, NEW by \in {"target", "hop"},
                        NEW q \in Prompts, Asks(p, by, q),
                        Classify(ssh[p], q) # "nothing"
                 PROVE  /\ by = "target"
                        /\ IF Classify(ssh[p], q) = "code" THEN q \notin {"password"} \cup Files
                           ELSE IF Host(p).auth = "password" THEN q = "password"
                           ELSE Host(p).auth = "key" /\ q \in Host(p).files
      BY DEF AnswersMatch
    <2>1. /\ Wired(con[p], ssh[p]) /\ ssh[p] \in Sshs
          /\ ~At(p, "idle") => Host(p) \in HostType
      BY ConnectAssumption DEF ConnectInv, ConnectTypeOK, Sound, Connects, Host, At
    <2>2. /\ JumpPlan(Host(p), TRUE) # "terminal"
          /\ ssh[p].kind = Host(p).auth
          /\ ssh[p].files = IF Host(p).auth = "key" THEN Host(p).files ELSE {}
          /\ ssh[p].wired /\ Host(p) \in HostType
      BY <2>1 DEF Wired, Asks, At, Host
    <2>3. by = "target"
      BY <2>2 DEF Asks, JumpPlan
    <2>4. Classify(ssh[p], q) = "code" => q \notin {"password"} \cup Files
      BY DEF Classify
    <2>5. Classify(ssh[p], q) = "secret" =>
             IF Host(p).auth = "password" THEN q = "password"
             ELSE Host(p).auth = "key" /\ q \in Host(p).files
      BY <2>2, ConnectAssumption DEF Classify
    <2>6. Classify(ssh[p], q) \in {"code", "secret"}
      BY DEF Classify
    <2> QED
      BY <2>3, <2>4, <2>5, <2>6
  <1> QED
    BY <1>1, ConnectInvariant, PTL

\* The first question of a connect gets the stored secret once, wherever a marker
\* can be kept (src/src/askpass.rs:200, mark).
THEOREM RefusedSecretsAreSpent == Spec => []RefusedOnce
  <1>1. ConnectInv => RefusedOnce
    BY DEF ConnectInv, RefusedOnce, Sound, Counted
  <1> QED
    BY <1>1, ConnectInvariant, PTL

\* Nobody is asked for a secret in vain, and an ssh that starts on one can read it
\* (src/src/first_connect.rs:22, assess; src/src/ssh.rs:333, tmux_fallback).
THEOREM AskedSecretsAreUsable == Spec => []SecretIsUsable
  <1>1. ConnectInv => SecretIsUsable
    <2> SUFFICES ASSUME ConnectInv, NEW p \in Procs
                 PROVE  LET h == Host(p)
                            e == Configured(h, TRUE, FALSE)
                        IN  /\ At(p, "ask") =>
                                /\ JumpPlan(h, TRUE) # "terminal"
                                /\ h.auth = "key" => ~h.free
                                /\ \E q \in Prompts : Classify(e, q) = "secret"
                                                      /\ (q \in Files => q \in Sealed)
                            /\ At(p, "session") /\ con[p].has =>
                                IF ssh[p].wired THEN ssh[p].pass = world.vault
                                ELSE JumpPlan(h, TRUE) = "terminal" /\ ~con[p].tmux
      BY Zenon DEF SecretIsUsable
    <2> DEFINE h == Host(p)
               e == Configured(h, TRUE, FALSE)
    <2>1. ConnectTypeOK /\ Sound(con[p], ssh[p])
      BY DEF ConnectInv
    <2>2. CASE At(p, "ask")
      <3>1. h \in Hosts /\ h \in HostType
        BY <2>1, <2>2, ConnectAssumption DEF ConnectTypeOK, Connects, Host, At
      <3>2. Assess(h, FALSE) # "connect" /\ (h.auth = "key" => ~h.free)
        BY <2>1, <2>2 DEF Sound, Askful, Host, At
      <3>3. JumpPlan(h, TRUE) # "terminal" /\ (h.auth = "password" \/ Askable(h) # {})
        BY <3>2 DEF Assess
      <3>4. e.kind = h.auth /\ e.files = IF h.auth = "key" THEN h.files ELSE {}
        BY <2>1, <3>1, ConfiguredFacts
      <3> HIDE DEF e
      <3>5. CASE h.auth = "password"
        <4>1. Classify(e, "password") = "secret" /\ "password" \notin Files
          BY <3>4, <3>5, ConnectAssumption DEF Classify
        <4> QED
          BY <2>2, <3>2, <3>3, <4>1 DEF Prompts, At, e
      <3>6. CASE h.auth # "password"
        <4>1. PICK q \in Askable(h) : TRUE
          BY <3>3, <3>6
        <4>2. /\ h.auth = "key" /\ q \in h.files /\ q \in Sealed /\ q \notin Long
              /\ q \in Files /\ q # "password"
          BY <3>1, <4>1, ConnectAssumption DEF Askable
        <4>3. Classify(e, q) = "secret"
          BY <3>4, <4>2 DEF Classify
        <4> QED
          BY <2>2, <3>2, <3>3, <4>2, <4>3 DEF Prompts, At, e
      <3> QED
        BY <3>5, <3>6
    <2>3. CASE At(p, "session")
      BY <2>1, <2>3 DEF Sound, Readable, At, Host
    <2> QED
      BY <2>2, <2>3
  <1> QED
    BY <1>1, ConnectInvariant, PTL
=============================================================================
