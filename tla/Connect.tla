-------------------------------- MODULE Connect --------------------------------
(***************************************************************************)
(* Connecting to a host: the decisions before ssh takes over (the one-time *)
(* code, the first secret, tmux), how ssh is wired to the askpass helper,  *)
(* and what the helper answers while ssh runs (src/src/first_connect.rs,   *)
(* src/src/ssh.rs, src/src/askpass.rs, the connect path of src/src/main.rs *)
(* and of src/src/app.rs).                                                 *)
(*                                                                         *)
(* Several connects run at once and share one secret store; hosts may      *)
(* share a key of it.  A first secret is stored before it is proved, since *)
(* only the helper can carry it to ssh; ssh may ask anything, its hop may  *)
(* too, and the helper reads the store when it is asked.  The network      *)
(* fails, the store fails, the user cancels and processes are killed.      *)
(* What is printed and the argv beyond its jump plan are left out.         *)
(***************************************************************************)
EXTENDS FiniteSets, Naturals

CONSTANTS
    Procs,   \* sshelf processes, each with the ssh it runs or becomes
    Hosts,   \* what is known of a host, see HostType
    Keys,    \* keys of the secret store
    Files,   \* identity files
    Sealed,  \* those that need a passphrase
    Long,    \* those whose path ssh's prompt cuts short
    Values,  \* what a user may type for a secret
    Right,   \* the values that get in, for each key of the store
    Worlds,  \* what the machine offers, see WorldType
    Tries,   \* bound: how often ssh asks one question
    NoSecret,
    None

Auths == {"password", "key", "agent"}

\* jump: no jump host, one that can be put into a ProxyCommand, one that cannot,
\* several.  free: ssh gets in without asking, by an agent or an open key.
HostType == [auth : Auths, files : SUBSET Files, jump : {"none", "one", "odd", "many"},
             twofa : BOOLEAN, skey : Keys, free : BOOLEAN]

\* vault: the vault passphrase is in the environment; tmux3: tmux takes -e;
\* runtime: there is a private runtime directory.
WorldType == [vault : BOOLEAN, tmux3 : BOOLEAN, runtime : BOOLEAN]

ASSUME ConnectAssumption ==
    /\ Hosts \subseteq HostType
    /\ Worlds \subseteq WorldType
    /\ Sealed \subseteq Files
    /\ Right \in [Keys -> SUBSET Values]
    /\ Tries \in Nat \ {0}
    /\ NoSecret \notin Values
    /\ None \notin Hosts
    /\ None \notin Files \cup {"password", "other", "cut"}
    /\ {"nobody", "unproved", "unasked"} \cap Procs = {}
    /\ {"password", "other", "cut"} \cap Files = {}

VARIABLES
    world, \* what the machine offers
    vault, \* the secret store: the vault or the keyring
    con,   \* the connects
    ssh,   \* what each one's ssh and helper know
    owed   \* history: who has yet to prove what is stored, or why nobody will

connectVars == <<world, vault, con, ssh, owed>>

Prompts == {"password", "other", "cut"} \cup Files

Idle == [pc |-> "idle", host |-> None, tmux |-> FALSE, has |-> FALSE, code |-> FALSE]

Connects ==
    [pc : {"idle", "popup", "look", "probe", "ask", "verify", "remove", "code", "session"},
     host : Hosts \cup {None}, tmux : BOOLEAN, has : BOOLEAN, code : BOOLEAN]

\* first, times: history, the first prompt answered with the secret and how often.
\* The marker of the helper is first, when there is an id to keep it under.
NoSsh == [wired |-> FALSE, kind |-> None, files |-> {}, code |-> FALSE, pass |-> FALSE,
          id |-> FALSE, first |-> None, times |-> 0, opened |-> FALSE]

Sshs == [wired : BOOLEAN, kind : Auths \cup {None}, files : SUBSET Files, code : BOOLEAN,
         pass : BOOLEAN, id : BOOLEAN, first : Prompts \cup {None}, times : 0..Tries,
         opened : BOOLEAN]

Init ==
    /\ world \in Worlds
    /\ vault = [k \in Keys |-> NoSecret]
    /\ con = [p \in Procs |-> Idle]
    /\ ssh = [p \in Procs |-> NoSsh]
    /\ owed = [k \in Keys |-> "nobody"]

At(p, phase) == con[p].pc = phase
Host(p) == con[p].host
Key(p) == Host(p).skey
-----------------------------------------------------------------------------
(* Decisions.                                                              *)

\* How the jump chain is expressed, given whether the helper is wired.
JumpPlan(h, askpass) ==
    IF ~askpass \/ h.jump = "none" THEN "direct"
    ELSE IF h.jump = "one" THEN "proxy"
    ELSE "terminal"

\* Mutant: a path too long for the prompt is asked for as well.
AskableLong(h) == IF h.auth = "key" THEN h.files \cap Sealed ELSE {}

\* The identity files whose passphrase the helper could supply.
Askable(h) == IF h.auth = "key" THEN (h.files \cap Sealed) \ Long ELSE {}

\* What to do about a missing secret.
Assess(h, stored) ==
    IF stored \/ JumpPlan(h, TRUE) = "terminal" THEN "connect"
    ELSE IF h.auth = "password" THEN "password"
    ELSE IF Askable(h) # {} THEN "probe"
    ELSE "connect"

\* What reading the store may tell: an error reads as nothing stored.
Readings(k) == {vault[k] # NoSecret, FALSE}

\* What one ssh is wired with.
Configured(h, secret, code) ==
    IF ~(secret \/ code) THEN NoSsh
    ELSE [NoSsh EXCEPT !.wired = TRUE, !.kind = h.auth, !.code = code,
                       !.files = IF h.auth = "key" THEN h.files ELSE {},
                       !.pass = secret /\ world.vault, !.id = world.runtime]

\* Mutant: a chain of hops is wired like any other.
WiringAnyChain(h, secret, code) == Configured(h, secret, code)

\* A connect over a chain of hops that cannot be constrained gets nothing.
Wiring(h, secret, code) ==
    IF JumpPlan(h, secret \/ code) = "terminal" THEN NoSsh ELSE Configured(h, secret, code)

\* The wiring of an ssh in a tmux window: no id, no code and no vault passphrase.
WindowWiring(h, secret) ==
    [Configured(h, secret, FALSE) EXCEPT !.pass = FALSE, !.id = FALSE]

\* Whether a connect has to leave tmux aside.
TmuxFallback(h, secret, code, first) ==
    \/ code
    \/ first
    \/ JumpPlan(h, secret) = "terminal"
    \/ secret /\ (world.vault \/ ~world.tmux3)
-----------------------------------------------------------------------------
(* Before ssh.                                                             *)

Starts(p, phase) == con' = [con EXCEPT ![p].pc = phase]

\* Connect from the list: in tmux, a window; otherwise, or when tmux will not
\* do, the same as from the command line once the terminal is restored.
FromList(p, h, tmux, code) ==
    \E stored \in IF code \/ ~tmux THEN {FALSE} ELSE Readings(h.skey) :
        LET first == ~code /\ ~stored /\ Assess(h, FALSE) # "connect"
            here == ~tmux \/ TmuxFallback(h, stored, code, first)
        IN  /\ con' = [con EXCEPT ![p] = [pc |-> IF here THEN "look" ELSE "session",
                                          host |-> h, tmux |-> ~here, has |-> stored,
                                          code |-> code]]
            /\ ssh' = IF here THEN ssh ELSE [ssh EXCEPT ![p] = WindowWiring(h, stored)]
            /\ UNCHANGED <<world, vault, owed>>

\* sshelf <host>, sshelf -: the usage is recorded (or its save failed) already.
Command(p) ==
    /\ At(p, "idle")
    /\ \E h \in Hosts : con' = [con EXCEPT ![p].pc = "look", ![p].host = h]
    /\ UNCHANGED <<world, vault, ssh, owed>>

\* Enter in the list of a screen that is in tmux mode, or is not.
\* A host with a code is asked for it first, unless its first secret is due.
Enter(p) ==
    /\ At(p, "idle")
    /\ \E h \in Hosts, tmux \in BOOLEAN, stored \in BOOLEAN :
        /\ stored \in Readings(h.skey)
        /\ IF h.twofa /\ Assess(h, stored) = "connect"
           THEN /\ con' = [con EXCEPT ![p].pc = "popup", ![p].host = h, ![p].tmux = tmux]
                /\ UNCHANGED <<world, vault, ssh, owed>>
           ELSE FromList(p, h, tmux, FALSE)

Popup(p) == At(p, "popup") /\ FromList(p, Host(p), con[p].tmux, TRUE)

\* Mutant: the host stays chosen.
PopupCancelHost(p) ==
    /\ At(p, "popup")
    /\ Starts(p, "idle")
    /\ UNCHANGED <<world, vault, ssh, owed>>

PopupCancel(p) ==
    /\ At(p, "popup")
    /\ con' = [con EXCEPT ![p] = Idle]
    /\ UNCHANGED <<world, vault, ssh, owed>>

\* Is there a secret?  If not, is one to be asked for?
Look(p) ==
    /\ At(p, "look")
    /\ \E stored \in Readings(Key(p)) :
        LET to == CASE stored -> "code"
                    [] Assess(Host(p), stored) = "password" -> "ask"
                    [] Assess(Host(p), stored) = "probe" -> "probe"
                    [] OTHER -> "code"
        IN  con' = [con EXCEPT ![p].pc = to, ![p].has = stored]
    /\ UNCHANGED <<world, vault, ssh, owed>>

\* The probe: a host that lets nobody in without a question is asked about.  A key
\* that was accepted ends in a denial too where a code is due, but not of publickey.
Probe(p) ==
    /\ At(p, "probe")
    /\ \/ ~Host(p).free /\ Starts(p, "ask")
       \/ Starts(p, "code")
    /\ UNCHANGED <<world, vault, ssh, owed>>

\* The secret is stored at once and has to be proved, unless that would use up a
\* code.
Typed(p, v) ==
    /\ At(p, "ask")
    /\ vault' = [vault EXCEPT ![Key(p)] = v]
    /\ IF Host(p).twofa
       THEN /\ con' = [con EXCEPT ![p].pc = "code", ![p].has = TRUE]
            /\ owed' = [owed EXCEPT ![Key(p)] = "unproved"]
            /\ ssh' = ssh
       ELSE /\ Starts(p, "verify")
            /\ owed' = [owed EXCEPT ![Key(p)] = p]
            /\ ssh' = [ssh EXCEPT ![p] = Configured(Host(p), TRUE, FALSE)]
    /\ UNCHANGED <<world>>

\* An empty answer, or the store fails: connect without.
Skipped(p) ==
    /\ At(p, "ask")
    /\ Starts(p, "code")
    /\ UNCHANGED <<world, vault, ssh, owed>>

Excused(p, why) ==
    [k \in Keys |-> IF owed[k] = p THEN why ELSE owed[k]]

Forget(p) ==
    /\ con' = [con EXCEPT ![p] = Idle]
    /\ ssh' = [ssh EXCEPT ![p] = NoSsh]

\* The throwaway login ended.  Any status but ssh's own failure proves the secret.
Proved(p) ==
    /\ At(p, "verify")
    /\ ssh[p].opened \/ Host(p).free
    /\ con' = [con EXCEPT ![p].pc = "code", ![p].has = TRUE]
    /\ ssh' = [ssh EXCEPT ![p] = NoSsh]
    /\ owed' = Excused(p, IF ssh[p].opened THEN "nobody" ELSE "unasked")
    /\ UNCHANGED <<world, vault>>

\* Mutant: the process ends without removing the secret.
NotProvedKept(p) ==
    /\ At(p, "verify")
    /\ Forget(p)
    /\ UNCHANGED <<world, vault, owed>>

\* Refused, unreachable or too slow.
NotProved(p) ==
    /\ At(p, "verify")
    /\ Starts(p, "remove")
    /\ ssh' = [ssh EXCEPT ![p] = NoSsh]
    /\ UNCHANGED <<world, vault, owed>>

Remove(p) ==
    /\ At(p, "remove")
    /\ \/ /\ vault' = [vault EXCEPT ![Key(p)] = NoSecret]
          /\ owed' = [owed EXCEPT ![Key(p)] = "nobody"]
       \/ vault' = vault /\ owed' = Excused(p, "unproved")
    /\ Forget(p)
    /\ world' = world

\* How reading a line off the terminal or a pipe ends.
LineRead == {"value", "none", "cancelled"}

\* The code, asked for on the terminal unless the popup has it or none is needed.
CodeRead(p) == IF Host(p).twofa /\ ~con[p].code THEN LineRead ELSE {"none"}

Handoff(p) ==
    /\ At(p, "code")
    /\ \E read \in CodeRead(p) \ {"cancelled"} :
        LET code == con[p].code \/ read = "value"
        IN  /\ con' = [con EXCEPT ![p].pc = "session", ![p].code = code]
            /\ ssh' = [ssh EXCEPT ![p] = Wiring(Host(p), con[p].has, code)]
    /\ UNCHANGED <<world, vault, owed>>

\* Esc at a prompt: nothing connects.
Cancel(p) ==
    /\ At(p, "ask") \/ At(p, "code")
    /\ At(p, "code") => "cancelled" \in CodeRead(p)
    /\ Forget(p)
    /\ UNCHANGED <<world, vault, owed>>
-----------------------------------------------------------------------------
(* While ssh runs.                                                         *)

\* What the helper has for a prompt.
Classify(e, prompt) ==
    IF prompt = "password" THEN IF e.kind = "password" THEN "secret" ELSE "nothing"
    ELSE IF prompt \in Files THEN
        IF e.kind = "key" /\ prompt \in e.files \ Long THEN "secret" ELSE "nothing"
    ELSE IF e.code THEN "code" ELSE "nothing"

\* Mutant: a marker that is there already is never read.
RepeatedNever(e, prompt) == FALSE

\* The marker of this connect holds the first prompt that was answered.
Repeated(e, prompt) == e.id /\ e.first = prompt

\* The helper reads the store it was wired for.
Supplies(e, k) == vault[k] # NoSecret /\ e.pass = world.vault

\* ssh, or the ssh of its jump host that inherits its environment, asks.
Asks(p, by, prompt) ==
    /\ At(p, "verify") \/ At(p, "session")
    /\ ssh[p].wired
    /\ by = "hop" => Host(p).jump # "none" /\ JumpPlan(Host(p), ssh[p].wired) # "proxy"
    /\ ssh[p].first = prompt => ssh[p].times < Tries

\* The stored secret, unless this prompt has had it; the marker is made even if
\* there is nothing to supply.
Answered(p, by, prompt) ==
    LET e == ssh[p]
        value == vault[Key(p)]
        first == IF e.first = None THEN prompt ELSE e.first
        gets == by = "target" /\ value \in Right[Key(p)]
    IN  /\ Asks(p, by, prompt)
        /\ Classify(e, prompt) = "secret"
        /\ ~Repeated(e, prompt)
        /\ \/ /\ Supplies(e, Key(p))
              /\ ssh' = [ssh EXCEPT ![p] = [e EXCEPT
                            !.first = first, !.opened = e.opened \/ gets,
                            !.times = IF first = prompt THEN e.times + 1 ELSE e.times]]
           \/ ssh' = [ssh EXCEPT ![p].first = first]
    /\ UNCHANGED <<world, vault, con, owed>>

Ends(p) ==
    /\ At(p, "session")
    /\ Forget(p)
    /\ UNCHANGED <<world, vault, owed>>

\* Ctrl-C, a closed terminal, a crash: nothing is cleaned up.
Killed(p) ==
    /\ ~At(p, "idle")
    /\ Forget(p)
    /\ owed' = Excused(p, "unproved")
    /\ UNCHANGED <<world, vault>>

\* set-password, ^e, or the removal of a secret by another sshelf.
SetByHand(k) ==
    /\ \E v \in Values \cup {NoSecret} : vault' = [vault EXCEPT ![k] = v]
    /\ owed' = [owed EXCEPT ![k] = "unproved"]
    /\ UNCHANGED <<world, con, ssh>>

Next ==
    \/ \E p \in Procs :
        \/ Command(p) \/ Enter(p) \/ Popup(p) \/ PopupCancel(p)
        \/ Look(p) \/ Probe(p)
        \/ \E v \in Values : Typed(p, v)
        \/ Skipped(p) \/ Proved(p) \/ NotProved(p) \/ Remove(p)
        \/ Handoff(p) \/ Cancel(p) \/ Ends(p) \/ Killed(p)
        \/ \E by \in {"target", "hop"}, q \in Prompts : Answered(p, by, q)
    \/ \E k \in Keys : SetByHand(k)

Spec == Init /\ [][Next]_connectVars
-----------------------------------------------------------------------------
(* Properties.                                                             *)

\* The type invariant.
ConnectTypeOK ==
    /\ world \in Worlds
    /\ vault \in [Keys -> Values \cup {NoSecret}]
    /\ con \in [Procs -> Connects]
    /\ \A p \in Procs : At(p, "idle") <=> Host(p) = None
    /\ ssh \in [Procs -> Sshs]
    /\ owed \in [Keys -> Procs \cup {"nobody", "unproved", "unasked"}]

\* A secret that was asked for on a connect is kept only once it worked: what is
\* stored and would not get in is still being proved or removed by the connect
\* that stored it, or it was stored by hand, or for a host with a code, or its
\* connect was killed or could not remove it, or nothing asked for it.
KeptIsProved ==
    \A k \in Keys : vault[k] \notin Right[k] \cup {NoSecret} =>
        \/ owed[k] \in {"unproved", "unasked"}
        \/ \E p \in Procs : owed[k] = p /\ (At(p, "verify") \/ At(p, "remove")) /\ Key(p) = k

\* Whatever ssh or a jump host asks: a secret goes to the prompt it is for and to
\* no jump host, a code to no prompt for a secret and to no jump host.
AnswersMatch ==
    \A p \in Procs, by \in {"target", "hop"}, q \in Prompts :
        Asks(p, by, q) /\ Classify(ssh[p], q) # "nothing" =>
            /\ by = "target"
            /\ IF Classify(ssh[p], q) = "code" THEN q \notin {"password"} \cup Files
               ELSE IF Host(p).auth = "password" THEN q = "password"
               ELSE Host(p).auth = "key" /\ q \in Host(p).files

\* A stored secret that was refused is not given to the same question again: the
\* first one that asks for it gets it once, wherever a marker can be kept.
RefusedOnce == \A p \in Procs : ssh[p].id => ssh[p].times <= 1

\* The user is asked for a secret only where the helper could then supply it and
\* something would ask for it; and an ssh that starts on a stored secret, here or in
\* a window of tmux, has a helper that can read it, or asks on a terminal.
SecretIsUsable ==
    \A p \in Procs :
        LET h == Host(p)
            e == Configured(h, TRUE, FALSE)
        IN  /\ At(p, "ask") =>
                /\ JumpPlan(h, TRUE) # "terminal"
                /\ h.auth = "key" => ~h.free
                /\ \E q \in Prompts : Classify(e, q) = "secret" /\ (q \in Files => q \in Sealed)
            /\ At(p, "session") /\ con[p].has =>
                IF ssh[p].wired THEN ssh[p].pass = world.vault
                ELSE JumpPlan(h, TRUE) = "terminal" /\ ~con[p].tmux
=============================================================================
