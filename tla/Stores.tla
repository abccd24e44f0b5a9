------------------------------- MODULE Stores -------------------------------
(***************************************************************************)
(* The processes that share sshelf's files: command-line calls, each of    *)
(* which reads hosts.toml, checks before it saves that nobody has changed  *)
(* it, and then touches the secret store; and screens, which read the file *)
(* once, keep it in memory and save it whole after every popup             *)
(* (src/src/store.rs, vault.rs, secrets.rs, config.rs, main.rs, app.rs).   *)
(* Any two steps of two processes may interleave, a save or a secret       *)
(* store may fail, and a process may die anywhere.                         *)
(***************************************************************************)
EXTENDS HostFile

CONSTANTS
    Calls,       \* command-line processes
    Screens,     \* processes that show the list
    Paths,       \* where hosts files may be
    DefaultPath, \* where it is unless config.toml says otherwise
    Initial,     \* the hosts files there may be at first, None where there is none
    SiteArgs,    \* the sites a command or an import may name, None for none
    MaxCalls,    \* bound: how many calls are made
    MaxPopups,   \* bound: how many popups are confirmed
    MaxBoth      \* bound: how many of both

Procs == Calls \cup Screens

ASSUME StoresAssumption ==
    /\ Calls \cap Screens = {}
    /\ DefaultPath \in Paths
    /\ Initial \subseteq [Paths -> Contents \cup {None}]
    /\ SiteArgs \subseteq Sites \cup {None}
    /\ {MaxCalls, MaxPopups, MaxBoth} \subseteq Nat

Files == Contents \cup {None}

\* What is to happen to the secret store: every key in turn, skipping those
\* that have a value (keep); "must" when a failure ends the whole operation.
Jobs == [op : {"store", "delete"}, keys : SUBSET Keys, keep : BOOLEAN, must : BOOLEAN]

Store(keys, keep, must) == [op |-> "store", keys |-> keys, keep |-> keep, must |-> must]
Delete(keys) == [op |-> "delete", keys |-> keys, keep |-> FALSE, must |-> FALSE]
NoJob == Store({}, FALSE, FALSE)

VARIABLES
    config,   \* config.toml: the path of the hosts file
    files,    \* the hosts files
    vault,    \* the keys that have a secret
    proc,     \* the processes
    used,     \* host ids given out
    calls, popups,  \* how many have begun
    twins,    \* history: hosts the form saved under a name that was taken
    table,    \* history: each file with every edit that was acknowledged
    lost,     \* history: files written over contents the writer had not seen
    stripped  \* history: files written by a screen that had adopted another
              \* file without its credentials

storesVars == <<config, files, vault, proc, used, calls, popups, twins, table, lost, stripped>>

\* The last three fields are histories: what the file held when it was
\* checked, what the screen's user takes the database to be, and whether the
\* screen kept its own credentials when it adopted another file.
Processes ==
    [pc : {"off", "loaded", "checked", "open", "secret", "write", "save", "move", "settings"},
     path : Paths,                \* the hosts file it works on
     target : Paths,              \* the one its settings are moving to
     mem : Contents,              \* the database in its memory
     base : Files,                \* the file as it last read or wrote it
     edit : Edits, job : Jobs,    \* what it has still to do
     key : Keys \cup {None},      \* the secret it is at
     map : SUBSET Keys,           \* the vault as it read it
     seen : Files, view : Contents, forgets : BOOLEAN]

Off == [pc |-> "off", path |-> DefaultPath, target |-> DefaultPath, mem |-> Empty,
        base |-> None, edit |-> NoChange, job |-> NoJob, key |-> None, map |-> {},
        seen |-> None, view |-> Empty, forgets |-> FALSE]

\* A file that does not exist reads as an empty database.
Read(f) == IF f = None THEN Empty ELSE f

\* Mutant: the default file is read, whatever config.toml says.
LoadedDefault(now) ==
    [Off EXCEPT !.path = config, !.base = files[config],
                !.mem = Read(files[DefaultPath]), !.view = Read(files[config]), !.pc = now]

Loaded(now) ==
    [Off EXCEPT !.path = config, !.base = files[config],
                !.mem = Read(files[config]), !.view = Read(files[config]), !.pc = now]

Init ==
    /\ config = DefaultPath
    /\ files \in Initial
    /\ vault = {}
    /\ proc = [p \in Procs |-> Off]
    /\ used = UNION {Listed(Read(files[p])) : p \in Paths}
    /\ calls = 0
    /\ popups = 0
    /\ twins = {}
    /\ table = files
    /\ lost = {}
    /\ stripped = {}

At(p, phase) == proc[p].pc = phase
-----------------------------------------------------------------------------
(* The secret store.  The vault is one file, decrypted, changed and        *)
(* replaced whole; a keyring is the case in which nothing comes between    *)
(* the two steps.                                                          *)

Secrets(p, phase) ==
    /\ At(p, phase)
    /\ UNCHANGED <<config, files, used, calls, popups, twins, table, lost, stripped>>

\* Where a process goes once its job has no more keys.
NextPhase(q) ==
    IF q.job.keys # {} THEN "secret"
    ELSE IF q.edit = NoChange THEN "open" ELSE "save"

AfterSecret(p, q) ==
    IF p \in Calls /\ q.job.keys = {} THEN Off
    ELSE [q EXCEPT !.pc = NextPhase(q), !.key = None, !.map = {}]

\* A key that is to be kept, or that is not there to be deleted.
NothingToDo(q, k) ==
    \/ q.job.keep /\ k \in vault
    \/ q.job.op = "delete" /\ k \notin vault

ReadVault(p) ==
    /\ Secrets(p, "secret")
    /\ UNCHANGED vault
    /\ \E k \in proc[p].job.keys :
          LET q == [proc[p] EXCEPT !.job.keys = @ \ {k}]
          IN  proc' = [proc EXCEPT ![p] =
                  IF NothingToDo(q, k) THEN AfterSecret(p, q)
                  ELSE [q EXCEPT !.pc = "write", !.key = k, !.map = vault]]

WriteVault(p) ==
    /\ Secrets(p, "write")
    /\ vault' = IF proc[p].job.op = "store" THEN proc[p].map \cup {proc[p].key}
                                            ELSE proc[p].map \ {proc[p].key}
    /\ proc' = [proc EXCEPT ![p] = AfterSecret(p, proc[p])]

\* A call ends with the error, or after a warning; a screen that was to bind
\* hosts to the secret gives that up, and otherwise goes on.
AfterFailure(p, q) ==
    IF p \in Calls THEN Off
    ELSE IF q.job.must
         THEN [q EXCEPT !.pc = "open", !.edit = NoChange, !.job = NoJob, !.key = None, !.map = {}]
         ELSE AfterSecret(p, q)

VaultFails(p) ==
    /\ UNCHANGED vault
    /\ \/ /\ Secrets(p, "write")
          /\ proc' = [proc EXCEPT ![p] = AfterFailure(p, @)]
       \/ /\ Secrets(p, "secret")
          /\ \E k \in proc[p].job.keys :
                proc' = [proc EXCEPT ![p] = AfterFailure(p, [proc[p] EXCEPT !.job.keys = @ \ {k}])]
-----------------------------------------------------------------------------
(* Command-line calls.                                                     *)

Begins(p) ==
    /\ At(p, "off")
    /\ calls < MaxCalls /\ calls + popups < MaxBoth
    /\ calls' = calls + 1
    /\ UNCHANGED <<config, files, vault, popups, table, lost, stripped>>

\* A call has read config.toml and hosts.toml and found no reason to refuse.
Launch(p, e, j) ==
    /\ Begins(p)
    /\ proc' = [proc EXCEPT ![p] = [Loaded("loaded") EXCEPT !.edit = e, !.job = j]]
    /\ UNCHANGED twins

Disk == Read(files[config])

IfAny(secret, keys) == IF secret THEN keys ELSE {}

SaveNewHost(p) ==
    \E h \in Hosts \ used, r \in HostRecords, secret \in BOOLEAN :
        /\ r.site \in SiteArgs
        /\ ~NameTaken(Disk, h)
        /\ Launch(p, [op |-> "host", host |-> h, record |-> r],
                  Store(IfAny(secret, {IF r.cred = None THEN h ELSE r.cred}), FALSE, FALSE))
        /\ used' = used \cup {h}

DistinctNames(H) == \A h, k \in H : NameOf[h] = NameOf[k] => h = k

ApplyImport(p) ==
    \E H \in SUBSET (Hosts \ used), s \in SiteArgs :
        /\ DistinctNames(H)
        /\ NewHosts(Disk, H) # {}
        /\ Launch(p, [op |-> "import", hosts |-> H, site |-> s], NoJob)
        /\ used' = used \cup H

CredentialsAdd(p) ==
    \E c \in Creds \ Disk.creds, secret \in BOOLEAN :
        /\ Launch(p, [op |-> "declare", cred |-> c], Store(IfAny(secret, {c}), FALSE, FALSE))
        /\ UNCHANGED used

CredentialsRm(p) ==
    \E c \in Creds, force \in BOOLEAN :
        /\ Users(Disk, c) = {} \/ force
        /\ c \in Disk.creds \/ Users(Disk, c) # {}
        /\ Launch(p, [op |-> "remove", cred |-> c], Delete({c}))
        /\ UNCHANGED used

CredentialsBind(p) ==
    \E H \in SUBSET Listed(Disk) \ {{}}, c \in Creds \cup {None} :
        /\ Launch(p, [op |-> "bind", hosts |-> H, cred |-> c, declare |-> FALSE], NoJob)
        /\ UNCHANGED used

SitesAdd(p) ==
    \E s \in Sites \ Disk.sites :
        /\ Launch(p, [op |-> "site", site |-> s], NoJob)
        /\ UNCHANGED used

\* set-password only reads hosts.toml, to learn which key it is to write.
SetPassword(p) ==
    \E k \in {SecretKey(Disk, h) : h \in Listed(Disk)} \cup Creds :
        /\ Begins(p)
        /\ proc' = [proc EXCEPT ![p] = [Off EXCEPT !.job = Store({k}, FALSE, FALSE), !.pc = "secret"]]
        /\ UNCHANGED <<used, twins>>

\* Mutant: the check always passes.
NeverChanged(q) == TRUE

\* The file is still what the call read, as far as it can tell.
Unchanged(q) == files[q.path] = q.base

\* save_hosts_if_unchanged: the check ...
Check(p) ==
    /\ At(p, "loaded")
    /\ LET q == proc[p]
       IN  proc' = [proc EXCEPT ![p] =
               IF Unchanged(q) THEN [q EXCEPT !.pc = "checked", !.seen = files[q.path]] ELSE Off]
    /\ UNCHANGED <<config, files, vault, used, calls, popups, twins, table, lost, stripped>>

\* ... and then the save, which checks nothing.
Save(p) ==
    /\ At(p, "checked")
    /\ LET q == proc[p]
       IN  /\ files' = [files EXCEPT ![q.path] = Apply(q.edit, q.mem)]
           /\ table' = [table EXCEPT ![q.path] = Apply(q.edit, Read(@))]
           /\ lost' = IF files[q.path] = q.seen THEN lost ELSE lost \cup {q.path}
           /\ proc' = [proc EXCEPT ![p] =
                 IF q.job.keys = {} THEN Off
                 ELSE [Off EXCEPT !.pc = "secret", !.edit = q.edit, !.job = q.job]]
    /\ UNCHANGED <<config, vault, used, calls, popups, twins, stripped>>

SaveFails(p) ==
    /\ At(p, "checked")
    /\ proc' = [proc EXCEPT ![p] = Off]
    /\ UNCHANGED <<config, files, vault, used, calls, popups, twins, table, lost, stripped>>

Call(p) ==
    \/ SaveNewHost(p) \/ ApplyImport(p)
    \/ CredentialsAdd(p) \/ CredentialsRm(p) \/ CredentialsBind(p)
    \/ SitesAdd(p) \/ SetPassword(p)
    \/ Check(p) \/ Save(p) \/ SaveFails(p)
-----------------------------------------------------------------------------
(* Screens.                                                                *)

OpenScreen(t) ==
    /\ At(t, "off")
    /\ proc' = [proc EXCEPT ![t] = Loaded("open")]
    /\ UNCHANGED <<config, files, vault, used, calls, popups, twins, table, lost, stripped>>

Confirms(t) ==
    /\ At(t, "open")
    /\ popups < MaxPopups /\ calls + popups < MaxBoth
    /\ popups' = popups + 1
    /\ UNCHANGED <<config, files, vault, calls, table, lost, stripped>>

\* A popup is confirmed: its secrets first, then the save.
Confirm(t, e, j) ==
    /\ Confirms(t)
    /\ proc' = [proc EXCEPT ![t] = [@ EXCEPT !.edit = e, !.job = j,
                   !.pc = IF j.keys # {} THEN "secret" ELSE "save"]]

Memory(t) == proc[t].mem

\* The form builds the host anew, so a credential it named is gone.
FormRecord(s) == [cred |-> None, site |-> s]

SaveForm(t, h, s, secret) ==
    Confirm(t, [op |-> "host", host |-> h, record |-> FormRecord(s)],
            Store(IfAny(secret, {h}), FALSE, FALSE))

AddHost(t) ==
    \E h \in Hosts \ used, s \in Memory(t).sites \cup {None}, secret \in BOOLEAN :
        /\ SaveForm(t, h, s, secret)
        /\ used' = used \cup {h}
        /\ twins' = IF NameTaken(Memory(t), h) THEN twins \cup {h} ELSE twins

EditHost(t) ==
    \E h \in Listed(Memory(t)), s \in Memory(t).sites \cup {None}, secret \in BOOLEAN :
        /\ SaveForm(t, h, s, secret)
        /\ UNCHANGED <<used, twins>>

DeleteHost(t) ==
    \E h \in Listed(Memory(t)) :
        /\ Confirm(t, [op |-> "delete", host |-> h], Delete(OwnSecret(Memory(t), h)))
        /\ UNCHANGED <<used, twins>>

BulkEach(t) ==
    \E H \in SUBSET Listed(Memory(t)) \ {{}}, keep \in BOOLEAN :
        /\ Confirm(t, NoChange, Store({SecretKey(Memory(t), h) : h \in H}, keep, FALSE))
        /\ UNCHANGED <<used, twins>>

BulkShared(t) ==
    \E H \in SUBSET Listed(Memory(t)) \ {{}}, c \in Creds, secret, keep \in BOOLEAN :
        /\ Confirm(t, [op |-> "bind", hosts |-> H, cred |-> c, declare |-> TRUE],
                   Store(IfAny(secret, {c}), keep, TRUE))
        /\ UNCHANGED <<used, twins>>

BulkUnbind(t) ==
    \E H \in SUBSET Listed(Memory(t)) \ {{}} :
        /\ Confirm(t, [op |-> "bind", hosts |-> H, cred |-> None, declare |-> FALSE], NoJob)
        /\ UNCHANGED <<used, twins>>

SaveManager(t) ==
    \E m \in Sessions(Memory(t).sites) :
        /\ Confirm(t, [op |-> "sites", sites |-> m.sites, renames |-> m.renames], NoJob)
        /\ UNCHANGED <<used, twins>>

ImportSshConfig(t) ==
    \E H \in SUBSET (Hosts \ used) \ {{}} :
        /\ DistinctNames(H)
        /\ Confirm(t, [op |-> "import", hosts |-> H, site |-> None], NoJob)
        /\ used' = used \cup H
        /\ UNCHANGED twins

Popup(t) ==
    \/ AddHost(t) \/ EditHost(t) \/ DeleteHost(t)
    \/ BulkEach(t) \/ BulkShared(t) \/ BulkUnbind(t)
    \/ SaveManager(t) \/ ImportSshConfig(t)

\* Whatever becomes of the save, the edit stays in memory.
Edited(q) ==
    [q EXCEPT !.mem = Apply(q.edit, @), !.view = Apply(q.edit, @),
              !.edit = NoChange, !.job = NoJob, !.pc = "open"]

\* save_hosts of a screen at f, in place of whatever is there.
Overwrite(t, f, content, meant, known) ==
    /\ files' = [files EXCEPT ![f] = content]
    /\ table' = [table EXCEPT ![f] = meant]
    /\ lost' = IF files[f] = known THEN lost ELSE lost \cup {f}
    /\ stripped' = IF proc[t].forgets THEN stripped \cup {f} ELSE stripped
    /\ UNCHANGED <<config, vault, used, calls, popups, twins>>

PersistHosts(t) ==
    /\ At(t, "save")
    /\ LET q == Edited(proc[t])
       IN  /\ Overwrite(t, q.path, q.mem, q.view, q.base)
           /\ proc' = [proc EXCEPT ![t] = [q EXCEPT !.base = q.mem]]

PersistFails(t) ==
    /\ At(t, "save")
    /\ proc' = [proc EXCEPT ![t] = Edited(@)]
    /\ UNCHANGED <<config, files, vault, used, calls, popups, twins, table, lost, stripped>>

\* Settings that keep the hosts file: config.toml alone is written.
KeepPath(t) ==
    /\ Confirms(t)
    /\ proc' = [proc EXCEPT ![t].pc = "settings"]
    /\ UNCHANGED <<used, twins>>

\* Settings: another hosts file.  One that exists is adopted, its hosts and
\* its sites; one that does not is written first.
Adopt(t) ==
    \E f \in Paths \ {proc[t].path} :
        /\ files[f] # None
        /\ Confirms(t)
        /\ proc' = [proc EXCEPT ![t] =
              [@ EXCEPT !.mem = [files[f] EXCEPT !.creds = proc[t].mem.creds],
                        !.view = files[f], !.base = files[f], !.path = f, !.pc = "settings",
                        !.forgets = files[f].creds # proc[t].mem.creds]]
        /\ UNCHANGED <<used, twins>>

Move(t) ==
    \E f \in Paths \ {proc[t].path} :
        /\ files[f] = None
        /\ Confirms(t)
        /\ proc' = [proc EXCEPT ![t] = [@ EXCEPT !.target = f, !.pc = "move"]]
        /\ UNCHANGED <<used, twins>>

MoveHosts(t) ==
    /\ At(t, "move")
    /\ LET q == proc[t]
       IN  /\ Overwrite(t, q.target, q.mem, q.view, None)
           /\ proc' = [proc EXCEPT ![t] =
                 [q EXCEPT !.path = q.target, !.base = q.mem, !.target = DefaultPath,
                           !.pc = "settings"]]

\* Mutant: the settings are saved although the hosts were not.
MoveFailsUnseen(t) ==
    /\ At(t, "move")
    /\ proc' = [proc EXCEPT ![t].path = proc[t].target, ![t].pc = "settings"]
    /\ UNCHANGED <<config, files, vault, used, calls, popups, twins, table, lost, stripped>>

MoveFails(t) ==
    /\ At(t, "move")
    /\ proc' = [proc EXCEPT ![t] = [@ EXCEPT !.target = DefaultPath, !.pc = "open"]]
    /\ UNCHANGED <<config, files, vault, used, calls, popups, twins, table, lost, stripped>>

\* config.toml comes last, and may not be written.
SaveConfig(t) ==
    /\ At(t, "settings")
    /\ \/ config' = proc[t].path
       \/ UNCHANGED config
    /\ proc' = [proc EXCEPT ![t].pc = "open"]
    /\ UNCHANGED <<files, vault, used, calls, popups, twins, table, lost, stripped>>

Screen(t) ==
    \/ OpenScreen(t) \/ Popup(t)
    \/ PersistHosts(t) \/ PersistFails(t)
    \/ KeepPath(t) \/ Adopt(t) \/ Move(t) \/ MoveHosts(t) \/ MoveFails(t) \/ SaveConfig(t)
-----------------------------------------------------------------------------
\* A process is killed, or a screen is left, between any two steps.
Die(p) ==
    /\ ~At(p, "off")
    /\ proc' = [proc EXCEPT ![p] = Off]
    /\ UNCHANGED <<config, files, vault, used, calls, popups, twins, table, lost, stripped>>

Next ==
    \/ \E p \in Calls : Call(p)
    \/ \E t \in Screens : Screen(t)
    \/ \E p \in Procs : ReadVault(p) \/ WriteVault(p) \/ VaultFails(p) \/ Die(p)

Spec == Init /\ [][Next]_storesVars
-----------------------------------------------------------------------------
(* Properties.                                                             *)

\* Every variable has its type, a host that the form gave a taken name has an
\* id, a call about to save has seen the file as it had read it, and a vault
\* about to be written is written for a key.
StoresTypeOK ==
    /\ config \in Paths
    /\ files \in [Paths -> Files]
    /\ vault \subseteq Keys
    /\ proc \in [Procs -> Processes]
    /\ used \subseteq Hosts
    /\ {calls, popups} \subseteq Nat
    /\ twins \subseteq used
    /\ table \in [Paths -> Files]
    /\ lost \subseteq Paths
    /\ stripped \subseteq Paths
    /\ \A p \in Procs :
          /\ At(p, "checked") => proc[p].seen = proc[p].base
          /\ At(p, "write") => proc[p].key \in Keys

\* No edit is lost: every file is what its acknowledged edits, one after the
\* other, make of it.  Two things the code does are left out, the save that
\* lands on contents its writer had not seen when it last looked (a save is
\* not atomic with its check, and a screen does not check) and the screen
\* that adopted a file without its credentials.  (store.rs:
\* save_hosts_if_unchanged; app.rs: persist_hosts.)
EditsSurvive ==
    \A p \in Paths \ (lost \cup stripped) : files[p] = table[p]

\* What makes it inductive: a call edits what it has read, and a screen that
\* has its file's credentials shows what its user takes it to show.
CopiesTrue ==
    /\ \A p \in Calls :
          proc[p].pc \in {"loaded", "checked"} => proc[p].mem = Read(proc[p].base)
    /\ \A t \in Screens : ~proc[t].forgets => proc[t].view = proc[t].mem

StoresInv == StoresTypeOK /\ EditsSurvive /\ CopiesTrue

\* Two hosts of a file share a name only if the form, which does not look,
\* gave it to one of them: add and import never do, whatever the processes
\* around them change.  (main.rs: save_new_host, apply_import; app.rs:
\* import_ssh_config.)
NamesStayApart ==
    \A p \in Paths :
        \A h, k \in Listed(Read(files[p])) \ twins : NameOf[h] = NameOf[k] => h = k

\* What the sites manager saves is what the user did: a host follows its site
\* through every rename and has none once it is deleted, as long as no name
\* of a deleted site is given to another in the same session.  (app.rs:
\* on_key_sites; ui/sites.rs.)
Follows(x, m) ==
    \A h \in Listed(x) :
        SaveSites(x, m.sites, m.renames).hosts[h].site = Home(m, x.hosts[h].site)

MembersFollow ==
    \A t \in Screens : At(t, "open") =>
        \A m \in Sessions(Memory(t).sites) : ~m.reused => Follows(Memory(t), m)

\* The settings never name a hosts file that is not there, except the default
\* one: config.toml changes only when the hosts step has succeeded.  (app.rs:
\* on_key_settings.)
SettingsNameAFile == config # DefaultPath => files[config] # None

\* A secret disappears only when its credential is removed, when the host
\* whose own it is is deleted, or when a vault read before it was stored is
\* written back: never because a host that shares it is deleted or unbound.
\* (app.rs: own_secret_key, on_key_confirm; main.rs: cmd_credentials_rm.)
MayRemove(p, k) ==
    /\ At(p, "write")
    /\ \/ proc[p].map # vault
       \/ proc[p].edit \in [op : {"remove"}, cred : {k}]
       \/ proc[p].edit \in [op : {"delete"}, host : {k}]

SecretsOutliveMembers ==
    [][\A k \in vault \ vault' : \E p \in Procs : MayRemove(p, k)]_storesVars

\* Editing a host with the secret field left blank keeps its secret: the host
\* still reads the key it read.  Violated, see the run stores_form.
BlankKeepsSecret ==
    [][\A t \in Screens, h \in Hosts :
          /\ At(t, "open") /\ proc'[t].pc = "save"
          /\ proc'[t].edit.op = "host" /\ proc'[t].edit.host = h
          /\ h \in Listed(Memory(t))
          => SecretKey(Apply(proc'[t].edit, Memory(t)), h) = SecretKey(Memory(t), h)]_storesVars
=============================================================================
