# sshelf in TLA+

sshelf is a terminal manager for SSH hosts: a list of hosts in `hosts.toml`, connections handed to
`ssh`, port forwards that outlive the program, a two-pane file-transfer screen, and a command line
that edits the same files as the screen. This directory models the program where its correctness
depends on the order of things (threads, child processes, a server, other programs, other sshelf
processes) and where it turns one description of a host into another. Paths below are relative to
the crate (`src/src/` in the repository) unless they begin with `docs/`.

## Inventory

| Component | State | Operations | What is hard |
|---|---|---|---|
| Transfer job (`transfer/worker.rs`: `transfer`, `install_*`) | destination names, the temporary, the sftp child | copy, link, ls, rename, rm, abandon | other programs use the same names; every remote step may be cut short before or after the server did it |
| Transfer worker (`transfer/worker.rs`: `run`, `serve`, `Commands`) | command channel, parked commands, the child | handshake, list, mkdir, transfer, poll for a stop, teardown | a stop is found while a child runs; parked commands; cancel against finish |
| Transfer screen (`transfer/screen.rs`, `transfer/pane.rs`) | queue, item in flight, two listings, input | keys, one drain per tick | events are drained late and do not say which command they answer |
| Host database (`store.rs`, `model.rs`, `app.rs`, `main.rs`) | `hosts.toml`, each process's copy and revision | load, check and save, adopt, move | several processes; check then write; several files in one operation |
| Secrets (`secrets.rs`, `vault.rs`) | keyring or `vault.age` | store, get, delete | saved whole; ordered against the host database |
| Settings, statistics (`config.rs`, `state.rs`) | `config.toml`, `state.json` | load, save, adopt another hosts file | saved whole; the adopted file against what is in memory |
| Forwards (`forwards.rs`, `app.rs`, `ui/forwards.rs`) | ledger `forwards.json`, detached processes | spawn, reconcile, stop, the manager | pids are used again; a screen ends between spawn and save; one ledger per process; a list that shifts under a question |
| Connecting (`ssh.rs`, `first_connect.rs`, `askpass.rs`, `main.rs`) | stored secret, connect marker, one-time code | assess, ask, verify, answer a prompt, hand over | a secret is stored before it is proved; ssh may ask anything, and its jump host too |
| List and popups (`app.rs`, `search.rs`, `ui/list.rs`) | hosts, order shown, selection, marks, popup, pending connect | one handler per key and popup | places and ids kept while hosts are added, replaced and hidden |
| Forms (`ui/wizard.rs`, `ui/sites.rs`, `ui/browse.rs` and the other popups) | texts, cursors, pickers, focus | keys, save | a host is rebuilt from its fields; fields come and go |
| Entry, import, export (`sshcmd.rs`, `main.rs`, `import.rs`, `tailscale.rs`, `export.rs`, `ssh.rs`) | none | lines, flags and configs to hosts, hosts to argv and blocks | ssh's own rules: first value wins, options behind the destination, defaults of a site |
| Doctor, paths | none | reports, directories | nothing concurrent |

The screen and its worker talk over two channels; the worker runs `ssh` and `sftp` children that
act on the server and the disk. All other interaction between components is through files that are
read and replaced whole, and through the event loop of `app.rs`, which handles one key at a time and
calls `drain_events` on every tick. ssh calls back into sshelf, as its askpass helper, in a process
of its own that shares the secret store and a marker file with the connect that started it.

What makes each correct: a transfer never damages a file that was there, never loses bytes that
crossed and reports what happened; the worker loses, repeats and reorders no command and always
ends; the screen runs one transfer at a time, tells the truth about a batch and can always be left;
the stores lose no update and never name a file or a secret that is gone; a running forward is
listed and a stopped one is dead; a secret is given only to the prompt it was stored for, and one
that does not work is not kept; the list shows what is there and a key acts on what was chosen; what
is saved of a form or a line means what was entered.

## Modules

| Module | Models | Uses |
|---|---|---|
| `Install` | one job: the copy and the no-replace install of a download or an upload | |
| `InstallProofs` | theorems about `Install` | extends `Install` |
| `Retain` | `Vec::retain`: what is left of a sequence | |
| `WorkerService` | what the worker promises the screen | extends `Retain` |
| `WorkerServiceProofs` | theorems about `WorkerService`, and what `Retained` computes | extends `WorkerService` |
| `TransferWorker` | the worker with its children; implements `WorkerService`, drives `Install` | instances of both |
| `TransferWorkerProofs` | that it does both, and what follows | instances of `WorkerServiceProofs` and `InstallProofs` |
| `TransferScreen` | the screen, with `WorkerService` as its worker | extends `WorkerService` |
| `TransferScreenProofs` | theorems about `TransferScreen` | extends it and `WorkerServiceProofs` |
| `HostFile` | the host database as data: its edits, and a session of the sites manager | |
| `Stores` | the processes that share `hosts.toml`, the secret store and `config.toml` | extends `HostFile` |
| `StoresProofs` | theorems about `Stores` | extends `Stores` |
| `Forwards` | detached processes, the ledger in memory and on disk, the manager | extends `Retain` |
| `ForwardsProofs` | theorems about `Forwards` | extends `Forwards` |
| `Connect` | a connect from the first secret to the last prompt, with the askpass helper | |
| `ConnectProofs` | theorems about `Connect` | extends `Connect` |
| `HostList` | what a query leaves of the hosts, ranked, in sections and rows | extends `Retain` |
| `App` | the list, its keys and its popups | extends `HostList` |
| `AppProofs` | theorems about `App`, and what sorting and flattening compute | extends `App` |
| `Texts` | texts whose inside a constant gives | |
| `SshLine` | ssh command lines read and written, exported blocks, and ssh's reading of both | extends `Texts` |
| `Forms` | every form of the interface, one record with texts and pickers | extends `Texts` |
| `Import` | an ssh config or a tailnet made into hosts and merged into the file | extends `Texts` |
| `Entry` | how a host gets into the file: flags, a pasted line, a form, an import | extends `SshLine`, `Forms`, `Import` |
| `MC*` | the instances TLC checks | |

**Install.** `fs` maps every destination name to what is there: nothing, the beginning of a folder
(`part`), everything (`ours`), a folder mixed with another program's files (`mixed`), or another
program's contents. `phase` is the step of the job: `copy` is the sftp child in `transfer()`;
`link`, `stat`, `mv` are the system calls of `install_linked`; `ln`, `lsLn`, `rename`, `lsRename`
and the three `rm` phases are the batches of `install_remote` and `remove_remote_temporary`. Each
batch is one step, and one that does not succeed may all the same have been carried out by the server
(`took`), whether it was interrupted or exited in error: the code looks at the exit status only, so
that a refusal for any reason, a batch that never got there and an answer that was lost take the same
branch. Other programs write and remove names between any two steps. The master connection may die
and the session opens no other, but sftp is given the master's socket and no more (`sftp_batch_args`),
so it may connect by itself, as `Direct` says (`Reaches`). Histories serve the properties: all bytes
copied, bytes in place, an `ln` or `rename` carried out and yet in error (`lost`), and why a rename may
find something under the name (`excuses`: the link failed with the name free, another program freed
it before the `ls`, the `ls` missed it, another program came after the look).

**WorkerService and TransferWorker.** `rx` is the command channel and `deferred` the parked
commands of `Commands`; `PollStop` is `poll_stop` with its purge. `worker` says which command is
served. In `TransferWorker` a batch is polled before it is spawned and while it runs (`running`),
transfers take the steps of `Install`, and a refinement mapping shows the service `copying` while
the phase is `copy` and `settling` afterwards. Commands carry a number that no program variable
holds; it is used by histories and properties only.

**TransferScreen.** One action per key that matters and one per kind of event. `Start` is the tail
of `start_next` with the fresh listing it posts before an upload; `Drain*` are the arms of
`drain_events`. The model keeps the code's blindness: `Stepped` and `StopsQueue` act on whatever is
in flight, not on what the event answers. `misread` records that an event was taken for the end of
a transfer it did not end.

**HostFile and Stores.** A database is its hosts (each with a credential and a site, or neither), its
declared credentials and its sites. An edit is a record that says what a command or a popup does,
and `Apply` does it; `HostFile` reads and writes nothing. In `Stores` every process has a memory, the
file as it last read or wrote it, and what it has still to do. A call (`sshelf add`, `import`,
`credentials`, `sites`, `set-password`) reads the file in one step, makes the revision check of
`save_hosts_if_unchanged` in a second and saves in a third, then does its secret; a screen reads once
and saves whole after every popup, its secrets first, without any check. A save is one step because
`atomic_write` renames over the target; it may fail and leave the file as it was. The vault is read
and rewritten in two steps, so that another process may come between; a keyring is the case in which
nothing does. `Die` ends any process between any two steps. Histories: `table` is what the file's
acknowledged edits make of it, one after the other; `lost` and `stripped` mark the files that were
written by somebody who could not know what was there (below); `twins` the hosts that the form, which
does not compare names, gave a taken one.

**Forwards.** `os` says what runs under each pid: a forward, another program (which may be an ssh of
the user's own with the same spec), a zombie, or nothing. `Alive` is `is_our_ssh`: what ps shows of
the pid, not what the forward is. `Reconcile` is the end of every handler that looks at the ledger
(start, opening the manager, each tick, after a stop): what is gone is dropped, what is left saved,
selection and confirmation put in range. A stop is the four steps of `kill` with ps asked twice. A
screen that ends leaves its children to init. Histories `stopped`, `spared` and `lost` hold forwards
that run on after something was said or done about them, and why.

**Connect.** `con[p]` is the connect of process p and its phase: the code popup, the look for a
stored secret, the probe with `BatchMode`, the question, the proof (`verify_secret`), the removal
after a refusal, the session. `ssh[p]` is what its ssh was started with and the helper's marker.
`Classify` is what the helper makes of a prompt, `JumpPlan` how a jump host is reached and so which
environment its ssh inherits. ssh asks any prompt in any order, up to `Tries` times each; the store
and the network may fail and a process may be killed at every step. The history `owed` says for each
key of the store which connect has still to prove it, or why nobody will.

**HostList and App.** `HostList` is `matches`, `compare`, `group_order` and the rows `render_list`
draws, with the two ways in which names of sites are compared kept apart (`Lower` folds every
letter, `Folded` A to Z). `App` has one action per key of the list and per outcome of a popup; each
ends with what the handler ends with (`recompute`, clamped selection, marks kept or cleared, usage
counted). Hosts are referred to by place (`order`, `popup.at`, `pending`) and by id (`marked`) as in
the code. The history `chosen` is what the user saw when the popup or the connect was asked for.

**Texts, SshLine, Forms, Import, Entry.** Pure algorithms as operators. A line is a sequence of
words; what the code finds inside a word character by character (the flag letters, `user@host`,
`Key=value`, a list, an entry with a blank inside) is given by a constant for each. `SshLine` has the parser of `sshcmd.rs`
(`Parsed`), the argv of `ssh.rs` and of a forward (`BuildArgs`, `BuildForwardCommand`), the block of
`export.rs`, and a reading of lines and blocks by ssh's documented rules (`SshReads`, `BlockReads`,
external) to compare them with; a user or a port nobody names is None there, which is the user's
`~/.ssh/config`'s or ssh's own to fill in. `Forms` gives each form as texts with cursors, pickers, a focus and the fields shown, and
`Pressed` as the keys of all of them, file browser included. `Entry` is the steps a user takes:
`add` with flags, a pasted line saved at once or through the form filled in from it, a form opened
on a host, edited and saved, and an import.

## Runs

| Run | Question | Result |
|---|---|---|
| `install` | does a job report the truth, keep whole files, and replace only what came after it looked? | holds |
| `service` | is the command protocol lossless, ordered, answered once? | holds |
| `worker` | does the worker implement that protocol and the install, and always end? | holds |
| `screen` | one transfer at a time, true summaries, no wait for an answer that cannot come? | holds |
| `screen_live` | does Esc always end its item? | holds |
| `stores` | do acknowledged edits survive, names stay apart, members follow their sites, secrets outlive the hosts that share them, settings name a file that is there? | holds |
| `stores_form` | does a host keep its secret when it is edited with the field left blank? | violated |
| `forwards` | is a running forward on disk, and one reported as stopped dead? | holds |
| `forwards_confirm` | does `d`, then `y`, stop the selected forward? | violated |
| `connect` | is a secret kept only once it worked, given only to its own prompt, once, and asked for only where it helps? | holds |
| `app` | does the list show each host once, and does every key act on what was chosen? | holds |
| `entry` | do forms, lines and imports save what was entered and change nothing else? | holds |

The violations are disagreements between the code and what the repository says of it:

* `stores_form`: the form builds the host anew and does not restore its `credential`, so editing any
  host that shares a secret unbinds it (`ui/wizard.rs:526` against `docs/hosts.md:93`).
* `forwards_confirm`: the question is a position in the list. A forward above it ends while the
  question is open, a tick drops it, the position names the next forward, and `y` stops that one
  (`ui/forwards.rs:47` against `docs/port-forwarding.md:43`).

### What the properties leave out

A property that the code breaks in a known case excuses exactly that case, and the model performs it:

* The properties of `screen` are stated for behaviours in which `misread` is false; whatever else
  could break them would be found.
* `ReplacesOnlyLatecomers` allows what `install_remote` cannot rule out: a file that another program
  put there between the `ls` and the rename, or that an `ls` in error missed; and, where the name
  takes links, only after a link that failed with the name free, a name freed meanwhile, or such an `ls`.
* `ReportTrue` and `DoneIsTrue` excuse a Skipped of a file that is there when an `ln` or `rename` was
  carried out and yet exited in error (`lost`).
* `EditsSurvive` leaves out `lost`, a save over contents its writer had not seen when it last looked
  (the check of `save_hosts_if_unchanged` and its rename are two steps, and `persist_hosts` does not
  check), and `stripped`, a save by a screen that has adopted another hosts file but kept its own
  credentials (`app.rs:552`).
* `SecretsOutliveMembers` names the lost update of the vault as one of the ways a secret may go.
* `RunningIsListed` names the ways a running forward leaves the ledger: not recorded yet, its screen
  ended first, a save failed, ps did not show it, SIGKILL did not end it, or a screen that had not
  heard of it wrote its own ledger over the file.
* `KeptIsProved` names the ways an unproved secret stays: stored by hand, stored for a host with a
  code, its connect killed or unable to remove it, or nothing asked for it.
* `ListIsWhole` excuses hosts of a site spelled with a capital beyond A to Z (below).
* `MeaningKept` compares with what ssh makes of the line, options behind the destination included,
  and says what the program makes of it where that differs: an `-l` or `-p` goes over the destination's
  own (`Meant`), no user becomes `$USER`, `-p 22` is not passed on, and of a setting that an `-o` and
  something else give, one of the two is used. Two kinds of line are left out: a second `-J`, which ssh
  refuses, and a login that looks like an option.
* `FormKeeps` says what each of the fields that a form changes by itself becomes: the site, tags with a
  blank inside, a key file named twice, the key of a key host without one, and the shared credential of
  the violation above.

### Observations

Found while modelling and carried by the models; no property denies them.

* Transfers: a Cancel or a timeout of the `ls` that explains a refused link is read as "the name is
  free", and the rename replaces the file (`worker.rs:1088`; `docs/transfer.md:91`). Any `ln` in error
  with the name free leads to the rename (`worker.rs:1106`), so a passing refusal of a server that makes
  links is enough to replace what another program writes in the meantime, where `docs/transfer.md:98`
  knows two kinds of destination. An `ln` or a `rename` that was carried out and exits in error, because
  its answer was lost, is explained by an `ls` that finds the worker's own file: the item is reported as
  skipped, which by `worker.rs:868` means that nothing was written. A rename that was carried out and
  then not explained is reported as failed, with the bytes "still on the server as" a temporary that is
  gone (`worker.rs:1132`). After a failed
  connection `send` still accepts an upload, and Esc posts a Cancel nobody reads (`screen.rs:378`).
  The listing posted before an upload may fail and its Error is taken for the transfer's
  (`screen.rs:291`). A Cancel that crosses the answer is ignored, and the next item starts
  (`worker.rs:476`).
* Sites: delete one site, rename another to its name, and the members of the first join the second
  (`app.rs:489`). A host whose site is spelled with a non-ASCII capital is in no section while nothing
  is typed (`app.rs:1084`).
* Connecting: two hosts share a key, one connect is refused and deletes what the other has proved
  (`main.rs:1945`). A read error of the store counts as "nothing stored" (`main.rs:1812`). A connect
  killed during the proof leaves its secret (`main.rs:1906`). The marker holds the first prompt only,
  so a second key's passphrase is given again on every retry (`askpass.rs:231`). A password host
  that gets in by an agent's key proves nothing, and any password typed for it is kept.
* List and forms: marks outlive the hosts they name, and ^k then says there are none (`app.rs:829`).
  An edited key host without a key file of its own is given the first key found in `~/.ssh`
  (`ui/wizard.rs:110`; `docs/data-model.md:80`). A tag with a space in it splits (`ui/wizard.rs:598`), a site takes
  the spelling in which it is defined (`ui/wizard.rs:182`), one called "(none)" is dropped
  (`ui/wizard.rs:190`), and a key file named twice is kept once (`ui/wizard.rs:543`), all on saving a form
  nothing was changed in.
  Port 0 is accepted although the message says 1 to 65535. The form does not look for a taken name;
  `add` does. The screen saves the whole usage state it loaded at its start (`app.rs:717`).
* Entry: for options behind the destination ssh keeps the destination's user and port, and
  `sshcmd.rs:216` takes the option's, as the table of `docs/hosts.md` has it; the sentence before the table
  says that such options mean what they mean to ssh. A line that names no user is connected to as
  `$USER@host` (`ssh.rs:197`): for an alias that goes over the `User` in `~/.ssh/config`, although
  `docs/hosts.md:32` and `sshcmd.rs:9` have the alias still resolved by ssh (its HostName and the rest
  are). `-p 22` is left out of the argv, so an `-o Port` or the user's config wins (`ssh.rs:152`); a
  site's port and jump come before the host's own `-o`. `add -c x`
  alone opens a blank form and drops the credential; `add --from-ssh ... -c x` through the form
  drops it too and stores the secret under the host's id. `--auth agent --password-stdin` stores a
  secret no connect reads (`main.rs:402`). A user that begins with `-` becomes an option word. An
  import compares names without regard to case with those in the file only (`import.rs:88`), so two
  new hosts that differ in case are both imported.

### Bounds

* `install`: two local and two remote names, one that takes links on each side, one kind of foreign
  contents, no bound on jobs or on what the other programs do. Two names of each kind are needed for
  "touches no other name"; more contents would behave alike. `Direct` is TRUE, which covers FALSE: every
  batch may fail, with or without a master. An interrupted batch is carried out before the next begins
  or not at all.
* `service`: one name, one remote directory, four commands from any client. Three are needed for a
  listing, the transfer parked behind it and the Cancel that takes it; the fourth follows them.
* `worker`: one name, two commands from any client and the Shutdown, a server with links and a local
  disk without, listings cut at one entry, every batch and the connection allowed to fail.
* `screen`: a file and a folder, so batches of two; keys that post a command stop after three
  commands, plus two Escs; what events cause is never bounded. A batch of two uploads with an Esc
  during either fits.
* `screen_live`: a folder and a symlink and two remote directories, two commands and two Escs.
* `stores`: two calls at once and one screen, up to three operations of which two may be calls and two
  popups, two hosts of one name, one credential, two sites, and two places for the hosts file of which
  one has a file at first. Two calls race on the check, a call and a screen race on the save, and a
  screen that has adopted a file can save once more; a session of the sites manager has one or two
  changes, which is enough for a name to be freed and taken.
* `forwards`: two screens, two forwards of one spec, two pids, one other program at a time. Two of
  each are needed for a pid to be used again, a list to shift and a ledger to be overwritten.
* `connect`: two connects, nine kinds of host that share one key of the store (passwords, one and two
  key files, a path ssh's prompt cuts, agents, codes, every jump plan), three worlds (keyring or
  vault passphrase, old and new tmux, with and without a runtime directory), a secret that gets in
  and one that does not, each question asked up to twice (`Tries`), so that a refusal is met.
* `app`: two hosts at the start, ids given out from 4 to 6 (`FirstNew`, `MaxId`) and at most two
  changes, so up to four hosts, one of them adopted from
  another file; sites in two spellings and one with a capital that only full lower-casing folds; one
  tag, one text, one use of each host. Two changes are enough for a mark, a popup or a pending connect
  to meet a host list other than the one it was made for.
* `entry`: lines of up to three words after `ssh` from an alphabet of eighteen and of four from ten of
  them, with special lines for each refusal; `add` with 864 combinations of flags; every form from several starts with two edits
  (`MaxEdits`) and any moves between; forms filled in from lines of up to three words, with
  moves only; two-host configs and tailnets over three files. Two options of one kind, one before and
  one behind the destination, need three words.
* `stores_form` has one popup and no second call, `forwards_confirm` one screen and no other program:
  the smallest instances that show the violation.

Every bound is on what users, clients or ssh start; nothing the program does by itself is cut off.
Deadlock is checked in `install`, `forwards` and `connect`; in the other runs a closed session or a
saved entry is a legitimate end.

### Fairness

Liveness is about the transfer only; everything else the program does ends with the handler that does
it. The worker thread takes its next step whenever it can: its waits have deadlines
(`HANDSHAKE_TIMEOUT`, `LIST_TIMEOUT`, `MKDIR_TIMEOUT`, `INSTALL_TIMEOUT`, `MUX_TIMEOUT`) and its loops
poll. The copy alone has no deadline, so `Write`, `CopyOk`, `CopyEnds` and the like are not fair: a
copy may hang for ever, and it is the stop requests, found by a fair poll, that end it. `HangUp` is
fair because `Drop` waits no longer than `SHUTDOWN_ACK`. The screen drains on every tick of
`event_loop`, so `Drain` is fair. Keys never are, and neither is anything other programs do.

## Proofs

What is proved holds for every value of the constants, so for any number of screens, calls,
connects, commands, hosts, files and forwards and without the bounds above, from the assumptions the
modules name.

| Module | Theorem | What it states |
|---|---|---|
| `InstallProofs` | `TypeCorrect`, `ReportsAreTrue`, `BytesAreKept` | the three invariants of `install` |
| | `OnlyLatecomersAreReplaced`, `OnlyWholeFilesAppear` | its two action properties |
| `WorkerServiceProofs` | `ServiceTypeCorrect`, `NoRequestIsForgotten`, `OneAnswerEach` | the three invariants of `service` |
| | `RequestsInOrder` | its action property |
| `TransferWorkerProofs` | `WorkerTypeCorrect` | the type invariant of `worker` |
| | `WorkerImplementsService`, `WorkerDrivesInstall` | its two refinements |
| | `ScreenHearsTheTruth` | its action property `DoneIsTrue` |
| `TransferScreenProofs` | `ScreenTypeCorrect`, `OneTransferOnly`, `SummariesAreTrue`, `AnswersCanCome` | the invariants of `screen` and `screen_live` |
| `StoresProofs` | `StoresTypeCorrect`, `NoEditIsLost`, `CopiesAreTrue`, `SettingsStay`, `NamesAreApart`, `MembersAlwaysFollow` | the six invariants of `stores` |
| | `SecretsStay` | its action property |
| `ForwardsProofs` | `ForwardsTypeCorrect`, `NoForwardIsForgotten`, `WhatWasStoppedIsDead` | the invariants of `forwards` |
| `ConnectProofs` | `ConnectTypeCorrect`, `OnlyProvedSecretsStay`, `SecretsStayOnTarget`, `RefusedSecretsAreSpent`, `AskedSecretsAreUsable` | the invariants of `connect` |
| `AppProofs` | `AppTypeCorrect`, `ListStaysWhole` | the invariants of `app` |
| | `KeysActOnTheChosen` | its action property |

The assumptions are those of the modules: names of downloads and of uploads differ and the ways a name
may look are distinct (`InstallAssumption`, `TransferAssumption`), the names a worker knows are
finitely many (`KindAssumption`), None is nothing else and a host is not a credential
(`HostFileAssumption`), what `StoresAssumption`, `ForwardsAssumption` and `ConnectAssumption` say of
types, and the two of the list. `HostListAssumption`: names are integers (they sort as such), each
lower-case site name has a place of its own in the alphabet, and a name that equals a lower-case one
but for the case of A to Z has it as its lower-case form, as `to_lowercase` and
`eq_ignore_ascii_case` do. `AppAssumption`: every file gives its hosts an id each, none of which the
program is still to give out, and a query that is typed is not empty. One theorem has a hypothesis of
its own: `NamesAreApart` supposes that no hosts file there is at first holds two hosts of one name
(`ApartAtFirst`), as the instances of the `stores` run do.

**Install.** None of the invariants is inductive alone: that Done means "bytes in place" depends on
what is known at every step before it. `InstallInv` adds `BytesInv` (at each phase, whether the
temporary is whole, whether all bytes are copied, whether they are in place) and `FallbackInv` (why
the steps after a refused link were reached). `TypeStep`, `BytesStep` and `FallbackStep` show that
each conjunct survives every step, one case per action. The action properties follow from the
invariant, by cases on the step that changes the name.

**WorkerService.** Everything follows from the numbers of the commands. `ChannelInv`: the channel
holds the last ones posted, as they were posted. `ParkedInv`: the parked ones come in order, behind
the one being served and before the channel. `TakenInv`: no parked transfer precedes a Cancel that
was taken, which is why a purge loses nothing that was not cancelled. `ServingInv` and `AnswersInv`:
the worker serves a command that was posted, and whatever was answered came before it. A poll splits
the channel at the stop it finds, and its lemma says which number is on which side.

**TransferWorker.** The refinement is a simulation: every step of the worker is a step of the service
or a stutter under the mapping of `Service`, and a step of `Install` or a stutter. `WorkerInv` is
therefore mostly the two invariants already proved, taken through the mapping (`SP!ServiceInv`,
`I!InstallInv`); it adds `JobInv`, that the job being run is the one being served, and that it ends
as cancelled only by a Cancel posted after it. `DoneIsTrue` combines the two sides: the service says
which command an answer is for, the install where its bytes are.

**TransferScreen.** `ScreenInv` starts from the invariant of the service, because what an event may be
depends on what was posted: `KindsInv` says which command each kind of event answers, `OpeningInv`
that nothing is said before the session is open, `FlightInv` that a transfer is in flight exactly
while there is a queue, `QueueInv` (`Accounted`) what happened to every item before the present one.
The three properties are part of it: one transfer at a time is what makes an answer belong to the item
in flight. An event that is drained is the first of a queue of which the rest fits too, so the drain
needs no more than the fit of its head.

**Stores.** `EditsSurvive` compares a file with a history and says nothing of the copy that is about to
replace it. `StoresInv` adds `CopiesTrue`: a call that has loaded holds what it read, and a screen that
did not keep foreign credentials holds what its user takes it to hold. A save then appends to the file
an edit of the file itself (`SaveStep`) or marks it lost. `ApplyType` is the long lemma: every edit of
a database gives a database. A step that touches neither file nor history needs one fact only, that
the process it moves ends with a true copy (`Kept`, `PrivateStep`), and most actions are cases of it.
`SettingsInv`: config.toml follows the path of some process, so every process must be at the default
file or at one that is there, and no step removes a file.

`MeantInv` gives both names and secrets, which depend on what a process has still to do. Its edit must
fit the database in its own memory (`Placed`), since nobody else can change that between the popup
and the save; and a deletion of a secret must be named by the edit (`Removes`) until the vault is
written, also after the save, where a call has dropped its database. `ApplyApart` says that an edit
that fits keeps names apart. `MembersFollow` needs no history at all, but sessions: `SessionInv` says
that the renames take every site that is left to its name now, and every other to one that was
deleted, and `SessionGoesOn` keeps it through a change of any session, however long.

**Forwards.** `RunningIsListed` is not inductive: when a stopped forward leaves the ledger it must be
dead, or its survival known. `ProcessInv` says that a forward that runs has the pid and the spec it was
recorded with, that no other pid has it and that ps shows it; `DoneInv` that a stop which is through
leaves nothing running but what was spared. `WithoutOf` says what a filtered ledger holds.

**Connect.** `ConnectInv` has one part for each connect and one for each key of the store, because a
step moves one connect and at most one key. `Sound` says how a connect and its ssh are wired for its
host and phase: what is asked is of use (`Askful`), a wired ssh knows its host and no hop can ask its
helper (`Wired`), a session on a stored secret can read it (`Readable`), and the first question is
counted from the moment it is marked (`Counted`). `Owing` and `Kept` say who owes the proof of what is
stored, and `Opened` that a proof that succeeded names a value that gets in. A step that leaves the
store alone and proves nothing then needs only the soundness of the connect it moves (`QuietStep`); the
few that store, prove or delete a secret take the three parts for its key and leave the others alone.

**App.** `AppTypeOK`, `ListIsWhole` and `ActsOnTheChosen` follow from one invariant. `HostsInv`: the
hosts have an id each, below the next one. `OrderInv`: the order is the one `Order` makes of the hosts
by the uses of some moment, which need not be this one, because a connect that stays on the screen
counts a use and does not rank the list again. `OpenInv`: while a popup is open, what it is for (places
or an id) is still what was chosen when it opened, nothing has been stored and nothing is pending; in
pick mode, where no host can go, every mark is that of a host. Each action keeps the three and is then
shown to touch the chosen hosts only; the six that change the list go through `ListChanges`, and what
they touch through `TouchedOnly`.

`ListIsWhole` then says something of every list that `Order` makes, and needs no more of the state.
`EachHasItsPlace` counts what comes before each element of a finite set with a strict total order and
finds every place taken once, so `Sorted` enumerates its set (`SortedEnumerates`); the comparison of
hosts is such an order, and so is the alphabet on the keys of sections. `SectionsJoin` shows that
joining sequences that share nothing repeats nothing and keeps each of them together, so that
`group_order` shows every host a section takes once (`GroupOrderIsWhole`, `OrderIsWhole`). `RowsAre`
follows the headers through the rows: each host's row ends what the hosts up to it take, which is where
`Cursor` puts the selection (`CursorIs`), and a header stands only before the first of its section
(`HeadersDiffer`).

**Induction over data.** The library's induction theorems take a predicate as a parameter, which the
installed provers cannot instantiate, and a `SelectSeq` or a fold is opaque to them. So what a loop of
the code computes is a recursive function (`Retained` for `Vec::retain`, `AfterRenames` for the
cascade, `FlattenSeq` of the community modules for the sections and rows). `InductiveSet` is induction
for a set of numbers, derived from the least element that the order of the natural numbers gives, and
with it the function is shown to exist, to unfold, and to have the elements it should in their order
(`RetainedPicks`, `RetainedOf`, `RetainedSet`, `AfterRenamesSteps`, `JoinedSteps`). The few lemmas that
this begins with stand in each module that needs them.

Only model-checked: the properties of `Entry`, and the liveness properties `CloseEndsWorker` and
`EscEndsItem`, since fairness and ENABLED are out of the prover's reach. `Entry` reads and writes lines
of words option by option: what a line means is a recursion over it with a dozen cases, compared with
ssh's own reading, and to prove the two equal would need an induction for each of the ways a host is
entered. Its steps are few and its data deep, which is what TLC covers well.

## Not modelled

Progress events and byte counts; the text of listings and of error messages; the debug log; filter,
marks and cursor of a pane (`pane.rs:204`; the choice of what a send takes stands for them); the setup
of the control socket's directory. The file `state.json` and the decay of a use with time, which
`search.rs:141` evaluates with the clock at each comparison; the tmux mode outside a connect; the
refresh of the exported ssh_config. A host's name changed in the form is in `Entry`, not in `Stores`.
What a secret is, so that a stale one looks like any other in `Stores`; encryption; the temporaries of
`atomic_write` and their sweep. Fuzzy scores, the order of matches in the file browser, and what is in
a word character by character, which are constants. Copying a public key to a host; how ssh's errors
are classified; the stderr log of a forward. Drawing, layout and the help.

`doctor.rs` reads and reports and changes nothing; `paths.rs` resolves directories once.

## Plan

All modules planned are written. Every safety property of every component is proved but those of
`Entry`; those would begin with `EntryTypeOK` and a form that is opened on a host and saved unedited
(`FormKeeps`), and then lines. Worth modelling next: the marks of a pane (`pane.rs:204`), the file
`state.json` with its two writers, and a host that is renamed in the form while a call runs.
