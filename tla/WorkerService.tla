--------------------------- MODULE WorkerService ---------------------------
(***************************************************************************)
(* What the transfer worker promises the screen: commands go in, events    *)
(* come out, one command is served at a time and a Cancel or a Shutdown    *)
(* that arrives meanwhile is looked for while a child process runs         *)
(* (src/src/transfer/worker.rs: Commands, run, serve).  What the children  *)
(* do on disk and on the server is left to TransferWorker, which           *)
(* implements this module, and to Install.                                 *)
(***************************************************************************)
EXTENDS Naturals, SequencesExt, Retain

CONSTANTS
    Names,           \* entry names
    LocalDir,        \* the directory the local pane shows
    RemoteDirs,      \* the directories of the server
    Home, Root,      \* the one a session starts in, and the fallback for it
    ConnectMayFail,  \* the connection may fail to open
    MaxCommands      \* bound: how many commands a client posts

LocalPaths  == [dir : {LocalDir}, name : Names]
RemotePaths == [dir : RemoteDirs, name : Names]
Paths == LocalPaths \cup RemotePaths
Jobs  == [path : Paths, folder : BOOLEAN]

ASSUME WorkerAssumption ==
    /\ LocalDir \notin RemoteDirs
    /\ {Home, Root} \subseteq RemoteDirs
    /\ ConnectMayFail \in BOOLEAN
    /\ MaxCommands \in Nat

VARIABLES
    rx,        \* the command channel
    deferred,  \* commands a poll took from it and parked
    hungUp,    \* the screen's end of the channel is gone
    posted,    \* history: the kinds of the commands posted so far
    closing,   \* the screen is dropping its session
    worker,    \* what the worker is doing
    serving,   \* the command being served, or the last one
    events,    \* events the screen has not drained yet
    cancelSeen \* history: the last Cancel taken from the channel

screenEnd == <<hungUp, posted, closing>>
channel   == <<rx, deferred, screenEnd>>
serviceVars == <<channel, worker, serving, events, cancelSeen>>

\* Commands and the events that answer them carry a number that only the
\* histories and the properties look at: the program has none.
Requests ==
         [op : {"list"}, dir : RemoteDirs, id : Nat]
    \cup [op : {"mkdir"}, path : RemotePaths, id : Nat]
    \cup [op : {"transfer"}, job : Jobs, id : Nat]
Commands == Requests \cup [op : {"cancel", "shutdown"}, id : Nat]

Nothing == [op |-> "shutdown", id |-> 0]

Events ==
         [ev : {"ready"}, dir : RemoteDirs, id : Nat]
    \cup [ev : {"listing"}, dir : RemoteDirs, names : SUBSET Names,
          truncated : BOOLEAN, id : Nat]
    \cup [ev : {"mkdirDone"}, path : RemotePaths, id : Nat]
    \cup [ev : {"notReady", "done", "skipped", "cancelled", "mkdirFailed", "error"},
          id : Nat]

\* A transfer is "copying" until its last byte, and may do that for ever, and
\* "settling" while it is installed or cleared up after.
Serving == {"list", "mkdir", "copying", "settling"}
InBatch == {"home"} \cup Serving

ServiceTypeOK ==
    /\ rx \in Seq(Commands) /\ deferred \in Seq(Requests)
    /\ hungUp \in BOOLEAN /\ closing \in BOOLEAN
    /\ posted \in Seq({"list", "mkdir", "transfer", "cancel", "shutdown"})
    /\ worker \in {"handshake", "idle", "teardown", "gone"} \cup InBatch
    /\ serving \in Commands
    /\ events \in Seq(Events)
    /\ cancelSeen \in Nat

ServiceInit ==
    /\ rx = <<>> /\ deferred = <<>>
    /\ hungUp = FALSE /\ posted = <<>> /\ closing = FALSE
    /\ worker = "handshake" /\ serving = Nothing
    /\ events = <<>> /\ cancelSeen = 0
-----------------------------------------------------------------------------
(***************************************************************************)
(* The command channel: Commands::recv and Commands::poll_stop.            *)
(***************************************************************************)
IsStop(c) == c.op \in {"cancel", "shutdown"}

\* Where the first stop request waits in the channel, 0 if nowhere.
StopAt == SelectInSeq(rx, IsStop)

\* What a poll finds.
Found == IF StopAt # 0 THEN rx[StopAt].op
         ELSE IF hungUp THEN "shutdown" ELSE "none"

\* What a poll takes from the channel before it stops, and what it leaves.
Passed == IF StopAt = 0 THEN rx ELSE SubSeq(rx, 1, StopAt - 1)
Left   == IF StopAt = 0 THEN <<>> ELSE SubSeq(rx, StopAt + 1, Len(rx))

\* Mutants: a Cancel takes every parked command with it, or none.
PurgedAll(cmds)  == <<>>
PurgedNone(cmds) == cmds

\* A Cancel takes every parked transfer with it.
Purged(cmds) == Retained(cmds, {c \in ToSet(cmds) : c.op # "transfer"})

PollStop ==
    /\ rx' = Left
    /\ deferred' = IF Found = "cancel" THEN Purged(deferred \o Passed)
                   ELSE deferred \o Passed
    /\ cancelSeen' = IF Found = "cancel" THEN rx[StopAt].id ELSE cancelSeen
    /\ UNCHANGED screenEnd

\* The parked commands are served before the channel's.
NextCommand == IF deferred # <<>> THEN Head(deferred) ELSE Head(rx)

TakeCommand ==
    /\ deferred \o rx # <<>>
    /\ IF deferred # <<>> THEN deferred' = Tail(deferred) /\ UNCHANGED rx
       ELSE rx' = Tail(rx) /\ UNCHANGED deferred

\* TransferSession::send: the commands arrive in the channel, in this order,
\* numbered from NextId on.
NextId == Len(posted) + 1
Post(cmds) ==
    /\ rx' = rx \o cmds
    /\ posted' = posted \o [i \in DOMAIN cmds |-> cmds[i].op]

Emit(e) == events' = Append(events, e)
AnswerAndGoOn(e) == Emit(e) /\ UNCHANGED worker   \* mutant
Answer(e) == Emit(e) /\ worker' = "idle"
Outcome(ev) == [ev |-> ev, id |-> serving.id]
-----------------------------------------------------------------------------
(***************************************************************************)
(* The session: run(), handshake() and the loop of serve().                *)
(***************************************************************************)
Connected ==
    /\ worker = "handshake" /\ Found = "none" /\ PollStop
    /\ worker' = "home"
    /\ UNCHANGED <<serving, events>>

\* Authentication failed, the master died or thirty seconds passed; or the
\* control socket or ssh itself could not be set up, and nothing is torn down.
ConnectFails ==
    /\ worker = "handshake" /\ ConnectMayFail
    /\ Emit([ev |-> "notReady", id |-> 0])
    /\ worker' \in {"teardown", "gone"}
    /\ UNCHANGED <<channel, serving, cancelSeen>>

ConnectCancelled ==
    /\ worker = "handshake" /\ Found # "none" /\ PollStop
    /\ Emit([ev |-> "notReady", id |-> 0])
    /\ worker' = "teardown"
    /\ UNCHANGED serving

\* remote_home: anything but a stop falls back to the root directory.
HomeKnown ==
    /\ worker = "home"
    /\ \E dir \in {Home, Root} : Emit([ev |-> "ready", dir |-> dir, id |-> 0])
    /\ worker' = "idle"
    /\ UNCHANGED <<channel, serving, cancelSeen>>

Recv ==
    /\ worker = "idle" /\ TakeCommand
    /\ serving' = NextCommand
    /\ worker' = CASE NextCommand.op = "transfer" -> "copying"
                   [] NextCommand.op \in {"list", "mkdir"} -> NextCommand.op
                   [] NextCommand.op = "cancel" -> "idle"
                   [] NextCommand.op = "shutdown" -> "teardown"
    /\ cancelSeen' = IF NextCommand.op = "cancel" THEN NextCommand.id ELSE cancelSeen
    /\ UNCHANGED <<screenEnd, events>>

RecvDisconnected ==
    /\ worker = "idle" /\ deferred \o rx = <<>> /\ hungUp
    /\ worker' = "teardown"
    /\ UNCHANGED <<channel, serving, events, cancelSeen>>

Teardown ==
    /\ worker = "teardown"
    /\ worker' = "gone"
    /\ UNCHANGED <<channel, serving, events, cancelSeen>>
-----------------------------------------------------------------------------
(***************************************************************************)
(* The children: how a command ends by itself, and by a stop request.      *)
(***************************************************************************)

\* A poll that finds nothing parks what it passed over.
Park ==
    /\ worker \in InBatch /\ Found = "none" /\ PollStop
    /\ UNCHANGED <<worker, serving, events>>

ListAnswered ==
    /\ worker = "list"
    /\ \/ \E shown \in SUBSET Names, cut \in BOOLEAN :
             Answer([ev |-> "listing", dir |-> serving.dir, names |-> shown,
                     truncated |-> cut, id |-> serving.id])
       \/ Answer(Outcome("error"))
    /\ UNCHANGED <<channel, serving, cancelSeen>>

MkdirAnswered ==
    /\ worker = "mkdir"
    /\ \/ Answer([ev |-> "mkdirDone", path |-> serving.path, id |-> serving.id])
       \/ Answer(Outcome("mkdirFailed"))
    /\ UNCHANGED <<channel, serving, cancelSeen>>

\* A folder is in place with its last byte, a single file still has to settle.
CopyEnds ==
    /\ worker = "copying"
    /\ \/ worker' = "settling" /\ UNCHANGED events
       \/ Answer(Outcome("error"))
       \/ serving.job.folder /\ Answer(Outcome("done"))
    /\ UNCHANGED <<channel, serving, cancelSeen>>

\* How the installation of a single file or the clearing up ends.  Cancelled
\* is only ever the answer to a Cancel posted after the transfer.
SettledAs(o) ==
    /\ o \in {"done", "skipped", "error", "cancelled"}
    /\ o = "cancelled" => cancelSeen' > serving.id
    /\ Answer(Outcome(o))

Settles ==
    /\ worker = "settling"
    /\ UNCHANGED <<channel, serving, cancelSeen>>
    /\ \E o \in {"done", "skipped", "error", "cancelled"} : SettledAs(o)

\* Mutant: the Cancel of a listing or a mkdir is not answered.
InterruptedUnanswered ==
    /\ worker \in InBatch \ {"settling"}
    /\ Found # "none" /\ PollStop
    /\ worker' = IF Found = "shutdown" THEN "teardown" ELSE "idle"
    /\ UNCHANGED <<serving, events>>

\* Mutant: the copy is never interrupted.
CopyUninterrupted ==
    /\ worker \in {"list", "mkdir"}
    /\ Found # "none" /\ PollStop
    /\ IF Found = "shutdown" THEN worker' = "teardown" /\ UNCHANGED events
       ELSE Answer(Outcome("cancelled"))
    /\ UNCHANGED serving

\* A stop request found by the batch of a listing, of a mkdir or of the pwd
\* that opens the session, or by the loop around the copy.
Interrupted ==
    /\ worker \in InBatch \ {"settling"}
    /\ Found # "none" /\ PollStop
    /\ CASE Found = "shutdown" -> worker' = "teardown" /\ UNCHANGED events
         [] Found = "cancel" /\ worker = "home" ->
                worker' = "idle" /\ Emit([ev |-> "ready", dir |-> Root, id |-> 0])
         [] Found = "cancel" /\ worker # "home" ->
                \/ Answer(Outcome("cancelled"))
                \/ worker = "copying" /\ worker' = "settling" /\ UNCHANGED events
    /\ UNCHANGED serving

\* While it settles, some batches heed a stop request and others take it for
\* a failure of their own: it may stop the transfer, or change how it ends, or
\* go unnoticed.
SettlingInterrupted ==
    /\ worker = "settling"
    /\ Found # "none" /\ PollStop
    /\ \/ UNCHANGED <<worker, events>>
       \/ Found = "shutdown" /\ worker' = "teardown" /\ UNCHANGED events
       \/ \E o \in {"done", "skipped", "error", "cancelled"} : SettledAs(o)
    /\ UNCHANGED serving
-----------------------------------------------------------------------------
(***************************************************************************)
(* The screen's end.                                                       *)
(***************************************************************************)

\* TransferSession::drop posts a Shutdown, waits for the worker's ack, but no
\* longer than SHUTDOWN_ACK, and then lets go of the channel.
Close ==
    /\ ~closing
    /\ closing' = TRUE
    /\ Post(<<[op |-> "shutdown", id |-> NextId]>>)
    /\ UNCHANGED <<deferred, hungUp, worker, serving, events, cancelSeen>>

HangUp ==
    /\ closing /\ ~hungUp
    /\ hungUp' = TRUE
    /\ UNCHANGED <<rx, deferred, posted, closing, worker, serving, events, cancelSeen>>

\* A client that posts any command at any time and keeps every event.
Client ==
    /\ ~closing /\ Len(posted) < MaxCommands
    /\ \/ \E d \in RemoteDirs : Post(<<[op |-> "list", dir |-> d, id |-> NextId]>>)
       \/ \E p \in RemotePaths : Post(<<[op |-> "mkdir", path |-> p, id |-> NextId]>>)
       \/ \E j \in Jobs : Post(<<[op |-> "transfer", job |-> j, id |-> NextId]>>)
       \/ Post(<<[op |-> "cancel", id |-> NextId]>>)
    /\ UNCHANGED <<deferred, hungUp, closing, worker, serving, events, cancelSeen>>

Session == Connected \/ ConnectFails \/ ConnectCancelled \/ HomeKnown
           \/ Recv \/ RecvDisconnected \/ Teardown
Children == Park \/ ListAnswered \/ MkdirAnswered \/ CopyEnds \/ Settles
            \/ Interrupted \/ SettlingInterrupted

ServiceNext == Session \/ Children \/ Close \/ HangUp \/ Client

ServiceSpec == ServiceInit /\ [][ServiceNext]_serviceVars

\* The worker thread keeps going: its batches have deadlines and it polls.
\* Only a copy has none, so it need not end unless something stops it.  A
\* dropped session waits for the ack (SHUTDOWN_ACK) and then hangs up.
ServiceFairness ==
    /\ WF_serviceVars(Session)
    /\ WF_serviceVars(ListAnswered \/ MkdirAnswered \/ Settles)
    /\ WF_serviceVars(Interrupted)
    /\ WF_serviceVars(HangUp)
-----------------------------------------------------------------------------
(***************************************************************************)
(* Properties.                                                             *)
(***************************************************************************)
Waiting(id) ==
    \/ \E i \in DOMAIN rx : rx[i].id = id
    \/ \E i \in DOMAIN deferred : deferred[i].id = id
    \/ serving.id = id /\ worker \in Serving

Answered(id) == \E i \in DOMAIN events : events[i].id = id

\* Commands: "anything that isn't a stop request waits here and is served in
\* order once the child is done": while the worker serves, every request is
\* waiting or answered, but for the transfers that a later Cancel took along.
NothingForgotten ==
    worker \notin {"teardown", "gone"} =>
        \A id \in DOMAIN posted :
            \/ Waiting(id) \/ Answered(id)
            \/ posted[id] = "transfer" /\ id < cancelSeen
            \/ posted[id] \in {"cancel", "shutdown"}

\* serve() gives each request one answer at most.
AnsweredOnce ==
    \A i, j \in DOMAIN events : events[i].id = events[j].id => i = j \/ events[i].id = 0

\* Requests are served in the order they were posted, parked or not, and a
\* transfer posted before a Cancel never starts once the Cancel was taken
\* (poll_stop: "serving it afterwards would move exactly the bytes the cancel
\* stopped").
ServedInOrder ==
    [][serving' # serving =>
          /\ serving'.id > serving.id
          /\ serving'.op = "transfer" => serving'.id > cancelSeen]_serviceVars
=============================================================================
