--------------------------- MODULE TransferWorker ---------------------------
(***************************************************************************)
(* The transfer worker of src/src/transfer/worker.rs in full: the thread   *)
(* that serves the screen's commands, and the child processes it runs for  *)
(* them, step by step, on the local disk and the server.                   *)
(*                                                                         *)
(* It implements WorkerService, what the screen relies on, and drives      *)
(* Install, what happens to the files.                                     *)
(***************************************************************************)
EXTENDS Naturals, FiniteSets, SequencesExt

CONSTANTS
    Names, LocalDir, RemoteDirs, Home, Root, ConnectMayFail, MaxCommands,
                     \* as in WorkerService
    Foreign, Linkable, RenameReplaces, Direct,     \* as in Install
    MaxEntries,      \* a listing is cut here
    BatchMayFail     \* a batch may fail or time out on a live connection

ASSUME BoundsAssumption == MaxEntries \in Nat /\ BatchMayFail \in BOOLEAN

VARIABLES
    fs, up, job, phase, tmp, outcome,
    copied, arrived, lost, excuses,
    rx, deferred, hungUp, posted, closing, serving, events, cancelSeen,
    worker,    \* what the worker is doing
    running    \* a batch has been spawned, after a poll that found no stop

\* The service sees a transfer as copying or as settling.
Service == IF worker # "transfer" THEN worker
           ELSE IF phase = "copy" THEN "copying" ELSE "settling"

S == INSTANCE WorkerService WITH worker <- Service

I == INSTANCE Install WITH LocalPaths <- S!LocalPaths, RemotePaths <- S!RemotePaths

\* What WorkerService and Install assume of the constants.
ASSUME TransferAssumption ==
    /\ LocalDir \notin RemoteDirs
    /\ {Home, Root} \subseteq RemoteDirs
    /\ ConnectMayFail \in BOOLEAN /\ MaxCommands \in Nat
    /\ Linkable \subseteq S!Paths
    /\ RenameReplaces \in BOOLEAN /\ Direct \in BOOLEAN
    /\ Foreign \cap I!OwnContents = {}

installVars == <<fs, up, job, phase, tmp, outcome, copied, arrived, lost, excuses>>
exceptFs    == <<up, job, phase, tmp, outcome, copied, arrived, lost, excuses>>
exceptUp    == <<fs, job, phase, tmp, outcome, copied, arrived, lost, excuses>>
channel     == <<rx, deferred, hungUp, posted, closing>>
vars == <<installVars, channel, worker, serving, running, events, cancelSeen>>

WorkerTypeOK ==
    /\ I!TypeOK /\ S!ServiceTypeOK
    /\ running \in BOOLEAN
    /\ worker = "transfer" <=> phase # "idle"
    /\ worker \in {"handshake", "home", "idle", "list", "mkdir", "transfer",
                   "teardown", "gone"}

WorkerInit ==
    /\ I!Init /\ job = CHOOSE j \in S!Jobs : TRUE
    /\ worker = "handshake" /\ running = FALSE
    /\ S!ServiceInit

Leave(w)  == worker' = w /\ running' = FALSE
Answer(e) == S!Emit(e) /\ Leave("idle")
-----------------------------------------------------------------------------
(***************************************************************************)
(* The session: run(), handshake(), remote_home() and the loop of serve(). *)
(***************************************************************************)
MasterUp ==
    /\ worker = "handshake" /\ S!Found = "none" /\ S!PollStop
    /\ I!MasterUp
    /\ Leave("home")
    /\ UNCHANGED <<serving, events>>

\* Authentication failed, the master died or thirty seconds passed; or the
\* control socket or ssh itself could not be set up, and nothing is torn down.
ConnectFails ==
    /\ worker = "handshake" /\ ConnectMayFail
    /\ S!Emit([ev |-> "notReady", id |-> 0])
    /\ Leave("teardown") \/ Leave("gone")
    /\ UNCHANGED <<installVars, channel, serving, cancelSeen>>

ConnectCancelled ==
    /\ worker = "handshake" /\ S!Found # "none" /\ S!PollStop
    /\ S!Emit([ev |-> "notReady", id |-> 0])
    /\ Leave("teardown")
    /\ UNCHANGED <<installVars, serving>>

\* Anything but a stop falls back to the root directory.
HomeKnown ==
    /\ worker = "home"
    /\ \E dir \in {Home, Root} :
          /\ \/ dir = Home /\ running /\ I!Reaches /\ UNCHANGED <<channel, cancelSeen>>
             \/ dir = Root /\ (BatchMayFail \/ ~I!Reaches) /\ UNCHANGED <<channel, cancelSeen>>
             \/ dir = Root /\ S!Found = "cancel" /\ S!PollStop
          /\ S!Emit([ev |-> "ready", dir |-> dir, id |-> 0])
    /\ Leave("idle")
    /\ UNCHANGED <<installVars, serving>>

\* The next command; a transfer starts its copy at once.
Recv ==
    /\ worker = "idle" /\ S!TakeCommand
    /\ serving' = S!NextCommand
    /\ CASE serving'.op = "transfer" -> Leave("transfer") /\ I!Start(serving'.job)
         [] serving'.op \in {"list", "mkdir"} -> Leave(serving'.op) /\ UNCHANGED installVars
         [] serving'.op = "cancel" -> Leave("idle") /\ UNCHANGED installVars
         [] serving'.op = "shutdown" -> Leave("teardown") /\ UNCHANGED installVars
    /\ cancelSeen' = IF serving'.op = "cancel" THEN serving'.id ELSE cancelSeen
    /\ UNCHANGED <<hungUp, posted, closing, events>>

NeverDisconnected == FALSE     \* mutant

RecvDisconnected ==
    /\ worker = "idle" /\ deferred \o rx = <<>> /\ hungUp
    /\ Leave("teardown")
    /\ UNCHANGED <<installVars, channel, serving, events, cancelSeen>>

Teardown ==
    /\ worker = "teardown"
    /\ up' = FALSE
    /\ Leave("gone")
    /\ UNCHANGED <<exceptUp, channel, serving, events, cancelSeen>>
-----------------------------------------------------------------------------
(***************************************************************************)
(* Batches: run_sftp_batch(), list_remote() and mkdir_remote().            *)
(***************************************************************************)
InBatch == \/ worker \in {"home", "list", "mkdir"}
           \/ worker = "transfer" /\ phase \in I!RemotePhases \cup {"copy"}

\* The poll that comes before a batch is spawned (or, for the copy, before its
\* exit is first looked at) found nothing.
Spawn ==
    /\ InBatch /\ ~running
    /\ S!Found = "none" /\ S!PollStop
    /\ running' = TRUE
    /\ UNCHANGED <<installVars, worker, serving, events>>

\* Names under a remote directory, as `ls -lan` reports them.
Present(d) == {n \in Names : fs[[dir |-> d, name |-> n]] # "absent"}

ListingArrives ==
    /\ worker = "list" /\ running /\ I!Reaches
    /\ \E shown \in SUBSET Present(serving.dir) :
          /\ shown # Present(serving.dir) => Cardinality(shown) = MaxEntries
          /\ Cardinality(shown) <= MaxEntries
          /\ Answer([ev |-> "listing", dir |-> serving.dir, names |-> shown,
                     truncated |-> shown # Present(serving.dir), id |-> serving.id])
    /\ UNCHANGED <<installVars, channel, serving, cancelSeen>>

ListingFails ==
    /\ worker = "list" /\ (BatchMayFail \/ ~I!Reaches)
    /\ Answer(S!Outcome("error"))
    /\ UNCHANGED <<installVars, channel, serving, cancelSeen>>

\* What mkdir leaves on the server; it fails on a name that exists, and may be
\* reported as failed where the answer was lost.  To a
\* transfer the new directory is in the way like anything foreign.
Created == \E f \in Foreign : fs' = [fs EXCEPT ![serving.path] = f]
MayCreate == I!Reaches /\ fs[serving.path] = "absent"

MkdirEnds ==
    /\ worker = "mkdir"
    /\ \/ /\ running /\ MayCreate /\ Created
          /\ Answer([ev |-> "mkdirDone", path |-> serving.path, id |-> serving.id])
       \/ running /\ ~MayCreate /\ UNCHANGED fs /\ Answer(S!Outcome("mkdirFailed"))
       \/ /\ BatchMayFail /\ Answer(S!Outcome("mkdirFailed"))
          /\ UNCHANGED fs \/ (running /\ MayCreate /\ Created)
    /\ UNCHANGED <<exceptFs, channel, serving, cancelSeen>>

\* A stop request found by the batch of a listing, a mkdir or the pwd that
\* opens the session; a mkdir may have reached the server by then.
BatchInterrupted ==
    /\ worker \in {"home", "list", "mkdir"}
    /\ S!Found # "none" /\ S!PollStop
    /\ IF S!Found = "cancel"
       THEN worker # "home" /\ Answer(S!Outcome("cancelled"))
       ELSE Leave("teardown") /\ UNCHANGED events
    /\ UNCHANGED fs \/ (worker = "mkdir" /\ running /\ MayCreate /\ Created)
    /\ UNCHANGED <<exceptFs, serving>>
-----------------------------------------------------------------------------
(***************************************************************************)
(* A transfer: the steps of Install, run by this worker.                   *)
(***************************************************************************)
Interrupt == IF S!Found = "cancel" THEN "cancelled" ELSE "stopped"

\* Mutant: a name that was taken counts as transferred.
EventForTaken(o) == IF o = "exists" THEN "done" ELSE IF o = "failed" THEN "error" ELSE o

EventFor(o) == CASE o = "done" -> "done" [] o = "exists" -> "skipped"
                 [] o = "cancelled" -> "cancelled" [] o = "failed" -> "error"

\* Mutants: a Shutdown is answered like a Cancel; a job that ended is not left.
ReportShutdown ==
    /\ running' = (running /\ phase' = phase)
    /\ IF phase' # "idle" THEN UNCHANGED <<worker, events>>
       ELSE /\ worker' = "idle"
            /\ S!Emit([ev |-> IF outcome' = "stopped" THEN "cancelled"
                              ELSE EventFor(outcome'), id |-> serving.id])
    /\ UNCHANGED serving
ReportAndStay ==
    /\ running' = (running /\ phase' = phase)
    /\ UNCHANGED <<worker, events, serving>>

\* When the job has ended, serve() answers it, or leaves if it was stopped.
Report ==
    /\ running' = (running /\ phase' = phase)
    /\ CASE phase' # "idle" -> UNCHANGED <<worker, events>>
         [] phase' = "idle" /\ outcome' = "stopped" -> worker' = "teardown" /\ UNCHANGED events
         [] phase' = "idle" /\ outcome' # "stopped" ->
                worker' = "idle" /\ S!Emit([ev |-> EventFor(outcome'), id |-> serving.id])
    /\ UNCHANGED serving

Copies ==
    /\ worker = "transfer"
    /\ I!Write \/ I!LaunchFails \/ (running /\ (I!CopyOk \/ I!CopyFails))
    /\ Report
    /\ UNCHANGED <<channel, cancelSeen>>

Settles ==
    /\ worker = "transfer"
    /\ \/ running /\ (\/ I!LnOk \/ I!Ls \/ I!RenameOk
                      \/ \E took \in BOOLEAN :
                            I!LnRefused(took) \/ I!RenameRefused(took) \/ I!Rm(took))
       \/ I!InstallDownload
    /\ Report
    /\ UNCHANGED <<channel, cancelSeen>>

\* The batch timed out or sftp could not be launched.
TimesOut ==
    /\ worker = "transfer" /\ BatchMayFail
    /\ \/ \E took \in {running, FALSE} :
             I!LnInterrupted("failed", took) \/ I!RenameInterrupted("failed", took)
       \/ I!LsInterrupted
       \/ I!Rm(FALSE)
    /\ Report
    /\ UNCHANGED <<channel, cancelSeen>>

\* Mutant: the child is abandoned with all it wrote.
InterruptedUncleaned ==
    /\ worker = "transfer" /\ phase = "copy"
    /\ S!Found # "none" /\ S!PollStop
    /\ I!End(Interrupt)
    /\ Report
    /\ UNCHANGED <<fs, up, job, tmp, copied, arrived, lost, excuses>>

\* A stop request found while the transfer's child runs, or before it is
\* spawned.  ls and rm take it for an ordinary failure.
Interrupted ==
    /\ worker = "transfer"
    /\ S!Found # "none" /\ S!PollStop
    /\ \/ I!CopyInterrupted(Interrupt)
       \/ I!LsInterrupted
       \/ \E took \in {running, FALSE} :
             \/ I!LnInterrupted(Interrupt, took)
             \/ I!RenameInterrupted(Interrupt, took)
             \/ I!Rm(took)
    /\ Report
-----------------------------------------------------------------------------
(***************************************************************************)
(* The screen's end and the rest of the world.                             *)
(***************************************************************************)
Client ==
    /\ UNCHANGED <<installVars, worker, running>>
    /\ S!Close \/ S!HangUp \/ S!Client

World ==
    /\ \/ \E p \in S!Paths : I!OtherRemoves(p) \/ \E f \in Foreign : I!OtherWrites(p, f)
       \/ ConnectMayFail /\ up /\ I!ConnectionLost
    /\ UNCHANGED <<channel, worker, serving, running, events, cancelSeen>>

Session == MasterUp \/ ConnectFails \/ ConnectCancelled \/ HomeKnown
           \/ Recv \/ RecvDisconnected \/ Teardown
Batches == ListingArrives \/ ListingFails \/ MkdirEnds
Stops   == BatchInterrupted \/ Interrupted

WorkerNext == Session \/ Spawn \/ Batches \/ Stops \/ Copies \/ Settles \/ TimesOut
              \/ Client \/ World

WorkerSpec == WorkerInit /\ [][WorkerNext]_vars

\* The worker thread keeps going, its batches have deadlines and the local
\* calls return.  The copy alone need not end.
WorkerFairness ==
    /\ WF_vars(Session)
    /\ WF_vars(Spawn)
    /\ WF_vars(Batches)
    /\ WF_vars(Settles)
    /\ WF_vars(Stops)
    /\ WF_vars(UNCHANGED <<installVars, worker, running>> /\ S!HangUp)

FairWorkerSpec == WorkerSpec /\ WorkerFairness
-----------------------------------------------------------------------------
(***************************************************************************)
(* Properties.                                                             *)
(***************************************************************************)

\* The worker answers as WorkerService says, whatever its children, the server
\* and the other programs do (serve() and everything it calls).
ImplementsService == S!ServiceSpec

\* What the worker does to files is what Install says: in particular a stop is
\* looked for only where Install lets one interrupt (transfer()).
DrivesInstall == I!Spec

\* Closing the screen ends the worker, whatever it was doing: a hung copy is
\* stopped, and a Shutdown that an install step took for a failure is made up
\* for by the channel that is let go of (TransferSession::drop).
CloseEndsWorker == closing ~> worker = "gone"

\* transfer()'s install runs after sftp has written every byte, so the screen
\* hears Done only of a transfer whose bytes went in place; and Skipped only of
\* one whose bytes did not, unless the server's answer to an ln or rename that
\* it carried out was lost.
DoneIsTrue ==
    [][\A e \in {"done", "skipped"} :
          events' = Append(events, [ev |-> e, id |-> serving.id])
             => IF e = "done" THEN arrived' ELSE ~arrived' \/ lost']_vars
=============================================================================
