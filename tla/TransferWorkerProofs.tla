------------------------- MODULE TransferWorkerProofs -------------------------
(***************************************************************************)
(* That the worker with its children keeps what WorkerService promises and *)
(* runs its jobs as Install has it: every step of it is a step of the      *)
(* service, and one of the install, or leaves them as they are.  So what   *)
(* was proved of those two holds of the worker, and its own invariant has  *)
(* little to add: the job that runs is the one being served, and it ends   *)
(* as cancelled only by a Cancel that was posted after it (JobInv).        *)
(***************************************************************************)
EXTENDS TransferWorker, TLAPS

SP == INSTANCE WorkerServiceProofs WITH worker <- Service
IP == INSTANCE InstallProofs WITH LocalPaths <- S!LocalPaths, RemotePaths <- S!RemotePaths

\* The job that is run is the one being served, and it ends as cancelled only
\* if a Cancel was taken after it was.
JobInv ==
    /\ worker = "transfer" => job = serving.job
    /\ phase = "rmAbort" /\ outcome = "cancelled" => cancelSeen > serving.id

WorkerInv == WorkerTypeOK /\ I!InstallInv /\ SP!ServiceInv /\ JobInv
-----------------------------------------------------------------------------
(***************************************************************************)
(* TransferWorker and the modules of proofs each have an instance of the   *)
(* service and of the install; what their operators say is the same.       *)
(***************************************************************************)
LEMMA SamePaths ==
    /\ S!LocalPaths = SP!LocalPaths /\ S!RemotePaths = SP!RemotePaths
    /\ S!Paths = SP!Paths /\ S!Jobs = SP!Jobs
    /\ I!Paths = S!Paths /\ IP!Paths = S!Paths /\ I!Jobs = S!Jobs /\ IP!Jobs = S!Jobs
  BY DEF S!LocalPaths, SP!LocalPaths, S!RemotePaths, SP!RemotePaths, S!Paths, SP!Paths, S!Jobs,
         SP!Jobs, I!Paths, IP!Paths, I!Jobs, IP!Jobs

LEMMA InstallAssumed ==
    /\ S!LocalPaths \cap S!RemotePaths = {}
    /\ Linkable \subseteq I!Paths /\ Linkable \subseteq IP!Paths
    /\ Foreign \cap IP!OwnContents = {}
  BY TransferAssumption, SamePaths DEF S!LocalPaths, S!RemotePaths, I!OwnContents, IP!OwnContents

LEMMA SameChannel ==
    /\ S!StopAt = SP!StopAt
    /\ S!Found = SP!Found /\ S!NextCommand = SP!NextCommand
    /\ S!PollStop <=> SP!PollStop
    /\ S!TakeCommand <=> SP!TakeCommand
<1>1. S!StopAt = SP!StopAt
  BY DEF S!StopAt, SP!StopAt, S!SelectInSeq, SP!SelectInSeq, S!IsStop, SP!IsStop, S!Min, SP!Min
<1>2. S!Found = SP!Found /\ S!NextCommand = SP!NextCommand
  BY <1>1 DEF S!Found, SP!Found, S!NextCommand, SP!NextCommand
<1>3. S!Passed = SP!Passed /\ S!Left = SP!Left
  BY <1>1 DEF S!Passed, SP!Passed, S!Left, SP!Left
<1>4. \A cmds : S!Purged(cmds) = SP!Purged(cmds)
  BY DEF S!Purged, SP!Purged, S!Retained, SP!Retained, S!ToSet, SP!ToSet
<1> QED
  BY <1>1, <1>2, <1>3, <1>4
  DEF S!PollStop, SP!PollStop, S!TakeCommand, SP!TakeCommand, S!screenEnd, SP!screenEnd

LEMMA SameMessages ==
    /\ S!Requests = SP!Requests /\ S!Commands = SP!Commands /\ S!Events = SP!Events
    /\ S!Nothing = SP!Nothing /\ S!NextId = SP!NextId
    /\ S!Serving = SP!Serving /\ S!InBatch = SP!InBatch
    /\ \A e : S!Emit(e) <=> SP!Emit(e)
    /\ \A e : S!Answer(e) <=> SP!Answer(e)
    /\ \A ev : S!Outcome(ev) = SP!Outcome(ev)
    /\ \A cmds : S!Post(cmds) <=> SP!Post(cmds)
    /\ \A o : S!SettledAs(o) <=> SP!SettledAs(o)
<1>1. S!Requests = SP!Requests
  BY SamePaths DEF S!Requests, SP!Requests
<1>2. S!Commands = SP!Commands
  BY <1>1 DEF S!Commands, SP!Commands
<1>3. S!Events = SP!Events
  BY SamePaths DEF S!Events, SP!Events
<1>4. S!Nothing = SP!Nothing /\ S!NextId = SP!NextId
  BY DEF S!Nothing, SP!Nothing, S!NextId, SP!NextId
<1>5. S!Serving = SP!Serving /\ S!InBatch = SP!InBatch
  BY DEF S!Serving, SP!Serving, S!InBatch, SP!InBatch
<1>6. \A e : S!Emit(e) <=> SP!Emit(e)
  BY DEF S!Emit, SP!Emit
<1>7. \A e : S!Answer(e) <=> SP!Answer(e)
  BY <1>6 DEF S!Answer, SP!Answer
<1>8. \A ev : S!Outcome(ev) = SP!Outcome(ev)
  BY DEF S!Outcome, SP!Outcome
<1>9. \A cmds : S!Post(cmds) <=> SP!Post(cmds)
  BY DEF S!Post, SP!Post
<1>10. \A o : S!SettledAs(o) <=> SP!SettledAs(o)
  BY <1>7, <1>8 DEF S!SettledAs, SP!SettledAs
<1> QED
  BY <1>1, <1>2, <1>3, <1>4, <1>5, <1>6, <1>7, <1>8, <1>9, <1>10

LEMMA SameTypes ==
    /\ S!ServiceTypeOK <=> SP!ServiceTypeOK
    /\ S!ServiceInit <=> SP!ServiceInit
    /\ S!serviceVars = SP!serviceVars
<1>1. S!ServiceTypeOK <=> SP!ServiceTypeOK
  BY SameMessages DEF S!ServiceTypeOK, SP!ServiceTypeOK
<1>2. S!ServiceInit <=> SP!ServiceInit
  BY SameMessages DEF S!ServiceInit, SP!ServiceInit
<1>3. S!serviceVars = SP!serviceVars
  BY DEF S!serviceVars, SP!serviceVars, S!channel, SP!channel, S!screenEnd, SP!screenEnd
<1> QED
  BY <1>1, <1>2, <1>3

LEMMA SameSession == S!Session <=> SP!Session
<1> USE SameChannel, SameMessages
        DEF S!channel, SP!channel, S!screenEnd, SP!screenEnd
<1>1. S!Connected <=> SP!Connected
  BY DEF S!Connected, SP!Connected
<1>2. S!ConnectFails <=> SP!ConnectFails
  BY DEF S!ConnectFails, SP!ConnectFails
<1>3. S!ConnectCancelled <=> SP!ConnectCancelled
  BY DEF S!ConnectCancelled, SP!ConnectCancelled
<1>4. S!HomeKnown <=> SP!HomeKnown
  BY DEF S!HomeKnown, SP!HomeKnown
<1>5. S!Recv <=> SP!Recv
  BY DEF S!Recv, SP!Recv
<1>6. S!RecvDisconnected <=> SP!RecvDisconnected
  BY DEF S!RecvDisconnected, SP!RecvDisconnected
<1>7. S!Teardown <=> SP!Teardown
  BY DEF S!Teardown, SP!Teardown
<1> QED
  BY <1>1, <1>2, <1>3, <1>4, <1>5, <1>6, <1>7 DEF S!Session, SP!Session

LEMMA SameChildren == S!Children <=> SP!Children
<1> USE SameChannel, SameMessages
        DEF S!channel, SP!channel, S!screenEnd, SP!screenEnd
<1>1. S!Park <=> SP!Park
  BY DEF S!Park, SP!Park
<1>2. S!ListAnswered <=> SP!ListAnswered
  BY DEF S!ListAnswered, SP!ListAnswered
<1>3. S!MkdirAnswered <=> SP!MkdirAnswered
  BY DEF S!MkdirAnswered, SP!MkdirAnswered
<1>4. S!CopyEnds <=> SP!CopyEnds
  BY DEF S!CopyEnds, SP!CopyEnds
<1>5. S!Settles <=> SP!Settles
  BY DEF S!Settles, SP!Settles
<1>6. S!Interrupted <=> SP!Interrupted
  BY DEF S!Interrupted, SP!Interrupted
<1>7. S!SettlingInterrupted <=> SP!SettlingInterrupted
  BY DEF S!SettlingInterrupted, SP!SettlingInterrupted
<1> QED
  BY <1>1, <1>2, <1>3, <1>4, <1>5, <1>6, <1>7 DEF S!Children, SP!Children

LEMMA SameNext == S!ServiceNext <=> SP!ServiceNext
<1>1. S!Close <=> SP!Close
  BY SameMessages DEF S!Close, SP!Close
<1>2. S!HangUp <=> SP!HangUp
  BY DEF S!HangUp, SP!HangUp
<1>3. S!Client <=> SP!Client
  BY SameMessages, SamePaths DEF S!Client, SP!Client
<1> QED
  BY <1>1, <1>2, <1>3, SameSession, SameChildren DEF S!ServiceNext, SP!ServiceNext

LEMMA SameInstall ==
    /\ I!Init <=> IP!Init
    /\ I!installVars = IP!installVars
    /\ I!InstallInv <=> IP!InstallInv
<1> USE SamePaths DEF I!Contents, IP!Contents, I!OwnContents, IP!OwnContents, I!Phases, IP!Phases,
        I!LocalPhases, IP!LocalPhases, I!RemotePhases, IP!RemotePhases, I!Outcomes, IP!Outcomes,
        I!Interrupts, IP!Interrupts, I!Dest, IP!Dest, I!Excuses, IP!Excuses
<1>1. I!TypeOK <=> IP!TypeOK
  BY DEF I!TypeOK, IP!TypeOK
<1>2. I!BytesInv <=> IP!BytesInv
  BY DEF I!BytesInv, IP!BytesInv
<1>3. I!FallbackInv <=> IP!FallbackInv
  BY DEF I!FallbackInv, IP!FallbackInv
<1>4. I!ReportTrue <=> IP!ReportTrue
  BY DEF I!ReportTrue, IP!ReportTrue
<1>5. I!NothingThrownAway <=> IP!NothingThrownAway
  BY DEF I!NothingThrownAway, IP!NothingThrownAway
<1>6. I!Init <=> IP!Init
  BY DEF I!Init, IP!Init
<1>7. I!installVars = IP!installVars
  BY DEF I!installVars, IP!installVars
<1> QED
  BY <1>1, <1>2, <1>3, <1>4, <1>5, <1>6, <1>7 DEF I!InstallInv, IP!InstallInv

LEMMA SameInstallNext == I!Next <=> IP!Next
<1> USE SamePaths DEF I!OwnContents, IP!OwnContents, I!Phases, IP!Phases,
        I!LocalPhases, IP!LocalPhases, I!RemotePhases, IP!RemotePhases, I!Outcomes, IP!Outcomes,
        I!Interrupts, IP!Interrupts, I!Dest, IP!Dest, I!End, IP!End, I!EndAfterRm, IP!EndAfterRm,
        I!IsLocal, IP!IsLocal, I!Reaches, IP!Reaches, I!Free, IP!Free, I!CanLink, IP!CanLink,
        I!CanRename, IP!CanRename, I!history, IP!history, I!StepFailed, IP!StepFailed,
        I!Installed, IP!Installed, I!Linked, IP!Linked, I!Renamed, IP!Renamed
<1>1. \A j : I!Start(j) <=> IP!Start(j)
  BY DEF I!Start, IP!Start
<1>2. (I!LaunchFails <=> IP!LaunchFails) /\ (I!Write <=> IP!Write)
  BY DEF I!LaunchFails, IP!LaunchFails, I!Write, IP!Write
<1>3. (I!CopyOk <=> IP!CopyOk) /\ (I!CopyFails <=> IP!CopyFails)
  BY DEF I!CopyOk, IP!CopyOk, I!CopyFails, IP!CopyFails
<1>4. \A r : I!CopyInterrupted(r) <=> IP!CopyInterrupted(r)
  BY DEF I!CopyInterrupted, IP!CopyInterrupted
<1>5. I!Copy <=> IP!Copy
  BY <1>1, <1>2, <1>3, <1>4 DEF I!Copy, IP!Copy
<1>6. I!InstallDownload <=> IP!InstallDownload
  BY DEF I!InstallDownload, IP!InstallDownload, I!LinkLocal, IP!LinkLocal, I!StatLocal,
         IP!StatLocal, I!RenameLocal, IP!RenameLocal, I!LinkUnsupported, IP!LinkUnsupported
<1>7. (I!LnOk <=> IP!LnOk) /\ \A took : I!LnRefused(took) <=> IP!LnRefused(took)
  BY DEF I!LnOk, IP!LnOk, I!LnRefused, IP!LnRefused, I!LnErrs, IP!LnErrs
<1>8. \A r, took : I!LnInterrupted(r, took) <=> IP!LnInterrupted(r, took)
  BY DEF I!LnInterrupted, IP!LnInterrupted
<1>9. (I!Ls <=> IP!Ls) /\ (I!LsInterrupted <=> IP!LsInterrupted)
  BY DEF I!Ls, IP!Ls, I!LsInterrupted, IP!LsInterrupted, I!NotTaken, IP!NotTaken
<1>10. (I!RenameOk <=> IP!RenameOk) /\ \A took : I!RenameRefused(took) <=> IP!RenameRefused(took)
  BY DEF I!RenameOk, IP!RenameOk, I!RenameRefused, IP!RenameRefused
<1>11. \A r, took : I!RenameInterrupted(r, took) <=> IP!RenameInterrupted(r, took)
  BY DEF I!RenameInterrupted, IP!RenameInterrupted
<1>12. \A took : I!Rm(took) <=> IP!Rm(took)
  BY DEF I!Rm, IP!Rm
<1>13. I!InstallUpload <=> IP!InstallUpload
  BY <1>7, <1>8, <1>9, <1>10, <1>11, <1>12 DEF I!InstallUpload, IP!InstallUpload
<1>14. I!Other <=> IP!Other
  BY DEF I!Other, IP!Other, I!OtherRemoves, IP!OtherRemoves, I!OtherWrites, IP!OtherWrites,
         I!MasterUp, IP!MasterUp, I!ConnectionLost, IP!ConnectionLost
<1> QED
  BY <1>5, <1>6, <1>13, <1>14 DEF I!Next, IP!Next

\* What Install and WorkerService are proved to keep, they keep here.
LEMMA InstallKeeps == ASSUME I!InstallInv, [I!Next]_I!installVars PROVE I!InstallInv'
<1>1. IP!InstallInv /\ [IP!Next]_IP!installVars
  BY SameInstall, SameInstallNext DEF I!installVars, IP!installVars
<1>2. IP!TypeOK'
  BY <1>1, IP!TypeStep, InstallAssumed, TransferAssumption DEF IP!InstallInv
<1>3. IP!BytesInv' /\ IP!ReportTrue' /\ IP!NothingThrownAway'
  BY <1>1, IP!BytesStep, InstallAssumed, TransferAssumption DEF IP!InstallInv
<1>4. IP!FallbackInv'
  BY <1>1, IP!FallbackStep, InstallAssumed, TransferAssumption DEF IP!InstallInv
<1>5. IP!InstallInv'
  BY <1>2, <1>3, <1>4 DEF IP!InstallInv
<1> QED
  BY <1>5, SameInstall, PTL

LEMMA ServiceKeeps ==
    ASSUME SP!ServiceInv, [S!ServiceNext]_S!serviceVars PROVE SP!ServiceInv'
<1>1. [SP!ServiceNext]_SP!serviceVars
  BY SameNext DEF S!serviceVars, SP!serviceVars, S!channel, SP!channel, S!screenEnd, SP!screenEnd
<1> QED
  BY <1>1, SP!ServiceStep, TransferAssumption
-----------------------------------------------------------------------------
(* What the worker does to files.                                          *)

\* What a worker serves, told from what it is doing.
LEMMA ServingFacts ==
    ASSUME WorkerInv
    PROVE  /\ serving \in S!Commands /\ serving.id \in Nat /\ cancelSeen \in Nat
           /\ worker = "list" => serving.op = "list" /\ serving.dir \in RemoteDirs
           /\ worker = "mkdir" => serving.op = "mkdir" /\ serving.path \in S!RemotePaths
           /\ worker = "transfer" => serving.op = "transfer" /\ serving.job \in S!Jobs
<1>1. serving \in S!Commands /\ cancelSeen \in Nat
  BY DEF WorkerInv, WorkerTypeOK, S!ServiceTypeOK
<1>2. SP!ServingInv
  BY DEF WorkerInv, SP!ServiceInv, SP!AnsweringInv
<1>3. /\ worker = "list" => serving.op = "list"
      /\ worker = "mkdir" => serving.op = "mkdir"
      /\ worker = "transfer" => serving.op = "transfer"
  BY <1>2 DEF SP!ServingInv, SP!Serving, Service
<1>4. serving.id \in Nat
  BY <1>1 DEF S!Commands, S!Requests
<1>5. serving.op = "list" => serving.dir \in RemoteDirs
  BY <1>1 DEF S!Commands, S!Requests
<1>6. serving.op = "mkdir" => serving.path \in S!RemotePaths
  BY <1>1 DEF S!Commands, S!Requests
<1>7. serving.op = "transfer" => serving.job \in S!Jobs
  BY <1>1 DEF S!Commands, S!Requests
<1> QED
  BY <1>1, <1>3, <1>4, <1>5, <1>6, <1>7

\* The next command is one.
LEMMA NextIsCommand ==
    ASSUME S!ServiceTypeOK, S!TakeCommand
    PROVE  /\ S!NextCommand \in S!Commands
           /\ S!NextCommand.op \in {"list", "mkdir", "transfer", "cancel", "shutdown"}
           /\ S!NextCommand.op = "transfer" => S!NextCommand.job \in S!Jobs
<1>1. rx \in Seq(S!Commands) /\ deferred \in Seq(S!Requests) /\ deferred \o rx # <<>>
  BY DEF S!ServiceTypeOK, S!TakeCommand
<1>2. S!Requests \subseteq S!Commands
  BY DEF S!Commands
<1>3. deferred # <<>> => Head(deferred) \in S!Requests
  BY <1>1
<1>4. deferred = <<>> => rx # <<>>
  BY <1>1
<1>5. rx # <<>> => Head(rx) \in S!Commands
  BY <1>1
<1>6. S!NextCommand \in S!Commands
  BY <1>2, <1>3, <1>4, <1>5 DEF S!NextCommand
<1> QED
  BY <1>6 DEF S!Commands, S!Requests

LEMMA FoundIs ==
    ASSUME S!ServiceTypeOK
    PROVE  S!Found \in {"cancel", "shutdown", "none"}
  BY SP!FoundIs, SameTypes, SameChannel, TransferAssumption

\* Every step of the worker is one of Install or changes no file.
LEMMA InstallStep ==
    ASSUME WorkerInv, [WorkerNext]_vars
    PROVE  [I!Next]_I!installVars
<1> USE DEF installVars, exceptFs, exceptUp, I!installVars
<1>1. CASE Session
  <2>1. CASE MasterUp
    BY <2>1 DEF MasterUp, I!Next, I!Other
  <2>2. CASE ConnectFails \/ ConnectCancelled \/ HomeKnown \/ RecvDisconnected
    BY <2>2 DEF ConnectFails, ConnectCancelled, HomeKnown, RecvDisconnected
  <2>3. CASE Recv
    <3>1. serving' = S!NextCommand /\ S!TakeCommand
      BY <2>3 DEF Recv
    <3>2. /\ serving'.op \in {"list", "mkdir", "transfer", "cancel", "shutdown"}
          /\ serving'.op = "transfer" => serving'.job \in S!Jobs
      BY <3>1, NextIsCommand DEF WorkerInv, WorkerTypeOK
    <3>3. CASE serving'.op = "transfer"
      <4>1. I!Start(serving'.job)
        BY <2>3, <3>3 DEF Recv
      <4> QED
        BY <4>1, <3>2, <3>3, SamePaths DEF I!Next, I!Copy
    <3>4. CASE serving'.op # "transfer"
      BY <2>3, <3>2, <3>4 DEF Recv
    <3> QED
      BY <3>3, <3>4
  <2>4. CASE Teardown
    BY <2>4 DEF Teardown, I!Next, I!Other, I!ConnectionLost, I!history
  <2> QED
    BY <1>1, <2>1, <2>2, <2>3, <2>4 DEF Session
<1>2. CASE Spawn
  BY <1>2 DEF Spawn
<1>3. ASSUME Created, UNCHANGED exceptFs, worker = "mkdir" PROVE I!Next
  <2>1. PICK f \in Foreign : fs' = [fs EXCEPT ![serving.path] = f]
    BY <1>3 DEF Created
  <2>2. I!OtherWrites(serving.path, f)
    <3>1. phase = "idle"
      BY <1>3 DEF WorkerInv, WorkerTypeOK, I!TypeOK
    <3> QED
      BY <1>3, <2>1, <3>1 DEF I!OtherWrites
  <2>3. serving.path \in I!Paths
    BY <1>3, ServingFacts, SamePaths DEF S!Paths
  <2> QED
    BY <2>2, <2>3 DEF I!Next, I!Other
<1>4. CASE Batches
  <2>1. CASE ListingArrives \/ ListingFails
    BY <2>1 DEF ListingArrives, ListingFails
  <2>2. CASE MkdirEnds
    BY <2>2, <1>3 DEF MkdirEnds
  <2> QED
    BY <1>4, <2>1, <2>2 DEF Batches
<1>5. CASE Stops
  <2>1. CASE BatchInterrupted
    BY <2>1, <1>3 DEF BatchInterrupted
  <2>2. CASE Interrupted
    <3>1. Interrupt \in {"cancelled", "stopped"} /\ Interrupt \in I!Interrupts
      BY DEF Interrupt, I!Interrupts
    <3>2. running \in BOOLEAN
      BY DEF WorkerInv, WorkerTypeOK
    <3> QED
      BY <2>2, <3>1, <3>2 DEF Interrupted, I!Next, I!Copy, I!InstallUpload
  <2> QED
    BY <1>5, <2>1, <2>2 DEF Stops
<1>6. CASE Copies
  BY <1>6 DEF Copies, I!Next, I!Copy
<1>7. CASE Settles
  BY <1>7 DEF Settles, I!Next, I!InstallUpload
<1>8. CASE TimesOut
  <2>1. running \in BOOLEAN /\ "failed" \in I!Interrupts
    BY DEF WorkerInv, WorkerTypeOK, I!Interrupts
  <2> QED
    BY <1>8, <2>1 DEF TimesOut, I!Next, I!InstallUpload
<1>9. CASE Client
  BY <1>9 DEF Client
<1>10. CASE World
  BY <1>10, SamePaths DEF World, I!Next, I!Other
<1>11. CASE UNCHANGED vars
  BY <1>11 DEF vars
<1> QED
  BY <1>1, <1>2, <1>4, <1>5, <1>6, <1>7, <1>8, <1>9, <1>10, <1>11 DEF WorkerNext
-----------------------------------------------------------------------------
(* What the screen sees of it.                                             *)

LEMMA PollCancels ==
    ASSUME WorkerInv, S!PollStop, UNCHANGED serving
    PROVE  /\ cancelSeen <= cancelSeen' /\ cancelSeen' \in Nat
           /\ S!Found = "cancel" => serving.id < cancelSeen'
<1>1. SP!ServiceTypeOK /\ SP!NumbersInv /\ SP!PollStop
  BY SameTypes, SameChannel DEF WorkerInv, SP!ServiceInv, SP!AnsweringInv
<1>2. SP!ChannelTypeOK
  BY <1>1, SP!TypeParts, TransferAssumption
<1>3. /\ SP!ChannelTypeOK' /\ cancelSeen <= cancelSeen'
      /\ SP!Found = "cancel" => serving.id < cancelSeen'
  BY <1>1, <1>2, SP!PollKeepsNumbers, TransferAssumption
<1> QED
  BY <1>3, SameChannel DEF SP!ChannelTypeOK

\* How serve() answers a job that has ended, or goes on with it.
LEMMA ReportSays ==
    ASSUME WorkerInv, worker = "transfer", Report
    PROVE  /\ phase' # "idle" =>
                /\ worker' = "transfer" /\ UNCHANGED events
                /\ Service' = IF phase' = "copy" THEN "copying" ELSE "settling"
           /\ phase' = "idle" /\ outcome' = "stopped" =>
                Service' = "teardown" /\ worker' = "teardown" /\ UNCHANGED events
           /\ phase' = "idle" /\ outcome' # "stopped" =>
                worker' = "idle" /\ S!Emit([ev |-> EventFor(outcome'), id |-> serving.id])
           /\ \A o \in {"done", "exists", "cancelled", "failed"} :
                phase' = "idle" /\ outcome' = o =>
                  S!Answer(S!Outcome(EventFor(o))) /\ worker' = "idle"
           /\ UNCHANGED serving
<1>1. CASE phase' # "idle"
  BY <1>1 DEF Report, Service
<1>2. CASE phase' = "idle" /\ outcome' = "stopped"
  BY <1>2 DEF Report, Service
<1>3. CASE phase' = "idle" /\ outcome' # "stopped"
  BY <1>3 DEF Report, Service, S!Answer, S!Outcome
<1> QED
  BY <1>1, <1>2, <1>3 DEF Report

LEMMA EventForIs ==
    /\ EventFor("done") = "done" /\ EventFor("exists") = "skipped"
    /\ EventFor("cancelled") = "cancelled" /\ EventFor("failed") = "error"
  BY DEF EventFor

\* A step of the installation leads on, or ends the job with a known outcome;
\* Cancelled is the outcome of a step that was interrupted by a Cancel.
SettlingStep(r) ==
    \/ I!LnOk \/ I!Ls \/ I!LsInterrupted \/ I!RenameOk \/ I!InstallDownload
    \/ \E took \in BOOLEAN :
          \/ I!LnRefused(took) \/ I!RenameRefused(took) \/ I!Rm(took)
          \/ I!LnInterrupted(r, took) \/ I!RenameInterrupted(r, took)

LEMMA SettlingLeadsTo ==
    ASSUME I!InstallInv, NEW r \in I!Interrupts, SettlingStep(r)
    PROVE  /\ phase \notin {"idle", "copy"} /\ phase' # "copy" /\ job' = job
           /\ phase' = "idle" =>
                \/ outcome' \in {"done", "exists", "failed"}
                \/ outcome' = "cancelled" /\ phase = "rmAbort" /\ outcome = "cancelled"
                \/ outcome' = "stopped" /\ r = "stopped"
           /\ phase' = "rmAbort" => outcome' = "cancelled" /\ r = "cancelled"
<1> USE DEF I!End, I!EndAfterRm, I!StepFailed, I!history
<1>1. CASE I!LnOk \/ I!Ls \/ I!LsInterrupted \/ I!RenameOk
  BY <1>1 DEF I!LnOk, I!Ls, I!LsInterrupted, I!NotTaken, I!RenameOk
<1>2. ASSUME NEW took \in BOOLEAN, I!LnRefused(took) \/ I!RenameRefused(took)
      PROVE  /\ phase \notin {"idle", "copy"} /\ phase' \notin {"copy", "idle", "rmAbort"}
             /\ job' = job
  BY <1>2 DEF I!LnRefused, I!LnErrs, I!RenameRefused
<1>3. CASE I!InstallDownload
  BY <1>3 DEF I!InstallDownload, I!LinkLocal, I!StatLocal, I!RenameLocal
<1>4. ASSUME NEW took \in BOOLEAN, I!LnInterrupted(r, took) \/ I!RenameInterrupted(r, took)
      PROVE  /\ phase \notin {"idle", "copy"} /\ phase' # "copy" /\ job' = job
             /\ phase' = "idle" => outcome' = "failed" \/ (outcome' = "stopped" /\ r = "stopped")
             /\ phase' = "rmAbort" => outcome' = "cancelled" /\ r = "cancelled"
  BY <1>4 DEF I!LnInterrupted, I!RenameInterrupted, I!Interrupts
<1>5. ASSUME NEW took \in BOOLEAN, I!Rm(took)
      PROVE  /\ phase \notin {"idle", "copy"} /\ phase' = "idle" /\ job' = job
             /\ \/ outcome' \in {"done", "exists", "failed"}
                \/ outcome' = "cancelled" /\ phase = "rmAbort" /\ outcome = "cancelled"
  BY <1>5 DEF I!Rm, I!InstallInv, I!BytesInv
<1> QED
  BY <1>1, <1>2, <1>3, <1>4, <1>5 DEF SettlingStep

\* A copy ends as CopyEnds has it.
LEMMA CopiesRefine ==
    ASSUME WorkerInv, Copies
    PROVE  [S!ServiceNext]_S!serviceVars
<1> USE DEF I!End, I!EndAfterRm, I!history
<1>1. /\ worker = "transfer" /\ Report /\ UNCHANGED <<channel, cancelSeen>>
      /\ I!Write \/ I!LaunchFails \/ I!CopyOk \/ I!CopyFails
  BY DEF Copies
<1>2. /\ phase = "copy" /\ Service = "copying" /\ UNCHANGED serving
      /\ UNCHANGED <<rx, deferred, hungUp, posted, closing, cancelSeen>>
  BY <1>1 DEF I!Write, I!LaunchFails, I!CopyOk, I!CopyFails, Service, channel, Report
<1>3. CASE phase' = "copy"
  <2>1. Service' = Service /\ UNCHANGED events
    BY <1>1, <1>2, <1>3, ReportSays
  <2> QED
    BY <1>2, <2>1 DEF S!serviceVars, S!channel, S!screenEnd
<1>4. ASSUME phase' # "copy" PROVE S!CopyEnds
  <2>1. \/ phase' # "idle"
        \/ phase' = "idle" /\ outcome' = "failed"
        \/ phase' = "idle" /\ outcome' = "done" /\ job.folder
    BY <1>1, <1>4 DEF I!Write, I!LaunchFails, I!CopyOk, I!CopyFails
  <2>2. \/ Service' = "settling" /\ UNCHANGED events
        \/ S!Answer(S!Outcome("error"))
        \/ serving.job.folder /\ S!Answer(S!Outcome("done"))
    BY <1>1, <1>4, <2>1, ReportSays, EventForIs DEF WorkerInv, JobInv
  <2> QED
    BY <1>2, <2>2 DEF S!CopyEnds, S!channel, S!screenEnd
<1> QED
  BY <1>3, <1>4 DEF S!ServiceNext, S!Children

\* The installation ends as Settles has it.
LEMMA SettlesRefine ==
    ASSUME WorkerInv, Settles \/ TimesOut
    PROVE  [S!ServiceNext]_S!serviceVars
<1>1. /\ worker = "transfer" /\ Report /\ UNCHANGED <<channel, cancelSeen>>
      /\ SettlingStep("failed") /\ "failed" \in I!Interrupts
  <2>1. running \in BOOLEAN
    BY DEF WorkerInv, WorkerTypeOK
  <2> QED
    BY <2>1 DEF Settles, TimesOut, SettlingStep, I!Interrupts
<1>2. /\ phase \notin {"idle", "copy"} /\ phase' # "copy"
      /\ phase' = "idle" =>
            \/ outcome' \in {"done", "exists", "failed"}
            \/ outcome' = "cancelled" /\ phase = "rmAbort" /\ outcome = "cancelled"
  BY <1>1, SettlingLeadsTo DEF WorkerInv
<1>3. /\ Service = "settling" /\ UNCHANGED serving
      /\ UNCHANGED <<rx, deferred, hungUp, posted, closing, cancelSeen>>
  BY <1>1, <1>2 DEF Service, channel, Report
<1>4. CASE phase' # "idle"
  <2>1. Service' = Service /\ UNCHANGED events
    BY <1>1, <1>2, <1>3, <1>4, ReportSays
  <2> QED
    BY <1>3, <2>1 DEF S!serviceVars, S!channel, S!screenEnd
<1>5. CASE phase' = "idle"
  <2>1. S!SettledAs(EventFor(outcome')) /\ EventFor(outcome') \in {"done", "skipped", "error", "cancelled"}
    <3>1. S!Answer(S!Outcome(EventFor(outcome')))
      BY <1>1, <1>2, <1>5, ReportSays
    <3>2. outcome' = "cancelled" => cancelSeen' > serving.id
      BY <1>2, <1>3, <1>5 DEF WorkerInv, JobInv
    <3>3. outcome' \in {"done", "exists", "failed", "cancelled"}
      BY <1>2, <1>5
    <3> QED
      BY <3>1, <3>2, <3>3, EventForIs DEF S!SettledAs
  <2> QED
    BY <1>3, <2>1 DEF S!ServiceNext, S!Children, S!Settles, S!channel, S!screenEnd
<1> QED
  BY <1>4, <1>5

\* A stop request that finds a transfer.
LEMMA InterruptedRefines ==
    ASSUME WorkerInv, Interrupted
    PROVE  S!ServiceNext
<1>1. /\ worker = "transfer" /\ Report /\ S!Found # "none" /\ S!PollStop
      /\ I!CopyInterrupted(Interrupt) \/ SettlingStep(Interrupt)
      /\ UNCHANGED serving
  <2>1. running \in BOOLEAN
    BY DEF WorkerInv, WorkerTypeOK
  <2> QED
    BY <2>1 DEF Interrupted, SettlingStep, Report
<1>2. \/ S!Found = "cancel" /\ Interrupt = "cancelled"
      \/ S!Found = "shutdown" /\ Interrupt = "stopped"
  BY <1>1, FoundIs DEF WorkerInv, WorkerTypeOK, Interrupt
<1>3. /\ cancelSeen <= cancelSeen' /\ cancelSeen' \in Nat /\ cancelSeen \in Nat /\ serving.id \in Nat
      /\ S!Found = "cancel" => serving.id < cancelSeen'
  BY <1>1, PollCancels, ServingFacts
<1>4. CASE I!CopyInterrupted(Interrupt)
  <2>1. /\ phase = "copy"
        /\ \/ phase' = "idle" /\ outcome' = Interrupt
           \/ phase' = "rmAbort" /\ Interrupt = "cancelled"
    BY <1>4 DEF I!CopyInterrupted, I!End, I!EndAfterRm
  <2>2. Service = "copying"
    BY <1>1, <2>1 DEF Service
  <2>3. \/ S!Found = "shutdown" /\ Service' = "teardown" /\ UNCHANGED events
        \/ S!Found = "cancel" /\ S!Answer(S!Outcome("cancelled"))
        \/ S!Found = "cancel" /\ Service' = "settling" /\ UNCHANGED events
    BY <1>1, <1>2, <2>1, ReportSays, EventForIs
  <2>4. S!Interrupted
    BY <1>1, <2>2, <2>3 DEF S!Interrupted, S!InBatch, S!Serving
  <2> QED
    BY <2>4 DEF S!ServiceNext, S!Children
<1>5. CASE SettlingStep(Interrupt)
  <2>1. Interrupt \in I!Interrupts
    BY <1>2 DEF I!Interrupts
  <2>2. /\ phase \notin {"idle", "copy"} /\ phase' # "copy"
        /\ phase' = "idle" =>
              \/ outcome' \in {"done", "exists", "failed"}
              \/ outcome' = "cancelled" /\ phase = "rmAbort" /\ outcome = "cancelled"
              \/ outcome' = "stopped" /\ Interrupt = "stopped"
    BY <1>5, <2>1, SettlingLeadsTo DEF WorkerInv
  <2>3. Service = "settling"
    BY <1>1, <2>2 DEF Service
  <2>4. \/ Service' = "settling" /\ UNCHANGED events
        \/ S!Found = "shutdown" /\ Service' = "teardown" /\ UNCHANGED events
        \/ \E o \in {"done", "skipped", "error", "cancelled"} : S!SettledAs(o)
    <3>1. CASE phase' # "idle"
      BY <1>1, <2>2, <3>1, ReportSays
    <3>2. CASE phase' = "idle" /\ outcome' = "stopped"
      BY <1>1, <1>2, <2>2, <3>2, ReportSays
    <3>3. CASE phase' = "idle" /\ outcome' # "stopped"
      <4>1. outcome' \in {"done", "exists", "failed", "cancelled"}
        BY <2>2, <3>3
      <4>2. S!Answer(S!Outcome(EventFor(outcome')))
        BY <1>1, <3>3, <4>1, ReportSays
      <4>3. outcome' = "cancelled" => cancelSeen' > serving.id
        BY <1>3, <2>2, <3>3 DEF WorkerInv, JobInv
      <4>4. S!SettledAs(EventFor(outcome'))
        BY <4>1, <4>2, <4>3, EventForIs DEF S!SettledAs
      <4> QED
        BY <4>1, <4>4, EventForIs
    <3> QED
      BY <3>1, <3>2, <3>3
  <2>5. S!SettlingInterrupted
    BY <1>1, <2>3, <2>4 DEF S!SettlingInterrupted
  <2> QED
    BY <2>5 DEF S!ServiceNext, S!Children
<1> QED
  BY <1>1, <1>4, <1>5
\* The rest of the worker, step by step.
LEMMA SessionRefines ==
    ASSUME WorkerInv, Session
    PROVE  S!ServiceNext
<1> USE DEF Leave, S!Answer
<1>1. CASE MasterUp
  BY <1>1 DEF MasterUp, S!Connected, Service, S!Session, S!ServiceNext
<1>2. CASE ConnectFails
  BY <1>2 DEF ConnectFails, S!ConnectFails, Service, S!Session, S!ServiceNext, channel, S!channel,
              S!screenEnd
<1>3. CASE ConnectCancelled
  BY <1>3 DEF ConnectCancelled, S!ConnectCancelled, Service, S!Session, S!ServiceNext
<1>4. CASE HomeKnown
  <2>1. PICK dir \in {Home, Root} :
          /\ \/ UNCHANGED <<channel, cancelSeen>>
             \/ dir = Root /\ S!Found = "cancel" /\ S!PollStop
          /\ S!Emit([ev |-> "ready", dir |-> dir, id |-> 0])
    BY <1>4 DEF HomeKnown
  <2>2. Service = "home" /\ Service' = "idle" /\ UNCHANGED serving
    BY <1>4 DEF HomeKnown, Service
  <2>3. CASE UNCHANGED <<channel, cancelSeen>>
    BY <2>1, <2>2, <2>3 DEF S!HomeKnown, channel, S!channel, S!screenEnd, S!Session, S!ServiceNext
  <2>4. CASE dir = Root /\ S!Found = "cancel" /\ S!PollStop
    BY <2>1, <2>2, <2>4 DEF S!Interrupted, S!InBatch, S!Serving, S!Children, S!ServiceNext
  <2> QED
    BY <2>1, <2>3, <2>4
<1>5. CASE Recv
  <2>1. /\ worker = "idle" /\ S!TakeCommand /\ serving' = S!NextCommand
        /\ cancelSeen' = IF serving'.op = "cancel" THEN serving'.id ELSE cancelSeen
        /\ UNCHANGED <<hungUp, posted, closing, events>>
    BY <1>5 DEF Recv
  <2>2. S!NextCommand.op \in {"list", "mkdir", "transfer", "cancel", "shutdown"}
    BY <2>1, NextIsCommand DEF WorkerInv, WorkerTypeOK
  <2>3. /\ serving'.op = "transfer" => Service' = "copying"
        /\ serving'.op \in {"list", "mkdir"} => Service' = serving'.op
        /\ serving'.op = "cancel" => Service' = "idle"
        /\ serving'.op = "shutdown" => Service' = "teardown"
    <3>1. CASE serving'.op = "transfer"
      BY <1>5, <3>1 DEF Recv, Service, I!Start
    <3>2. CASE serving'.op \in {"list", "mkdir"}
      BY <1>5, <3>2 DEF Recv, Service
    <3>3. CASE serving'.op = "cancel"
      BY <1>5, <3>3 DEF Recv, Service
    <3>4. CASE serving'.op = "shutdown"
      BY <1>5, <3>4 DEF Recv, Service
    <3> QED
      BY <3>1, <3>2, <3>3, <3>4
  <2>4. Service' = CASE S!NextCommand.op = "transfer" -> "copying"
                     [] S!NextCommand.op \in {"list", "mkdir"} -> S!NextCommand.op
                     [] S!NextCommand.op = "cancel" -> "idle"
                     [] S!NextCommand.op = "shutdown" -> "teardown"
    BY <2>1, <2>2, <2>3
  <2>5. Service = "idle"
    BY <2>1 DEF Service
  <2>6. S!Recv
    BY <2>1, <2>4, <2>5 DEF S!Recv, S!screenEnd
  <2> QED
    BY <2>6 DEF S!Session, S!ServiceNext
<1>6. CASE RecvDisconnected
  BY <1>6 DEF RecvDisconnected, S!RecvDisconnected, Service, S!Session, S!ServiceNext, channel,
              S!channel, S!screenEnd
<1>7. CASE Teardown
  BY <1>7 DEF Teardown, S!Teardown, Service, S!Session, S!ServiceNext, channel, S!channel,
              S!screenEnd
<1> QED
  BY <1>1, <1>2, <1>3, <1>4, <1>5, <1>6, <1>7 DEF Session

LEMMA BatchesRefine ==
    ASSUME WorkerInv, Spawn \/ Batches \/ BatchInterrupted
    PROVE  S!ServiceNext
<1> USE DEF Leave, Answer, S!Answer
<1>1. CASE Spawn
  <2>1. Service \in S!InBatch /\ Service' = Service
    BY <1>1 DEF Spawn, InBatch, Service, S!InBatch, S!Serving, installVars
  <2> QED
    BY <1>1, <2>1 DEF Spawn, S!Park, S!Children, S!ServiceNext
<1>2. CASE ListingArrives
  <2>1. PICK shown \in SUBSET Present(serving.dir) :
          /\ S!Emit([ev |-> "listing", dir |-> serving.dir, names |-> shown,
                     truncated |-> shown # Present(serving.dir), id |-> serving.id])
          /\ worker' = "idle"
    BY <1>2 DEF ListingArrives
  <2>2. Service = "list" /\ Service' = "idle" /\ UNCHANGED <<channel, serving, cancelSeen>>
    BY <1>2 DEF ListingArrives, Service
  <2>3. shown \in SUBSET Names /\ (shown # Present(serving.dir)) \in BOOLEAN
    BY DEF Present
  <2> QED
    BY <2>1, <2>2, <2>3 DEF S!ListAnswered, channel, S!channel, S!screenEnd, S!Children, S!ServiceNext
<1>3. CASE ListingFails
  BY <1>3 DEF ListingFails, Service, S!ListAnswered, channel, S!channel, S!screenEnd, S!Children,
              S!ServiceNext
<1>4. CASE MkdirEnds
  BY <1>4 DEF MkdirEnds, Service, S!MkdirAnswered, channel, S!channel, S!screenEnd, S!Children,
              S!ServiceNext
<1>5. CASE BatchInterrupted
  <2>1. /\ worker \in {"home", "list", "mkdir"} /\ S!Found # "none" /\ S!PollStop
        /\ IF S!Found = "cancel"
           THEN worker # "home" /\ S!Emit(S!Outcome("cancelled")) /\ worker' = "idle"
           ELSE worker' = "teardown" /\ UNCHANGED events
        /\ UNCHANGED serving
    BY <1>5 DEF BatchInterrupted
  <2>2. S!Found \in {"cancel", "shutdown"}
    BY <2>1, FoundIs DEF WorkerInv, WorkerTypeOK
  <2> QED
    BY <2>1, <2>2 DEF S!Interrupted, Service, S!InBatch, S!Serving, S!Children, S!ServiceNext
<1> QED
  BY <1>1, <1>2, <1>3, <1>4, <1>5 DEF Batches

LEMMA RefinementStep ==
    ASSUME WorkerInv, [WorkerNext]_vars
    PROVE  [S!ServiceNext]_S!serviceVars
<1>1. CASE Session
  BY <1>1, SessionRefines
<1>2. CASE Spawn \/ Batches \/ BatchInterrupted
  BY <1>2, BatchesRefine
<1>3. CASE Interrupted
  BY <1>3, InterruptedRefines
<1>4. CASE Copies
  BY <1>4, CopiesRefine
<1>5. CASE Settles \/ TimesOut
  BY <1>5, SettlesRefine
<1>6. CASE Client
  BY <1>6 DEF Client, S!ServiceNext
<1>7. CASE World
  BY <1>7 DEF World, I!OtherRemoves, I!OtherWrites, I!ConnectionLost, Service, channel, S!serviceVars,
              S!channel, S!screenEnd
<1>8. CASE UNCHANGED vars
  BY <1>8 DEF vars, installVars, Service, channel, S!serviceVars, S!channel, S!screenEnd
<1> QED
  BY <1>1, <1>2, <1>3, <1>4, <1>5, <1>6, <1>7, <1>8 DEF WorkerNext, Stops
-----------------------------------------------------------------------------
(* The invariant and what follows.                                         *)

Workers == {"handshake", "home", "idle", "list", "mkdir", "transfer", "teardown", "gone"}

OwnType ==
    /\ running \in BOOLEAN /\ worker \in Workers
    /\ worker = "transfer" <=> phase # "idle"

LEMMA OwnStep ==
    ASSUME WorkerInv, [WorkerNext]_vars
    PROVE  OwnType' /\ JobInv'
<1>1. /\ running \in BOOLEAN /\ worker \in Workers
      /\ worker = "transfer" <=> phase # "idle"
      /\ worker = "transfer" => job = serving.job
      /\ phase = "rmAbort" /\ outcome = "cancelled" => cancelSeen > serving.id
      /\ cancelSeen \in Nat /\ serving.id \in Nat
  BY ServingFacts DEF WorkerInv, WorkerTypeOK, JobInv, Workers
<1> USE DEF OwnType, JobInv, Workers
<1>2. CASE Session
  <2>1. CASE Recv
    <3>1. /\ worker = "idle" /\ serving' = S!NextCommand
          /\ serving'.op \in {"list", "mkdir", "transfer", "cancel", "shutdown"}
      BY <2>1, NextIsCommand DEF Recv, WorkerInv, WorkerTypeOK
    <3>2. CASE serving'.op = "transfer"
      BY <1>1, <2>1, <3>1, <3>2 DEF Recv, Leave, I!Start
    <3>3. CASE serving'.op # "transfer"
      <4>1. UNCHANGED installVars /\ worker' \in {"list", "mkdir", "idle", "teardown"}
            /\ running' = FALSE
        BY <2>1, <3>1, <3>3 DEF Recv, Leave
      <4> QED
        BY <1>1, <3>1, <4>1 DEF installVars
    <3> QED
      BY <3>2, <3>3
  <2>2. CASE MasterUp
    BY <1>1, <2>2 DEF MasterUp, Leave, I!MasterUp
  <2>3. CASE ConnectFails \/ ConnectCancelled \/ HomeKnown \/ RecvDisconnected
    BY <1>1, <2>3 DEF ConnectFails, ConnectCancelled, HomeKnown, RecvDisconnected, Leave, installVars
  <2>4. CASE Teardown
    BY <1>1, <2>4 DEF Teardown, Leave, exceptUp
  <2> QED
    BY <1>2, <2>1, <2>2, <2>3, <2>4 DEF Session
<1>3. CASE Spawn
  <2>1. cancelSeen <= cancelSeen' /\ cancelSeen' \in Nat
    BY <1>3, PollCancels DEF Spawn
  <2> QED
    BY <1>1, <1>3, <2>1 DEF Spawn, installVars
<1>4. CASE Batches \/ BatchInterrupted
  BY <1>1, <1>4 DEF Batches, BatchInterrupted, ListingArrives, ListingFails, MkdirEnds, Answer,
                    Leave, installVars, exceptFs
<1>5. CASE Copies
  <2>1. /\ worker = "transfer" /\ Report /\ UNCHANGED cancelSeen
        /\ job' = job /\ phase = "copy"
        /\ phase' = "rmAbort" => outcome' = "failed"
    BY <1>5 DEF Copies, I!Write, I!LaunchFails, I!CopyOk, I!CopyFails, I!End, I!EndAfterRm, I!history
  <2>2. running' \in BOOLEAN
    BY <1>1, <2>1 DEF Report
  <2> QED
    BY <1>1, <2>1, <2>2, ReportSays
<1>6. CASE Settles \/ TimesOut
  <2>1. /\ worker = "transfer" /\ Report /\ UNCHANGED cancelSeen
        /\ SettlingStep("failed") /\ "failed" \in I!Interrupts
    BY <1>1, <1>6 DEF Settles, TimesOut, SettlingStep, I!Interrupts
  <2>2. job' = job /\ phase' # "rmAbort"
    BY <2>1, SettlingLeadsTo DEF WorkerInv
  <2>3. running' \in BOOLEAN
    BY <1>1, <2>1 DEF Report
  <2> QED
    BY <1>1, <2>1, <2>2, <2>3, ReportSays
<1>7. CASE Interrupted
  <2>1. /\ worker = "transfer" /\ Report /\ S!Found # "none" /\ S!PollStop /\ UNCHANGED serving
        /\ I!CopyInterrupted(Interrupt) \/ SettlingStep(Interrupt)
    BY <1>1, <1>7 DEF Interrupted, SettlingStep, Report
  <2>2. Interrupt = "cancelled" => serving.id < cancelSeen' /\ cancelSeen' \in Nat
    BY <2>1, PollCancels DEF Interrupt
  <2>3. Interrupt \in {"cancelled", "stopped"} /\ Interrupt \in I!Interrupts
    BY DEF Interrupt, I!Interrupts
  <2>4. job' = job /\ (phase' = "rmAbort" => Interrupt = "cancelled")
    <3>1. CASE I!CopyInterrupted(Interrupt)
      BY <3>1 DEF I!CopyInterrupted, I!End, I!EndAfterRm
    <3>2. CASE SettlingStep(Interrupt)
      BY <2>3, <3>2, SettlingLeadsTo DEF WorkerInv
    <3> QED
      BY <2>1, <3>1, <3>2
  <2>5. running' \in BOOLEAN
    BY <1>1, <2>1 DEF Report
  <2> QED
    BY <1>1, <2>1, <2>2, <2>4, <2>5, ReportSays
<1>8. CASE Client
  BY <1>1, <1>8 DEF Client, S!Close, S!HangUp, S!Client, installVars
<1>9. CASE World
  BY <1>1, <1>9 DEF World, I!OtherRemoves, I!OtherWrites, I!ConnectionLost
<1>10. CASE UNCHANGED vars
  BY <1>1, <1>10 DEF vars, installVars
<1> QED
  BY <1>2, <1>3, <1>4, <1>5, <1>6, <1>7, <1>8, <1>9, <1>10 DEF WorkerNext, Stops

LEMMA TypeFromParts == OwnType /\ I!InstallInv /\ SP!ServiceInv => WorkerTypeOK
  BY SameTypes DEF OwnType, Workers, I!InstallInv, SP!ServiceInv, SP!AnsweringInv, WorkerTypeOK

LEMMA InitIsWorkerInv == WorkerInit => WorkerInv
<1> SUFFICES ASSUME WorkerInit PROVE WorkerInv
  OBVIOUS
<1>1. I!InstallInv
  BY SameInstall, IP!InitInv, InstallAssumed, TransferAssumption DEF WorkerInit
<1>2. SP!ServiceInv
  <2>1. SP!ServiceInit
    BY SameTypes DEF WorkerInit
  <2>2. SP!AnsweringInv
    BY <2>1, SP!InitAnswers, TransferAssumption
  <2>3. SP!NothingForgotten
    BY <2>1 DEF SP!ServiceInit, SP!NothingForgotten
  <2> QED
    BY <2>2, <2>3 DEF SP!ServiceInv
<1>3. OwnType /\ JobInv
  BY DEF WorkerInit, OwnType, JobInv, Workers, I!Init
<1> QED
  BY <1>1, <1>2, <1>3, TypeFromParts DEF WorkerInv

LEMMA WorkerInvariance == WorkerSpec => []WorkerInv
<1>1. WorkerInv /\ [WorkerNext]_vars => OwnType' /\ I!InstallInv' /\ SP!ServiceInv' /\ JobInv'
  BY OwnStep, InstallStep, InstallKeeps, RefinementStep, ServiceKeeps DEF WorkerInv
<1>2. OwnType /\ I!InstallInv /\ SP!ServiceInv /\ JobInv => WorkerInv
  BY TypeFromParts DEF WorkerInv
<1> QED
  BY InitIsWorkerInv, <1>1, <1>2, PTL DEF WorkerSpec

\* The worker's variables have their types.
THEOREM WorkerTypeCorrect == WorkerSpec => []WorkerTypeOK
<1>1. WorkerInv => WorkerTypeOK
  BY DEF WorkerInv
<1> QED
  BY <1>1, WorkerInvariance, PTL

\* The worker, with all its children, the server, timeouts and other programs,
\* answers as WorkerService says (run(), serve() and everything they call).
THEOREM WorkerImplementsService == WorkerSpec => ImplementsService
<1>1. WorkerInit => S!ServiceInit
  BY DEF WorkerInit
<1>2. WorkerInv /\ [WorkerNext]_vars => [S!ServiceNext]_S!serviceVars
  BY RefinementStep
<1> QED
  BY <1>1, <1>2, WorkerInvariance, PTL DEF WorkerSpec, ImplementsService, S!ServiceSpec

\* What it does to files is what Install says (transfer() and its installs).
THEOREM WorkerDrivesInstall == WorkerSpec => DrivesInstall
<1>1. WorkerInit => I!Init
  BY DEF WorkerInit
<1>2. WorkerInv /\ [WorkerNext]_vars => [I!Next]_I!installVars
  BY InstallStep
<1> QED
  BY <1>1, <1>2, WorkerInvariance, PTL DEF WorkerSpec, DrivesInstall, I!Spec
-----------------------------------------------------------------------------
(* The truth of Done and Skipped.                                          *)

LEMMA AppendTells ==
    ASSUME NEW T, NEW s \in Seq(T), NEW a, NEW b
    PROVE  /\ Append(s, a) # s
           /\ Append(s, a) = Append(s, b) => a = b
<1> DEFINE W == T \cup {a, b}
<1>1. s \in Seq(W) /\ a \in W /\ b \in W
  OBVIOUS
<1>2. /\ Len(Append(s, a)) = Len(s) + 1 /\ Append(s, a)[Len(s) + 1] = a
      /\ Append(s, b)[Len(s) + 1] = b /\ Len(s) \in Nat
  <2> HIDE DEF W
  <2> QED
    BY <1>1
<1> QED
  BY <1>2

\* How a job ends that is not stopped.
LEMMA EndsAs ==
    ASSUME WorkerInv, Copies \/ Settles \/ TimesOut \/ Interrupted,
           phase' = "idle", outcome' # "stopped"
    PROVE  worker = "transfer" /\ Report /\ outcome' \in {"done", "exists", "cancelled", "failed"}
<1>1. running \in BOOLEAN
  BY DEF WorkerInv, WorkerTypeOK
<1>2. CASE Copies
  BY <1>2 DEF Copies, I!Write, I!LaunchFails, I!CopyOk, I!CopyFails, I!End, I!EndAfterRm
<1>3. CASE Settles \/ TimesOut
  <2>1. /\ worker = "transfer" /\ Report /\ SettlingStep("failed") /\ "failed" \in I!Interrupts
    BY <1>1, <1>3 DEF Settles, TimesOut, SettlingStep, I!Interrupts
  <2> QED
    BY <2>1, SettlingLeadsTo DEF WorkerInv
<1>4. CASE Interrupted
  <2>1. /\ worker = "transfer" /\ Report
        /\ I!CopyInterrupted(Interrupt) \/ SettlingStep(Interrupt)
    BY <1>1, <1>4 DEF Interrupted, SettlingStep
  <2>2. Interrupt \in {"cancelled", "stopped"} /\ Interrupt \in I!Interrupts
    BY DEF Interrupt, I!Interrupts
  <2>3. CASE I!CopyInterrupted(Interrupt)
    BY <2>1, <2>2, <2>3 DEF I!CopyInterrupted, I!End, I!EndAfterRm
  <2>4. CASE SettlingStep(Interrupt)
    BY <2>1, <2>2, <2>4, SettlingLeadsTo DEF WorkerInv
  <2> QED
    BY <2>1, <2>3, <2>4
<1> QED
  BY <1>2, <1>3, <1>4

\* Done and Skipped are answers to a transfer only.
LEMMA OnlyTransfersAreDone ==
    ASSUME WorkerInv, [WorkerNext]_vars, NEW e \in {"done", "skipped"},
           events' = Append(events, [ev |-> e, id |-> serving.id])
    PROVE  /\ Copies \/ Settles \/ TimesOut \/ Interrupted
           /\ phase' = "idle" /\ outcome' # "stopped" /\ EventFor(outcome') = e
<1>1. events \in Seq(S!Events)
  BY DEF WorkerInv, WorkerTypeOK, S!ServiceTypeOK
<1>2. events' # events
  BY <1>1, AppendTells
<1>3. ASSUME NEW answer, S!Emit(answer)
      PROVE  answer = [ev |-> e, id |-> serving.id] /\ answer.ev = e
  BY <1>1, <1>3, AppendTells DEF S!Emit
<1>4. ~Session
  <2>1. ~(MasterUp \/ Recv \/ RecvDisconnected \/ Teardown)
    BY <1>2 DEF MasterUp, Recv, RecvDisconnected, Teardown
  <2>2. ~(ConnectFails \/ ConnectCancelled)
    <3>1. ~S!Emit([ev |-> "notReady", id |-> 0])
      BY <1>3
    <3> QED
      BY <3>1 DEF ConnectFails, ConnectCancelled
  <2>3. ~HomeKnown
    <3>1. \A dir : ~S!Emit([ev |-> "ready", dir |-> dir, id |-> 0])
      BY <1>3
    <3> QED
      BY <3>1 DEF HomeKnown
  <2> QED
    BY <2>1, <2>2, <2>3 DEF Session
<1>5. ~(Batches \/ BatchInterrupted)
  <2>1. \A ev \in {"error", "mkdirFailed", "cancelled"} : ~S!Emit(S!Outcome(ev))
    <3>1. \A ev : S!Outcome(ev).ev = ev
      BY DEF S!Outcome
    <3> QED
      BY <1>3, <3>1
  <2>2. \A dir, names, cut, id :
          ~S!Emit([ev |-> "listing", dir |-> dir, names |-> names, truncated |-> cut, id |-> id])
    BY <1>3
  <2>3. \A path, id : ~S!Emit([ev |-> "mkdirDone", path |-> path, id |-> id])
    BY <1>3
  <2> QED
    BY <1>2, <2>1, <2>2, <2>3
    DEF Batches, ListingArrives, ListingFails, MkdirEnds, BatchInterrupted, Answer
<1>6. ~(Spawn \/ World \/ Client \/ UNCHANGED vars)
  BY <1>2 DEF Spawn, World, Client, S!Close, S!HangUp, S!Client, vars
<1>7. Copies \/ Settles \/ TimesOut \/ Interrupted
  BY <1>4, <1>5, <1>6 DEF WorkerNext, Stops
<1>8. worker = "transfer" /\ Report
  BY <1>7 DEF Copies, Settles, TimesOut, Interrupted
<1>9. phase' = "idle" /\ outcome' # "stopped"
  BY <1>2, <1>8, ReportSays
<1>10. S!Emit([ev |-> EventFor(outcome'), id |-> serving.id])
  BY <1>8, <1>9, ReportSays
<1>11. [ev |-> EventFor(outcome'), id |-> serving.id].ev = e
  BY <1>3, <1>10
<1> QED
  BY <1>7, <1>9, <1>11

\* The screen hears Done only of a transfer whose bytes are under the real
\* name, and Skipped only of one whose bytes are not, unless the answer of the
\* server that put them there was lost (transfer()).
THEOREM ScreenHearsTheTruth == WorkerSpec => DoneIsTrue
<1>1. ASSUME WorkerInv, [WorkerNext]_vars
      PROVE  [\A e \in {"done", "skipped"} :
                  events' = Append(events, [ev |-> e, id |-> serving.id])
                     => IF e = "done" THEN arrived' ELSE ~arrived' \/ lost']_vars
  <2> SUFFICES ASSUME NEW e \in {"done", "skipped"},
                      events' = Append(events, [ev |-> e, id |-> serving.id])
               PROVE  IF e = "done" THEN arrived' ELSE ~arrived' \/ lost'
    OBVIOUS
  <2>1. /\ outcome' \in {"done", "exists", "cancelled", "failed"}
        /\ phase' = "idle" /\ EventFor(outcome') = e
    BY <1>1, OnlyTransfersAreDone, EndsAs
  <2>2. \/ e = "done" /\ outcome' = "done"
        \/ e = "skipped" /\ outcome' = "exists"
    BY <2>1, EventForIs
  <2>3. I!InstallInv'
    BY <1>1, InstallStep, InstallKeeps DEF WorkerInv
  <2>4. (outcome' = "done" => arrived') /\ (outcome' = "exists" => ~arrived' \/ lost')
    BY <2>1, <2>3 DEF I!InstallInv, I!ReportTrue
  <2> QED
    BY <2>2, <2>4
<1> QED
  BY <1>1, WorkerInvariance, PTL DEF WorkerSpec, DoneIsTrue
=============================================================================
