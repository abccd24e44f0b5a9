------------------------- MODULE TransferScreenProofs -------------------------
(***************************************************************************)
(* Proofs about TransferScreen: one transfer at a time, true summaries,    *)
(* and never a wait for an answer that cannot come.                        *)
(*                                                                         *)
(* The numbers of the commands (AnsweringInv) say that what was answered   *)
(* waits no longer, so an answer that is drained leaves nothing of its     *)
(* transfer behind.  Whose answer a Done or a Skipped is follows from what *)
(* it answers (KindsInv) and from there being one transfer only; so the    *)
(* items that landed are those the worker moved (QueueInv).  A Cancel may  *)
(* take the transfer away only once the session is open (OpeningInv), and  *)
(* then it interrupts something and is answered.                           *)
(***************************************************************************)
EXTENDS TransferScreen, WorkerServiceProofs, FiniteSetTheorems

\* What an event answers.
Fits(e) ==
    \/ e.ev \in {"ready", "notReady"} /\ e.id = 0
    \/ e.ev = "listing" /\ e.id > 0 /\ posted[e.id] = "list"
    \/ e.ev \in {"mkdirDone", "mkdirFailed"} /\ e.id > 0 /\ posted[e.id] = "mkdir"
    \/ e.ev \in {"done", "skipped"} /\ e.id > 0 /\ posted[e.id] = "transfer"
    \/ e.ev \in {"error", "cancelled"}

KindsInv == \A i \in 1 .. Len(events) : Fits(events[i])

\* Until it is open the session has said nothing and the screen sent nothing.
OpeningInv == worker \in {"handshake", "home"} => connecting /\ events = <<>>

\* A transfer is in flight while there is a queue.
FlightInv ==
    /\ active # 0 <=> queue # NoQueue
    /\ active # 0 => /\ active \in 1 .. Len(posted) /\ posted[active] = "transfer"
                     /\ ~connecting

\* The items before `at` landed or were skipped, and those up to n were
\* skipped or tried.
Accounted(q, n) ==
    /\ q.skipped \subseteq 1 .. q.at - 1 /\ q.landed \subseteq 1 .. q.at - 1
    /\ q.skipped \cap q.landed = {}
    /\ q.tried \cup q.skipped = 1 .. n
    /\ ~misread => q.landed \cup q.skipped = 1 .. q.at - 1

QueueInv == queue # NoQueue => Accounted(queue, queue.at)

ScreenInv ==
    /\ AnsweringInv /\ ScreenTypeOK
    /\ KindsInv /\ OpeningInv /\ FlightInv /\ QueueInv
    /\ OneTransferAtATime /\ SummaryTrue /\ WaitsForAnAnswer
-----------------------------------------------------------------------------
(***************************************************************************)
(* What a step of the worker means for the transfer the screen waits for.  *)
(***************************************************************************)

\* A poll makes nothing pending, and it takes a transfer only with a Cancel.
LEMMA PollAddsNothing ==
    ASSUME ChannelTypeOK, NumbersInv, PollStop
    PROVE  /\ \A id : Pending(id)' => Pending(id)
           /\ \A id : Pending(id) /\ posted[id] = "transfer" => Pending(id)' \/ Found = "cancel"
<1>1. /\ Parked \in Seq(Requests)
      /\ Len(Parked) = Len(deferred) + Over
      /\ \A k \in 1 .. Len(deferred) : Parked[k] = deferred[k]
      /\ \A k \in 1 .. Over : Parked[Len(deferred) + k] = rx[k]
      /\ \A k \in 1 .. Len(Parked) : posted[Parked[k].id] = Parked[k].op
  BY ParkingKeepsOrder
<1>2. /\ Left \in Seq(Commands) /\ Len(Left) = Len(rx) - Gone
      /\ \A k \in 1 .. Len(Left) : Left[k] = rx[Gone + k]
      /\ Over \in 0 .. Len(rx) /\ Gone \in Over .. Len(rx)
  BY PollSplitsChannel DEF ChannelTypeOK
<1>3. /\ rx' = Left /\ UNCHANGED posted
      /\ deferred' = IF Found = "cancel" THEN Purged(Parked) ELSE Parked
      /\ cancelSeen' = IF Found = "cancel" THEN rx[StopAt].id ELSE cancelSeen
  BY DEF PollStop, Parked, screenEnd
<1>4. /\ Len(rx) \in Nat /\ Len(deferred) \in Nat
      /\ \A k \in 1 .. Len(rx) : posted[rx[k].id] = rx[k].op
  BY DEF ChannelTypeOK, ChannelInv, NumbersInv
<1>5. ASSUME NEW k \in 1 .. Len(Parked) PROVE Pending(Parked[k].id)
  <2>1. CASE k \in 1 .. Len(deferred)
    BY <1>1, <2>1 DEF Pending, IsParked
  <2>2. CASE k > Len(deferred)
    <3>1. k - Len(deferred) \in 1 .. Over /\ Len(deferred) + (k - Len(deferred)) = k
      BY <1>1, <1>2, <1>4, <2>2
    <3>2. Parked[k] = rx[k - Len(deferred)] /\ k - Len(deferred) \in 1 .. Len(rx)
      BY <1>1, <1>2, <3>1
    <3> QED
      BY <3>2 DEF Pending, InChannel
  <2> QED
    BY <1>1, <1>2, <1>4, <2>1, <2>2
<1>6. ASSUME NEW k \in 1 .. Len(Left) PROVE Pending(Left[k].id)
  <2>1. Gone + k \in 1 .. Len(rx) /\ Left[k] = rx[Gone + k]
    BY <1>2, <1>4
  <2> QED
    BY <2>1 DEF Pending, InChannel
<1>7. ASSUME NEW id, Pending(id)' PROVE Pending(id)
  <2>1. ASSUME NEW k \in 1 .. Len(Purged(Parked)) PROVE Pending(Purged(Parked)[k].id)
    <3>1. \E i \in 1 .. Len(Parked) : Purged(Parked)[k] = Parked[i]
      BY <1>1, PurgeKeepsRequests
    <3> QED
      BY <1>5, <3>1
  <2>2. \/ \E k \in 1 .. Len(Left) : Left[k].id = id
        \/ \E k \in 1 .. Len(Parked) : Parked[k].id = id
        \/ \E k \in 1 .. Len(Purged(Parked)) : Purged(Parked)[k].id = id
    BY <1>3, <1>7 DEF Pending, InChannel, IsParked
  <2> HIDE DEF Pending
  <2> QED
    BY <1>5, <1>6, <2>1, <2>2
<1>8. ASSUME NEW id, Pending(id), posted[id] = "transfer", Found # "cancel"
      PROVE  Pending(id)'
  <2>1. CASE IsParked(id)
    <3>1. PICK i \in 1 .. Len(deferred) : deferred[i].id = id
      BY <2>1 DEF IsParked
    <3>2. i \in 1 .. Len(Parked) /\ Parked[i].id = id
      BY <1>1, <1>2, <1>4, <3>1
    <3> QED
      BY <1>3, <1>8, <3>2 DEF Pending, IsParked
  <2>2. CASE InChannel(id)
    <3>1. PICK i \in 1 .. Len(rx) : rx[i].id = id
      BY <2>2 DEF InChannel
    <3>2. CASE i <= Over
      <4>1. Len(deferred) + i \in 1 .. Len(Parked) /\ Parked[Len(deferred) + i] = rx[i]
        BY <1>1, <1>2, <1>4, <3>2
      <4> QED
        BY <1>3, <1>8, <3>1, <4>1 DEF Pending, IsParked
    <3>3. CASE i > Gone
      <4>1. i - Gone \in 1 .. Len(Left) /\ Gone + (i - Gone) = i
        BY <1>2, <1>4, <3>3
      <4>2. Left[i - Gone] = rx[i]
        BY <1>2, <4>1
      <4> QED
        BY <1>3, <3>1, <4>1, <4>2 DEF Pending, InChannel
    <3>4. CASE Over < i /\ i <= Gone
      <4>1. i = StopAt /\ IsStop(rx[i])
        BY <1>4, <3>4, StopIsFirst DEF Over, Gone, ChannelTypeOK
      <4>2. posted[id] = rx[i].op
        BY <1>4, <3>1
      <4> QED
        BY <1>8, <4>1, <4>2 DEF IsStop
    <3> QED
      BY <1>2, <1>4, <3>2, <3>3, <3>4
  <2> QED
    BY <1>8, <2>1, <2>2 DEF Pending
<1> QED
  BY <1>7, <1>8

LEMMA TakeAddsNothing ==
    ASSUME ChannelTypeOK, TakeCommand
    PROVE  /\ \A id : Pending(id)' => Pending(id)
           /\ Pending(NextCommand.id)
<1>1. /\ rx \in Seq(Commands) /\ deferred \in Seq(Requests)
      /\ Len(rx) \in Nat /\ Len(deferred) \in Nat
  BY DEF ChannelTypeOK
<1>2. CASE deferred # <<>>
  <2>1. /\ deferred' = Tail(deferred) /\ rx' = rx /\ 1 \in 1 .. Len(deferred)
        /\ NextCommand = deferred[1]
    BY <1>1, <1>2 DEF TakeCommand, NextCommand
  <2>2. /\ Len(deferred') = Len(deferred) - 1
        /\ \A k \in 1 .. Len(deferred') : deferred'[k] = deferred[k + 1] /\ k + 1 \in 1 .. Len(deferred)
    BY <1>1, <1>2, <2>1, HeadTailProperties
  <2> QED
    BY <2>1, <2>2 DEF Pending, InChannel, IsParked
<1>3. CASE deferred = <<>>
  <2>1. /\ rx' = Tail(rx) /\ deferred' = deferred /\ rx # <<>> /\ 1 \in 1 .. Len(rx)
        /\ NextCommand = rx[1]
    BY <1>1, <1>3 DEF TakeCommand, NextCommand
  <2>2. /\ Len(rx') = Len(rx) - 1
        /\ \A k \in 1 .. Len(rx') : rx'[k] = rx[k + 1] /\ k + 1 \in 1 .. Len(rx)
    BY <1>1, <2>1, HeadTailProperties
  <2> QED
    BY <2>1, <2>2 DEF Pending, InChannel, IsParked
<1> QED
  BY <1>2, <1>3

\* The worker makes nothing waiting or answered that was not waiting, says
\* what fits, and is silent until the session is open.
WorkerBrings(e) == /\ events' = Append(events, e) /\ e \in Events /\ Fits(e)
                   /\ e.id = 0 \/ (worker \in Serving /\ e.id = serving.id)

LEMMA WorkerBringsWhatFits ==
    ASSUME ServiceTypeOK, ServingInv, Session \/ Children
    PROVE  \/ UNCHANGED events
           \/ \E e : WorkerBrings(e) /\ worker' \notin {"handshake", "home"}
<1> USE DEF Serving, InBatch, Fits, Outcome
<1>1. serving \in Commands
  BY DEF ServiceTypeOK
<1>2. /\ \A ev \in {"notReady", "done", "skipped", "cancelled", "mkdirFailed", "error"} :
            Outcome(ev) \in Events
      /\ [ev |-> "notReady", id |-> 0] \in Events
      /\ \A dir \in {Home, Root} : [ev |-> "ready", dir |-> dir, id |-> 0] \in Events
  BY <1>1, AnswersAreEvents
<1>3. CASE Session
  BY <1>2, <1>3 DEF Session, Connected, ConnectFails, ConnectCancelled, HomeKnown, Recv,
                    RecvDisconnected, Teardown, Emit, WorkerBrings
<1>4. CASE ListAnswered
  <2>1. serving.op = "list" /\ posted[serving.id] = "list" /\ serving.id > 0
    BY <1>4 DEF ListAnswered, ServingInv
  <2>2. ASSUME NEW shown \in SUBSET Names, NEW cut \in BOOLEAN
        PROVE  [ev |-> "listing", dir |-> serving.dir, names |-> shown,
                truncated |-> cut, id |-> serving.id] \in Events
    BY <1>1, <2>1 DEF Commands, Requests, Events
  <2> QED
    BY <1>2, <1>4, <2>1, <2>2 DEF ListAnswered, Answer, Emit, WorkerBrings
<1>5. CASE MkdirAnswered
  <2>1. serving.op = "mkdir" /\ posted[serving.id] = "mkdir" /\ serving.id > 0
    BY <1>5 DEF MkdirAnswered, ServingInv
  <2>2. [ev |-> "mkdirDone", path |-> serving.path, id |-> serving.id] \in Events
    BY <1>1, <2>1, CommandFacts DEF Commands, Requests, Events
  <2> QED
    BY <1>2, <1>5, <2>1, <2>2 DEF MkdirAnswered, Answer, Emit, WorkerBrings
<1>6. CASE CopyEnds
  BY <1>2, <1>6 DEF CopyEnds, Answer, Emit, WorkerBrings, ServingInv
<1>7. CASE Settles
  BY <1>2, <1>7 DEF Settles, SettledAs, Answer, Emit, WorkerBrings, ServingInv
<1>8. CASE Interrupted
  <2>1. Found \in {"cancel", "shutdown"}
    BY <1>8, FoundIs DEF Interrupted
  <2> QED
    BY <1>2, <1>8, <2>1 DEF Interrupted, Answer, Emit, WorkerBrings
<1>9. CASE SettlingInterrupted
  BY <1>2, <1>9 DEF SettlingInterrupted, SettledAs, Answer, Emit, WorkerBrings, ServingInv
<1>10. CASE Park
  BY <1>10 DEF Park
<1> QED
  BY <1>3, <1>4, <1>5, <1>6, <1>7, <1>8, <1>9, <1>10 DEF Children

HeardCancel == \E i \in DOMAIN events : events[i].ev = "cancelled"

LEMMA SaidIsHeard ==
    ASSUME events \in Seq(Events), NEW e \in Events, events' = Append(events, e)
    PROVE  /\ \E i \in DOMAIN events' : events'[i] = e
           /\ \A i \in DOMAIN events : i \in DOMAIN events' /\ events'[i] = events[i]
           /\ \A i \in DOMAIN events' : i \in DOMAIN events \/ events'[i] = e
<1>1. /\ events' \in Seq(Events) /\ Len(events') = Len(events) + 1 /\ Len(events) \in Nat
      /\ \A i \in 1 .. Len(events) : events'[i] = events[i]
      /\ events'[Len(events) + 1] = e
  BY AppendProperties
<1>2. DOMAIN events = 1 .. Len(events) /\ DOMAIN events' = 1 .. Len(events) + 1
  BY <1>1
<1>3. Len(events) + 1 \in DOMAIN events'
  BY <1>1, <1>2
<1> QED
  BY <1>1, <1>2, <1>3

\* What becomes of a transfer that waits.
Kept(id) ==
    \/ Waiting(id)' \/ Answered(id)' \/ HeardCancel' \/ ~Serves'
    \/ worker \in {"handshake", "home"}
    \/ worker \in {"copying", "settling"} /\ id # serving.id

LEMMA ServedIsKept ==
    ASSUME AnsweringInv, AnsweringInv', Children,
           NEW id, posted[id] = "transfer", serving.id = id, worker \in Serving
    PROVE  Kept(id)
<1> USE DEF Kept
<1>1. /\ events \in Seq(Events) /\ serving \in Commands
      /\ UNCHANGED serving
      /\ worker \in {"copying", "settling"}
  <2>1. WorkerStep
    BY ChildrenAreWorkerSteps DEF AnsweringInv
  <2> QED
    BY <2>1 DEF AnsweringInv, ServiceTypeOK, ServingInv, Serving, WorkerStep
<1>2. \A ev \in {"done", "skipped", "error", "cancelled"} : Answer(Outcome(ev)) => Answered(id)'
  <2> SUFFICES ASSUME NEW ev \in {"done", "skipped", "error", "cancelled"}, Answer(Outcome(ev))
               PROVE  Answered(id)'
    OBVIOUS
  <2>1. Outcome(ev) \in Events /\ Outcome(ev).id = id
    BY <1>1, AnswersAreEvents
  <2>2. \E i \in DOMAIN events' : events'[i] = Outcome(ev)
    BY <1>1, <2>1, SaidIsHeard DEF Answer, Emit
  <2> QED
    BY <2>1, <2>2 DEF Answered
<1>3. worker' \in Serving => Waiting(id)'
  BY <1>1, WaitingPartsNext DEF AnsweringInv
<1> USE DEF Serving, InBatch
<1>4. CASE Park
  BY <1>1, <1>3, <1>4 DEF Park
<1>5. CASE CopyEnds
  BY <1>1, <1>2, <1>3, <1>5 DEF CopyEnds
<1>6. CASE Settles
  BY <1>1, <1>2, <1>6 DEF Settles, SettledAs
<1>7. CASE Interrupted
  <2>1. Found \in {"cancel", "shutdown"}
    BY <1>7, FoundIs DEF Interrupted, AnsweringInv
  <2>2. ~Serves' \/ Answer(Outcome("cancelled")) \/ worker' = "settling"
    BY <1>1, <1>7, <2>1 DEF Interrupted, Serves
  <2> QED
    BY <1>2, <1>3, <2>2
<1>8. CASE SettlingInterrupted
  BY <1>1, <1>2, <1>3, <1>8 DEF SettlingInterrupted, SettledAs, Serves
<1>9. ~(ListAnswered \/ MkdirAnswered)
  BY <1>1 DEF ListAnswered, MkdirAnswered
<1> QED
  BY <1>4, <1>5, <1>6, <1>7, <1>8, <1>9 DEF Children

LEMMA PendingIsKept ==
    ASSUME AnsweringInv, AnsweringInv', Children,
           NEW id, posted[id] = "transfer", Pending(id)
    PROVE  Kept(id)
<1> USE DEF Kept
<1>1. /\ events \in Seq(Events) /\ serving \in Commands
      /\ ChannelTypeOK /\ NumbersInv
      /\ Pending(id)' => Waiting(id)'
  <2>1. ServiceTypeOK /\ ServiceTypeOK' /\ NumbersInv
    BY DEF AnsweringInv
  <2> QED
    BY <2>1, TypeParts, WaitingPartsNext DEF ChannelTypeOK
<1>2. CASE PollStop /\ Found # "cancel"
  BY <1>1, <1>2, PollAddsNothing
<1>3. CASE UNCHANGED channel
  BY <1>1, <1>3 DEF channel, Pending, InChannel, IsParked
<1>4. CASE PollStop /\ Found = "cancel"
  <2>1. CASE Interrupted /\ worker \in {"list", "mkdir"}
    <3>1. Answer(Outcome("cancelled"))
      BY <1>4, <2>1 DEF Interrupted
    <3>2. Outcome("cancelled") \in Events /\ Outcome("cancelled").ev = "cancelled"
      BY <1>1, AnswersAreEvents DEF Outcome
    <3>3. \E i \in DOMAIN events' : events'[i] = Outcome("cancelled")
      BY <1>1, <3>1, <3>2, SaidIsHeard DEF Answer, Emit
    <3> QED
      BY <3>2, <3>3 DEF HeardCancel
  <2>2. CASE worker \in {"copying", "settling"} /\ id = serving.id
    BY <2>2, ServedIsKept DEF Serving
  <2>3. worker \in InBatch
    BY <1>4 DEF Children, Park, ListAnswered, MkdirAnswered, CopyEnds, Settles, Interrupted,
                SettlingInterrupted, Serving, InBatch
  <2>4. CASE worker \in {"list", "mkdir"} /\ ~Interrupted
    BY <1>3, <1>4, <2>4 DEF Children, Park, ListAnswered, MkdirAnswered, CopyEnds, Settles,
                SettlingInterrupted
  <2> QED
    BY <2>1, <2>2, <2>3, <2>4 DEF InBatch, Serving
<1>5. PollStop \/ UNCHANGED channel
  BY DEF Children, Park, ListAnswered, MkdirAnswered, CopyEnds, Settles, Interrupted,
         SettlingInterrupted
<1> QED
  BY <1>2, <1>3, <1>4, <1>5

LEMMA WorkerKeepsWaiting ==
    ASSUME AnsweringInv, Session \/ Children
    PROVE  /\ AnsweringInv' /\ UNCHANGED <<posted, closing, hungUp>>
           /\ \A id : Waiting(id)' => Waiting(id)
           /\ \A id : posted[id] = "transfer" /\ Waiting(id) => Kept(id)
           /\ Serves' => Serves
           /\ worker' \in {"handshake", "home"} => worker \in {"handshake", "home"}
<1>1. ServiceTypeOK /\ ServingInv /\ ChannelTypeOK /\ NumbersInv
  BY TypeParts DEF AnsweringInv
<1>2. Recv \/ WorkerStep
  BY <1>1, SessionIsWorkerStep, ChildrenAreWorkerSteps
<1>3. AnsweringInv' /\ UNCHANGED <<posted, closing, hungUp>>
  BY <1>2, WorkerStepKeepsAnswering, RecvKeepsAnswering
<1>4. /\ \A id : Waiting(id) <=> Pending(id) \/ (serving.id = id /\ worker \in Serving)
      /\ \A id : Waiting(id)' <=> Pending(id)' \/ (serving'.id = id /\ worker' \in Serving)
  BY <1>1, <1>3, WaitingParts, WaitingPartsNext DEF AnsweringInv
<1>5. CASE Recv
  <2>1. /\ \A id : Pending(id)' => Pending(id)
        /\ Pending(serving'.id)
    BY <1>1, <1>5, TakeAddsNothing DEF Recv
  <2>2. worker \notin Serving /\ Serves
    BY <1>5 DEF Recv, Serves, Serving
  <2>3. ASSUME NEW id, posted[id] = "transfer", Pending(id) PROVE Waiting(id)'
    <3>1. /\ Pending(id)' \/ id = serving'.id
          /\ posted[serving'.id] = serving'.op
      BY <1>1, <1>5, <2>3, TakeKeepsNumbers DEF Recv, screenEnd
    <3>2. serving'.op = "transfer" => worker' \in Serving
      BY <1>5 DEF Recv, Serving
    <3> QED
      BY <1>4, <2>3, <3>1, <3>2
  <2>4. worker' \notin {"handshake", "home"}
    <3>1. NextCommand \in Commands
      BY <1>3, <1>5, TypePartsNext DEF Recv, AnsweringInv, ChannelTypeOK
    <3>2. NextCommand.op \in Kinds
      BY <3>1, CommandFacts
    <3> QED
      BY <1>5, <3>2 DEF Recv, Kinds
  <2> QED
    BY <1>3, <1>4, <2>1, <2>2, <2>3, <2>4 DEF Kept
<1>6. CASE WorkerStep
  <2>1. \A id : Pending(id)' => Pending(id)
    BY <1>1, <1>6, PollAddsNothing DEF WorkerStep, channel, Pending, InChannel, IsParked
  <2>2. \A id : Waiting(id)' => Waiting(id)
    BY <1>4, <1>6, <2>1 DEF WorkerStep, Serving
  <2>3. Serves' => Serves
    BY <1>6 DEF WorkerStep, Serves
  <2>4. ASSUME Session, ~Recv, NEW id, posted[id] = "transfer", Waiting(id) PROVE Kept(id)
    <3>1. \/ worker \in {"handshake", "home"} \/ worker' \in {"teardown", "gone"}
      BY <2>4 DEF Session, Connected, ConnectFails, ConnectCancelled, HomeKnown, RecvDisconnected,
                  Teardown
    <3> QED
      BY <3>1 DEF Kept, Serves
  <2>5. ASSUME Children, NEW id, posted[id] = "transfer", Waiting(id) PROVE Kept(id)
    BY <1>3, <1>4, <2>5, PendingIsKept, ServedIsKept
  <2>6. ~Recv => (worker' \in {"handshake", "home"} => worker \in {"handshake", "home"})
    <3>1. CASE Session
      BY <3>1 DEF Session, Connected, ConnectFails, ConnectCancelled, HomeKnown,
                        RecvDisconnected, Teardown
    <3>2. CASE Children
      <4>1. Interrupted => Found \in {"cancel", "shutdown"}
        BY <1>1, FoundIs DEF Interrupted
      <4> QED
        BY <3>2, <4>1 DEF Children, Park, ListAnswered, MkdirAnswered, CopyEnds, Settles,
              SettledAs, Answer, Interrupted, SettlingInterrupted, Serving, InBatch
    <3> QED
      BY <3>1, <3>2
  <2> QED
    BY <1>3, <1>5, <2>2, <2>3, <2>4, <2>5, <2>6
<1> QED
  BY <1>2, <1>5, <1>6

-----------------------------------------------------------------------------
(***************************************************************************)
(* What a step of the screen does to the channel and the events.           *)
(***************************************************************************)

\* It posts any number of commands, and it drains one event or none.
Sends(cmds) ==
    /\ cmds \in Seq(Commands)
    /\ \A k \in 1 .. Len(cmds) : cmds[k].id = Len(posted) + k
    /\ Post(cmds) \/ (cmds = <<>> /\ Silent)

Drains == events' = events \/ (events # <<>> /\ events' = Tail(events))

LEMMA SendingKeepsNumbers ==
    ASSUME ChannelTypeOK, NumbersInv, NEW cmds, Sends(cmds),
           UNCHANGED <<deferred, serving, cancelSeen>>
    PROVE  /\ ChannelTypeOK' /\ NumbersInv'
           /\ Len(posted') = Len(posted) + Len(cmds)
           /\ \A id \in 1 .. Len(posted) : posted'[id] = posted[id]
           /\ \A k \in 1 .. Len(cmds) : posted'[Len(posted) + k] = cmds[k].op
           /\ \A id : Pending(id)' <=> Pending(id) \/ \E k \in 1 .. Len(cmds) : cmds[k].id = id
<1>1. CASE Post(cmds)
  <2>1. cmds \in Seq(Commands) /\ \A k \in 1 .. Len(cmds) : cmds[k].id = Len(posted) + k
    BY DEF Sends
  <2> QED
    BY <1>1, <2>1, PostKeepsNumbers
<1>2. CASE cmds = <<>> /\ Silent
  <2>1. UNCHANGED <<rx, deferred, posted, serving, cancelSeen>> /\ Len(cmds) = 0
    BY <1>2 DEF Silent
  <2>2. posted \in Seq(Kinds) /\ Len(posted) \in Nat
    BY DEF ChannelTypeOK
  <2>3. ChannelTypeOK' /\ NumbersInv'
    BY <2>1 DEF ChannelTypeOK, NumbersInv, ChannelInv, ParkedInv, TakenInv, Taken
  <2>4. \A id : Pending(id)' <=> Pending(id)
    BY <2>1 DEF Pending, InChannel, IsParked
  <2> QED
    BY <2>1, <2>2, <2>3, <2>4
<1> QED
  BY <1>1, <1>2 DEF Sends

\* The events that are left, and where they were.
LEMMA DrainedEvents ==
    ASSUME events \in Seq(Events), Drains
    PROVE  /\ events' \in Seq(Events)
           /\ \E d \in {0, 1} :
                 /\ \A i \in 1 .. Len(events') : i + d \in 1 .. Len(events) /\ events'[i] = events[i + d]
                 /\ Len(events') = Len(events) - d
                 /\ d = 1 => events # <<>> /\ events' = Tail(events)
                 /\ d = 0 => events' = events
<1>1. Len(events) \in Nat
  OBVIOUS
<1>2. CASE events' = events
  BY <1>1, <1>2
<1>3. ASSUME events # <<>> /\ events' = Tail(events)
      PROVE  \E d \in {0, 1} :
                 /\ \A i \in 1 .. Len(events') : i + d \in 1 .. Len(events) /\ events'[i] = events[i + d]
                 /\ Len(events') = Len(events) - d
                 /\ d = 1 => events # <<>> /\ events' = Tail(events)
                 /\ d = 0 => events' = events
  <2>1. /\ events' \in Seq(Events) /\ Len(events') = Len(events) - 1
        /\ \A i \in 1 .. Len(events') : i + 1 \in 1 .. Len(events) /\ events'[i] = events[i + 1]
    BY <1>1, <1>3, HeadTailProperties
  <2> WITNESS 1 \in {0, 1}
  <2>2. ~(1 = 0)
    OBVIOUS
  <2> QED
    BY <1>3, <2>1, <2>2
<1>4. events' \in Seq(Events)
  BY DEF Drains
<1> QED
  BY <1>2, <1>3, <1>4 DEF Drains

LEMMA NumbersAreBounded ==
    ASSUME AnsweringInv
    PROVE  /\ Len(posted) \in Nat /\ DOMAIN posted = 1 .. Len(posted) /\ posted \in Seq(Kinds)
           /\ serving.id \in 0 .. Len(posted)
           /\ \A i \in 1 .. Len(events) : events[i].id \in 0 .. Len(posted)
           /\ DOMAIN events = 1 .. Len(events) /\ Len(events) \in Nat
           /\ events \in Seq(Events) /\ \A i \in 1 .. Len(events) : events[i] \in Events
<1>1. ChannelTypeOK /\ NumbersInv /\ events \in Seq(Events) /\ AnswersInv
  BY TypeParts DEF AnsweringInv
<1>2. /\ Len(posted) \in Nat /\ DOMAIN posted = 1 .. Len(posted)
      /\ Len(rx) \in Nat /\ serving.id \in Nat
  BY <1>1, CommandFacts DEF ChannelTypeOK
<1>3. serving.id \in 0 .. Len(posted)
  BY <1>1, <1>2 DEF NumbersInv, TakenInv, ChannelInv, Taken
<1>4. \A e \in Events : e.id \in Nat
  BY DEF Events
<1>5. /\ DOMAIN events = 1 .. Len(events) /\ Len(events) \in Nat
      /\ \A i \in 1 .. Len(events) : events[i] \in Events
  BY <1>1
<1>6. \A i \in 1 .. Len(events) : events[i].id \in 0 .. Len(posted)
  BY <1>1, <1>2, <1>3, <1>4, <1>5 DEF AnswersInv
<1> QED
  BY <1>1, <1>2, <1>3, <1>5, <1>6 DEF ChannelTypeOK

LEMMA ScreenKeepsAnswering ==
    ASSUME AnsweringInv, NEW cmds, Sends(cmds), Drains,
           UNCHANGED <<deferred, worker, serving, cancelSeen>>,
           hungUp' \in BOOLEAN, closing' \in BOOLEAN
    PROVE  /\ AnsweringInv'
           /\ Len(posted') = Len(posted) + Len(cmds)
           /\ \A id \in 1 .. Len(posted) : /\ posted'[id] = posted[id]
                                           /\ Waiting(id)' <=> Waiting(id)
           /\ \A k \in 1 .. Len(cmds) : posted'[Len(posted) + k] = cmds[k].op
           /\ \A id \in Len(posted) + 1 .. Len(posted') : Waiting(id)'
           /\ \A id : Answered(id)' => Answered(id) /\ id \in 0 .. Len(posted)
           /\ KindsInv => KindsInv'
<1>1. ChannelTypeOK /\ NumbersInv /\ events \in Seq(Events) /\ worker \in Workers
  BY TypeParts DEF AnsweringInv
<1>2. /\ ChannelTypeOK' /\ NumbersInv'
      /\ Len(posted') = Len(posted) + Len(cmds)
      /\ \A id \in 1 .. Len(posted) : posted'[id] = posted[id]
      /\ \A k \in 1 .. Len(cmds) : posted'[Len(posted) + k] = cmds[k].op
      /\ \A id : Pending(id)' <=> Pending(id) \/ \E k \in 1 .. Len(cmds) : cmds[k].id = id
  BY <1>1, SendingKeepsNumbers
<1>3. PICK d \in {0, 1} :
         /\ \A i \in 1 .. Len(events') : i + d \in 1 .. Len(events) /\ events'[i] = events[i + d]
         /\ Len(events') = Len(events) - d
  BY <1>1, DrainedEvents
<1>4. events' \in Seq(Events) /\ DOMAIN events' = 1 .. Len(events')
  BY <1>1, DrainedEvents
<1>5. /\ Len(posted) \in Nat /\ serving.id \in 0 .. Len(posted)
      /\ DOMAIN events = 1 .. Len(events) /\ Len(events) \in Nat
      /\ \A i \in 1 .. Len(events) : events[i].id \in 0 .. Len(posted) /\ events[i] \in Events
  BY NumbersAreBounded
<1>6. ServingInv'
  BY <1>2, <1>5 DEF AnsweringInv, ServingInv
<1>7. AnswersInv' /\ AnsweredOnce'
  <2>1. AnswersInv'
    BY <1>3, <1>5 DEF AnsweringInv, AnswersInv
  <2>2. ASSUME NEW i \in 1 .. Len(events'), NEW j \in 1 .. Len(events'), events'[i].id = events'[j].id
        PROVE  i = j \/ events'[i].id = 0
    <3>1. /\ i + d \in DOMAIN events /\ events'[i] = events[i + d]
          /\ j + d \in DOMAIN events /\ events'[j] = events[j + d]
      BY <1>3, <1>5
    <3>2. i + d = j + d \/ events[i + d].id = 0
      BY <2>2, <3>1 DEF AnsweringInv, AnsweredOnce
    <3> QED
      BY <3>1, <3>2
  <2>3. AnsweredOnce'
    BY <1>4, <2>2 DEF AnsweredOnce
  <2> QED
    BY <2>1, <2>3
<1>8. AnsweringInv'
  BY <1>1, <1>2, <1>4, <1>6, <1>7, TypePartsNext DEF AnsweringInv
<1>9. \A id : Answered(id)' => Answered(id) /\ id \in 0 .. Len(posted)
  BY <1>3, <1>4, <1>5 DEF Answered
<1>10. ASSUME KindsInv PROVE KindsInv'
  <2>1. ASSUME NEW e \in Events, Fits(e), e.id \in 0 .. Len(posted) PROVE Fits(e)'
    <3>1. e.id > 0 => posted'[e.id] = posted[e.id]
      BY <1>2, <1>5, <2>1
    <3> QED
      BY <2>1, <3>1 DEF Fits
  <2>2. ASSUME NEW i \in 1 .. Len(events') PROVE \E e \in Events : e = events'[i] /\ Fits(e)'
    <3>1. /\ i + d \in 1 .. Len(events) /\ events'[i] = events[i + d]
          /\ Fits(events[i + d]) /\ events[i + d].id \in 0 .. Len(posted)
      BY <1>3, <1>5, <1>10 DEF KindsInv
    <3> QED
      BY <1>5, <2>1, <3>1
  <2> QED
    BY <2>2 DEF KindsInv, Fits
<1>11. \A id \in 1 .. Len(posted) : Waiting(id)' <=> Waiting(id)
  <2>1. \A id : Waiting(id) <=> Pending(id) \/ (serving.id = id /\ worker \in Serving)
    BY WaitingParts DEF AnsweringInv
  <2>2. \A id : Waiting(id)' <=> Pending(id)' \/ (serving'.id = id /\ worker' \in Serving)
    BY <1>8, WaitingPartsNext DEF AnsweringInv
  <2>3. \A id \in 1 .. Len(posted), k \in 1 .. Len(cmds) : cmds[k].id # id
    BY <1>5 DEF Sends
  <2> QED
    BY <1>2, <2>1, <2>2, <2>3
<1>12. ASSUME NEW id \in Len(posted) + 1 .. Len(posted') PROVE Waiting(id)'
  <2>1. Len(cmds) \in Nat
    BY DEF Sends
  <2>2. id - Len(posted) \in 1 .. Len(cmds) /\ Len(posted) + (id - Len(posted)) = id
    BY <1>2, <1>5, <2>1
  <2>3. cmds[id - Len(posted)].id = id
    BY <2>2 DEF Sends
  <2>4. Pending(id)'
    BY <1>2, <2>2, <2>3
  <2> QED
    BY <1>8, <2>4, WaitingPartsNext DEF AnsweringInv
<1> QED
  BY <1>2, <1>8, <1>9, <1>10, <1>11, <1>12

-----------------------------------------------------------------------------
(***************************************************************************)
(* The queue: what is sent, skipped and left.                              *)
(***************************************************************************)
LEMMA SomeOfMany ==
    ASSUME NEW n \in Nat, NEW S, S \subseteq 1 .. n
    PROVE  IsFiniteSet(S) /\ Cardinality(S) \in Nat /\ n - Cardinality(S) \in Nat
<1>1. IsFiniteSet(1 .. n) /\ Cardinality(1 .. n) = n
  BY FS_Interval
<1>2. IsFiniteSet(S) /\ Cardinality(S) <= n
  BY <1>1, FS_Subset
<1>3. Cardinality(S) \in Nat
  BY <1>2, FS_CardinalityType
<1> QED
  BY <1>2, <1>3

LEMMA SkippedOrLanded ==
    ASSUME NEW n \in Nat, NEW S, NEW T, S \cup T = 1 .. n, S \cap T = {}
    PROVE  n - Cardinality(S) = Cardinality(T)
<1>1. IsFiniteSet(S) /\ IsFiniteSet(T) /\ Cardinality(S) \in Nat /\ Cardinality(T) \in Nat
  <2>1. S \subseteq 1 .. n /\ T \subseteq 1 .. n
    OBVIOUS
  <2> QED
    BY <2>1, SomeOfMany
<1>2. Cardinality(S \cup T) = Cardinality(S) + Cardinality(T) - Cardinality(S \cap T)
  BY <1>1, FS_Union
<1>3. Cardinality(1 .. n) = n /\ Cardinality({}) = 0
  BY FS_Interval, FS_EmptySet
<1>4. Cardinality(S \cup T) = n /\ Cardinality(S \cap T) = 0
  BY <1>3
<1> QED
  BY <1>1, <1>2, <1>4

LEMMA RestOfMany ==
    ASSUME NEW n \in Nat, NEW m \in 0 .. n
    PROVE  Cardinality((1 .. n) \ (1 .. m)) = n - m
<1>1. (1 .. n) \ (1 .. m) = m + 1 .. n
  OBVIOUS
<1>2. Cardinality(m + 1 .. n) = IF m + 1 > n THEN 0 ELSE n - (m + 1) + 1
  BY FS_Interval
<1>3. (IF m + 1 > n THEN 0 ELSE n - (m + 1) + 1) = n - m
  OBVIOUS
<1> QED
  BY <1>1, <1>2, <1>3

LEMMA SentInOrder ==
    ASSUME NEW C \in SUBSET Names, C # {}
    PROVE  SetToSeq(C) \in Seq(Names) /\ Len(SetToSeq(C)) > 0
<1>1. IsFiniteSet(C)
  BY KindAssumption, FS_Subset
<1>2. Cardinality(C) \in Nat /\ ExistsBijection(1 .. Cardinality(C), C)
  BY <1>1, FS_CardinalityType
<1>3. Cardinality(C) # 0
  BY <1>1, FS_EmptySet
<1>4. \E f \in [1 .. Cardinality(C) -> C] : IsInjective(f)
  BY <1>2 DEF ExistsBijection, Bijection, Injection
<1>5. SetToSeq(C) \in [1 .. Cardinality(C) -> C]
  BY <1>4 DEF SetToSeq
<1>6. SetToSeq(C) \in Seq(C) /\ Len(SetToSeq(C)) = Cardinality(C)
  BY <1>2, <1>5, SeqDef
<1>7. SetToSeq(C) \in Seq(Names)
  BY <1>2, <1>5, SeqDef
<1> QED
  BY <1>2, <1>3, <1>6, <1>7

LEMMA NextIsAhead ==
    ASSUME NEW q, Len(q.items) \in Nat, q.at \in 1 .. Len(q.items) + 1
    PROVE  NextAt(q) \in q.at .. Len(q.items) + 1
<1> DEFINE stops == {i \in q.at .. Len(q.items) + 1 : i <= Len(q.items) => ~Skipped(q, i)}
<1>1. Len(q.items) + 1 \in stops /\ stops \subseteq Nat
  OBVIOUS
<1>2. PICK least \in stops : \A n \in stops : least <= n
  BY <1>1, LeastNatural
<1>3. \A k \in q.at .. least - 1 : Skipped(q, k)
  <2> SUFFICES ASSUME NEW k \in q.at .. least - 1, ~Skipped(q, k) PROVE FALSE
    OBVIOUS
  <2>1. least \in q.at .. Len(q.items) + 1
    BY <1>2
  <2>2. k \in q.at .. Len(q.items) + 1 /\ k < least /\ k \in Nat
    BY <2>1
  <2>3. k \in stops
    BY <2>2
  <2> QED
    BY <1>2, <2>1, <2>2, <2>3
<1>4. \E i \in q.at .. Len(q.items) + 1 :
          /\ \A k \in q.at .. i - 1 : Skipped(q, k)
          /\ i <= Len(q.items) => ~Skipped(q, i)
  BY <1>2, <1>3
<1> QED
  BY <1>4 DEF NextAt

\* A queue of which the items before `at` are accounted for.
Considered(q) ==
    q \in Queues /\ q.at \in 1 .. Len(q.items) + 1 /\ Accounted(q, q.at - 1)

InFlight(q) == q \in Queues /\ q.at \in DOMAIN q.items /\ Accounted(q, q.at)

TrueReport(r) ==
    /\ r \in [says : {"nothing", "sent", "unsent"}, claim : Nat, truth : Nat]
    /\ ~misread => r.claim = r.truth

LEMMA QueueTypes ==
    ASSUME NEW q \in Queues
    PROVE  /\ q.items \in Seq(Names) /\ Len(q.items) \in Nat /\ DOMAIN q.items = 1 .. Len(q.items)
           /\ \A i \in DOMAIN q.items : q.items[i] \in Names
           /\ q.at \in Nat /\ q.dest \in Sides /\ q.dir \in RemoteDirs \cup {LocalDir}
           /\ q # NoQueue
<1>1. /\ q.items \in Seq(Names)
      /\ q.at \in Nat /\ q.dest \in Sides /\ q.dir \in RemoteDirs \cup {LocalDir}
  BY DEF Queues
<1>2. q # NoQueue
  <2>1. "at" \in DOMAIN q /\ "at" \notin DOMAIN NoQueue
    BY DEF Queues, NoQueue
  <2> QED
    BY <2>1
<1>3. /\ Len(q.items) \in Nat /\ DOMAIN q.items = 1 .. Len(q.items)
      /\ \A i \in DOMAIN q.items : q.items[i] \in Names
  BY <1>1
<1> QED
  BY <1>1, <1>2, <1>3

LEMMA PassedOver ==
    ASSUME NEW q, Considered(q), NEW i \in q.at .. Len(q.items) + 1
    PROVE  Considered([q EXCEPT !.at = i, !.skipped = @ \cup (q.at .. i - 1)])
<1> DEFINE r == [q EXCEPT !.at = i, !.skipped = @ \cup (q.at .. i - 1)]
<1>1. q \in Queues /\ q.at \in Nat /\ q.at >= 1 /\ Len(q.items) \in Nat
  BY QueueTypes DEF Considered
<1>2. /\ q.skipped \subseteq 1 .. q.at - 1 /\ q.landed \subseteq 1 .. q.at - 1
      /\ q.skipped \cap q.landed = {}
      /\ q.tried \cup q.skipped = 1 .. q.at - 1
      /\ ~misread => q.landed \cup q.skipped = 1 .. q.at - 1
  BY DEF Considered, Accounted
<1>3. i \in Nat /\ i >= q.at /\ i <= Len(q.items) + 1
  BY <1>1
<1>4. q.at .. i - 1 \subseteq Nat
  BY <1>1, <1>3
<1>5. r \in Queues
  BY <1>1, <1>3, <1>4 DEF Queues
<1>6. /\ r.at = i /\ r.skipped = q.skipped \cup (q.at .. i - 1)
      /\ r.landed = q.landed /\ r.tried = q.tried /\ r.items = q.items
  BY <1>1 DEF Queues
<1>7. 1 .. i - 1 = (1 .. q.at - 1) \cup (q.at .. i - 1) /\ (1 .. q.at - 1) \cap (q.at .. i - 1) = {}
  BY <1>1, <1>3
<1> HIDE DEF r
<1>8. Accounted(r, i - 1)
  BY <1>2, <1>6, <1>7 DEF Accounted
<1> QED
  BY <1>1, <1>3, <1>5, <1>6, <1>8 DEF Considered, r

-----------------------------------------------------------------------------
(***************************************************************************)
(* What the screen posts, and what becomes of the queue.                   *)
(***************************************************************************)
LEMMA CommandsOf ==
    ASSUME ServiceTypeOK
    PROVE  /\ NextId \in Nat /\ Len(posted) \in Nat /\ NextId = Len(posted) + 1
           /\ \A d \in RemoteDirs : List(d) \in Commands
           /\ \A p \in RemotePaths : [op |-> "mkdir", path |-> p, id |-> NextId] \in Commands
           /\ [op |-> "cancel", id |-> NextId] \in Commands
           /\ [op |-> "shutdown", id |-> NextId] \in Commands
           /\ \A j \in Jobs, id \in Nat : Transfer(j, id) \in Commands
<1>1. posted \in Seq(Kinds) /\ NextId \in Nat /\ Len(posted) \in Nat
  BY TypeParts DEF ChannelTypeOK, NextId
<1> QED
  BY <1>1 DEF Commands, Requests, List, Transfer, NextId

LEMMA PostsOne ==
    ASSUME ServiceTypeOK, NEW c \in Commands, c.id = NextId, Post(<<c>>)
    PROVE  Sends(<<c>>) /\ Len(<<c>>) = 1 /\ \A k \in 1 .. 1 : <<c>>[k] = c
<1>1. <<c>> \in Seq(Commands) /\ Len(<<c>>) = 1 /\ <<c>>[1] = c
  OBVIOUS
<1>2. \A k \in 1 .. 1 : <<c>>[k] = c /\ <<c>>[k].id = Len(posted) + k
  BY <1>1, CommandsOf
<1> HIDE DEF Post
<1> QED
  BY <1>1, <1>2 DEF Sends

LEMMA PostsNothing == Silent => Sends(<<>>) /\ Len(<<>>) = 0
  BY DEF Sends

\* The commands posted are all of another kind than transfers.
SendsNoTransfer(cmds) == Sends(cmds) /\ \A k \in 1 .. Len(cmds) : cmds[k].op # "transfer"

LEMMA RefreshDoes ==
    ASSUME ScreenTypeOK, NEW side, Refresh(side)
    PROVE  (\E cmds : SendsNoTransfer(cmds)) /\ local' \subseteq Names
<1>1. ServiceTypeOK /\ cwd \in RemoteDirs /\ local \subseteq Names
  BY DEF ScreenTypeOK
<1>2. CASE Silent /\ local' \in SUBSET Names
  BY <1>2, PostsNothing DEF SendsNoTransfer
<1>3. CASE Post(<<List(cwd)>>) /\ UNCHANGED local
  <2>1. List(cwd) \in Commands /\ List(cwd).id = NextId /\ List(cwd).op = "list"
    BY <1>1, CommandsOf DEF List
  <2>2. SendsNoTransfer(<<List(cwd)>>)
    BY <1>1, <1>3, <2>1, PostsOne DEF SendsNoTransfer
  <2> QED
    BY <1>1, <1>3, <2>2
<1> QED
  BY <1>2, <1>3 DEF Refresh

QueueEnds == queue' = NoQueue /\ active' = 0

QueueGoesOn ==
    /\ InFlight(queue')
    /\ \E cmds : /\ Sends(cmds) /\ Len(cmds) > 0
                 /\ active' = Len(posted) + Len(cmds) /\ cmds[Len(cmds)].op = "transfer"
                 /\ \A k \in 1 .. Len(cmds) : k # Len(cmds) => cmds[k].op # "transfer"

LEMMA FinishDoes ==
    ASSUME ScreenTypeOK, NEW q, Considered(q), q.at = Len(q.items) + 1, Finish(q)
    PROVE  /\ QueueEnds /\ TrueReport(report') /\ local' \subseteq Names
           /\ \E cmds : SendsNoTransfer(cmds)
<1>1. q \in Queues /\ Len(q.items) \in Nat
  BY QueueTypes DEF Considered
<1> DEFINE n == Len(q.items)
<1>2. /\ q.skipped \subseteq 1 .. n /\ q.landed \subseteq 1 .. n
      /\ q.skipped \cap q.landed = {}
      /\ ~misread => q.skipped \cup q.landed = 1 .. n
  <2>1. q.at - 1 = n
    BY <1>1
  <2> QED
    BY <2>1 DEF Considered, Accounted
<1>3. n - Cardinality(q.skipped) \in Nat /\ Cardinality(q.landed) \in Nat
  BY <1>1, <1>2, SomeOfMany
<1>4. ~misread => n - Cardinality(q.skipped) = Cardinality(q.landed)
  BY <1>1, <1>2, SkippedOrLanded
<1>5. report' = [says |-> "sent", claim |-> n - Cardinality(q.skipped), truth |-> Cardinality(q.landed)]
  BY DEF Finish
<1> HIDE DEF n
<1>6. TrueReport(report')
  BY <1>3, <1>4, <1>5 DEF TrueReport
<1>7. QueueEnds
  BY DEF Finish, QueueEnds
<1>8. local' \subseteq Names /\ \E cmds : SendsNoTransfer(cmds)
  BY RefreshDoes DEF Finish
<1> QED
  BY <1>6, <1>7, <1>8

\* What a queue that ends early says is true if the items up to m were
\* skipped or tried.
LEMMA UnsentIsTrue ==
    ASSUME NEW q \in Queues, NEW m \in 0 .. Len(q.items), q.tried \cup q.skipped = 1 .. m,
           NEW n, n = Len(q.items) - m, Unsent(q, n)
    PROVE  TrueReport(report')
<1>1. DOMAIN q.items = 1 .. Len(q.items) /\ Len(q.items) \in Nat
  BY QueueTypes
<1>2. Cardinality((DOMAIN q.items) \ (q.skipped \cup q.tried)) = n
  <2>1. q.skipped \cup q.tried = 1 .. m
    OBVIOUS
  <2> QED
    BY <1>1, <2>1, RestOfMany
<1>3. n \in Nat
  BY <1>1
<1>4. report' = [says |-> "unsent", claim |-> n, truth |-> n]
  BY <1>2 DEF Unsent
<1> QED
  BY <1>3, <1>4 DEF TrueReport

LEMMA RefuseDoes ==
    ASSUME ScreenTypeOK, NEW q, Considered(q), q.at <= Len(q.items), Refuse(q)
    PROVE  /\ QueueEnds /\ TrueReport(report') /\ local' \subseteq Names
           /\ \E cmds : SendsNoTransfer(cmds)
<1>1. q \in Queues /\ Len(q.items) \in Nat /\ q.at \in 1 .. Len(q.items) + 1
  BY QueueTypes DEF Considered
<1>2. q.tried \cup q.skipped = 1 .. q.at - 1
  BY DEF Considered, Accounted
<1>3. /\ q.at - 1 \in 0 .. Len(q.items)
      /\ Len(q.items) + 1 - q.at = Len(q.items) - (q.at - 1)
  BY <1>1
<1>4. Unsent(q, Len(q.items) + 1 - q.at) /\ QueueEnds /\ UNCHANGED local /\ Silent
  BY DEF Refuse, QueueEnds
<1>5. TrueReport(report')
  BY <1>1, <1>2, <1>3, <1>4, UnsentIsTrue
<1> QED
  BY <1>4, <1>5, PostsNothing DEF SendsNoTransfer, ScreenTypeOK

LEMMA StopDoes ==
    ASSUME ScreenTypeOK, QueueInv, TrueReport(report), StopQueue
    PROVE  /\ QueueEnds /\ TrueReport(report') /\ local' \subseteq Names
           /\ \E cmds : SendsNoTransfer(cmds)
<1>1. CASE queue = NoQueue
  BY <1>1, PostsNothing DEF StopQueue, SendsNoTransfer, QueueEnds, ScreenTypeOK
<1>2. CASE queue # NoQueue
  <2>1. queue \in Queues /\ queue.at \in DOMAIN queue.items /\ queue.tried \cup queue.skipped = 1 .. queue.at
    BY <1>2 DEF ScreenTypeOK, QueueInv, Accounted
  <2>2. queue.at \in 0 .. Len(queue.items)
    BY <2>1, QueueTypes
  <2>3. Unsent(queue, Len(queue.items) - queue.at) /\ Refresh(queue.dest) /\ QueueEnds
    BY <1>2 DEF StopQueue, QueueEnds
  <2>4. TrueReport(report')
    BY <2>1, <2>2, <2>3, UnsentIsTrue
  <2> QED
    BY <2>3, <2>4, RefreshDoes
<1> QED
  BY <1>1, <1>2

LEMMA StartDoes ==
    ASSUME ScreenTypeOK, NEW q, Considered(q), q.at <= Len(q.items), Start(q)
    PROVE  QueueGoesOn /\ TrueReport(report') /\ UNCHANGED local
<1> DEFINE job  == [path |-> [dir |-> q.dir, name |-> q.items[q.at]],
                    folder |-> q.items[q.at] \in Folders]
           list == IF q.dest = "remote" /\ q.dir = cwd THEN <<List(q.dir)>> ELSE <<>>
           id   == NextId + Len(list)
           cmds == Append(list, Transfer(job, id))
<1>1. /\ ServiceTypeOK /\ cwd \in RemoteDirs
      /\ q \in Queues /\ Len(q.items) \in Nat /\ q.at \in 1 .. Len(q.items)
      /\ DOMAIN q.items = 1 .. Len(q.items)
  BY QueueTypes DEF Considered, ScreenTypeOK
<1>2. job \in Jobs
  <2>1. q.items[q.at] \in Names /\ q.dir \in RemoteDirs \cup {LocalDir}
    BY <1>1, QueueTypes
  <2>2. [dir |-> q.dir, name |-> q.items[q.at]] \in Paths
    BY <2>1 DEF Paths, LocalPaths, RemotePaths
  <2> QED
    BY <2>2 DEF Jobs
<1>3. /\ list \in Seq(Commands) /\ Len(list) \in {0, 1}
      /\ \A k \in 1 .. Len(list) : list[k].id = Len(posted) + k /\ list[k].op = "list"
  <2>1. CASE q.dest = "remote" /\ q.dir = cwd
    <3>1. List(q.dir) \in Commands /\ List(q.dir).id = Len(posted) + 1 /\ List(q.dir).op = "list"
      BY <1>1, <2>1, CommandsOf DEF List
    <3>2. list = <<List(q.dir)>>
      BY <2>1
    <3> HIDE DEF list, List
    <3> QED
      BY <3>1, <3>2
  <2>2. CASE ~(q.dest = "remote" /\ q.dir = cwd)
    BY <2>2
  <2> QED
    BY <2>1, <2>2
<1> HIDE DEF job, list
<1>4. id \in Nat /\ id = Len(posted) + Len(list) + 1 /\ Transfer(job, id) \in Commands
  BY <1>1, <1>2, <1>3, CommandsOf
<1>5. Transfer(job, id).id = id /\ Transfer(job, id).op = "transfer"
  BY DEF Transfer
<1>6. /\ cmds \in Seq(Commands) /\ Len(cmds) = Len(list) + 1
      /\ \A k \in 1 .. Len(list) : cmds[k] = list[k]
      /\ cmds[Len(list) + 1] = Transfer(job, id)
  BY <1>3, <1>4, AppendProperties
<1>7. /\ queue' = [q EXCEPT !.tried = @ \cup {q.at}]
      /\ active' = id /\ Post(cmds) /\ report' = Quiet /\ UNCHANGED local
  BY DEF Start, job, list
<1> HIDE DEF id, cmds
<1>8. \A k \in 1 .. Len(cmds) : k \in 1 .. Len(list) \/ k = Len(list) + 1
  BY <1>3, <1>6
<1>9. \A k \in 1 .. Len(cmds) : cmds[k].id = Len(posted) + k
  <2> SUFFICES ASSUME NEW k \in 1 .. Len(cmds) PROVE cmds[k].id = Len(posted) + k
    OBVIOUS
  <2>1. CASE k \in 1 .. Len(list)
    BY <1>3, <1>6, <2>1
  <2>2. CASE k = Len(list) + 1
    <3>1. Len(posted) \in Nat /\ id = Len(posted) + k
      BY <1>1, <1>3, <1>4, <2>2, CommandsOf
    <3> QED
      BY <1>5, <1>6, <2>2, <3>1
  <2> QED
    BY <1>8, <2>1, <2>2
<1>10. Sends(cmds)
  BY <1>6, <1>7, <1>9 DEF Sends
<1>11. /\ Len(cmds) > 0 /\ active' = Len(posted) + Len(cmds) /\ cmds[Len(cmds)].op = "transfer"
       /\ \A k \in 1 .. Len(cmds) : k # Len(cmds) => cmds[k].op # "transfer"
  <2>1. Len(posted) \in Nat
    BY <1>1, CommandsOf
  <2>2. Len(cmds) > 0 /\ active' = Len(posted) + Len(cmds)
    BY <1>3, <1>4, <1>6, <1>7, <2>1
  <2>3. \A k \in 1 .. Len(cmds) : k # Len(cmds) => cmds[k].op = "list"
    BY <1>3, <1>6, <1>8
  <2> QED
    BY <1>5, <1>6, <2>2, <2>3
<1>12. InFlight(queue')
  <2>1. /\ queue'.at = q.at /\ queue'.items = q.items /\ queue'.skipped = q.skipped
        /\ queue'.landed = q.landed /\ queue'.tried = q.tried \cup {q.at}
    BY <1>1, <1>7 DEF Queues
  <2>2. queue' \in Queues
    BY <1>1, <1>7 DEF Queues
  <2>3. 1 .. q.at = (1 .. q.at - 1) \cup {q.at}
    BY <1>1
  <2>4. Accounted(q, q.at - 1)
    BY DEF Considered
  <2>5. Accounted(queue', queue'.at)
    BY <2>1, <2>3, <2>4 DEF Accounted
  <2> QED
    BY <1>1, <2>1, <2>2, <2>5 DEF InFlight
<1>13. TrueReport(report')
  BY <1>7 DEF TrueReport, Quiet
<1> QED
  BY <1>7, <1>10, <1>11, <1>12, <1>13 DEF QueueGoesOn

\* start_next() leaves the queue empty, or its next item is the transfer in
\* flight; what it says is true.
LEMMA StartNextDoes ==
    ASSUME ScreenTypeOK, NEW q, Considered(q), StartNext(q)
    PROVE  /\ TrueReport(report') /\ local' \subseteq Names
           /\ QueueGoesOn \/ (QueueEnds /\ \E cmds : SendsNoTransfer(cmds))
<1> DEFINE i == NextAt(q)
           r == [q EXCEPT !.at = i, !.skipped = @ \cup (q.at .. i - 1)]
<1>1. q \in Queues /\ Len(q.items) \in Nat /\ q.at \in 1 .. Len(q.items) + 1
  BY QueueTypes DEF Considered
<1>2. i \in q.at .. Len(q.items) + 1
  BY <1>1, NextIsAhead
<1>3. r.at = i /\ r.items = q.items
  BY <1>1 DEF Queues
<1>4. \/ i > Len(q.items) /\ Finish(r)
      \/ i <= Len(q.items) /\ (Refuse(r) \/ Start(r))
  BY DEF StartNext
<1> HIDE DEF i
<1>5. Considered(r)
  BY <1>2, PassedOver
<1> HIDE DEF r
<1>6. CASE i > Len(q.items) /\ Finish(r)
  <2>1. r.at = Len(r.items) + 1
    BY <1>1, <1>2, <1>3, <1>6
  <2> QED
    BY <1>5, <1>6, <2>1, FinishDoes
<1>7. CASE i <= Len(q.items) /\ Refuse(r)
  BY <1>3, <1>5, <1>7, RefuseDoes
<1>8. CASE i <= Len(q.items) /\ Start(r)
  BY <1>3, <1>5, <1>8, StartDoes DEF ScreenTypeOK
<1> QED
  BY <1>4, <1>6, <1>7, <1>8

-----------------------------------------------------------------------------
(***************************************************************************)
(* The parts of the invariant, and what a step of the screen does to them. *)
(***************************************************************************)
PanesOK ==
    /\ connecting \in BOOLEAN /\ input \in BOOLEAN /\ misread \in BOOLEAN
    /\ cwd \in RemoteDirs
    /\ remote \in [names : SUBSET Names, truncated : BOOLEAN]
    /\ local \subseteq Names

FlightOK ==
    \/ active = 0 /\ queue = NoQueue
    \/ /\ active \in 1 .. Len(posted) /\ posted[active] = "transfer" /\ ~connecting
       /\ InFlight(queue)

ServiceParts == AnsweringInv /\ KindsInv /\ OpeningInv /\ OneTransferAtATime /\ WaitsForAnAnswer

LEMMA ScreenParts == ScreenInv <=> ServiceParts /\ PanesOK /\ FlightOK /\ TrueReport(report)
<1>1. ASSUME ScreenInv PROVE ServiceParts /\ PanesOK /\ FlightOK /\ TrueReport(report)
  BY <1>1 DEF ScreenInv, ServiceParts, PanesOK, FlightOK, TrueReport, ScreenTypeOK, FlightInv, QueueInv,
              InFlight, SummaryTrue
<1>2. ASSUME ServiceParts, PanesOK, FlightOK, TrueReport(report) PROVE ScreenInv
  <2>1. ServiceTypeOK /\ Len(posted) \in Nat
    BY <1>2, NumbersAreBounded DEF ServiceParts, AnsweringInv
  <2>2. /\ active \in Nat /\ FlightInv /\ QueueInv
        /\ queue = NoQueue \/ (queue \in Queues /\ queue.at \in DOMAIN queue.items)
    <3>1. CASE active = 0 /\ queue = NoQueue
      BY <3>1 DEF FlightInv, QueueInv
    <3>2. CASE active \in 1 .. Len(posted) /\ posted[active] = "transfer" /\ ~connecting /\ InFlight(queue)
      <4>1. active \in Nat /\ active # 0 /\ queue # NoQueue
        BY <2>1, <3>2, QueueTypes DEF InFlight
      <4> QED
        BY <3>2, <4>1 DEF InFlight, FlightInv, QueueInv
    <3> QED
      BY <1>2, <3>1, <3>2 DEF FlightOK
  <2>3. ScreenTypeOK /\ SummaryTrue
    BY <1>2, <2>1, <2>2 DEF PanesOK, TrueReport, ScreenTypeOK, SummaryTrue
  <2> QED
    BY <1>2, <2>2, <2>3 DEF ScreenInv, ServiceParts
<1> QED
  BY <1>1, <1>2

\* What was answered waits no longer.
LEMMA AnsweredWaitsNot ==
    ASSUME AnsweringInv, NEW id, id # 0, Answered(id)
    PROVE  ~Waiting(id)
<1>1. ChannelTypeOK /\ NumbersInv /\ AnswersInv
  BY TypeParts DEF AnsweringInv
<1>2. PICK i \in 1 .. Len(events) : events[i].id = id
  BY NumbersAreBounded DEF Answered
<1>3. id \in Nat /\ id <= serving.id /\ (worker \in Serving => id < serving.id)
      /\ serving.id \in Nat
  BY <1>1, <1>2, NumbersAreBounded DEF AnswersInv
<1>4. \A k \in 1 .. Len(deferred) : deferred[k].id \in Nat /\ serving.id < deferred[k].id
  BY <1>1, CommandFacts DEF NumbersInv, ParkedInv, ChannelTypeOK
<1>5. \A k \in 1 .. Len(rx) : rx[k].id \in Nat /\ serving.id < rx[k].id
  <2>1. /\ Len(rx) \in Nat /\ Len(posted) \in Nat /\ Taken \in Nat /\ serving.id <= Taken
        /\ \A k \in 1 .. Len(rx) : rx[k].id = Taken + k
    BY <1>1 DEF NumbersInv, ChannelInv, TakenInv, Taken, ChannelTypeOK
  <2> QED
    BY <1>3, <2>1
<1>6. ~Pending(id) /\ ~(serving.id = id /\ worker \in Serving)
  BY <1>3, <1>4, <1>5 DEF Pending, InChannel, IsParked
<1> QED
  BY <1>6, WaitingParts DEF AnsweringInv

\* A step of the screen: it posts, drains, and leaves the worker alone.
ScreenMoves ==
    /\ Drains /\ UNCHANGED <<deferred, worker, serving, cancelSeen>>
    /\ hungUp' \in BOOLEAN /\ closing' \in BOOLEAN
    /\ connecting' \in BOOLEAN /\ (connecting' => connecting)
    /\ events' = events => connecting' = connecting
    /\ misread => misread'

LEMMA MovesKeep ==
    ASSUME AnsweringInv, KindsInv, OpeningInv, ScreenMoves, NEW cmds, Sends(cmds)
    PROVE  /\ AnsweringInv' /\ KindsInv' /\ OpeningInv'
           /\ Len(posted) \in Nat /\ Len(cmds) \in Nat /\ Len(posted') = Len(posted) + Len(cmds)
           /\ DOMAIN posted' = 1 .. Len(posted')
           /\ \A id \in 1 .. Len(posted) : /\ posted'[id] = posted[id]
                                           /\ Waiting(id)' <=> Waiting(id)
           /\ \A k \in 1 .. Len(cmds) : posted'[Len(posted) + k] = cmds[k].op
           /\ \A id \in Len(posted) + 1 .. Len(posted') : Waiting(id)' /\ ~Answered(id)'
           /\ \A id : Answered(id)' => Answered(id)
<1>1. /\ AnsweringInv' /\ KindsInv'
      /\ Len(posted') = Len(posted) + Len(cmds)
      /\ \A id \in 1 .. Len(posted) : /\ posted'[id] = posted[id]
                                      /\ Waiting(id)' <=> Waiting(id)
      /\ \A k \in 1 .. Len(cmds) : posted'[Len(posted) + k] = cmds[k].op
      /\ \A id \in Len(posted) + 1 .. Len(posted') : Waiting(id)'
      /\ \A id : Answered(id)' => Answered(id) /\ id \in 0 .. Len(posted)
  BY ScreenKeepsAnswering DEF ScreenMoves
<1>2. Len(posted) \in Nat /\ Len(cmds) \in Nat /\ events \in Seq(Events)
  BY NumbersAreBounded DEF Sends
<1>3. DOMAIN posted' = 1 .. Len(posted')
  BY <1>1, WaitingPartsNext DEF AnsweringInv
<1>4. OpeningInv'
  BY <1>2 DEF OpeningInv, ScreenMoves, Drains
<1>5. ASSUME NEW id \in Len(posted) + 1 .. Len(posted') PROVE ~Answered(id)'
  BY <1>1, <1>2
<1> QED
  BY <1>1, <1>2, <1>3, <1>4, <1>5

\* The flight goes on if what is drained is neither its answer nor a Cancelled.
LEMMA QuietKeeps ==
    ASSUME ServiceParts, FlightOK, ScreenMoves, NEW cmds, SendsNoTransfer(cmds),
           UNCHANGED <<active, misread>>,
           events' = events \/ active = 0
              \/ (events[1].id # active /\ events[1].ev # "cancelled")
    PROVE  /\ ServiceParts'
           /\ active # 0 => /\ active \in 1 .. Len(posted') /\ posted'[active] = "transfer"
                            /\ ~connecting'
<1>1. /\ AnsweringInv' /\ KindsInv' /\ OpeningInv'
      /\ Len(posted) \in Nat /\ Len(cmds) \in Nat /\ Len(posted') = Len(posted) + Len(cmds)
      /\ DOMAIN posted' = 1 .. Len(posted')
      /\ \A id \in 1 .. Len(posted) : /\ posted'[id] = posted[id]
                                      /\ Waiting(id)' <=> Waiting(id)
      /\ \A k \in 1 .. Len(cmds) : posted'[Len(posted) + k] = cmds[k].op
      /\ \A id : Answered(id)' => Answered(id)
  BY MovesKeep DEF ServiceParts, SendsNoTransfer
<1>2. \A id \in 1 .. Len(posted') : posted'[id] = "transfer" => id \in 1 .. Len(posted)
  <2> SUFFICES ASSUME NEW id \in 1 .. Len(posted'), id > Len(posted) PROVE posted'[id] # "transfer"
    BY <1>1
  <2>1. id - Len(posted) \in 1 .. Len(cmds) /\ Len(posted) + (id - Len(posted)) = id
    BY <1>1
  <2> QED
    BY <1>1, <2>1 DEF SendsNoTransfer
<1>3. OneTransferAtATime'
  <2>1. DOMAIN posted = 1 .. Len(posted)
    BY NumbersAreBounded DEF ServiceParts
  <2> SUFFICES ASSUME ~misread, NEW id \in 1 .. Len(posted'), posted'[id] = "transfer",
                      Waiting(id)' \/ Answered(id)'
               PROVE  id = active
    BY <1>1 DEF OneTransferAtATime
  <2>2. id \in 1 .. Len(posted) /\ posted[id] = "transfer" /\ (Waiting(id) \/ Answered(id))
    BY <1>1, <1>2
  <2> QED
    BY <2>1, <2>2 DEF ServiceParts, OneTransferAtATime
<1>4. active # 0 => active \in 1 .. Len(posted) /\ posted[active] = "transfer" /\ ~connecting
  BY DEF FlightOK
<1>5. WaitsForAnAnswer'
  <2> SUFFICES ASSUME active # 0, Reachable PROVE Reachable'
    BY DEF WaitsForAnAnswer, ServiceParts, ScreenMoves
  <2>1. PICK d \in {0, 1} :
          /\ \A i \in 1 .. Len(events') : i + d \in 1 .. Len(events) /\ events'[i] = events[i + d]
          /\ Len(events') = Len(events) - d
          /\ d = 0 => events' = events
    BY DrainedEvents, NumbersAreBounded DEF ScreenMoves, ServiceParts
  <2>2. /\ DOMAIN events = 1 .. Len(events) /\ Len(events) \in Nat
        /\ DOMAIN events' = 1 .. Len(events')
    BY <1>1, NumbersAreBounded, WaitingPartsNext DEF ServiceParts, AnsweringInv
  <2>3. ASSUME NEW i \in DOMAIN events, events[i].id = active \/ events[i].ev = "cancelled"
        PROVE  \E j \in DOMAIN events' : events'[j] = events[i]
    <3>1. CASE d = 0
      BY <2>1, <3>1
    <3>2. CASE d = 1
      <4>1. events' # events
        BY <2>1, <2>2, <3>2
      <4>2. i # 1
        BY <2>3, <4>1
      <4>3. i - 1 \in 1 .. Len(events') /\ i - 1 + 1 = i
        BY <2>1, <2>2, <3>2, <4>2
      <4> QED
        BY <2>1, <2>2, <3>2, <4>3
    <3> QED
      BY <3>1, <3>2
  <2>4. CASE Waiting(active)
    <3>1. PICK id : id = active
      OBVIOUS
    <3>2. Waiting(id)'
      BY <1>1, <1>4, <2>4, <3>1
    <3> QED
      BY <3>1, <3>2 DEF Reachable
  <2>5. CASE Answered(active)
    BY <2>3, <2>5 DEF Reachable, Answered
  <2>6. CASE \E i \in DOMAIN events : events[i].ev = "cancelled"
    BY <2>3, <2>6 DEF Reachable
  <2> QED
    BY <2>4, <2>5, <2>6 DEF Reachable
<1> QED
  BY <1>1, <1>3, <1>4, <1>5 DEF ServiceParts, ScreenMoves

\* No transfer is left that waits or whose answer is not drained.
Settled ==
    ~misread' => \A id \in 1 .. Len(posted) :
        posted[id] = "transfer" => ~Waiting(id) /\ ~Answered(id)'

\* The flight ends, and with the queue nothing is left of it.
LEMMA EndKeeps ==
    ASSUME ServiceParts, ScreenMoves, NEW cmds, SendsNoTransfer(cmds), active' = 0, Settled
    PROVE  ServiceParts'
<1>1. /\ AnsweringInv' /\ KindsInv' /\ OpeningInv'
      /\ Len(posted) \in Nat /\ Len(cmds) \in Nat /\ Len(posted') = Len(posted) + Len(cmds)
      /\ DOMAIN posted' = 1 .. Len(posted')
      /\ \A id \in 1 .. Len(posted) : /\ posted'[id] = posted[id]
                                      /\ Waiting(id)' <=> Waiting(id)
      /\ \A k \in 1 .. Len(cmds) : posted'[Len(posted) + k] = cmds[k].op
  BY MovesKeep DEF ServiceParts, SendsNoTransfer
<1>2. \A id \in 1 .. Len(posted') : posted'[id] = "transfer" => id \in 1 .. Len(posted)
  <2> SUFFICES ASSUME NEW id \in 1 .. Len(posted'), id > Len(posted) PROVE posted'[id] # "transfer"
    BY <1>1
  <2>1. id - Len(posted) \in 1 .. Len(cmds) /\ Len(posted) + (id - Len(posted)) = id
    BY <1>1
  <2> QED
    BY <1>1, <2>1 DEF SendsNoTransfer
<1>3. OneTransferAtATime'
  BY <1>1, <1>2 DEF OneTransferAtATime, Settled
<1>4. WaitsForAnAnswer'
  BY DEF WaitsForAnAnswer
<1> QED
  BY <1>1, <1>3, <1>4 DEF ServiceParts

\* A transfer starts where nothing is left of another.
LEMMA StartKeeps ==
    ASSUME ServiceParts, ScreenMoves, QueueGoesOn, ~connecting', misread' = misread, Settled
    PROVE  ServiceParts' /\ FlightOK'
<1>1. PICK cmds :
         /\ Sends(cmds) /\ Len(cmds) > 0
         /\ active' = Len(posted) + Len(cmds) /\ cmds[Len(cmds)].op = "transfer"
         /\ \A k \in 1 .. Len(cmds) : k # Len(cmds) => cmds[k].op # "transfer"
  BY DEF QueueGoesOn
<1>2. /\ AnsweringInv' /\ KindsInv' /\ OpeningInv'
      /\ Len(posted) \in Nat /\ Len(cmds) \in Nat /\ Len(posted') = Len(posted) + Len(cmds)
      /\ DOMAIN posted' = 1 .. Len(posted')
      /\ \A id \in 1 .. Len(posted) : /\ posted'[id] = posted[id]
                                      /\ Waiting(id)' <=> Waiting(id)
      /\ \A k \in 1 .. Len(cmds) : posted'[Len(posted) + k] = cmds[k].op
      /\ \A id \in Len(posted) + 1 .. Len(posted') : Waiting(id)' /\ ~Answered(id)'
  BY <1>1, MovesKeep DEF ServiceParts
<1>3. active' \in 1 .. Len(posted') /\ active' \in Len(posted) + 1 .. Len(posted')
  BY <1>1, <1>2
<1>4. posted'[active'] = "transfer"
  BY <1>1, <1>2
<1>5. FlightOK'
  <2>1. InFlight(queue)'
    BY DEF QueueGoesOn, InFlight, Accounted
  <2> QED
    BY <1>3, <1>4, <2>1 DEF FlightOK
<1>6. \A id \in 1 .. Len(posted') : posted'[id] = "transfer" => id \in 1 .. Len(posted) \/ id = active'
  <2> SUFFICES ASSUME NEW id \in 1 .. Len(posted'), id > Len(posted), id # active'
               PROVE  posted'[id] # "transfer"
    BY <1>2
  <2>1. /\ id - Len(posted) \in 1 .. Len(cmds) /\ Len(posted) + (id - Len(posted)) = id
        /\ id - Len(posted) # Len(cmds)
    BY <1>1, <1>2
  <2> QED
    BY <1>1, <1>2, <2>1
<1>7. OneTransferAtATime'
  BY <1>2, <1>6 DEF OneTransferAtATime, Settled
<1>8. Waiting(active)'
  <2>1. PICK id : id = active'
    OBVIOUS
  <2>2. Waiting(id)'
    BY <1>2, <1>3, <2>1
  <2> QED
    BY <2>1, <2>2
<1>9. WaitsForAnAnswer'
  BY <1>8 DEF WaitsForAnAnswer, Reachable
<1> QED
  BY <1>2, <1>5, <1>7, <1>9 DEF ServiceParts

\* With no transfer in flight nothing is left of any.
LEMMA IdleIsSettled ==
    ASSUME ServiceParts, ScreenMoves, NEW cmds, Sends(cmds), active = 0
    PROVE  Settled
<1>1. \A id : Answered(id)' => Answered(id)
  BY MovesKeep DEF ServiceParts
<1>2. DOMAIN posted = 1 .. Len(posted)
  BY NumbersAreBounded DEF ServiceParts
<1> QED
  BY <1>1, <1>2 DEF ServiceParts, OneTransferAtATime, Settled, ScreenMoves

\* start_next() in a step of the screen, if nothing is left of a transfer.
LEMMA StartNextKeeps ==
    ASSUME ScreenInv, ScreenMoves, NEW q, Considered(q), StartNext(q),
           \A cmds : Sends(cmds) => Settled,
           ~connecting', UNCHANGED <<input, cwd, misread>>,
           remote' \in [names : SUBSET Names, truncated : BOOLEAN]
    PROVE  ScreenInv'
<1>1. /\ ServiceParts /\ PanesOK /\ FlightOK /\ ScreenTypeOK
  BY ScreenParts DEF ScreenInv
<1>2. /\ TrueReport(report') /\ local' \subseteq Names
      /\ QueueGoesOn \/ (QueueEnds /\ \E cmds : SendsNoTransfer(cmds))
  BY <1>1, StartNextDoes
<1>3. PanesOK' /\ TrueReport(report)'
  BY <1>1, <1>2 DEF PanesOK, TrueReport, ScreenMoves
<1>4. CASE QueueGoesOn
  <2>1. Settled
    BY <1>4 DEF QueueGoesOn
  <2>2. ServiceParts' /\ FlightOK'
    BY <1>1, <1>4, <2>1, StartKeeps
  <2> QED
    BY <1>3, <2>2, ScreenParts, PTL
<1>5. ASSUME QueueEnds, NEW cmds, SendsNoTransfer(cmds) PROVE ScreenInv'
  <2>1. Settled
    BY <1>5 DEF SendsNoTransfer
  <2>2. ServiceParts'
    BY <1>1, <1>5, <2>1, EndKeeps DEF QueueEnds
  <2>3. FlightOK'
    BY <1>5 DEF FlightOK, QueueEnds
  <2> QED
    BY <1>3, <2>2, <2>3, ScreenParts, PTL
<1> QED
  BY <1>2, <1>4, <1>5

-----------------------------------------------------------------------------
(***************************************************************************)
(* The steps.                                                              *)
(***************************************************************************)

\* The session, and what the worker's children do.
LEMMA WorkerEndKeeps ==
    ASSUME ScreenInv, Session \/ Children, UNCHANGED screenVars
    PROVE  ScreenInv'
<1>1. /\ ServiceParts /\ PanesOK /\ FlightOK /\ TrueReport(report)
      /\ AnsweringInv /\ ServiceTypeOK /\ ServingInv
  BY ScreenParts DEF ServiceParts, AnsweringInv
<1>2. /\ AnsweringInv' /\ UNCHANGED posted
      /\ \A id : Waiting(id)' => Waiting(id)
      /\ \A id : posted[id] = "transfer" /\ Waiting(id) => Kept(id)
      /\ Serves' => Serves
      /\ worker' \in {"handshake", "home"} => worker \in {"handshake", "home"}
  BY <1>1, WorkerKeepsWaiting
<1>3. \/ UNCHANGED events
      \/ \E e : WorkerBrings(e) /\ worker' \notin {"handshake", "home"}
  BY <1>1, WorkerBringsWhatFits
<1>4. UNCHANGED <<connecting, active, queue, input, cwd, remote, local, report, misread>>
  BY DEF screenVars
<1>5. /\ DOMAIN events = 1 .. Len(events) /\ events \in Seq(Events)
      /\ DOMAIN events' = 1 .. Len(events')
  BY <1>1, <1>2, NumbersAreBounded, WaitingPartsNext DEF AnsweringInv
<1>6. /\ \A i \in DOMAIN events : i \in DOMAIN events' /\ events'[i] = events[i]
      /\ \A i \in DOMAIN events' : i \in DOMAIN events \/ WorkerBrings(events'[i])
  <2>1. ASSUME NEW e, WorkerBrings(e)
        PROVE  /\ \A i \in DOMAIN events : i \in DOMAIN events' /\ events'[i] = events[i]
               /\ \A i \in DOMAIN events' : i \in DOMAIN events \/ events'[i] = e
    BY <1>5, <2>1, SaidIsHeard DEF WorkerBrings
  <2> QED
    BY <1>3, <2>1
<1>7. KindsInv'
  BY <1>1, <1>2, <1>5, <1>6 DEF KindsInv, Fits, WorkerBrings, ServiceParts
<1>8. OpeningInv'
  BY <1>1, <1>2, <1>3, <1>4 DEF OpeningInv, ServiceParts
<1>9. OneTransferAtATime'
  <2> SUFFICES ASSUME ~misread, NEW id \in DOMAIN posted, posted[id] = "transfer",
                      Waiting(id)' \/ Answered(id)'
               PROVE  id = active
    BY <1>2, <1>4 DEF OneTransferAtATime
  <2>1. id # 0
    BY NumbersAreBounded, <1>1
  <2>2. Answered(id)' => Answered(id) \/ Waiting(id)
    <3> SUFFICES ASSUME NEW i \in DOMAIN events', events'[i].id = id PROVE Answered(id) \/ Waiting(id)
      BY DEF Answered
    <3>1. CASE i \in DOMAIN events
      BY <1>6, <3>1 DEF Answered
    <3>2. CASE WorkerBrings(events'[i])
      BY <1>1, <2>1, <3>2, WaitingParts DEF WorkerBrings
    <3> QED
      BY <1>6, <3>1, <3>2
  <2> QED
    BY <1>1, <1>2, <2>2 DEF ServiceParts, OneTransferAtATime
<1>10. WaitsForAnAnswer'
  <2> SUFFICES ASSUME active # 0, Serves', ~misread PROVE Reachable'
    BY <1>4 DEF WaitsForAnAnswer, Serves
  <2>1. Reachable
    BY <1>1, <1>2 DEF WaitsForAnAnswer, ServiceParts, Serves
  <2>2. CASE Answered(active)
    BY <1>4, <1>6, <2>2 DEF Answered, Reachable
  <2>3. CASE \E i \in DOMAIN events : events[i].ev = "cancelled"
    BY <1>6, <2>3 DEF Reachable
  <2>4. CASE Waiting(active)
    <3>1. PICK id : id = active
      OBVIOUS
    <3>2. Kept(id) /\ posted[id] = "transfer" /\ ~connecting
      BY <1>1, <1>2, <2>4, <3>1 DEF FlightOK
    <3>3. worker \notin {"handshake", "home"}
      BY <1>1, <3>2 DEF OpeningInv, ServiceParts
    <3>4. ~(worker \in {"copying", "settling"} /\ id # serving.id)
      <4> SUFFICES ASSUME worker \in {"copying", "settling"} PROVE id = serving.id
        OBVIOUS
      <4>1. serving.id > 0 /\ posted[serving.id] = "transfer" /\ worker \in Serving
        BY <1>1 DEF ServingInv, Serving
      <4>2. Waiting(serving.id) /\ serving.id \in DOMAIN posted
        BY <1>1, <4>1, WaitingParts, NumbersAreBounded
      <4> QED
        BY <1>1, <3>1, <4>1, <4>2 DEF ServiceParts, OneTransferAtATime
    <3>5. Waiting(id)' \/ Answered(id)' \/ HeardCancel'
      BY <3>2, <3>3, <3>4 DEF Kept
    <3> QED
      BY <1>4, <3>1, <3>5 DEF Reachable, HeardCancel
  <2> QED
    BY <2>1, <2>2, <2>3, <2>4 DEF Reachable
<1>11. ServiceParts'
  BY <1>2, <1>7, <1>8, <1>9, <1>10 DEF ServiceParts
<1>12. PanesOK' /\ FlightOK' /\ TrueReport(report)'
  BY <1>1, <1>2, <1>4 DEF PanesOK, FlightOK, TrueReport, InFlight, Accounted
<1> QED
  BY <1>11, <1>12, ScreenParts, PTL

\* A step that leaves the flight and the queue alone.
LEMMA QuietStepKeeps ==
    ASSUME ScreenInv, ScreenMoves, NEW cmds, SendsNoTransfer(cmds),
           UNCHANGED <<active, queue, misread>>,
           events' = events \/ active = 0
              \/ (events[1].id # active /\ events[1].ev # "cancelled"),
           PanesOK', report' = report \/ report' = Quiet
    PROVE  ScreenInv'
<1>1. /\ ServiceParts /\ FlightOK /\ TrueReport(report)
  BY ScreenParts
<1>2. /\ ServiceParts'
      /\ active # 0 => /\ active \in 1 .. Len(posted') /\ posted'[active] = "transfer"
                       /\ ~connecting'
  BY <1>1, QuietKeeps
<1>3. FlightOK'
  <2>1. active = 0 => queue = NoQueue
    BY <1>1, NumbersAreBounded DEF FlightOK, ServiceParts
  <2>2. active # 0 => InFlight(queue)'
    BY <1>1 DEF FlightOK, InFlight, Accounted
  <2> QED
    BY <1>2, <2>1, <2>2 DEF FlightOK
<1>4. TrueReport(report)'
  BY <1>1 DEF TrueReport, Quiet
<1> QED
  BY <1>2, <1>3, <1>4, ScreenParts, PTL

\* The screen is dropped, and lets go of the channel.
LEMMA ClosingKeeps ==
    ASSUME ScreenInv, Close \/ HangUp, UNCHANGED screenVars
    PROVE  ScreenInv'
<1>1. ServiceParts /\ PanesOK /\ ServiceTypeOK
  BY ScreenParts DEF ServiceParts, AnsweringInv
<1>2. UNCHANGED <<connecting, active, queue, input, cwd, remote, local, report, misread>>
  BY DEF screenVars
<1>3. PanesOK'
  BY <1>1, <1>2 DEF PanesOK
<1>4. CASE Close
  <2> DEFINE c == [op |-> "shutdown", id |-> NextId]
  <2>1. c \in Commands /\ c.id = NextId /\ c.op = "shutdown" /\ Post(<<c>>)
    BY <1>1, <1>4, CommandsOf DEF Close
  <2> HIDE DEF c
  <2>2. SendsNoTransfer(<<c>>)
    BY <1>1, <2>1, PostsOne DEF SendsNoTransfer
  <2>3. ScreenMoves
    BY <1>1, <1>2, <1>3, <1>4 DEF Close, ScreenMoves, Drains, ServiceTypeOK, PanesOK
  <2>4. events' = events
    BY <1>4 DEF Close
  <2> QED
    BY <1>2, <1>3, <2>2, <2>3, <2>4, QuietStepKeeps
<1>5. CASE HangUp
  <2>1. SendsNoTransfer(<<>>)
    BY <1>5, PostsNothing DEF HangUp, Silent, SendsNoTransfer
  <2>2. ScreenMoves
    BY <1>1, <1>2, <1>3, <1>5 DEF HangUp, ScreenMoves, Drains, ServiceTypeOK, PanesOK
  <2>3. events' = events
    BY <1>5 DEF HangUp
  <2> QED
    BY <1>2, <1>3, <2>1, <2>2, <2>3, QuietStepKeeps
<1> QED
  BY <1>4, <1>5

\* A key that neither starts nor ends a transfer.
LEMMA KeyKeeps ==
    ASSUME ScreenInv, UNCHANGED workerEnd, NEW cmds, SendsNoTransfer(cmds),
           UNCHANGED <<connecting, active, queue, misread>>,
           input' \in BOOLEAN, cwd' \in RemoteDirs, local' \subseteq Names,
           remote' \in [names : SUBSET Names, truncated : BOOLEAN],
           report' = report \/ report' = Quiet
    PROVE  ScreenInv'
<1>1. ServiceParts /\ PanesOK /\ ServiceTypeOK
  BY ScreenParts DEF ServiceParts, AnsweringInv
<1>2. ScreenMoves /\ events' = events
  BY <1>1 DEF ScreenMoves, Drains, workerEnd, ServiceTypeOK, PanesOK
<1>3. PanesOK'
  BY <1>1 DEF PanesOK
<1> QED
  BY <1>2, <1>3, QuietStepKeeps

LEMMA EscKeeps ==
    ASSUME ScreenInv, Esc
    PROVE  ScreenInv'
<1>1. ServiceParts /\ PanesOK /\ FlightOK /\ ServiceTypeOK
  BY ScreenParts DEF ServiceParts, AnsweringInv
<1> DEFINE c == [op |-> "cancel", id |-> NextId]
<1>2. /\ UNCHANGED workerEnd /\ active # 0 /\ queue' = [queue EXCEPT !.esc = TRUE]
      /\ report' = Quiet
      /\ UNCHANGED <<connecting, active, input, cwd, remote, local, misread>>
      /\ c \in Commands /\ c.id = NextId /\ c.op = "cancel" /\ Post(<<c>>)
  BY <1>1, CommandsOf DEF Esc
<1> HIDE DEF c
<1>3. SendsNoTransfer(<<c>>)
  BY <1>1, <1>2, PostsOne DEF SendsNoTransfer
<1>4. ScreenMoves /\ events' = events
  BY <1>1, <1>2 DEF ScreenMoves, Drains, workerEnd, ServiceTypeOK, PanesOK
<1>5. /\ ServiceParts'
      /\ active \in 1 .. Len(posted') /\ posted'[active] = "transfer" /\ ~connecting'
  BY <1>1, <1>2, <1>3, <1>4, QuietKeeps
<1>6. InFlight(queue')
  <2>1. InFlight(queue)
    BY <1>1, <1>2 DEF FlightOK
  <2>2. queue' \in Queues
    BY <1>2, <2>1 DEF InFlight, Queues
  <2>3. /\ queue'.at = queue.at /\ queue'.items = queue.items /\ queue'.skipped = queue.skipped
        /\ queue'.landed = queue.landed /\ queue'.tried = queue.tried
    BY <1>2, <2>1 DEF InFlight, Queues
  <2> QED
    BY <2>1, <2>2, <2>3 DEF InFlight, Accounted
<1>7. FlightOK'
  BY <1>2, <1>5, <1>6 DEF FlightOK, InFlight, Accounted
<1>8. PanesOK' /\ TrueReport(report)'
  BY <1>1, <1>2 DEF PanesOK, TrueReport, Quiet
<1> QED
  BY <1>5, <1>7, <1>8, ScreenParts, PTL

LEMMA NavigateKeeps ==
    ASSUME ScreenInv, NEW d \in RemoteDirs, Navigate(d)
    PROVE  ScreenInv'
<1>1. ServiceTypeOK /\ PanesOK
  BY ScreenParts DEF ServiceParts, AnsweringInv
<1>2. List(d) \in Commands /\ List(d).id = NextId /\ List(d).op = "list"
  BY <1>1, CommandsOf DEF List
<1>3. /\ UNCHANGED workerEnd /\ Post(<<List(d)>>) /\ cwd' = d /\ remote' = Blank /\ report' = Quiet
      /\ UNCHANGED <<connecting, active, queue, input, local, misread>>
  BY DEF Navigate, Clear
<1>4. SendsNoTransfer(<<List(d)>>)
  BY <1>1, <1>2, <1>3, PostsOne DEF SendsNoTransfer
<1>5. /\ input' \in BOOLEAN /\ local' \subseteq Names
      /\ remote' \in [names : SUBSET Names, truncated : BOOLEAN]
  BY <1>1, <1>3 DEF PanesOK, Blank
<1> QED
  BY <1>3, <1>4, <1>5, KeyKeeps

LEMMA SilentKeyKeeps ==
    ASSUME ScreenInv, BrowseLocal \/ OpenInput \/ CloseInput
    PROVE  ScreenInv'
<1>1. PanesOK
  BY ScreenParts
<1>2. /\ UNCHANGED workerEnd /\ Silent
      /\ UNCHANGED <<connecting, active, queue, misread, cwd, remote>>
      /\ input' \in BOOLEAN /\ local' \subseteq Names
      /\ report' = report \/ report' = Quiet
  BY <1>1 DEF BrowseLocal, OpenInput, CloseInput, Clear, PanesOK
<1>3. SendsNoTransfer(<<>>)
  BY <1>2, PostsNothing DEF SendsNoTransfer
<1>4. cwd' \in RemoteDirs /\ remote' \in [names : SUBSET Names, truncated : BOOLEAN]
  BY <1>1, <1>2 DEF PanesOK
<1> QED
  BY <1>2, <1>3, <1>4, KeyKeeps

LEMMA MakeRemoteKeeps ==
    ASSUME ScreenInv, NEW n \in Names, MakeRemote(n)
    PROVE  ScreenInv'
<1>1. ServiceTypeOK /\ PanesOK
  BY ScreenParts DEF ServiceParts, AnsweringInv
<1> DEFINE c == [op |-> "mkdir", path |-> [dir |-> cwd, name |-> n], id |-> NextId]
<1>2. c \in Commands /\ c.id = NextId /\ c.op = "mkdir"
  <2>1. [dir |-> cwd, name |-> n] \in RemotePaths
    BY <1>1 DEF PanesOK, RemotePaths
  <2> QED
    BY <1>1, <2>1, CommandsOf
<1>3. /\ UNCHANGED workerEnd /\ Post(<<c>>) /\ input' = FALSE
      /\ UNCHANGED <<connecting, active, queue, cwd, remote, local, report, misread>>
  BY DEF MakeRemote
<1> HIDE DEF c
<1>4. SendsNoTransfer(<<c>>)
  BY <1>1, <1>2, <1>3, PostsOne DEF SendsNoTransfer
<1>5. /\ input' \in BOOLEAN /\ local' \subseteq Names /\ cwd' \in RemoteDirs
      /\ remote' \in [names : SUBSET Names, truncated : BOOLEAN]
  BY <1>1, <1>3 DEF PanesOK
<1> QED
  BY <1>3, <1>4, <1>5, KeyKeeps

\* A batch of marked entries, of which none was considered yet.
LEMMA SendKeeps ==
    ASSUME ScreenInv, NEW dest \in Sides, NEW marked \in SUBSET Names, Send(dest, marked)
    PROVE  ScreenInv'
<1>1. ServiceParts /\ PanesOK /\ ServiceTypeOK
  BY ScreenParts DEF ServiceParts, AnsweringInv
<1> DEFINE q == [dest |-> dest, dir |-> IF dest = "local" THEN LocalDir ELSE cwd,
                 items |-> SetToSeq(marked), at |-> 1, skipped |-> {},
                 tried |-> {}, landed |-> {}, esc |-> FALSE]
<1>2. /\ active = 0 /\ ~connecting /\ marked # {} /\ StartNext(q)
      /\ UNCHANGED <<workerEnd, connecting, input, cwd, remote, misread>>
  BY DEF Send, Idle
<1>3. Considered(q)
  <2>1. SetToSeq(marked) \in Seq(Names) /\ Len(SetToSeq(marked)) > 0
    BY <1>2, SentInOrder
  <2>2. (IF dest = "local" THEN LocalDir ELSE cwd) \in RemoteDirs \cup {LocalDir}
    BY <1>1 DEF PanesOK
  <2>3. q \in Queues
    BY <2>1, <2>2 DEF Queues
  <2>4. Len(SetToSeq(marked)) \in Nat
    BY <2>1
  <2>5. q.at = 1 /\ q.items = SetToSeq(marked) /\ q.skipped = {} /\ q.tried = {} /\ q.landed = {}
    OBVIOUS
  <2> HIDE DEF q
  <2>6. q.at \in 1 .. Len(q.items) + 1
    BY <2>4, <2>5
  <2>7. Accounted(q, q.at - 1)
    BY <2>5 DEF Accounted
  <2> QED
    BY <2>3, <2>6, <2>7 DEF Considered
<1> HIDE DEF q
<1>4. ScreenMoves /\ events' = events
  BY <1>1, <1>2 DEF ScreenMoves, Drains, workerEnd, ServiceTypeOK, PanesOK
<1>5. \A cmds : Sends(cmds) => Settled
  BY <1>1, <1>2, <1>4, IdleIsSettled
<1>6. ~connecting' /\ remote' \in [names : SUBSET Names, truncated : BOOLEAN]
  BY <1>1, <1>2 DEF PanesOK
<1> QED
  BY <1>2, <1>3, <1>4, <1>5, <1>6, StartNextKeeps

LEMMA KeysKeep ==
    ASSUME ScreenInv, Keys
    PROVE  ScreenInv'
<1>1. PanesOK
  BY ScreenParts
<1>2. \A side \in Sides : Listed(side) \subseteq Names
  BY <1>1 DEF PanesOK, Listed
<1>3. ASSUME NEW dest \in Sides,
             NEW marked \in SUBSET Listed(IF dest = "local" THEN "remote" ELSE "local"),
             Send(dest, marked)
      PROVE  ScreenInv'
  <2>1. marked \in SUBSET Names
    BY <1>2 DEF Sides
  <2> QED
    BY <1>3, <2>1, SendKeeps
<1>4. ASSUME NEW d \in RemoteDirs, Navigate(d) PROVE ScreenInv'
  BY <1>4, NavigateKeeps
<1>5. ASSUME NEW n \in Names, MakeRemote(n) PROVE ScreenInv'
  BY <1>5, MakeRemoteKeeps
<1>6. CASE Esc
  BY <1>6, EscKeeps
<1>7. CASE BrowseLocal \/ OpenInput \/ CloseInput
  BY <1>7, SilentKeyKeeps
<1> QED
  BY <1>3, <1>4, <1>5, <1>6, <1>7 DEF Keys

\* The event that is drained.
LEMMA FirstEvent ==
    ASSUME ServiceParts, NEW kinds, Arrives(kinds)
    PROVE  /\ Drains /\ events # <<>> /\ events' = Tail(events)
           /\ UNCHANGED <<deferred, hungUp, closing, worker, serving, cancelSeen>>
           /\ Head(events) = events[1] /\ 1 \in 1 .. Len(events)
           /\ events[1] \in Events /\ events[1].ev \in kinds /\ Fits(events[1])
           /\ events[1].id \in Nat
<1>1. /\ events \in Seq(Events) /\ Len(events) \in Nat
      /\ \A i \in 1 .. Len(events) : events[i] \in Events /\ events[i].id \in Nat
  <2>1. AnsweringInv
    BY DEF ServiceParts
  <2>2. \A i \in 1 .. Len(events) : events[i].id \in 0 .. Len(posted) /\ Len(posted) \in Nat
    BY <2>1, NumbersAreBounded
  <2> QED
    BY <2>1, <2>2, NumbersAreBounded
<1>2. /\ events # <<>> /\ Head(events).ev \in kinds /\ events' = Tail(events)
      /\ UNCHANGED <<deferred, hungUp, closing, worker, serving, cancelSeen>>
  BY DEF Arrives
<1>3. Head(events) = events[1] /\ 1 \in 1 .. Len(events)
  BY <1>1, <1>2
<1>4. Fits(events[1])
  BY <1>3 DEF ServiceParts, KindsInv
<1> QED
  BY <1>1, <1>2, <1>3, <1>4 DEF Drains

\* An event that is no answer to a transfer, or that comes when there is none,
\* leaves the flight alone.
LEMMA OtherEventKeeps ==
    ASSUME ScreenInv, NEW kinds, Arrives(kinds),
           active = 0 \/ kinds \cap {"done", "skipped", "error", "cancelled"} = {},
           NEW cmds, SendsNoTransfer(cmds),
           UNCHANGED <<active, queue, misread, local, report, input>>,
           connecting' \in {connecting, FALSE}, cwd' \in RemoteDirs,
           remote' \in [names : SUBSET Names, truncated : BOOLEAN]
    PROVE  ScreenInv'
<1>1. ServiceParts /\ PanesOK /\ FlightOK /\ ServiceTypeOK
  BY ScreenParts DEF ServiceParts, AnsweringInv
<1>2. /\ Drains /\ events # <<>> /\ events' = Tail(events)
      /\ UNCHANGED <<deferred, hungUp, closing, worker, serving, cancelSeen>>
      /\ 1 \in 1 .. Len(events) /\ events[1].ev \in kinds /\ Fits(events[1])
      /\ events \in Seq(Events)
  BY <1>1, FirstEvent, NumbersAreBounded DEF ServiceParts
<1>3. events' # events
  <2>1. Len(events') = Len(events) - 1 /\ Len(events) \in Nat
    BY <1>2
  <2> QED
    BY <2>1
<1>4. ScreenMoves
  <2>1. hungUp' \in BOOLEAN /\ closing' \in BOOLEAN
    BY <1>1, <1>2 DEF ServiceTypeOK
  <2>2. connecting' = connecting \/ connecting' = FALSE
    OBVIOUS
  <2>3. connecting \in BOOLEAN /\ (connecting' = connecting => connecting' \in BOOLEAN)
    BY <1>1 DEF PanesOK
  <2>4. connecting' \in BOOLEAN /\ (connecting' => connecting)
    BY <2>2, <2>3
  <2>5. misread => misread'
    OBVIOUS
  <2> QED
    BY <1>2, <1>3, <2>1, <2>4, <2>5 DEF ScreenMoves
<1>5. PanesOK'
  BY <1>1 DEF PanesOK
<1>6. active = 0 \/ (events[1].id # active /\ events[1].ev # "cancelled")
  BY <1>1, <1>2 DEF FlightOK, Fits
<1> QED
  BY <1>4, <1>5, <1>6, QuietStepKeeps

LEMMA DrainReadyKeeps ==
    ASSUME ScreenInv, DrainReady
    PROVE  ScreenInv'
<1>1. ServiceParts /\ PanesOK /\ ServiceTypeOK
  BY ScreenParts DEF ServiceParts, AnsweringInv
<1> DEFINE d == Head(events).dir
<1>2. /\ Arrives({"ready"}) /\ connecting' = FALSE /\ cwd' = d /\ remote' = Blank
      /\ UNCHANGED <<active, queue, input, local, report, misread>>
  BY DEF DrainReady
<1>3. Post(<<List(d)>>)
  BY DEF DrainReady, List
<1>4. d \in RemoteDirs
  <2>1. Head(events) \in Events /\ Head(events).ev = "ready"
    BY <1>1, <1>2, FirstEvent
  <2> QED
    BY <2>1 DEF Events
<1> HIDE DEF d
<1>5. List(d) \in Commands /\ List(d).id = NextId /\ List(d).op = "list"
  BY <1>1, <1>4, CommandsOf DEF List
<1>6. SendsNoTransfer(<<List(d)>>)
  BY <1>1, <1>3, <1>5, PostsOne DEF SendsNoTransfer
<1>7. remote' \in [names : SUBSET Names, truncated : BOOLEAN] /\ cwd' \in RemoteDirs
  BY <1>2, <1>4 DEF Blank
<1> QED
  BY <1>2, <1>6, <1>7, OtherEventKeeps

LEMMA DrainPaneKeeps ==
    ASSUME ScreenInv, DrainNotReady \/ DrainListing
    PROVE  ScreenInv'
<1>1. ServiceParts /\ PanesOK
  BY ScreenParts
<1>2. /\ \E kinds \in {{"notReady"}, {"listing"}} : Arrives(kinds)
      /\ UNCHANGED <<active, queue, input, cwd, local, report, misread>>
      /\ connecting' \in {connecting, FALSE} /\ Silent
  BY DEF DrainNotReady, DrainListing
<1>3. SendsNoTransfer(<<>>)
  BY <1>2, PostsNothing DEF SendsNoTransfer
<1>4. remote' \in [names : SUBSET Names, truncated : BOOLEAN]
  <2>1. CASE DrainNotReady
    BY <2>1 DEF DrainNotReady, Blank
  <2>2. CASE DrainListing
    <3>1. Head(events) \in Events /\ Head(events).ev = "listing"
      BY <1>1, <2>2, FirstEvent DEF DrainListing
    <3>2. Head(events).names \in SUBSET Names /\ Head(events).truncated \in BOOLEAN
      BY <3>1 DEF Events
    <3> QED
      BY <1>1, <2>2, <3>2 DEF DrainListing, PanesOK
  <2> QED
    BY <2>1, <2>2
<1>5. cwd' \in RemoteDirs
  BY <1>1, <1>2 DEF PanesOK
<1> QED
  BY <1>2, <1>3, <1>4, <1>5, OtherEventKeeps

LEMMA DrainMkdirKeeps ==
    ASSUME ScreenInv, DrainMkdir
    PROVE  ScreenInv'
<1>1. ServiceParts /\ PanesOK /\ ServiceTypeOK
  BY ScreenParts DEF ServiceParts, AnsweringInv
<1>2. /\ Arrives({"mkdirDone", "mkdirFailed"})
      /\ UNCHANGED <<connecting, active, queue, input, cwd, remote, local, report, misread>>
      /\ Post(<<List(cwd)>>) \/ Silent
  BY DEF DrainMkdir
<1>3. List(cwd) \in Commands /\ List(cwd).id = NextId /\ List(cwd).op = "list"
  BY <1>1, CommandsOf DEF List, PanesOK
<1>4. \E cmds : SendsNoTransfer(cmds)
  BY <1>1, <1>2, <1>3, PostsOne, PostsNothing DEF SendsNoTransfer
<1>5. remote' \in [names : SUBSET Names, truncated : BOOLEAN] /\ cwd' \in RemoteDirs
  BY <1>1, <1>2 DEF PanesOK
<1> QED
  BY <1>2, <1>4, <1>5, OtherEventKeeps

\* What is drained was the last of the transfer in flight.
LEMMA LastOfIt ==
    ASSUME ServiceParts, ScreenMoves, events # <<>>, events' = Tail(events), NEW cmds, Sends(cmds),
           ~misread' => active = 0 \/ ~Outstanding
    PROVE  Settled
<1>1. \A id : Answered(id)' => Answered(id)
  BY MovesKeep DEF ServiceParts
<1>2. /\ DOMAIN posted = 1 .. Len(posted) /\ Len(posted) \in Nat
      /\ events \in Seq(Events) /\ Len(events) \in Nat
  BY NumbersAreBounded DEF ServiceParts
<1>3. /\ DOMAIN events' = 1 .. Len(events')
      /\ \A i \in 1 .. Len(events') : i + 1 \in 2 .. Len(events) /\ events'[i] = events[i + 1]
  <2>1. /\ events' \in Seq(Events) /\ Len(events') = Len(events) - 1
        /\ \A i \in 1 .. Len(events') : events'[i] = events[i + 1]
    BY <1>2, HeadTailProperties
  <2> QED
    BY <1>2, <2>1
<1> SUFFICES ASSUME ~misread', NEW id \in 1 .. Len(posted), posted[id] = "transfer",
                    Waiting(id) \/ Answered(id)'
             PROVE  FALSE
  BY DEF Settled
<1>4. id = active
  BY <1>1, <1>2 DEF ServiceParts, OneTransferAtATime, ScreenMoves
<1>5. ~Outstanding
  BY <1>2, <1>4
<1>6. Answered(id)'
  BY <1>4, <1>5 DEF Outstanding
<1>7. PICK i \in 1 .. Len(events') : events'[i].id = id
  BY <1>3, <1>6 DEF Answered
<1> QED
  BY <1>3, <1>4, <1>5, <1>7 DEF Outstanding

\* The item at `at` landed or was skipped.
LEMMA SteppedIsConsidered ==
    ASSUME InFlight(queue), NEW e, ~misread /\ e.ev # "skipped" => e.id = active
    PROVE  Considered(Stepped(e))
<1> DEFINE r == Stepped(e)
<1>1. /\ queue \in Queues /\ queue.at \in Nat /\ Len(queue.items) \in Nat
      /\ queue.at \in 1 .. Len(queue.items)
      /\ queue.skipped \subseteq Nat /\ queue.landed \subseteq Nat
  BY QueueTypes DEF InFlight, Queues
<1>2. /\ queue.skipped \subseteq 1 .. queue.at - 1 /\ queue.landed \subseteq 1 .. queue.at - 1
      /\ queue.skipped \cap queue.landed = {}
      /\ queue.tried \cup queue.skipped = 1 .. queue.at
      /\ ~misread => queue.landed \cup queue.skipped = 1 .. queue.at - 1
  BY DEF InFlight, Accounted
<1>3. /\ 1 .. queue.at = (1 .. queue.at - 1) \cup {queue.at} /\ queue.at \notin 1 .. queue.at - 1
      /\ queue.at + 1 - 1 = queue.at /\ queue.at + 1 \in 1 .. Len(queue.items) + 1
  BY <1>1
<1>4. CASE e.ev = "skipped"
  <2>1. r = [queue EXCEPT !.at = @ + 1, !.skipped = @ \cup {queue.at}]
    BY <1>4 DEF Stepped
  <2>2. r \in Queues
    <3>1. queue.at + 1 \in Nat /\ queue.skipped \cup {queue.at} \in SUBSET Nat
      BY <1>1
    <3>2. \A n \in Nat, S \in SUBSET Nat : [queue EXCEPT !.at = n, !.skipped = S] \in Queues
      BY <1>1 DEF Queues
    <3>3. r = [queue EXCEPT !.at = queue.at + 1, !.skipped = queue.skipped \cup {queue.at}]
      BY <2>1
    <3> QED
      BY <3>1, <3>2, <3>3
  <2>3. /\ r.at = queue.at + 1 /\ r.skipped = queue.skipped \cup {queue.at}
        /\ r.landed = queue.landed /\ r.tried = queue.tried /\ r.items = queue.items
    BY <1>1, <2>1 DEF Queues
  <2> HIDE DEF r
  <2>4. Accounted(r, queue.at)
    BY <1>2, <1>3, <2>3 DEF Accounted
  <2> QED
    BY <1>3, <2>2, <2>3, <2>4 DEF Considered, r
<1>5. CASE e.ev # "skipped"
  <2> DEFINE more == IF e.id = active THEN queue.landed \cup {queue.at} ELSE queue.landed
  <2>1. r = [queue EXCEPT !.at = @ + 1, !.landed = more]
    BY <1>5 DEF Stepped
  <2>2. /\ more \subseteq queue.landed \cup {queue.at} /\ more \in SUBSET Nat
        /\ ~misread => more = queue.landed \cup {queue.at}
    BY <1>1, <1>5
  <2> HIDE DEF more
  <2>3. r \in Queues
    <3>1. \A n \in Nat, S \in SUBSET Nat : [queue EXCEPT !.at = n, !.landed = S] \in Queues
      BY <1>1 DEF Queues
    <3>2. queue.at + 1 \in Nat /\ r = [queue EXCEPT !.at = queue.at + 1, !.landed = more]
      BY <1>1, <2>1
    <3> QED
      BY <2>2, <3>1, <3>2
  <2>4. /\ r.at = queue.at + 1 /\ r.skipped = queue.skipped
        /\ r.landed = more /\ r.tried = queue.tried /\ r.items = queue.items
    BY <1>1, <2>1 DEF Queues
  <2> HIDE DEF r
  <2>5. Accounted(r, queue.at)
    BY <1>2, <1>3, <2>2, <2>4 DEF Accounted
  <2> QED
    BY <1>3, <2>3, <2>4, <2>5 DEF Considered, r
<1> QED
  BY <1>4, <1>5

LEMMA DrainDoneKeeps ==
    ASSUME ScreenInv, DrainDone
    PROVE  ScreenInv'
<1>1. ServiceParts /\ PanesOK /\ FlightOK /\ ServiceTypeOK /\ AnsweringInv
  BY ScreenParts DEF ServiceParts, AnsweringInv
<1>2. /\ Arrives({"done", "skipped"}) /\ UNCHANGED <<connecting, input, cwd, remote, misread>>
      /\ IF queue = NoQueue THEN active' = 0 /\ UNCHANGED <<queue, local, report>> /\ Silent
         ELSE StartNext(Stepped(events[1]))
  BY <1>1, FirstEvent DEF DrainDone
<1>3. remote' \in [names : SUBSET Names, truncated : BOOLEAN] /\ cwd' \in RemoteDirs
  BY <1>1, <1>2 DEF PanesOK
<1>4. CASE queue = NoQueue
  <2>1. active = 0
    BY <1>1, <1>4, QueueTypes DEF FlightOK, InFlight
  <2>2. SendsNoTransfer(<<>>)
    BY <1>2, <1>4, PostsNothing DEF SendsNoTransfer
  <2> QED
    BY <1>2, <1>3, <1>4, <2>1, <2>2, OtherEventKeeps
<1>5. CASE queue # NoQueue
  <2>1. /\ active \in 1 .. Len(posted) /\ posted[active] = "transfer" /\ ~connecting
        /\ InFlight(queue) /\ StartNext(Stepped(events[1]))
    BY <1>1, <1>2, <1>5 DEF FlightOK
  <2>2. /\ Drains /\ events # <<>> /\ events' = Tail(events)
        /\ UNCHANGED <<deferred, hungUp, closing, worker, serving, cancelSeen>>
        /\ 1 \in 1 .. Len(events)
        /\ events[1].ev \in {"done", "skipped"} /\ Fits(events[1]) /\ events[1].id \in Nat
    BY <1>1, <1>2, FirstEvent
  <2>3. ScreenMoves
    BY <1>1, <1>2, <2>2 DEF ScreenMoves, ServiceTypeOK, PanesOK
  <2>4. /\ DOMAIN posted = 1 .. Len(posted) /\ Len(posted) \in Nat
        /\ DOMAIN events = 1 .. Len(events) /\ Len(events) \in Nat
        /\ \A i \in 1 .. Len(events) : events[i].id \in 0 .. Len(posted)
    BY <1>1, NumbersAreBounded
  <2>5. ~misread => events[1].id = active
    <3>1. events[1].id > 0 /\ posted[events[1].id] = "transfer"
      BY <2>2 DEF Fits
    <3>2. events[1].id \in DOMAIN posted /\ Answered(events[1].id)
      BY <2>2, <2>4, <3>1 DEF Answered
    <3> QED
      BY <1>1, <3>1, <3>2 DEF ServiceParts, OneTransferAtATime
  <2>6. ~misread => ~Outstanding
    <3> SUFFICES ASSUME ~misread PROVE ~Outstanding
      OBVIOUS
    <3>1. events[1].id = active /\ active # 0 /\ Answered(active)
      BY <2>1, <2>2, <2>4, <2>5 DEF Answered
    <3>2. ~Waiting(active)
      BY <1>1, <3>1, AnsweredWaitsNot
    <3>3. ASSUME NEW i \in 2 .. Len(events), events[i].id = active PROVE FALSE
      <4>1. i \in DOMAIN events /\ 1 \in DOMAIN events /\ i # 1
        BY <2>2, <2>4
      <4> QED
        BY <1>1, <3>1, <3>3, <4>1 DEF AnsweringInv, AnsweredOnce
    <3> QED
      BY <3>2, <3>3 DEF Outstanding
  <2>7. \A cmds : Sends(cmds) => Settled
    BY <1>1, <1>2, <2>2, <2>3, <2>6, LastOfIt
  <2>8. Considered(Stepped(events[1]))
    BY <2>1, <2>5, SteppedIsConsidered
  <2> QED
    BY <1>2, <1>3, <2>1, <2>3, <2>7, <2>8, StartNextKeeps
<1> QED
  BY <1>4, <1>5

\* A cancel or a failure that the screen takes for the end of its transfer.
LEMMA StopKeeps ==
    ASSUME ScreenInv, NEW kinds, Arrives(kinds), StopsQueue,
           UNCHANGED <<connecting, input, cwd, remote>>
    PROVE  ScreenInv'
<1>1. /\ ServiceParts /\ PanesOK /\ FlightOK /\ TrueReport(report) /\ ServiceTypeOK
      /\ ScreenTypeOK /\ QueueInv
  BY ScreenParts DEF ServiceParts, AnsweringInv, ScreenInv
<1>2. /\ Drains /\ events # <<>> /\ events' = Tail(events)
      /\ UNCHANGED <<deferred, hungUp, closing, worker, serving, cancelSeen>>
  BY <1>1, FirstEvent
<1>3. StopQueue /\ misread' = (misread \/ (active # 0 /\ EndsNothing))
  BY DEF StopsQueue
<1>4. ScreenMoves
  BY <1>1, <1>2, <1>3 DEF ScreenMoves, ServiceTypeOK, PanesOK
<1>5. /\ QueueEnds /\ TrueReport(report') /\ local' \subseteq Names
      /\ \E cmds : SendsNoTransfer(cmds)
  BY <1>1, <1>3, StopDoes
<1>6. PICK cmds : SendsNoTransfer(cmds)
  BY <1>5
<1>7. Settled
  <2>1. ~misread' => active = 0 \/ ~Outstanding
    BY <1>3 DEF EndsNothing
  <2> QED
    BY <1>1, <1>2, <1>4, <1>6, <2>1, LastOfIt DEF SendsNoTransfer
<1>8. ServiceParts'
  BY <1>1, <1>4, <1>5, <1>6, <1>7, EndKeeps DEF QueueEnds
<1>9. PanesOK'
  BY <1>1, <1>3, <1>5 DEF PanesOK
<1>10. FlightOK'
  BY <1>5 DEF FlightOK, QueueEnds
<1>11. TrueReport(report)'
  BY <1>3, <1>5 DEF TrueReport
<1> QED
  BY <1>8, <1>9, <1>10, <1>11, ScreenParts, PTL

LEMMA DrainErrorKeeps ==
    ASSUME ScreenInv, DrainError
    PROVE  ScreenInv'
<1>1. CASE active # 0
  BY <1>1, StopKeeps DEF DrainError
<1>2. CASE active = 0
  <2>1. PanesOK
    BY ScreenParts
  <2>2. /\ Arrives({"error"}) /\ remote' = Blank /\ Silent
        /\ UNCHANGED <<active, queue, local, report, misread, connecting, input, cwd>>
    BY <1>2 DEF DrainError
  <2>3. SendsNoTransfer(<<>>)
    BY <2>2, PostsNothing DEF SendsNoTransfer
  <2>4. remote' \in [names : SUBSET Names, truncated : BOOLEAN] /\ cwd' \in RemoteDirs
    BY <2>1, <2>2 DEF PanesOK, Blank
  <2> QED
    BY <1>2, <2>2, <2>3, <2>4, OtherEventKeeps
<1> QED
  BY <1>1, <1>2

LEMMA DrainKeeps ==
    ASSUME ScreenInv, Drain
    PROVE  ScreenInv'
<1>1. CASE DrainCancelled
  BY <1>1, StopKeeps DEF DrainCancelled
<1> QED
  BY <1>1, DrainReadyKeeps, DrainPaneKeeps, DrainMkdirKeeps, DrainDoneKeeps, DrainErrorKeeps DEF Drain

-----------------------------------------------------------------------------
(***************************************************************************)
(* The theorems.                                                           *)
(***************************************************************************)
LEMMA ScreenStarts == ScreenInit => ScreenInv
<1> SUFFICES ASSUME ScreenInit PROVE ScreenInv
  OBVIOUS
<1>1. /\ AnsweringInv /\ events = <<>> /\ posted = <<>>
      /\ connecting = TRUE /\ active = 0 /\ queue = NoQueue /\ input = FALSE
      /\ cwd = Root /\ remote = Blank /\ local \subseteq Names /\ report = Quiet /\ misread = FALSE
  BY InitAnswers DEF ScreenInit, ServiceInit
<1>2. PanesOK
  BY <1>1, WorkerAssumption DEF PanesOK, Blank
<1>3. ServiceParts
  <2>1. DOMAIN posted = 1 .. 0 /\ Len(events) = 0
    BY <1>1
  <2> QED
    BY <1>1, <2>1 DEF ServiceParts, KindsInv, OpeningInv, OneTransferAtATime, WaitsForAnAnswer
<1>4. FlightOK /\ TrueReport(report)
  BY <1>1 DEF FlightOK, TrueReport, Quiet
<1> QED
  BY <1>2, <1>3, <1>4, ScreenParts

LEMMA ScreenStep == ScreenInv /\ [Next]_vars => ScreenInv'
<1> SUFFICES ASSUME ScreenInv, [Next]_vars PROVE ScreenInv'
  OBVIOUS
<1>1. CASE Keys
  BY <1>1, KeysKeep
<1>2. CASE Drain
  BY <1>2, DrainKeeps
<1>3. CASE (Session \/ Children) /\ UNCHANGED screenVars
  BY <1>3, WorkerEndKeeps
<1>4. CASE (Close \/ HangUp) /\ UNCHANGED screenVars
  BY <1>4, ClosingKeeps
<1>5. CASE UNCHANGED vars
  <2>1. ServiceParts /\ PanesOK /\ ServiceTypeOK
    BY ScreenParts DEF ServiceParts, AnsweringInv
  <2>2. /\ UNCHANGED workerEnd /\ Silent
        /\ UNCHANGED <<connecting, active, queue, input, cwd, remote, local, report, misread>>
    BY <1>5 DEF vars, serviceVars, channel, screenEnd, screenVars, workerEnd, Silent
  <2>3. SendsNoTransfer(<<>>)
    BY <2>2, PostsNothing DEF SendsNoTransfer
  <2>4. /\ input' \in BOOLEAN /\ local' \subseteq Names /\ cwd' \in RemoteDirs
        /\ remote' \in [names : SUBSET Names, truncated : BOOLEAN]
    BY <2>1, <2>2 DEF PanesOK
  <2> QED
    BY <2>2, <2>3, <2>4, KeyKeeps
<1> QED
  BY <1>1, <1>2, <1>3, <1>4, <1>5 DEF Next

THEOREM ScreenInvariant == Spec => []ScreenInv
  BY ScreenStarts, ScreenStep, PTL DEF Spec

\* Every reachable state of the screen and its worker is well typed: in
\* particular a queue's position is always one of its items (start_next).
THEOREM ScreenTypeCorrect == Spec => []ScreenTypeOK
<1>1. ScreenInv => ScreenTypeOK
  BY DEF ScreenInv
<1> QED
  BY <1>1, ScreenInvariant, PTL

\* While no event was mistaken for another, no transfer but the one in flight
\* waits, runs or has an unread answer (start_next, on_event).
THEOREM OneTransferOnly == Spec => []OneTransferAtATime
<1>1. ScreenInv => OneTransferAtATime
  BY DEF ScreenInv
<1> QED
  BY <1>1, ScreenInvariant, PTL

\* What the status line says was sent was answered Done, and what it says was
\* not sent was never handed to the worker, for batches of any length
\* (finish_queue, stop_queue, refuse_queue).
THEOREM SummariesAreTrue == Spec => []SummaryTrue
<1>1. ScreenInv => SummaryTrue
  BY DEF ScreenInv
<1> QED
  BY <1>1, ScreenInvariant, PTL

\* As long as the worker serves, what the screen waits for can still come: no
\* Cancel takes the transfer along unanswered (poll_stop, on_key).
THEOREM AnswersCanCome == Spec => []WaitsForAnAnswer
<1>1. ScreenInv => WaitsForAnAnswer
  BY DEF ScreenInv
<1> QED
  BY <1>1, ScreenInvariant, PTL

=============================================================================
