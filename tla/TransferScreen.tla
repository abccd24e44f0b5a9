--------------------------- MODULE TransferScreen ---------------------------
(***************************************************************************)
(* The transfer screen of src/src/transfer/screen.rs with the worker       *)
(* behind it: keys post commands, and once per tick the screen drains the  *)
(* events that have arrived.  Both ends run at their own pace, so an event *)
(* may be drained long after the key that made it stale.                   *)
(*                                                                         *)
(* Selection, filter and marks are left to the choice of what a send       *)
(* takes; names on either disk come and go as they please.                 *)
(***************************************************************************)
EXTENDS WorkerService

CONSTANTS Folders, Symlinks   \* names that are folders, or symlinks, anywhere

ASSUME KindAssumption ==
    /\ IsFiniteSet(Names)
    /\ Folders \subseteq Names /\ Symlinks \subseteq Names /\ Folders \cap Symlinks = {}

VARIABLES
    connecting, \* the master is still being established
    active,     \* the transfer in flight (its command's number), 0 if none
    queue,      \* the batch send in progress
    input,      \* the new-directory input is open
    cwd,        \* the remote pane's directory
    remote,     \* the remote pane's listing
    local,      \* the local pane's listing
    report,     \* what the status line last said of a queue, and the truth
    misread     \* history: an event was taken for the end of a transfer that
                \* it did not end

screenVars == <<connecting, active, queue, input, cwd, remote, local, report, misread>>
vars == <<serviceVars, screenVars>>

Sides   == {"local", "remote"}
NoQueue == [items |-> <<>>]
Blank   == [names |-> {}, truncated |-> FALSE]    \* loading, or an error
Quiet   == [says |-> "nothing", claim |-> 0, truth |-> 0]

\* `at` is the item in flight or the next to consider; items are known by their
\* position.  Histories: which were handed to the worker (tried), which of those
\* it reported Done (landed), and whether Esc was pressed during the send.
Queues == [dest : Sides, dir : RemoteDirs \cup {LocalDir}, items : Seq(Names),
           at : Nat, skipped : SUBSET Nat, tried : SUBSET Nat, landed : SUBSET Nat,
           esc : BOOLEAN]

ScreenTypeOK ==
    /\ ServiceTypeOK
    /\ connecting \in BOOLEAN /\ input \in BOOLEAN /\ misread \in BOOLEAN
    /\ active \in Nat
    /\ queue = NoQueue \/ (queue \in Queues /\ queue.at \in DOMAIN queue.items)
    /\ cwd \in RemoteDirs
    /\ remote \in [names : SUBSET Names, truncated : BOOLEAN]
    /\ local \subseteq Names
    /\ report \in [says : {"nothing", "sent", "unsent"}, claim : Nat, truth : Nat]

ScreenInit ==
    /\ ServiceInit
    /\ connecting = TRUE /\ active = 0 /\ queue = NoQueue /\ input = FALSE
    /\ cwd = Root /\ remote = Blank
    /\ local \in SUBSET Names
    /\ report = Quiet
    /\ misread = FALSE

List(d)         == [op |-> "list", dir |-> d, id |-> NextId]
Transfer(j, id) == [op |-> "transfer", job |-> j, id |-> id]
Silent      == UNCHANGED <<rx, posted>>

Listed(side)  == IF side = "local" THEN local ELSE remote.names
CutShort(side) == side = "remote" /\ remote.truncated
-----------------------------------------------------------------------------
(***************************************************************************)
(* The queue.                                                              *)
(***************************************************************************)

\* refresh(): the local pane reads its directory at once, the remote one asks.
Refresh(side) ==
    \/ side = "remote" /\ Post(<<List(cwd)>>) /\ UNCHANGED local
    \/ side = "local" /\ local' \in SUBSET Names /\ Silent

\* Mutant: the queue is kept after its last item.
FinishKeepsQueue(q) ==
    /\ queue' = q /\ active' = 0
    /\ report' = Quiet
    /\ Refresh(q.dest)

\* finish_queue(): all the items were considered.
Finish(q) ==
    /\ queue' = NoQueue /\ active' = 0
    /\ report' = [says  |-> "sent",
                  claim |-> Len(q.items) - Cardinality(q.skipped),
                  truth |-> Cardinality(q.landed)]
    /\ Refresh(q.dest)

\* What a queue that ends early says of the items that never went.
Unsent(q, n) ==
    report' = [says  |-> "unsent", claim |-> n,
               truth |-> Cardinality((DOMAIN q.items) \ (q.skipped \cup q.tried))]

\* refuse_queue(): nothing is in flight, nothing moved.
Refuse(q) ==
    /\ queue' = NoQueue /\ active' = 0
    /\ Unsent(q, Len(q.items) + 1 - q.at)
    /\ UNCHANGED local /\ Silent

\* stop_queue(): a cancel or a failure ends the item in flight and the rest.
StopQueue ==
    /\ active' = 0 /\ queue' = NoQueue
    /\ IF queue = NoQueue THEN UNCHANGED <<local, report>> /\ Silent
       ELSE Unsent(queue, Len(queue.items) - queue.at) /\ Refresh(queue.dest)

Skipped(q, i) == q.items[i] \in Symlinks \cup Listed(q.dest)

\* The first item from `at` on that is not passed over.
NextAt(q) ==
    CHOOSE i \in q.at .. Len(q.items) + 1 :
        /\ \A k \in q.at .. i - 1 : Skipped(q, k)
        /\ i <= Len(q.items) => ~Skipped(q, i)

\* Item q.at goes to the worker, behind a fresh listing of the destination if
\* it is the directory the remote pane shows.
Start(q) ==
    LET job  == [path |-> [dir |-> q.dir, name |-> q.items[q.at]],
                 folder |-> q.items[q.at] \in Folders]
        list == IF q.dest = "remote" /\ q.dir = cwd THEN <<List(q.dir)>> ELSE <<>>
        id   == NextId + Len(list)
    IN  /\ queue' = [q EXCEPT !.tried = @ \cup {q.at}]
        /\ active' = id
        /\ Post(Append(list, Transfer(job, id)))
        /\ report' = Quiet
        /\ UNCHANGED local

StartNext(q) ==
    LET i == NextAt(q)
        r == [q EXCEPT !.at = i, !.skipped = @ \cup (q.at .. i - 1)]
    IN  \/ i > Len(q.items) /\ Finish(r)
        \/ /\ i <= Len(q.items) /\ q.items[i] \in Folders /\ CutShort(q.dest)
           /\ Refuse(r)
        \/ /\ i <= Len(q.items) /\ ~(q.items[i] \in Folders /\ CutShort(q.dest))
           /\ Start(r)
-----------------------------------------------------------------------------
(***************************************************************************)
(* Keys: on_key().  MaxCommands bounds the commands that keys post, but for *)
(* two more Escs.                                                          *)
(***************************************************************************)
KeysUpTo(n) == ~closing /\ Len(posted) < n
KeysLive    == KeysUpTo(MaxCommands)
workerEnd == <<deferred, hungUp, closing, worker, serving, events, cancelSeen>>

\* Mutant: the transfer counts as over when Esc is pressed.
EscAtOnce ==
    /\ KeysUpTo(MaxCommands + 2) /\ active # 0 /\ ~input
    /\ Post(<<[op |-> "cancel", id |-> NextId]>>)
    /\ queue' = NoQueue /\ active' = 0
    /\ report' = Quiet
    /\ UNCHANGED <<workerEnd, connecting, input, cwd, remote, local, misread>>

\* Esc while a transfer runs; every other key is dead then.
Esc ==
    /\ KeysUpTo(MaxCommands + 2) /\ active # 0 /\ ~input
    /\ Post(<<[op |-> "cancel", id |-> NextId]>>)
    /\ queue' = [queue EXCEPT !.esc = TRUE]
    /\ report' = Quiet
    /\ UNCHANGED <<workerEnd, connecting, active, input, cwd, remote, local, misread>>

\* With no transfer in flight a key first clears the status line.
Idle == KeysLive /\ active = 0 /\ ~input
Clear == report' = Quiet

\* Ctrl-s, or Enter on a file: the marked entries, or the selected one.
Send(dest, marked) ==
    /\ Idle /\ ~connecting
    /\ marked # {}
    /\ StartNext([dest |-> dest, dir |-> IF dest = "local" THEN LocalDir ELSE cwd,
                  items |-> SetToSeq(marked), at |-> 1, skipped |-> {},
                  tried |-> {}, landed |-> {}, esc |-> FALSE])
    /\ UNCHANGED <<workerEnd, connecting, input, cwd, remote, misread>>

\* Enter on a folder, or going up: the root holds every other directory.
Navigate(d) ==
    /\ Idle
    /\ d # cwd /\ (d = Root \/ (cwd = Root /\ remote.names # {}))
    /\ cwd' = d /\ remote' = Blank
    /\ Post(<<List(d)>>) /\ Clear
    /\ UNCHANGED <<workerEnd, connecting, active, queue, input, local, misread>>

BrowseLocal ==
    /\ Idle
    /\ local' \in SUBSET Names
    /\ Silent /\ Clear
    /\ UNCHANGED <<workerEnd, connecting, active, queue, input, cwd, remote, misread>>

OpenInput ==
    /\ Idle
    /\ input' = TRUE /\ Silent /\ Clear
    /\ UNCHANGED <<workerEnd, connecting, active, queue, cwd, remote, local, misread>>

\* Esc in the input, or a directory made on the local side.
CloseInput ==
    /\ ~closing /\ input
    /\ input' = FALSE /\ Silent
    /\ UNCHANGED local \/ local' \in SUBSET Names
    /\ UNCHANGED <<workerEnd, connecting, active, queue, cwd, remote, report, misread>>

MakeRemote(n) ==
    /\ KeysLive /\ input /\ ~connecting
    /\ n \notin remote.names
    /\ input' = FALSE
    /\ Post(<<[op |-> "mkdir", path |-> [dir |-> cwd, name |-> n], id |-> NextId]>>)
    /\ UNCHANGED <<workerEnd, connecting, active, queue, cwd, remote, local, report, misread>>

Keys ==
    \/ Esc \/ BrowseLocal \/ OpenInput \/ CloseInput
    \/ \E dest \in Sides : \E marked \in SUBSET Listed(IF dest = "local" THEN "remote" ELSE "local") :
          Send(dest, marked)
    \/ \E d \in RemoteDirs : Navigate(d)
    \/ \E n \in Names : MakeRemote(n)
-----------------------------------------------------------------------------
(***************************************************************************)
(* Events: drain_events(), one at a time.                                  *)
(***************************************************************************)
Arrives(kinds) ==
    /\ ~closing
    /\ events # <<>> /\ Head(events).ev \in kinds
    /\ events' = Tail(events)
    /\ UNCHANGED <<deferred, hungUp, closing, worker, serving, cancelSeen>>

DrainReady ==
    /\ Arrives({"ready"})
    /\ connecting' = FALSE
    /\ cwd' = Head(events).dir /\ remote' = Blank
    /\ Post(<<List(cwd')>>)
    /\ UNCHANGED <<active, queue, input, local, report, misread>>

DrainNotReady ==
    /\ Arrives({"notReady"})
    /\ connecting' = FALSE /\ remote' = Blank
    /\ Silent
    /\ UNCHANGED <<active, queue, input, cwd, local, report, misread>>

\* A listing of a directory the pane has left is ignored.
DrainListing ==
    /\ Arrives({"listing"})
    /\ remote' = IF Head(events).dir # cwd THEN remote
                 ELSE [names |-> Head(events).names, truncated |-> Head(events).truncated]
    /\ Silent
    /\ UNCHANGED <<connecting, active, queue, input, cwd, local, report, misread>>

\* Mutant: an item that was skipped counts as sent.
SteppedAll(e) == [queue EXCEPT !.at = @ + 1,
                               !.landed = IF e.ev = "done" THEN @ \cup {queue.at} ELSE @]

\* Whose answer it is the screen cannot tell: it steps its own queue.
Stepped(e) ==
    IF e.ev = "skipped"
    THEN [queue EXCEPT !.at = @ + 1, !.skipped = @ \cup {queue.at}]
    ELSE [queue EXCEPT !.at = @ + 1,
                       !.landed = IF e.id = active THEN @ \cup {queue.at} ELSE @]

DrainDone ==
    /\ Arrives({"done", "skipped"})
    /\ IF queue = NoQueue THEN active' = 0 /\ UNCHANGED <<queue, local, report>> /\ Silent
       ELSE StartNext(Stepped(Head(events)))
    /\ UNCHANGED <<connecting, input, cwd, remote, misread>>

\* The transfer in flight may still move bytes, or has an answer of its own.
Outstanding == Waiting(active) \/ \E i \in 2 .. Len(events) : events[i].id = active

EndsNothing == Outstanding \/ (Head(events).ev = "error" /\ Head(events).id # active)

StopsQueue ==
    /\ StopQueue
    /\ misread' = (misread \/ (active # 0 /\ EndsNothing))

DrainCancelled ==
    /\ Arrives({"cancelled"})
    /\ StopsQueue
    /\ UNCHANGED <<connecting, input, cwd, remote>>

\* A failed listing and a failed transfer are the same event.
DrainError ==
    /\ Arrives({"error"})
    /\ \/ active # 0 /\ StopsQueue /\ UNCHANGED remote
       \/ active = 0 /\ remote' = Blank /\ Silent /\ UNCHANGED <<active, queue, local, report, misread>>
    /\ UNCHANGED <<connecting, input, cwd>>

\* A directory created where the pane still is gets listed.
DrainMkdir ==
    /\ Arrives({"mkdirDone", "mkdirFailed"})
    /\ IF Head(events).ev = "mkdirDone" /\ Head(events).path.dir = cwd
       THEN Post(<<List(cwd)>>) ELSE Silent
    /\ UNCHANGED <<connecting, active, queue, input, cwd, remote, local, report, misread>>

Drain == DrainReady \/ DrainNotReady \/ DrainListing \/ DrainDone \/ DrainCancelled
         \/ DrainError \/ DrainMkdir

Next ==
    \/ Keys \/ Drain
    \/ (Session \/ Children \/ Close \/ HangUp) /\ UNCHANGED screenVars

Spec == ScreenInit /\ [][Next]_vars

\* The event loop drains on every tick; the user need never press a key.
FairSpec == Spec /\ ServiceFairness /\ WF_vars(Drain)
-----------------------------------------------------------------------------
(***************************************************************************)
(* Properties.                                                             *)
(***************************************************************************)

\* docs/transfer.md: "One transfer runs at a time: a batch is a queue, not
\* parallel copies": no transfer waits, runs or has an unread answer but the
\* one in flight; unless an event had been taken for the end of another.
OneTransferAtATime ==
    ~misread => \A id \in DOMAIN posted :
        posted[id] = "transfer" /\ (Waiting(id) \/ Answered(id)) => id = active

\* The summary tells the truth: "sent n" of transfers that were answered Done,
\* "n not sent" of items the worker was never given (finish_queue, stop_queue,
\* refuse_queue).
SummaryTrue == ~misread => report.claim = report.truth

\* The transfer in flight is waiting, or answered, or went with a Cancel that
\* is answered: what the screen waits for can still come.
Reachable ==
    \/ Waiting(active) \/ Answered(active)
    \/ \E i \in DOMAIN events : events[i].ev = "cancelled"

\* As long as the worker serves and no event was mistaken for another, the
\* screen never waits for an answer that cannot come (the purge of poll_stop
\* is always answered with a Cancelled).
WaitsForAnAnswer ==
    active # 0 /\ worker \notin {"teardown", "gone"} /\ ~misread => Reachable

\* Esc always ends the item it was pressed for, even if its copy hangs: it is
\* the only key that does anything then.
EscEndsItem ==
    \A id \in 1 .. MaxCommands + 2 :
        (active = id /\ \E c \in DOMAIN posted : c > id /\ posted[c] = "cancel")
            ~> (active # id \/ closing \/ misread)

=============================================================================
