---------------------------- MODULE GatewayTurns ----------------------------
(***************************************************************************)
(* One chat lane of the gateway over its durable inbound spool: a platform *)
(* message is spooled, dispatched, and then consumed, steered into the     *)
(* running turn or queued as a turn of its own; the turn runs the agent    *)
(* loop, delivers its answer and settles its row.  The process may be      *)
(* killed between any two steps or shut down gracefully; the next boot     *)
(* replays what is owed.                                                   *)
(*                                                                         *)
(* Lanes share no row, so one lane is modelled: its SessionLane queue, its *)
(* running turn, and the dispatches on their way to it.  The singleton     *)
(* lock admits one gateway process at a time.                              *)
(***************************************************************************)
EXTENDS InboundSpool, Sequences

CONSTANTS
    Sort,         \* Sort[m]: "plain", "retry" (exactly that word), or "stop"
    MaxAttempts,  \* spoolMaxAttempts
    MaxCrashes,   \* bound on kills
    MaxShutdowns, \* bound on graceful shutdowns
    MaxThrows,    \* bound on turns that throw
    MaxOps        \* bound on the operator's requeues and discards

ASSUME TurnsAssumption ==
    /\ Sort \in [Message -> {"plain", "retry", "stop"}]
    /\ MaxAttempts \in Nat \ {0}
    /\ {MaxCrashes, MaxShutdowns, MaxThrows, MaxOps} \subseteq Nat

VARIABLES
    \* Durable: the spool, and the rows some ledger obligation names.
    rows,
    obliged,
    \* The gateway process.
    phase,     \* "down", "up", "closing" (shutdown began), "aborted" (lanes too)
    owner,     \* spoolOwner: a fresh identity per process
    recovered, \* orphansRecovered
    watched,   \* the lane is in interruptedLanes
    replaying, \* the replay loop runs
    visited,   \* rows this replay has dealt with
    inbox,     \* handleMessage calls that have not reached the lane yet
    queue,     \* the lane's queued turns
    turn,      \* the lane's running turn
    \* What really happened, and what bounds it.
    replied,   \* messages some recorded reply answers
    asked,     \* messages the user or an operator asked to run again
    excused,   \* messages the user or an operator gave up, or was told of
    acted,     \* messages a tool has run for, unless re-run was asked for
    told,      \* told[r]: the last row there was when r was interrupted
    astray,    \* messages that entered one of the known loss windows
    kills,     \* kills[r]: processes killed while running r
    spent      \* crashes, shutdowns, throws and operations so far

memory  == <<phase, owner, recovered, watched, replaying, visited, inbox, queue, turn>>
history == <<replied, asked, excused, acted, told, astray, kills, spent>>
vars == <<rows, obliged, memory, history>>

Closing == phase \in {"closing", "aborted"}

\* A message on its way to a turn: its row and the text it runs with.
Task == [row: Row, text: SUBSET Message]

\* A handleMessage call: `intr` is the interrupted row it found on its lane,
\* `loop` says that the replay loop waits for it to be queued.
Call == [row: Row, text: SUBSET Message, intr: Row \cup {None}, loop: BOOLEAN]

\* The running turn: `unread` holds the steers no seam has drained, `send` how
\* far the delivery of its answer got.
Idle == [row |-> None, text |-> {}, stage |-> "idle", unread |-> <<>>,
         tool |-> FALSE, aborted |-> FALSE, answered |-> FALSE, send |-> "none"]

Turn == [row: Row \cup {None}, text: SUBSET Message,
         stage: {"idle", "running", "tail"}, unread: Seq(Task),
         tool: BOOLEAN, aborted: BOOLEAN, answered: BOOLEAN,
         send: {"none", "due", "recorded", "settled"}]

TaskSet(tasks) == {tasks[i] : i \in DOMAIN tasks}
TextOf(tasks) == UNION {tasks[i].text : i \in DOMAIN tasks}

\* What a message says decides how dispatchInbound treats it.
Says(text, sort) == \E m \in Message : text = {m} /\ Sort[m] = sort

Counters == {"crash", "shutdown", "throw", "operate"}
Spend(kind, max) == spent[kind] < max /\ spent' = [spent EXCEPT ![kind] = @ + 1]

\* Every variable has its type; a process that is down remembers nothing.
TypeOK ==
    /\ rows \in [Row -> RowType]
    /\ obliged \subseteq Row
    /\ phase \in {"down", "up", "closing", "aborted"}
    /\ owner \in Nat
    /\ {recovered, watched, replaying} \subseteq BOOLEAN
    /\ visited \subseteq Row
    /\ inbox \subseteq Call
    /\ queue \in Seq(Task)
    /\ turn \in Turn
    /\ {replied, asked, excused, acted, astray} \subseteq SUBSET Message
    /\ told \in [Row -> Row \cup {None}]
    /\ kills \in [Row -> Nat]
    /\ spent \in [Counters -> Nat]
    /\ phase = "down" => /\ inbox = {} /\ queue = <<>> /\ turn = Idle
                         /\ ~replaying

Init ==
    /\ rows = [r \in Row |-> NoRow]
    /\ obliged = {}
    /\ phase = "up" /\ owner = 1
    /\ recovered = FALSE /\ watched = FALSE /\ replaying = FALSE
    /\ visited = {} /\ inbox = {} /\ queue = <<>> /\ turn = Idle
    /\ replied = {} /\ asked = {} /\ excused = {} /\ acted = {} /\ astray = {}
    /\ told = [r \in Row |-> None]
    /\ kills = [r \in Row |-> 0]
    /\ spent = [k \in Counters |-> 0]

-----------------------------------------------------------------------------
(* Arrival *)

\* pendingInterrupted: the lane's interrupted row, if the lane is watched.
Pending(rs) ==
    IF watched /\ Retryable(rs) # {} THEN Retryable(rs) ELSE {None}

Accepted(m) == \E r \in Row : rows[r].key = m

\* A redelivered message finds its row and changes nothing, so only the first
\* delivery is an action.  During a replay the row is left for the loop.
Receive(m) ==
    /\ phase = "up"
    /\ ~Accepted(m)
    /\ NextRow(rows) \in Row
    /\ LET r == NextRow(rows)
       IN /\ rows' = Insert(rows, m, {m}, IF replaying THEN None ELSE owner)
          /\ IF replaying THEN UNCHANGED <<inbox, watched>>
             ELSE /\ \E i \in Pending(rows) :
                       inbox' = inbox \cup {[row |-> r, text |-> {m}, intr |-> i,
                                             loop |-> FALSE]}
                  /\ watched' = (watched /\ Retryable(rows) # {})
    /\ UNCHANGED <<obliged, phase, owner, recovered, replaying, visited, queue,
                   turn, history>>

-----------------------------------------------------------------------------
(* Dispatch *)

\* settleInterrupted for a message that is no retry: the row it found is closed.
Discarded(c) == IF c.intr = None THEN rows ELSE Discard(rows, c.intr)
GivenUp(c) == UNION {rows[r].text : r \in {q \in Row : Discarded(c)[q] # rows[q]}}

IsRetry(c) == c.intr # None /\ Says(c.text, "retry")

\* The message becomes a turn of its own: no turn takes steers, the sink is
\* full, or it says /queue.
EnqueueTurn(c) ==
    /\ ~IsRetry(c) /\ ~Says(c.text, "stop")
    /\ inbox' = inbox \ {c}
    /\ rows' = Discarded(c)
    /\ excused' = excused \cup GivenUp(c)
    /\ queue' = Append(queue, [row |-> c.row, text |-> c.text])
    /\ UNCHANGED <<obliged, phase, owner, recovered, watched, replaying, visited,
                   turn, replied, asked, acted, told, astray, kills, spent>>

\* The message is folded into the running turn, and its row with it.
Steer(c) ==
    /\ ~IsRetry(c) /\ ~Says(c.text, "stop")
    /\ turn.stage = "running"
    /\ inbox' = inbox \ {c}
    /\ rows' = MarkAbsorbed(Discarded(c), c.row, turn.row)
    /\ turn' = [turn EXCEPT !.unread = Append(@, [row |-> c.row, text |-> c.text])]
    /\ excused' = excused \cup GivenUp(c)
    /\ astray' = astray \cup (c.text \ rows[c.row].text)
                        \cup (IF turn.aborted /\ ~Closing THEN c.text ELSE {})
    /\ UNCHANGED <<obliged, phase, owner, recovered, watched, replaying, visited,
                   queue, replied, asked, acted, told, kills, spent>>

\* Consumed without a turn: the safety filter, a clarify answer, a command, a
\* full lane.  Some of these come before the interrupted row is settled.
Consume(c) ==
    /\ ~IsRetry(c) /\ ~Says(c.text, "stop")
    /\ inbox' = inbox \ {c}
    /\ \/ /\ rows' = MarkDone(Discarded(c), c.row)
          /\ excused' = excused \cup GivenUp(c) \cup c.text
       \/ /\ rows' = MarkDone(rows, c.row)
          /\ excused' = excused \cup c.text
    /\ UNCHANGED <<obliged, phase, owner, recovered, watched, replaying, visited,
                   queue, turn, replied, asked, acted, told, astray, kills, spent>>

\* `retry`: its own row closes and the interrupted turn re-enters handleMessage
\* under a fresh row, refused there (and left owed) once shutdown began.  A
\* second retry of the same row finds it gone and is consumed.
Retry(c) ==
    /\ IsRetry(c)
    /\ IF rows[c.intr].status = "interrupted"
       THEN /\ NextRow(rows) \in Row
            /\ LET text  == FoldedText(rows, c.intr)
                   fresh == NextRow(rows)
                   after == MarkDone(RetryInterrupted(rows, c.intr, owner), c.row)
               IN /\ rows' = after
                  /\ IF Closing
                     THEN inbox' = inbox \ {c} /\ watched' = watched
                     ELSE /\ \E i \in Pending(after) :
                               inbox' = (inbox \ {c}) \cup
                                 {[row |-> fresh, text |-> text, intr |-> i,
                                   loop |-> FALSE]}
                          /\ watched' = (watched /\ Retryable(after) # {})
                  /\ acted' = acted \ text
                  /\ asked' = asked \cup text
       ELSE /\ rows' = MarkDone(rows, c.row)
            /\ inbox' = inbox \ {c}
            /\ UNCHANGED <<watched, acted, asked>>
    /\ excused' = excused \cup c.text
    /\ UNCHANGED <<obliged, phase, owner, recovered, replaying, visited, queue,
                   turn, replied, told, astray, kills, spent>>

RowsOf(tasks) == {tasks[i].row : i \in DOMAIN tasks}

\* settleUnstartedSpool for every queued turn: markDone on each of their rows.
CloseAll(rs, tasks) ==
    [r \in Row |->
        IF \E q \in RowsOf(tasks) : MarkDone(rs, q)[r] # rs[r]
        THEN [rs[r] EXCEPT !.status = "done", !.text = {}] ELSE rs[r]]

\* /stop discards the interrupted row like any other message, aborts the
\* running turn and drops what is queued; dropped turns close unless shutdown
\* began.
Stop(c) ==
    /\ Says(c.text, "stop")
    /\ inbox' = inbox \ {c}
    /\ queue' = <<>>
    /\ turn' = IF turn.stage = "idle" THEN turn ELSE [turn EXCEPT !.aborted = TRUE]
    /\ rows' = MarkDone(IF Closing THEN Discarded(c) ELSE CloseAll(Discarded(c), queue),
                        c.row)
    /\ excused' = excused \cup GivenUp(c) \cup c.text \cup turn.text
                     \cup TextOf(turn.unread) \cup TextOf(queue)
    /\ UNCHANGED <<obliged, phase, owner, recovered, watched, replaying, visited,
                   replied, asked, acted, told, astray, kills, spent>>

Dispatch(c) == EnqueueTurn(c) \/ Steer(c) \/ Consume(c) \/ Retry(c) \/ Stop(c)

-----------------------------------------------------------------------------
(* The turn *)

\* The head of the lane takes a slot; its row becomes `processing`.
StartTurn ==
    /\ phase # "down" /\ turn.stage = "idle" /\ queue # <<>>
    /\ queue' = Tail(queue)
    /\ turn' = [Idle EXCEPT !.row = Head(queue).row, !.text = Head(queue).text,
                            !.stage = "running"]
    /\ rows' = MarkProcessing(rows, Head(queue).row, owner)
    /\ UNCHANGED <<obliged, phase, owner, recovered, watched, replaying, visited,
                   inbox, history>>

\* The bot's daily cap: the turn is refused and its row closed.
RefuseAtCap ==
    /\ phase # "down" /\ turn.stage = "idle" /\ queue # <<>>
    /\ queue' = Tail(queue)
    /\ rows' = MarkDone(rows, Head(queue).row)
    /\ excused' = excused \cup Head(queue).text
    /\ UNCHANGED <<obliged, phase, owner, recovered, watched, replaying, visited,
                   inbox, turn, replied, asked, acted, told, astray, kills, spent>>

\* The turn's first tool_start.
StartTool ==
    /\ turn.stage = "running" /\ ~turn.tool
    /\ turn' = [turn EXCEPT !.tool = TRUE]
    /\ rows' = MarkToolStarted(rows, turn.row)
    /\ acted' = acted \cup turn.text
    /\ UNCHANGED <<obliged, phase, owner, recovered, watched, replaying, visited,
                   inbox, queue, replied, asked, excused, told, astray, kills, spent>>

\* A seam of the agent loop drains the steer sink.
ReadSteers ==
    /\ turn.stage = "running" /\ turn.unread # <<>>
    /\ turn' = [turn EXCEPT !.text = @ \cup TextOf(turn.unread), !.unread = <<>>]
    /\ acted' = acted \cup (IF turn.tool THEN TextOf(turn.unread) ELSE {})
    /\ UNCHANGED <<rows, obliged, phase, owner, recovered, watched, replaying,
                   visited, inbox, queue, replied, asked, excused, told, astray,
                   kills, spent>>

\* unlinkSteer for every steer no seam read.
UnlinkAll(rs, tasks) ==
    [r \in Row |-> IF r \in RowsOf(tasks) THEN UnlinkAbsorbed(rs, r)[r] ELSE rs[r]]

\* The terminal event: the sink is unhooked, unread steers become turns of
\* their own unless the turn was aborted or shutdown began, and the delivery of
\* the answer starts unless the turn was aborted.
Terminal ==
    /\ turn.stage = "running"
    /\ LET requeued == ~turn.aborted /\ ~Closing
       IN /\ rows' = IF requeued THEN UnlinkAll(rows, turn.unread) ELSE rows
          /\ queue' = IF requeued THEN queue \o turn.unread ELSE queue
          /\ turn' = [turn EXCEPT !.stage = "tail",
                        !.unread = IF requeued THEN <<>> ELSE @,
                        !.send = IF turn.aborted THEN "settled" ELSE "due"]
          /\ astray' = astray \cup (IF turn.aborted THEN {} ELSE TextOf(turn'.unread))
    /\ UNCHANGED <<obliged, phase, owner, recovered, watched, replaying, visited,
                   inbox, replied, asked, excused, acted, told, kills, spent>>

\* beginDelivery: the obligation is durable before the platform call.
RecordReply ==
    /\ turn.send = "due"
    /\ turn' = [turn EXCEPT !.send = "recorded"]
    /\ obliged' = obliged \cup {turn.row}
    /\ replied' = replied \cup turn.text
    /\ UNCHANGED <<rows, phase, owner, recovered, watched, replaying, visited,
                   inbox, queue, asked, excused, acted, told, astray, kills, spent>>

\* The platform call ends; an unconfirmed one leaves the ledger to redeliver.
SendReply ==
    /\ turn.send = "recorded"
    /\ \E ok \in BOOLEAN :
         turn' = [turn EXCEPT !.send = "settled", !.answered = ok]
    /\ UNCHANGED <<rows, obliged, phase, owner, recovered, watched, replaying,
                   visited, inbox, queue, history>>

\* Rows that became interrupted in this step are noticed to the user.
Notice(rs) ==
    told' = [r \in Row |-> IF rs[r].status = "interrupted" /\ rows[r].status # "interrupted"
                           THEN Cardinality(Used(rows)) ELSE told[r]]

\* finishSpoolTurn.  A shutdown is recognised by the abort signal, whoever
\* raised it.
Settled(rs, threw) ==
    LET shutdown == Closing /\ turn.aborted /\ ~turn.answered
    IN IF shutdown /\ ~turn.tool THEN ReleaseOnShutdown(rs, turn.row)
       ELSE IF shutdown THEN MarkInterrupted(rs, turn.row)
       ELSE IF threw /\ ~turn.answered THEN MarkFailed(rs, turn.row, MaxAttempts)
       ELSE MarkDone(rs, turn.row)

EndTurn(rs) ==
    /\ rows' = rs
    /\ turn' = Idle
    /\ watched' = (watched \/ (rs[turn.row].status = "interrupted"))
    /\ Notice(rs)

\* Delivery and tail are over.  Steers that could not be requeued are unlinked
\* if the turn answered while shutting down, and else follow their turn's row.
FinishTurn ==
    /\ turn.stage = "tail" /\ turn.send = "settled"
    /\ EndTurn(Settled(IF Closing /\ turn.answered THEN UnlinkAll(rows, turn.unread)
                       ELSE rows, FALSE))
    /\ UNCHANGED <<obliged, phase, owner, recovered, replaying, visited, inbox,
                   queue, replied, asked, excused, acted, astray, kills, spent>>

\* The loop throws before its terminal event, or the delivery before its record.
ThrowTurn ==
    /\ turn.stage = "running" \/ turn.send = "due"
    /\ Spend("throw", MaxThrows)
    /\ EndTurn(Settled(rows, TRUE))
    /\ UNCHANGED <<obliged, phase, owner, recovered, replaying, visited, inbox,
                   queue, replied, asked, excused, acted, astray, kills>>

-----------------------------------------------------------------------------
(* Shutdown, crash, boot *)

BeginShutdown ==
    /\ phase = "up" /\ Spend("shutdown", MaxShutdowns)
    /\ phase' = "closing"
    /\ UNCHANGED <<rows, obliged, owner, recovered, watched, replaying, visited,
                   inbox, queue, turn, replied, asked, excused, acted, told,
                   astray, kills>>

\* Once the notices are out (or timed out) every lane is aborted; the rows of
\* the queued turns stay owed.
AbortLanes ==
    /\ phase = "closing"
    /\ phase' = "aborted"
    /\ queue' = <<>>
    /\ turn' = IF turn.stage = "idle" THEN turn ELSE [turn EXCEPT !.aborted = TRUE]
    /\ UNCHANGED <<rows, obliged, owner, recovered, watched, replaying, visited,
                   inbox, history>>

\* Everything the process remembers is gone.
Gone ==
    /\ phase' = "down"
    /\ recovered' = FALSE /\ watched' = FALSE /\ replaying' = FALSE
    /\ visited' = {} /\ inbox' = {} /\ queue' = <<>> /\ turn' = Idle
    /\ UNCHANGED <<rows, obliged, owner, replied, asked, excused, acted, told,
                   astray>>

\* The process leaves once its turns unwound, or the drain bound expired.
Exit ==
    /\ phase = "aborted"
    /\ Gone
    /\ UNCHANGED <<kills, spent>>

Crash ==
    /\ phase # "down" /\ Spend("crash", MaxCrashes)
    /\ Gone
    /\ kills' = IF turn.stage = "idle" THEN kills
                ELSE [kills EXCEPT ![turn.row] = @ + 1]

\* A kill between the spool row and the durable sighting, inside acceptInbound.
CrashInAccept(m) ==
    /\ phase = "up" /\ ~replaying
    /\ ~Accepted(m) /\ NextRow(rows) \in Row
    /\ Spend("crash", MaxCrashes)
    /\ rows' = Insert(rows, m, {m}, owner)
    /\ phase' = "down"
    /\ recovered' = FALSE /\ watched' = FALSE /\ visited' = {}
    /\ inbox' = {} /\ queue' = <<>> /\ turn' = Idle
    /\ kills' = IF turn.stage = "idle" THEN kills
                ELSE [kills EXCEPT ![turn.row] = @ + 1]
    /\ UNCHANGED <<obliged, owner, replaying, replied, asked, excused, acted, told, astray>>

Boot ==
    /\ phase = "down"
    /\ phase' = "up"
    /\ owner' = owner + 1
    /\ UNCHANGED <<rows, obliged, recovered, watched, replaying, visited, inbox,
                   queue, turn, history>>

-----------------------------------------------------------------------------
(* Replay *)

\* replayInboundSpool: at boot, and on every tick that finds something to do.
BeginReplay ==
    /\ phase = "up" /\ ~replaying
    /\ ~recovered \/ Replayable(rows) # {}
    /\ replaying' = TRUE
    /\ recovered' = TRUE
    /\ IF recovered THEN UNCHANGED <<rows, watched>>
       ELSE /\ rows' = RecoverOrphans(rows, owner)
            /\ watched' = (watched \/ \E r \in Row : rows[r].status = "interrupted")
    /\ UNCHANGED <<obliged, phase, owner, visited, inbox, queue, turn, history>>

Unvisited == Replayable(rows) \ visited

\* The lane's rows one after the other: the loop waits until one is queued.
NextToReplay(r) ==
    /\ replaying
    /\ ~\E c \in inbox : c.loop
    /\ r \in Unvisited
    /\ \A s \in Unvisited : r <= s
    /\ visited' = visited \cup {r}

\* Too old to answer: dead-lettered, and the lane is told.
ReplayStale(r) ==
    /\ NextToReplay(r)
    /\ rows' = MarkDead(rows, r)
    /\ UNCHANGED <<obliged, phase, owner, recovered, watched, replaying, inbox,
                   queue, turn, history>>

\* hasObligationFor: the ledger holds a reply to this row.
NeverAnswered(r) == FALSE
Answered(r) == r \in obliged

\* The row closes and the ledger owns the delivery.
ReplayAnswered(r) ==
    /\ NextToReplay(r)
    /\ Answered(r)
    /\ rows' = MarkDone(Claim(rows, r, owner), r)
    /\ UNCHANGED <<obliged, phase, owner, recovered, watched, replaying, inbox,
                   queue, turn, history>>

\* A tool had started: the row waits for the user.
ReplayInterrupted(r) ==
    /\ NextToReplay(r)
    /\ ~Answered(r)
    /\ rows[r].tool
    /\ rows' = MarkInterrupted(Claim(rows, r, owner), r)
    /\ watched' = TRUE
    /\ Notice(rows')
    /\ UNCHANGED <<obliged, phase, owner, recovered, replaying, inbox, queue, turn,
                   replied, asked, excused, acted, astray, kills, spent>>

\* Its attempts are used up: the turn kept killing the process.
ReplayExhausted(r) ==
    /\ NextToReplay(r)
    /\ ~Answered(r)
    /\ ~rows[r].tool /\ rows[r].attempts >= MaxAttempts
    /\ rows' = MarkFailed(MarkProcessing(Claim(rows, r, owner), r, owner), r, MaxAttempts)
    /\ UNCHANGED <<obliged, phase, owner, recovered, watched, replaying, inbox,
                   queue, turn, history>>

\* handleMessage again, with the absorbed steers folded in; refused, and left
\* claimed, once shutdown began.
ReplayTurn(r) ==
    /\ NextToReplay(r)
    /\ ~Answered(r)
    /\ ~rows[r].tool /\ rows[r].attempts < MaxAttempts
    /\ rows' = Claim(rows, r, owner)
    /\ IF Closing THEN UNCHANGED <<inbox, watched>>
       ELSE /\ \E i \in Pending(rows) :
                 inbox' = inbox \cup {[row |-> r, text |-> FoldedText(rows, r),
                                       intr |-> i, loop |-> TRUE]}
            /\ watched' = (watched /\ Retryable(rows) # {})
    /\ UNCHANGED <<obliged, phase, owner, recovered, replaying, queue, turn, history>>

ReplayRow(r) == \/ ReplayStale(r) \/ ReplayAnswered(r) \/ ReplayInterrupted(r)
                \/ ReplayExhausted(r) \/ ReplayTurn(r)

EndReplay ==
    /\ replaying /\ Unvisited = {}
    /\ ~\E c \in inbox : c.loop
    /\ replaying' = FALSE
    /\ visited' = {}
    /\ UNCHANGED <<rows, obliged, phase, owner, recovered, watched, inbox,
                   queue, turn, history>>

-----------------------------------------------------------------------------
(* The operator's `ethos gateway spool`, beside the gateway or while it is down *)

Replay(r) ==
    /\ rows[r].status \in {"dead", "interrupted"}
    /\ Spend("operate", MaxOps)
    /\ rows' = Requeue(rows, r)
    /\ LET text == UNION {rows[c].text : c \in {d \in Row : rows'[d] # rows[d]}}
       IN /\ acted' = acted \ text
          /\ asked' = asked \cup text
    /\ kills' = [c \in Row |-> IF rows'[c] # rows[c] THEN 0 ELSE kills[c]]
    /\ UNCHANGED <<obliged, memory, replied, excused, told, astray>>

Drop(r) ==
    /\ rows[r].status \in {"dead", "interrupted"}
    /\ Spend("operate", MaxOps)
    /\ rows' = Discard(rows, r)
    /\ excused' = excused \cup UNION {rows[c].text : c \in {d \in Row : rows'[d] # rows[d]}}
    /\ UNCHANGED <<obliged, memory, replied, asked, acted, told, astray, kills>>

-----------------------------------------------------------------------------
TurnStep == StartTurn \/ RefuseAtCap \/ StartTool \/ ReadSteers \/ Terminal
            \/ RecordReply \/ SendReply \/ FinishTurn \/ ThrowTurn

Next ==
    \/ \E m \in Message : Receive(m) \/ CrashInAccept(m)
    \/ \E c \in inbox : Dispatch(c)
    \/ TurnStep
    \/ BeginShutdown \/ AbortLanes \/ Exit \/ Crash \/ Boot
    \/ BeginReplay \/ EndReplay
    \/ \E r \in Row : ReplayRow(r) \/ Replay(r) \/ Drop(r)

Spec == Init /\ [][Next]_vars

\* The process runs its callbacks; the agent loop ends (its iteration caps and
\* timeouts); platform calls return; a supervisor restarts the gateway; the
\* replay tick keeps firing.  Nothing is assumed of users, crashes or seams.
Fairness ==
    /\ \A r \in Row : WF_vars(\E c \in inbox : c.row = r /\ Dispatch(c))
    /\ WF_vars(StartTurn) /\ WF_vars(Terminal)
    /\ WF_vars(RecordReply) /\ WF_vars(SendReply) /\ WF_vars(FinishTurn)
    /\ WF_vars(AbortLanes) /\ WF_vars(Exit) /\ WF_vars(Boot)
    /\ WF_vars(BeginReplay) /\ WF_vars(\E r \in Row : ReplayRow(r)) /\ WF_vars(EndReplay)

FairSpec == Spec /\ Fairness

-----------------------------------------------------------------------------
(* What a reviewer would ask of it *)

\* A message queued on the lane, or on its way there, is still owed on disk and
\* this process holds it; the running turn's row is `processing` under this
\* process.  (A row closed or replayed behind a queued task's back would be run
\* twice or lost.)
HeldRowsOwed ==
    /\ \A t \in inbox \cup TaskSet(queue) \cup TaskSet(turn.unread) :
         rows[t.row].status = "received" /\ rows[t.row].owner = owner
    /\ turn.stage # "idle" =>
         rows[turn.row].status = "processing" /\ rows[turn.row].owner = owner

OwedText == UNION {rows[r].text : r \in Row}

\* Every accepted message is answered by a recorded reply, given up by the user or an
\* operator, or still on disk to be run, retried or listed as dead.  NothingLost is not
\* kept as it stands, see the README.
Kept(m) == Accepted(m) => m \in replied \cup excused \cup OwedText
NothingLost == \A m \in Message : Kept(m)

\* The same, but for a message inside one of the windows through which the code
\* does lose messages: a steer left unread by a turn that ends while the gateway
\* is closing, text absorbed into a row that is itself steered, and a message
\* steered into a turn that /stop has aborted.
OnlyAstrayLost == \A m \in Message \ astray : Kept(m)

\* A turn never runs a tool-started message again by itself, but for a message that
\* went astray: text folded into a row that was steered elsewhere is in two rows' turns.
ToolsNotRepeated ==
    turn.stage = "running" /\ ~turn.tool => turn.text \cap acted \subseteq astray

\* A message is answered by one recorded reply, unless somebody asked again or it
\* went astray.
RepliedOnce ==
    [][obliged' # obliged => /\ turn.row \notin obliged
                             /\ turn.text \cap replied \subseteq asked \cup astray]_vars

\* A message kills at most MaxAttempts processes.
CrashLoopBounded == \A r \in Row : kills[r] <= MaxAttempts

\* Not kept, see the README: "A turn that had started a tool is NEVER replayed".
NeverReplayed == turn.stage = "running" /\ ~turn.tool => turn.text \cap acted = {}

\* Not kept, see the README: an interrupted row is closed for the sake of another
\* message only if that message came after the user was told.
InterruptedAwaitsUser ==
    [][\A r \in Row :
         /\ rows[r].status = "interrupted" /\ rows[r].into = None
         /\ rows'[r].status = "done" /\ inbox' # inbox
         => \E c \in inbox \ inbox' : c.row > told[r]]_vars

\* Whatever crashes, shutdowns and throws do, an owed row comes to an end: it is
\* settled, or waits for a person (interrupted, dead), or its turn threw and it
\* is held, unqueued, for the next boot.
Owed(r) == rows[r].status \in {"received", "processing"}
ForNextBoot(r) ==
    /\ rows[r].status = "received" /\ rows[r].owner = owner /\ rows[r].attempts > 0
    /\ \A t \in inbox \cup TaskSet(queue) : t.row # r
EventuallySettled == \A r \in Row : Owed(r) ~> (~Owed(r) \/ ForNextBoot(r))

==============================================================================
