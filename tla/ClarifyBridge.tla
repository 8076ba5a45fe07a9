---------------------------- MODULE ClarifyBridge ----------------------------
(***************************************************************************)
(* Questions an agent asks a person in the middle of a turn: the bridge of *)
(* each agent loop with its lanes, queues, timers and reconcile poll, and  *)
(* the one file of pending questions that all bridges share.               *)
(*                                                                         *)
(* A write of the file is a read of the whole of it, a write of the whole  *)
(* of it, and the continuation of whoever awaited it; a bridge does one    *)
(* write at a time, two bridges know nothing of each other.  A read of the *)
(* file and what follows it up to the next await is one step.              *)
(*                                                                         *)
(* Time is abstract: the deadline of a question that was shown passes at   *)
(* some moment.                                                            *)
(***************************************************************************)
EXTENDS Naturals, Sequences, FiniteSets, SequencesExt

CONSTANTS
    Bridge,       \* one per agent loop; several share a process or a machine
    Questions,    \* bound on the requests made; they are numbered by createdAt
    Lane,         \* the jobs and sessions that ask
    None,
    AskedOn,      \* AskedOn[q]: the bridge whose agent asks q
    LaneOf,       \* LaneOf[q]: the job or session q belongs to
    Presents,     \* Presents[b]: the questions whose surface b has a presenter for
    MaxReplies,   \* bound on replies of people and aborts of turns
    MaxCrashes,   \* bound on crashes
    MaxHydrates   \* calls of hydrate() in one life of a bridge

Question == 1..Questions
Reply    == {"answer", "cancel"}
Response == Reply \cup {"timeout"}

ASSUME ClarifyAssumption ==
    /\ Questions \in Nat
    /\ None \notin Question /\ None \notin Response
    /\ AskedOn \in [Question -> Bridge]
    /\ LaneOf \in [Question -> Lane]
    /\ Presents \in [Bridge -> SUBSET Question]
    /\ \A q \in Question : q \in Presents[AskedOn[q]]
    /\ {MaxReplies, MaxCrashes} \subseteq Nat /\ MaxHydrates \in Nat \ {0}

VARIABLES
    file,       \* pending.json: the row of each question
    due,        \* questions whose deadline has passed
    mem,        \* what each bridge holds in memory
    snap,       \* the file as each bridge's write in progress read it, if it did
    asker,      \* what the agent that asked has: nothing yet, a response, or its end
    aborted,    \* questions whose turn was aborted
    \* What really happened.
    prompts,    \* times each bridge gave its surface the question
    told,       \* questions whose answer was reported resolved to who sent it
    clobbered,  \* questions whose row a write took back to an older snapshot
    replies, crashes

vars == <<file, due, mem, snap, asker, aborted, prompts, told, clobbered,
          replies, crashes>>
askers == <<asker, aborted>>
ghosts == <<prompts, told, clobbered>>
bounds == <<replies, crashes>>

Row      == [at : {"absent", "queued", "shown"}, answer : Reply \cup {None}]
Op       == [kind : {"add", "show", "settle", "answer", "reap"}, q : Question,
             response : Response \cup {None}, live : BOOLEAN]
Memory   == [up : BOOLEAN, hydrates : 0..MaxHydrates,
             pending : SUBSET Question,   \* this.pending
             live    : SUBSET Question,   \* ... of those, the ones request() awaits
             armed   : SUBSET Question,   \* a timer runs
             occupant : [Lane -> Question \cup {None}],
             waiting  : [Lane -> Seq(Question)],
             ops      : Seq(Op)]          \* writes under the store's mutex

Absent == [at |-> "absent", answer |-> None]
Blank  == [q \in Question |-> Absent]
NoSnap == <<>>
Empty(isUp) ==
    [up |-> isUp, hydrates |-> 0, pending |-> {}, live |-> {}, armed |-> {},
     occupant |-> [l \in Lane |-> None], waiting |-> [l \in Lane |-> <<>>], ops |-> <<>>]

TypeOK ==
    /\ file \in [Question -> Row]
    /\ mem \in [Bridge -> Memory]
    /\ snap \in [Bridge -> {NoSnap} \cup {<<f>> : f \in [Question -> Row]}]
    /\ asker \in [Question -> Response \cup {"unasked", "asking", "died"}]
    /\ {due, aborted, told, clobbered} \subseteq SUBSET Question
    /\ prompts \in [Question -> [Bridge -> Nat]]
    /\ {replies, crashes} \subseteq Nat
    /\ \A b \in Bridge : snap[b] # NoSnap => mem[b].ops # <<>>

Init ==
    /\ file = Blank
    /\ due = {}
    /\ mem = [b \in Bridge |-> Empty(TRUE)]
    /\ snap = [b \in Bridge |-> NoSnap]
    /\ asker = [q \in Question |-> "unasked"]
    /\ aborted = {}
    /\ prompts = [q \in Question |-> [b \in Bridge |-> 0]]
    /\ told = {}
    /\ clobbered = {}
    /\ replies = 0
    /\ crashes = 0

-----------------------------------------------------------------------------
(* The bridge's methods, as functions of its memory m.                     *)

\* FileClarifyStore.mutate: the write joins the bridge's mutex.
Push(m, kind, q, r) ==
    [m EXCEPT !.ops = Append(@, [kind |-> kind, q |-> q, response |-> r,
                                 live |-> q \in m.live])]

\* The lane is taken at once; the timer and the prompt wait for the write.
PresentNow(m, q) ==
    IF q \in m.pending THEN Push([m EXCEPT !.occupant[LaneOf[q]] = q], "show", q, None)
    ELSE m

DrainLane(m, l) ==
    IF m.occupant[l] # None \/ m.waiting[l] = <<>> THEN m
    ELSE PresentNow([m EXCEPT !.waiting[l] = Tail(@)], Head(m.waiting[l]))

\* respond() where the question is pending: it leaves the map and its timer
\* stops; its lane stays taken until the row is gone.
StartRespond(m, q, r) ==
    [Push(m, "settle", q, r) EXCEPT
        !.pending = @ \ {q}, !.live = @ \ {q}, !.armed = @ \ {q}]

\* respond() where it is not: the answer is written on the row, if the read finds
\* a row without one.
Respond(m, q, r) ==
    IF q \in m.pending THEN StartRespond(m, q, r)
    ELSE IF file[q].at # "absent" /\ file[q].answer = None THEN Push(m, "answer", q, r)
    ELSE m

\* request() once its row is on disk: queue or present, then look at the signal.
Register(m, q) ==
    LET l == LaneOf[q]
        kept == [m EXCEPT !.pending = @ \cup {q}, !.live = @ \cup {q}]
        placed == IF m.occupant[l] # None THEN [kept EXCEPT !.waiting[l] = Append(@, q)]
                  ELSE PresentNow(kept, q)
    IN IF q \in aborted THEN StartRespond(placed, q, "cancel") ELSE placed

\* queue.indexOf and splice.
Leave(queue, q) ==
    LET first == {i \in DOMAIN queue : queue[i] = q /\ \A j \in 1..i - 1 : queue[j] # q}
    IN IF first = {} THEN queue ELSE RemoveAt(queue, CHOOSE i \in first : TRUE)

Freed(m, q) == [m EXCEPT !.waiting[LaneOf[q]] = Leave(@, q),
                         !.occupant[LaneOf[q]] = IF @ = q THEN None ELSE @]

\* A bug the runs must notice: the lane is freed and nobody presented.
FreesOnly(m, q) == Freed(m, q)

\* The rest of respond() once the row is gone.
FreeLane(m, q) == DrainLane(Freed(m, q), LaneOf[q])

\* hydrate(): rows that this bridge can present and does not hold, oldest first;
\* one that was shown goes on waiting for its deadline, the others queue.  Two bugs
\* the runs must notice: queued rows are left behind, shown ones are queued.
OnlyShown(m, b, q) == file[q].at = "shown" /\ q \in Presents[b] \ m.pending
Owned(m, b, q) == file[q].at # "absent" /\ q \in Presents[b] \ m.pending

ShowsAgain(q) == FALSE
WasShown(q) == file[q].at = "shown"

\* The ways to put a set of numbers in a row: all of them, and oldest first.
Rows(S)     == {s \in [1..Cardinality(S) -> S] : \A i, j \in DOMAIN s : s[i] = s[j] => i = j}
InOrder(S)  == {s \in Rows(S) : \A i, j \in DOMAIN s : i < j => s[i] < s[j]}

Adopted(m, b, l) == {q \in Question : Owned(m, b, q) /\ LaneOf[q] = l}
Shown(m, b, l)   == {q \in Adopted(m, b, l) : WasShown(q)}

Lists(m, b, shown, queue) ==
    \A l \in Lane : /\ shown[l] \in InOrder(Shown(m, b, l))
                    /\ queue[l] \in InOrder(Adopted(m, b, l) \ Shown(m, b, l))

\* The rows are in the map and in their lanes; shown[l] and queue[l] list those that
\* were shown and those that were not.
Adopt(m, b, shown, queue) ==
    [m EXCEPT !.hydrates = @ + 1,
              !.pending = @ \cup UNION {Adopted(m, b, l) : l \in Lane},
              !.armed = @ \cup UNION {Shown(m, b, l) : l \in Lane},
              !.occupant = [l \in Lane |-> IF shown[l] = <<>> THEN @[l] ELSE Last(shown[l])],
              !.waiting = [l \in Lane |-> @[l] \o queue[l]]]

\* A bug the runs must notice: a lane is drained though a question occupies it.
DrainsBusy(m, b, adopted) ==
    {l \in Lane : Adopted(m, b, l) # {} /\ adopted.waiting[l] # <<>>}

\* The lanes of these rows that nobody has and someone waits for; of those, the lanes
\* whose next one is still in the map.
Drained(m, b, adopted) ==
    {l \in Lane : /\ Adopted(m, b, l) # {} /\ adopted.occupant[l] = None
                  /\ adopted.waiting[l] # <<>>}
Callers(adopted, ls) == {l \in ls : Head(adopted.waiting[l]) \in adopted.pending}

\* drainLane for the lanes ls, which present in this order.
DrainLanes(m, ls, order) ==
    [m EXCEPT !.occupant = [l \in Lane |-> IF l \in Range(order) THEN Head(m.waiting[l])
                                           ELSE @[l]],
              !.waiting = [l \in Lane |-> IF l \in ls THEN Tail(@[l]) ELSE @[l]],
              !.ops = @ \o [i \in DOMAIN order |->
                               [kind |-> "show", q |-> Head(m.waiting[order[i]]),
                                response |-> None,
                                live |-> Head(m.waiting[order[i]]) \in m.live]]]

-----------------------------------------------------------------------------
(* The store.                                                              *)

\* What a write makes of the rows it is given; an update of a row that is gone does
\* nothing.
Patched(rows, op) ==
    CASE op.kind = "add" -> [rows EXCEPT ![op.q] = [at |-> "queued", answer |-> None]]
      [] op.kind = "show" /\ rows[op.q].at # "absent" -> [rows EXCEPT ![op.q].at = "shown"]
      [] op.kind = "answer" /\ rows[op.q].at # "absent" ->
           [rows EXCEPT ![op.q].answer = op.response]
      [] op.kind \in {"settle", "reap"} -> [rows EXCEPT ![op.q] = Absent]
      [] OTHER -> rows

ReadFile(b) ==
    /\ mem[b].ops # <<>> /\ snap[b] = NoSnap
    /\ snap' = [snap EXCEPT ![b] = <<file>>]
    /\ UNCHANGED <<file, due, mem, askers, ghosts, bounds>>

\* A bug the runs must notice: what was read is kept for the next write.
KeepsRead(b) == UNCHANGED snap
DropsRead(b) == snap' = [snap EXCEPT ![b] = NoSnap]

\* writeAtomic rewrites every row from the snapshot, whatever others wrote since.
WriteFile(b, kind) ==
    LET op == Head(mem[b].ops)
        written == Patched(snap[b][1], op)
    IN /\ snap[b] # NoSnap /\ op.kind = kind
       /\ file' = written
       /\ clobbered' = clobbered \cup {q \in Question : written[q] # Patched(file, op)[q]}
       /\ DropsRead(b)

\* What follows in whoever awaited the write, with the memory m it then finds.
Then(b, m) == mem' = [mem EXCEPT ![b] = m]
Popped(b)  == [mem[b] EXCEPT !.ops = Tail(@)]

Requested(b) ==
    /\ WriteFile(b, "add")
    /\ Then(b, Register(Popped(b), Head(mem[b].ops).q))
    /\ UNCHANGED <<due, askers, prompts, told, bounds>>

\* presentNow: unless it was settled meanwhile, the timer starts and the surface
\* is given the question.
Presented(b) ==
    LET q == Head(mem[b].ops).q
        shown == IF q \in mem[b].pending THEN {q} ELSE {}
    IN /\ WriteFile(b, "show")
       /\ Then(b, [Popped(b) EXCEPT !.armed = @ \cup shown])
       /\ prompts' = [x \in Question |->
                        IF x \in shown THEN [prompts[x] EXCEPT ![b] = @ + 1] ELSE prompts[x]]
       /\ UNCHANGED <<due, askers, told, bounds>>

\* Whoever sent an answer is told that it was resolved.
Tells(b) == told' = told \cup {q \in Question : /\ q = Head(mem[b].ops).q
                                                /\ Head(mem[b].ops).response = "answer"}

Settled(b) ==
    LET op == Head(mem[b].ops)
    IN /\ WriteFile(b, "settle")
       /\ Then(b, FreeLane(Popped(b), op.q))
       /\ asker' = [asker EXCEPT ![op.q] = IF op.live THEN op.response ELSE @]
       /\ Tells(b)
       /\ UNCHANGED <<due, aborted, prompts, bounds>>

\* On the row of another bridge's question, too, even if the row is gone by now.
Answered(b) ==
    /\ WriteFile(b, "answer") /\ Then(b, Popped(b)) /\ Tells(b)
    /\ UNCHANGED <<due, askers, prompts, bounds>>

Reaped(b) ==
    /\ WriteFile(b, "reap") /\ Then(b, Popped(b))
    /\ UNCHANGED <<due, askers, prompts, told, bounds>>

StoreStep(b) ==
    \/ ReadFile(b)
    \/ Requested(b) \/ Presented(b) \/ Settled(b) \/ Answered(b) \/ Reaped(b)

-----------------------------------------------------------------------------
(* Agents, people and timers.                                              *)

Up(b) == mem[b].up

\* request(): the row is persisted before anything else happens.  The gateway
\* hydrates before its adapters start, so nobody asks earlier.
Ask(q) ==
    LET b == AskedOn[q]
    IN /\ Up(b) /\ mem[b].hydrates > 0
       /\ asker[q] = "unasked" /\ \A p \in 1..q - 1 : asker[p] # "unasked"
       /\ asker' = [asker EXCEPT ![q] = "asking"]
       /\ mem' = [mem EXCEPT ![b] = Push(@, "add", q, None)]
       /\ UNCHANGED <<file, due, snap, aborted, ghosts, bounds>>

\* The turn's abort signal.  Before the request is registered the
\* signal is only remembered.
Abort(q) ==
    LET b == AskedOn[q]
        adding == \E op \in Range(mem[b].ops) : op.kind = "add" /\ op.q = q
    IN /\ asker[q] = "asking" /\ q \notin aborted /\ replies < MaxReplies
       /\ replies' = replies + 1
       /\ aborted' = aborted \cup {q}
       /\ mem' = IF adding THEN mem ELSE [mem EXCEPT ![b] = Respond(@, q, "cancel")]
       /\ UNCHANGED <<file, due, snap, asker, ghosts, crashes>>

\* Someone answers or cancels a question they were shown, through any bridge.
SendReply(b, q, r) ==
    /\ Up(b) /\ replies < MaxReplies
    /\ file[q].at = "shown" \/ \E c \in Bridge : prompts[q][c] > 0
    /\ mem' = [mem EXCEPT ![b] = Respond(@, q, r)]
    /\ mem' # mem
    /\ replies' = replies + 1
    /\ UNCHANGED <<file, due, snap, askers, ghosts, crashes>>

DeadlinePasses(q) ==
    /\ q \notin due
    /\ file[q].at = "shown" \/ \E b \in Bridge : q \in mem[b].armed
    /\ due' = due \cup {q}
    /\ UNCHANGED <<file, mem, snap, askers, ghosts, bounds>>

\* fireTimeout.  It asks the map, not the file.
FireTimeout(b, q) ==
    /\ q \in mem[b].armed \cap mem[b].pending /\ q \in due
    /\ mem' = [mem EXCEPT ![b] = StartRespond(@, q, "timeout")]
    /\ UNCHANGED <<file, due, snap, askers, ghosts, bounds>>

\* pollForAnswers, for one question that the bridge holds.
PollForAnswers(b, q) ==
    /\ q \in mem[b].pending /\ file[q].answer # None
    /\ mem' = [mem EXCEPT ![b] = StartRespond(@, q, file[q].answer)]
    /\ UNCHANGED <<file, due, snap, askers, ghosts, bounds>>

\* sweep, for one row: it was shown, its deadline has passed, and no timer here
\* will handle it.
Expired(q) == file[q].at = "shown" /\ q \in due

Sweep(b, q) ==
    /\ Up(b) /\ Expired(q) /\ q \notin mem[b].pending
    /\ \A op \in Range(mem[b].ops) : op.kind = "reap" => op.q # q
    /\ mem' = [mem EXCEPT ![b] = Push(@, "reap", q, None)]
    /\ UNCHANGED <<file, due, snap, askers, ghosts, bounds>>

\* Once at boot; the boot profile hydrates the web's bridge a second time.  In which
\* order its lanes present follows from the file's, which is not kept here.
Hydrate(b) ==
    LET m == mem[b]
        lists == [Lane -> UNION {InOrder(S) : S \in SUBSET Question}]
    IN /\ Up(b) /\ Presents[b] # {} /\ m.hydrates < MaxHydrates
       /\ \E shown, queue \in lists :
            LET adopted == Adopt(m, b, shown, queue)
                drained == Drained(m, b, adopted)
            IN /\ Lists(m, b, shown, queue)
               /\ \E order \in Rows(Callers(adopted, drained)) :
                    mem' = [mem EXCEPT ![b] = DrainLanes(adopted, drained, order)]
       /\ UNCHANGED <<file, due, snap, askers, ghosts, bounds>>

\* The memory goes, and with it the turns that asked.  (A bridge without writes or
\* presenters has nothing to lose.)
Crash(b) ==
    /\ Up(b) /\ crashes < MaxCrashes
    /\ mem[b].ops # <<>> \/ Presents[b] # {}
    /\ crashes' = crashes + 1
    /\ mem' = [mem EXCEPT ![b] = Empty(FALSE)]
    /\ snap' = [snap EXCEPT ![b] = NoSnap]
    /\ asker' = [q \in Question |->
                   IF AskedOn[q] = b /\ asker[q] = "asking" THEN "died" ELSE asker[q]]
    /\ UNCHANGED <<file, due, aborted, ghosts, replies>>

Restart(b) ==
    /\ ~Up(b)
    /\ mem' = [mem EXCEPT ![b] = Empty(TRUE)]
    /\ UNCHANGED <<file, due, snap, askers, ghosts, bounds>>

Next ==
    \/ \E b \in Bridge : StoreStep(b) \/ Hydrate(b) \/ Crash(b) \/ Restart(b)
    \/ \E q \in Question : Ask(q) \/ Abort(q) \/ DeadlinePasses(q)
    \/ \E b \in Bridge, q \in Question :
         FireTimeout(b, q) \/ PollForAnswers(b, q) \/ Sweep(b, q)
    \/ \E b \in Bridge, q \in Question, r \in Reply : SendReply(b, q, r)

Spec == Init /\ [][Next]_vars

\* Writes end, time passes, timers and sweeps fire, a dead process comes back and
\* hydrates once; people and agents owe nothing.
Fairness ==
    /\ \A b \in Bridge :
         /\ WF_vars(StoreStep(b)) /\ WF_vars(Restart(b))
         /\ WF_vars(mem[b].hydrates = 0 /\ Hydrate(b))
    /\ \A q \in Question : WF_vars(DeadlinePasses(q))
    /\ \A b \in Bridge, q \in Question : WF_vars(FireTimeout(b, q)) /\ WF_vars(Sweep(b, q))

FairSpec == Spec /\ Fairness

-----------------------------------------------------------------------------
(* Correctness.                                                            *)

\* No write took back a row of this lane.
Intact(l) == \A q \in clobbered : LaneOf[q] # l

\* One question of a lane is open at a time (G1), through crashes, hydration and
\* aborts that race the queue: lanes that a foreign write took back excepted.
LaneAsksOne ==
    \A b \in Bridge : \A q, r \in mem[b].armed :
       LaneOf[q] = LaneOf[r] /\ Intact(LaneOf[q]) => q = r

\* A bridge shows a question of a surface it presents once at most, over all of its
\* restarts ("never re-shown"), and no other question, unless a foreign write took back
\* that it was shown.  Where one bridge presents the surface, a person is asked once.
PromptedOnce ==
    \A q \in Question \ clobbered, b \in Bridge :
       prompts[q][b] <= IF q \in Presents[b] THEN 1 ELSE 0

\* Not kept, see the README: whoever was told their answer was resolved does not
\* leave the agent with a time-out.
ToldIsReceived == \A q \in told : asker[q] # "timeout"

\* Not kept, see the README: of two bots on one surface, one asks the person.
OneBotAsks ==
    \A q \in Question \ clobbered : \A b, c \in Bridge :
       prompts[q][b] > 0 /\ prompts[q][c] > 0 => b = c

\* Not kept, see the README: the questions of a lane are asked in the order in which
\* they came.
AskedInTurn ==
    \A b \in Bridge : \A q \in mem[b].pending, r \in mem[b].armed :
       LaneOf[q] = LaneOf[r] /\ Intact(LaneOf[q]) /\ q \in Range(mem[b].waiting[LaneOf[q]])
         => r < q

\* Every agent that asks is answered, cancelled or timed out, however the questions
\* of its lane are settled before it.
AskersReleased == \A q \in Question : asker[q] = "asking" ~> asker[q] # "asking"

\* No row stays in the file for ever, whoever died while it was queued or shown,
\* unless a foreign write brought it back.
RowsReaped == \A q \in Question : []<>(file[q].at = "absent" \/ q \in clobbered)
=============================================================================
