-------------------------- MODULE KanbanBoardProofs --------------------------
(***************************************************************************)
(* Proofs about the kanban board, for any number of tickets, members,      *)
(* runs, crashes and human edits: the types, and that every claim is       *)
(* accounted for.  The store's transactions are proved one by one to keep  *)
(* the board (BoardOK); an action is then one of them, or leaves the board *)
(* alone.                                                                  *)
(***************************************************************************)
EXTENDS KanbanBoard, TLAPS, FiniteSetTheorems

-----------------------------------------------------------------------------
(* The invariant.                                                          *)

Ready(x) == x \in {"todo", "ready", "blocked", "needs_revision", "done", "failed", "archived"}
Started(r) == ticket[r] # None

BoardTypes ==
    /\ status \in [Task -> Status] /\ current \in [Task -> Run \cup {None}]
    /\ \A t \in Task : status[t] = "running" <=> current[t] # None
    /\ retries \in [Task -> Nat] /\ blocks \in [Task -> Nat]
    /\ ticket \in [Run -> Task \cup {None}] /\ outcome \in [Run -> Outcomes]
    /\ starter \in [Run -> {"none", "poll", "dispatch", "tool"}]

\* The open runs of a ticket are the one it points to.
OneOpen == \A t \in Task, r \in Run : ticket[r] = t /\ Open(r) <=> current[t] = r

\* Runs are numbered as they are opened, without gaps.
InOrder == \E k \in 0..MaxRuns : \A r \in Run : Started(r) <=> r <= k

Charged(t) == Cardinality(RunsOf(t)) <= retries[t] + 1
WithinBudget == \A t \in Task : status[t] = "running" => retries[t] <= MaxRetries

BoardOK ==
    /\ BoardTypes /\ OneOpen /\ InOrder
    /\ \A t \in Task : Charged(t)
    /\ WithinBudget

\* Whoever works on a run, or calls for it, does so for a ticket.
WorkOK ==
    /\ calls \subseteq Run
    /\ work \in [Run -> {"none", "queued", "over"} \cup AtWork]
    /\ \A r \in Run : work[r] # "none" \/ r \in calls => Started(r)
LoopsOK == loop \in [Loops -> [stage : Stages, list : SUBSET Task, stale : SUBSET Task]]
FaultsOK == up \subseteq Serve /\ events \in 0..MaxEvents
RestOK == WorkOK /\ LoopsOK /\ FaultsOK

\* A ticket once given to a run stays with it.
TicketsStay == \A r \in Run : Started(r) => ticket'[r] = ticket[r]

-----------------------------------------------------------------------------
(* The store's transactions keep the board.                                *)

\* The next run's number is that of a run that was never opened.
LEMMA NextIsFree ==
    ASSUME BoardOK
    PROVE  /\ NextRun \in Nat
           /\ NextRun \in Run => ~Started(NextRun)
           /\ \A r \in Run : Started(r) <=> r < NextRun
<1>1. PICK k \in 0..MaxRuns : \A r \in Run : Started(r) <=> r <= k
  BY DEF BoardOK, InOrder
<1>2. k \in Nat /\ MaxRuns \in Nat
  BY KanbanAssumption
<1>3. {r \in Run : ticket[r] # None} = 1..k
  BY <1>1, <1>2 DEF Run, Started
<1>4. Cardinality(1..k) = k
  BY <1>2, FS_Interval
<1>5. NextRun = k + 1
  BY <1>3, <1>4 DEF NextRun
<1> QED
  BY <1>1, <1>2, <1>5 DEF Run

\* A ticket has finitely many runs, here and after a step.
LEMMA RunsFinite ==
    ASSUME NEW t
    PROVE  /\ IsFiniteSet(RunsOf(t)) /\ Cardinality(RunsOf(t)) \in Nat
           /\ IsFiniteSet(RunsOf(t)') /\ Cardinality(RunsOf(t)') \in Nat
<1>1. IsFiniteSet(Run)
  BY FS_Interval, KanbanAssumption DEF Run
<1>2. RunsOf(t) \in SUBSET Run /\ RunsOf(t)' \in SUBSET Run
  BY DEF RunsOf, Run
<1>3. IsFiniteSet(RunsOf(t)) /\ IsFiniteSet(RunsOf(t)')
  BY <1>1, <1>2, FS_Subset
<1> QED
  BY <1>3, FS_CardinalityType

\* A transaction that gives no run to a ticket and takes back no retry, and after
\* which a running ticket is one that was running, leaves the claims accounted for.
LEMMA AccountsStay ==
    ASSUME BoardOK, UNCHANGED ticket,
           retries' = retries,
           \A t \in Task : status'[t] = "running" => status[t] = "running"
    PROVE  /\ InOrder' /\ WithinBudget'
           /\ \A t \in Task : Charged(t)'
BY DEF BoardOK, InOrder, WithinBudget, Charged, RunsOf, Started

\* The run a ticket leaves is closed, and no other.
LEMMA ClosesKeeps ==
    ASSUME BoardOK, NEW t \in Task, NEW to, NEW end, Ready(to),
           end \in {"completed", "blocked", "cancelled"},
           status' = [status EXCEPT ![t] = to], Closes(t, end),
           blocks' \in [Task -> Nat], UNCHANGED <<retries, ticket, starter>>
    PROVE  BoardOK' /\ TicketsStay
<1> USE KanbanAssumption DEF BoardTypes, Run, Closes
<1>1. BoardTypes'
  BY DEF BoardOK, Status, Outcomes, Ready
<1>2. OneOpen'
  BY DEF BoardOK, OneOpen, Open
<1>3. \A x \in Task : status'[x] = "running" => status[x] = "running"
  BY DEF BoardOK, Ready
<1> QED
  BY <1>1, <1>2, <1>3, AccountsStay DEF BoardOK, TicketsStay

\* updateStatus to anything but running.
LEMMA SetStatusKeeps ==
    ASSUME BoardOK, NEW t \in Task, NEW to, Ready(to), SetStatus(t, to)
    PROVE  BoardOK' /\ TicketsStay
<1>1. blocks' \in [Task -> Nat]
  BY DEF SetStatus, BoardOK, BoardTypes
<1> QED
  BY <1>1, ClosesKeeps DEF SetStatus

\* endRun as done.
LEMMA CompletesKeeps ==
    ASSUME BoardOK, NEW t \in Task, CompletesRun(t)
    PROVE  BoardOK' /\ TicketsStay
<1>1. blocks' \in [Task -> Nat]
  BY DEF CompletesRun, BoardOK, BoardTypes
<1>2. Ready("done")
  BY DEF Ready
<1>3. status' = [status EXCEPT ![t] = "done"] /\ Closes(t, "completed")
  BY DEF CompletesRun
<1>4. UNCHANGED <<retries, ticket, starter>>
  BY DEF CompletesRun
<1> QED
  BY <1>1, <1>2, <1>3, <1>4, ClosesKeeps

\* endRun as blocked, or sent to review.
LEMMA BlocksKeeps ==
    ASSUME BoardOK, NEW t \in Task, NEW n \in Nat, BlocksRun(t, n)
    PROVE  BoardOK' /\ TicketsStay
<1>1. blocks' \in [Task -> Nat]
  BY DEF BlocksRun, BoardOK, BoardTypes
<1>2. Ready(IF n >= BlockLimit THEN "needs_revision" ELSE "blocked")
  BY DEF Ready
<1> QED
  BY <1>1, <1>2, ClosesKeeps DEF BlocksRun

\* updateStatus to running, where the budget is spent.
LEMMA FailsKeeps ==
    ASSUME BoardOK, NEW t \in Task, Claimable(t), FailsSpent(t)
    PROVE  BoardOK' /\ TicketsStay
<1> USE KanbanAssumption DEF BoardTypes, Run, FailsSpent, runVars
<1>1. NextRetry(t) \in Nat /\ NextRetry(t) >= retries[t]
  BY DEF BoardOK, NextRetry
<1>2. BoardTypes'
  BY <1>1 DEF BoardOK, Status, Claimable
<1>3. OneOpen' /\ InOrder' /\ TicketsStay
  BY DEF BoardOK, OneOpen, Open, InOrder, Started, TicketsStay
<1>4. ASSUME NEW x \in Task PROVE Charged(x)'
  <2>1. Cardinality(RunsOf(x)) \in Nat /\ RunsOf(x)' = RunsOf(x)
    BY RunsFinite DEF RunsOf
  <2> QED
    BY <1>1, <2>1 DEF BoardOK, Charged
<1>5. WithinBudget'
  BY DEF BoardOK, WithinBudget
<1> QED
  BY <1>2, <1>3, <1>4, <1>5 DEF BoardOK

\* updateStatus to running, where it is not: the run it opens is charged.
LEMMA OpensKeeps ==
    ASSUME BoardOK, NEW t \in Task, NEW r \in Run, NEW how \in {"poll", "dispatch", "tool"},
           Claimable(t), r = NextRun, OpensRun(t, r, how)
    PROVE  BoardOK' /\ TicketsStay /\ Started(r)'
<1> USE KanbanAssumption DEF BoardTypes, Run, OpensRun
<1>1. NextRetry(t) \in Nat /\ NextRetry(t) >= retries[t]
  BY DEF BoardOK, NextRetry
<1>2. ~Started(r) /\ \A x \in Run : Started(x) <=> x < r
  BY NextIsFree
<1>3. BoardTypes'
  BY <1>1 DEF BoardOK, Status, Outcomes
<1>4. OneOpen'
  BY <1>2 DEF BoardOK, OneOpen, Open, Started, Claimable
<1>5. InOrder'
  <2>1. \A x \in Run : Started(x)' <=> x <= r
    BY <1>2 DEF BoardOK, Started
  <2> QED
    BY <2>1 DEF InOrder
<1>6. TicketsStay /\ Started(r)'
  BY <1>2 DEF BoardOK, TicketsStay, Started
<1>7. ASSUME NEW x \in Task PROVE Charged(x)'
  <2>1. IsFiniteSet(RunsOf(x)) /\ Cardinality(RunsOf(x)) \in Nat
    BY RunsFinite
  <2>2. CASE x # t
    <3>1. RunsOf(x)' = RunsOf(x)
      BY <1>2, <2>2 DEF BoardOK, RunsOf, Started
    <3> QED
      BY <2>2, <3>1 DEF BoardOK, Charged
  <2>3. CASE x = t
    <3>1. RunsOf(t)' = RunsOf(t) \cup {r} /\ r \notin RunsOf(t)
      BY <1>2 DEF BoardOK, RunsOf, Started
    <3>2. Cardinality(RunsOf(t)') = Cardinality(RunsOf(t)) + 1
      BY <2>1, <2>3, <3>1, FS_AddElement
    <3>3. retries'[t] = NextRetry(t)
      BY DEF BoardOK
    <3>4. CASE RunsOf(t) = {}
      BY <1>1, <2>3, <3>2, <3>3, <3>4, FS_EmptySet DEF Charged
    <3>5. CASE RunsOf(t) # {}
      <4>1. NextRetry(t) = retries[t] + 1
        BY <3>5 DEF BoardOK, NextRetry
      <4> QED
        BY <2>1, <2>3, <3>2, <3>3, <4>1 DEF BoardOK, Charged
    <3> QED
      BY <3>4, <3>5
  <2> QED
    BY <2>2, <2>3
<1>8. WithinBudget'
  BY <1>1 DEF BoardOK, WithinBudget
<1> QED
  BY <1>3, <1>4, <1>5, <1>6, <1>7, <1>8 DEF BoardOK

\* Heartbeats come and fail to come: an open run stays open.
LEMMA BeatKeeps ==
    ASSUME BoardOK, NEW r \in Run, Open(r), NEW beat \in {"fresh", "quiet"},
           outcome' = [outcome EXCEPT ![r] = beat],
           UNCHANGED <<taskVars, ticket, starter>>
    PROVE  BoardOK' /\ TicketsStay
<1>1. BoardTypes' /\ OneOpen' /\ TicketsStay
  BY DEF BoardOK, BoardTypes, OneOpen, Open, Outcomes, TicketsStay, taskVars
<1> QED
  BY <1>1, AccountsStay DEF BoardOK, taskVars

\* A step that writes nothing to the board.
LEMMA NothingKeeps ==
    ASSUME BoardOK, UNCHANGED <<taskVars, runVars>>
    PROVE  BoardOK' /\ TicketsStay
BY DEF BoardOK, BoardTypes, OneOpen, Open, InOrder, Started, Charged, RunsOf, WithinBudget,
       TicketsStay, taskVars, runVars

-----------------------------------------------------------------------------
(* The steps of loops, agents, humans and faults.                          *)

\* Nobody starts to work or to call: a step that keeps the tickets keeps WorkOK.
LEMMA WorkStays ==
    ASSUME BoardOK, WorkOK, TicketsStay, calls' \subseteq calls,
           work' \in [Run -> {"none", "queued", "over"} \cup AtWork],
           \A r \in Run : work'[r] # "none" => work[r] # "none"
    PROVE  WorkOK'
BY DEF WorkOK, TicketsStay, Started

\* Nor does a step of nobody's agent and nobody's call disturb it.
LEMMA WorkSame ==
    ASSUME WorkOK, TicketsStay, work' = work, calls' = calls
    PROVE  WorkOK'
BY DEF WorkOK, TicketsStay, Started

\* What a loop lists are tickets.
LEMMA ListingType ==
    ASSUME NEW p, NEW stage \in {"promote", "stall", "reclaim", "claim"}
    PROVE  Listing(p, stage) \in SUBSET Task
<1>1. QuietRunning \in SUBSET Task /\ Running \in SUBSET Task
  BY DEF QuietRunning, Running
<1>2. CASE stage = "promote"
  BY <1>2 DEF Listing
<1>3. CASE stage = "stall"
  BY <1>1, <1>3 DEF Listing
<1>4. CASE stage = "reclaim"
  BY <1>1, <1>4 DEF Listing
<1>5. CASE stage = "claim"
  BY <1>5 DEF Listing
<1> QED
  BY <1>2, <1>3, <1>4, <1>5

\* The stages still to come are stages.
LEMMA LaterType ==
    ASSUME NEW p, NEW stage \in Stages
    PROVE  Later(p, stage) \subseteq {"promote", "stall", "reclaim", "claim"}
<1>1. CASE stage = "idle"
  BY <1>1 DEF Later
<1>2. CASE stage = "promote"
  BY <1>2 DEF Later
<1>3. CASE stage = "stall"
  BY <1>3 DEF Later
<1>4. CASE stage = "reclaim"
  BY <1>4 DEF Later
<1>5. CASE stage = "claim"
  BY <1>5 DEF Later
<1> QED
  BY <1>1, <1>2, <1>3, <1>4, <1>5 DEF Stages

\* A loop lists its next stage.
LEMMA ListLoops ==
    ASSUME LoopsOK, NEW p \in Loops, List(p)
    PROVE  LoopsOK'
<1>1. loop[p].stage \in Stages
  BY DEF LoopsOK
<1>2. CASE loop' = [loop EXCEPT ![p] = Resting]
  BY <1>2 DEF LoopsOK, Resting, Stages
<1>3. CASE \E next \in Later(p, loop[p].stage) :
              loop' = [loop EXCEPT ![p] =
                         [stage |-> next, list |-> Listing(p, next),
                          stale |-> IF next = "reclaim" THEN QuietRunning ELSE {}]]
  <2>1. PICK next \in Later(p, loop[p].stage) :
              loop' = [loop EXCEPT ![p] =
                         [stage |-> next, list |-> Listing(p, next),
                          stale |-> IF next = "reclaim" THEN QuietRunning ELSE {}]]
    BY <1>3
  <2>2. next \in {"promote", "stall", "reclaim", "claim"}
    BY <1>1, <2>1, LaterType
  <2>3. Listing(p, next) \in SUBSET Task
    BY <2>2, ListingType
  <2>4. QuietRunning \in SUBSET Task
    BY DEF QuietRunning, Running
  <2> QED
    BY <2>1, <2>2, <2>3, <2>4 DEF LoopsOK, Stages
<1> QED
  BY <1>2, <1>3 DEF List

\* A loop takes a ticket off its list.
LEMMA TakesLoops ==
    ASSUME LoopsOK, NEW p \in Loops, NEW t, NEW stage, Takes(p, t, stage)
    PROVE  t \in Task /\ LoopsOK'
<1>1. loop[p] \in [stage : Stages, list : SUBSET Task, stale : SUBSET Task]
  BY DEF LoopsOK
<1>2. t \in Task
  BY <1>1 DEF Takes
<1>3. loop' = [loop EXCEPT ![p] = [loop[p] EXCEPT !.list = @ \ {t}, !.stale = @ \ {t}]]
  BY <1>1 DEF Takes, LoopsOK
<1>4. [loop[p] EXCEPT !.list = @ \ {t}, !.stale = @ \ {t}]
         \in [stage : Stages, list : SUBSET Task, stale : SUBSET Task]
  BY <1>1
<1> QED
  BY <1>2, <1>3, <1>4 DEF LoopsOK

\* A tick of a loop keeps the invariant.
LEMMA TickStep ==
    ASSUME BoardOK, RestOK, NEW p \in Loops, Tick(p)
    PROVE  BoardOK' /\ RestOK'
<1>0. WorkOK /\ LoopsOK /\ FaultsOK
  BY DEF RestOK
<1>1. CASE List(p)
  <2>1. BoardOK' /\ TicketsStay
    BY <1>1, NothingKeeps DEF List
  <2>2. WorkOK'
    BY <1>0, <1>1, <2>1, WorkSame DEF List
  <2>3. FaultsOK'
    BY <1>0, <1>1 DEF List, FaultsOK, faultVars
  <2> QED
    BY <1>0, <1>1, <2>1, <2>2, <2>3, ListLoops DEF RestOK
<1>2. ASSUME NEW t \in Task, Promote(p, t) PROVE BoardOK' /\ RestOK'
  <2>1. BoardOK' /\ TicketsStay
    BY <1>2, SetStatusKeeps DEF Promote, Ready
  <2>2. LoopsOK'
    BY <1>0, <1>2, TakesLoops DEF Promote
  <2>3. WorkOK'
    BY <1>0, <1>2, <2>1, WorkSame DEF Promote
  <2>4. FaultsOK'
    BY <1>0, <1>2 DEF Promote, FaultsOK, faultVars
  <2> QED
    BY <2>1, <2>2, <2>3, <2>4 DEF RestOK
<1>3. ASSUME NEW t \in Task, Reclaim(p, t) PROVE BoardOK' /\ RestOK'
  <2>1. BoardOK' /\ TicketsStay
    BY <1>3, SetStatusKeeps, NothingKeeps DEF Reclaim, Ready
  <2>2. LoopsOK'
    BY <1>0, <1>3, TakesLoops DEF Reclaim
  <2>3. WorkOK'
    BY <1>0, <1>3, <2>1, WorkSame DEF Reclaim
  <2>4. FaultsOK'
    BY <1>0, <1>3 DEF Reclaim, FaultsOK, faultVars
  <2> QED
    BY <2>1, <2>2, <2>3, <2>4 DEF RestOK
<1>4. ASSUME NEW t \in Task, Stall(t), p = Dispatcher PROVE BoardOK' /\ RestOK'
  <2>1. BoardOK' /\ TicketsStay
    BY <1>4, BlocksKeeps, NothingKeeps DEF Stall
  <2>2. LoopsOK'
    BY <1>0, <1>4, TakesLoops DEF Stall
  <2>3. WorkOK'
    BY <1>0, <1>4, <2>1, WorkSame DEF Stall
  <2>4. FaultsOK'
    BY <1>0, <1>4 DEF Stall, FaultsOK, faultVars
  <2> QED
    BY <2>1, <2>2, <2>3, <2>4 DEF RestOK
<1>5. ASSUME NEW t \in Task, PassOver(p, t) PROVE BoardOK' /\ RestOK'
  <2>1. BoardOK' /\ TicketsStay
    BY <1>5, NothingKeeps DEF PassOver
  <2>2. LoopsOK'
    BY <1>0, <1>5, TakesLoops DEF PassOver
  <2>3. WorkOK'
    BY <1>0, <1>5, <2>1, WorkSame DEF PassOver
  <2>4. FaultsOK'
    BY <1>0, <1>5 DEF PassOver, FaultsOK, faultVars
  <2> QED
    BY <2>1, <2>2, <2>3, <2>4 DEF RestOK
<1>6. ASSUME NEW t \in Task, Claim(p, t) PROVE BoardOK' /\ RestOK'
  <2>1. Claimable(t)
    BY <1>6 DEF Claim
  <2>2. LoopsOK'
    BY <1>0, <1>6, TakesLoops DEF Claim
  <2>3. FaultsOK'
    BY <1>0, <1>6 DEF Claim, FaultsOK, faultVars
  <2>4. CASE FailsSpent(t) /\ UNCHANGED <<work, calls>>
    <3>1. BoardOK' /\ TicketsStay
      BY <2>1, <2>4, FailsKeeps
    <3>2. WorkOK'
      BY <1>0, <2>4, <3>1, WorkSame
    <3> QED
      BY <2>2, <2>3, <3>1, <3>2 DEF RestOK
  <2>5. ASSUME NEW r \in Run, r = NextRun, OpensRun(t, r, "dispatch"),
               calls' = calls \cup {r}, UNCHANGED work
        PROVE  BoardOK' /\ RestOK'
    <3>1. BoardOK' /\ TicketsStay /\ Started(r)'
      BY <2>1, <2>5, OpensKeeps
    <3>2. WorkOK'
      BY <1>0, <2>5, <3>1 DEF WorkOK, TicketsStay, Started
    <3> QED
      BY <2>2, <2>3, <3>1, <3>2 DEF RestOK
  <2>6. ASSUME NEW r \in Run, r = NextRun, OpensRun(t, r, "poll"),
               work' = [work EXCEPT ![r] = "queued"], UNCHANGED calls
        PROVE  BoardOK' /\ RestOK'
    <3>1. BoardOK' /\ TicketsStay /\ Started(r)'
      BY <2>1, <2>6, OpensKeeps
    <3>2. WorkOK'
      BY <1>0, <2>6, <3>1 DEF WorkOK, TicketsStay, Started
    <3> QED
      BY <2>2, <2>3, <3>1, <3>2 DEF RestOK
  <2> QED
    BY <1>6, <2>4, <2>5, <2>6 DEF Claim
<1> QED
  BY <1>1, <1>2, <1>3, <1>4, <1>5, <1>6 DEF Tick

\* A step of the agent of a run keeps the invariant.
LEMMA AgentStep ==
    ASSUME BoardOK, RestOK, NEW r \in Run, Agent(r)
    PROVE  BoardOK' /\ RestOK'
<1>0. WorkOK /\ LoopsOK /\ FaultsOK
  BY DEF RestOK
<1>1. UNCHANGED <<calls, loop, faultVars>>
  BY DEF Agent, Start, AskVerifier, Verdict, BlockTicket, ClaimByTool, TurnEnds
<1>2. LoopsOK' /\ FaultsOK'
  BY <1>0, <1>1 DEF LoopsOK, FaultsOK, faultVars
<1>3. work[r] # "none" /\ ticket[r] \in Task /\ Started(r)
  <2>1. work[r] # "none"
    BY DEF Agent, Start, AskVerifier, Verdict, BlockTicket, ClaimByTool, TurnEnds
  <2> QED
    BY <1>0, <2>1 DEF WorkOK, Started, BoardOK, BoardTypes
<1>4. /\ work' \in [Run -> {"none", "queued", "over"} \cup AtWork]
      /\ \A x \in Run : work'[x] # "none" => work[x] # "none"
  BY <1>0, <1>3 DEF Agent, Start, AskVerifier, Verdict, BlockTicket, ClaimByTool, TurnEnds,
                    WorkOK, AtWork
<1>5. BoardOK' /\ TicketsStay
  <2>1. CASE Start(r)
    <3>1. CASE starter[r] = "poll" /\ Open(r)
      BY <2>1, <3>1, BeatKeeps DEF Start
    <3>2. CASE ~(starter[r] = "poll" /\ Open(r))
      BY <2>1, <3>2, NothingKeeps DEF Start, runVars
    <3> QED
      BY <3>1, <3>2
  <2>2. CASE AskVerifier(r) \/ TurnEnds(r)
    BY <2>2, NothingKeeps DEF AskVerifier, TurnEnds
  <2>3. CASE Verdict(r)
    BY <1>3, <2>3, CompletesKeeps, SetStatusKeeps, NothingKeeps DEF Verdict, Ready
  <2>4. CASE BlockTicket(r)
    <3>1. PICK n \in {blocks[ticket[r]] + 1, 1, 0} : BlocksRun(ticket[r], n)
      BY <2>4 DEF BlockTicket
    <3>2. n \in Nat
      BY <1>3, <3>1 DEF BoardOK, BoardTypes
    <3> QED
      BY <1>3, <3>1, <3>2, BlocksKeeps
  <2>5. CASE ClaimByTool(r)
    BY <1>3, <2>5, FailsKeeps, OpensKeeps DEF ClaimByTool
  <2> QED
    BY <2>1, <2>2, <2>3, <2>4, <2>5 DEF Agent
<1>6. WorkOK'
  BY <1>0, <1>1, <1>4, <1>5, WorkStays
<1> QED
  BY <1>2, <1>5, <1>6 DEF RestOK

\* The end of a dispatch call keeps it.
LEMMA CallStep ==
    ASSUME BoardOK, RestOK, NEW r \in Run, CallEnds(r)
    PROVE  BoardOK' /\ RestOK'
<1>0. WorkOK /\ LoopsOK /\ FaultsOK
  BY DEF RestOK
<1>1. ticket[r] \in Task
  BY <1>0 DEF CallEnds, WorkOK, Started, BoardOK, BoardTypes
<1>2. BoardOK' /\ TicketsStay
  BY <1>1, BlocksKeeps, NothingKeeps DEF CallEnds
<1>3. calls' \subseteq calls /\ work' = work
  BY DEF CallEnds
<1>4. WorkOK'
  BY <1>0, <1>2, <1>3, WorkStays DEF WorkOK
<1>5. LoopsOK' /\ FaultsOK'
  BY <1>0 DEF CallEnds, LoopsOK, FaultsOK, faultVars
<1> QED
  BY <1>2, <1>4, <1>5 DEF RestOK

\* A heartbeat, and a silence, keep it.
LEMMA BeatStep ==
    ASSUME BoardOK, RestOK, NEW r \in Run, GoesQuiet(r) \/ Heartbeat(r)
    PROVE  BoardOK' /\ RestOK'
<1>0. WorkOK /\ LoopsOK /\ FaultsOK
  BY DEF RestOK
<1>1. BoardOK' /\ TicketsStay
  <2>1. CASE GoesQuiet(r)
    BY <2>1, BeatKeeps DEF GoesQuiet, Open
  <2>2. CASE Heartbeat(r)
    <3>1. ticket[r] \in Task /\ status[ticket[r]] = "running"
      BY <2>2 DEF Heartbeat, QuietRunning, Running
    <3>2. current[ticket[r]] \in Run /\ outcome[current[ticket[r]]] = "quiet"
      BY <2>2, <3>1 DEF Heartbeat, QuietRunning, BoardOK, BoardTypes
    <3> QED
      BY <2>2, <3>2, BeatKeeps DEF Heartbeat, Open
  <2> QED
    BY <2>1, <2>2
<1>2. UNCHANGED <<work, calls, loop, faultVars>>
  BY DEF GoesQuiet, Heartbeat
<1>3. WorkOK' /\ LoopsOK' /\ FaultsOK'
  BY <1>0, <1>1, <1>2, WorkSame DEF LoopsOK, FaultsOK, faultVars
<1> QED
  BY <1>1, <1>3 DEF RestOK

\* So do the arrival of a call, human edits, crashes, restarts and stops.
LEMMA FaultStep ==
    ASSUME BoardOK, RestOK,
           \/ \E r \in Run : NotifyArrives(r)
           \/ \E t \in Task : Edit(t)
           \/ \E s \in Serve : Crash(s) \/ Restart(s)
           \/ StopDispatcher
    PROVE  BoardOK' /\ RestOK'
<1>0. WorkOK /\ LoopsOK /\ FaultsOK
  BY DEF RestOK
<1>1. ASSUME NEW r \in Run, NotifyArrives(r) PROVE BoardOK' /\ RestOK'
  <2>1. BoardOK' /\ TicketsStay
    BY <1>1, NothingKeeps DEF NotifyArrives
  <2>2. WorkOK'
    BY <1>0, <1>1, <2>1 DEF NotifyArrives, WorkOK, TicketsStay, Started
  <2>3. LoopsOK' /\ FaultsOK'
    BY <1>0, <1>1 DEF NotifyArrives, LoopsOK, FaultsOK, faultVars
  <2> QED
    BY <2>1, <2>2, <2>3 DEF RestOK
<1>2. ASSUME NEW t \in Task, Edit(t) PROVE BoardOK' /\ RestOK'
  <2>1. BoardOK' /\ TicketsStay
    BY <1>2, SetStatusKeeps DEF Edit, Ready
  <2>2. WorkOK' /\ LoopsOK'
    BY <1>0, <1>2, <2>1, WorkSame DEF Edit, LoopsOK
  <2>3. FaultsOK'
    BY <1>0, <1>2, KanbanAssumption DEF Edit, FaultsOK
  <2> QED
    BY <2>1, <2>2, <2>3 DEF RestOK
<1>3. ASSUME NEW s \in Serve, Crash(s) PROVE BoardOK' /\ RestOK'
  <2>1. BoardOK' /\ TicketsStay
    BY <1>3, NothingKeeps DEF Crash
  <2>2. /\ work' \in [Run -> {"none", "queued", "over"} \cup AtWork]
        /\ \A x \in Run : work'[x] # "none" => work[x] # "none"
    BY <1>0, <1>3 DEF Crash, WorkOK
  <2>3. WorkOK'
    BY <1>0, <1>3, <2>1, <2>2, WorkStays DEF Crash
  <2>4. LoopsOK'
    BY <1>0, <1>3 DEF Crash, LoopsOK, Loops, Resting, Stages
  <2>5. FaultsOK'
    BY <1>0, <1>3, KanbanAssumption DEF Crash, FaultsOK
  <2> QED
    BY <2>1, <2>3, <2>4, <2>5 DEF RestOK
<1>4. ASSUME NEW s \in Serve, Restart(s) PROVE BoardOK' /\ RestOK'
  <2>1. BoardOK' /\ TicketsStay
    BY <1>4, NothingKeeps DEF Restart
  <2>2. WorkOK' /\ LoopsOK' /\ FaultsOK'
    BY <1>0, <1>4, <2>1, WorkSame DEF Restart, LoopsOK, FaultsOK
  <2> QED
    BY <2>1, <2>2 DEF RestOK
<1>5. CASE StopDispatcher
  <2>1. BoardOK' /\ TicketsStay
    BY <1>5, NothingKeeps DEF StopDispatcher
  <2>2. WorkOK'
    BY <1>0, <1>5, <2>1, WorkStays DEF StopDispatcher, WorkOK
  <2>3. LoopsOK'
    BY <1>0, <1>5 DEF StopDispatcher, LoopsOK, Loops, Resting, Stages
  <2>4. FaultsOK'
    BY <1>0, <1>5, KanbanAssumption DEF StopDispatcher, FaultsOK
  <2> QED
    BY <2>1, <2>2, <2>3, <2>4 DEF RestOK
<1> QED
  BY <1>1, <1>2, <1>3, <1>4, <1>5

-----------------------------------------------------------------------------
(* The theorems.                                                           *)

\* The empty board is in order.
LEMMA InvInit == Init => BoardOK /\ RestOK
<1> SUFFICES ASSUME Init PROVE BoardOK /\ RestOK
  OBVIOUS
<1> USE KanbanAssumption DEF Init
<1>1. BoardTypes
  BY DEF BoardTypes, Status, Outcomes
<1>2. OneOpen
  BY DEF OneOpen, Open, Run
<1>3. InOrder
  <2>1. \A r \in Run : Started(r) <=> r <= 0
    BY DEF Started, Run
  <2>2. 0 \in 0..MaxRuns
    OBVIOUS
  <2> QED
    BY <2>1, <2>2 DEF InOrder
<1>4. ASSUME NEW t \in Task PROVE Charged(t)
  <2>1. RunsOf(t) = {}
    BY DEF RunsOf
  <2> QED
    BY <2>1, FS_EmptySet DEF Charged
<1>5. WithinBudget
  BY DEF WithinBudget
<1>6. WorkOK
  BY DEF WorkOK
<1>7. LoopsOK /\ FaultsOK
  BY DEF LoopsOK, FaultsOK, Resting, Stages
<1> QED
  BY <1>1, <1>2, <1>3, <1>4, <1>5, <1>6, <1>7 DEF BoardOK, RestOK

\* No step of the system leaves the invariant.
LEMMA InvStep == BoardOK /\ RestOK /\ [Next]_vars => BoardOK' /\ RestOK'
<1> SUFFICES ASSUME BoardOK, RestOK, [Next]_vars PROVE BoardOK' /\ RestOK'
  OBVIOUS
<1>1. CASE UNCHANGED vars
  <2>1. BoardOK' /\ TicketsStay
    BY <1>1, NothingKeeps DEF vars
  <2>2. WorkOK'
    BY <1>1, <2>1, WorkSame DEF vars, RestOK
  <2>3. LoopsOK' /\ FaultsOK'
    BY <1>1 DEF vars, RestOK, LoopsOK, FaultsOK, faultVars
  <2> QED
    BY <2>1, <2>2, <2>3 DEF RestOK
<1>2. CASE Next
  BY <1>2, TickStep, AgentStep, CallStep, BeatStep, FaultStep DEF Next
<1> QED
  BY <1>1, <1>2

\* Every reachable state satisfies the invariant.
LEMMA Invariance == Spec => [](BoardOK /\ RestOK)
BY InvInit, InvStep, PTL DEF Spec

\* The variables keep their types, and a task is `running` exactly while it has a run:
\* the column the agents' tools, the loops and the board's page all write.
THEOREM TypeCorrect == Spec => []TypeOK
<1>1. BoardOK /\ RestOK => TypeOK
  BY DEF BoardOK, BoardTypes, RestOK, WorkOK, LoopsOK, FaultsOK, TypeOK
<1> QED
  BY <1>1, Invariance, PTL

\* Whatever the loops listed before they wrote, whoever reclaimed and whatever died:
\* no ticket has two open runs, every further run of it was charged, and none is
\* opened past its budget (claim and reclaim are transactions of their own).
THEOREM ClaimsAccountedCorrect == Spec => []ClaimsAccounted
<1>1. ASSUME BoardOK PROVE ClaimsAccounted
  <2>1. ASSUME NEW t \in Task PROVE {r \in RunsOf(t) : Open(r)} = {current[t]} \ {None}
    <3>1. \A r \in Run : r # None
      BY KanbanAssumption DEF Run
    <3>2. current[t] \in Run \cup {None}
      BY <1>1 DEF BoardOK, BoardTypes
    <3>3. \A r \in Run : ticket[r] = t /\ Open(r) <=> current[t] = r
      BY <1>1 DEF BoardOK, OneOpen
    <3> QED
      BY <3>1, <3>2, <3>3 DEF RunsOf
  <2>2. \A t \in Task : Cardinality(RunsOf(t)) <= retries[t] + 1
    BY <1>1 DEF BoardOK, Charged
  <2>3. \A t \in Running : retries[t] <= MaxRetries
    BY <1>1 DEF BoardOK, WithinBudget, Running
  <2> QED
    BY <2>1, <2>2, <2>3 DEF ClaimsAccounted
<1> QED
  BY <1>1, Invariance, PTL

=============================================================================
