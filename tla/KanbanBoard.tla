----------------------------- MODULE KanbanBoard -----------------------------
(***************************************************************************)
(* A team's kanban board: the store, the poll loop of every member's       *)
(* `ethos serve`, the supervisor's dispatcher, and the agents that work on *)
(* claimed tickets.  They are processes that share board.db; a store call  *)
(* is one transaction, and what a loop listed before it may be out of date *)
(* when the loop writes.                                                   *)
(*                                                                         *)
(* Time is abstract: a run is quiet when its last heartbeat is older than  *)
(* the threshold of whoever looks, so a gate may see any quiet run.        *)
(***************************************************************************)
EXTENDS Integers, FiniteSets

CONSTANTS
    Task, Serve, Dispatcher, None,
    ParentsOf,      \* the blocking parents of a task: those with an assignee
    AssigneeOf,     \* the member every task is assigned to
    MaxRetries,     \* max_retries of a task
    MaxInProgress,  \* the WIP cap of the board, as the agents' tools know it
    BlockLimit,     \* blockRecurrenceLimit
    MaxRuns, MaxEvents   \* bounds on runs, and on human edits and crashes together

ASSUME KanbanAssumption ==
    /\ ParentsOf \in [Task -> SUBSET Task]
    /\ AssigneeOf \in [Task -> Serve]
    /\ Dispatcher \notin Serve /\ None \notin Nat \cup Task
    /\ {MaxInProgress, BlockLimit} \subseteq Nat \ {0}
    /\ {MaxRetries, MaxRuns, MaxEvents} \subseteq Nat

VARIABLES
    status, current, retries, blocks,   \* the tasks
    ticket, outcome, starter,           \* the runs
    work,                               \* the agent each run was opened for
    calls,                              \* runs whose dispatch call is in flight
    loop,                               \* each loop's stage and what it listed
    up, events

taskVars == <<status, current, retries, blocks>>
runVars == <<ticket, outcome, starter>>
faultVars == <<up, events>>
vars == <<taskVars, runVars, work, calls, loop, faultVars>>

Run == 1..MaxRuns
Loops == Serve \cup {Dispatcher}
Status == {"todo", "ready", "running", "blocked", "needs_revision", "done", "failed", "archived"}
Outcomes == {"none", "fresh", "quiet", "completed", "blocked", "cancelled"}
Stages == {"idle", "promote", "stall", "reclaim", "claim"}
AtWork == {"working", "verifying"}

\* Every variable has its type, and a task is running exactly while it has a run.
TypeOK ==
    /\ status \in [Task -> Status] /\ current \in [Task -> Run \cup {None}]
    /\ \A t \in Task : status[t] = "running" <=> current[t] # None
    /\ retries \in [Task -> Nat] /\ blocks \in [Task -> Nat]
    /\ ticket \in [Run -> Task \cup {None}] /\ outcome \in [Run -> Outcomes]
    /\ starter \in [Run -> {"none", "poll", "dispatch", "tool"}]
    /\ calls \subseteq Run
    /\ work \in [Run -> {"none", "queued", "over"} \cup AtWork]
    /\ loop \in [Loops -> [stage : Stages, list : SUBSET Task, stale : SUBSET Task]]
    /\ up \subseteq Serve /\ events \in 0..MaxEvents

Resting == [stage |-> "idle", list |-> {}, stale |-> {}]

Init ==
    /\ status = [t \in Task |-> "todo"] /\ current = [t \in Task |-> None]
    /\ retries = [t \in Task |-> 0] /\ blocks = [t \in Task |-> 0]
    /\ ticket = [r \in Run |-> None] /\ outcome = [r \in Run |-> "none"]
    /\ starter = [r \in Run |-> "none"]
    /\ work = [r \in Run |-> "none"] /\ calls = {}
    /\ loop = [p \in Loops |-> Resting]
    /\ up = Serve /\ events = 0

-----------------------------------------------------------------------------
(* The store's transactions.                                               *)

RunsOf(t) == {r \in Run : ticket[r] = t}
\* An open run was heard of within the threshold, or it is quiet.
Open(r) == outcome[r] \in {"fresh", "quiet"}
Running == {t \in Task : status[t] = "running"}

\* The run a task leaves is closed as `end`.
Closes(t, end) ==
    /\ current' = [current EXCEPT ![t] = None]
    /\ outcome' = IF current[t] = None THEN outcome ELSE [outcome EXCEPT ![current[t]] = end]

\* updateStatus to anything but running: leaving `running` cancels the open run.
SetStatus(t, to) ==
    /\ status' = [status EXCEPT ![t] = to]
    /\ Closes(t, "cancelled")
    /\ UNCHANGED <<retries, blocks, ticket, starter>>

\* updateStatus(running) is refused while the task has a run.
ClaimableTwice(t) == TRUE
Claimable(t) == current[t] = None

\* It is refused on a full board too, if the store was opened with the WIP cap.  Only
\* the agents' tools open it so; the loops, the supervisor and the web do not.
HasRoom(t) == Cardinality(Running \ {t}) < MaxInProgress

\* Every claim but the first counts; counts past the budget are not told apart.
NextRetry(t) == IF RunsOf(t) = {} \/ retries[t] > MaxRetries THEN retries[t] ELSE retries[t] + 1

\* It opens a run; a task whose budget is spent fails instead.
NextRun == Cardinality({x \in Run : ticket[x] # None}) + 1

FailsSpent(t) ==
    /\ NextRetry(t) > MaxRetries
    /\ retries' = [retries EXCEPT ![t] = NextRetry(t)]
    /\ status' = [status EXCEPT ![t] = "failed"]
    /\ UNCHANGED <<current, blocks, runVars>>

OpensRun(t, r, how) ==
    /\ NextRetry(t) <= MaxRetries
    /\ retries' = [retries EXCEPT ![t] = NextRetry(t)]
    /\ status' = [status EXCEPT ![t] = "running"]
    /\ current' = [current EXCEPT ![t] = r]
    /\ ticket' = [ticket EXCEPT ![r] = t]
    /\ outcome' = [outcome EXCEPT ![r] = "fresh"]
    /\ starter' = [starter EXCEPT ![r] = how]
    /\ UNCHANGED blocks

\* endRun as done.
CompletesRun(t) ==
    /\ status' = [status EXCEPT ![t] = "done"]
    /\ Closes(t, "completed")
    /\ blocks' = [blocks EXCEPT ![t] = 0]
    /\ UNCHANGED <<retries, ticket, starter>>

\* endRun as blocked; n is the count of blocks of one kind in a row, and the breaker
\* sends the task to review.
BlocksRun(t, n) ==
    /\ status' = [status EXCEPT ![t] = IF n >= BlockLimit THEN "needs_revision" ELSE "blocked"]
    /\ Closes(t, "blocked")
    /\ blocks' = [blocks EXCEPT ![t] = n]
    /\ UNCHANGED <<retries, ticket, starter>>

Parked(t) == \E p \in ParentsOf[t] : status[p] # "done"

-----------------------------------------------------------------------------
(* The loops.  A tick goes through its stages in order: each lists tasks    *)
(* and then writes them one by one.                                        *)

QuietRunning == {t \in Running : outcome[current[t]] = "quiet"}
Inflight == {ticket[r] : r \in calls}

\* What loop p lists for a stage.
Listing(p, stage) ==
    [promote |-> {t \in Task : status[t] = "todo" /\ ~Parked(t)},
     stall   |-> QuietRunning,
     reclaim |-> IF p = Dispatcher THEN Running ELSE QuietRunning,
     claim   |-> {t \in Task : status[t] = "ready" /\ (p = Dispatcher \/ AssigneeOf[t] = p)}
    ][stage]

\* The stages of a tick that come after one; only the dispatcher looks for stalled runs.
Later(p, stage) ==
    LET rest == [idle    |-> {"promote", "stall", "reclaim", "claim"},
                 promote |-> {"stall", "reclaim", "claim"},
                 stall   |-> {"reclaim", "claim"},
                 reclaim |-> {"claim"},
                 claim   |-> {}][stage]
    IN  {x \in rest : (x = "stall" => p = Dispatcher) /\ Listing(p, x) # {}}

Alive(p) == p = Dispatcher \/ p \in up

\* The next stage with anything to do; after the last one the loop sleeps.
List(p) ==
    /\ Alive(p) /\ loop[p].list = {}
    /\ LET later == Later(p, loop[p].stage) IN
       IF later = {} THEN loop' = [loop EXCEPT ![p] = Resting]
       ELSE \E next \in later :
              /\ \A x \in later : x = next \/ x \in Later(p, next)
              /\ loop' = [loop EXCEPT ![p] =
                            [stage |-> next, list |-> Listing(p, next),
                             stale |-> IF next = "reclaim" THEN QuietRunning ELSE {}]]
    /\ UNCHANGED <<taskVars, runVars, work, calls, faultVars>>

\* Loop p comes to task t of its list.
Takes(p, t, stage) ==
    /\ Alive(p) /\ loop[p].stage = stage /\ t \in loop[p].list
    /\ loop' = [loop EXCEPT ![p].list = @ \ {t}, ![p].stale = @ \ {t}]

\* promoteReady
Promote(p, t) ==
    /\ Takes(p, t, "promote")
    /\ SetStatus(t, "ready")
    /\ UNCHANGED <<work, calls, faultVars>>

\* The dispatcher blocks a run without heartbeats; it throws when the task has none.
Stall(t) ==
    /\ Takes(Dispatcher, t, "stall")
    /\ IF current[t] # None THEN BlocksRun(t, 0) ELSE UNCHANGED <<taskVars, runVars>>
    /\ UNCHANGED <<work, calls, faultVars>>

\* The dispatcher reclaims what its owner abandoned or left quiet, unless the call is
\* still in flight; a poll loop reclaims what it listed.
Abandoned(p, t) ==
    \/ p # Dispatcher
    \/ /\ t \notin Inflight
       /\ AssigneeOf[t] \notin up \/ t \in loop[p].stale

\* reclaimTask asks neither for the status nor for the run it was listed with.
Reclaim(p, t) ==
    /\ Takes(p, t, "reclaim")
    /\ IF Abandoned(p, t) THEN SetStatus(t, "ready") ELSE UNCHANGED <<taskVars, runVars>>
    /\ UNCHANGED <<work, calls, faultVars>>

\* The dispatcher passes over a task in flight, and over one whose assignee the mesh
\* does not know.
Skips(p, t) == p = Dispatcher /\ (t \in Inflight \/ AssigneeOf[t] \notin up)

Claim(p, t) ==
    /\ Takes(p, t, "claim")
    /\ p = Dispatcher => t \notin Inflight
    /\ Claimable(t)
    /\ \/ FailsSpent(t) /\ UNCHANGED <<work, calls>>
       \/ \E r \in Run :
            /\ r = NextRun
            /\ \/ /\ p = Dispatcher /\ OpensRun(t, r, "dispatch")
                  /\ calls' = calls \cup {r} /\ UNCHANGED work
               \/ /\ p # Dispatcher /\ OpensRun(t, r, "poll")
                  /\ work' = [work EXCEPT ![r] = "queued"] /\ UNCHANGED calls
    /\ UNCHANGED faultVars

PassOver(p, t) ==
    /\ Takes(p, t, "claim")
    /\ ~Claimable(t) \/ Skips(p, t) \/ \A r \in Run : ticket[r] # None
    /\ UNCHANGED <<taskVars, runVars, work, calls, faultVars>>

Tick(p) ==
    \/ List(p)
    \/ \E t \in Task : Promote(p, t) \/ Reclaim(p, t) \/ Claim(p, t) \/ PassOver(p, t)
    \/ p = Dispatcher /\ \E t \in Task : Stall(t)

-----------------------------------------------------------------------------
(* Dispatch calls and agents.                                              *)

HostOf(r) == AssigneeOf[ticket[r]]

\* /notify puts the turn in the member's lane.
NotifyArrives(r) ==
    /\ r \in calls /\ work[r] = "none" /\ HostOf(r) \in up
    /\ work' = [work EXCEPT ![r] = "queued"]
    /\ UNCHANGED <<taskVars, runVars, calls, loop, faultVars>>

\* The answer comes back; or the call fails or times out, whether or not it arrived,
\* and the dispatcher blocks whatever run the task then has.
CallEnds(r) ==
    /\ r \in calls /\ calls' = calls \ {r}
    /\ \/ work[r] # "none" /\ UNCHANGED <<taskVars, runVars>>
       \/ IF current[ticket[r]] # None THEN BlocksRun(ticket[r], 0)
          ELSE UNCHANGED <<taskVars, runVars>>
    /\ UNCHANGED <<work, loop, faultVars>>

\* A lane runs its tasks one by one; polled and dispatched tasks have different lanes.
\* A polled task is heartbeated as it starts, if it still has its run.
Start(r) ==
    /\ work[r] = "queued"
    /\ \A x \in Run : starter[x] = starter[r] /\ ticket[x] # None /\ HostOf(x) = HostOf(r)
                        => work[x] \notin AtWork /\ (work[x] = "queued" => r <= x)
    /\ work' = [work EXCEPT ![r] = "working"]
    /\ outcome' = IF starter[r] = "poll" /\ Open(r) THEN [outcome EXCEPT ![r] = "fresh"] ELSE outcome
    /\ UNCHANGED <<taskVars, ticket, starter, calls, loop, faultVars>>

\* A polled agent is heartbeated by a timer as long as it works on its run.
BeatsForEver(r) == starter[r] = "poll" /\ work[r] \in AtWork \cup {"over"} /\ Open(r)
Beating(r) == starter[r] = "poll" /\ work[r] \in AtWork /\ Open(r)

GoesQuiet(r) ==
    /\ outcome[r] = "fresh" /\ ~Beating(r)
    /\ outcome' = [outcome EXCEPT ![r] = "quiet"]
    /\ UNCHANGED <<taskVars, ticket, starter, work, calls, loop, faultVars>>

\* kanban_heartbeat names the task, not the run.
Heartbeat(r) ==
    /\ work[r] = "working" /\ ticket[r] \in QuietRunning
    /\ outcome' = [outcome EXCEPT ![current[ticket[r]]] = "fresh"]
    /\ UNCHANGED <<taskVars, ticket, starter, work, calls, loop, faultVars>>

\* kanban_complete asks the verifier, and waits for it, if the task is running.
AskVerifier(r) ==
    /\ work[r] = "working" /\ status[ticket[r]] = "running"
    /\ work' = [work EXCEPT ![r] = "verifying"]
    /\ UNCHANGED <<taskVars, runVars, calls, loop, faultVars>>

\* The verdict: accepted, the task's run is completed, if it has one; rejected, the
\* task needs revision.  The turn goes on.
Verdict(r) ==
    LET t == ticket[r] IN
    /\ work[r] = "verifying" /\ work' = [work EXCEPT ![r] = "working"]
    /\ \/ IF current[t] # None THEN CompletesRun(t) ELSE UNCHANGED <<taskVars, runVars>>
       \/ SetStatus(t, "needs_revision")
    /\ UNCHANGED <<calls, loop, faultVars>>

\* kanban_block: of the kind of the block before, of another, or of none.
BlockTicket(r) ==
    LET t == ticket[r] IN
    /\ work[r] = "working" /\ current[t] # None
    /\ \E n \in {blocks[t] + 1, 1, 0} : BlocksRun(t, n)
    /\ UNCHANGED <<work, calls, loop, faultVars>>

\* kanban_update_status to `running`: how a task that needs revision is taken up again.
ClaimByTool(r) ==
    LET t == ticket[r] IN
    /\ work[r] = "working" /\ Claimable(t) /\ HasRoom(t)
    /\ FailsSpent(t) \/ (NextRun \in Run /\ OpensRun(t, NextRun, "tool"))
    /\ UNCHANGED <<work, calls, loop, faultVars>>

\* The turn ends, whether or not the board was told.
TurnEnds(r) ==
    /\ work[r] = "working" /\ work' = [work EXCEPT ![r] = "over"]
    /\ UNCHANGED <<taskVars, runVars, calls, loop, faultVars>>

Agent(r) ==
    \/ Start(r) \/ AskVerifier(r) \/ Verdict(r) \/ BlockTicket(r) \/ ClaimByTool(r)
    \/ TurnEnds(r)

-----------------------------------------------------------------------------
(* Humans, crashes and restarts.                                           *)

\* The board's page and kanban_unblock: a task asked to be ready waits for its parents;
\* and the archive.
Edit(t) ==
    /\ events < MaxEvents /\ events' = events + 1
    /\ \/ status[t] # "ready" /\ SetStatus(t, IF Parked(t) THEN "todo" ELSE "ready")
       \/ status[t] # "archived" /\ SetStatus(t, "archived")
    /\ UNCHANGED <<work, calls, loop, up>>

Crash(s) ==
    /\ s \in up /\ events < MaxEvents /\ events' = events + 1
    /\ up' = up \ {s} /\ loop' = [loop EXCEPT ![s] = Resting]
    /\ work' = [r \in Run |-> IF ticket[r] # None /\ HostOf(r) = s /\ work[r] # "none"
                              THEN "over" ELSE work[r]]
    /\ UNCHANGED <<taskVars, runVars, calls>>

Restart(s) ==
    /\ s \notin up /\ up' = up \cup {s}
    /\ UNCHANGED <<taskVars, runVars, work, calls, loop, events>>

\* stop(), or a crash, of the supervisor: its calls are gone and their runs stay open.
StopDispatcher ==
    /\ events < MaxEvents /\ events' = events + 1
    /\ calls' = {} /\ loop' = [loop EXCEPT ![Dispatcher] = Resting]
    /\ UNCHANGED <<taskVars, runVars, work, up>>

Next ==
    \/ \E p \in Loops : Tick(p)
    \/ \E r \in Run : Agent(r) \/ NotifyArrives(r) \/ CallEnds(r) \/ GoesQuiet(r) \/ Heartbeat(r)
    \/ \E t \in Task : Edit(t)
    \/ \E s \in Serve : Crash(s) \/ Restart(s)
    \/ StopDispatcher

Spec == Init /\ [][Next]_vars

\* Loops tick; agents go on and their turns end; calls end and silence is noticed; a
\* supervised member comes back.
Fairness ==
    /\ \A p \in Loops : WF_vars(Tick(p))
    /\ WF_vars(\E r \in Run : Agent(r))
    /\ WF_vars(\E r \in Run : CallEnds(r) \/ GoesQuiet(r))
    /\ WF_vars(\E s \in Serve : Restart(s))

FairSpec == Spec /\ Fairness

-----------------------------------------------------------------------------
(* What the board promises.                                                *)

\* Whatever the loops listed and whoever reclaims: a ticket has one open run at a time,
\* every further run is counted, and none is opened past the budget.
ClaimsAccounted ==
    /\ \A t \in Task : {r \in RunsOf(t) : Open(r)} = {current[t]} \ {None}
    /\ \A t \in Task : Cardinality(RunsOf(t)) <= retries[t] + 1
    /\ \A t \in Running : retries[t] <= MaxRetries

\* A claimed ticket does not stay claimed for ever: its agent ends the run, or dies or
\* falls silent and a loop takes it back.
OpenRunsEnd == \A t \in Task : []<>(current[t] = None)

\* Not kept, see the README: "max tasks in `running` across the whole board".
BoardCapped == Cardinality(Running) <= MaxInProgress

\* Not kept, see the README: kanban_complete "acts on exactly the states
\* store.completeRun would", that is, a verdict changes a running task or none.
VerdictOnRunning ==
    [][\A r \in Run : Verdict(r) /\ status' # status => status[ticket[r]] = "running"]_vars

=============================================================================
