--------------------------- MODULE BackgroundJobs ---------------------------
(***************************************************************************)
(* Background jobs: the rows of SQLiteJobStore, the executors that claim,  *)
(* run, heartbeat and finish them, the sweeps that file abandoned rows,    *)
(* cancellation, durable steers, and the notice that announces a finished  *)
(* job.  Several processes share the database; each has one executor and   *)
(* one gateway, all of one bot (one affinity).                             *)
(*                                                                         *)
(* A process draws a fresh owner identity at each start.  Here it keeps    *)
(* its name, and when it goes down its rows pass to Nobody: an identity    *)
(* that no later process has.                                              *)
(***************************************************************************)
EXTENDS Naturals, FiniteSets

CONSTANTS
    Exec,         \* processes with an executor
    Nobody,       \* the owner of a dead process's rows
    Released,     \* the affinity label queued rows are handed back under
    MaxJobs,      \* bound on the jobs created
    Slots,        \* maxConcurrentJobs
    MaxKills,     \* bound on killed processes
    MaxRetired,   \* bound on drains and shutdowns
    MaxStalls     \* bound on executors that miss their beats while alive

ASSUME JobsAssumption ==
    /\ {Nobody, Released} \cap Exec = {} /\ Nobody # Released
    /\ {MaxJobs, Slots, MaxKills, MaxRetired, MaxStalls} \subseteq Nat

Job == 1..MaxJobs     \* in created_at order

VARIABLES
    \* The database.
    status, owner,
    age,       \* "old": queued past its TTL, or no heartbeat for staleMs
    error,     \* what `error` says of an ended job
    cancel,    \* jobs with cancel_requested
    steer,     \* the state of the job's steer, if it has one
    delivered, \* jobs with delivered_at
    \* Each process's memory.
    phase,
    stage,     \* stage[e][j]: how far e's run of j is
    outcome,   \* outcome[e][j]: what the runner's events amount to
    sink,      \* sink[e][j]: where the steer is in the run's sink
    cancelled, \* runs whose observe pass saw the flag
    parked,    \* blockedJobs
    unswept,   \* the boot sweep for undelivered jobs is still to run
    wakes,     \* jobs e intends to announce
    sending,   \* jobs e has claimed and not yet handed to the ledger
    \* What really happened, and what bounds it.
    heard,     \* jobs whose steer the model read
    stalled,   \* jobs whose live run missed its beats
    filed,     \* jobs filed stale
    announced, \* announced[j]: notices handed to the ledger
    cut,       \* jobs whose notice a dying process held
    late,      \* jobs queued by a process that had handed its rows on
    spent

rowVars == <<status, owner, age, error, cancel, steer, delivered>>
runVars == <<stage, outcome, sink, cancelled, parked>>
tellVars == <<unswept, wakes, sending>>
ghostVars == <<heard, stalled, filed, announced, cut, late, spent>>
vars == <<rowVars, phase, runVars, tellVars, ghostVars>>

Statuses == {"absent", "queued", "running", "blocked", "done", "failed",
             "aborted", "stale", "expired"}
Active == {"queued", "running", "blocked"}
Ended == {"done", "failed", "aborted", "expired"}
Phases == {"up", "draining", "closing", "down"}
Outcomes == {"open", "answered", "errored", "costly", "thrown"}
Counters == {"kill", "retire", "stall"}

\* Every variable has its type; a process that is down remembers nothing.
TypeOK ==
    /\ status \in [Job -> Statuses]
    /\ owner \in [Job -> Exec \cup {Nobody, Released}]
    /\ age \in [Job -> {"new", "old"}]
    /\ error \in [Job -> {"none", "cancel", "shutdown", "failure"}]
    /\ {cancel, delivered, heard, stalled, filed, cut, late} \subseteq SUBSET Job
    /\ steer \in [Job -> {"none", "pending", "read", "unread"}]
    /\ phase \in [Exec -> Phases]
    /\ stage \in [Exec -> [Job -> {"idle", "starting", "live", "ending"}]]
    /\ outcome \in [Exec -> [Job -> Outcomes]]
    /\ sink \in [Exec -> [Job -> {"none", "queued", "drained"}]]
    /\ {cancelled, parked, wakes, sending} \subseteq [Exec -> SUBSET Job]
    /\ unswept \subseteq Exec
    /\ announced \in [Job -> Nat]
    /\ spent \in [Counters -> Nat]
    /\ \A e \in Exec : phase[e] = "down" =>
         /\ \A j \in Job : stage[e][j] = "idle"
         /\ parked[e] = {} /\ wakes[e] = {} /\ sending[e] = {}

Init ==
    /\ status = [j \in Job |-> "absent"]
    /\ owner = [j \in Job |-> Nobody]
    /\ age = [j \in Job |-> "new"]
    /\ error = [j \in Job |-> "none"]
    /\ steer = [j \in Job |-> "none"]
    /\ cancel = {} /\ delivered = {}
    /\ phase = [e \in Exec |-> "up"]
    /\ stage = [e \in Exec |-> [j \in Job |-> "idle"]]
    /\ outcome = [e \in Exec |-> [j \in Job |-> "open"]]
    /\ sink = [e \in Exec |-> [j \in Job |-> "none"]]
    /\ cancelled = [e \in Exec |-> {}]
    /\ parked = [e \in Exec |-> {}]
    /\ unswept = {}
    /\ wakes = [e \in Exec |-> {}]
    /\ sending = [e \in Exec |-> {}]
    /\ heard = {} /\ stalled = {} /\ filed = {} /\ cut = {} /\ late = {}
    /\ announced = [j \in Job |-> 0]
    /\ spent = [k \in Counters |-> 0]

Spend(kind, max) == spent[kind] < max /\ spent' = [spent EXCEPT ![kind] = @ + 1]

\* The claimed rows an executor runs, and those of them told to stop: by a
\* cancel it has seen, by a spend cap, by its own shutdown.
Running(e) == {j \in Job : stage[e][j] # "idle"}
Aborted(e, j) ==
    j \in cancelled[e] \/ outcome[e][j] = "costly" \/ phase[e] = "closing"

-----------------------------------------------------------------------------
(* Queue *)

\* store.create by a turn of process e: a tool call under way when the process
\* begins to close still completes.
Create(e, j) ==
    /\ phase[e] # "down"
    /\ status[j] = "absent"
    /\ \A i \in Job : i < j => status[i] # "absent"
    /\ status' = [status EXCEPT ![j] = "queued"]
    /\ owner' = [owner EXCEPT ![j] = e]
    /\ age' = [age EXCEPT ![j] = "new"]
    /\ late' = IF phase[e] = "closing" THEN late \cup {j} ELSE late
    /\ UNCHANGED <<error, cancel, steer, delivered, phase, runVars, tellVars,
                   heard, stalled, filed, announced, cut, spent>>

Claimable(e) == {j \in Job : status[j] = "queued" /\ owner[j] \in {e, Released}}

\* One turn of claimRows: the oldest claimable row, while a slot is free.
Claim(e, j) ==
    /\ phase[e] = "up"
    /\ Cardinality(Running(e)) < Slots
    /\ j \in Claimable(e) /\ \A i \in Claimable(e) : j <= i
    /\ status' = [status EXCEPT ![j] = "running"]
    /\ owner' = [owner EXCEPT ![j] = e]
    /\ age' = [age EXCEPT ![j] = "new"]
    /\ stage' = [stage EXCEPT ![e][j] = "starting"]
    /\ UNCHANGED <<error, cancel, steer, delivered, phase, outcome, sink, cancelled,
                   parked, tellVars, ghostVars>>

\* A bug the runs must notice: the rows stay with the executor that leaves.
KeptBack(e) == owner

\* releaseQueued: e's queued rows go to whoever has its affinity.
HandedOn(e) ==
    [j \in Job |-> IF status[j] = "queued" /\ owner[j] = e THEN Released ELSE owner[j]]

-----------------------------------------------------------------------------
(* The run *)

\* The aggregate spend gate refuses the run before it starts.
RefuseAtCap(e, j) ==
    /\ stage[e][j] = "starting"
    /\ stage' = [stage EXCEPT ![e][j] = "ending"]
    /\ outcome' = [outcome EXCEPT ![e][j] = "costly"]
    /\ UNCHANGED <<rowVars, phase, sink, cancelled, parked, tellVars, ghostVars>>

\* What a store read puts into the run's sink: steers above its cursor.
Pulled(e, j) ==
    sink' = IF steer[j] = "pending" /\ sink[e][j] = "none"
            THEN [sink EXCEPT ![e][j] = "queued"] ELSE sink

\* Steers sent while the job was queued are pulled, then the runner starts.
BeginRun(e, j) ==
    /\ stage[e][j] = "starting"
    /\ stage' = [stage EXCEPT ![e][j] = "live"]
    /\ Pulled(e, j)
    /\ UNCHANGED <<rowVars, phase, outcome, cancelled, parked, tellVars, ghostVars>>

\* The runner's events: an answer, an error, a usage beyond the job's cap.  Past
\* an abort they are no longer read.
Event(e, j) ==
    /\ stage[e][j] = "live" /\ ~Aborted(e, j) /\ j \notin parked[e]
    /\ \E o \in {"answered", "errored", "costly"} :
         /\ outcome[e][j] = "errored" => o # "answered"
         /\ outcome' = [outcome EXCEPT ![e][j] = o]
    /\ UNCHANGED <<rowVars, phase, stage, sink, cancelled, parked, tellVars, ghostVars>>

\* The runner's iterator ends, or is closed at the first event past an abort.
EndRun(e, j) ==
    /\ stage[e][j] = "live"
    /\ j \in parked[e] => Aborted(e, j)
    /\ stage' = [stage EXCEPT ![e][j] = "ending"]
    /\ UNCHANGED <<rowVars, phase, outcome, sink, cancelled, parked, tellVars, ghostVars>>

\* The runner, or a store call before it, throws.
Throw(e, j) ==
    /\ stage[e][j] \in {"starting", "live"}
    /\ stage' = [stage EXCEPT ![e][j] = "ending"]
    /\ outcome' = [outcome EXCEPT ![e][j] = "thrown"]
    /\ UNCHANGED <<rowVars, phase, sink, cancelled, parked, tellVars, ghostVars>>

\* markJobBlocked: the run waits for a person and stops beating.
Block(e, j) ==
    /\ stage[e][j] = "live" /\ ~Aborted(e, j) /\ j \notin parked[e]
    /\ parked' = [parked EXCEPT ![e] = @ \cup {j}]
    /\ status' = IF status[j] = "running" THEN [status EXCEPT ![j] = "blocked"] ELSE status
    /\ UNCHANGED <<owner, age, error, cancel, steer, delivered, phase, stage, outcome,
                   sink, cancelled, tellVars, ghostVars>>

\* A bug the runs must notice: the resumed run keeps the beat it parked with.
ResumedUnbeaten(j) == age

\* resumeFromBlocked counts as a beat.
Resumed(j) == IF status[j] = "blocked" THEN [age EXCEPT ![j] = "new"] ELSE age

\* resumeJob: the question was answered, withdrawn or timed out.
Resume(e, j) ==
    /\ j \in parked[e] /\ stage[e][j] = "live"
    /\ parked' = [parked EXCEPT ![e] = @ \ {j}]
    /\ status' = IF status[j] = "blocked" THEN [status EXCEPT ![j] = "running"] ELSE status
    /\ age' = Resumed(j)
    /\ UNCHANGED <<owner, error, cancel, steer, delivered, phase, stage, outcome,
                   sink, cancelled, tellVars, ghostVars>>

\* heartbeat, on its timer, paused while the run is parked.
Beat(e, j) ==
    /\ stage[e][j] = "live" /\ j \notin parked[e]
    /\ status[j] = "running" /\ age[j] = "old"
    /\ age' = [age EXCEPT ![j] = "new"]
    /\ UNCHANGED <<status, owner, error, cancel, steer, delivered, phase, runVars,
                   tellVars, ghostVars>>

\* markSteersRead for what the harness drained.
MarkedRead(e, j) == IF sink[e][j] = "drained" /\ steer[j] = "pending" THEN "read" ELSE steer[j]

\* observePass: the cancel flag (also while parked), new steers, read marks.
Observe(e, j) ==
    /\ stage[e][j] = "live"
    /\ \/ j \in cancel /\ j \notin cancelled[e]
       \/ steer[j] = "pending" /\ sink[e][j] # "queued"
    /\ cancelled' = IF j \in cancel THEN [cancelled EXCEPT ![e] = @ \cup {j}] ELSE cancelled
    /\ Pulled(e, j)
    /\ steer' = [steer EXCEPT ![j] = MarkedRead(e, j)]
    /\ UNCHANGED <<status, owner, age, error, cancel, delivered, phase, stage, outcome,
                   parked, tellVars, ghostVars>>

\* A seam of the harness hands the steer to the model.
ReadSteer(e, j) ==
    /\ stage[e][j] = "live" /\ ~Aborted(e, j) /\ j \notin parked[e]
    /\ sink[e][j] = "queued"
    /\ sink' = [sink EXCEPT ![e][j] = "drained"]
    /\ heard' = heard \cup {j}
    /\ UNCHANGED <<rowVars, phase, stage, outcome, cancelled, parked, tellVars,
                   stalled, filed, announced, cut, late, spent>>

\* The terminal branch of runOne: a pair of status and error.
Verdict(e, j) ==
    LET closing == phase[e] = "closing"
        out     == outcome[e][j]
    IN IF out = "costly" THEN <<"failed", "failure">>
       ELSE IF out = "thrown"
       THEN IF closing THEN <<"aborted", "shutdown">> ELSE <<"failed", "failure">>
       ELSE IF out = "answered" THEN <<"done", "none">>
       ELSE IF j \in cancelled[e] THEN <<"aborted", "cancel">>
       ELSE IF closing THEN <<"aborted", "shutdown">>
       ELSE IF out = "errored" THEN <<"failed", "failure">>
       ELSE <<"done", "none">>

\* A bug the runs must notice: the sweep to unread does not wait for the marks.
SweptUnmarked(e, j) == IF steer[j] = "pending" THEN "unread" ELSE steer[j]

\* The steer after finish: the marks are settled, then what is left is unread.
SweptSteer(e, j) == IF MarkedRead(e, j) = "pending" THEN "unread" ELSE MarkedRead(e, j)

\* A user's cancel is silent; a job its runtime cut is announced.
Announces(s, err) == s \in {"done", "failed"} \/ (s = "aborted" /\ err = "shutdown")

\* finish refuses a row that is not its run's any more.
Finishable(j) == status[j] \in {"running", "stale", "blocked"}

Finish(e, j) ==
    /\ stage[e][j] = "ending"
    /\ Finishable(j)
    /\ LET v == Verdict(e, j)
       IN /\ status' = [status EXCEPT ![j] = v[1]]
          /\ error' = [error EXCEPT ![j] = v[2]]
          /\ wakes' = IF Announces(v[1], v[2]) THEN [wakes EXCEPT ![e] = @ \cup {j}]
                      ELSE wakes
    /\ steer' = [steer EXCEPT ![j] = SweptSteer(e, j)]
    /\ stage' = [stage EXCEPT ![e][j] = "idle"]
    /\ outcome' = [outcome EXCEPT ![e][j] = "open"]
    /\ sink' = [sink EXCEPT ![e][j] = "none"]
    /\ cancelled' = [cancelled EXCEPT ![e] = @ \ {j}]
    /\ parked' = [parked EXCEPT ![e] = @ \ {j}]
    /\ UNCHANGED <<owner, age, cancel, delivered, phase, unswept, sending, ghostVars>>

-----------------------------------------------------------------------------
(* Users and time *)

\* JobControl.stop, from any process.
Cancel(j) ==
    /\ status[j] \in Active /\ j \notin cancel
    /\ cancel' = cancel \cup {j}
    /\ UNCHANGED <<status, owner, age, error, steer, delivered, phase, runVars,
                   tellVars, ghostVars>>

\* JobControl.steer: refused once the job left the active states.
AddSteer(j) ==
    /\ status[j] \in Active /\ steer[j] = "none"
    /\ steer' = [steer EXCEPT ![j] = "pending"]
    /\ UNCHANGED <<status, owner, age, error, cancel, delivered, phase, runVars,
                   tellVars, ghostVars>>

\* Some process runs j and beats for it.
Beating(j) == \E e \in Exec : stage[e][j] # "idle" /\ j \notin parked[e]

\* A queued row outlives its TTL; a row nobody beats for goes without a beat.
GrowOld(j) ==
    /\ status[j] \in Active /\ age[j] = "new" /\ ~Beating(j)
    /\ age' = [age EXCEPT ![j] = "old"]
    /\ UNCHANGED <<status, owner, error, cancel, steer, delivered, phase, runVars,
                   tellVars, ghostVars>>

\* A live executor misses its beats for staleMs: a blocked event loop, a host
\* suspended without its pause being accounted for, a locked database.
Stall(j) ==
    /\ status[j] = "running" /\ age[j] = "new" /\ Beating(j)
    /\ Spend("stall", MaxStalls)
    /\ age' = [age EXCEPT ![j] = "old"]
    /\ stalled' = stalled \cup {j}
    /\ UNCHANGED <<status, owner, error, cancel, steer, delivered, phase, runVars,
                   tellVars, heard, filed, announced, cut, late>>

-----------------------------------------------------------------------------
(* The sweeps: at boot and on a timer, in every process *)

Sweeping(e) == phase[e] \in {"up", "draining"}
Overdue(from) == {j \in Job : status[j] \in from /\ age[j] = "old"}

\* A terminal transition by a sweep; steers still pending are unread.
FiledAs(jobs, s) ==
    /\ jobs # {}
    /\ status' = [j \in Job |-> IF j \in jobs THEN s ELSE status[j]]
    /\ steer' = [j \in Job |-> IF j \in jobs /\ steer[j] = "pending" THEN "unread" ELSE steer[j]]
    /\ UNCHANGED <<owner, age, cancel, delivered, phase, runVars, tellVars>>

\* Bugs the runs must notice: a stale row is queued again; each process files
\* only its own rows; any row without a recent beat is filed.
ReclaimToQueue(e) ==
    /\ Sweeping(e) /\ FiledAs(Overdue({"running"}), "queued")
    /\ filed' = filed \cup Overdue({"running"})
    /\ UNCHANGED <<error, heard, stalled, announced, cut, late, spent>>
ReclaimOwn(e) ==
    /\ Sweeping(e) /\ FiledAs({j \in Overdue({"running"}) : owner[j] = e}, "stale")
    /\ filed' = filed \cup Overdue({"running"})
    /\ UNCHANGED <<error, heard, stalled, announced, cut, late, spent>>

Reclaim(e) ==
    /\ Sweeping(e)
    /\ FiledAs(Overdue({"running"}), "stale")
    /\ error' = [j \in Job |-> IF j \in Overdue({"running"}) THEN "failure" ELSE error[j]]
    /\ filed' = filed \cup Overdue({"running"})
    /\ UNCHANGED <<heard, stalled, announced, cut, late, spent>>

Expire(e) ==
    /\ Sweeping(e)
    /\ FiledAs(Overdue({"queued"}), "expired")
    /\ error' = [j \in Job |-> IF j \in Overdue({"queued"}) THEN "failure" ELSE error[j]]
    /\ UNCHANGED ghostVars

-----------------------------------------------------------------------------
(* Announcing *)

\* A bug the runs must notice: a job its runtime cut is never listed.
UndeliveredResults == {j \in Job : status[j] \in {"done", "failed"}} \ delivered

\* listUndelivered.
Undelivered == {j \in Job : Announces(status[j], error[j])} \ delivered

\* sweepUndeliveredJobs, once after the adapters have started.
SweepUndelivered(e) ==
    /\ phase[e] # "down" /\ e \in unswept
    /\ unswept' = unswept \ {e}
    /\ wakes' = [wakes EXCEPT ![e] = @ \cup Undelivered]
    /\ UNCHANGED <<rowVars, phase, runVars, sending, ghostVars>>

\* A bug the runs must notice: the claim is not conditional.
ClaimUnguarded(j) == TRUE

\* claimDelivery: one process in all wins the right to announce.
ClaimWon(j) == j \notin delivered

ClaimNotice(e, j) ==
    /\ j \in wakes[e]
    /\ wakes' = [wakes EXCEPT ![e] = @ \ {j}]
    /\ delivered' = delivered \cup {j}
    /\ sending' = IF ClaimWon(j) THEN [sending EXCEPT ![e] = @ \cup {j}] ELSE sending
    /\ UNCHANGED <<status, owner, age, error, cancel, steer, phase, runVars, unswept,
                   ghostVars>>

\* deliverCompletion: from here the ledger owns the notice.
RecordNotice(e, j) ==
    /\ j \in sending[e]
    /\ sending' = [sending EXCEPT ![e] = @ \ {j}]
    /\ announced' = [announced EXCEPT ![j] = @ + 1]
    /\ UNCHANGED <<rowVars, phase, runVars, unswept, wakes, heard, stalled, filed,
                   cut, late, spent>>

-----------------------------------------------------------------------------
(* Processes *)

\* drain: the loop is replaced; running jobs end by themselves.
BeginDrain(e) ==
    /\ phase[e] = "up" /\ Spend("retire", MaxRetired)
    /\ phase' = [phase EXCEPT ![e] = "draining"]
    /\ owner' = HandedOn(e)
    /\ UNCHANGED <<status, age, error, cancel, steer, delivered, runVars, tellVars,
                   heard, stalled, filed, announced, cut, late>>

\* A later poll of a draining executor hands on what its last jobs queued.
HandOn(e) ==
    /\ phase[e] = "draining" /\ HandedOn(e) # owner
    /\ owner' = HandedOn(e)
    /\ UNCHANGED <<status, age, error, cancel, steer, delivered, phase, runVars,
                   tellVars, ghostVars>>

\* shutdown: queued rows are handed on and every run is aborted.
Close(e) ==
    /\ phase' = [phase EXCEPT ![e] = "closing"]
    /\ owner' = HandedOn(e)
    /\ UNCHANGED <<status, age, error, cancel, steer, delivered, runVars, tellVars,
                   heard, stalled, filed, announced, cut, late>>

BeginShutdown(e) == phase[e] = "up" /\ Spend("retire", MaxRetired) /\ Close(e)
EndDrain(e) == phase[e] = "draining" /\ Running(e) = {} /\ Close(e) /\ UNCHANGED spent

\* The memory of e is gone, and nobody has its identity any more.
Gone(e) ==
    /\ phase' = [phase EXCEPT ![e] = "down"]
    /\ owner' = [j \in Job |-> IF owner[j] = e THEN Nobody ELSE owner[j]]
    /\ stage' = [stage EXCEPT ![e] = [j \in Job |-> "idle"]]
    /\ outcome' = [outcome EXCEPT ![e] = [j \in Job |-> "open"]]
    /\ sink' = [sink EXCEPT ![e] = [j \in Job |-> "none"]]
    /\ cancelled' = [cancelled EXCEPT ![e] = {}]
    /\ parked' = [parked EXCEPT ![e] = {}]
    /\ unswept' = unswept \ {e}
    /\ wakes' = [wakes EXCEPT ![e] = {}]
    /\ sending' = [sending EXCEPT ![e] = {}]
    /\ cut' = cut \cup sending[e]
    /\ UNCHANGED <<status, age, error, cancel, steer, delivered, heard, stalled, filed,
                   announced, late>>

Exit(e) == phase[e] = "closing" /\ Running(e) = {} /\ sending[e] = {}
           /\ Gone(e) /\ UNCHANGED spent
Kill(e) == phase[e] # "down" /\ Spend("kill", MaxKills) /\ Gone(e)

Boot(e) ==
    /\ phase[e] = "down"
    /\ phase' = [phase EXCEPT ![e] = "up"]
    /\ unswept' = unswept \cup {e}
    /\ UNCHANGED <<rowVars, runVars, wakes, sending, ghostVars>>

-----------------------------------------------------------------------------
RunStep(e, j) ==
    \/ RefuseAtCap(e, j) \/ BeginRun(e, j) \/ Event(e, j) \/ EndRun(e, j)
    \/ Throw(e, j) \/ Block(e, j) \/ Resume(e, j) \/ Beat(e, j) \/ Observe(e, j)
    \/ ReadSteer(e, j) \/ Finish(e, j)

ProcessStep(e) ==
    \/ Reclaim(e) \/ Expire(e) \/ SweepUndelivered(e) \/ BeginDrain(e) \/ HandOn(e)
    \/ BeginShutdown(e) \/ EndDrain(e) \/ Exit(e) \/ Kill(e) \/ Boot(e)

Next ==
    \/ \E e \in Exec, j \in Job :
         \/ Create(e, j) \/ Claim(e, j) \/ RunStep(e, j)
         \/ ClaimNotice(e, j) \/ RecordNotice(e, j)
    \/ \E e \in Exec : ProcessStep(e)
    \/ \E j \in Job : Cancel(j) \/ AddSteer(j) \/ GrowOld(j) \/ Stall(j)

Spec == Init /\ [][Next]_vars

\* Timers fire and callbacks run; a runner that is not waiting for a person ends
\* (its caps and timeouts); a dead process is started again; time passes.
\* Nothing is assumed of users, answers, or a parked question.
Fairness ==
    /\ \A e \in Exec, j \in Job :
         /\ WF_vars(Claim(e, j)) /\ WF_vars(BeginRun(e, j)) /\ WF_vars(EndRun(e, j))
         /\ WF_vars(Observe(e, j)) /\ WF_vars(Beat(e, j)) /\ WF_vars(Finish(e, j))
         /\ WF_vars(ClaimNotice(e, j)) /\ WF_vars(RecordNotice(e, j))
    /\ \A e \in Exec :
         /\ WF_vars(Reclaim(e)) /\ WF_vars(Expire(e)) /\ WF_vars(SweepUndelivered(e))
         /\ WF_vars(HandOn(e)) /\ WF_vars(EndDrain(e)) /\ WF_vars(Exit(e)) /\ WF_vars(Boot(e))
    /\ \A j \in Job : WF_vars(GrowOld(j))

FairSpec == Spec /\ Fairness

-----------------------------------------------------------------------------
(* What must hold *)

\* One process at most runs a job, and while it does the row is its own and has
\* not been ended or queued again behind its back.
OneRunner ==
    \A e \in Exec, j \in Job : stage[e][j] # "idle" =>
        /\ owner[j] = e /\ Finishable(j)
        /\ \A f \in Exec \ {e} : stage[f][j] = "idle"

\* A job a live process runs is filed stale only if that process missed its
\* beats: never because it was parked on a question, however long.
NoFalseStale ==
    \A e \in Exec, j \in Job :
        stage[e][j] # "idle" /\ status[j] = "stale" => j \in stalled

\* What an ended job's steer is reported as is what became of it, unless a sweep
\* filed the job meanwhile: `read` only if the model saw it, `unread` only if it
\* did not, and never still pending.
SteersAccounted ==
    \A j \in Job : status[j] \in Ended =>
        /\ steer[j] # "pending"
        /\ steer[j] = "read" => j \in heard
        /\ steer[j] = "unread" /\ j \notin filed => j \notin heard

\* A finished job is announced at most once, and one its user cancelled never.
AnnouncedOnce ==
    \A j \in Job : /\ announced[j] <= 1
                   /\ error[j] = "cancel" => announced[j] = 0

\* A queued row that nobody can claim any more was left by a kill, or queued after
\* the hand-over; an executor that drains or shuts down leaves none behind.
GracefullyHandedOn ==
    \A j \in Job : status[j] = "queued" /\ owner[j] = Nobody =>
        spent["kill"] > 0 \/ j \in late

\* An ended job stays as it ended; a stale one ends only by its own run.
EndIsFinal ==
    [][\A j \in Job :
         /\ status[j] \in Ended => status'[j] = status[j] /\ error'[j] = error[j]
         /\ status[j] = "stale" /\ status'[j] # "stale" =>
              \E e \in Exec : stage[e][j] = "ending" /\ stage'[e][j] = "idle"]_vars

\* A job that is queued or running is finished, filed or parked on a question,
\* whatever processes are killed, retired or stalled.
EventuallyEnds ==
    \A j \in Job : status[j] \in {"queued", "running"}
                     ~> status[j] \notin {"queued", "running"}

\* The notice of a finished job reaches the ledger, unless the process that
\* claimed it dies before the record.
EventuallyAnnounced ==
    \A j \in Job : Announces(status[j], error[j]) ~> (announced[j] > 0 \/ j \in cut)

\* Not kept, see the README.  task_cancel: "The owning executor honors it within a
\* bounded window; any process may request."
CancelHonored ==
    \A j \in Job : (j \in cancel /\ status[j] \in Active) ~> status[j] \notin Active

=============================================================================
