------------------------------ MODULE CronJobs ------------------------------
(***************************************************************************)
(* The cron scheduler: jobs.json, the ticks that scan it and run what is   *)
(* due, `run now`, and the edits of people and agents.                     *)
(*                                                                         *)
(* The interval fires a tick every minute and waits for none, so several   *)
(* ticks of a process overlap, and other processes share the file.  A tick *)
(* reads the file once and then goes through its jobs one by one, running  *)
(* them on the way; whatever it writes is a transaction under the jobs     *)
(* lock, but most of what it writes was decided from the first reading.    *)
(***************************************************************************)
EXTENDS Integers, FiniteSets

CONSTANTS
    Job, Process, None,
    Runner,        \* the ticks and the `run now` calls that are under way at once
    ProcessOf,     \* the process of each
    Callers,       \* those of them that may be a `run now`
    Schedules,     \* 0 recurs every Every; any other is the time of a one-shot
    Every,
    Grace,         \* lateness beyond which an occurrence may be missed
    Skips,         \* jobs whose missedRunPolicy is `skip`
    Windowed,      \* jobs with active hours
    LimitOf,       \* repeat of a recurring job: 0 for ever, 1 once, n at most n runs
    MaxParallel,   \* cron.maxParallelJobs
    MaxTime, MaxRuns, MaxEdits, MaxAsks,  \* bounds; of calls of `run now`,
    MaxFaults,     \* of kills, failed locks and slow runs,
    MaxUpsets      \* and of edits, calls and faults in all

ASSUME CronAssumption ==
    /\ ProcessOf \in [Runner -> Process] /\ Callers \subseteq Runner
    /\ None \notin Nat \cup Job \cup Process
    /\ Schedules \subseteq Nat /\ LimitOf \in [Job -> Nat]
    /\ Skips \subseteq Job /\ Windowed \subseteq Job
    /\ {Every, MaxParallel} \subseteq Nat \ {0}
    /\ {Grace, MaxTime, MaxRuns, MaxEdits, MaxAsks, MaxFaults, MaxUpsets} \subseteq Nat

VARIABLES
    file,                \* jobs.json
    now,
    ctl,                 \* what each runner is at
    up, since, deferred, \* each process: when it last ticked, or started
    runs, gone, aged,    \* the runs; those of dead processes, those whose stamp is stale
    \* What really happened.
    life,                \* how often each job was created
    overtaken,           \* jobs edited while a runner held an older reading
    rewound,             \* jobs whose nextRunAt was set back behind a run's
    unstamped,           \* runs whose row was gone when they would have stamped it
    edits, asks, faults

procVars == <<up, since, deferred>>
runVars == <<runs, gone, aged>>
ghosts == <<life, overtaken, rewound, unstamped>>
counters == <<edits, asks, faults>>
vars == <<file, now, ctl, procVars, runVars, ghosts, counters>>

Run  == 1..MaxRuns
Time == Nat \cup {None}
Row  == [status : {"absent", "active", "paused", "done"}, sched : Nat, next : Time,
         stamp : Run \cup {None}, count : Nat, limit : Nat,
         error : {"none", "failed", "missed", "unrun"}]
Live == {"executing", "abandoned"}
Control == [stage : {"idle", "scan", "asked", "running", "release", "settle"},
            at : Nat, list : [Job -> Row],     \* a tick's reading of the clock and the file
            todo : SUBSET Job, late : SUBSET Job,
            job : Job \cup {None}, run : Run \cup {None}, ok : BOOLEAN]
History == [job : Job \cup {None}, life : Nat, due : Time, by : Process \cup {None},
            state : {"unused", "ok", "failed", "killed"} \cup Live]

Absent == [status |-> "absent", sched |-> 0, next |-> None, stamp |-> None,
           count |-> 0, limit |-> 0, error |-> "none"]
Unread == [j \in Job |-> Absent]
Idle   == [stage |-> "idle", at |-> 0, list |-> Unread, todo |-> {}, late |-> {},
           job |-> None, run |-> None, ok |-> FALSE]
Unused == [job |-> None, life |-> 0, due |-> None, by |-> None, state |-> "unused"]

TypeOK ==
    /\ file \in [Job -> Row] /\ now \in 0..MaxTime
    /\ ctl \in [Runner -> Control]
    /\ \A r \in Runner : ctl[r].stage \in {"asked", "running", "release", "settle"}
                           => ctl[r].job # None
    /\ up \subseteq Process /\ since \in [Process -> Nat]
    /\ deferred \in [Process -> SUBSET Job]
    /\ runs \in [Run -> History] /\ gone \subseteq Run /\ aged \subseteq Run
    /\ life \in [Job -> Nat] /\ overtaken \subseteq Job /\ rewound \subseteq Job
    /\ unstamped \subseteq Run
    /\ edits \in 0..MaxEdits /\ asks \in 0..MaxAsks /\ faults \in 0..MaxFaults

Init ==
    /\ file = Unread /\ now = 0
    /\ ctl = [r \in Runner |-> Idle]
    /\ up = Process /\ since = [p \in Process |-> 0] /\ deferred = [p \in Process |-> {}]
    /\ runs = [k \in Run |-> Unused] /\ gone = {} /\ aged = {}
    /\ life = [j \in Job |-> 0] /\ overtaken = {} /\ rewound = {} /\ unstamped = {}
    /\ edits = 0 /\ asks = 0 /\ faults = 0

-----------------------------------------------------------------------------
(* The engine's helpers.                                                   *)

MayUpset == edits + asks + faults < MaxUpsets
MayEdit == edits < MaxEdits /\ MayUpset
MayAsk  == asks < MaxAsks /\ MayUpset
MayFail == faults < MaxFaults /\ MayUpset

\* nextRunForSchedule: strictly after t; a one-shot that has passed has none.
NextAfter(s, t) ==
    IF s = 0 THEN (t \div Every + 1) * Every ELSE IF s > t THEN s ELSE None

\* isRunning: the stamp is young and its process lives.  A bug the runs must notice:
\* its age is not looked at.
FreshForEver(row) == row.stamp # None /\ row.stamp \notin gone
Fresh(row) == row.stamp # None /\ row.stamp \notin gone \cup aged

\* patchJob: it throws if the job is gone, and every caller swallows that.
Patch(j, row) == file' = [file EXCEPT ![j] = IF @.status = "absent" THEN @ ELSE row]

NextRun == Cardinality({k \in Run : runs[k].state # "unused"}) + 1

\* Runs count against cron.maxParallelJobs until they are over or their failure is
\* on record.
InFlight(p) ==
    {t \in Runner : /\ ProcessOf[t] = p /\ ctl[t].run # None /\ runs[ctl[t].run].due # None
                    /\ \/ ctl[t].stage \in {"running", "release"}
                       \/ ctl[t].stage = "settle" /\ ~ctl[t].ok}

Holds(r, j) == j \in ctl[r].todo \/ (ctl[r].job = j /\ ctl[r].stage # "asked")

\* On to the next job of the tick; after the last the tick, or the caller, is done.
Rests(r, j) ==
    LET c == ctl[r] IN
    ctl' = [ctl EXCEPT ![r] =
              IF c.todo \subseteq {j} THEN Idle
              ELSE [c EXCEPT !.stage = "scan", !.todo = c.todo \ {j}, !.late = c.late \ {j},
                             !.list = [c.list EXCEPT ![j] = Absent],
                             !.job = None, !.run = None, !.ok = FALSE]]

-----------------------------------------------------------------------------
(* A tick.                                                                 *)

\* A tick that has read the clock and the file; at the error it read it never looks.
Reading(active, late) ==
    [Idle EXCEPT !.stage = "scan", !.at = now, !.todo = active, !.late = late,
                 !.list = [j \in Job |-> IF j \in active THEN [file[j] EXCEPT !.error = "none"]
                                         ELSE Absent]]

\* fire(), by the interval or by POST /cron/fire: reads the clock and the file, and
\* notes which jobs were already due at the previous tick, or before the process started.
Fire(t) ==
    LET p == ProcessOf[t]
        active == {j \in Job : file[j].status = "active"}
        late == {j \in active : /\ file[j].next # None /\ file[j].next < since[p]
                                /\ now - file[j].next > Grace}
    IN  /\ p \in up /\ ctl[t].stage = "idle"
        /\ ctl' = [ctl EXCEPT ![t] =
                     IF active = {} THEN Idle ELSE Reading(active, late)]
        /\ since' = [since EXCEPT ![p] = now]
        /\ UNCHANGED <<file, now, up, deferred, runVars, ghosts, counters>>

\* The tick comes to job j of its reading.
ComesTo(t, j) == ctl[t].stage = "scan" /\ j \in ctl[t].todo

Upcoming(t, j) == NextAfter(ctl[t].list[j].sched, ctl[t].at)
Timeless(t, j) == ComesTo(t, j) /\ ctl[t].list[j].next = None
IsDue(t, j) == ComesTo(t, j) /\ ctl[t].list[j].next # None /\ ctl[t].list[j].next <= ctl[t].at
Full(t) == Cardinality(InFlight(ProcessOf[t])) >= MaxParallel

\* UBP-027: there was an earlier chance to run it, and no deferral explains the delay.
Missed(t, j) == j \in Skips \cap ctl[t].late /\ j \notin deferred[ProcessOf[t]]

Elapsed(t, j) == Timeless(t, j) /\ ~Fresh(ctl[t].list[j])
Misses(t, j) == IsDue(t, j) /\ ~Full(t) /\ Missed(t, j)
Claims(t, j) == IsDue(t, j) /\ ~Full(t) /\ ~Missed(t, j)
Asleep(t, j) == j \in Windowed /\ Upcoming(t, j) # None

\* Not due, or a one-shot whose run is at work.
PassOver(t, j) ==
    /\ ComesTo(t, j) /\ ~IsDue(t, j) /\ ~Elapsed(t, j)
    /\ Rests(t, j)
    /\ UNCHANGED <<file, now, procVars, runVars, ghosts, counters>>

Defer(t, j) ==
    /\ IsDue(t, j) /\ Full(t)
    /\ Rests(t, j)
    /\ deferred' = [deferred EXCEPT ![ProcessOf[t]] = @ \cup {j}]
    /\ UNCHANGED <<file, now, up, since, runVars, ghosts, counters>>

\* A write of nextRunAt may set it back to, or behind, the occurrence of a run.
SetsBack(j, next) ==
    rewound' = IF \E k \in Run : /\ runs[k].job = j /\ runs[k].due # None
                                 /\ runs[k].due >= next
               THEN rewound \cup {j} ELSE rewound

\* Recomputes a missing time; or skips a missed occurrence, on the record.
WriteTime(t, j) ==
    /\ Elapsed(t, j) \/ Misses(t, j)
    /\ Upcoming(t, j) # None
    /\ Patch(j, [file[j] EXCEPT !.next = Upcoming(t, j)])
    /\ SetsBack(j, Upcoming(t, j))
    /\ Rests(t, j)
    /\ UNCHANGED <<now, procVars, runVars, life, overtaken, unstamped, counters>>

\* A one-shot that elapsed is retired; one that was missed is, too, and its chat told.
Retired(t, j) ==
    IF Timeless(t, j)
    THEN [file[j] EXCEPT !.status = "done",
                         !.error = IF ctl[t].list[j].count = 0 THEN "unrun" ELSE @]
    ELSE [file[j] EXCEPT !.status = "done", !.next = None, !.error = "missed"]

Retire(t, j) ==
    /\ Elapsed(t, j) \/ Misses(t, j)
    /\ Upcoming(t, j) = None
    /\ Patch(j, Retired(t, j))
    /\ Rests(t, j)
    /\ UNCHANGED <<now, procVars, runVars, ghosts, counters>>

\* claimDueJob: compare-and-swap on what the tick read.  A bug the runs must notice:
\* the time is not compared.
ClaimsAnyTime(t, j) == file[j].status = "active"
Unmoved(t, j) == file[j].status = "active" /\ file[j].next = ctl[t].list[j].next

\* A tick that skips for the hour forgets the job's deferral, the claim lost or not.
Forgets(t, j, asleep) ==
    deferred' = IF asleep THEN [deferred EXCEPT ![ProcessOf[t]] = @ \ {j}] ELSE deferred

LosesClaim(t, j) ==
    /\ Claims(t, j) /\ ~Unmoved(t, j)
    /\ \E asleep \in {FALSE, Asleep(t, j)} :
          Forgets(t, j, asleep /\ file[j].status # "absent")
    /\ Rests(t, j)
    /\ UNCHANGED <<file, now, up, since, runVars, ghosts, counters>>

\* The previous run is at work, or the job sleeps at this hour: the occurrence passes.
\* A one-shot that is running stays due.
PassesOccurrence(t, j) ==
    /\ Claims(t, j) /\ Unmoved(t, j)
    /\ \E asleep \in {FALSE, Asleep(t, j)} : (asleep \/ Fresh(file[j])) /\ Forgets(t, j, asleep)
    /\ file' = [file EXCEPT ![j].next = IF Upcoming(t, j) = None THEN @ ELSE Upcoming(t, j)]
    /\ Rests(t, j)
    /\ UNCHANGED <<now, up, since, runVars, ghosts, counters>>

\* The run's turn starts with the next time and the stamp on disk.
Starts(r, j, due) ==
    /\ NextRun \in Run
    /\ ctl' = [ctl EXCEPT ![r] = [ctl[r] EXCEPT !.stage = "running", !.job = j, !.run = NextRun,
                                              !.todo = ctl[r].todo \ {j}]]
    /\ runs' = [runs EXCEPT ![NextRun] = [job |-> j, life |-> life[j], due |-> due,
                                          by |-> ProcessOf[r], state |-> "executing"]]

WinsClaim(t, j) ==
    /\ Claims(t, j) /\ Unmoved(t, j) /\ ~Fresh(file[j])
    /\ file' = [file EXCEPT ![j] = [file[j] EXCEPT !.next = Upcoming(t, j), !.stamp = NextRun]]
    /\ Starts(t, j, file[j].next)
    /\ deferred' = [deferred EXCEPT ![ProcessOf[t]] = @ \ {j}]
    /\ UNCHANGED <<now, up, since, gone, aged, ghosts, counters>>

-----------------------------------------------------------------------------
(* `run now`, and the end of a run.                                        *)

\* runJobNow reads the job, without the lock.
AsksRunNow(m, j) ==
    /\ m \in Callers /\ ctl[m].stage = "idle" /\ ProcessOf[m] \in up
    /\ file[j].status # "absent"
    /\ MayAsk /\ asks' = asks + 1
    /\ ctl' = [ctl EXCEPT ![m] = [Idle EXCEPT !.stage = "asked", !.job = j]]
    /\ UNCHANGED <<file, now, procVars, runVars, ghosts, edits, faults>>

\* Under the lock it stamps the row and runs the job.  Of a row that is gone there is no
\* stamp to be refused by and none to leave, and the job runs all the same.
RunNow(m, j) ==
    /\ ctl[m].stage = "asked" /\ ctl[m].job = j /\ ~Fresh(file[j])
    /\ Patch(j, [file[j] EXCEPT !.stamp = NextRun])
    /\ Starts(m, j, None)
    /\ unstamped' = IF file[j].status = "absent" THEN unstamped \cup {NextRun} ELSE unstamped
    /\ UNCHANGED <<now, procVars, gone, aged, life, overtaken, rewound, counters>>

\* Refused while a run holds a fresh stamp.
RunNowRefused(m) ==
    /\ ctl[m].stage = "asked" /\ Fresh(file[ctl[m].job])
    /\ ctl' = [ctl EXCEPT ![m] = Idle]
    /\ UNCHANGED <<file, now, procVars, runVars, ghosts, counters>>

\* The run ends, fails, or is abandoned at its cap while its turn goes on.
EndRun(r) ==
    /\ ctl[r].stage = "running"
    /\ \E end \in {"ok", "failed", "abandoned"} :
         /\ runs' = [runs EXCEPT ![ctl[r].run].state = end]
         /\ ctl' = [ctl EXCEPT ![r] =
                      [ctl[r] EXCEPT !.stage = IF end = "abandoned" THEN "settle" ELSE "release",
                                     !.ok = (end = "ok")]]
    /\ UNCHANGED <<file, now, procVars, gone, aged, ghosts, counters>>

\* clearRunning: only the stamp of this run.
Cleared(k) == [j \in Job |-> IF file[j].stamp = k THEN [file[j] EXCEPT !.stamp = None]
                             ELSE file[j]]
Release(r) ==
    /\ ctl[r].stage = "release"
    /\ file' = Cleared(ctl[r].run)
    /\ ctl' = [ctl EXCEPT ![r].stage = "settle"]
    /\ UNCHANGED <<now, procVars, runVars, ghosts, counters>>

\* The turn of an abandoned run settles, and takes its stamp with it if the lock lets it.
TurnSettles(k) ==
    /\ runs[k].state = "abandoned"
    /\ runs' = [runs EXCEPT ![k].state = "failed"]
    /\ \/ file' = Cleared(k) /\ UNCHANGED faults
       \/ UNCHANGED file /\ MayFail /\ faults' = faults + 1
    /\ UNCHANGED <<now, ctl, procVars, gone, aged, ghosts, edits, asks>>

\* The run on record, counted from what the tick had read.
Recorded(r, row) ==
    LET read == ctl[r].list[ctl[r].job]
        spent == read.limit # 0 /\ read.count + 1 >= read.limit
        asked == runs[ctl[r].run].due = None
        final == Upcoming(r, ctl[r].job) = None
    IN  IF ~ctl[r].ok
        THEN [row EXCEPT !.error = "failed",
                         !.status = IF ~asked /\ final THEN "paused" ELSE @]
        ELSE IF asked THEN row
        ELSE [row EXCEPT !.count = read.count + 1,
                         !.status = IF spent THEN "done" ELSE @,
                         !.next = IF spent THEN None ELSE @]

Settle(r) ==
    /\ ctl[r].stage = "settle"
    /\ Patch(ctl[r].job, Recorded(r, file[ctl[r].job]))
    /\ Rests(r, ctl[r].job)
    /\ UNCHANGED <<now, procVars, runVars, ghosts, counters>>

-----------------------------------------------------------------------------
(* People, time and faults.                                                *)

Edits(j) ==
    /\ MayEdit /\ edits' = edits + 1
    /\ overtaken' = IF \E r \in Runner : Holds(r, j) THEN overtaken \cup {j} ELSE overtaken
    /\ UNCHANGED <<now, ctl, procVars, runVars, unstamped, asks, faults>>

CreateJob(j, s) ==
    /\ file[j].status = "absent" /\ Edits(j)
    /\ life' = [life EXCEPT ![j] = @ + 1] /\ UNCHANGED rewound
    /\ file' = [file EXCEPT ![j] =
                  [Absent EXCEPT !.status = "active", !.sched = s, !.next = NextAfter(s, now),
                                 !.limit = IF s = 0 THEN LimitOf[j] ELSE 1]]

DeleteJob(j) ==
    /\ file[j].status # "absent" /\ Edits(j)
    /\ file' = [file EXCEPT ![j] = Absent] /\ UNCHANGED <<life, rewound>>

PauseJob(j) ==
    /\ file[j].status # "absent" /\ Edits(j)
    /\ file' = [file EXCEPT ![j].status = "paused"] /\ UNCHANGED <<life, rewound>>

\* A one-shot whose time has passed without a run is due at once.
ResumeJob(j) ==
    LET row == file[j]
        after == NextAfter(row.sched, now)
        next == IF after = None /\ row.count = 0 THEN now ELSE after
    IN  /\ row.status # "absent" /\ Edits(j)
        /\ file' = [file EXCEPT ![j] = [row EXCEPT !.status = "active", !.next = next]]
        /\ IF next = None THEN UNCHANGED rewound ELSE SetsBack(j, next)
        /\ UNCHANGED life

\* updateJob with a schedule; a one-shot implies `once`, and takes it along.
UpdateJob(j, s) ==
    LET row == file[j] IN
    /\ row.status # "absent" /\ Edits(j)
    /\ file' = [file EXCEPT ![j] =
                  [row EXCEPT !.sched = s, !.next = NextAfter(s, now),
                              !.limit = IF s # 0 /\ row.limit = 0 THEN 1
                                        ELSE IF s = 0 /\ row.sched # 0 /\ row.limit = 1 THEN 0
                                        ELSE row.limit]]
    /\ UNCHANGED <<life, rewound>>

TimePasses ==
    /\ now < MaxTime /\ now' = now + 1
    /\ UNCHANGED <<file, ctl, procVars, runVars, ghosts, counters>>

\* A stamp is an hour old: of a run that was abandoned, or could not clear it; a run at
\* work is that slow only if nothing caps it.  The stamps of the dead do not count.
Ages(k) ==
    /\ k \notin aged \cup gone /\ \E j \in Job : file[j].stamp = k
    /\ \A r \in Runner : ctl[r].run = k => ctl[r].stage = "running"
    /\ aged' = aged \cup {k}
    /\ IF runs[k].state = "executing" THEN MayFail /\ faults' = faults + 1
       ELSE UNCHANGED faults
    /\ UNCHANGED <<file, now, ctl, procVars, runs, gone, ghosts, edits, asks>>

\* The jobs lock is not to be had: the write is dropped, and the runner goes on; but a
\* `run now` is not run.
LockFails(r) ==
    /\ MayFail /\ faults' = faults + 1
    /\ \/ ctl[r].stage = "asked" /\ ctl' = [ctl EXCEPT ![r] = Idle]
       \/ ctl[r].stage = "release" /\ ctl' = [ctl EXCEPT ![r].stage = "settle"]
       \/ ctl[r].stage = "settle" /\ Rests(r, ctl[r].job)
       \/ \E j \in Job : (Elapsed(r, j) \/ Misses(r, j) \/ Claims(r, j)) /\ Rests(r, j)
    /\ UNCHANGED <<file, now, procVars, runVars, ghosts, edits, asks>>

Crash(p) ==
    LET dead == {k \in Run : runs[k].by = p} IN
    /\ p \in up /\ MayFail /\ faults' = faults + 1
    /\ up' = up \ {p} /\ since' = [since EXCEPT ![p] = 0]
    /\ deferred' = [deferred EXCEPT ![p] = {}]
    /\ ctl' = [r \in Runner |-> IF ProcessOf[r] = p THEN Idle ELSE ctl[r]]
    /\ gone' = gone \cup dead
    /\ runs' = [k \in Run |-> IF k \in dead /\ runs[k].state \in Live
                              THEN [runs[k] EXCEPT !.state = "killed"] ELSE runs[k]]
    /\ UNCHANGED <<file, now, aged, ghosts, edits, asks>>

Restart(p) ==
    /\ p \notin up /\ up' = up \cup {p} /\ since' = [since EXCEPT ![p] = now]
    /\ UNCHANGED <<file, now, ctl, deferred, runVars, ghosts, counters>>

TickStep(t) ==
    \E j \in Job : \/ PassOver(t, j) \/ Defer(t, j) \/ WriteTime(t, j) \/ Retire(t, j)
                   \/ LosesClaim(t, j) \/ PassesOccurrence(t, j) \/ WinsClaim(t, j)
RunNowStep(m) == RunNowRefused(m) \/ \E j \in Job : RunNow(m, j)
RunStep(r) == EndRun(r) \/ Release(r) \/ Settle(r)

Next ==
    \/ \E r \in Runner : Fire(r) \/ TickStep(r) \/ RunNowStep(r) \/ RunStep(r) \/ LockFails(r)
    \/ \E r \in Runner, j \in Job : AsksRunNow(r, j)
    \/ \E k \in Run : TurnSettles(k) \/ Ages(k)
    \/ \E j \in Job : DeleteJob(j) \/ PauseJob(j) \/ ResumeJob(j)
    \/ \E j \in Job, s \in Schedules : CreateJob(j, s) \/ UpdateJob(j, s)
    \/ TimePasses \/ \E p \in Process : Crash(p) \/ Restart(p)

Spec == Init /\ [][Next]_vars

\* The interval fires, ticks and runs go on, stamps grow old, a dead gateway comes
\* back.  Nobody owes an edit, and an abandoned turn need not settle.
Fairness ==
    /\ \A r \in Runner : WF_vars(Fire(r)) /\ WF_vars(TickStep(r) \/ RunNowStep(r) \/ RunStep(r))
    /\ \A k \in Run : WF_vars(runs[k].state # "executing" /\ Ages(k))
    /\ \A p \in Process : WF_vars(Restart(p))

FairSpec == Spec /\ Fairness

-----------------------------------------------------------------------------
(* What the scheduler promises.                                            *)

Alive(k) == runs[k].state \in Live
Same(k, l) == runs[k].job = runs[l].job /\ runs[k].life = runs[l].life

\* "Never a second concurrent copy" (UBP-026): while a stamp is young, of ticks that
\* overlap, timed-out turns and `run now`; but of a job that was deleted, see the README.
OneCopy ==
    \A k, l \in Run : Alive(k) /\ Alive(l) /\ Same(k, l)
                         => k = l \/ {k, l} \cap (aged \cup unstamped) # {}

\* An occurrence fires once, whichever ticks had listed it, whoever died and whatever was
\* edited, unless the job's time was set back.
OccurrenceOnce ==
    \A k, l \in Run : /\ runs[k].due # None /\ Same(k, l) /\ runs[k].due = runs[l].due
                      => k = l \/ runs[k].job \in rewound

\* A job is done after a run, or with the reason on record ("never silently"), unless
\* an edit was overtaken by an older reading.
NeverSilent ==
    \A j \in Job \ overtaken :
       file[j].status = "done" =>
          \/ file[j].error # "none"
          \/ \E k \in Run : runs[k].job = j /\ runs[k].life = life[j] /\ runs[k].state = "ok"

FiringsAccounted == OneCopy /\ OccurrenceOnce /\ NeverSilent

\* No active job stays due, or without a time, for ever: not behind a dead run's stamp,
\* a full house or a lost claim.
OutOfRuns == NextRun \notin Run
NoneStuck ==
    \A j \in Job : []<>(\/ file[j].status # "active" \/ OutOfRuns
                        \/ file[j].next # None /\ file[j].next > now)

\* Not kept, see the README.  There is no second copy, of a deleted job either; a stale
\* reading of a tick never sets a time back behind a run; what the end of a run writes over
\* is what its claim left; and a job is said to have completed no run only if it has
\* completed none.
OneCopyEver ==
    \A k, l \in Run : Alive(k) /\ Alive(l) /\ Same(k, l) => k = l \/ {k, l} \cap aged # {}
NotRewound == [][\A t \in Runner, j \in Job : WriteTime(t, j) => UNCHANGED rewound]_vars
EditKept ==
    [][\A r \in Runner : LET j == ctl[r].job IN
         Settle(r) => \/ file'[j].status = file[j].status
                      \/ file[j].sched = ctl[r].list[j].sched /\ file[j].next = Upcoming(r, j)]_vars
RecordsTrue ==
    [][\A t \in Runner, j \in Job :
         Retire(t, j) /\ file'[j].error = "unrun" =>
            ~\E k \in Run : /\ runs[k].job = j /\ runs[k].life = life[j]
                            /\ runs[k].due # None /\ runs[k].state = "ok"]_vars

=============================================================================
