--------------------------- MODULE CronJobsProofs ---------------------------
(***************************************************************************)
(* Proofs about the cron scheduler, for any number of jobs, processes,     *)
(* overlapping ticks, runs, edits and faults: the types, and that every    *)
(* firing is accounted for.                                                *)
(***************************************************************************)
EXTENDS CronJobs, TLAPS, FiniteSetTheorems

-----------------------------------------------------------------------------
(* The types.                                                              *)

Busy(r) == ctl[r].stage \in {"running", "release", "settle"}

CtlOK ==
    /\ ctl \in [Runner -> Control]
    /\ \A r \in Runner : Busy(r) => ctl[r].job # None /\ ctl[r].run # None
    /\ \A r \in Runner : ctl[r].stage = "asked" => ctl[r].job # None
FileOK == file \in [Job -> Row]
RunsOK == runs \in [Run -> History] /\ gone \subseteq Run /\ aged \subseteq Run
ProcsOK ==
    /\ up \subseteq Process /\ since \in [Process -> Nat]
    /\ deferred \in [Process -> SUBSET Job]
RestOK ==
    /\ now \in 0..MaxTime
    /\ life \in [Job -> Nat] /\ overtaken \subseteq Job /\ rewound \subseteq Job
    /\ unstamped \subseteq Run
    /\ edits \in 0..MaxEdits /\ asks \in 0..MaxAsks /\ faults \in 0..MaxFaults

Types == CtlOK /\ FileOK /\ RunsOK /\ ProcsOK /\ RestOK

-----------------------------------------------------------------------------
(* The invariant.                                                          *)

Used(k) == runs[k].state # "unused"
Completed(j) ==
    \E k \in Run : runs[k].job = j /\ runs[k].life = life[j] /\ runs[k].state = "ok"
Current(k) ==
    runs[k].life = life[runs[k].job] /\ file[runs[k].job].status # "absent"

\* Runs are numbered as they start, without gaps.
InOrder == \E n \in 0..MaxRuns : \A k \in Run : Used(k) <=> k <= n

RunShape(k) ==
    /\ Used(k) => /\ runs[k].job \in Job /\ runs[k].by \in Process
                  /\ runs[k].life <= life[runs[k].job]
    /\ ~Used(k) => runs[k] = Unused
    /\ runs[k].due # None => runs[k].due <= now
    /\ k \in gone => Used(k) /\ ~Alive(k)

\* What a runner has in hand is a run of its own.
Held(r) ==
    LET c == ctl[r] IN
    /\ c.at <= now
    /\ Busy(r) => /\ Used(c.run) /\ runs[c.run].job = c.job
                  /\ runs[c.run].life = life[c.job] \/ c.job \in overtaken
    /\ c.stage = "running" => runs[c.run].state = "executing" /\ runs[c.run].by = ProcessOf[r]
    /\ c.stage = "release" => ~Alive(c.run)
    /\ c.stage \in {"release", "settle"} /\ c.ok => runs[c.run].state = "ok"
    /\ \A j \in c.todo : c.list[j].count # 0 => Completed(j) \/ j \in overtaken
Apart ==
    \A q, r \in Runner : ctl[q].stage = "running" /\ ctl[r].stage = "running"
                           /\ ctl[q].run = ctl[r].run => q = r

\* A run at work holds the stamp, until it grows old; the next occurrence comes after
\* those that have fired; and what is counted was run.
Stamped(k) == Alive(k) /\ k \notin aged /\ Current(k) => file[runs[k].job].stamp = k
Ahead(k) ==
    LET j == runs[k].job IN
    runs[k].due # None /\ Current(k) /\ j \notin rewound /\ file[j].next # None
       => runs[k].due < file[j].next
Counted(j) == file[j].count # 0 => Completed(j) \/ j \in overtaken

Ledger ==
    /\ InOrder
    /\ \A k \in Run : RunShape(k) /\ Stamped(k) /\ Ahead(k)
    /\ \A j \in Job : Counted(j)
    /\ FiringsAccounted
InHand == Apart /\ \A r \in Runner : Held(r)

IInv == Types /\ Ledger /\ InHand

-----------------------------------------------------------------------------
(* The types are kept.                                                     *)

LEMMA RowTypes ==
    /\ Absent \in Row /\ Idle \in Control /\ Unused \in History
    /\ Idle.job = None
BY DEF Absent, Row, Idle, Control, Unread, Time, Unused, History, Live

LEMMA RunNotNone == None \notin Run /\ None \notin Job
BY CronAssumption DEF Run

LEMMA Division ==
    ASSUME NEW t \in Nat, NEW e \in Nat \ {0}
    PROVE  (t \div e + 1) * e \in Nat /\ t < (t \div e + 1) * e
<1>1. t \div e \in Nat
  BY SMTT(30)
<1>2. t = e * (t \div e) + (t % e) /\ t % e \in 0..(e - 1)
  BY SMTT(30)
<1>3. ASSUME NEW q \in Nat, NEW m \in Nat, m < e, t = e * q + m
      PROVE  (q + 1) * e \in Nat /\ t < (q + 1) * e
  BY <1>3, SMTT(30)
<1> QED
  BY <1>1, <1>2, <1>3

LEMMA NextAfterIsLater ==
    ASSUME NEW s \in Nat, NEW t \in Nat
    PROVE  /\ NextAfter(s, t) \in Time
           /\ NextAfter(s, t) # None => NextAfter(s, t) \in Nat /\ NextAfter(s, t) > t
<1>1. Every \in Nat \ {0} /\ None \notin Nat
  BY CronAssumption
<1>2. (t \div Every + 1) * Every \in Nat /\ t < (t \div Every + 1) * Every
  BY <1>1, Division
<1> QED
  BY <1>1, <1>2 DEF NextAfter, Time

LEMMA RestsTypes ==
    ASSUME CtlOK, NEW r \in Runner, NEW j \in Job, Rests(r, j)
    PROVE  CtlOK'
<1>1. ctl[r] \in Control
  BY DEF CtlOK
<1>2. ctl'[r] \in Control /\ ctl'[r].stage \in {"idle", "scan"}
  BY <1>1, RowTypes DEF Rests, CtlOK, Control, Idle
<1>3. \A x \in Runner : x # r => ctl'[x] = ctl[x]
  BY DEF Rests, CtlOK
<1>4. ctl' \in [Runner -> Control]
  BY <1>2, <1>3, RowTypes DEF Rests, CtlOK
<1> QED
  BY <1>2, <1>3, <1>4 DEF CtlOK, Busy

LEMMA PatchTypes ==
    ASSUME FileOK, NEW j \in Job, NEW row, file[j].status # "absent" => row \in Row,
           Patch(j, row)
    PROVE  FileOK'
BY DEF FileOK, Patch

\* What a tick works out from its reading.
LEMMA ReadTypes ==
    ASSUME Types, NEW r \in Runner, NEW j \in Job
    PROVE  /\ ctl[r].list[j] \in Row /\ ctl[r].at \in Nat /\ file[j] \in Row
           /\ Upcoming(r, j) \in Time
           /\ Upcoming(r, j) # None => Upcoming(r, j) \in Nat /\ Upcoming(r, j) > ctl[r].at
           /\ Retired(r, j) \in Row
<1>1. ctl[r].list[j] \in Row /\ ctl[r].at \in Nat /\ file[j] \in Row
  BY DEF Types, CtlOK, Control, FileOK
<1>2. ctl[r].list[j].sched \in Nat
  BY <1>1 DEF Row
<1>3. Retired(r, j) \in Row
  BY <1>1 DEF Retired, Row, Time
<1> QED
  BY <1>1, <1>2, <1>3, NextAfterIsLater DEF Upcoming

\* A run that starts.
LEMMA StartTypes ==
    ASSUME CtlOK, RunsOK, NEW r \in Runner, NEW j \in Job, NEW due \in Time,
           life[j] \in Nat, Starts(r, j, due)
    PROVE  CtlOK' /\ runs' \in [Run -> History]
<1>1. NextRun \in Run /\ ProcessOf[r] \in Process
  BY CronAssumption DEF Starts
<1>2. ctl[r] \in Control
  BY DEF CtlOK
<1>3. ctl'[r] \in Control /\ ctl'[r].job = j /\ ctl'[r].run = NextRun
  BY <1>1, <1>2 DEF Starts, CtlOK, Control
<1>4. CtlOK'
  BY <1>1, <1>3, RunNotNone DEF Starts, CtlOK, Busy
<1>5. [job |-> j, life |-> life[j], due |-> due, by |-> ProcessOf[r], state |-> "executing"]
        \in History
  BY <1>1 DEF History, Live
<1> QED
  BY <1>1, <1>4, <1>5 DEF Starts, RunsOK

LEMMA TickTypes ==
    ASSUME Types, NEW t \in Runner, TickStep(t)
    PROVE  Types'
<1> SUFFICES ASSUME NEW j \in Job,
                    \/ PassOver(t, j) \/ Defer(t, j) \/ WriteTime(t, j) \/ Retire(t, j)
                    \/ LosesClaim(t, j) \/ PassesOccurrence(t, j) \/ WinsClaim(t, j)
             PROVE  Types'
  BY DEF TickStep
<1> USE DEF Types, procVars, runVars, ghosts, counters
<1>r. ProcessOf[t] \in Process
  BY CronAssumption
<1>1. CASE PassOver(t, j)
  BY <1>1, RestsTypes DEF PassOver, FileOK, RunsOK, ProcsOK, RestOK
<1>2. CASE Defer(t, j)
  BY <1>2, <1>r, RestsTypes DEF Defer, FileOK, RunsOK, ProcsOK, RestOK
<1>3. CASE WriteTime(t, j)
  <2>1. [file[j] EXCEPT !.next = Upcoming(t, j)] \in Row
    BY ReadTypes DEF Row
  <2>2. FileOK'
    BY <1>3, <2>1, PatchTypes DEF WriteTime
  <2>3. rewound' \subseteq Job
    BY <1>3 DEF WriteTime, SetsBack, RestOK
  <2> QED
    BY <1>3, <2>2, <2>3, RestsTypes DEF WriteTime, RunsOK, ProcsOK, RestOK
<1>4. CASE Retire(t, j)
  <2>1. FileOK'
    BY <1>4, ReadTypes, PatchTypes DEF Retire
  <2> QED
    BY <1>4, <2>1, RestsTypes DEF Retire, RunsOK, ProcsOK, RestOK
<1>5. CASE LosesClaim(t, j)
  BY <1>5, <1>r, RestsTypes DEF LosesClaim, Forgets, FileOK, RunsOK, ProcsOK, RestOK
<1>6. CASE PassesOccurrence(t, j)
  <2>1. FileOK'
    BY <1>6, ReadTypes DEF PassesOccurrence, FileOK, Row
  <2> QED
    BY <1>6, <1>r, <2>1, RestsTypes DEF PassesOccurrence, Forgets, RunsOK, ProcsOK, RestOK
<1>7. CASE WinsClaim(t, j)
  <2>1. NextRun \in Run /\ file[j].next \in Time /\ life[j] \in Nat
    BY <1>7, ReadTypes DEF WinsClaim, Starts, Row, RestOK
  <2>a. [file[j] EXCEPT !.next = Upcoming(t, j), !.stamp = NextRun] \in Row
    BY <2>1, ReadTypes DEF Row
  <2>2. FileOK'
    BY <1>7, <2>a DEF WinsClaim, FileOK
  <2>3. Starts(t, j, file[j].next)
    BY <1>7 DEF WinsClaim
  <2>4. CtlOK' /\ runs' \in [Run -> History]
    BY <2>1, <2>3, StartTypes
  <2> QED
    BY <1>7, <1>r, <2>2, <2>4 DEF WinsClaim, RunsOK, ProcsOK, RestOK
<1> QED
  BY <1>1, <1>2, <1>3, <1>4, <1>5, <1>6, <1>7

LEMMA RunTypes ==
    ASSUME Types, NEW r \in Runner, RunStep(r)
    PROVE  Types'
<1> USE DEF Types, procVars, runVars, ghosts, counters
<1>c. ctl[r] \in Control
  BY DEF CtlOK
<1>1. CASE EndRun(r)
  <2>1. PICK end \in {"ok", "failed", "abandoned"} :
          /\ runs' = [runs EXCEPT ![ctl[r].run].state = end]
          /\ ctl' = [ctl EXCEPT ![r] =
                       [ctl[r] EXCEPT !.stage = IF end = "abandoned" THEN "settle" ELSE "release",
                                      !.ok = (end = "ok")]]
    BY <1>1 DEF EndRun
  <2>2. ctl[r].run \in Run /\ Busy(r)
    BY <1>1, <1>c DEF EndRun, CtlOK, Busy, Control
  <2>3. ctl'[r] \in Control /\ ctl'[r].job = ctl[r].job /\ ctl'[r].run = ctl[r].run
    BY <1>c, <2>1 DEF CtlOK, Control
  <2>4. CtlOK'
    BY <2>1, <2>2, <2>3 DEF CtlOK, Busy
  <2>5. RunsOK'
    BY <1>1, <2>1, <2>2 DEF EndRun, RunsOK, History, Live
  <2> QED
    BY <1>1, <2>4, <2>5 DEF EndRun, FileOK, ProcsOK, RestOK
<1>2. CASE Release(r)
  <2>1. FileOK'
    BY <1>2 DEF Release, Cleared, FileOK, Row
  <2>2. CtlOK'
    BY <1>2, <1>c DEF Release, CtlOK, Control, Busy
  <2> QED
    BY <1>2, <2>1, <2>2 DEF Release, RunsOK, ProcsOK, RestOK
<1>3. CASE Settle(r)
  <2>1. ctl[r].job \in Job
    BY <1>3, <1>c DEF Settle, CtlOK, Control, Busy
  <2>a. file[ctl[r].job] \in Row /\ ctl[r].list[ctl[r].job] \in Row
    BY <2>1, ReadTypes
  <2>b. ASSUME NEW row \in Row, NEW n \in Nat,
               NEW st \in {"absent", "active", "paused", "done"}, NEW time \in Time,
               NEW e \in {"none", "failed", "missed", "unrun"}
        PROVE  /\ [row EXCEPT !.error = e, !.status = st] \in Row
               /\ [row EXCEPT !.count = n, !.status = st, !.next = time] \in Row
    BY DEF Row
  <2>c. /\ file[ctl[r].job].status \in {"absent", "active", "paused", "done"}
        /\ file[ctl[r].job].next \in Time /\ None \in Time
        /\ ctl[r].list[ctl[r].job].count + 1 \in Nat
    BY <2>a DEF Row, Time
  <2>2. Recorded(r, file[ctl[r].job]) \in Row
    <3>1. CASE ~ctl[r].ok
      BY <2>a, <2>b, <2>c, <3>1 DEF Recorded
    <3>2. CASE ctl[r].ok /\ runs[ctl[r].run].due = None
      BY <2>a, <3>2 DEF Recorded
    <3>3. CASE ctl[r].ok /\ runs[ctl[r].run].due # None
      <4> DEFINE row == file[ctl[r].job]
                 n == ctl[r].list[ctl[r].job].count + 1
      <4>1. \E st \in {row.status, "done"}, time \in {row.next, None} :
              Recorded(r, row) = [row EXCEPT !.count = n, !.status = st, !.next = time]
        BY <3>3 DEF Recorded
      <4>2. \A st \in {row.status, "done"}, time \in {row.next, None} :
              [row EXCEPT !.count = n, !.status = st, !.next = time] \in Row
        BY <2>a, <2>b, <2>c
      <4> QED
        BY <4>1, <4>2
    <3> QED
      BY <1>c, <3>1, <3>2, <3>3 DEF Control
  <2>3. FileOK'
    BY <1>3, <2>1, <2>2, PatchTypes DEF Settle
  <2> QED
    BY <1>3, <2>1, <2>3, RestsTypes DEF Settle, RunsOK, ProcsOK, RestOK
<1> QED
  BY <1>1, <1>2, <1>3 DEF RunStep

LEMMA EditTypes ==
    ASSUME Types, NEW j \in Job,
           \/ DeleteJob(j) \/ PauseJob(j) \/ ResumeJob(j)
           \/ \E s \in Schedules : CreateJob(j, s) \/ UpdateJob(j, s)
    PROVE  Types'
<1> USE DEF Types, procVars, runVars, ghosts, counters
<1>f. file[j] \in Row /\ now \in Nat
  BY CronAssumption DEF FileOK, RestOK
<1>e. Edits(j) => CtlOK' /\ RunsOK' /\ ProcsOK' /\ edits' \in 0..MaxEdits
                    /\ overtaken' \subseteq Job /\ UNCHANGED <<now, unstamped, asks, faults>>
  BY CronAssumption DEF Edits, MayEdit, CtlOK, RunsOK, ProcsOK, RestOK, Busy
<1>1. CASE DeleteJob(j)
  BY <1>1, <1>e, RowTypes DEF DeleteJob, FileOK, RestOK
<1>2. CASE PauseJob(j)
  BY <1>2, <1>e DEF PauseJob, FileOK, RestOK, Row
<1>3. CASE ResumeJob(j)
  <2>1. file[j].sched \in Nat /\ now \in Time
    BY <1>f DEF Row, Time
  <2>2. NextAfter(file[j].sched, now) \in Time
    BY <1>f, <2>1, NextAfterIsLater
  <2>3. FileOK'
    BY <1>3, <1>f, <2>1, <2>2 DEF ResumeJob, FileOK, Row
  <2>4. rewound' \subseteq Job
    BY <1>3 DEF ResumeJob, SetsBack, RestOK
  <2> QED
    BY <1>3, <1>e, <2>3, <2>4 DEF ResumeJob, RestOK
<1>4. ASSUME NEW s \in Schedules, CreateJob(j, s) \/ UpdateJob(j, s)
      PROVE  Types'
  <2>1. s \in Nat /\ LimitOf[j] \in Nat
    BY CronAssumption
  <2>2. NextAfter(s, now) \in Time
    BY <1>f, <2>1, NextAfterIsLater
  <2>3. CASE CreateJob(j, s)
    <3>1. FileOK'
      BY <2>1, <2>2, <2>3, RowTypes DEF CreateJob, FileOK, Row, Absent
    <3>a. life \in [Job -> Nat] /\ life[j] + 1 \in Nat
      BY DEF RestOK
    <3>2. life' \in [Job -> Nat]
      BY <2>3, <3>a DEF CreateJob
    <3> QED
      BY <1>e, <2>3, <3>1, <3>2 DEF CreateJob, RestOK
  <2>4. CASE UpdateJob(j, s)
    <3>a. ASSUME NEW n \in Nat
          PROVE  [file[j] EXCEPT !.sched = s, !.next = NextAfter(s, now), !.limit = n] \in Row
      BY <1>f, <2>1, <2>2 DEF Row
    <3>b. file[j].limit \in Nat
      BY <1>f DEF Row
    <3>1. FileOK'
      BY <2>4, <3>a, <3>b DEF UpdateJob, FileOK
    <3> QED
      BY <1>e, <2>4, <3>1 DEF UpdateJob, RestOK
  <2> QED
    BY <1>4, <2>3, <2>4
<1> QED
  BY <1>1, <1>2, <1>3, <1>4

LEMMA TypesKept ==
    ASSUME Types, [Next]_vars
    PROVE  Types'
<1> USE DEF Types, procVars, runVars, ghosts, counters
<1>1. ASSUME NEW r \in Runner, Fire(r)
      PROVE  Types'
  <2>1. now \in Nat /\ ProcessOf[r] \in Process
    BY CronAssumption DEF RestOK
  <2>2. ASSUME NEW active \in SUBSET Job, NEW late \in SUBSET Job
        PROVE  Reading(active, late) \in Control /\ Reading(active, late).stage = "scan"
    <3>1. \A j \in Job : [file[j] EXCEPT !.error = "none"] \in Row
      BY DEF FileOK, Row
    <3>2. [j \in Job |-> IF j \in active THEN [file[j] EXCEPT !.error = "none"] ELSE Absent]
            \in [Job -> Row]
      BY <3>1, RowTypes
    <3> QED
      BY <2>1, <2>2, <3>2, RowTypes DEF Reading, Idle, Control
  <2>3. CtlOK'
    <3>1. PICK active \in SUBSET Job, late \in SUBSET Job :
            ctl' = [ctl EXCEPT ![r] = IF active = {} THEN Idle ELSE Reading(active, late)]
      BY <1>1 DEF Fire
    <3>2. Idle.stage = "idle"
      BY DEF Idle
    <3> QED
      BY <2>2, <3>1, <3>2, RowTypes DEF CtlOK, Busy
  <2>4. ProcsOK'
    BY <1>1, <2>1 DEF Fire, ProcsOK, Time
  <2> QED
    BY <1>1, <2>3, <2>4 DEF Fire, FileOK, RunsOK, RestOK
<1>2. ASSUME NEW r \in Runner, LockFails(r)
      PROVE  Types'
  <2>1. faults' \in 0..MaxFaults
    BY <1>2, CronAssumption DEF LockFails, MayFail, RestOK
  <2>2. CtlOK'
    <3>a. ctl[r] \in Control
      BY DEF CtlOK
    <3>1. CASE ctl[r].stage = "release" /\ ctl' = [ctl EXCEPT ![r].stage = "settle"]
      BY <3>1, <3>a DEF CtlOK, Control, Busy
    <3>2. CASE ctl[r].stage = "settle" /\ Rests(r, ctl[r].job)
      <4>1. ctl[r].job \in Job
        BY <3>2 DEF CtlOK, Control, Busy
      <4> QED
        BY <3>2, <4>1, RestsTypes
    <3>3. CASE \E j \in Job : Rests(r, j)
      BY <3>3, RestsTypes
    <3>4. CASE ctl' = [ctl EXCEPT ![r] = Idle]
      BY <3>4, RowTypes DEF CtlOK, Busy, Idle
    <3> QED
      BY <1>2, <3>1, <3>2, <3>3, <3>4 DEF LockFails
  <2> QED
    BY <1>2, <2>1, <2>2 DEF LockFails, FileOK, RunsOK, ProcsOK, RestOK
<1>3. ASSUME NEW r \in Runner, NEW j \in Job, RunNow(r, j)
      PROVE  Types'
  <2>1. NextRun \in Run /\ file[j] \in Row /\ life[j] \in Nat
    BY <1>3 DEF RunNow, Starts, FileOK, RestOK
  <2>2. Starts(r, j, None) /\ None \in Time
    BY <1>3 DEF RunNow, Time
  <2>3. CtlOK' /\ runs' \in [Run -> History]
    BY <2>1, <2>2, StartTypes
  <2>4. [file[j] EXCEPT !.stamp = NextRun] \in Row
    BY <2>1 DEF Row
  <2>5. FileOK'
    BY <1>3, <2>4, PatchTypes DEF RunNow
  <2>6. unstamped' \subseteq Run
    BY <1>3, <2>1 DEF RunNow, RestOK
  <2> QED
    BY <1>3, <2>3, <2>5, <2>6 DEF RunNow, RunsOK, ProcsOK, RestOK
<1>a. ASSUME NEW r \in Runner, NEW j \in Job, AsksRunNow(r, j)
      PROVE  Types'
  <2>1. [Idle EXCEPT !.stage = "asked", !.job = j] \in Control
    BY RowTypes DEF Control, Idle
  <2>2. CtlOK'
    BY <1>a, <2>1, RunNotNone DEF AsksRunNow, CtlOK, Busy, Idle
  <2>3. asks' \in 0..MaxAsks
    BY <1>a, CronAssumption DEF AsksRunNow, MayAsk, RestOK
  <2> QED
    BY <1>a, <2>2, <2>3 DEF AsksRunNow, FileOK, RunsOK, ProcsOK, RestOK
<1>b. ASSUME NEW r \in Runner, RunNowRefused(r)
      PROVE  Types'
  <2>1. CtlOK'
    BY <1>b, RowTypes DEF RunNowRefused, CtlOK, Busy, Idle
  <2> QED
    BY <1>b, <2>1 DEF RunNowRefused, FileOK, RunsOK, ProcsOK, RestOK
<1>4. ASSUME NEW k \in Run, TurnSettles(k)
      PROVE  Types'
  <2>1. FileOK'
    BY <1>4 DEF TurnSettles, Cleared, FileOK, Row
  <2>2. RunsOK'
    BY <1>4 DEF TurnSettles, RunsOK, History, Live
  <2>3. faults' \in 0..MaxFaults
    BY <1>4, CronAssumption DEF TurnSettles, MayFail, RestOK
  <2> QED
    BY <1>4, <2>1, <2>2, <2>3 DEF TurnSettles, CtlOK, Busy, ProcsOK, RestOK
<1>5. ASSUME NEW k \in Run, Ages(k)
      PROVE  Types'
  <2>1. faults' \in 0..MaxFaults
    BY <1>5, CronAssumption DEF Ages, MayFail, RestOK
  <2> QED
    BY <1>5, <2>1 DEF Ages, CtlOK, Busy, FileOK, RunsOK, ProcsOK, RestOK
<1>6. CASE TimePasses
  BY <1>6, CronAssumption DEF TimePasses, CtlOK, Busy, FileOK, RunsOK, ProcsOK, RestOK
<1>7. ASSUME NEW p \in Process, Crash(p)
      PROVE  Types'
  <2>1. CtlOK'
    BY <1>7, RowTypes DEF Crash, CtlOK, Busy, Idle
  <2>2. RunsOK'
    BY <1>7 DEF Crash, RunsOK, History, Live
  <2>3. ProcsOK' /\ faults' \in 0..MaxFaults
    BY <1>7, CronAssumption DEF Crash, MayFail, ProcsOK, RestOK
  <2> QED
    BY <1>7, <2>1, <2>2, <2>3 DEF Crash, FileOK, RestOK
<1>8. ASSUME NEW p \in Process, Restart(p)
      PROVE  Types'
  <2>1. ProcsOK'
    BY <1>8, CronAssumption DEF Restart, ProcsOK, RestOK
  <2> QED
    BY <1>8, <2>1 DEF Restart, CtlOK, Busy, FileOK, RunsOK, RestOK
<1>9. CASE UNCHANGED vars
  BY <1>9 DEF vars, CtlOK, Busy, FileOK, RunsOK, ProcsOK, RestOK
<1> QED
  BY <1>1, <1>2, <1>3, <1>a, <1>b, <1>4, <1>5, <1>6, <1>7, <1>8, <1>9, TickTypes, RunTypes,
     EditTypes
  DEF Next, RunNowStep

-----------------------------------------------------------------------------
(* The ledger is kept by a step that starts no run and creates no job.     *)

LEMMA NextIsFree ==
    ASSUME InOrder
    PROVE  /\ NextRun \in Nat
           /\ \A k \in Run : Used(k) <=> k < NextRun
<1>1. PICK n \in 0..MaxRuns : \A k \in Run : Used(k) <=> k <= n
  BY DEF InOrder
<1>2. n \in Nat /\ MaxRuns \in Nat
  BY CronAssumption
<1>3. {k \in Run : runs[k].state # "unused"} = 1..n
  BY <1>1, <1>2 DEF Run, Used
<1>4. Cardinality(1..n) = n
  BY <1>2, FS_Interval
<1>5. NextRun = n + 1
  BY <1>3, <1>4 DEF NextRun
<1> QED
  BY <1>1, <1>2, <1>5 DEF Run

\* Runs go on, or stop, and each stays the run it is.
Wanes ==
    \A k \in Run :
       \/ runs'[k] = runs[k]
       \/ /\ Alive(k) /\ runs'[k].state \in {"ok", "failed", "abandoned", "killed"}
          /\ runs'[k].job = runs[k].job /\ runs'[k].life = runs[k].life
          /\ runs'[k].due = runs[k].due /\ runs'[k].by = runs[k].by

\* What a step may do to the row of a job.
RowStep(j) ==
    /\ file'[j].status # "absent" =>
          /\ file[j].status # "absent"
          /\ \/ file'[j].stamp = file[j].stamp
             \/ \E k \in Run : file[j].stamp = k /\ runs'[k].state \notin Live
          /\ file'[j].next # None /\ j \notin rewound' =>
                \A k \in Run : runs[k].job = j /\ runs[k].due # None /\ runs[k].life = life[j]
                               => runs[k].due < file'[j].next
    /\ file'[j].count # 0 => Completed(j)' \/ j \in overtaken'
    /\ file'[j].status = "done" =>
          file'[j].error # "none" \/ Completed(j)' \/ j \in overtaken'

LEMMA CompletedStays ==
    ASSUME Wanes, UNCHANGED life, NEW j \in Job, Completed(j)
    PROVE  Completed(j)'
BY DEF Wanes, Completed, Alive, Live

\* A row left alone.
LEMMA RowStays ==
    ASSUME IInv, Wanes, UNCHANGED life, overtaken \subseteq overtaken',
           rewound \subseteq rewound', NEW j \in Job, file'[j] = file[j]
    PROVE  RowStep(j)
<1>1. Completed(j) => Completed(j)'
  BY CompletedStays
<1>2. \A k \in Run : runs[k].job = j /\ runs[k].due # None /\ runs[k].life = life[j]
                      /\ file[j].status # "absent" /\ file[j].next # None /\ j \notin rewound
                      => runs[k].due < file[j].next
  BY DEF IInv, Ledger, Ahead, Current
<1>3. Counted(j) /\ NeverSilent
  BY DEF IInv, Ledger, FiringsAccounted
<1> QED
  BY <1>1, <1>2, <1>3 DEF RowStep, Counted, NeverSilent, Completed

LEMMA LedgerKept ==
    ASSUME IInv, Types', Wanes, UNCHANGED <<life, unstamped>>, overtaken \subseteq overtaken',
           rewound \subseteq rewound', aged \subseteq aged', now <= now',
           \A k \in gone' : Used(k) /\ ~Alive(k)',
           \A j \in Job : RowStep(j)
    PROVE  Ledger'
<1> USE DEF IInv, Ledger, Alive, Live, Used
<1>w. \A k \in Run : /\ runs'[k].job = runs[k].job /\ runs'[k].life = runs[k].life
                     /\ runs'[k].due = runs[k].due /\ runs'[k].by = runs[k].by
                     /\ Used(k)' <=> Used(k)
                     /\ Alive(k)' => Alive(k)
                     /\ ~Used(k) => runs'[k] = runs[k]
  BY DEF Wanes
<1>1. InOrder'
  BY <1>w DEF InOrder
<1>2. ASSUME NEW k \in Run
      PROVE  RunShape(k)'
  <2>1. RunShape(k)
    OBVIOUS
  <2>2. runs[k].due # None => runs[k].due \in Nat
    BY DEF Types, RunsOK, History, Time
  <2>3. now \in Nat /\ now' \in Nat
    BY CronAssumption DEF Types, RestOK
  <2> QED
    BY <1>w, <2>1, <2>2, <2>3 DEF RunShape
<1>3. ASSUME NEW k \in Run
      PROVE  Stamped(k)' /\ Ahead(k)'
  <2>1. Stamped(k) /\ Ahead(k) /\ RunShape(k)
    OBVIOUS
  <2>2. CASE ~Used(k)
    BY <1>w, <2>1, <2>2 DEF RunShape, Unused, Stamped, Ahead
  <2>3. CASE Used(k)
    <3>1. PICK j \in Job : runs[k].job = j /\ runs'[k].job = j
      BY <1>w, <2>1, <2>3 DEF RunShape
    <3>2. RowStep(j)
      OBVIOUS
    <3>3. Current(k)' => runs[k].life = life[j] /\ file'[j].status # "absent" /\ Current(k)
      BY <1>w, <3>1, <3>2 DEF Current, RowStep
    <3>4. Stamped(k)'
      <4>1. Stamped(k)' <=> (Alive(k)' /\ k \notin aged' /\ Current(k)' => file'[j].stamp = k)
        BY <3>1 DEF Stamped
      <4> QED
        BY <1>w, <2>1, <3>1, <3>2, <3>3, <4>1 DEF Stamped, RowStep
    <3>5. Ahead(k)'
      BY <1>w, <3>1, <3>2, <3>3 DEF Ahead, RowStep
    <3> QED
      BY <3>4, <3>5
  <2> QED
    BY <2>2, <2>3
<1>4. \A j \in Job : Counted(j)'
  BY DEF Counted, RowStep
<1>5. OneCopy'
  BY <1>w DEF FiringsAccounted, OneCopy, Same
<1>6. OccurrenceOnce'
  BY <1>w DEF FiringsAccounted, OccurrenceOnce, Same
<1>7. NeverSilent'
  BY DEF NeverSilent, RowStep, Completed
<1> QED
  BY <1>1, <1>2, <1>3, <1>4, <1>5, <1>6, <1>7 DEF FiringsAccounted

\* What the invariant says of one row.
LEMMA RowFacts ==
    ASSUME IInv, NEW j \in Job
    PROVE  /\ file[j].count # 0 => Completed(j) \/ j \in overtaken
           /\ file[j].status = "done" =>
                 file[j].error # "none" \/ Completed(j) \/ j \in overtaken
           /\ file[j].status # "absent" /\ file[j].next # None /\ j \notin rewound =>
                 \A k \in Run : runs[k].job = j /\ runs[k].due # None
                                /\ runs[k].life = life[j] => runs[k].due < file[j].next
           /\ file[j].next # None => file[j].next \in Nat
           /\ \A k \in Run : runs[k].due # None => runs[k].due \in Nat
<1>1. Counted(j) /\ NeverSilent
  BY DEF IInv, Ledger, FiringsAccounted
<1>2. \A k \in Run : runs[k].job = j /\ runs[k].due # None /\ runs[k].life = life[j]
                      /\ file[j].status # "absent" /\ file[j].next # None /\ j \notin rewound
                      => runs[k].due < file[j].next
  BY DEF IInv, Ledger, Ahead, Current
<1>3. file[j] \in Row /\ runs \in [Run -> History]
  BY DEF IInv, Types, FileOK, RunsOK
<1> QED
  BY <1>1, <1>2, <1>3 DEF Counted, NeverSilent, Completed, Row, History, Time

-----------------------------------------------------------------------------
(* What the runners have in hand is kept.                                  *)

\* The runs there are go on, or stop.
Goes(k) ==
    \/ runs'[k] = runs[k]
    \/ /\ Alive(k) /\ runs'[k].state # "unused"
       /\ runs'[k].job = runs[k].job /\ runs'[k].life = runs[k].life

\* A runner left alone, whose own run is left alone.
LEMMA HeldStays ==
    ASSUME IInv, NEW r \in Runner, ctl'[r] = ctl[r], now \in Nat, now' \in Nat, now <= now',
           overtaken \subseteq overtaken',
           \A k \in Run : Used(k) => Goes(k),
           ctl[r].stage = "running" => runs'[ctl[r].run] = runs[ctl[r].run],
           \A j \in Job : Holds(r, j) => life'[j] = life[j] \/ j \in overtaken'
    PROVE  Held(r)'
<1>1. Held(r) /\ ctl[r] \in Control /\ (Busy(r) => ctl[r].job # None /\ ctl[r].run # None)
  BY DEF IInv, InHand, Types, CtlOK
<1>2. ctl[r].at \in Nat /\ ctl[r].todo \subseteq Job
      /\ (Busy(r) => ctl[r].job \in Job /\ ctl[r].run \in Run)
  BY <1>1 DEF Control
<1>3. ctl'[r].at <= now'
  BY <1>1, <1>2 DEF Held
<1>4. Busy(r) =>
        /\ runs'[ctl[r].run].state # "unused" /\ runs'[ctl[r].run].job = ctl[r].job
        /\ runs'[ctl[r].run].life = life'[ctl[r].job] \/ ctl[r].job \in overtaken'
  <2> SUFFICES ASSUME Busy(r)
               PROVE  /\ runs'[ctl[r].run].state # "unused"
                      /\ runs'[ctl[r].run].job = ctl[r].job
                      /\ runs'[ctl[r].run].life = life'[ctl[r].job]
                           \/ ctl[r].job \in overtaken'
    OBVIOUS
  <2>1. /\ runs[ctl[r].run].state # "unused" /\ runs[ctl[r].run].job = ctl[r].job
        /\ runs[ctl[r].run].life = life[ctl[r].job] \/ ctl[r].job \in overtaken
    BY <1>1 DEF Held, Used
  <2>2. /\ runs'[ctl[r].run].state # "unused"
        /\ runs'[ctl[r].run].job = runs[ctl[r].run].job
        /\ runs'[ctl[r].run].life = runs[ctl[r].run].life
    BY <1>2, <2>1 DEF Goes, Used
  <2>3. life'[ctl[r].job] = life[ctl[r].job] \/ ctl[r].job \in overtaken'
    BY <1>2 DEF Holds, Busy
  <2> QED
    BY <2>1, <2>2, <2>3
<1>5. ctl[r].stage = "running" =>
        runs'[ctl[r].run].state = "executing" /\ runs'[ctl[r].run].by = ProcessOf[r]
  BY <1>1 DEF Held
<1>6. ctl[r].stage = "release" => runs'[ctl[r].run].state \notin Live
  BY <1>1, <1>2 DEF Held, Busy, Goes, Alive
<1>7. ctl[r].stage \in {"release", "settle"} /\ ctl[r].ok => runs'[ctl[r].run].state = "ok"
  BY <1>1, <1>2 DEF Held, Busy, Goes, Alive, Live
<1>8. ASSUME NEW j \in ctl[r].todo, ctl[r].list[j].count # 0
      PROVE  Completed(j)' \/ j \in overtaken'
  <2>1. Completed(j) \/ j \in overtaken
    BY <1>1, <1>8 DEF Held
  <2>2. life'[j] = life[j] \/ j \in overtaken'
    BY <1>2 DEF Holds
  <2>3. Completed(j) /\ life'[j] = life[j] => Completed(j)'
    BY DEF Completed, Goes, Used, Alive, Live
  <2> QED
    BY <2>1, <2>2, <2>3
<1> QED
  BY <1>3, <1>4, <1>5, <1>6, <1>7, <1>8 DEF Held, Busy, Used, Alive

LEMMA ApartStays ==
    ASSUME Apart, \A r \in Runner : ctl'[r].stage = "running" =>
                                      ctl[r].stage = "running" /\ ctl'[r].run = ctl[r].run
    PROVE  Apart'
BY DEF Apart

\* A tick that goes on to the next job.
LEMMA RestsHolds ==
    ASSUME IInv, NEW r \in Runner, NEW j \in Job, Rests(r, j),
           UNCHANGED <<now, life, overtaken, runs>>
    PROVE  InHand'
<1>1. ctl \in [Runner -> Control] /\ now \in Nat
  BY CronAssumption DEF IInv, Types, CtlOK, RestOK
<1>2. \A x \in Runner : x # r => ctl'[x] = ctl[x]
  BY <1>1 DEF Rests
<1>3. ASSUME NEW x \in Runner, x # r
      PROVE  Held(x)'
  BY <1>1, <1>2, <1>3, HeldStays DEF Goes
<1>4. /\ ctl'[r].stage \in {"idle", "scan"} /\ ctl'[r].at \in {0, ctl[r].at}
      /\ ctl'[r].todo \subseteq ctl[r].todo \ {j}
      /\ \A i \in ctl'[r].todo : ctl'[r].list[i] = ctl[r].list[i]
  <2>1. ctl'[r] = IF ctl[r].todo \subseteq {j} THEN Idle
                  ELSE [ctl[r] EXCEPT !.stage = "scan", !.todo = ctl[r].todo \ {j},
                                      !.late = ctl[r].late \ {j},
                                      !.list = [ctl[r].list EXCEPT ![j] = Absent],
                                      !.job = None, !.run = None, !.ok = FALSE]
    BY <1>1 DEF Rests
  <2>2. ctl[r] \in Control
    BY <1>1
  <2> QED
    BY <2>1, <2>2 DEF Idle, Control
<1>5. Held(r)'
  <2>1. Held(r)
    BY DEF IInv, InHand
  <2>2. \A i \in ctl[r].todo : Completed(i)' <=> Completed(i)
    BY DEF Completed
  <2> QED
    BY <1>1, <1>4, <2>1, <2>2 DEF Held, Busy
<1>6. Apart'
  BY <1>2, <1>4, ApartStays DEF IInv, InHand
<1> QED
  BY <1>3, <1>5, <1>6 DEF InHand

\* A runner that comes to rest, or is about to take a run up.
LEMMA IdleHolds ==
    ASSUME IInv, NEW r \in Runner, NEW c, ctl' = [ctl EXCEPT ![r] = c],
           c.stage \in {"idle", "asked"}, c.at = 0, c.todo = {},
           UNCHANGED <<now, life, overtaken, runs>>
    PROVE  InHand'
<1>1. ctl \in [Runner -> Control] /\ now \in Nat
  BY CronAssumption DEF IInv, Types, CtlOK, RestOK
<1>2. ctl'[r] = c /\ \A x \in Runner : x # r => ctl'[x] = ctl[x]
  BY <1>1
<1>3. ASSUME NEW x \in Runner, x # r
      PROVE  Held(x)'
  BY <1>1, <1>2, <1>3, HeldStays DEF Goes
<1>4. Held(r)'
  BY <1>1, <1>2 DEF Held, Busy
<1>5. Apart'
  BY <1>2, ApartStays DEF IInv, InHand
<1> QED
  BY <1>3, <1>4, <1>5 DEF InHand

-----------------------------------------------------------------------------
(* A tick and the end of a run.                                            *)

\* A step that touches the file at one row, and neither runs nor lives.
LEMMA OneRow ==
    ASSUME IInv, Types', NEW j \in Job, RowStep(j),
           \A i \in Job : i # j => file'[i] = file[i],
           UNCHANGED <<now, life, overtaken, unstamped, runs, gone, aged>>,
           rewound \subseteq rewound'
    PROVE  Ledger'
<1>1. Wanes
  BY DEF Wanes
<1>2. \A i \in Job : RowStep(i)
  BY <1>1, RowStays
<1>3. now <= now'
  BY CronAssumption DEF IInv, Types, RestOK
<1>4. \A k \in gone' : Used(k) /\ ~Alive(k)'
  BY DEF IInv, Ledger, RunShape, Types, RunsOK, Alive
<1> QED
  BY <1>1, <1>2, <1>3, <1>4, LedgerKept

\* A tick's write that patches a row it thinks is there.
LEMMA TickKeeps ==
    ASSUME IInv, Types', NEW t \in Runner, NEW j \in Job,
           \/ PassOver(t, j) \/ Defer(t, j) \/ WriteTime(t, j) \/ Retire(t, j)
           \/ LosesClaim(t, j) \/ PassesOccurrence(t, j)
    PROVE  Ledger' /\ InHand'
<1> USE DEF procVars, runVars, ghosts
<1>1. Rests(t, j) /\ UNCHANGED <<now, life, overtaken, unstamped, runs, gone, aged>>
      /\ rewound \subseteq rewound'
  BY DEF PassOver, Defer, WriteTime, Retire, LosesClaim, PassesOccurrence, SetsBack
<1>2. InHand'
  BY <1>1, RestsHolds
<1>3. file \in [Job -> Row] /\ file[j] \in Row
  BY DEF IInv, Types, FileOK
<1>4. \A i \in Job : i # j => file'[i] = file[i]
  BY <1>3 DEF PassOver, Defer, WriteTime, Retire, LosesClaim, PassesOccurrence, Patch
<1>5. Completed(j) => Completed(j)'
  BY <1>1 DEF Completed
<1>6. file'[j] = file[j] => RowStep(j)
  BY <1>1, RowStays DEF Wanes
<1>7. CASE PassOver(t, j) \/ Defer(t, j) \/ LosesClaim(t, j)
  BY <1>1, <1>2, <1>4, <1>6, <1>7, OneRow DEF PassOver, Defer, LosesClaim
<1>8. CASE WriteTime(t, j) /\ file[j].status # "absent"
  <2>1. file'[j] = [file[j] EXCEPT !.next = Upcoming(t, j)]
    BY <1>3, <1>8 DEF WriteTime, Patch
  <2>2. Upcoming(t, j) \in Nat
    BY <1>8, ReadTypes DEF WriteTime, IInv
  <2>3. j \notin rewound' =>
          \A k \in Run : runs[k].job = j /\ runs[k].due # None => runs[k].due < Upcoming(t, j)
    BY <1>8, <2>2, RowFacts DEF WriteTime, SetsBack
  <2>4. RowStep(j)
    BY <1>1, <1>3, <1>5, <1>8, <2>1, <2>3, RowFacts DEF RowStep, Row
  <2> QED
    BY <1>1, <1>2, <1>4, <2>4, OneRow
<1>9. CASE Retire(t, j) /\ file[j].status # "absent"
  <2>1. file'[j] = Retired(t, j)
    BY <1>3, <1>9 DEF Retire, Patch
  <2>2. ctl[t].list[j].count # 0 => Completed(j) \/ j \in overtaken
    BY <1>9 DEF Retire, Elapsed, Timeless, Misses, IsDue, ComesTo, IInv, InHand, Held
  <2>3. /\ file'[j].status = "done" /\ file'[j].stamp = file[j].stamp
        /\ file'[j].count = file[j].count
        /\ file'[j].next # None => file'[j].next = file[j].next
        /\ file'[j].error = "none" => ctl[t].list[j].count # 0
    BY <1>3, <2>1 DEF Retired, Row
  <2>4. RowStep(j)
    BY <1>1, <1>5, <1>9, <2>2, <2>3, RowFacts DEF RowStep
  <2> QED
    BY <1>1, <1>2, <1>4, <2>4, OneRow
<1>10. CASE PassesOccurrence(t, j) /\ Upcoming(t, j) # None
  <2>1. /\ file'[j] = [file[j] EXCEPT !.next = Upcoming(t, j)] /\ file[j].status = "active"
        /\ file[j].next # None /\ file[j].next <= ctl[t].at
    BY <1>3, <1>10 DEF PassesOccurrence, Claims, IsDue, Unmoved
  <2>2. Upcoming(t, j) \in Nat /\ Upcoming(t, j) > ctl[t].at /\ ctl[t].at \in Nat
    BY <1>10, ReadTypes DEF IInv
  <2>3. file[j].next < Upcoming(t, j)
    BY <2>1, <2>2, RowFacts
  <2>4. j \notin rewound' =>
          \A k \in Run : runs[k].job = j /\ runs[k].due # None /\ runs[k].life = life[j]
                           => runs[k].due < Upcoming(t, j)
    BY <1>1, <2>1, <2>2, <2>3, RowFacts
  <2>5. RowStep(j)
    BY <1>1, <1>3, <1>5, <2>1, <2>4, RowFacts DEF RowStep, Row
  <2> QED
    BY <1>1, <1>2, <1>4, <2>5, OneRow
<1>11. file[j].status = "absent" /\ (WriteTime(t, j) \/ Retire(t, j)) => file'[j] = file[j]
  BY <1>3 DEF WriteTime, Retire, Patch
<1>12. PassesOccurrence(t, j) /\ Upcoming(t, j) = None => file'[j] = file[j]
  BY <1>3 DEF PassesOccurrence, Row
<1>13. CASE file'[j] = file[j]
  BY <1>1, <1>2, <1>4, <1>6, <1>13, OneRow
<1> QED
  BY <1>7, <1>8, <1>9, <1>10, <1>11, <1>12, <1>13

\* A step that leaves the file alone, and takes no run up.
LEMMA FileAlone ==
    ASSUME IInv, Types', Wanes, UNCHANGED <<file, life, overtaken, rewound, unstamped>>,
           aged \subseteq aged', now <= now', \A k \in gone' : Used(k) /\ ~Alive(k)'
    PROVE  Ledger'
BY RowStays, LedgerKept

LEMMA GoneStays ==
    ASSUME IInv, Wanes, UNCHANGED gone
    PROVE  \A k \in gone' : Used(k) /\ ~Alive(k)'
BY DEF IInv, Ledger, RunShape, Types, RunsOK, Wanes, Alive

LEMMA EndRunKeeps ==
    ASSUME IInv, Types', NEW r \in Runner, EndRun(r)
    PROVE  Ledger' /\ InHand'
<1> USE DEF procVars, runVars, ghosts
<1>1. PICK end \in {"ok", "failed", "abandoned"} :
        /\ runs' = [runs EXCEPT ![ctl[r].run].state = end]
        /\ ctl' = [ctl EXCEPT ![r] =
                     [ctl[r] EXCEPT !.stage = IF end = "abandoned" THEN "settle" ELSE "release",
                                    !.ok = (end = "ok")]]
  BY DEF EndRun
<1>2. ctl[r] \in Control /\ ctl[r].stage = "running" /\ Busy(r) /\ ctl[r].run # None
      /\ runs \in [Run -> History] /\ now \in Nat /\ ctl \in [Runner -> Control]
  BY CronAssumption DEF IInv, Types, CtlOK, EndRun, Busy, RunsOK, RestOK
<1>3. PICK n \in Run : ctl[r].run = n
  BY <1>2 DEF Control
<1>4. Held(r) /\ runs[n].state = "executing"
  BY <1>2, <1>3 DEF IInv, InHand, Held
<1>5. runs'[n] = [runs[n] EXCEPT !.state = end] /\ \A k \in Run : k # n => runs'[k] = runs[k]
  BY <1>1, <1>2, <1>3
<1>6. runs[n] \in History
  BY <1>2
<1>7. /\ runs'[n].state = end /\ runs'[n].job = runs[n].job /\ runs'[n].life = runs[n].life
      /\ runs'[n].due = runs[n].due /\ runs'[n].by = runs[n].by
  BY <1>5, <1>6 DEF History
<1>8. Wanes
  BY <1>4, <1>5, <1>7 DEF Wanes, Alive, Live
<1>9. UNCHANGED <<file, now, life, overtaken, rewound, unstamped, gone, aged>>
  BY DEF EndRun
<1>10. Ledger'
  BY <1>2, <1>8, <1>9, FileAlone, GoneStays
<1>11. \A k \in Run : Used(k) => Goes(k)
  BY <1>8 DEF Wanes, Goes
<1>12. \A x \in Runner : x # r => ctl'[x] = ctl[x]
  BY <1>1, <1>2
<1>13. ASSUME NEW x \in Runner, x # r
       PROVE  Held(x)'
  <2>1. ctl[x].stage = "running" => ctl[x].run # n /\ ctl[x].run \in Run
    BY <1>2, <1>3, <1>13 DEF IInv, InHand, Apart, Types, CtlOK, Busy, Control
  <2> QED
    BY <1>2, <1>5, <1>9, <1>11, <1>12, <1>13, <2>1, HeldStays
<1>14. Held(r)'
  <2>1. /\ ctl'[r].stage = (IF end = "abandoned" THEN "settle" ELSE "release")
        /\ ctl'[r].ok = (end = "ok") /\ ctl'[r].run = n /\ ctl'[r].job = ctl[r].job
        /\ ctl'[r].at = ctl[r].at /\ ctl'[r].todo = ctl[r].todo /\ ctl'[r].list = ctl[r].list
    BY <1>1, <1>2, <1>3 DEF Control
  <2>2. \A j \in ctl[r].todo : Completed(j) => Completed(j)'
    BY <1>2, <1>8, <1>9, CompletedStays DEF Control
  <2>3. /\ ctl'[r].at <= now'
        /\ runs'[n].state # "unused" /\ runs'[n].job = ctl'[r].job
        /\ runs'[n].life = life'[ctl'[r].job] \/ ctl'[r].job \in overtaken'
    BY <1>2, <1>3, <1>4, <1>7, <1>9, <2>1 DEF Held
  <2>4. /\ ctl'[r].stage # "running"
        /\ ctl'[r].stage = "release" => runs'[n].state \notin Live
        /\ ctl'[r].ok => runs'[n].state = "ok"
    BY <1>7, <2>1 DEF Live
  <2>5. \A j \in ctl'[r].todo : ctl'[r].list[j].count # 0 => Completed(j)' \/ j \in overtaken'
    BY <1>4, <1>9, <2>1, <2>2 DEF Held
  <2> QED
    BY <2>1, <2>3, <2>4, <2>5 DEF Held, Used, Alive
<1>15. Apart'
  <2>1. ctl'[r].stage # "running"
    BY <1>1, <1>2 DEF Control
  <2> QED
    BY <1>12, <2>1, ApartStays DEF IInv, InHand
<1> QED
  BY <1>10, <1>13, <1>14, <1>15 DEF InHand

\* The stamp of a run that is over is cleared.
LEMMA ClearedKeeps ==
    ASSUME IInv, Types', Wanes, NEW k \in Run, ~Alive(k)', file' = Cleared(k),
           UNCHANGED <<now, life, overtaken, rewound, unstamped, gone, aged>>
    PROVE  Ledger'
<1>1. ASSUME NEW j \in Job
      PROVE  RowStep(j)
  <2>1. file[j] \in Row
    BY DEF IInv, Types, FileOK
  <2>2. CASE file[j].stamp = k
    <3>1. file'[j] = [file[j] EXCEPT !.stamp = None]
      BY <2>2 DEF Cleared
    <3>2. Completed(j) => Completed(j)'
      BY CompletedStays
    <3> QED
      BY <2>1, <2>2, <3>1, <3>2, RowFacts DEF RowStep, Row, Alive
  <2>3. CASE file[j].stamp # k
    BY <2>3, RowStays DEF Cleared
  <2> QED
    BY <2>2, <2>3
<1>2. now <= now'
  BY CronAssumption DEF IInv, Types, RestOK
<1> QED
  BY <1>1, <1>2, LedgerKept, GoneStays

\* A runner that has let its stamp go.
LEMMA ReleasedHolds ==
    ASSUME IInv, NEW r \in Runner, ctl[r].stage = "release",
           ctl' = [ctl EXCEPT ![r].stage = "settle"],
           UNCHANGED <<now, life, overtaken, runs>>
    PROVE  InHand'
<1>1. ctl \in [Runner -> Control] /\ now \in Nat /\ ctl[r] \in Control
  BY CronAssumption DEF IInv, Types, CtlOK, RestOK
<1>2. \A x \in Runner : x # r => ctl'[x] = ctl[x]
  BY <1>1
<1>3. ASSUME NEW x \in Runner, x # r
      PROVE  Held(x)'
  BY <1>1, <1>2, <1>3, HeldStays DEF Goes
<1>4. ctl'[r] = [ctl[r] EXCEPT !.stage = "settle"]
  BY <1>1
<1>5. Held(r)'
  <2>1. Held(r)
    BY DEF IInv, InHand
  <2>2. \A i \in ctl[r].todo : Completed(i)' <=> Completed(i)
    BY DEF Completed
  <2> QED
    BY <1>1, <1>4, <2>1, <2>2 DEF Held, Busy, Control, Used
<1>6. Apart'
  BY <1>1, <1>2, <1>4, ApartStays DEF IInv, InHand, Control
<1> QED
  BY <1>3, <1>5, <1>6 DEF InHand

LEMMA SettleKeeps ==
    ASSUME IInv, Types', NEW r \in Runner, Settle(r)
    PROVE  Ledger' /\ InHand'
<1> USE DEF procVars, runVars, ghosts
<1>1. ctl[r] \in Control /\ ctl[r].stage = "settle" /\ Busy(r)
      /\ ctl[r].job # None /\ ctl[r].run # None /\ file \in [Job -> Row]
  BY DEF IInv, Types, CtlOK, FileOK, Settle, Busy
<1>2. PICK j \in Job, n \in Run : ctl[r].job = j /\ ctl[r].run = n
  BY <1>1 DEF Control
<1>3. Rests(r, j) /\ Patch(j, Recorded(r, file[j]))
      /\ UNCHANGED <<now, life, overtaken, rewound, unstamped, runs, gone, aged>>
  BY <1>2 DEF Settle
<1>4. InHand'
  BY <1>3, RestsHolds
<1>5. \A i \in Job : i # j => file'[i] = file[i]
  BY <1>1, <1>3 DEF Patch
<1>6. file'[j] = file[j] => RowStep(j)
  BY <1>3, RowStays DEF Wanes
<1>7. ctl[r].ok => Completed(j) \/ j \in overtaken
  BY <1>1, <1>2 DEF IInv, InHand, Held, Completed
<1>8. Completed(j)' <=> Completed(j)
  BY <1>3 DEF Completed
<1>9. file[j] \in Row /\ (file[j].status # "absent" => file'[j] = Recorded(r, file[j]))
      /\ (file[j].status = "absent" => file'[j] = file[j])
  BY <1>1, <1>3 DEF Patch
<1>10. ASSUME file[j].status # "absent", ~ctl[r].ok
       PROVE  RowStep(j)
  <2>1. /\ file'[j].error = "failed" /\ file'[j].stamp = file[j].stamp
        /\ file'[j].count = file[j].count /\ file'[j].next = file[j].next
    BY <1>9, <1>10 DEF Recorded, Row
  <2> QED
    BY <1>3, <1>8, <1>10, <2>1, RowFacts DEF RowStep
<1>11. ASSUME file[j].status # "absent", ctl[r].ok, runs[ctl[r].run].due # None
       PROVE  RowStep(j)
  <2>1. file'[j].stamp = file[j].stamp /\ file'[j].next \in {file[j].next, None}
    BY <1>2, <1>9, <1>11 DEF Recorded, Row
  <2> QED
    BY <1>3, <1>7, <1>8, <1>11, <2>1, RowFacts DEF RowStep
<1>12. ASSUME file[j].status # "absent", ctl[r].ok, runs[ctl[r].run].due = None
       PROVE  RowStep(j)
  BY <1>6, <1>9, <1>12 DEF Recorded
<1>13. RowStep(j)
  BY <1>6, <1>9, <1>10, <1>11, <1>12
<1> QED
  BY <1>3, <1>4, <1>5, <1>13, OneRow

LEMMA RunKeeps ==
    ASSUME IInv, Types', NEW r \in Runner, RunStep(r)
    PROVE  Ledger' /\ InHand'
<1>1. CASE Release(r)
  <2>1. UNCHANGED <<now, life, overtaken, rewound, unstamped, runs, gone, aged>>
        /\ ctl' = [ctl EXCEPT ![r].stage = "settle"] /\ ctl[r].stage = "release"
    BY <1>1 DEF Release, procVars, runVars, ghosts
  <2>2. PICK n \in Run : ctl[r].run = n
    BY <2>1 DEF IInv, Types, CtlOK, Busy, Control
  <2>3. file' = Cleared(n)
    BY <1>1, <2>2 DEF Release
  <2>4. ~Alive(n)'
    BY <2>1, <2>2 DEF IInv, InHand, Held, Alive
  <2>5. Ledger'
    BY <2>1, <2>3, <2>4, ClearedKeeps DEF Wanes
  <2> QED
    BY <2>1, <2>5, ReleasedHolds
<1> QED
  BY <1>1, EndRunKeeps, SettleKeeps DEF RunStep

LEMMA LockFailsKeeps ==
    ASSUME IInv, Types', NEW r \in Runner, LockFails(r)
    PROVE  Ledger' /\ InHand'
<1>1. UNCHANGED <<file, now, life, overtaken, rewound, unstamped, runs, gone, aged>>
  BY DEF LockFails, procVars, runVars, ghosts
<1>2. Wanes /\ now <= now'
  BY <1>1, CronAssumption DEF Wanes, IInv, Types, RestOK
<1>3. Ledger'
  BY <1>1, <1>2, FileAlone, GoneStays
<1>4. CASE ctl[r].stage = "release" /\ ctl' = [ctl EXCEPT ![r].stage = "settle"]
  BY <1>1, <1>3, <1>4, ReleasedHolds
<1>5. CASE ctl[r].stage = "settle" /\ Rests(r, ctl[r].job)
  <2>1. PICK j \in Job : ctl[r].job = j
    BY <1>5 DEF IInv, Types, CtlOK, Busy, Control
  <2> QED
    BY <1>1, <1>3, <1>5, <2>1, RestsHolds
<1>6. CASE \E j \in Job : Rests(r, j)
  BY <1>1, <1>3, <1>6, RestsHolds
<1>7. CASE ctl' = [ctl EXCEPT ![r] = Idle]
  <2>1. Idle.stage = "idle" /\ Idle.at = 0 /\ Idle.todo = {}
    BY DEF Idle
  <2> QED
    BY <1>1, <1>3, <1>7, <2>1, IdleHolds
<1> QED
  BY <1>4, <1>5, <1>6, <1>7 DEF LockFails

\* A `run now` that is asked for, or refused.
LEMMA AskKeeps ==
    ASSUME IInv, Types', NEW m \in Runner,
           RunNowRefused(m) \/ \E j \in Job : AsksRunNow(m, j)
    PROVE  Ledger' /\ InHand'
<1>1. UNCHANGED <<file, now, life, overtaken, rewound, unstamped, runs, gone, aged>>
  BY DEF RunNowRefused, AsksRunNow, runVars, ghosts
<1>2. Wanes /\ now <= now'
  BY <1>1, CronAssumption DEF Wanes, IInv, Types, RestOK
<1>3. Ledger'
  BY <1>1, <1>2, FileAlone, GoneStays
<1>4. CASE RunNowRefused(m)
  <2>1. Idle.stage = "idle" /\ Idle.at = 0 /\ Idle.todo = {}
    BY DEF Idle
  <2>2. ctl' = [ctl EXCEPT ![m] = Idle]
    BY <1>4 DEF RunNowRefused
  <2> QED
    BY <1>1, <1>3, <2>1, <2>2, IdleHolds
<1>5. ASSUME NEW j \in Job, AsksRunNow(m, j)
      PROVE  Ledger' /\ InHand'
  <2> DEFINE c == [Idle EXCEPT !.stage = "asked", !.job = j]
  <2>1. c.stage = "asked" /\ c.at = 0 /\ c.todo = {}
    BY DEF Idle
  <2>2. ctl' = [ctl EXCEPT ![m] = c]
    BY <1>5 DEF AsksRunNow
  <2> HIDE DEF c
  <2> QED
    BY <1>1, <1>3, <2>1, <2>2, IdleHolds
<1> QED
  BY <1>4, <1>5

-----------------------------------------------------------------------------
(* Turns that settle, crashes, and what touches neither file nor run.      *)

\* A step that leaves every runner alone.
LEMMA AllStay ==
    ASSUME IInv, UNCHANGED ctl, now \in Nat, now' \in Nat, now <= now',
           overtaken \subseteq overtaken',
           \A k \in Run : Used(k) => Goes(k) /\ (runs[k].state = "executing" => runs'[k] = runs[k]),
           \A r \in Runner, j \in Job : Holds(r, j) => life'[j] = life[j] \/ j \in overtaken'
    PROVE  InHand'
<1>1. ASSUME NEW r \in Runner
      PROVE  Held(r)'
  <2>1. ctl[r].stage = "running" => runs'[ctl[r].run] = runs[ctl[r].run]
    BY DEF IInv, InHand, Held, Types, CtlOK, Busy, Control, Used
  <2> QED
    BY <2>1, HeldStays
<1>2. Apart'
  BY ApartStays DEF IInv, InHand
<1> QED
  BY <1>1, <1>2 DEF InHand

LEMMA TurnSettlesKeeps ==
    ASSUME IInv, Types', NEW k \in Run, TurnSettles(k)
    PROVE  Ledger' /\ InHand'
<1>1. runs' = [runs EXCEPT ![k].state = "failed"] /\ runs[k].state = "abandoned"
      /\ UNCHANGED <<now, ctl, life, overtaken, rewound, unstamped, gone, aged>>
  BY DEF TurnSettles, procVars, ghosts
<1>2. runs \in [Run -> History] /\ now \in Nat
  BY CronAssumption DEF IInv, Types, RunsOK, RestOK
<1>3. /\ runs'[k].state = "failed" /\ runs'[k].job = runs[k].job /\ runs'[k].life = runs[k].life
      /\ runs'[k].due = runs[k].due /\ runs'[k].by = runs[k].by
      /\ \A l \in Run : l # k => runs'[l] = runs[l]
  BY <1>1, <1>2 DEF History
<1>4. Wanes /\ ~Alive(k)'
  BY <1>1, <1>3 DEF Wanes, Alive, Live
<1>5. Ledger'
  <2>1. CASE file' = Cleared(k)
    BY <1>1, <1>4, <2>1, ClearedKeeps
  <2>2. CASE UNCHANGED file
    BY <1>1, <1>2, <1>4, <2>2, FileAlone, GoneStays
  <2> QED
    BY <2>1, <2>2 DEF TurnSettles
<1>6. InHand'
  <2>1. \A l \in Run : Goes(l) /\ (runs[l].state = "executing" => runs'[l] = runs[l])
    BY <1>1, <1>3 DEF Goes, Alive, Live
  <2> QED
    BY <1>1, <1>2, <2>1, AllStay
<1> QED
  BY <1>5, <1>6

LEMMA CrashKeeps ==
    ASSUME IInv, Types', NEW p \in Process, Crash(p)
    PROVE  Ledger' /\ InHand'
<1>1. /\ ctl' = [r \in Runner |-> IF ProcessOf[r] = p THEN Idle ELSE ctl[r]]
      /\ gone' = gone \cup {k \in Run : runs[k].by = p}
      /\ runs' = [k \in Run |-> IF runs[k].by = p /\ runs[k].state \in Live
                                THEN [runs[k] EXCEPT !.state = "killed"] ELSE runs[k]]
      /\ UNCHANGED <<file, now, life, overtaken, rewound, unstamped, aged>>
  BY DEF Crash, ghosts
<1>2. runs \in [Run -> History] /\ now \in Nat /\ gone \subseteq Run
  BY CronAssumption DEF IInv, Types, RunsOK, RestOK
<1>3. ASSUME NEW k \in Run
      PROVE  \/ runs'[k] = runs[k] /\ ~(runs[k].by = p /\ Alive(k))
             \/ /\ Alive(k) /\ runs[k].by = p /\ runs'[k].state = "killed"
                /\ runs'[k].job = runs[k].job /\ runs'[k].life = runs[k].life
                /\ runs'[k].due = runs[k].due /\ runs'[k].by = runs[k].by
  <2>1. runs[k] \in History
    BY <1>2
  <2> QED
    BY <1>1, <2>1 DEF History, Alive
<1>4. Wanes
  BY <1>3 DEF Wanes
<1>5. ASSUME NEW k \in gone'
      PROVE  Used(k) /\ ~Alive(k)'
  <2>1. k \in Run /\ RunShape(k)
    BY <1>1, <1>2, <1>5 DEF IInv, Ledger
  <2>2. CASE k \in gone
    BY <1>3, <2>1, <2>2 DEF RunShape, Alive, Live
  <2>3. CASE runs[k].by = p
    <3>1. Used(k)
      BY <2>1, <2>3, CronAssumption DEF RunShape, Unused
    <3> QED
      BY <1>3, <2>1, <2>3, <3>1 DEF Alive, Live
  <2> QED
    BY <1>1, <1>5, <2>2, <2>3
<1>6. Ledger'
  BY <1>1, <1>2, <1>4, <1>5, FileAlone
<1>7. ASSUME NEW r \in Runner
      PROVE  Held(r)'
  <2>1. CASE ProcessOf[r] = p
    BY <1>1, <1>2, <2>1 DEF Held, Busy, Idle
  <2>2. CASE ProcessOf[r] # p
    <3>1. ctl[r].stage = "running" => runs'[ctl[r].run] = runs[ctl[r].run]
      BY <1>3, <2>2 DEF IInv, InHand, Held, Types, CtlOK, Busy, Control
    <3>2. \A k \in Run : Goes(k)
      BY <1>3 DEF Goes
    <3> QED
      BY <1>1, <1>2, <2>2, <3>1, <3>2, HeldStays
  <2> QED
    BY <2>1, <2>2
<1>8. Apart'
  BY <1>1, ApartStays DEF Idle, IInv, InHand
<1> QED
  BY <1>6, <1>7, <1>8 DEF InHand

\* A tick starts from rows that are in order.
LEMMA FireKeeps ==
    ASSUME IInv, Types', NEW t \in Runner, Fire(t)
    PROVE  Ledger' /\ InHand'
<1>1. UNCHANGED <<file, now, life, overtaken, rewound, unstamped, runs, gone, aged>>
  BY DEF Fire, runVars, ghosts
<1>2. now \in Nat /\ ctl \in [Runner -> Control]
  BY CronAssumption DEF IInv, Types, CtlOK, RestOK
<1>3. Ledger'
  BY <1>1, <1>2, FileAlone, GoneStays DEF Wanes
<1>4. PICK active \in SUBSET Job, late \in SUBSET Job :
        ctl' = [ctl EXCEPT ![t] = IF active = {} THEN Idle ELSE Reading(active, late)]
  BY DEF Fire
<1>5. /\ ctl'[t].stage \in {"idle", "scan"} /\ ctl'[t].at \in {0, now}
      /\ ctl'[t].todo \subseteq Job
      /\ \A j \in ctl'[t].todo : ctl'[t].list[j].count = file[j].count
  <2>1. ctl'[t] \in {Idle, Reading(active, late)}
    BY <1>2, <1>4
  <2>2. active \subseteq Job /\ \A j \in active : j \in Job
    OBVIOUS
  <2>3. CASE ctl'[t] = Idle
    BY <2>3 DEF Idle
  <2>4. CASE ctl'[t] = Reading(active, late)
    <3>1. /\ ctl'[t].stage = "scan" /\ ctl'[t].at = now /\ ctl'[t].todo = active
          /\ \A j \in active : ctl'[t].list[j] = [file[j] EXCEPT !.error = "none"]
      BY <2>2, <2>4 DEF Reading, Idle
    <3>2. \A j \in active : [file[j] EXCEPT !.error = "none"].count = file[j].count
      BY <2>2 DEF IInv, Types, FileOK, Row
    <3>3. active \subseteq Job /\ now \in {0, now}
      OBVIOUS
    <3> QED
      BY <3>1, <3>2, <3>3
  <2> QED
    BY <2>1, <2>3, <2>4
<1>6. \A r \in Runner : r # t => ctl'[r] = ctl[r]
  BY <1>2, <1>4
<1>7. Held(t)'
  <2>1. \A j \in Job : file[j].count # 0 => Completed(j)' \/ j \in overtaken'
    BY <1>1, RowFacts DEF Completed
  <2> QED
    BY <1>1, <1>2, <1>5, <2>1 DEF Held, Busy
<1>8. ASSUME NEW r \in Runner, r # t
      PROVE  Held(r)'
  BY <1>1, <1>2, <1>6, <1>8, HeldStays DEF Goes
<1>9. Apart'
  BY <1>5, <1>6, ApartStays DEF IInv, InHand
<1> QED
  BY <1>3, <1>7, <1>8, <1>9 DEF InHand

\* Time, age, a restart and a stutter.
LEMMA QuietKeeps ==
    ASSUME IInv, Types',
           TimePasses \/ UNCHANGED vars \/ (\E k \in Run : Ages(k))
             \/ (\E p \in Process : Restart(p))
    PROVE  Ledger' /\ InHand'
<1>1. /\ UNCHANGED <<file, ctl, life, overtaken, rewound, unstamped, runs, gone>>
      /\ aged \subseteq aged' /\ now' \in {now, now + 1}
  BY DEF TimePasses, vars, Ages, Restart, procVars, runVars, ghosts
<1>2. now \in Nat /\ now' \in Nat /\ now <= now'
  BY <1>1, CronAssumption DEF IInv, Types, RestOK
<1>3. Ledger'
  BY <1>1, <1>2, FileAlone, GoneStays DEF Wanes
<1>4. InHand'
  BY <1>1, <1>2, AllStay DEF Goes
<1> QED
  BY <1>3, <1>4

-----------------------------------------------------------------------------
(* The edits.                                                              *)

\* What every edit leaves alone, and that it notes the jobs it overtakes.
LEMMA EditFacts ==
    ASSUME IInv, NEW j \in Job, Edits(j)
    PROVE  /\ UNCHANGED <<now, ctl, runs, gone, aged, unstamped>> /\ now \in Nat
           /\ overtaken \subseteq overtaken' /\ Wanes
           /\ \A r \in Runner : Holds(r, j) => j \in overtaken'
           /\ file \in [Job -> Row] /\ file[j] \in Row
BY CronAssumption DEF Edits, runVars, Wanes, IInv, Types, RestOK, FileOK

\* An edit of one row of a job that stays the job it is.
LEMMA EditKeeps ==
    ASSUME IInv, Types', NEW j \in Job, Edits(j), UNCHANGED life, rewound \subseteq rewound',
           RowStep(j), \A i \in Job : i # j => file'[i] = file[i]
    PROVE  Ledger' /\ InHand'
<1>1. \A i \in Job : RowStep(i)
  BY EditFacts, RowStays
<1>2. Ledger'
  BY <1>1, EditFacts, LedgerKept, GoneStays
<1>3. InHand'
  BY EditFacts, AllStay DEF Goes
<1> QED
  BY <1>2, <1>3

LEMMA EditsKeep ==
    ASSUME IInv, Types', NEW j \in Job,
           \/ DeleteJob(j) \/ PauseJob(j) \/ ResumeJob(j)
           \/ \E s \in Schedules : UpdateJob(j, s)
    PROVE  Ledger' /\ InHand'
<1>1. Edits(j) /\ file[j].status # "absent" /\ UNCHANGED life /\ rewound \subseteq rewound'
  BY DEF DeleteJob, PauseJob, ResumeJob, UpdateJob, SetsBack
<1>2. file \in [Job -> Row] /\ file[j] \in Row /\ overtaken \subseteq overtaken' /\ now \in Nat
      /\ UNCHANGED <<now, runs>>
  BY <1>1, EditFacts
<1>3. \A i \in Job : i # j => file'[i] = file[i]
  BY <1>2 DEF DeleteJob, PauseJob, ResumeJob, UpdateJob
<1>4. Completed(j)' <=> Completed(j)
  BY <1>1, <1>2 DEF Completed
<1>5. \A k \in Run : runs[k].due # None => runs[k].due \in Nat /\ runs[k].due <= now
  BY RowFacts DEF IInv, Ledger, RunShape
<1>6. CASE DeleteJob(j)
  BY <1>1, <1>2, <1>3, <1>6, EditKeeps DEF DeleteJob, RowStep, Absent
<1>7. CASE PauseJob(j)
  <2>1. /\ file'[j].status = "paused" /\ file'[j].stamp = file[j].stamp
        /\ file'[j].next = file[j].next /\ file'[j].count = file[j].count
    BY <1>2, <1>7 DEF PauseJob, Row
  <2>2. RowStep(j)
    BY <1>1, <1>2, <1>4, <1>7, <2>1, RowFacts DEF RowStep
  <2> QED
    BY <1>1, <1>3, <2>2, EditKeeps
<1>8. CASE ResumeJob(j)
  <2> DEFINE after == NextAfter(file[j].sched, now)
             next == IF after = None /\ file[j].count = 0 THEN now ELSE after
  <2>1. /\ file'[j] = [file[j] EXCEPT !.status = "active", !.next = next]
        /\ IF next = None THEN UNCHANGED rewound ELSE SetsBack(j, next)
    BY <1>2, <1>8 DEF ResumeJob
  <2>2. next # None => next \in Nat
    BY <1>2, NextAfterIsLater DEF Row
  <2> HIDE DEF next
  <2>3. /\ file'[j].status = "active" /\ file'[j].stamp = file[j].stamp
        /\ file'[j].next = next /\ file'[j].count = file[j].count
    BY <1>2, <2>1 DEF Row
  <2>4. next # None /\ j \notin rewound' =>
          \A k \in Run : runs[k].job = j /\ runs[k].due # None => runs[k].due < next
    BY <1>5, <2>1, <2>2 DEF SetsBack
  <2>5. RowStep(j)
    BY <1>1, <1>2, <1>4, <2>3, <2>4, RowFacts DEF RowStep
  <2> QED
    BY <1>1, <1>3, <2>5, EditKeeps
<1>9. ASSUME NEW s \in Schedules, UpdateJob(j, s)
      PROVE  RowStep(j)
  <2>1. /\ file'[j].status = file[j].status /\ file'[j].stamp = file[j].stamp
        /\ file'[j].next = NextAfter(s, now) /\ file'[j].count = file[j].count
        /\ file'[j].error = file[j].error
    <3> DEFINE lim == IF s # 0 /\ file[j].limit = 0 THEN 1
                      ELSE IF s = 0 /\ file[j].sched # 0 /\ file[j].limit = 1 THEN 0
                      ELSE file[j].limit
    <3>1. file'[j] = [file[j] EXCEPT !.sched = s, !.next = NextAfter(s, now), !.limit = lim]
      BY <1>2, <1>9 DEF UpdateJob
    <3> HIDE DEF lim
    <3> QED
      BY <1>2, <3>1 DEF Row
  <2>2. s \in Nat
    BY CronAssumption
  <2>3. NextAfter(s, now) # None =>
          \A k \in Run : runs[k].due # None => runs[k].due < NextAfter(s, now)
    BY <1>2, <1>5, <2>2, NextAfterIsLater
  <2> QED
    BY <1>1, <1>2, <1>4, <2>1, <2>3, RowFacts DEF RowStep
<1> QED
  BY <1>1, <1>3, <1>6, <1>7, <1>8, <1>9, EditKeeps

\* A job created again is a job of its own.
LEMMA CreateKeeps ==
    ASSUME IInv, Types', NEW j \in Job, NEW s \in Schedules, CreateJob(j, s)
    PROVE  Ledger' /\ InHand'
<1>1. Edits(j) /\ life' = [life EXCEPT ![j] = @ + 1] /\ UNCHANGED rewound
      /\ life \in [Job -> Nat]
  BY DEF CreateJob, IInv, Types, RestOK
<1>2. file \in [Job -> Row] /\ overtaken \subseteq overtaken' /\ now \in Nat
      /\ UNCHANGED <<now, ctl, runs, gone, aged, unstamped>>
  BY <1>1, EditFacts
<1>3. file'[j].status = "active" /\ file'[j].count = 0
  BY <1>2 DEF CreateJob, Absent
<1>4. \A i \in Job : i # j => file'[i] = file[i] /\ life'[i] = life[i]
  BY <1>1, <1>2 DEF CreateJob
<1>5. life[j] \in Nat /\ life'[j] = life[j] + 1
  BY <1>1
<1>6. ASSUME NEW k \in Run
      PROVE  RunShape(k)' /\ Stamped(k)' /\ Ahead(k)'
  <2>1. RunShape(k) /\ Stamped(k) /\ Ahead(k)
    BY DEF IInv, Ledger
  <2>2. CASE ~Used(k)
    BY <1>2, <2>1, <2>2 DEF RunShape, Unused, Stamped, Ahead, Alive, Live, Used
  <2>3. CASE Used(k)
    <3>1. PICK i \in Job : runs[k].job = i
      BY <2>1, <2>3 DEF RunShape
    <3>2. runs[k].life \in Nat /\ life[i] \in Nat /\ runs[k].life <= life[i]
      BY <1>1, <2>1, <2>3, <3>1 DEF RunShape, IInv, Types, RunsOK, History
    <3>3. runs[k].life <= life'[i]
      BY <1>4, <1>5, <3>2
    <3>4. Current(k)' => i # j /\ Current(k)
      BY <1>2, <1>4, <1>5, <3>1, <3>2 DEF Current
    <3> QED
      BY <1>1, <1>2, <1>4, <2>1, <2>3, <3>1, <3>3, <3>4
      DEF RunShape, Stamped, Ahead, Used, Alive
  <2> QED
    BY <2>2, <2>3
<1>7. ASSUME NEW i \in Job
      PROVE  Counted(i)'
  BY <1>2, <1>3, <1>4, RowFacts DEF Counted, Completed
<1>8. FiringsAccounted'
  <2>1. OneCopy' /\ OccurrenceOnce'
    BY <1>1, <1>2 DEF IInv, Ledger, FiringsAccounted, OneCopy, OccurrenceOnce, Alive, Same
  <2>2. NeverSilent'
    BY <1>2, <1>3, <1>4, RowFacts DEF NeverSilent, Completed
  <2> QED
    BY <2>1, <2>2 DEF FiringsAccounted
<1>9. InOrder'
  BY <1>2 DEF IInv, Ledger, InOrder, Used
<1>10. InHand'
  BY <1>1, <1>2, <1>4, EditFacts, AllStay DEF Goes
<1> QED
  BY <1>6, <1>7, <1>8, <1>9, <1>10 DEF Ledger

-----------------------------------------------------------------------------
(* A run that starts.                                                      *)

LEMMA StartsKeep ==
    ASSUME IInv, Types', NEW r \in Runner, NEW j \in Job, NEW due \in Time,
           Starts(r, j, due), ~Fresh(file[j]), file'[j].status = file[j].status,
           file[j].status # "absent" => file'[j].stamp = NextRun,
           unstamped' = IF file[j].status = "absent" THEN unstamped \cup {NextRun}
                        ELSE unstamped,
           file'[j].count = file[j].count, file'[j].error = file[j].error,
           \A i \in Job : i # j => file'[i] = file[i],
           UNCHANGED <<now, life, overtaken, rewound, gone, aged>>,
           due # None => due = file[j].next /\ due <= now /\ file[j].status # "absent",
           file'[j].next # None =>
              /\ file[j].next # None /\ file[j].next <= file'[j].next
              /\ due # None => due < file'[j].next
    PROVE  Ledger' /\ InHand'
<1> DEFINE new == [job |-> j, life |-> life[j], due |-> due, by |-> ProcessOf[r],
                   state |-> "executing"]
<1>1. PICK n \in Run : n = NextRun
  BY DEF Starts
<1>2. /\ ctl' = [ctl EXCEPT ![r] = [ctl[r] EXCEPT !.stage = "running", !.job = j, !.run = n,
                                                 !.todo = ctl[r].todo \ {j}]]
      /\ runs' = [runs EXCEPT ![n] = new] /\ (file[j].status # "absent" => file'[j].stamp = n)
  BY <1>1 DEF Starts
<1>3. /\ runs \in [Run -> History] /\ ctl \in [Runner -> Control] /\ ctl[r] \in Control
      /\ now \in Nat /\ life \in [Job -> Nat] /\ ProcessOf[r] \in Process
      /\ file[j] \in Row /\ file'[j] \in Row
  BY CronAssumption DEF IInv, Types, RunsOK, CtlOK, RestOK, FileOK
<1>4. n \in Nat /\ n <= MaxRuns /\ \A k \in Run : Used(k) <=> k < n
  BY <1>1, NextIsFree, CronAssumption DEF IInv, Ledger, Run
<1>5. runs'[n] = new /\ (\A k \in Run : k # n => runs'[k] = runs[k]) /\ ~Used(n)
  BY <1>2, <1>3, <1>4
<1>6. ASSUME NEW k \in Run
      PROVE  Used(k) => k # n /\ runs'[k] = runs[k]
  BY <1>5
\* Any other run of this job that is at work is one whose stamp is old.
<1>7. ASSUME NEW k \in Run, Alive(k), runs[k].job = j, runs[k].life = life[j],
             file[j].status # "absent"
      PROVE  k \in aged
  <2>1. Stamped(k) /\ RunShape(k)
    BY DEF IInv, Ledger
  <2>2. k \notin aged => file[j].stamp = k
    BY <1>7, <2>1 DEF Stamped, Current
  <2>3. k \notin gone /\ k # None
    BY <1>7, <2>1, RunNotNone DEF RunShape
  <2> QED
    BY <2>2, <2>3 DEF Fresh
<1>8. InOrder'
  <2>1. \A k \in Run : Used(k)' <=> k <= n
    BY <1>4, <1>5 DEF Used, Run
  <2> QED
    BY <1>4, <2>1, CronAssumption DEF InOrder
<1>9. ASSUME NEW k \in Run
      PROVE  RunShape(k)' /\ Stamped(k)' /\ Ahead(k)'
  <2>1. RunShape(k) /\ Stamped(k) /\ Ahead(k)
    BY DEF IInv, Ledger
  <2>2. CASE k = n
    <3>1. k \notin gone
      BY <1>5, <2>1, <2>2 DEF RunShape
    <3>2. RunShape(k)'
      BY <1>3, <1>5, <2>2, <3>1 DEF RunShape, Used, Alive
    <3>3. Stamped(k)'
      BY <1>2, <1>5, <2>2 DEF Stamped, Current
    <3>4. Ahead(k)'
      BY <1>5, <2>2 DEF Ahead
    <3> QED
      BY <3>2, <3>3, <3>4
  <2>3. CASE k # n /\ ~Used(k)
    BY <1>5, <2>1, <2>3 DEF RunShape, Stamped, Ahead, Used, Unused, Alive, Live
  <2>4. CASE k # n /\ Used(k)
    <3>1. PICK i \in Job : runs[k].job = i
      BY <2>1, <2>4 DEF RunShape
    <3>2. runs'[k] = runs[k]
      BY <1>5, <2>4
    <3>3. RunShape(k)'
      BY <2>1, <3>2 DEF RunShape, Used, Alive
    <3>4. Stamped(k)'
      BY <1>7, <2>1, <3>1, <3>2 DEF Stamped, Current, Alive
    <3>5. Ahead(k)'
      <4>1. CASE i = j
        <5>1. runs[k].due # None => runs[k].due \in Nat
          BY <1>3 DEF History, Time
        <5>2. file[j].next \in Time /\ file'[j].next \in Time
          BY <1>3 DEF Row
        <5> QED
          BY <2>1, <3>1, <3>2, <4>1, <5>1, <5>2 DEF Ahead, Current, Time
      <4>2. CASE i # j
        BY <2>1, <3>1, <3>2, <4>2 DEF Ahead, Current
      <4> QED
        BY <4>1, <4>2
    <3> QED
      BY <3>3, <3>4, <3>5
  <2> QED
    BY <2>2, <2>3, <2>4
<1>10. ASSUME NEW i \in Job, Completed(i)
       PROVE  Completed(i)'
  BY <1>5, <1>10 DEF Completed, Used
<1>11. \A i \in Job : Counted(i)'
  BY <1>10, RowFacts DEF Counted
<1>12. FiringsAccounted'
  <2>1. OneCopy'
    <3> SUFFICES ASSUME NEW k \in Run, NEW l \in Run, k # l, Alive(k)', Alive(l)', Same(k, l)'
                 PROVE  {k, l} \cap (aged \cup unstamped') # {}
      BY DEF OneCopy
    <3>1. CASE k # n /\ l # n
      BY <1>5, <3>1 DEF IInv, Ledger, FiringsAccounted, OneCopy, Alive, Same
    <3>a. file[j].status = "absent" => n \in unstamped'
      BY <1>1
    <3>2. CASE k = n
      BY <1>5, <1>7, <3>a, <3>2 DEF Alive, Same
    <3>3. CASE l = n
      BY <1>5, <1>7, <3>a, <3>3 DEF Alive, Same
    <3> QED
      BY <3>1, <3>2, <3>3
  <2>2. OccurrenceOnce'
    <3> SUFFICES ASSUME NEW k \in Run, NEW l \in Run, k # l, runs'[k].due # None,
                        Same(k, l)', runs'[k].due = runs'[l].due
                 PROVE  runs'[k].job \in rewound
      BY DEF OccurrenceOnce
    <3>1. CASE k # n /\ l # n
      BY <1>5, <3>1 DEF IInv, Ledger, FiringsAccounted, OccurrenceOnce, Same
    <3>2. ASSUME NEW m \in Run, m # n, runs[m].job = j, runs[m].life = life[j],
                 due # None, runs[m].due = due
          PROVE  j \in rewound
      <4>1. due \in Nat /\ due = file[j].next
        BY <3>2 DEF Time
      <4>2. j \notin rewound => runs[m].due < file[j].next
        BY <3>2, <4>1, RowFacts
      <4> QED
        BY <3>2, <4>1, <4>2
    <3>3. CASE k = n
      BY <1>5, <3>2, <3>3 DEF Same
    <3>4. CASE l = n
      BY <1>5, <3>2, <3>4 DEF Same
    <3> QED
      BY <3>1, <3>3, <3>4
  <2>3. NeverSilent'
    BY <1>10, RowFacts DEF NeverSilent, Completed
  <2> QED
    BY <2>1, <2>2, <2>3 DEF FiringsAccounted
<1>13. \A x \in Runner : x # r => ctl'[x] = ctl[x]
  BY <1>2, <1>3
<1>14. ASSUME NEW x \in Runner, x # r
       PROVE  Held(x)' /\ (ctl'[x].stage = "running" => ctl'[x].run # n)
  <2>1. ctl[x].stage = "running" => Used(ctl[x].run) /\ ctl[x].run \in Run
    BY DEF IInv, InHand, Held, Types, CtlOK, Busy, Control
  <2> QED
    BY <1>3, <1>5, <1>6, <1>13, <1>14, <2>1, HeldStays DEF Goes
<1>15. Held(r)' /\ ctl'[r].stage = "running" /\ ctl'[r].run = n
  <2>1. /\ ctl'[r].stage = "running" /\ ctl'[r].run = n /\ ctl'[r].job = j
        /\ ctl'[r].at = ctl[r].at /\ ctl'[r].todo = ctl[r].todo \ {j}
        /\ ctl'[r].list = ctl[r].list
    BY <1>2, <1>3 DEF Control
  <2>2. \A i \in ctl[r].todo : Completed(i) => Completed(i)'
    BY <1>3, <1>10 DEF Control
  <2> QED
    BY <1>5, <2>1, <2>2 DEF IInv, InHand, Held, Busy, Used
<1>16. Apart'
  BY <1>13, <1>14, <1>15 DEF Apart, IInv, InHand
<1> QED
  BY <1>8, <1>9, <1>11, <1>12, <1>14, <1>15, <1>16 DEF Ledger, InHand

LEMMA WinsKeeps ==
    ASSUME IInv, Types', NEW t \in Runner, NEW j \in Job, WinsClaim(t, j)
    PROVE  Ledger' /\ InHand'
<1>1. /\ file[j].status = "active" /\ file[j].next # None /\ file[j].next <= ctl[t].at
      /\ ~Fresh(file[j]) /\ Starts(t, j, file[j].next)
      /\ file' = [file EXCEPT ![j] = [file[j] EXCEPT !.next = Upcoming(t, j),
                                                    !.stamp = NextRun]]
      /\ UNCHANGED <<now, life, overtaken, rewound, unstamped, gone, aged>>
  BY DEF WinsClaim, Claims, IsDue, Unmoved, ghosts
<1>2. file \in [Job -> Row] /\ file[j] \in Row /\ file[j].next \in Nat /\ now \in Nat
  BY <1>1, RowFacts, CronAssumption DEF IInv, Types, FileOK, RestOK
<1>3. file'[j] = [file[j] EXCEPT !.next = Upcoming(t, j), !.stamp = NextRun]
      /\ \A i \in Job : i # j => file'[i] = file[i]
  BY <1>1, <1>2
<1>4. /\ file'[j].next = Upcoming(t, j) /\ file'[j].stamp = NextRun
      /\ file'[j].status = file[j].status /\ file'[j].count = file[j].count
      /\ file'[j].error = file[j].error
  BY <1>2, <1>3 DEF Row
<1>5. /\ ctl[t].at \in Nat /\ ctl[t].at <= now
      /\ Upcoming(t, j) # None => Upcoming(t, j) \in Nat /\ Upcoming(t, j) > ctl[t].at
  BY ReadTypes DEF IInv, InHand, Held
<1>6. file[j].next <= now /\ (Upcoming(t, j) # None => file[j].next < Upcoming(t, j))
  BY <1>1, <1>2, <1>5
<1> QED
  BY <1>1, <1>2, <1>3, <1>4, <1>5, <1>6, StartsKeep DEF Time

LEMMA RunNowKeeps ==
    ASSUME IInv, Types', NEW m \in Runner, NEW j \in Job, RunNow(m, j)
    PROVE  Ledger' /\ InHand'
<1>1. /\ ~Fresh(file[j]) /\ Starts(m, j, None)
      /\ file \in [Job -> Row] /\ file[j] \in Row
      /\ UNCHANGED <<now, life, overtaken, rewound, gone, aged>>
      /\ unstamped' = IF file[j].status = "absent" THEN unstamped \cup {NextRun} ELSE unstamped
  BY DEF RunNow, IInv, Types, FileOK
<1>2. /\ file'[j] = IF file[j].status = "absent" THEN file[j]
                    ELSE [file[j] EXCEPT !.stamp = NextRun]
      /\ \A i \in Job : i # j => file'[i] = file[i]
  BY <1>1 DEF RunNow, Patch
<1>3. /\ file'[j].next = file[j].next
      /\ file[j].status # "absent" => file'[j].stamp = NextRun
      /\ file'[j].status = file[j].status /\ file'[j].count = file[j].count
      /\ file'[j].error = file[j].error
  BY <1>1, <1>2 DEF Row
<1>4. file[j].next # None => file[j].next <= file[j].next
  BY RowFacts
<1> QED
  BY <1>1, <1>2, <1>3, <1>4, StartsKeep DEF Time

-----------------------------------------------------------------------------
(* The theorems.                                                           *)

LEMMA InitOK == Init => IInv
<1> SUFFICES ASSUME Init
             PROVE  IInv
  OBVIOUS
<1>n. {MaxTime, MaxRuns, MaxEdits, MaxAsks, MaxFaults} \subseteq Nat
  BY CronAssumption
<1>1. Types
  BY <1>n, RowTypes
  DEF Init, Types, CtlOK, Busy, Idle, FileOK, Unread, RunsOK, ProcsOK, RestOK
<1>2. \A k \in Run : runs[k] = Unused /\ ~Used(k)
  BY DEF Init, Unused, Used
<1>3. \A k \in Run : RunShape(k) /\ Stamped(k) /\ Ahead(k)
  BY <1>2 DEF Init, RunShape, Stamped, Ahead, Unused, Alive, Live
<1>4. \A j \in Job : file[j].count = 0 /\ file[j].status = "absent"
  BY DEF Init, Unread, Absent
<1>5. InOrder
  BY <1>n, <1>2 DEF InOrder, Run
<1>6. FiringsAccounted
  BY <1>2, <1>4
  DEF FiringsAccounted, OneCopy, OccurrenceOnce, NeverSilent, Alive, Live, Unused
<1>7. InHand
  BY <1>n DEF Init, InHand, Apart, Held, Busy, Idle
<1> QED
  BY <1>1, <1>3, <1>4, <1>5, <1>6, <1>7 DEF IInv, Ledger, Counted

LEMMA IInvKept == IInv /\ [Next]_vars => IInv'
<1> SUFFICES ASSUME IInv, [Next]_vars
             PROVE  IInv'
  OBVIOUS
<1>1. Types'
  BY TypesKept DEF IInv
<1>2. ASSUME NEW r \in Runner, Fire(r) \/ TickStep(r) \/ RunStep(r) \/ LockFails(r)
      PROVE  Ledger' /\ InHand'
  BY <1>1, <1>2, FireKeeps, TickKeeps, WinsKeeps, RunKeeps, LockFailsKeeps DEF TickStep
<1>3. ASSUME NEW r \in Runner, RunNowStep(r) \/ \E j \in Job : AsksRunNow(r, j)
      PROVE  Ledger' /\ InHand'
  BY <1>1, <1>3, AskKeeps, RunNowKeeps DEF RunNowStep
<1>4. ASSUME NEW k \in Run, TurnSettles(k)
      PROVE  Ledger' /\ InHand'
  BY <1>1, <1>4, TurnSettlesKeeps
<1>5. ASSUME NEW j \in Job, \/ DeleteJob(j) \/ PauseJob(j) \/ ResumeJob(j)
                            \/ \E s \in Schedules : CreateJob(j, s) \/ UpdateJob(j, s)
      PROVE  Ledger' /\ InHand'
  BY <1>1, <1>5, EditsKeep, CreateKeeps
<1>6. ASSUME NEW p \in Process, Crash(p)
      PROVE  Ledger' /\ InHand'
  BY <1>1, <1>6, CrashKeeps
<1>7. CASE TimePasses \/ UNCHANGED vars \/ (\E k \in Run : Ages(k))
             \/ (\E p \in Process : Restart(p))
  BY <1>1, <1>7, QuietKeeps DEF IInv
<1> QED
  BY <1>1, <1>2, <1>3, <1>4, <1>5, <1>6, <1>7 DEF Next, IInv

\* Every variable keeps its type, whatever the ticks, runs, edits and crashes do.
THEOREM TypeCorrect == Spec => []TypeOK
<1>1. Init => Types
  BY InitOK DEF IInv
<1>2. Types /\ [Next]_vars => Types'
  BY TypesKept
<1>3. Types => TypeOK
  BY DEF Types, CtlOK, Busy, FileOK, RunsOK, ProcsOK, RestOK, TypeOK
<1> QED
  BY <1>1, <1>2, <1>3, PTL DEF Spec

\* Every firing is accounted for: of a job no second run is started beside one whose
\* stamp is young (isRunning under the jobs lock), an occurrence is run once whichever
\* ticks had listed it (claimDueJob compares nextRunAt), and a job that is done has
\* completed a run or says why (the tick's retirements).
THEOREM FiringsAccountedCorrect == Spec => []FiringsAccounted
<1>1. IInv => FiringsAccounted
  BY DEF IInv, Ledger
<1> QED
  BY <1>1, InitOK, IInvKept, PTL DEF Spec

=============================================================================
