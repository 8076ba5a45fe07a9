------------------------ MODULE BackgroundJobsProofs ------------------------
(***************************************************************************)
(* Proofs about background jobs, for any number of processes, jobs, slots, *)
(* kills, drains and stalls.                                               *)
(***************************************************************************)
EXTENDS BackgroundJobs, TLAPS

-----------------------------------------------------------------------------
(* Type correctness.                                                       *)

\* runOne files one of five ends, and one of them alone is a user's cancel.
LEMMA VerdictType ==
    ASSUME NEW e \in Exec, NEW j \in Job
    PROVE  /\ Verdict(e, j)[1] \in {"done", "failed", "aborted"}
           /\ Verdict(e, j)[2] \in {"none", "cancel", "shutdown", "failure"}
           /\ Verdict(e, j)[2] = "cancel" => Verdict(e, j)[1] = "aborted"
BY DEF Verdict

\* Finish with its verdict named.
LEMMA FinishVerdict ==
    ASSUME NEW e \in Exec, NEW j \in Job, Finish(e, j)
    PROVE  \E s \in {"done", "failed", "aborted"},
              err \in {"none", "cancel", "shutdown", "failure"} :
             /\ err = "cancel" => s = "aborted"
             /\ status' = [status EXCEPT ![j] = s]
             /\ error' = [error EXCEPT ![j] = err]
             /\ wakes' = IF Announces(s, err) THEN [wakes EXCEPT ![e] = @ \cup {j}]
                         ELSE wakes
<1> DEFINE v == Verdict(e, j)
<1>1. /\ status' = [status EXCEPT ![j] = v[1]]
      /\ error' = [error EXCEPT ![j] = v[2]]
      /\ wakes' = IF Announces(v[1], v[2]) THEN [wakes EXCEPT ![e] = @ \cup {j}]
                  ELSE wakes
  BY DEF Finish
<1>2. /\ v[1] \in {"done", "failed", "aborted"}
      /\ v[2] \in {"none", "cancel", "shutdown", "failure"}
      /\ v[2] = "cancel" => v[1] = "aborted"
  BY VerdictType
<1> HIDE DEF v
<1> QED
  BY <1>1, <1>2

\* No step of a process, a user or the clock leaves the types.
LEMMA TypeStep == TypeOK /\ [Next]_vars => TypeOK'
<1> USE JobsAssumption DEF TypeOK, rowVars, runVars, tellVars, ghostVars, Statuses,
        Active, Phases, Outcomes, Counters
<1> SUFFICES ASSUME TypeOK, [Next]_vars PROVE TypeOK'
  OBVIOUS
<1>1. ASSUME NEW e \in Exec, NEW j \in Job, Create(e, j) PROVE TypeOK'
  BY <1>1 DEF Create
<1>2. ASSUME NEW e \in Exec, NEW j \in Job, Claim(e, j) PROVE TypeOK'
  BY <1>2 DEF Claim
<1>3. ASSUME NEW e \in Exec, NEW j \in Job, RefuseAtCap(e, j) PROVE TypeOK'
  BY <1>3 DEF RefuseAtCap
<1>4. ASSUME NEW e \in Exec, NEW j \in Job, BeginRun(e, j) PROVE TypeOK'
  BY <1>4 DEF BeginRun, Pulled
<1>5. ASSUME NEW e \in Exec, NEW j \in Job, Event(e, j) PROVE TypeOK'
  BY <1>5 DEF Event
<1>6. ASSUME NEW e \in Exec, NEW j \in Job, EndRun(e, j) PROVE TypeOK'
  BY <1>6 DEF EndRun
<1>7. ASSUME NEW e \in Exec, NEW j \in Job, Throw(e, j) PROVE TypeOK'
  BY <1>7 DEF Throw
<1>8. ASSUME NEW e \in Exec, NEW j \in Job, Block(e, j) PROVE TypeOK'
  BY <1>8 DEF Block
<1>9. ASSUME NEW e \in Exec, NEW j \in Job, Resume(e, j) PROVE TypeOK'
  BY <1>9 DEF Resume, Resumed
<1>10. ASSUME NEW e \in Exec, NEW j \in Job, Beat(e, j) PROVE TypeOK'
  BY <1>10 DEF Beat
<1>11. ASSUME NEW e \in Exec, NEW j \in Job, Observe(e, j) PROVE TypeOK'
  BY <1>11 DEF Observe, Pulled, MarkedRead
<1>12. ASSUME NEW e \in Exec, NEW j \in Job, ReadSteer(e, j) PROVE TypeOK'
  BY <1>12 DEF ReadSteer
<1>13. ASSUME NEW e \in Exec, NEW j \in Job, Finish(e, j) PROVE TypeOK'
  <2>1. PICK s \in {"done", "failed", "aborted"},
             err \in {"none", "cancel", "shutdown", "failure"} :
               /\ status' = [status EXCEPT ![j] = s]
               /\ error' = [error EXCEPT ![j] = err]
               /\ \/ wakes' = wakes
                  \/ wakes' = [wakes EXCEPT ![e] = @ \cup {j}]
    BY <1>13, FinishVerdict
  <2>2. /\ status' \in [Job -> Statuses]
        /\ error' \in [Job -> {"none", "cancel", "shutdown", "failure"}]
        /\ wakes' \in [Exec -> SUBSET Job]
    <3>1. /\ status \in [Job -> Statuses] /\ wakes \in [Exec -> SUBSET Job]
          /\ error \in [Job -> {"none", "cancel", "shutdown", "failure"}]
      OBVIOUS
    <3> HIDE DEF TypeOK
    <3> QED
      BY <2>1, <3>1
  <2>3. steer' \in [Job -> {"none", "pending", "read", "unread"}]
    BY <1>13 DEF Finish, SweptSteer, MarkedRead
  <2>4. /\ stage' \in [Exec -> [Job -> {"idle", "starting", "live", "ending"}]]
        /\ outcome' \in [Exec -> [Job -> Outcomes]]
        /\ sink' \in [Exec -> [Job -> {"none", "queued", "drained"}]]
        /\ {cancelled, parked}' \subseteq [Exec -> SUBSET Job]
    BY <1>13 DEF Finish
  <2>5. /\ stage[e][j] # "idle" /\ phase[e] # "down"
        /\ wakes' \in [Exec -> SUBSET Job]
        /\ \A f \in Exec \ {e} : wakes'[f] = wakes[f]
    BY <1>13, <2>1, <2>2 DEF Finish
  <2>6. \A f \in Exec : phase'[f] = "down" =>
          /\ \A i \in Job : stage'[f][i] = "idle"
          /\ parked'[f] = {} /\ wakes'[f] = {} /\ sending'[f] = {}
    BY <1>13, <2>5 DEF Finish
  <2> QED
    BY <1>13, <2>2, <2>3, <2>4, <2>6 DEF Finish
<1>14. ASSUME NEW j \in Job, Cancel(j) PROVE TypeOK'
  BY <1>14 DEF Cancel
<1>15. ASSUME NEW j \in Job, AddSteer(j) PROVE TypeOK'
  BY <1>15 DEF AddSteer
<1>16. ASSUME NEW j \in Job, GrowOld(j) PROVE TypeOK'
  BY <1>16 DEF GrowOld
<1>17. ASSUME NEW j \in Job, Stall(j) PROVE TypeOK'
  BY <1>17 DEF Stall, Spend
<1>18. ASSUME NEW e \in Exec, Reclaim(e) PROVE TypeOK'
  BY <1>18 DEF Reclaim, FiledAs, Overdue
<1>19. ASSUME NEW e \in Exec, Expire(e) PROVE TypeOK'
  BY <1>19 DEF Expire, FiledAs, Overdue
<1>20. ASSUME NEW e \in Exec, SweepUndelivered(e) PROVE TypeOK'
  BY <1>20 DEF SweepUndelivered, Undelivered
<1>21. ASSUME NEW e \in Exec, NEW j \in Job, ClaimNotice(e, j) PROVE TypeOK'
  BY <1>21 DEF ClaimNotice
<1>22. ASSUME NEW e \in Exec, NEW j \in Job, RecordNotice(e, j) PROVE TypeOK'
  BY <1>22 DEF RecordNotice
<1>23. ASSUME NEW e \in Exec, BeginDrain(e) PROVE TypeOK'
  BY <1>23 DEF BeginDrain, HandedOn, Spend
<1>24. ASSUME NEW e \in Exec, HandOn(e) PROVE TypeOK'
  BY <1>24 DEF HandOn, HandedOn
<1>25. ASSUME NEW e \in Exec, BeginShutdown(e) PROVE TypeOK'
  BY <1>25 DEF BeginShutdown, Close, HandedOn, Spend
<1>26. ASSUME NEW e \in Exec, EndDrain(e) PROVE TypeOK'
  BY <1>26 DEF EndDrain, Close, HandedOn
<1>27. ASSUME NEW e \in Exec, Exit(e) PROVE TypeOK'
  BY <1>27 DEF Exit, Gone
<1>28. ASSUME NEW e \in Exec, Kill(e) PROVE TypeOK'
  BY <1>28 DEF Kill, Gone, Spend
<1>29. ASSUME NEW e \in Exec, Boot(e) PROVE TypeOK'
  BY <1>29 DEF Boot
<1>30. CASE UNCHANGED vars
  BY <1>30 DEF vars
<1> HIDE DEF TypeOK
<1> QED
  BY <1>1, <1>2, <1>3, <1>4, <1>5, <1>6, <1>7, <1>8, <1>9, <1>10, <1>11, <1>12, <1>13,
     <1>14, <1>15, <1>16, <1>17, <1>18, <1>19, <1>20, <1>21, <1>22, <1>23, <1>24,
     <1>25, <1>26, <1>27, <1>28, <1>29, <1>30
  DEF Next, RunStep, ProcessStep

\* Every variable keeps its type, and a process that is down remembers nothing.
THEOREM TypeCorrect == Spec => []TypeOK
<1>1. Init => TypeOK
  BY JobsAssumption DEF Init, TypeOK, Statuses, Phases, Outcomes, Counters
<1> QED
  BY <1>1, TypeStep, PTL DEF Spec

-----------------------------------------------------------------------------
(* One runner.                                                             *)

\* A row is claimed only while it is queued, and a queued row has no run; a run
\* gives up its row only when it ends.
LEMMA OneRunnerStep == TypeOK /\ OneRunner /\ [Next]_vars => OneRunner'
<1> USE JobsAssumption DEF TypeOK, OneRunner, Finishable, rowVars, runVars, tellVars,
        ghostVars
<1> SUFFICES ASSUME TypeOK, OneRunner, [Next]_vars PROVE OneRunner'
  OBVIOUS
<1>1. ASSUME NEW e \in Exec, NEW j \in Job, Create(e, j) PROVE OneRunner'
  BY <1>1 DEF Create
<1>2. ASSUME NEW e \in Exec, NEW j \in Job, Claim(e, j) PROVE OneRunner'
  BY <1>2 DEF Claim, Claimable
<1>3. ASSUME NEW e \in Exec, NEW j \in Job, RefuseAtCap(e, j) PROVE OneRunner'
  BY <1>3 DEF RefuseAtCap
<1>4. ASSUME NEW e \in Exec, NEW j \in Job, BeginRun(e, j) PROVE OneRunner'
  BY <1>4 DEF BeginRun
<1>5. ASSUME NEW e \in Exec, NEW j \in Job, Event(e, j) PROVE OneRunner'
  BY <1>5 DEF Event
<1>6. ASSUME NEW e \in Exec, NEW j \in Job, EndRun(e, j) PROVE OneRunner'
  BY <1>6 DEF EndRun
<1>7. ASSUME NEW e \in Exec, NEW j \in Job, Throw(e, j) PROVE OneRunner'
  BY <1>7 DEF Throw
<1>8. ASSUME NEW e \in Exec, NEW j \in Job, Block(e, j) PROVE OneRunner'
  BY <1>8 DEF Block
<1>9. ASSUME NEW e \in Exec, NEW j \in Job, Resume(e, j) PROVE OneRunner'
  BY <1>9 DEF Resume, Resumed
<1>10. ASSUME NEW e \in Exec, NEW j \in Job, Beat(e, j) PROVE OneRunner'
  BY <1>10 DEF Beat
<1>11. ASSUME NEW e \in Exec, NEW j \in Job, Observe(e, j) PROVE OneRunner'
  BY <1>11 DEF Observe
<1>12. ASSUME NEW e \in Exec, NEW j \in Job, ReadSteer(e, j) PROVE OneRunner'
  BY <1>12 DEF ReadSteer
<1>13. ASSUME NEW e \in Exec, NEW j \in Job, Finish(e, j) PROVE OneRunner'
  BY <1>13 DEF Finish
<1>14. ASSUME NEW j \in Job, Cancel(j) PROVE OneRunner'
  BY <1>14 DEF Cancel
<1>15. ASSUME NEW j \in Job, AddSteer(j) PROVE OneRunner'
  BY <1>15 DEF AddSteer
<1>16. ASSUME NEW j \in Job, GrowOld(j) PROVE OneRunner'
  BY <1>16 DEF GrowOld
<1>17. ASSUME NEW j \in Job, Stall(j) PROVE OneRunner'
  BY <1>17 DEF Stall
<1>18. ASSUME NEW e \in Exec, Reclaim(e) PROVE OneRunner'
  BY <1>18 DEF Reclaim, FiledAs, Overdue
<1>19. ASSUME NEW e \in Exec, Expire(e) PROVE OneRunner'
  BY <1>19 DEF Expire, FiledAs, Overdue
<1>20. ASSUME NEW e \in Exec, SweepUndelivered(e) PROVE OneRunner'
  BY <1>20 DEF SweepUndelivered
<1>21. ASSUME NEW e \in Exec, NEW j \in Job, ClaimNotice(e, j) PROVE OneRunner'
  BY <1>21 DEF ClaimNotice
<1>22. ASSUME NEW e \in Exec, NEW j \in Job, RecordNotice(e, j) PROVE OneRunner'
  BY <1>22 DEF RecordNotice
<1>23. ASSUME NEW e \in Exec, BeginDrain(e) PROVE OneRunner'
  BY <1>23 DEF BeginDrain, HandedOn
<1>24. ASSUME NEW e \in Exec, HandOn(e) PROVE OneRunner'
  BY <1>24 DEF HandOn, HandedOn
<1>25. ASSUME NEW e \in Exec, BeginShutdown(e) PROVE OneRunner'
  BY <1>25 DEF BeginShutdown, Close, HandedOn
<1>26. ASSUME NEW e \in Exec, EndDrain(e) PROVE OneRunner'
  BY <1>26 DEF EndDrain, Close, HandedOn
<1>27. ASSUME NEW e \in Exec, Exit(e) PROVE OneRunner'
  BY <1>27 DEF Exit, Gone
<1>28. ASSUME NEW e \in Exec, Kill(e) PROVE OneRunner'
  BY <1>28 DEF Kill, Gone
<1>29. ASSUME NEW e \in Exec, Boot(e) PROVE OneRunner'
  BY <1>29 DEF Boot
<1>30. CASE UNCHANGED vars
  BY <1>30 DEF vars
<1> HIDE DEF TypeOK, OneRunner, Finishable
<1> QED
  BY <1>1, <1>2, <1>3, <1>4, <1>5, <1>6, <1>7, <1>8, <1>9, <1>10, <1>11, <1>12, <1>13,
     <1>14, <1>15, <1>16, <1>17, <1>18, <1>19, <1>20, <1>21, <1>22, <1>23, <1>24,
     <1>25, <1>26, <1>27, <1>28, <1>29, <1>30
  DEF Next, RunStep, ProcessStep

\* One process at most runs a job, on a row that is its own.
THEOREM OneRunnerCorrect == Spec => []OneRunner
<1>1. Init => OneRunner
  BY DEF Init, OneRunner
<1> QED
  BY <1>1, OneRunnerStep, TypeCorrect, PTL DEF Spec

-----------------------------------------------------------------------------
(* Final ends.                                                             *)

\* What EndIsFinal says of one step.
FinalStep ==
    \A j \in Job :
      /\ status[j] \in Ended => status'[j] = status[j] /\ error'[j] = error[j]
      /\ status[j] = "stale" /\ status'[j] # "stale" =>
           \E e \in Exec : stage[e][j] = "ending" /\ stage'[e][j] = "idle"

\* Every write of a status or an error is guarded by a status that has not ended.
LEMMA FinalNext == TypeOK /\ [Next]_vars => FinalStep
<1> USE DEF TypeOK, FinalStep, Ended, Finishable, rowVars, runVars, tellVars, ghostVars
<1> SUFFICES ASSUME TypeOK, [Next]_vars PROVE FinalStep
  OBVIOUS
<1>1. ASSUME NEW e \in Exec, NEW j \in Job, Create(e, j) PROVE FinalStep
  BY <1>1 DEF Create
<1>2. ASSUME NEW e \in Exec, NEW j \in Job, Claim(e, j) PROVE FinalStep
  BY <1>2 DEF Claim, Claimable
<1>3. ASSUME NEW e \in Exec, NEW j \in Job, RefuseAtCap(e, j) PROVE FinalStep
  BY <1>3 DEF RefuseAtCap
<1>4. ASSUME NEW e \in Exec, NEW j \in Job, BeginRun(e, j) PROVE FinalStep
  BY <1>4 DEF BeginRun
<1>5. ASSUME NEW e \in Exec, NEW j \in Job, Event(e, j) PROVE FinalStep
  BY <1>5 DEF Event
<1>6. ASSUME NEW e \in Exec, NEW j \in Job, EndRun(e, j) PROVE FinalStep
  BY <1>6 DEF EndRun
<1>7. ASSUME NEW e \in Exec, NEW j \in Job, Throw(e, j) PROVE FinalStep
  BY <1>7 DEF Throw
<1>8. ASSUME NEW e \in Exec, NEW j \in Job, Block(e, j) PROVE FinalStep
  BY <1>8 DEF Block
<1>9. ASSUME NEW e \in Exec, NEW j \in Job, Resume(e, j) PROVE FinalStep
  BY <1>9 DEF Resume, Resumed
<1>10. ASSUME NEW e \in Exec, NEW j \in Job, Beat(e, j) PROVE FinalStep
  BY <1>10 DEF Beat
<1>11. ASSUME NEW e \in Exec, NEW j \in Job, Observe(e, j) PROVE FinalStep
  BY <1>11 DEF Observe
<1>12. ASSUME NEW e \in Exec, NEW j \in Job, ReadSteer(e, j) PROVE FinalStep
  BY <1>12 DEF ReadSteer
<1>13. ASSUME NEW e \in Exec, NEW j \in Job, Finish(e, j) PROVE FinalStep
  <2>1. PICK s \in {"done", "failed", "aborted"},
             err \in {"none", "cancel", "shutdown", "failure"} :
               /\ status' = [status EXCEPT ![j] = s]
               /\ error' = [error EXCEPT ![j] = err]
    BY <1>13, FinishVerdict
  <2> QED
    BY <1>13, <2>1 DEF Finish
<1>14. ASSUME NEW j \in Job, Cancel(j) PROVE FinalStep
  BY <1>14 DEF Cancel
<1>15. ASSUME NEW j \in Job, AddSteer(j) PROVE FinalStep
  BY <1>15 DEF AddSteer
<1>16. ASSUME NEW j \in Job, GrowOld(j) PROVE FinalStep
  BY <1>16 DEF GrowOld
<1>17. ASSUME NEW j \in Job, Stall(j) PROVE FinalStep
  BY <1>17 DEF Stall
<1>18. ASSUME NEW e \in Exec, Reclaim(e) PROVE FinalStep
  BY <1>18 DEF Reclaim, FiledAs, Overdue
<1>19. ASSUME NEW e \in Exec, Expire(e) PROVE FinalStep
  BY <1>19 DEF Expire, FiledAs, Overdue
<1>20. ASSUME NEW e \in Exec, SweepUndelivered(e) PROVE FinalStep
  BY <1>20 DEF SweepUndelivered
<1>21. ASSUME NEW e \in Exec, NEW j \in Job, ClaimNotice(e, j) PROVE FinalStep
  BY <1>21 DEF ClaimNotice
<1>22. ASSUME NEW e \in Exec, NEW j \in Job, RecordNotice(e, j) PROVE FinalStep
  BY <1>22 DEF RecordNotice
<1>23. ASSUME NEW e \in Exec, BeginDrain(e) PROVE FinalStep
  BY <1>23 DEF BeginDrain, HandedOn
<1>24. ASSUME NEW e \in Exec, HandOn(e) PROVE FinalStep
  BY <1>24 DEF HandOn, HandedOn
<1>25. ASSUME NEW e \in Exec, BeginShutdown(e) PROVE FinalStep
  BY <1>25 DEF BeginShutdown, Close, HandedOn
<1>26. ASSUME NEW e \in Exec, EndDrain(e) PROVE FinalStep
  BY <1>26 DEF EndDrain, Close, HandedOn
<1>27. ASSUME NEW e \in Exec, Exit(e) PROVE FinalStep
  BY <1>27 DEF Exit, Gone
<1>28. ASSUME NEW e \in Exec, Kill(e) PROVE FinalStep
  BY <1>28 DEF Kill, Gone
<1>29. ASSUME NEW e \in Exec, Boot(e) PROVE FinalStep
  BY <1>29 DEF Boot
<1>30. CASE UNCHANGED vars
  BY <1>30 DEF vars
<1> HIDE DEF TypeOK, FinalStep, Ended, Finishable
<1> QED
  BY <1>1, <1>2, <1>3, <1>4, <1>5, <1>6, <1>7, <1>8, <1>9, <1>10, <1>11, <1>12, <1>13,
     <1>14, <1>15, <1>16, <1>17, <1>18, <1>19, <1>20, <1>21, <1>22, <1>23, <1>24,
     <1>25, <1>26, <1>27, <1>28, <1>29, <1>30
  DEF Next, RunStep, ProcessStep

\* An ended job stays as it ended; a stale one ends only by its own run.
THEOREM EndIsFinalCorrect == Spec => EndIsFinal
<1>1. TypeOK /\ [Next]_vars =>
        [\A j \in Job :
           /\ status[j] \in Ended => status'[j] = status[j] /\ error'[j] = error[j]
           /\ status[j] = "stale" /\ status'[j] # "stale" =>
                \E e \in Exec : stage[e][j] = "ending" /\ stage'[e][j] = "idle"]_vars
  BY FinalNext DEF FinalStep
<1> QED
  BY <1>1, TypeCorrect, PTL DEF Spec, EndIsFinal

-----------------------------------------------------------------------------
(* No false stale.                                                         *)

\* A parked run is never in a row the stale sweep looks at, a blocked row with a
\* run is parked by it, and a run that is not parked is behind with its beat only
\* after a stall.
ParkInv ==
    \A e \in Exec, j \in Job :
      /\ j \in parked[e] => stage[e][j] # "idle" /\ status[j] # "running"
      /\ stage[e][j] # "idle" /\ status[j] = "blocked" => j \in parked[e]
      /\ stage[e][j] # "idle" /\ status[j] = "running" /\ age[j] = "old" => j \in stalled
      /\ stage[e][j] # "idle" /\ status[j] = "stale" => j \in stalled

\* OneRunner is needed where a claim or a resumption makes a row running: no other
\* process has a run of it, parked or not.
LEMMA ParkStep == TypeOK /\ OneRunner /\ ParkInv /\ [Next]_vars => ParkInv'
<1> USE JobsAssumption DEF TypeOK, OneRunner, ParkInv, Finishable, rowVars, runVars,
        tellVars, ghostVars
<1> SUFFICES ASSUME TypeOK, OneRunner, ParkInv, [Next]_vars PROVE ParkInv'
  OBVIOUS
<1>1. ASSUME NEW e \in Exec, NEW j \in Job, Create(e, j) PROVE ParkInv'
  BY <1>1 DEF Create
<1>2. ASSUME NEW e \in Exec, NEW j \in Job, Claim(e, j) PROVE ParkInv'
  BY <1>2 DEF Claim, Claimable
<1>3. ASSUME NEW e \in Exec, NEW j \in Job, RefuseAtCap(e, j) PROVE ParkInv'
  BY <1>3 DEF RefuseAtCap
<1>4. ASSUME NEW e \in Exec, NEW j \in Job, BeginRun(e, j) PROVE ParkInv'
  BY <1>4 DEF BeginRun
<1>5. ASSUME NEW e \in Exec, NEW j \in Job, Event(e, j) PROVE ParkInv'
  BY <1>5 DEF Event
<1>6. ASSUME NEW e \in Exec, NEW j \in Job, EndRun(e, j) PROVE ParkInv'
  BY <1>6 DEF EndRun
<1>7. ASSUME NEW e \in Exec, NEW j \in Job, Throw(e, j) PROVE ParkInv'
  BY <1>7 DEF Throw
<1>8. ASSUME NEW e \in Exec, NEW j \in Job, Block(e, j) PROVE ParkInv'
  BY <1>8 DEF Block
<1>9. ASSUME NEW e \in Exec, NEW j \in Job, Resume(e, j) PROVE ParkInv'
  BY <1>9 DEF Resume, Resumed
<1>10. ASSUME NEW e \in Exec, NEW j \in Job, Beat(e, j) PROVE ParkInv'
  BY <1>10 DEF Beat
<1>11. ASSUME NEW e \in Exec, NEW j \in Job, Observe(e, j) PROVE ParkInv'
  BY <1>11 DEF Observe
<1>12. ASSUME NEW e \in Exec, NEW j \in Job, ReadSteer(e, j) PROVE ParkInv'
  BY <1>12 DEF ReadSteer
<1>13. ASSUME NEW e \in Exec, NEW j \in Job, Finish(e, j) PROVE ParkInv'
  <2>1. PICK s \in {"done", "failed", "aborted"} : status' = [status EXCEPT ![j] = s]
    BY <1>13, FinishVerdict
  <2> QED
    BY <1>13, <2>1 DEF Finish
<1>14. ASSUME NEW j \in Job, Cancel(j) PROVE ParkInv'
  BY <1>14 DEF Cancel
<1>15. ASSUME NEW j \in Job, AddSteer(j) PROVE ParkInv'
  BY <1>15 DEF AddSteer
<1>16. ASSUME NEW j \in Job, GrowOld(j) PROVE ParkInv'
  BY <1>16 DEF GrowOld, Beating
<1>17. ASSUME NEW j \in Job, Stall(j) PROVE ParkInv'
  BY <1>17 DEF Stall
<1>18. ASSUME NEW e \in Exec, Reclaim(e) PROVE ParkInv'
  BY <1>18 DEF Reclaim, FiledAs, Overdue
<1>19. ASSUME NEW e \in Exec, Expire(e) PROVE ParkInv'
  BY <1>19 DEF Expire, FiledAs, Overdue
<1>20. ASSUME NEW e \in Exec, SweepUndelivered(e) PROVE ParkInv'
  BY <1>20 DEF SweepUndelivered
<1>21. ASSUME NEW e \in Exec, NEW j \in Job, ClaimNotice(e, j) PROVE ParkInv'
  BY <1>21 DEF ClaimNotice
<1>22. ASSUME NEW e \in Exec, NEW j \in Job, RecordNotice(e, j) PROVE ParkInv'
  BY <1>22 DEF RecordNotice
<1>23. ASSUME NEW e \in Exec, BeginDrain(e) PROVE ParkInv'
  BY <1>23 DEF BeginDrain
<1>24. ASSUME NEW e \in Exec, HandOn(e) PROVE ParkInv'
  BY <1>24 DEF HandOn
<1>25. ASSUME NEW e \in Exec, BeginShutdown(e) PROVE ParkInv'
  BY <1>25 DEF BeginShutdown, Close
<1>26. ASSUME NEW e \in Exec, EndDrain(e) PROVE ParkInv'
  BY <1>26 DEF EndDrain, Close
<1>27. ASSUME NEW e \in Exec, Exit(e) PROVE ParkInv'
  BY <1>27 DEF Exit, Gone
<1>28. ASSUME NEW e \in Exec, Kill(e) PROVE ParkInv'
  BY <1>28 DEF Kill, Gone
<1>29. ASSUME NEW e \in Exec, Boot(e) PROVE ParkInv'
  BY <1>29 DEF Boot
<1>30. CASE UNCHANGED vars
  BY <1>30 DEF vars
<1> HIDE DEF TypeOK, OneRunner, ParkInv, Finishable
<1> QED
  BY <1>1, <1>2, <1>3, <1>4, <1>5, <1>6, <1>7, <1>8, <1>9, <1>10, <1>11, <1>12, <1>13,
     <1>14, <1>15, <1>16, <1>17, <1>18, <1>19, <1>20, <1>21, <1>22, <1>23, <1>24,
     <1>25, <1>26, <1>27, <1>28, <1>29, <1>30
  DEF Next, RunStep, ProcessStep

\* A live run is filed stale only if its process missed its beats.
THEOREM NoFalseStaleCorrect == Spec => []NoFalseStale
<1>1. Init => ParkInv
  BY DEF Init, ParkInv
<1>2. ParkInv => NoFalseStale
  BY DEF ParkInv, NoFalseStale
<1> QED
  BY <1>1, <1>2, ParkStep, TypeCorrect, OneRunnerCorrect, PTL DEF Spec

-----------------------------------------------------------------------------
(* Announcements.                                                          *)

\* Where the right to announce a job is: with nobody, with the one process that
\* claimed it, or used up.
NoticeInv ==
    /\ \A j \in Job :
         /\ announced[j] <= 1
         /\ announced[j] > 0 => j \in delivered /\ Announces(status[j], error[j])
         /\ error[j] = "cancel" => status[j] = "aborted"
    /\ \A e \in Exec, j \in Job :
         /\ j \in wakes[e] => Announces(status[j], error[j])
         /\ j \in sending[e] =>
              /\ j \in delivered /\ announced[j] = 0 /\ Announces(status[j], error[j])
              /\ \A f \in Exec \ {e} : j \notin sending[f]

\* What may be announced once stays so, because the end of a job is final.
LEMMA NoticeStep == TypeOK /\ NoticeInv /\ [Next]_vars => NoticeInv'
<1> USE DEF TypeOK, NoticeInv, Announces, Finishable, rowVars, runVars, tellVars,
        ghostVars
<1> SUFFICES ASSUME TypeOK, NoticeInv, [Next]_vars PROVE NoticeInv'
  OBVIOUS
<1>1. ASSUME NEW e \in Exec, NEW j \in Job, Create(e, j) PROVE NoticeInv'
  BY <1>1 DEF Create
<1>2. ASSUME NEW e \in Exec, NEW j \in Job, Claim(e, j) PROVE NoticeInv'
  BY <1>2 DEF Claim, Claimable
<1>3. ASSUME NEW e \in Exec, NEW j \in Job, RefuseAtCap(e, j) PROVE NoticeInv'
  BY <1>3 DEF RefuseAtCap
<1>4. ASSUME NEW e \in Exec, NEW j \in Job, BeginRun(e, j) PROVE NoticeInv'
  BY <1>4 DEF BeginRun
<1>5. ASSUME NEW e \in Exec, NEW j \in Job, Event(e, j) PROVE NoticeInv'
  BY <1>5 DEF Event
<1>6. ASSUME NEW e \in Exec, NEW j \in Job, EndRun(e, j) PROVE NoticeInv'
  BY <1>6 DEF EndRun
<1>7. ASSUME NEW e \in Exec, NEW j \in Job, Throw(e, j) PROVE NoticeInv'
  BY <1>7 DEF Throw
<1>8. ASSUME NEW e \in Exec, NEW j \in Job, Block(e, j) PROVE NoticeInv'
  BY <1>8 DEF Block
<1>9. ASSUME NEW e \in Exec, NEW j \in Job, Resume(e, j) PROVE NoticeInv'
  BY <1>9 DEF Resume, Resumed
<1>10. ASSUME NEW e \in Exec, NEW j \in Job, Beat(e, j) PROVE NoticeInv'
  BY <1>10 DEF Beat
<1>11. ASSUME NEW e \in Exec, NEW j \in Job, Observe(e, j) PROVE NoticeInv'
  BY <1>11 DEF Observe
<1>12. ASSUME NEW e \in Exec, NEW j \in Job, ReadSteer(e, j) PROVE NoticeInv'
  BY <1>12 DEF ReadSteer
<1>13. ASSUME NEW e \in Exec, NEW j \in Job, Finish(e, j) PROVE NoticeInv'
  <2>1. PICK s \in {"done", "failed", "aborted"},
             err \in {"none", "cancel", "shutdown", "failure"} :
               /\ err = "cancel" => s = "aborted"
               /\ status' = [status EXCEPT ![j] = s]
               /\ error' = [error EXCEPT ![j] = err]
               /\ wakes' = IF Announces(s, err) THEN [wakes EXCEPT ![e] = @ \cup {j}]
                           ELSE wakes
    BY <1>13, FinishVerdict
  <2>2. status[j] \in {"running", "stale", "blocked"}
    BY <1>13 DEF Finish
  <2> QED
    BY <1>13, <2>1, <2>2 DEF Finish
<1>14. ASSUME NEW j \in Job, Cancel(j) PROVE NoticeInv'
  BY <1>14 DEF Cancel
<1>15. ASSUME NEW j \in Job, AddSteer(j) PROVE NoticeInv'
  BY <1>15 DEF AddSteer
<1>16. ASSUME NEW j \in Job, GrowOld(j) PROVE NoticeInv'
  BY <1>16 DEF GrowOld
<1>17. ASSUME NEW j \in Job, Stall(j) PROVE NoticeInv'
  BY <1>17 DEF Stall
<1>18. ASSUME NEW e \in Exec, Reclaim(e) PROVE NoticeInv'
  BY <1>18 DEF Reclaim, FiledAs, Overdue
<1>19. ASSUME NEW e \in Exec, Expire(e) PROVE NoticeInv'
  BY <1>19 DEF Expire, FiledAs, Overdue
<1>20. ASSUME NEW e \in Exec, SweepUndelivered(e) PROVE NoticeInv'
  BY <1>20 DEF SweepUndelivered, Undelivered
<1>21. ASSUME NEW e \in Exec, NEW j \in Job, ClaimNotice(e, j) PROVE NoticeInv'
  BY <1>21 DEF ClaimNotice, ClaimWon
<1>22. ASSUME NEW e \in Exec, NEW j \in Job, RecordNotice(e, j) PROVE NoticeInv'
  BY <1>22 DEF RecordNotice
<1>23. ASSUME NEW e \in Exec, BeginDrain(e) PROVE NoticeInv'
  BY <1>23 DEF BeginDrain
<1>24. ASSUME NEW e \in Exec, HandOn(e) PROVE NoticeInv'
  BY <1>24 DEF HandOn
<1>25. ASSUME NEW e \in Exec, BeginShutdown(e) PROVE NoticeInv'
  BY <1>25 DEF BeginShutdown, Close
<1>26. ASSUME NEW e \in Exec, EndDrain(e) PROVE NoticeInv'
  BY <1>26 DEF EndDrain, Close
<1>27. ASSUME NEW e \in Exec, Exit(e) PROVE NoticeInv'
  BY <1>27 DEF Exit, Gone
<1>28. ASSUME NEW e \in Exec, Kill(e) PROVE NoticeInv'
  BY <1>28 DEF Kill, Gone
<1>29. ASSUME NEW e \in Exec, Boot(e) PROVE NoticeInv'
  BY <1>29 DEF Boot
<1>30. CASE UNCHANGED vars
  BY <1>30 DEF vars
<1> HIDE DEF TypeOK, NoticeInv, Announces, Finishable
<1> QED
  BY <1>1, <1>2, <1>3, <1>4, <1>5, <1>6, <1>7, <1>8, <1>9, <1>10, <1>11, <1>12, <1>13,
     <1>14, <1>15, <1>16, <1>17, <1>18, <1>19, <1>20, <1>21, <1>22, <1>23, <1>24,
     <1>25, <1>26, <1>27, <1>28, <1>29, <1>30
  DEF Next, RunStep, ProcessStep

\* A job is announced at most once, and one its user cancelled never.
THEOREM AnnouncedOnceCorrect == Spec => []AnnouncedOnce
<1>1. Init => NoticeInv
  BY DEF Init, NoticeInv
<1>2. TypeOK /\ NoticeInv => AnnouncedOnce
  <2> SUFFICES ASSUME TypeOK, NoticeInv, NEW j \in Job
               PROVE  announced[j] <= 1 /\ (error[j] = "cancel" => announced[j] = 0)
    BY DEF AnnouncedOnce
  <2>1. error[j] = "cancel" => ~Announces(status[j], error[j])
    BY DEF NoticeInv, Announces
  <2>2. announced[j] \in Nat
    BY DEF TypeOK
  <2> QED
    BY <2>1, <2>2 DEF NoticeInv
<1> QED
  BY <1>1, <1>2, NoticeStep, TypeCorrect, PTL DEF Spec

-----------------------------------------------------------------------------
(* Steers.                                                                 *)

\* Where a steer is: what the model heard is marked read or drained in the sink of
\* the run that holds the job, and an unread mark says the job has left the live
\* states.
SteerInv ==
    /\ \A j \in Job :
         /\ steer[j] = "read" => j \in heard
         /\ steer[j] = "unread" => status[j] \in Ended \cup {"stale"}
         /\ status[j] = "stale" => j \in filed
         /\ status[j] \in {"absent", "queued"} => j \notin heard
    /\ \A e \in Exec, j \in Job :
         /\ sink[e][j] = "drained" => j \in heard
         /\ sink[e][j] # "none" => stage[e][j] # "idle"
         /\ stage[e][j] # "idle" /\ j \in heard =>
              steer[j] = "read" \/ sink[e][j] = "drained"

\* SteersAccounted is inductive beside it: Finish settles the marks before the
\* sweep, and only the run that holds the job can have drained the steer.
LEMMA SteerStep ==
    TypeOK /\ OneRunner /\ SteerInv /\ SteersAccounted /\ [Next]_vars
      => SteerInv' /\ SteersAccounted'
<1> USE JobsAssumption DEF TypeOK, OneRunner, SteerInv, SteersAccounted, Ended, Active,
        Finishable, rowVars, runVars, tellVars, ghostVars
<1> SUFFICES ASSUME TypeOK, OneRunner, SteerInv, SteersAccounted, [Next]_vars
             PROVE  SteerInv' /\ SteersAccounted'
  OBVIOUS
<1>1. ASSUME NEW e \in Exec, NEW j \in Job, Create(e, j) PROVE SteerInv' /\ SteersAccounted'
  BY <1>1 DEF Create
<1>2. ASSUME NEW e \in Exec, NEW j \in Job, Claim(e, j) PROVE SteerInv' /\ SteersAccounted'
  BY <1>2 DEF Claim, Claimable
<1>3. ASSUME NEW e \in Exec, NEW j \in Job, RefuseAtCap(e, j) PROVE SteerInv' /\ SteersAccounted'
  BY <1>3 DEF RefuseAtCap
<1>4. ASSUME NEW e \in Exec, NEW j \in Job, BeginRun(e, j) PROVE SteerInv' /\ SteersAccounted'
  BY <1>4 DEF BeginRun, Pulled
<1>5. ASSUME NEW e \in Exec, NEW j \in Job, Event(e, j) PROVE SteerInv' /\ SteersAccounted'
  BY <1>5 DEF Event
<1>6. ASSUME NEW e \in Exec, NEW j \in Job, EndRun(e, j) PROVE SteerInv' /\ SteersAccounted'
  BY <1>6 DEF EndRun
<1>7. ASSUME NEW e \in Exec, NEW j \in Job, Throw(e, j) PROVE SteerInv' /\ SteersAccounted'
  BY <1>7 DEF Throw
<1>8. ASSUME NEW e \in Exec, NEW j \in Job, Block(e, j) PROVE SteerInv' /\ SteersAccounted'
  BY <1>8 DEF Block
<1>9. ASSUME NEW e \in Exec, NEW j \in Job, Resume(e, j) PROVE SteerInv' /\ SteersAccounted'
  BY <1>9 DEF Resume, Resumed
<1>10. ASSUME NEW e \in Exec, NEW j \in Job, Beat(e, j) PROVE SteerInv' /\ SteersAccounted'
  BY <1>10 DEF Beat
<1>11. ASSUME NEW e \in Exec, NEW j \in Job, Observe(e, j) PROVE SteerInv' /\ SteersAccounted'
  BY <1>11 DEF Observe, Pulled, MarkedRead
<1>12. ASSUME NEW e \in Exec, NEW j \in Job, ReadSteer(e, j) PROVE SteerInv' /\ SteersAccounted'
  <2>1. /\ status[j] \in {"running", "stale", "blocked"}
        /\ \A f \in Exec \ {e} : stage[f][j] = "idle"
    BY <1>12 DEF ReadSteer
  <2>2. /\ heard' = heard \cup {j}
        /\ sink' = [sink EXCEPT ![e][j] = "drained"]
        /\ UNCHANGED <<status, steer, stage, filed>>
    BY <1>12 DEF ReadSteer
  <2>3. SteerInv'
    BY <2>1, <2>2, <1>12 DEF ReadSteer
  <2>4. SteersAccounted'
    BY <2>1, <2>2
  <2> QED
    BY <2>3, <2>4
<1>13. ASSUME NEW e \in Exec, NEW j \in Job, Finish(e, j) PROVE SteerInv' /\ SteersAccounted'
  <2>1. PICK s \in {"done", "failed", "aborted"} : status' = [status EXCEPT ![j] = s]
    BY <1>13, FinishVerdict
  <2>2. steer' = [steer EXCEPT ![j] = SweptSteer(e, j)]
    BY <1>13 DEF Finish
  <2>3. /\ SweptSteer(e, j) \in {"none", "read", "unread"}
        /\ SweptSteer(e, j) = "read" => j \in heard
        /\ SweptSteer(e, j) = "unread" /\ j \notin filed => j \notin heard
    BY <1>13 DEF Finish, SweptSteer, MarkedRead
  <2> HIDE DEF SweptSteer
  <2> QED
    BY <1>13, <2>1, <2>2, <2>3 DEF Finish
<1>14. ASSUME NEW j \in Job, Cancel(j) PROVE SteerInv' /\ SteersAccounted'
  BY <1>14 DEF Cancel
<1>15. ASSUME NEW j \in Job, AddSteer(j) PROVE SteerInv' /\ SteersAccounted'
  BY <1>15 DEF AddSteer
<1>16. ASSUME NEW j \in Job, GrowOld(j) PROVE SteerInv' /\ SteersAccounted'
  BY <1>16 DEF GrowOld
<1>17. ASSUME NEW j \in Job, Stall(j) PROVE SteerInv' /\ SteersAccounted'
  BY <1>17 DEF Stall
<1>18. ASSUME NEW e \in Exec, Reclaim(e) PROVE SteerInv' /\ SteersAccounted'
  BY <1>18 DEF Reclaim, FiledAs, Overdue
<1>19. ASSUME NEW e \in Exec, Expire(e) PROVE SteerInv' /\ SteersAccounted'
  BY <1>19 DEF Expire, FiledAs, Overdue
<1>20. ASSUME NEW e \in Exec, SweepUndelivered(e) PROVE SteerInv' /\ SteersAccounted'
  BY <1>20 DEF SweepUndelivered
<1>21. ASSUME NEW e \in Exec, NEW j \in Job, ClaimNotice(e, j) PROVE SteerInv' /\ SteersAccounted'
  BY <1>21 DEF ClaimNotice
<1>22. ASSUME NEW e \in Exec, NEW j \in Job, RecordNotice(e, j) PROVE SteerInv' /\ SteersAccounted'
  BY <1>22 DEF RecordNotice
<1>23. ASSUME NEW e \in Exec, BeginDrain(e) PROVE SteerInv' /\ SteersAccounted'
  BY <1>23 DEF BeginDrain
<1>24. ASSUME NEW e \in Exec, HandOn(e) PROVE SteerInv' /\ SteersAccounted'
  BY <1>24 DEF HandOn
<1>25. ASSUME NEW e \in Exec, BeginShutdown(e) PROVE SteerInv' /\ SteersAccounted'
  BY <1>25 DEF BeginShutdown, Close
<1>26. ASSUME NEW e \in Exec, EndDrain(e) PROVE SteerInv' /\ SteersAccounted'
  BY <1>26 DEF EndDrain, Close
<1>27. ASSUME NEW e \in Exec, Exit(e) PROVE SteerInv' /\ SteersAccounted'
  BY <1>27 DEF Exit, Gone
<1>28. ASSUME NEW e \in Exec, Kill(e) PROVE SteerInv' /\ SteersAccounted'
  BY <1>28 DEF Kill, Gone
<1>29. ASSUME NEW e \in Exec, Boot(e) PROVE SteerInv' /\ SteersAccounted'
  BY <1>29 DEF Boot
<1>30. CASE UNCHANGED vars
  BY <1>30 DEF vars
<1> HIDE DEF TypeOK, OneRunner, SteerInv, SteersAccounted, Ended, Active, Finishable
<1> QED
  BY <1>1, <1>2, <1>3, <1>4, <1>5, <1>6, <1>7, <1>8, <1>9, <1>10, <1>11, <1>12, <1>13,
     <1>14, <1>15, <1>16, <1>17, <1>18, <1>19, <1>20, <1>21, <1>22, <1>23, <1>24,
     <1>25, <1>26, <1>27, <1>28, <1>29, <1>30
  DEF Next, RunStep, ProcessStep

\* A steer is reported as what became of it.
THEOREM SteersAccountedCorrect == Spec => []SteersAccounted
<1>1. Init => SteerInv /\ SteersAccounted
  BY DEF Init, SteerInv, SteersAccounted, Ended
<1> QED
  BY <1>1, SteerStep, TypeCorrect, OneRunnerCorrect, PTL DEF Spec

-----------------------------------------------------------------------------
(* Handing on.                                                             *)

\* A closing executor has handed its queued rows on, but for those queued since.
HandInv ==
    \A e \in Exec, j \in Job :
      phase[e] = "closing" /\ status[j] = "queued" /\ owner[j] = e => j \in late

\* Rows pass to Nobody in Gone alone: by Kill, or by Exit of a closing executor.
LEMMA HandStep ==
    TypeOK /\ HandInv /\ GracefullyHandedOn /\ [Next]_vars
      => HandInv' /\ GracefullyHandedOn'
<1> USE JobsAssumption DEF TypeOK, HandInv, GracefullyHandedOn, Counters, rowVars,
        runVars, tellVars, ghostVars
<1> SUFFICES ASSUME TypeOK, HandInv, GracefullyHandedOn, [Next]_vars
             PROVE  HandInv' /\ GracefullyHandedOn'
  OBVIOUS
<1>1. ASSUME NEW e \in Exec, NEW j \in Job, Create(e, j) PROVE HandInv' /\ GracefullyHandedOn'
  BY <1>1 DEF Create
<1>2. ASSUME NEW e \in Exec, NEW j \in Job, Claim(e, j) PROVE HandInv' /\ GracefullyHandedOn'
  BY <1>2 DEF Claim, Claimable
<1>3. ASSUME NEW e \in Exec, NEW j \in Job, RefuseAtCap(e, j) PROVE HandInv' /\ GracefullyHandedOn'
  BY <1>3 DEF RefuseAtCap
<1>4. ASSUME NEW e \in Exec, NEW j \in Job, BeginRun(e, j) PROVE HandInv' /\ GracefullyHandedOn'
  BY <1>4 DEF BeginRun
<1>5. ASSUME NEW e \in Exec, NEW j \in Job, Event(e, j) PROVE HandInv' /\ GracefullyHandedOn'
  BY <1>5 DEF Event
<1>6. ASSUME NEW e \in Exec, NEW j \in Job, EndRun(e, j) PROVE HandInv' /\ GracefullyHandedOn'
  BY <1>6 DEF EndRun
<1>7. ASSUME NEW e \in Exec, NEW j \in Job, Throw(e, j) PROVE HandInv' /\ GracefullyHandedOn'
  BY <1>7 DEF Throw
<1>8. ASSUME NEW e \in Exec, NEW j \in Job, Block(e, j) PROVE HandInv' /\ GracefullyHandedOn'
  BY <1>8 DEF Block
<1>9. ASSUME NEW e \in Exec, NEW j \in Job, Resume(e, j) PROVE HandInv' /\ GracefullyHandedOn'
  BY <1>9 DEF Resume, Resumed
<1>10. ASSUME NEW e \in Exec, NEW j \in Job, Beat(e, j) PROVE HandInv' /\ GracefullyHandedOn'
  BY <1>10 DEF Beat
<1>11. ASSUME NEW e \in Exec, NEW j \in Job, Observe(e, j) PROVE HandInv' /\ GracefullyHandedOn'
  BY <1>11 DEF Observe
<1>12. ASSUME NEW e \in Exec, NEW j \in Job, ReadSteer(e, j) PROVE HandInv' /\ GracefullyHandedOn'
  BY <1>12 DEF ReadSteer
<1>13. ASSUME NEW e \in Exec, NEW j \in Job, Finish(e, j) PROVE HandInv' /\ GracefullyHandedOn'
  <2>1. PICK s \in {"done", "failed", "aborted"} : status' = [status EXCEPT ![j] = s]
    BY <1>13, FinishVerdict
  <2> QED
    BY <1>13, <2>1 DEF Finish
<1>14. ASSUME NEW j \in Job, Cancel(j) PROVE HandInv' /\ GracefullyHandedOn'
  BY <1>14 DEF Cancel
<1>15. ASSUME NEW j \in Job, AddSteer(j) PROVE HandInv' /\ GracefullyHandedOn'
  BY <1>15 DEF AddSteer
<1>16. ASSUME NEW j \in Job, GrowOld(j) PROVE HandInv' /\ GracefullyHandedOn'
  BY <1>16 DEF GrowOld
<1>17. ASSUME NEW j \in Job, Stall(j) PROVE HandInv' /\ GracefullyHandedOn'
  BY <1>17 DEF Stall, Spend
<1>18. ASSUME NEW e \in Exec, Reclaim(e) PROVE HandInv' /\ GracefullyHandedOn'
  BY <1>18 DEF Reclaim, FiledAs, Overdue
<1>19. ASSUME NEW e \in Exec, Expire(e) PROVE HandInv' /\ GracefullyHandedOn'
  BY <1>19 DEF Expire, FiledAs, Overdue
<1>20. ASSUME NEW e \in Exec, SweepUndelivered(e) PROVE HandInv' /\ GracefullyHandedOn'
  BY <1>20 DEF SweepUndelivered
<1>21. ASSUME NEW e \in Exec, NEW j \in Job, ClaimNotice(e, j) PROVE HandInv' /\ GracefullyHandedOn'
  BY <1>21 DEF ClaimNotice
<1>22. ASSUME NEW e \in Exec, NEW j \in Job, RecordNotice(e, j) PROVE HandInv' /\ GracefullyHandedOn'
  BY <1>22 DEF RecordNotice
<1>23. ASSUME NEW e \in Exec, BeginDrain(e) PROVE HandInv' /\ GracefullyHandedOn'
  BY <1>23 DEF BeginDrain, HandedOn, Spend
<1>24. ASSUME NEW e \in Exec, HandOn(e) PROVE HandInv' /\ GracefullyHandedOn'
  BY <1>24 DEF HandOn, HandedOn
<1>25. ASSUME NEW e \in Exec, BeginShutdown(e) PROVE HandInv' /\ GracefullyHandedOn'
  BY <1>25 DEF BeginShutdown, Close, HandedOn, Spend
<1>26. ASSUME NEW e \in Exec, EndDrain(e) PROVE HandInv' /\ GracefullyHandedOn'
  BY <1>26 DEF EndDrain, Close, HandedOn
<1>27. ASSUME NEW e \in Exec, Exit(e) PROVE HandInv' /\ GracefullyHandedOn'
  BY <1>27 DEF Exit, Gone
<1>28. ASSUME NEW e \in Exec, Kill(e) PROVE HandInv' /\ GracefullyHandedOn'
  BY <1>28 DEF Kill, Gone, Spend
<1>29. ASSUME NEW e \in Exec, Boot(e) PROVE HandInv' /\ GracefullyHandedOn'
  BY <1>29 DEF Boot
<1>30. CASE UNCHANGED vars
  BY <1>30 DEF vars
<1> HIDE DEF TypeOK, HandInv, GracefullyHandedOn
<1> QED
  BY <1>1, <1>2, <1>3, <1>4, <1>5, <1>6, <1>7, <1>8, <1>9, <1>10, <1>11, <1>12, <1>13,
     <1>14, <1>15, <1>16, <1>17, <1>18, <1>19, <1>20, <1>21, <1>22, <1>23, <1>24,
     <1>25, <1>26, <1>27, <1>28, <1>29, <1>30
  DEF Next, RunStep, ProcessStep

\* No queued row is left behind by an executor that drains or shuts down.
THEOREM GracefullyHandedOnCorrect == Spec => []GracefullyHandedOn
<1>1. Init => HandInv /\ GracefullyHandedOn
  BY DEF Init, HandInv, GracefullyHandedOn
<1> QED
  BY <1>1, HandStep, TypeCorrect, PTL DEF Spec
=============================================================================
