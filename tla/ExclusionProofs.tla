--------------------------- MODULE ExclusionProofs ---------------------------
(***************************************************************************)
(* Proofs about what lets one caller in at a time: the lock files of a     *)
(* machine (FileLock) and the lanes and permits of one gateway             *)
(* (TurnLanes), each on its own, for any number of processes, deaths and   *)
(* reboots, and for any chats, messages, lane objects and bounds.          *)
(*                                                                         *)
(* Of a lock file: the only way to two holders is the window between a     *)
(* compare and its unlink, and on the jobs lock that window needs a        *)
(* corpse; LockInv and LivingInv are the inductive invariants.             *)
(*                                                                         *)
(* Of the lanes, LaneInv is the inductive invariant.  A lane object works  *)
(* on the message at its front and lists the queued ones behind it, each   *)
(* once (Fronts); a chat's live messages are all on the lane the map has   *)
(* for it, but for an astray chat (Home); the permits and the waiters add  *)
(* up (Permits).                                                           *)
(***************************************************************************)
EXTENDS FileLock, TurnLanes, TLAPS, FiniteSetTheorems, SequenceTheorems

(***************************************************************************)
(* The lock files.                                                         *)
(***************************************************************************)

-----------------------------------------------------------------------------
(* Type correctness.                                                       *)

LEMMA LockTypeStep == LockTypeOK /\ [LockNext]_lockVars => LockTypeOK'
<1> USE FileLockAssumption DEF LockTypeOK, Files, LockStages, fixed
<1> SUFFICES ASSUME LockTypeOK, [LockNext]_lockVars PROVE LockTypeOK'
  OBVIOUS
<1>1. ASSUME NEW p \in Process, Start(p) PROVE LockTypeOK'
  <2>1. (CHOOSE t \in Token : Fresh(p, t)) \in Token
    BY <1>1 DEF Start
  <2> QED
    BY <1>1, <2>1 DEF Start, Step
<1>2. ASSUME NEW p \in Process, Create(p) PROVE LockTypeOK'
  <2>1. file' \in Files /\ file'.boot = boot /\ file' # NoFile
    BY <1>2 DEF Create, Goes
  <2>2. /\ phase[p] = "try" /\ phase' = [phase EXCEPT ![p] = "blank"] /\ old' = FALSE
        /\ UNCHANGED <<confirms, bootIds, boot, token, spent, seen, robbed>>
    BY <1>2 DEF Create, Goes, Step
  <2>3. \A q \in Process : phase'[q] \in {"read", "stale", "same"} <=> seen'[q] # NoFile
    BY <2>2
  <2>4. phase' \in [Process -> LockStages]
    BY <2>2
  <2>5. file' \in Files \cup {NoFile} /\ (file' # NoFile => file'.boot <= boot')
    BY <2>1, <2>2
  <2>6. /\ boot' \in Nat /\ old' \in BOOLEAN /\ robbed' \in BOOLEAN /\ confirms' \in BOOLEAN
        /\ bootIds' \in BOOLEAN
    BY <2>2
  <2>7. token' \in [Process -> Token] /\ spent' \in [{"crash", "fault"} -> Nat]
    BY <2>2
  <2>8. seen' \in [Process -> Files \cup {NoFile}]
    BY <2>2
  <2> QED
    BY <2>3, <2>4, <2>5, <2>6, <2>7, <2>8
<1>3. ASSUME NEW p \in Process, WriteBody(p) PROVE LockTypeOK'
  BY <1>3 DEF WriteBody, Written, Goes, Step, Own
<1>4. ASSUME NEW p \in Process, WriteFails(p) PROVE LockTypeOK'
  BY <1>4 DEF WriteFails, Step, Spend
<1>5. ASSUME NEW p \in Process, Confirm(p) PROVE LockTypeOK'
  BY <1>5 DEF Confirm, Goes, Step, Own
<1>6. ASSUME NEW p \in Process, Contend(p) PROVE LockTypeOK'
  BY <1>6 DEF Contend, Goes, Step
<1>7. ASSUME NEW p \in Process, Read(p) PROVE LockTypeOK'
  BY <1>7 DEF Read, Goes, Step
<1>8. ASSUME NEW p \in Process, Judge(p) PROVE LockTypeOK'
  BY <1>8 DEF Judge, Goes, Step, Forgets
<1>9. ASSUME NEW p \in Process, Recheck(p) PROVE LockTypeOK'
  BY <1>9 DEF Recheck, Goes, Step, Onward, Forgets
<1>10. ASSUME NEW p \in Process, Reclaim(p) PROVE LockTypeOK'
  BY <1>10 DEF Reclaim, Goes, Step, Onward, Unlink, Forgets
<1>11. ASSUME NEW p \in Process, Poll(p) PROVE LockTypeOK'
  BY <1>11 DEF Poll, Goes, Step
<1>12. ASSUME NEW p \in Process, GiveUp(p) PROVE LockTypeOK'
  BY <1>12 DEF GiveUp, Goes, Step
<1>13. ASSUME NEW p \in Process, Release(p) PROVE LockTypeOK'
  BY <1>13 DEF Release, Goes, Step, Own
<1>14. ASSUME NEW p \in Process, Leave(p) PROVE LockTypeOK'
  BY <1>14 DEF Leave, Goes, Step, Unlink
<1>15. ASSUME NEW p \in Process, Crash(p) PROVE LockTypeOK'
  BY <1>15 DEF Crash, Spend, Forgets
<1>16. ASSUME NEW p \in Process, Restart(p) PROVE LockTypeOK'
  BY <1>16 DEF Restart, Goes, Step
<1>17. ASSUME Reboot PROVE LockTypeOK'
  BY <1>17 DEF Reboot
<1>18. ASSUME Age PROVE LockTypeOK'
  BY <1>18 DEF Age
<1>19. CASE UNCHANGED lockVars
  BY <1>19 DEF lockVars
<1> HIDE DEF LockTypeOK
<1> QED
  BY <1>1, <1>2, <1>3, <1>4, <1>5, <1>6, <1>7, <1>8, <1>9, <1>10, <1>11, <1>12,
     <1>13, <1>14, <1>15, <1>16, <1>17, <1>18, <1>19
  DEF LockNext, AcquireLock

\* Type correctness, including that no lock names a boot that has not been.
THEOREM LockTypeCorrect == LockSpec => []LockTypeOK
<1>1. (CHOOSE t \in Token : TRUE) \in Token
  BY FileLockAssumption
<1>2. ASSUME LockInit PROVE LockTypeOK
  <2>1. token \in [Process -> Token]
    BY <1>1, <1>2 DEF LockInit
  <2>2. /\ confirms \in BOOLEAN /\ bootIds \in BOOLEAN /\ old \in BOOLEAN /\ robbed \in BOOLEAN
        /\ boot \in Nat /\ file = NoFile /\ phase = [p \in Process |-> "out"]
        /\ seen = [p \in Process |-> NoFile] /\ spent \in [{"crash", "fault"} -> Nat]
    BY <1>2 DEF LockInit
  <2> QED
    BY <2>1, <2>2 DEF LockTypeOK, LockStages
<1> QED
  BY <1>2, LockTypeStep, PTL DEF LockSpec

-----------------------------------------------------------------------------
(* Mutual exclusion.                                                       *)

\* A process that will go by the file it created without another look.
Holding(p) == phase[p] \in {"held", "leaving"} \/ (~confirms /\ phase[p] = "blank")

\* An acquire of the jobs lock that has not created its file; the sentinel may try
\* again with the same body.
Contending(p) == phase[p] \in {"try", "busy", "read", "stale", "same", "wait"}

Condemns(q) == phase[q] \in {"stale", "same"}

\* A file whose creator has not written it is empty and young.
BlankIsYoung == \A p \in Process : Own(p, file) /\ phase[p] = "blank" => Blank(file) /\ ~old

WrittenIsWhole ==
    \A p \in Process : phase[p] = "written" => confirms /\ (Own(p, file) => ~Blank(file))

NotYetCreated ==
    \A p, q \in Process : ~confirms /\ Contending(p) => ~Own(p, file) /\ ~Own(p, seen[q])

\* A body that names somebody is condemned only for one that is gone.
OnlyTheDead ==
    \A p, q \in Process :
        Condemns(q) /\ ~Blank(seen[q]) /\ Own(p, seen[q]) => phase[p] \in {"gone", "out"}

\* Until a robbery, what a process counts on is at the path.
CountedOn ==
    ~robbed => \A p \in Process : Holding(p) =>
                  Own(p, file) /\ (Blank(file) => phase[p] = "blank")

NoEmptyCondemned ==
    ~robbed => \A p, q \in Process :
                  ~confirms /\ Condemns(q) /\ Own(p, seen[q]) => phase[p] # "blank"

LockInv == BlankIsYoung /\ WrittenIsWhole /\ NotYetCreated /\ OnlyTheDead
           /\ CountedOn /\ NoEmptyCondemned

LEMMA LockStep == LockTypeOK /\ LockInv /\ [LockNext]_lockVars => LockInv'
<1> USE FileLockAssumption DEF LockTypeOK, LockInv, BlankIsYoung, WrittenIsWhole, NotYetCreated, OnlyTheDead,
        CountedOn, NoEmptyCondemned, Holding, Contending, Condemns, Files, fixed, Own, Blank
<1> SUFFICES ASSUME LockTypeOK, LockInv, [LockNext]_lockVars PROVE LockInv'
  OBVIOUS
<1>1. ASSUME NEW p \in Process, Start(p) PROVE LockInv'
  <2>1. PICK t \in Token : /\ token' = [token EXCEPT ![p] = t]
                          /\ \A f \in {file} \cup {seen[q] : q \in Process} :
                               f # NoFile /\ f.by = p => f.token # t
    <3>1. PICK t \in Token : t = (CHOOSE u \in Token : Fresh(p, u)) /\ Fresh(p, t)
      BY <1>1 DEF Start
    <3> QED
      BY <1>1, <3>1 DEF Start, Fresh
  <2>2. /\ token'[p] = t /\ seen' = seen /\ file' = file /\ boot' = boot
    BY <1>1, <2>1 DEF Start
  <2>3. ~Own(p, file)' /\ \A q \in Process : ~Own(p, seen[q])'
    BY <2>1, <2>2
  <2> QED
    BY <1>1, <2>1, <2>2, <2>3 DEF Start, Step
<1>2. ASSUME NEW p \in Process, Create(p) PROVE LockInv'
  <2>1. /\ file' = [by |-> p, token |-> token[p], boot |-> boot, body |-> "empty"]
        /\ file' # NoFile /\ old' = FALSE /\ file = NoFile
        /\ UNCHANGED <<confirms, boot, token, seen, robbed>>
        /\ phase[p] = "try" /\ phase' = [phase EXCEPT ![p] = "blank"]
    <3>1. file' \in Files
      BY <1>2 DEF Create, Goes
    <3> QED
      BY <1>2, <3>1 DEF Create, Goes, Step
  <2>2. BlankIsYoung'
    BY <1>2, <2>1 DEF Step
  <2>20. WrittenIsWhole'
    BY <1>2, <2>1 DEF Step
  <2>3. NotYetCreated'
    BY <1>2, <2>1 DEF Step
  <2>4. OnlyTheDead'
    BY <1>2, <2>1 DEF Step
  <2>5. CountedOn'
    BY <1>2, <2>1 DEF Step
  <2>6. NoEmptyCondemned'
    BY <1>2, <2>1 DEF Step
  <2> QED
    BY <2>2, <2>3, <2>4, <2>5, <2>6, <2>20
<1>3. ASSUME NEW p \in Process, WriteBody(p) PROVE LockInv'
  <2>1. /\ file' = IF Own(p, file) THEN [file EXCEPT !.body = "whole"] ELSE file
        /\ UNCHANGED <<confirms, boot, token, old, seen, robbed>>
        /\ phase[p] = "blank" /\ phase' = [phase EXCEPT ![p] = IF confirms THEN "written" ELSE "held"]
    BY <1>3 DEF WriteBody, Written, Goes, Step
  <2>2. /\ file' # NoFile <=> file # NoFile
        /\ file # NoFile => /\ file'.by = file.by /\ file'.token = file.token
                            /\ file'.boot = file.boot
                            /\ (Blank(file') <=> Blank(file) /\ ~Own(p, file))
    BY <2>1
  <2>3. BlankIsYoung'
    BY <1>3, <2>1, <2>2 DEF Step
  <2>20. WrittenIsWhole'
    BY <1>3, <2>1, <2>2 DEF Step
  <2>4. NotYetCreated'
    BY <1>3, <2>1, <2>2 DEF Step
  <2>5. OnlyTheDead'
    BY <1>3, <2>1, <2>2 DEF Step
  <2>6. CountedOn'
    BY <1>3, <2>1, <2>2 DEF Step
  <2>7. NoEmptyCondemned'
    BY <1>3, <2>1, <2>2 DEF Step
  <2> QED
    BY <2>3, <2>4, <2>5, <2>6, <2>7, <2>20
<1>4. ASSUME NEW p \in Process, WriteFails(p) PROVE LockInv'
  BY <1>4 DEF WriteFails, Step, Spend
<1>5. ASSUME NEW p \in Process, Confirm(p) PROVE LockInv'
  <2>1. /\ UNCHANGED <<confirms, boot, token, file, old, seen, robbed>>
        /\ phase[p] = "written"
        /\ phase' = [phase EXCEPT ![p] = IF Own(p, file) THEN "held" ELSE "wait"]
    BY <1>5 DEF Confirm, Goes, Step
  <2>2. BlankIsYoung'
    BY <1>5, <2>1 DEF Step
  <2>20. WrittenIsWhole'
    BY <1>5, <2>1 DEF Step
  <2>3. NotYetCreated'
    BY <1>5, <2>1 DEF Step
  <2>4. OnlyTheDead'
    BY <1>5, <2>1 DEF Step
  <2>5. CountedOn'
    BY <1>5, <2>1 DEF Step
  <2>6. NoEmptyCondemned'
    BY <1>5, <2>1 DEF Step
  <2> QED
    BY <2>2, <2>3, <2>4, <2>5, <2>6, <2>20
<1>6. ASSUME NEW p \in Process, Contend(p) PROVE LockInv'
  BY <1>6 DEF Contend, Goes, Step
<1>7. ASSUME NEW p \in Process, Read(p) PROVE LockInv'
  BY <1>7 DEF Read, Goes, Step
<1>8. ASSUME NEW p \in Process, Judge(p) PROVE LockInv'
  BY <1>8 DEF Judge, Goes, Step, Forgets, Stale, Alive
<1>9. ASSUME NEW p \in Process, Recheck(p) PROVE LockInv'
  BY <1>9 DEF Recheck, Goes, Step, Onward, Forgets, StillThatLock, SameBytes
<1>10. ASSUME NEW p \in Process, Reclaim(p) PROVE LockInv'
  <2>1. /\ file' = NoFile /\ old' = FALSE /\ seen' = [seen EXCEPT ![p] = NoFile]
        /\ UNCHANGED <<confirms, boot, token>> /\ phase[p] = "same"
        /\ \/ phase' = [phase EXCEPT ![p] = "try"]
           \/ phase' = [phase EXCEPT ![p] = "wait"]
        /\ robbed' = (robbed \/ (file # seen[p] /\ \E q \in Process \ {p} : CountsOn(q, file)))
    BY <1>10 DEF Reclaim, Goes, Step, Onward, Unlink, Forgets
  <2>2. ~robbed' => \A q \in Process : ~Holding(q)
    <3> SUFFICES ASSUME ~robbed', NEW q \in Process, Holding(q) PROVE FALSE
      OBVIOUS
    <3>1. ~robbed /\ Own(q, file) /\ (Blank(file) => phase[q] = "blank") /\ q # p
      BY <2>1
    <3>2. CountsOn(q, file)
      BY <3>1 DEF CountsOn
    <3>3. file = seen[p]
      BY <2>1, <3>1, <3>2
    <3> QED
      BY <2>1, <3>1, <3>3
  <2>3. BlankIsYoung'
    BY <1>10, <2>1, <2>2 DEF Step
  <2>20. WrittenIsWhole'
    BY <1>10, <2>1, <2>2 DEF Step
  <2>4. NotYetCreated'
    BY <1>10, <2>1, <2>2 DEF Step
  <2>5. OnlyTheDead'
    BY <1>10, <2>1, <2>2 DEF Step
  <2>6. CountedOn'
    BY <1>10, <2>1, <2>2 DEF Step
  <2>7. NoEmptyCondemned'
    BY <1>10, <2>1, <2>2 DEF Step
  <2> QED
    BY <2>3, <2>4, <2>5, <2>6, <2>7, <2>20
<1>11. ASSUME NEW p \in Process, Poll(p) PROVE LockInv'
  BY <1>11 DEF Poll, Goes, Step
<1>12. ASSUME NEW p \in Process, GiveUp(p) PROVE LockInv'
  BY <1>12 DEF GiveUp, Goes, Step
<1>13. ASSUME NEW p \in Process, Release(p) PROVE LockInv'
  BY <1>13 DEF Release, Goes, Step, Own
<1>14. ASSUME NEW p \in Process, Leave(p) PROVE LockInv'
  BY <1>14 DEF Leave, Goes, Step, Unlink, CountsOn
<1>15. ASSUME NEW p \in Process, Crash(p) PROVE LockInv'
  BY <1>15 DEF Crash, Spend, Forgets, Alive
<1>16. ASSUME NEW p \in Process, Restart(p) PROVE LockInv'
  BY <1>16 DEF Restart, Goes, Step
<1>17. ASSUME Reboot PROVE LockInv'
  BY <1>17 DEF Reboot
<1>18. ASSUME Age PROVE LockInv'
  BY <1>18 DEF Age
<1>19. CASE UNCHANGED lockVars
  BY <1>19 DEF lockVars
<1> HIDE DEF LockTypeOK, LockInv
<1> QED
  BY <1>1, <1>2, <1>3, <1>4, <1>5, <1>6, <1>7, <1>8, <1>9, <1>10, <1>11, <1>12,
     <1>13, <1>14, <1>15, <1>16, <1>17, <1>18, <1>19
  DEF LockNext, AcquireLock

LEMMA LockCorrect == LockSpec => []LockInv
<1>1. LockInit => LockInv
  BY FileLockAssumption DEF LockInit, LockInv, BlankIsYoung, WrittenIsWhole, NotYetCreated, OnlyTheDead,
     CountedOn, NoEmptyCondemned, Holding, Contending, Condemns, Own, Blank
<1> QED
  BY <1>1, LockStep, LockTypeCorrect, PTL DEF LockSpec

\* Two processes hold the lock only after an unlink robbed one.
THEOREM OneHolderCorrect == LockSpec => []OneHolder
<1>1. LockTypeOK /\ LockInv => OneHolder
  BY DEF LockTypeOK, LockInv, CountedOn, OneHolder, Holders, Holding, Own
<1> QED
  BY <1>1, LockCorrect, LockTypeCorrect, PTL

-----------------------------------------------------------------------------
(* The jobs lock among the living.                                         *)

\* While nobody died, an empty lock has a living creator, a reader that will find the
\* lock old has read that lock, and nobody condemns anything.
LivingInv ==
    ~confirms /\ Deaths = 0 =>
      /\ ~robbed
      /\ \A p \in Process : phase[p] # "gone" /\ ~Condemns(p)
      /\ file # NoFile /\ Blank(file) => \E p \in Process : Own(p, file) /\ phase[p] = "blank"
      /\ \A p \in Process :
           /\ phase[p] = "read" /\ old /\ file # NoFile => seen[p] = file
           /\ seen[p] # NoFile => seen[p].boot = 0

LEMMA LivingStep == LockTypeOK /\ LockInv /\ LivingInv /\ [LockNext]_lockVars => LivingInv'
<1> USE FileLockAssumption DEF LockTypeOK, LockInv, BlankIsYoung, WrittenIsWhole, NotYetCreated,
        OnlyTheDead, CountedOn, NoEmptyCondemned, LivingInv, Holding, Contending, Condemns,
        Files, fixed, Own, Blank, Deaths
<1> SUFFICES ASSUME LockTypeOK, LockInv, LivingInv, [LockNext]_lockVars PROVE LivingInv'
  OBVIOUS
<1>1. ASSUME NEW p \in Process, Start(p) PROVE LivingInv'
  BY <1>1 DEF Start, Step, Fresh
<1>2. ASSUME NEW p \in Process, Create(p) PROVE LivingInv'
  BY <1>2 DEF Create, Goes, Step
<1>3. ASSUME NEW p \in Process, WriteBody(p) PROVE LivingInv'
  <2>1. /\ file' = IF Own(p, file) THEN [file EXCEPT !.body = "whole"] ELSE file
        /\ UNCHANGED <<confirms, boot, token, old, seen, robbed, spent>>
        /\ phase[p] = "blank" /\ phase' = [phase EXCEPT ![p] = IF confirms THEN "written" ELSE "held"]
    BY <1>3 DEF WriteBody, Written, Goes, Step
  <2>2. file # NoFile => old \/ file' = file \/ ~Blank(file')
    BY <2>1
  <2>6. Own(p, file) => ~old
    BY <2>1
  <2>3. old => file' = file
    BY <2>1, <2>6
  <2>4. file # NoFile /\ Blank(file) /\ ~Own(p, file) => file' = file
    BY <2>1
  <2>5. Own(p, file) => ~Blank(file') /\ file' # NoFile
    BY <2>1
  <2> QED
    BY <2>1, <2>3, <2>4, <2>5
<1>4. ASSUME NEW p \in Process, WriteFails(p) PROVE LivingInv'
  BY <1>4 DEF WriteFails, Step, Spend
<1>5. ASSUME NEW p \in Process, Confirm(p) PROVE LivingInv'
  BY <1>5 DEF Confirm, Goes, Step, Own
<1>6. ASSUME NEW p \in Process, Contend(p) PROVE LivingInv'
  BY <1>6 DEF Contend, Goes, Step
<1>7. ASSUME NEW p \in Process, Read(p) PROVE LivingInv'
  BY <1>7 DEF Read, Goes, Step
<1>8. ASSUME NEW p \in Process, Judge(p) PROVE LivingInv'
  <2>1. ~confirms /\ Deaths = 0 => ~Stale(seen[p])
    <3> SUFFICES ASSUME ~confirms, Deaths = 0, Stale(seen[p]), phase[p] = "read" PROVE FALSE
      BY <1>8 DEF Judge, Goes, Step
    <3>1. seen[p] # NoFile /\ seen[p] \in Files /\ seen[p].boot = boot /\ boot = 0
      OBVIOUS
    <3>2. Blank(seen[p]) /\ file # NoFile /\ old
      BY <3>1 DEF Stale, Alive
    <3>3. seen[p] = file
      BY <3>2
    <3>4. PICK q \in Process : Own(q, file) /\ phase[q] = "blank"
      BY <3>2, <3>3
    <3>5. ~old
      BY <3>4
    <3> QED
      BY <3>2, <3>5
  <2> QED
    BY <1>8, <2>1 DEF Judge, Goes, Step, Forgets
<1>9. ASSUME NEW p \in Process, Recheck(p) PROVE LivingInv'
  BY <1>9 DEF Recheck, Goes, Step, Onward, Forgets, StillThatLock, SameBytes
<1>10. ASSUME NEW p \in Process, Reclaim(p) PROVE LivingInv'
  BY <1>10 DEF Reclaim, Goes, Step, Onward, Unlink, Forgets, CountsOn
<1>11. ASSUME NEW p \in Process, Poll(p) PROVE LivingInv'
  BY <1>11 DEF Poll, Goes, Step
<1>12. ASSUME NEW p \in Process, GiveUp(p) PROVE LivingInv'
  BY <1>12 DEF GiveUp, Goes, Step
<1>13. ASSUME NEW p \in Process, Release(p) PROVE LivingInv'
  BY <1>13 DEF Release, Goes, Step, Own
<1>14. ASSUME NEW p \in Process, Leave(p) PROVE LivingInv'
  <2>1. /\ phase[p] = "leaving" /\ phase' = [phase EXCEPT ![p] = "out"]
        /\ file' = NoFile /\ UNCHANGED <<confirms, boot, seen, spent>>
        /\ robbed' = (robbed \/ (~Own(p, file) /\ \E q \in Process \ {p} : CountsOn(q, file)))
    BY <1>14 DEF Leave, Goes, Step, Unlink
  <2>4. Holding(p)
    BY <2>1
  <2>2. ~robbed => Own(p, file)
    BY <2>4
  <2>3. ~robbed => ~robbed'
    BY <2>1, <2>2
  <2> QED
    BY <2>1, <2>3
<1>15. ASSUME NEW p \in Process, Crash(p) PROVE LivingInv'
  BY <1>15 DEF Crash, Spend, Forgets, Alive
<1>16. ASSUME NEW p \in Process, Restart(p) PROVE LivingInv'
  BY <1>16 DEF Restart, Goes, Step
<1>17. ASSUME Reboot PROVE LivingInv'
  BY <1>17 DEF Reboot
<1>18. ASSUME Age PROVE LivingInv'
  BY <1>18 DEF Age
<1>19. CASE UNCHANGED lockVars
  BY <1>19 DEF lockVars
<1> HIDE DEF LockTypeOK, LockInv, LivingInv
<1> QED
  BY <1>1, <1>2, <1>3, <1>4, <1>5, <1>6, <1>7, <1>8, <1>9, <1>10, <1>11, <1>12,
     <1>13, <1>14, <1>15, <1>16, <1>17, <1>18, <1>19
  DEF LockNext, AcquireLock

LEMMA LivingCorrect == LockSpec => []LivingInv
<1>1. LockInit => LivingInv
  BY FileLockAssumption DEF LockInit, LivingInv, Condemns, Deaths, Blank, Own
<1> QED
  BY <1>1, LivingStep, LockCorrect, LockTypeCorrect, PTL DEF LockSpec

\* While nobody died, nobody loses the jobs lock.
THEOREM KeptFromTheLivingCorrect == LockSpec => []KeptFromTheLiving
<1>1. LivingInv => KeptFromTheLiving
  BY DEF LivingInv, KeptFromTheLiving
<1> QED
  BY <1>1, LivingCorrect, PTL

(***************************************************************************)
(* The lanes and permits of a gateway.                                     *)
(***************************************************************************)

\* The sequence q holds the elements of S, each once.
Lists(q, S) ==
    /\ \A i \in 1..Len(q) : q[i] \in S
    /\ \A i \in 1..Len(q), j \in 1..Len(q) : q[i] = q[j] => i = j
    /\ \A x \in S : \E i \in 1..Len(q) : q[i] = x

\* The typed part of TypeOK.
Types ==
    /\ lanes \in [Chat -> Lane \cup {None}] /\ older \subseteq Chat \X Chat
    /\ queue \in [Lane -> Seq(Message)]
    /\ cur \in [Lane -> Message \cup {None}]
    /\ pc \in [Message -> Stages]
    /\ laneOf \in [Message -> Lane \cup {None}]
    /\ aborted \subseteq Message
    /\ permits \in 0..MaxPermits /\ waiters \in Seq(Message)
    /\ {sink, active} \subseteq [Chat -> Message \cup {None}]
    /\ astray \subseteq Chat /\ stops \in 0..MaxStops

QueuedAt(l) == {m \in Message : pc[m] = "queued" /\ laneOf[m] = l}
WaitingSet == {m \in Message : pc[m] = "waiting"}
HeldSet == {m \in Message : pc[m] \in Held}

\* A message that arrived has a lane.
Laned == \A m \in Message : pc[m] # "new" => laneOf[m] \in Lane

\* A lane works on the message at its front.
FrontIsCur == \A m \in Message : pc[m] \in AtFront => cur[laneOf[m]] = m
CurIsFront == \A l \in Lane : cur[l] # None => laneOf[cur[l]] = l /\ pc[cur[l]] \in AtFront

\* A lane's backlog lists its queued messages, and an idle lane has none.
Backlog == \A l \in Lane : Lists(queue[l], QueuedAt(l))
NoIdleBacklog == \A l \in Lane : cur[l] = None => queue[l] = <<>>

Fronts == Laned /\ FrontIsCur /\ CurIsFront /\ Backlog /\ NoIdleBacklog

\* The messages that hold a lane object.
Live == {"hook", "queued"} \cup AtFront

\* A chat's live messages are on the chat's lane, unless the chat is astray.
Home == \A m \in Message : pc[m] \in Live =>
            ChatOf[m] \in astray \/ lanes[ChatOf[m]] = laneOf[m]

\* The permits add up, none is idle while a turn waits, and the live waiters are listed.
Permits ==
    /\ IsFiniteSet(HeldSet)
    /\ permits + Cardinality(HeldSet) = MaxPermits
    /\ permits > 0 => waiters = <<>>
    /\ Lists(waiters, WaitingSet)

LaneInv == Types /\ Fronts /\ Home /\ Permits

-----------------------------------------------------------------------------
(* Sequences that list a set.                                              *)

\* An empty sequence lists nothing.
LEMMA ListsEmpty == Lists(<<>>, {})
  BY DEF Lists

\* SessionLane.enqueue and TurnSemaphore.acquire push what is not there yet.
LEMMA ListsAppend ==
  ASSUME NEW T, NEW q \in Seq(T), NEW S, NEW x \in T, x \notin S, Lists(q, S)
  PROVE  Lists(Append(q, x), S \cup {x})
  BY AppendProperties DEF Lists

\* drain and release shift the head.
LEMMA ListsTail ==
  ASSUME NEW T, NEW q \in Seq(T), NEW S, q # <<>>, Lists(q, S)
  PROVE  Head(q) \in S /\ Lists(Tail(q), S \ {Head(q)})
<1>1. Len(q) \in Nat /\ Len(q) >= 1 /\ Head(q) = q[1] /\ Len(Tail(q)) = Len(q) - 1
  BY HeadTailProperties, EmptySeq, LenProperties
<1>2. \A i \in 1..Len(Tail(q)) : Tail(q)[i] = q[i + 1]
  BY HeadTailProperties
<1>3. Head(q) \in S
  BY <1>1 DEF Lists
<1>4. \A i \in 1..Len(Tail(q)) : Tail(q)[i] \in S \ {Head(q)}
  BY <1>1, <1>2 DEF Lists
<1>5. \A i \in 1..Len(Tail(q)), j \in 1..Len(Tail(q)) : Tail(q)[i] = Tail(q)[j] => i = j
  <2> TAKE i \in 1..Len(Tail(q)), j \in 1..Len(Tail(q))
  <2> QED BY <1>1, <1>2 DEF Lists
<1>6. ASSUME NEW x \in S \ {Head(q)} PROVE \E i \in 1..Len(Tail(q)) : Tail(q)[i] = x
  <2>1. PICK k \in 1..Len(q) : q[k] = x
    BY DEF Lists
  <2>2. k # 1
    BY <2>1, <1>1
  <2>3. k - 1 \in 1..Len(Tail(q)) /\ Tail(q)[k - 1] = x
    BY <2>1, <2>2, <1>1, <1>2
  <2> QED BY <2>3
<1> QED BY <1>3, <1>4, <1>5, <1>6 DEF Lists

\* onAbort splices the waiter out.
LEMMA ListsRemoveAt ==
  ASSUME NEW T, NEW q \in Seq(T), NEW S, NEW i \in 1..Len(q), Lists(q, S)
  PROVE  RemoveAt(q, i) \in Seq(T) /\ Lists(RemoveAt(q, i), S \ {q[i]})
<1> DEFINE a == SubSeq(q, 1, i - 1)
           b == SubSeq(q, i + 1, Len(q))
           r == a \o b
<1>1. Len(q) \in Nat /\ \A k \in 1..Len(q) : q[k] \in T
  BY LenProperties, ElementOfSeq
<1>2. /\ a \in Seq(T) /\ Len(a) = i - 1
      /\ \A k \in 1..(i - 1) : a[k] = q[k]
  BY <1>1, SubSeqProperties
<1>3. /\ b \in Seq(T) /\ Len(b) = Len(q) - i
      /\ \A k \in 1..(Len(q) - i) : b[k] = q[k + i]
  <2>1. i + 1 \in Int /\ Len(q) \in Int /\ \A k \in (i + 1)..Len(q) : q[k] \in T
    BY <1>1
  <2>2. /\ b \in Seq(T)
        /\ Len(b) = IF i + 1 <= Len(q) THEN Len(q) - (i + 1) + 1 ELSE 0
        /\ \A k \in 1..(Len(q) - (i + 1) + 1) : b[k] = q[(i + 1) + k - 1]
    BY <2>1, SubSeqProperties
  <2> QED BY <2>2, <1>1
<1>4. /\ r \in Seq(T) /\ Len(r) = Len(q) - 1
      /\ \A k \in 1..(Len(q) - 1) : r[k] = IF k < i THEN q[k] ELSE q[k + 1]
  <2> HIDE DEF a, b
  <2>1. /\ r \in Seq(T) /\ Len(r) = Len(a) + Len(b)
        /\ \A k \in 1..(Len(a) + Len(b)) : r[k] = IF k <= Len(a) THEN a[k] ELSE b[k - Len(a)]
    BY <1>2, <1>3, ConcatProperties
  <2>2. Len(r) = Len(q) - 1
    BY <2>1, <1>1, <1>2, <1>3
  <2>3. ASSUME NEW k \in 1..(Len(q) - 1) PROVE r[k] = IF k < i THEN q[k] ELSE q[k + 1]
    <3>1. r[k] = IF k <= Len(a) THEN a[k] ELSE b[k - Len(a)]
      BY <2>1, <1>1, <1>2, <1>3
    <3>2. CASE k < i
      BY <3>1, <3>2, <1>1, <1>2
    <3>3. CASE ~ (k < i)
      <4>1. k - Len(a) \in 1..(Len(q) - i) /\ ~ (k <= Len(a)) /\ (k - Len(a)) + i = k + 1
        BY <3>3, <1>1, <1>2
      <4> QED BY <4>1, <3>1, <3>3, <1>3
    <3> QED BY <3>2, <3>3
  <2> QED BY <2>1, <2>2, <2>3
<1>5. RemoveAt(q, i) = r
  BY DEF RemoveAt
<1> HIDE DEF r
<1>6. \A k \in 1..Len(r) : r[k] \in S \ {q[i]}
  <2> TAKE k \in 1..Len(r)
  <2> QED BY <1>1, <1>4 DEF Lists
<1>7. \A k \in 1..Len(r), j \in 1..Len(r) : r[k] = r[j] => k = j
  <2> SUFFICES ASSUME NEW k \in 1..Len(r), NEW j \in 1..Len(r), r[k] = r[j] PROVE k = j
    OBVIOUS
  <2> DEFINE at(n) == IF n < i THEN n ELSE n + 1
  <2>1. at(k) \in 1..Len(q) /\ at(j) \in 1..Len(q) /\ r[k] = q[at(k)] /\ r[j] = q[at(j)]
    BY <1>1, <1>4
  <2>2. at(k) = at(j)
    <3> HIDE DEF at
    <3> QED BY <2>1 DEF Lists
  <2> QED BY <2>2, <1>1
<1>8. ASSUME NEW x \in S \ {q[i]} PROVE \E k \in 1..Len(r) : r[k] = x
  <2>1. PICK k \in 1..Len(q) : q[k] = x
    BY DEF Lists
  <2>2. k # i
    BY <2>1
  <2>3. CASE k < i
    BY <2>1, <2>3, <1>1, <1>4
  <2>4. CASE k > i
    <3>1. k - 1 \in 1..Len(r) /\ r[k - 1] = x
      BY <2>1, <2>4, <1>1, <1>4
    <3> QED BY <3>1
  <2> QED BY <2>2, <2>3, <2>4, <1>1
<1> QED BY <1>4, <1>5, <1>6, <1>7, <1>8 DEF Lists

\* A listed set is what the sequence holds, and has as many elements as it is long.
LEMMA ListsCount ==
  ASSUME NEW T, NEW q \in Seq(T), NEW S, Lists(q, S)
  PROVE  ToSet(q) = S /\ Len(q) = Cardinality(S)
<1>1. Len(q) \in Nat /\ q \in [1..Len(q) -> S] /\ DOMAIN q = 1..Len(q)
  BY LenProperties, IsASeq DEF Lists
<1>2. q \in Bijection(1..Len(q), S)
  BY <1>1 DEF Lists, Bijection, Injection, Surjection, IsInjective
<1>3. Cardinality(S) = Len(q)
  BY <1>1, <1>2, FS_CountingElements DEF ExistsBijection
<1>4. ToSet(q) = S
  BY <1>1 DEF ToSet, Lists
<1> QED BY <1>3, <1>4
-----------------------------------------------------------------------------
(* What a step does to the lanes.                                          *)

\* The initial state.
LEMMA InitInv == Init => LaneInv
<1> SUFFICES ASSUME Init PROVE LaneInv
  OBVIOUS
<1> USE TurnLanesAssumption
<1>1. Types
  BY DEF Init, Types, Stages
<1>2. \A l \in Lane : QueuedAt(l) = {}
  BY DEF Init, QueuedAt
<1>3. Fronts
  BY <1>2, ListsEmpty DEF Init, Fronts, Laned, FrontIsCur, CurIsFront, Backlog, NoIdleBacklog,
     AtFront, Held
<1>4. Home
  BY DEF Init, Home, Live, AtFront, Held
<1>5. HeldSet = {} /\ WaitingSet = {}
  BY DEF Init, HeldSet, WaitingSet, Held
<1>6. Permits
  BY <1>5, ListsEmpty, FS_EmptySet DEF Init, Permits
<1> QED BY <1>1, <1>3, <1>4, <1>6 DEF LaneInv

\* m moves on, at the front of its lane or off it, and the lanes stay as they are.
Apace(m) ==
    \/ pc'[m] = pc[m]
    \/ pc[m] \in AtFront /\ pc'[m] \in AtFront
    \/ pc[m] = "hook" /\ pc'[m] \in Ended

\* A step that moves messages on without a change to a lane keeps the lanes in order.
LEMMA FrontsStay ==
  ASSUME Types, Fronts, UNCHANGED <<laneVars, laneOf>>, \A m \in Message : Apace(m)
  PROVE  Fronts'
<1>1. \A m \in Message : /\ pc'[m] = "queued" <=> pc[m] = "queued"
                         /\ pc'[m] \in AtFront <=> pc[m] \in AtFront
                         /\ pc'[m] # "new" => pc[m] # "new"
  BY DEF Apace, AtFront, Held, Ended
<1>2. \A l \in Lane : QueuedAt(l)' = QueuedAt(l)
  BY <1>1 DEF QueuedAt
<1>3. Backlog'
  BY <1>2 DEF Fronts, Backlog, laneVars
<1>4. CurIsFront'
  BY <1>1 DEF Fronts, CurIsFront, Types, laneVars
<1> QED BY <1>1, <1>3, <1>4 DEF Fronts, Laned, FrontIsCur, NoIdleBacklog, laneVars

\* An arriving message takes a lane object; no lane changes.
LEMMA FrontsArrive ==
  ASSUME Types, Fronts, NEW m \in Message, NEW l \in Lane, pc[m] = "new",
         pc' = [pc EXCEPT ![m] = "hook"], laneOf' = [laneOf EXCEPT ![m] = l],
         UNCHANGED laneVars
  PROVE  Fronts'
<1>1. \A x \in Message : pc'[x] = (IF x = m THEN "hook" ELSE pc[x])
                      /\ laneOf'[x] = (IF x = m THEN l ELSE laneOf[x])
  BY DEF Types
<1>2. \A k \in Lane : QueuedAt(k)' = QueuedAt(k)
  BY <1>1 DEF QueuedAt
<1>3. Backlog'
  BY <1>2 DEF Fronts, Backlog, laneVars
<1>4. FrontIsCur'
  BY <1>1 DEF Fronts, FrontIsCur, AtFront, Held, laneVars
<1>5. CurIsFront'
  BY <1>1 DEF Fronts, CurIsFront, AtFront, Held, Types, laneVars
<1> QED BY <1>1, <1>3, <1>4, <1>5 DEF Fronts, Laned, NoIdleBacklog, laneVars

\* SessionLane.enqueue: to the front of an idle lane, or behind its backlog.
LEMMA FrontsEnqueue ==
  ASSUME Types, Fronts, NEW m \in Message, pc[m] = "hook", Enqueue(m), UNCHANGED laneOf
  PROVE  Fronts' /\ queue' \in [Lane -> Seq(Message)] /\ cur' \in [Lane -> Message \cup {None}]
<1> USE TurnLanesAssumption
<1> DEFINE l == laneOf[m]
<1>1. l \in Lane
  BY DEF Fronts, Laned
<1>2. m # None
  OBVIOUS
<1>3. CASE cur[l] = None
  <2>1. /\ cur' = [cur EXCEPT ![l] = m] /\ queue' = queue
        /\ pc' = [pc EXCEPT ![m] = "front"]
    BY <1>3 DEF Enqueue
  <2>2. /\ \A x \in Message : pc'[x] = IF x = m THEN "front" ELSE pc[x]
        /\ \A k \in Lane : cur'[k] = IF k = l THEN m ELSE cur[k]
    BY <2>1 DEF Types
  <2>3. \A k \in Lane : QueuedAt(k)' = QueuedAt(k)
    BY <2>2 DEF QueuedAt
  <2>4. Backlog'
    BY <2>1, <2>3 DEF Fronts, Backlog
  <2>5. FrontIsCur'
    BY <1>1, <1>2, <1>3, <2>2 DEF Fronts, Laned, FrontIsCur, AtFront, Held
  <2>6. CurIsFront'
    BY <1>1, <1>2, <1>3, <2>2 DEF Fronts, CurIsFront, AtFront, Held, Types
  <2>7. NoIdleBacklog'
    BY <1>2, <2>1, <2>2 DEF Fronts, NoIdleBacklog
  <2> QED BY <2>1, <2>2, <2>4, <2>5, <2>6, <2>7 DEF Fronts, Laned, Types
<1>4. CASE cur[l] # None
  <2>1. /\ queue' = [queue EXCEPT ![l] = Append(queue[l], m)] /\ cur' = cur
        /\ pc' = [pc EXCEPT ![m] = "queued"]
    BY <1>4 DEF Enqueue
  <2>2. /\ \A x \in Message : pc'[x] = IF x = m THEN "queued" ELSE pc[x]
        /\ \A k \in Lane : queue'[k] = IF k = l THEN Append(queue[l], m) ELSE queue[k]
    BY <2>1 DEF Types
  <2>3. /\ QueuedAt(l)' = QueuedAt(l) \cup {m}
        /\ \A k \in Lane : k # l => QueuedAt(k)' = QueuedAt(k)
    BY <2>2 DEF QueuedAt
  <2>4. Lists(queue'[l], QueuedAt(l) \cup {m})
    <3>1. queue[l] \in Seq(Message) /\ Lists(queue[l], QueuedAt(l)) /\ m \notin QueuedAt(l)
      BY <1>1 DEF Types, Fronts, Backlog, QueuedAt
    <3> DEFINE q == queue[l]
               S == QueuedAt(l)
    <3>2. q \in Seq(Message) /\ Lists(q, S) /\ m \notin S
      BY <3>1
    <3> HIDE DEF q, S
    <3>3. Lists(Append(q, m), S \cup {m})
      BY <3>2, ListsAppend
    <3> QED BY <3>3, <2>2, <1>1 DEF q, S
  <2>5. Backlog'
    <3> SUFFICES ASSUME NEW k \in Lane PROVE Lists(queue'[k], QueuedAt(k)')
      BY DEF Backlog
    <3>1. CASE k = l
      BY <3>1, <2>3, <2>4
    <3>2. CASE k # l
      BY <3>2, <2>2, <2>3 DEF Fronts, Backlog
    <3> QED BY <3>1, <3>2
  <2>6. FrontIsCur'
    BY <2>1, <2>2 DEF Fronts, FrontIsCur, AtFront, Held
  <2>7. CurIsFront'
    BY <2>1, <2>2 DEF Fronts, CurIsFront, AtFront, Held, Types
  <2>8. NoIdleBacklog'
    BY <1>4, <2>1, <2>2 DEF Fronts, NoIdleBacklog
  <2>9. queue' \in [Lane -> Seq(Message)]
    BY <1>1, <2>1, AppendProperties DEF Types
  <2> QED BY <2>1, <2>2, <2>5, <2>6, <2>7, <2>8, <2>9 DEF Fronts, Laned, Types
<1> QED BY <1>3, <1>4

\* drain: the message at the front ends, the next queued one takes its place, and the
\* others move on.
LEMMA FrontsAdvance ==
  ASSUME Types, Fronts, NEW m \in Message, pc[m] \in AtFront,
         Advances(laneOf[m]), UNCHANGED laneOf, pc'[m] \in Ended,
         queue[laneOf[m]] # <<>> => pc'[Head(queue[laneOf[m]])] = "front",
         \A x \in Message : x = m \/ (queue[laneOf[m]] # <<>> /\ x = Head(queue[laneOf[m]]))
                               \/ Apace(x)
  PROVE  Fronts' /\ queue' \in [Lane -> Seq(Message)] /\ cur' \in [Lane -> Message \cup {None}]
<1> USE TurnLanesAssumption
<1> DEFINE l == laneOf[m]
           q == queue[l]
<1>1. l \in Lane /\ cur[l] = m /\ q \in Seq(Message) /\ Lists(q, QueuedAt(l))
  BY DEF Fronts, Laned, FrontIsCur, Types, Backlog, AtFront, Held
<1>2. \A x \in Message : Apace(x) => /\ pc'[x] = "queued" <=> pc[x] = "queued"
                                     /\ pc'[x] \in AtFront <=> pc[x] \in AtFront
                                     /\ pc'[x] # "new" => pc[x] # "new"
  BY DEF Apace, AtFront, Held, Ended
<1>3. \A x \in Message : pc[x] \in AtFront /\ laneOf[x] = l => x = m
  BY <1>1 DEF Fronts, FrontIsCur
<1>4. pc'[m] \notin AtFront /\ pc'[m] # "queued" /\ pc'[m] # "new"
  BY DEF Ended, AtFront, Held
<1>5. CASE q = <<>>
  <2>1. cur' = [cur EXCEPT ![l] = None] /\ queue' = queue
    BY <1>5 DEF Advances
  <2>2. \A k \in Lane : cur'[k] = IF k = l THEN None ELSE cur[k]
    BY <2>1 DEF Types
  <2>3. \A x \in Message : x = m \/ Apace(x)
    BY <1>5
  <2>4. \A k \in Lane : QueuedAt(k)' = QueuedAt(k)
    BY <1>2, <1>4, <2>3 DEF QueuedAt, AtFront, Held
  <2>5. Backlog'
    BY <2>1, <2>4 DEF Fronts, Backlog
  <2>6. FrontIsCur'
    BY <1>2, <1>3, <1>4, <2>2, <2>3 DEF Fronts, Laned, FrontIsCur, AtFront, Held
  <2>7. CurIsFront'
    BY <1>2, <1>1, <2>2, <2>3 DEF Fronts, CurIsFront, Types
  <2>8. NoIdleBacklog'
    BY <1>5, <2>1, <2>2 DEF Fronts, NoIdleBacklog
  <2>9. Laned'
    BY <1>2, <2>3, <1>1 DEF Fronts, Laned
  <2> QED BY <2>1, <2>5, <2>6, <2>7, <2>8, <2>9 DEF Fronts, Types
<1>6. CASE q # <<>>
  <2> DEFINE h == Head(q)
             S == QueuedAt(l)
  <2>1. cur' = [cur EXCEPT ![l] = h] /\ queue' = [queue EXCEPT ![l] = Tail(q)]
    BY <1>6 DEF Advances
  <2>2. h \in S /\ Lists(Tail(q), S \ {h}) /\ Tail(q) \in Seq(Message)
    <3>1. q \in Seq(Message) /\ Lists(q, S)
      BY <1>1
    <3> HIDE DEF q, S
    <3> QED BY <3>1, <1>6, ListsTail, HeadTailProperties
  <2>3. h \in Message /\ pc[h] = "queued" /\ laneOf[h] = l /\ h # m /\ h # None
    BY <2>2 DEF QueuedAt, AtFront, Held
  <2>4. pc'[h] = "front"
    BY <1>6
  <2>5. \A x \in Message : x = m \/ x = h \/ Apace(x)
    OBVIOUS
  <2> HIDE DEF h, q
  <2>6. /\ \A k \in Lane : cur'[k] = IF k = l THEN h ELSE cur[k]
        /\ \A k \in Lane : queue'[k] = IF k = l THEN Tail(q) ELSE queue[k]
    BY <2>1, <2>2, <2>3 DEF Types
  <2>7. \A k \in Lane : QueuedAt(k)' = IF k = l THEN S \ {h} ELSE QueuedAt(k)
    <3> SUFFICES ASSUME NEW k \in Lane, NEW x \in Message
                 PROVE  (pc'[x] = "queued" /\ laneOf'[x] = k)
                          <=> (pc[x] = "queued" /\ laneOf[x] = k /\ (k = l => x # h))
      BY DEF QueuedAt
    <3> QED BY <1>2, <1>4, <2>3, <2>4, <2>5 DEF AtFront, Held
  <2>8. Backlog'
    <3> SUFFICES ASSUME NEW k \in Lane PROVE Lists(queue'[k], QueuedAt(k)')
      BY DEF Backlog
    <3>1. CASE k = l
      BY <3>1, <2>2, <2>6, <2>7
    <3>2. CASE k # l
      BY <3>2, <2>6, <2>7 DEF Fronts, Backlog
    <3> QED BY <3>1, <3>2
  <2>9. FrontIsCur'
    BY <1>2, <1>3, <1>4, <2>3, <2>4, <2>5, <2>6, <1>1 DEF Fronts, Laned, FrontIsCur, AtFront, Held
  <2>10. CurIsFront'
    <3> SUFFICES ASSUME NEW k \in Lane, cur'[k] # None
                 PROVE  laneOf[cur'[k]] = k /\ pc'[cur'[k]] \in AtFront
      BY DEF CurIsFront
    <3>1. CASE k = l
      BY <3>1, <2>3, <2>4, <2>6 DEF AtFront
    <3>2. CASE k # l
      <4>1. cur'[k] = cur[k] /\ laneOf[cur[k]] = k /\ pc[cur[k]] \in AtFront /\ cur[k] \in Message
        BY <3>2, <2>6 DEF Fronts, CurIsFront, Types
      <4>2. cur[k] # m /\ cur[k] # h
        BY <4>1, <3>2, <2>3
      <4> QED BY <4>1, <4>2, <1>2, <2>5
    <3> QED BY <3>1, <3>2
  <2>11. NoIdleBacklog'
    BY <2>3, <2>6 DEF Fronts, NoIdleBacklog
  <2>12. Laned'
    BY <1>1, <1>2, <2>3, <2>5 DEF Fronts, Laned
  <2>13. queue' \in [Lane -> Seq(Message)] /\ cur' \in [Lane -> Message \cup {None}]
    BY <2>1, <2>2, <2>3, <1>1 DEF Types
  <2> QED BY <2>8, <2>9, <2>10, <2>11, <2>12, <2>13 DEF Fronts
<1> QED BY <1>5, <1>6

\* lane.abort: the backlog is dropped; the running task, if it waited, is leaving.
LEMMA FrontsStop ==
  ASSUME Types, Fronts, NEW l \in Lane, queue' = [queue EXCEPT ![l] = <<>>],
         UNCHANGED <<cur, laneOf>>,
         pc' = [m \in Message |->
                  IF m \in ToSet(queue[l]) THEN "dropped"
                  ELSE IF m = cur[l] /\ pc[m] = "waiting" THEN "leaving" ELSE pc[m]]
  PROVE  Fronts' /\ queue' \in [Lane -> Seq(Message)]
<1>1. ToSet(queue[l]) = QueuedAt(l)
  <2> DEFINE q == queue[l]
             S == QueuedAt(l)
  <2>1. q \in Seq(Message) /\ Lists(q, S)
    BY DEF Types, Fronts, Backlog
  <2> HIDE DEF q, S
  <2>2. ToSet(q) = S
    BY <2>1, ListsCount
  <2> QED BY <2>2 DEF q, S
<1>2. \A m \in Message :
        \/ pc[m] = "queued" /\ laneOf[m] = l /\ pc'[m] = "dropped"
        \/ pc[m] = "waiting" /\ pc'[m] = "leaving"
        \/ ~ (pc[m] = "queued" /\ laneOf[m] = l) /\ pc'[m] = pc[m]
  BY <1>1 DEF QueuedAt
<1>3. \A m \in Message : /\ pc'[m] = "queued" <=> pc[m] = "queued" /\ laneOf[m] # l
                         /\ pc'[m] \in AtFront <=> pc[m] \in AtFront
                         /\ pc'[m] # "new" => pc[m] # "new"
  BY <1>2 DEF AtFront, Held
<1>4. \A k \in Lane : QueuedAt(k)' = IF k = l THEN {} ELSE QueuedAt(k)
  BY <1>3 DEF QueuedAt
<1>5. \A k \in Lane : queue'[k] = IF k = l THEN <<>> ELSE queue[k]
  BY DEF Types
<1>6. Backlog'
  <2> SUFFICES ASSUME NEW k \in Lane PROVE Lists(queue'[k], QueuedAt(k)')
    BY DEF Backlog
  <2>1. CASE k = l
    BY <2>1, <1>4, <1>5, ListsEmpty
  <2>2. CASE k # l
    BY <2>2, <1>4, <1>5 DEF Fronts, Backlog
  <2> QED BY <2>1, <2>2
<1>7. CurIsFront'
  BY <1>3 DEF Fronts, CurIsFront, Types
<1>8. queue' \in [Lane -> Seq(Message)]
  BY EmptySeq DEF Types
<1> QED BY <1>3, <1>5, <1>6, <1>7, <1>8 DEF Fronts, Laned, FrontIsCur, NoIdleBacklog

-----------------------------------------------------------------------------
(* What a step does to the lane map.                                       *)

\* A step that fetches no lane leaves a chat's live messages on its lane.
LEMMA HomeStays ==
  ASSUME Home, UNCHANGED <<lanes, laneOf, astray>>,
         \A m \in Message : pc'[m] \in Live => pc[m] \in Live
  PROVE  Home'
  BY DEF Home

\* A lane with a message at its front or behind it is not taken for idle.
LEMMA BusyNotIdle ==
  ASSUME Types, Fronts, NEW m \in Message, pc[m] \in {"queued"} \cup AtFront,
         NEW d \in Chat, lanes[d] = laneOf[m]
  PROVE  ~ Idle(d)
<1> USE TurnLanesAssumption
<1> DEFINE l == laneOf[m]
<1>1. l \in Lane /\ lanes[d] # None
  BY DEF Fronts, Laned, AtFront, Held
<1>2. CASE pc[m] \in AtFront
  <2>1. cur[l] # None /\ Len(queue[l]) \in Nat
    BY <1>1, <1>2, LenProperties DEF Fronts, FrontIsCur, Types
  <2> QED BY <1>1, <2>1 DEF Idle, LaneLength
<1>3. CASE pc[m] = "queued"
  <2>1. PICK i \in 1..Len(queue[l]) : queue[l][i] = m
    BY <1>1, <1>3 DEF Fronts, Backlog, Lists, QueuedAt
  <2>2. Len(queue[l]) \in Nat
    BY <1>1, LenProperties DEF Types
  <2>3. LaneLength(l) # 0
    <3> DEFINE n == Len(queue[l])
               k == IF cur[l] = None THEN 0 ELSE 1
    <3>1. LaneLength(l) = n + k
      BY DEF LaneLength
    <3>2. n \in Nat /\ n >= 1 /\ k \in {0, 1}
      BY <2>1, <2>2
    <3> HIDE DEF n, k
    <3> QED BY <3>1, <3>2
  <2> QED BY <1>1, <2>3 DEF Idle
<1> QED BY <1>2, <1>3

\* getOrCreateLane: eviction takes no lane with work in it, and a chat whose lane it
\* takes from under a message in its hook is astray from then on.
LEMMA FetchHome ==
  ASSUME Types, Fronts, Home, NEW c \in Chat, NEW l \in Lane, FetchesLane(c, l),
         \A m \in Message : pc'[m] \in Live =>
            \/ /\ pc[m] \in Live /\ laneOf'[m] = laneOf[m]
               /\ pc[m] = "hook" => pc'[m] = "hook"
            \/ pc'[m] = "hook" /\ ChatOf[m] = c /\ laneOf'[m] = l
  PROVE  /\ Home'
         /\ lanes' \in [Chat -> Lane \cup {None}] /\ older' \subseteq Chat \X Chat
         /\ astray' \subseteq Chat
<1> USE TurnLanesAssumption
<1>1. Touched(c) \subseteq Chat \X Chat
  BY DEF Touched, Mapped, Types
<1>2. CASE lanes[c] = l /\ older' = Touched(c) /\ UNCHANGED <<lanes, astray>>
  <2>1. Home'
    BY <1>2 DEF Home
  <2> QED BY <1>1, <1>2, <2>1 DEF Types
<1>3. CASE lanes[c] = None
  <2> DEFINE gone == Evicted(c)
             map == [lanes EXCEPT ![c] = l]
  <2>1. l # None
    OBVIOUS
  <2>2. /\ lanes' = [d \in Chat |-> IF d \in gone THEN None ELSE map[d]]
        /\ older' = {p \in Touched(c) : {p[1], p[2]} \cap gone = {}}
        /\ astray' = astray \cup {d \in gone :
                        \E m \in Message : laneOf'[m] = map[d] /\ pc'[m] = "hook"}
    BY <1>3, <2>1 DEF FetchesLane
  <2>3. gone \subseteq Chat /\ \A d \in gone : Idle(d)
    BY DEF Evicted, Mapped
  <2>4. \A d \in Chat : map[d] = IF d = c THEN l ELSE lanes[d]
    BY DEF Types
  <2> HIDE DEF gone, map
  <2>5. ASSUME NEW m \in Message, pc'[m] \in Live, ChatOf[m] \notin astray'
        PROVE  lanes'[ChatOf[m]] = laneOf'[m]
    <3> DEFINE d == ChatOf[m]
    <3>1. d \in Chat /\ d \notin astray
      BY <2>2, <2>5
    <3>2. map[d] = laneOf'[m]
      <4>1. CASE pc[m] \in Live /\ laneOf'[m] = laneOf[m]
        <5>1. lanes[d] = laneOf[m] /\ laneOf[m] \in Lane
          BY <4>1, <3>1 DEF Home, Fronts, Laned, Live, AtFront, Held
        <5> QED BY <5>1, <4>1, <3>1, <2>4, <1>3
      <4>2. CASE pc'[m] = "hook" /\ d = c /\ laneOf'[m] = l
        BY <4>2, <2>4
      <4> QED BY <4>1, <4>2, <2>5
    <3>3. d \notin gone
      <4>1. SUFFICES ASSUME d \in gone PROVE FALSE
        OBVIOUS
      <4>2. pc'[m] # "hook"
        BY <4>1, <3>2, <2>2, <2>5
      <4>3. pc[m] \in Live /\ laneOf'[m] = laneOf[m] /\ pc[m] # "hook"
        BY <4>2, <2>5
      <4>4. lanes[d] = laneOf[m]
        BY <4>3, <3>1 DEF Home
      <4>5. ~ Idle(d)
        BY <4>3, <4>4, <3>1, BusyNotIdle DEF Live
      <4> QED BY <4>1, <4>5, <2>3
    <3> QED BY <3>1, <3>2, <3>3, <2>2
  <2>6. Home'
    BY <2>5 DEF Home
  <2>7. lanes' \in [Chat -> Lane \cup {None}]
    BY <2>2, <2>4 DEF Types
  <2>8. older' \subseteq Chat \X Chat /\ astray' \subseteq Chat
    BY <1>1, <2>2, <2>3 DEF Types
  <2> QED BY <2>6, <2>7, <2>8
<1> QED BY <1>2, <1>3 DEF FetchesLane

-----------------------------------------------------------------------------
(* What a step does to the permits.                                        *)

\* A step at which nobody gains or loses a permit or a place in the line.
LEMMA PermitsStay ==
  ASSUME Permits, UNCHANGED permitVars,
         \A m \in Message : /\ pc'[m] \in Held <=> pc[m] \in Held
                            /\ pc'[m] = "waiting" <=> pc[m] = "waiting"
  PROVE  Permits'
<1>1. HeldSet' = HeldSet /\ WaitingSet' = WaitingSet
  BY DEF HeldSet, WaitingSet
<1> QED BY <1>1 DEF Permits, permitVars

\* The number of permits out is a natural number, so those left are in range.
LEMMA PermitsRange ==
  ASSUME Permits', permits' \in Nat
  PROVE  permits' \in 0..MaxPermits
<1>1. Cardinality(HeldSet') \in Nat
  BY FS_CardinalityType DEF Permits
<1> QED BY <1>1, TurnLanesAssumption DEF Permits

\* TurnSemaphore.acquire.
LEMMA PermitsAcquire ==
  ASSUME Types, Permits, NEW m \in Message, Acquire(m)
  PROVE  Permits' /\ permits' \in Nat /\ waiters' \in Seq(Message)
<1>1. pc[m] = "front" /\ permits \in Nat /\ waiters \in Seq(Message)
  BY DEF Acquire, Types
<1>2. CASE m \in aborted /\ pc' = [pc EXCEPT ![m] = "leaving"] /\ UNCHANGED permitVars
  <2>1. \A x \in Message : pc'[x] = IF x = m THEN "leaving" ELSE pc[x]
    BY <1>2 DEF Types
  <2>2. Permits'
    BY <1>1, <1>2, <2>1, PermitsStay DEF Held
  <2> QED BY <1>1, <1>2, <2>2 DEF permitVars
<1>3. CASE /\ permits > 0 /\ permits' = permits - 1
           /\ pc' = [pc EXCEPT ![m] = "granted"] /\ UNCHANGED waiters
  <2>1. \A x \in Message : pc'[x] = IF x = m THEN "granted" ELSE pc[x]
    BY <1>3 DEF Types
  <2>2. HeldSet' = HeldSet \cup {m} /\ m \notin HeldSet /\ WaitingSet' = WaitingSet
    BY <1>1, <2>1 DEF HeldSet, WaitingSet, Held
  <2>3. IsFiniteSet(HeldSet') /\ Cardinality(HeldSet') = Cardinality(HeldSet) + 1
    BY <2>2, FS_AddElement DEF Permits
  <2>4. Cardinality(HeldSet) \in Nat
    BY FS_CardinalityType DEF Permits
  <2> QED BY <1>1, <1>3, <2>2, <2>3, <2>4 DEF Permits
<1>4. CASE /\ permits = 0 /\ waiters' = Append(waiters, m)
           /\ pc' = [pc EXCEPT ![m] = "waiting"] /\ UNCHANGED permits
  <2>1. \A x \in Message : pc'[x] = IF x = m THEN "waiting" ELSE pc[x]
    BY <1>4 DEF Types
  <2>2. HeldSet' = HeldSet /\ m \notin WaitingSet /\ WaitingSet' = WaitingSet \cup {m}
    BY <1>1, <2>1 DEF HeldSet, WaitingSet, Held
  <2>3. waiters' \in Seq(Message) /\ Lists(waiters', WaitingSet \cup {m})
    <3> DEFINE S == WaitingSet
    <3>1. Lists(waiters, S) /\ m \notin S
      BY <2>2 DEF Permits
    <3> HIDE DEF S
    <3>2. Lists(Append(waiters, m), S \cup {m}) /\ Append(waiters, m) \in Seq(Message)
      BY <1>1, <3>1, ListsAppend, AppendProperties
    <3> QED BY <1>4, <3>2 DEF S
  <2> QED BY <1>1, <1>4, <2>2, <2>3 DEF Permits
<1> QED BY <1>2, <1>3, <1>4 DEF Acquire, permitVars

\* TurnSemaphore.release, as a turn ends: the permit goes to the first waiter, or back
\* to the pool.
LEMMA PermitsEndTurn ==
  ASSUME Types, Fronts, Permits, NEW m \in Message, EndTurn(m)
  PROVE  Permits' /\ permits' \in Nat /\ waiters' \in Seq(Message)
<1> USE TurnLanesAssumption
<1> DEFINE l == laneOf[m]
           ends == EndsAs(m, l, "over")
<1>1. /\ pc[m] \in {"running", "tail"} /\ HandsPermitOn /\ pc' = Granted(ends)
      /\ permits \in Nat /\ waiters \in Seq(Message) /\ l \in Lane /\ m \in HeldSet
  BY DEF EndTurn, Types, Fronts, Laned, HeldSet, Held
<1>2. ends \in [Message -> Stages]
  BY DEF EndsAs, Types, Stages, AtFront, Ended
<1>3. ends[m] = "over"
  BY DEF EndsAs
<1>4. ASSUME NEW x \in Message, x # m
      PROVE  ends[x] = pc[x] \/ (pc[x] = "queued" /\ ends[x] = "front")
  <2>1. CASE queue[l] # <<>> /\ x = Head(queue[l])
    <3> DEFINE q == queue[l]
               S == QueuedAt(l)
    <3>1. q \in Seq(Message) /\ Lists(q, S) /\ q # <<>>
      BY <1>1, <2>1 DEF Types, Fronts, Backlog
    <3> HIDE DEF q, S
    <3>2. Head(q) \in S
      BY <3>1, ListsTail
    <3>3. pc[x] = "queued"
      BY <2>1, <3>2 DEF q, S, QueuedAt
    <3> QED BY <1>4, <2>1, <3>3 DEF EndsAs
  <2>2. CASE ~ (queue[l] # <<>> /\ x = Head(queue[l]))
    BY <1>4, <2>2 DEF EndsAs
  <2> QED BY <2>1, <2>2
<1> HIDE DEF ends
<1>5. IsFiniteSet(HeldSet) /\ Cardinality(HeldSet) \in Nat
  BY FS_CardinalityType DEF Permits
<1>6. /\ IsFiniteSet(HeldSet \ {m}) /\ m \in HeldSet
      /\ Cardinality(HeldSet \ {m}) = Cardinality(HeldSet) - 1
  BY <1>1, <1>5, FS_RemoveElement
<1>7. CASE waiters = <<>>
  <2>1. permits' = permits + 1 /\ waiters' = waiters /\ pc' = ends
    BY <1>1, <1>7 DEF HandsPermitOn, Granted
  <2>2. HeldSet' = HeldSet \ {m}
    BY <1>3, <1>4, <2>1 DEF HeldSet, Held
  <2>3. WaitingSet' = WaitingSet
    BY <1>1, <1>3, <1>4, <2>1 DEF WaitingSet
  <2> QED BY <1>1, <1>5, <1>6, <1>7, <2>1, <2>2, <2>3 DEF Permits
<1>8. CASE waiters # <<>>
  <2> DEFINE w == Head(waiters)
             S == WaitingSet
  <2>1. permits' = permits /\ waiters' = Tail(waiters)
    BY <1>1, <1>8 DEF HandsPermitOn
  <2>2. w \in S /\ Lists(waiters', S \ {w}) /\ waiters' \in Seq(Message) /\ waiters' # waiters
    <3>1. Lists(waiters, S)
      BY DEF Permits
    <3> HIDE DEF S
    <3>2. Len(Tail(waiters)) = Len(waiters) - 1 /\ Len(waiters) \in Nat
      BY <1>1, <1>8, HeadTailProperties, LenProperties
    <3>3. w \in S /\ Lists(Tail(waiters), S \ {w})
      BY <1>1, <1>8, <3>1, ListsTail
    <3>4. Tail(waiters) \in Seq(Message) /\ Tail(waiters) # waiters
      <4>1. Tail(waiters) \in Seq(Message)
        BY <1>1, <1>8, HeadTailProperties
      <4>2. Len(Tail(waiters)) # Len(waiters)
        <5> DEFINE n == Len(waiters)
                   t == Len(Tail(waiters))
        <5>1. t = n - 1 /\ n \in Nat
          BY <3>2
        <5> HIDE DEF n, t
        <5>2. t # n
          BY <5>1
        <5> QED BY <5>2 DEF n, t
      <4> QED BY <4>1, <4>2
    <3> QED BY <2>1, <3>3, <3>4
  <2>3. w \in Message /\ pc[w] = "waiting" /\ w # m
    BY <1>1, <2>2 DEF WaitingSet
  <2>4. pc' = [ends EXCEPT ![w] = "granted"]
    BY <1>1, <1>8, <2>2 DEF Granted
  <2> HIDE DEF w
  <2>5. \A x \in Message : pc'[x] = IF x = w THEN "granted" ELSE ends[x]
    BY <1>2, <2>4
  <2>6. HeldSet' = (HeldSet \ {m}) \cup {w} /\ w \notin HeldSet \ {m}
    BY <1>3, <1>4, <2>3, <2>5 DEF HeldSet, Held
  <2>7. WaitingSet' = S \ {w}
    BY <1>1, <1>3, <1>4, <2>3, <2>5 DEF WaitingSet
  <2>8. IsFiniteSet(HeldSet') /\ Cardinality(HeldSet') = Cardinality(HeldSet)
    BY <1>5, <1>6, <2>6, FS_AddElement
  <2>9. permits = 0
    BY <1>1, <1>8 DEF Permits
  <2> QED BY <1>1, <2>1, <2>2, <2>7, <2>8, <2>9 DEF Permits
<1> QED BY <1>7, <1>8

\* onAbort: an aborted waiter leaves the line and holds no permit.
LEMMA PermitsStop ==
  ASSUME Types, Fronts, Permits, NEW l \in Lane, RemovesWaiter(l), UNCHANGED permits,
         pc' = [m \in Message |->
                  IF m \in ToSet(queue[l]) THEN "dropped"
                  ELSE IF m = cur[l] /\ pc[m] = "waiting" THEN "leaving" ELSE pc[m]]
  PROVE  Permits' /\ waiters' \in Seq(Message)
<1>1. ToSet(queue[l]) = QueuedAt(l)
  <2> DEFINE q == queue[l]
             S == QueuedAt(l)
  <2>1. q \in Seq(Message) /\ Lists(q, S)
    BY DEF Types, Fronts, Backlog
  <2> HIDE DEF q, S
  <2>2. ToSet(q) = S
    BY <2>1, ListsCount
  <2> QED BY <2>2 DEF q, S
<1>2. waiters \in Seq(Message) /\ Lists(waiters, WaitingSet) /\ permits \in Nat
  BY DEF Types, Permits
<1>3. ToSet(waiters) = WaitingSet /\ DOMAIN waiters = 1..Len(waiters)
  <2> DEFINE S == WaitingSet
  <2>1. waiters \in Seq(Message) /\ Lists(waiters, S)
    BY <1>2
  <2> HIDE DEF S
  <2>2. ToSet(waiters) = S /\ DOMAIN waiters = 1..Len(waiters)
    BY <2>1, ListsCount, LenProperties
  <2> QED BY <2>2 DEF S
<1>4. /\ HeldSet' = HeldSet
      /\ WaitingSet' = WaitingSet \ {cur[l]}
  BY <1>1 DEF HeldSet, WaitingSet, QueuedAt, Held
<1>5. CASE cur[l] \notin ToSet(waiters) /\ UNCHANGED waiters
  <2>1. WaitingSet' = WaitingSet
    BY <1>3, <1>4, <1>5
  <2> QED BY <1>2, <1>4, <1>5, <2>1 DEF Permits
<1>6. ASSUME NEW i \in DOMAIN waiters, waiters[i] = cur[l], waiters' = RemoveAt(waiters, i)
      PROVE  Permits' /\ waiters' \in Seq(Message)
  <2>1. waiters' \in Seq(Message) /\ Lists(waiters', WaitingSet \ {cur[l]})
    <3> DEFINE S == WaitingSet
    <3>1. Lists(waiters, S) /\ i \in 1..Len(waiters)
      BY <1>2, <1>3, <1>6
    <3> HIDE DEF S
    <3>2. RemoveAt(waiters, i) \in Seq(Message) /\ Lists(RemoveAt(waiters, i), S \ {waiters[i]})
      BY <1>2, <3>1, ListsRemoveAt
    <3> QED BY <1>6, <3>2 DEF S
  <2>2. permits = 0
    <3>1. waiters # <<>>
      BY <1>3, <1>6, EmptySeq
    <3> QED BY <1>2, <3>1 DEF Permits
  <2> QED BY <1>4, <2>1, <2>2 DEF Permits
<1> QED BY <1>5, <1>6 DEF RemovesWaiter

-----------------------------------------------------------------------------
(* Every step keeps the invariant.                                         *)

\* Arrive: the message is in its hook with the lane object it fetched.
LEMMA ArriveKeeps == ASSUME LaneInv, NEW m \in Message, Arrive(m) PROVE LaneInv'
<1> USE TurnLanesAssumption
<1>1. PICK l \in Lane : laneOf' = [laneOf EXCEPT ![m] = l] /\ FetchesLane(ChatOf[m], l)
  BY DEF Arrive
<1>2. /\ pc[m] = "new" /\ pc' = [pc EXCEPT ![m] = "hook"] /\ Types
      /\ UNCHANGED <<laneVars, aborted, permitVars, turnVars, stops>>
  BY DEF Arrive, LaneInv
<1>3. \A x \in Message : /\ pc'[x] = IF x = m THEN "hook" ELSE pc[x]
                         /\ laneOf'[x] = IF x = m THEN l ELSE laneOf[x]
  BY <1>1, <1>2 DEF Types
<1>4. Fronts'
  BY <1>1, <1>2, FrontsArrive DEF LaneInv
<1>5. \A x \in Message : pc'[x] \in Live =>
            \/ /\ pc[x] \in Live /\ laneOf'[x] = laneOf[x]
               /\ pc[x] = "hook" => pc'[x] = "hook"
            \/ pc'[x] = "hook" /\ ChatOf[x] = ChatOf[m] /\ laneOf'[x] = l
  BY <1>3
<1>6. /\ Home' /\ lanes' \in [Chat -> Lane \cup {None}] /\ older' \subseteq Chat \X Chat
      /\ astray' \subseteq Chat
  <2> DEFINE c == ChatOf[m]
  <2>1. /\ c \in Chat /\ FetchesLane(c, l)
        /\ \A x \in Message : pc'[x] \in Live =>
            \/ /\ pc[x] \in Live /\ laneOf'[x] = laneOf[x]
               /\ pc[x] = "hook" => pc'[x] = "hook"
            \/ pc'[x] = "hook" /\ ChatOf[x] = c /\ laneOf'[x] = l
    BY <1>1, <1>5
  <2> HIDE DEF c
  <2> QED BY <2>1, FetchHome DEF LaneInv
<1>7. Permits'
  <2>1. \A x \in Message : /\ pc'[x] \in Held <=> pc[x] \in Held
                           /\ pc'[x] = "waiting" <=> pc[x] = "waiting"
    BY <1>2, <1>3 DEF Held
  <2> QED BY <1>2, <2>1, PermitsStay DEF LaneInv
<1>8. Types'
  BY <1>1, <1>2, <1>6 DEF Types, Stages, laneVars, permitVars, turnVars
<1> QED BY <1>4, <1>6, <1>7, <1>8 DEF LaneInv

\* A message that moves on without a change to lanes, map or permits.
LEMMA MoveKeeps ==
  ASSUME LaneInv, NEW m \in Message, NEW stage \in Stages, pc' = [pc EXCEPT ![m] = stage],
         \/ pc[m] = "hook" /\ stage \in Ended
         \/ pc[m] \in AtFront /\ stage \in AtFront /\ pc[m] # "waiting" /\ stage # "waiting"
            /\ (pc[m] \in Held <=> stage \in Held),
         UNCHANGED <<mapVars, laneVars, laneOf, aborted, permitVars, astray, stops>>,
         {sink', active'} \subseteq [Chat -> Message \cup {None}]
  PROVE  LaneInv'
<1>1. \A x \in Message : pc'[x] = IF x = m THEN stage ELSE pc[x]
  BY DEF LaneInv, Types
<1>2. Fronts'
  <2>1. \A x \in Message : Apace(x)
    BY <1>1 DEF Apace
  <2> QED BY <2>1, FrontsStay DEF LaneInv
<1>3. Home'
  <2>1. \A x \in Message : pc'[x] \in Live => pc[x] \in Live
    BY <1>1 DEF Live
  <2> QED BY <2>1, HomeStays DEF LaneInv, mapVars
<1>4. Permits'
  <2>1. \A x \in Message : /\ pc'[x] \in Held <=> pc[x] \in Held
                           /\ pc'[x] = "waiting" <=> pc[x] = "waiting"
    BY <1>1 DEF Held, Ended
  <2> QED BY <2>1, PermitsStay DEF LaneInv
<1>5. Types'
  BY DEF LaneInv, Types, mapVars, laneVars, permitVars
<1> QED BY <1>2, <1>3, <1>4, <1>5 DEF LaneInv

\* Steer and Offer, when they hand the message to the lane.
LEMMA EnqueueKeeps ==
  ASSUME LaneInv, NEW m \in Message, pc[m] = "hook", Enqueue(m),
         UNCHANGED <<mapVars, laneOf, aborted, permitVars, turnVars, astray, stops>>
  PROVE  LaneInv'
<1>1. Fronts' /\ queue' \in [Lane -> Seq(Message)] /\ cur' \in [Lane -> Message \cup {None}]
  BY FrontsEnqueue DEF LaneInv
<1>2. PICK stage \in {"front", "queued"} : pc' = [pc EXCEPT ![m] = stage]
  BY DEF Enqueue
<1>3. \A x \in Message : pc'[x] = IF x = m THEN stage ELSE pc[x]
  BY <1>2 DEF LaneInv, Types
<1>4. Home'
  <2>1. \A x \in Message : pc'[x] \in Live => pc[x] \in Live
    BY <1>3 DEF Live
  <2> QED BY <2>1, HomeStays DEF LaneInv, mapVars
<1>5. Permits'
  <2>1. \A x \in Message : /\ pc'[x] \in Held <=> pc[x] \in Held
                           /\ pc'[x] = "waiting" <=> pc[x] = "waiting"
    BY <1>3 DEF Held
  <2> QED BY <2>1, PermitsStay DEF LaneInv
<1>6. Types'
  BY <1>1, <1>2 DEF LaneInv, Types, Stages, AtFront, mapVars, permitVars, turnVars
<1> QED BY <1>1, <1>4, <1>5, <1>6 DEF LaneInv

\* Acquire: a permit, a place in the line, or neither for an aborted task.
LEMMA AcquireKeeps == ASSUME LaneInv, NEW m \in Message, Acquire(m) PROVE LaneInv'
<1>1. /\ pc[m] = "front"
      /\ UNCHANGED <<mapVars, laneVars, laneOf, aborted, turnVars, astray, stops>>
  BY DEF Acquire
<1>2. PICK stage \in {"leaving", "granted", "waiting"} : pc' = [pc EXCEPT ![m] = stage]
  BY DEF Acquire
<1>3. \A x \in Message : pc'[x] = IF x = m THEN stage ELSE pc[x]
  BY <1>2 DEF LaneInv, Types
<1>4. Fronts'
  <2>1. \A x \in Message : Apace(x)
    BY <1>1, <1>3 DEF Apace, AtFront, Held
  <2> QED BY <1>1, <2>1, FrontsStay DEF LaneInv
<1>5. Home'
  <2>1. \A x \in Message : pc'[x] \in Live => pc[x] \in Live
    BY <1>1, <1>3 DEF Live, AtFront
  <2> QED BY <1>1, <2>1, HomeStays DEF LaneInv, mapVars
<1>6. Permits' /\ permits' \in Nat /\ waiters' \in Seq(Message)
  BY PermitsAcquire DEF LaneInv
<1>7. permits' \in 0..MaxPermits
  BY <1>6, PermitsRange
<1>8. Types'
  BY <1>1, <1>2, <1>6, <1>7 DEF LaneInv, Types, Stages, AtFront, Held, mapVars, laneVars, turnVars
<1> QED BY <1>4, <1>5, <1>6, <1>8 DEF LaneInv

\* The stages after a task ends: its own, its successor's, and the others' as they were.
LEMMA EndsAsStages ==
  ASSUME LaneInv, NEW m \in Message, pc[m] \in AtFront, NEW end \in Ended
  PROVE  LET l == laneOf[m]
             ends == EndsAs(m, l, end) IN
         /\ ends \in [Message -> Stages] /\ ends[m] = end
         /\ queue[l] # <<>> => /\ Head(queue[l]) \in Message /\ Head(queue[l]) # m
                               /\ pc[Head(queue[l])] = "queued" /\ ends[Head(queue[l])] = "front"
         /\ \A x \in Message : x = m \/ (queue[l] # <<>> /\ x = Head(queue[l])) \/ ends[x] = pc[x]
<1> DEFINE l == laneOf[m]
           q == queue[l]
           S == QueuedAt(l)
           ends == EndsAs(m, l, end)
<1>1. q \in Seq(Message) /\ Lists(q, S)
  BY DEF LaneInv, Types, Fronts, Laned, Backlog, AtFront, Held
<1>2. ASSUME q # <<>> PROVE Head(q) \in S
  <2> HIDE DEF q, S
  <2> QED BY <1>1, <1>2, ListsTail
<1>3. q # <<>> => Head(q) \in Message /\ Head(q) # m /\ pc[Head(q)] = "queued"
  BY <1>2 DEF QueuedAt, AtFront, Held
<1>4. \A x \in Message : ends[x] = IF x = m THEN end
                                   ELSE IF q # <<>> /\ x = Head(q) THEN "front" ELSE pc[x]
  BY DEF EndsAs
<1>5. ends \in [Message -> Stages]
  BY DEF EndsAs, LaneInv, Types, Stages, AtFront
<1> HIDE DEF q, ends
<1>6. /\ ends \in [Message -> Stages] /\ ends[m] = end
      /\ q # <<>> => /\ Head(q) \in Message /\ Head(q) # m
                     /\ pc[Head(q)] = "queued" /\ ends[Head(q)] = "front"
      /\ \A x \in Message : x = m \/ (q # <<>> /\ x = Head(q)) \/ ends[x] = pc[x]
  BY <1>3, <1>4, <1>5
<1> QED BY <1>6 DEF q, ends

\* LeaveLane: the task without a permit ends, and the lane goes on.
LEMMA LeaveLaneKeeps == ASSUME LaneInv, NEW m \in Message, LeaveLane(m) PROVE LaneInv'
<1> DEFINE q == queue[laneOf[m]]
<1>1. /\ pc[m] = "leaving" /\ Advances(laneOf[m]) /\ pc' = EndsAs(m, laneOf[m], "refused")
      /\ UNCHANGED <<mapVars, laneOf, aborted, permitVars, turnVars, astray, stops>>
  BY DEF LeaveLane
<1>2. pc[m] \in AtFront /\ "refused" \in Ended
  BY <1>1 DEF AtFront, Ended
<1>3. /\ pc' \in [Message -> Stages] /\ pc'[m] = "refused"
      /\ q # <<>> => /\ Head(q) \in Message /\ Head(q) # m
                     /\ pc[Head(q)] = "queued" /\ pc'[Head(q)] = "front"
      /\ \A x \in Message : x = m \/ (q # <<>> /\ x = Head(q)) \/ pc'[x] = pc[x]
  BY <1>1, <1>2, EndsAsStages
<1>4. Fronts' /\ queue' \in [Lane -> Seq(Message)] /\ cur' \in [Lane -> Message \cup {None}]
  <2>1. \A x \in Message : x = m \/ (q # <<>> /\ x = Head(q)) \/ Apace(x)
    BY <1>3 DEF Apace
  <2> QED BY <1>1, <1>2, <1>3, <2>1, FrontsAdvance DEF LaneInv
<1> HIDE DEF q
<1>5. Home'
  <2>1. \A x \in Message : pc'[x] \in Live => pc[x] \in Live
    BY <1>2, <1>3 DEF Live
  <2> QED BY <1>1, <2>1, HomeStays DEF LaneInv, mapVars
<1>6. Permits'
  <2>1. \A x \in Message : /\ pc'[x] \in Held <=> pc[x] \in Held
                           /\ pc'[x] = "waiting" <=> pc[x] = "waiting"
    BY <1>1, <1>3 DEF Held
  <2> QED BY <1>1, <2>1, PermitsStay DEF LaneInv
<1>7. Types'
  BY <1>1, <1>3, <1>4 DEF LaneInv, Types, mapVars, permitVars, turnVars
<1> QED BY <1>4, <1>5, <1>6, <1>7 DEF LaneInv

\* EndTurn: the turn ends, its permit goes on, and so does its lane.
LEMMA EndTurnKeeps == ASSUME LaneInv, NEW m \in Message, EndTurn(m) PROVE LaneInv'
<1> USE TurnLanesAssumption
<1> DEFINE q == queue[laneOf[m]]
           ends == EndsAs(m, laneOf[m], "over")
<1>1. /\ pc[m] \in {"running", "tail"} /\ Advances(laneOf[m]) /\ pc' = Granted(ends)
      /\ HandsPermitOn
      /\ sink' = [sink EXCEPT ![ChatOf[m]] = None] /\ active' = [active EXCEPT ![ChatOf[m]] = None]
      /\ UNCHANGED <<mapVars, laneOf, aborted, astray, stops>>
  BY DEF EndTurn
<1>2. pc[m] \in AtFront /\ "over" \in Ended
  BY <1>1 DEF AtFront, Held, Ended
<1>3. /\ ends \in [Message -> Stages] /\ ends[m] = "over"
      /\ q # <<>> => /\ Head(q) \in Message /\ Head(q) # m
                     /\ pc[Head(q)] = "queued" /\ ends[Head(q)] = "front"
      /\ \A x \in Message : x = m \/ (q # <<>> /\ x = Head(q)) \/ ends[x] = pc[x]
  BY <1>2, EndsAsStages
<1> HIDE DEF q, ends
<1>4. waiters # <<>> => Head(waiters) \in Message /\ pc[Head(waiters)] = "waiting"
  <2> DEFINE S == WaitingSet
  <2>1. waiters \in Seq(Message) /\ Lists(waiters, S)
    BY DEF LaneInv, Types, Permits
  <2> HIDE DEF S
  <2>2. waiters # <<>> => Head(waiters) \in S
    BY <2>1, ListsTail
  <2> QED BY <2>2 DEF S, WaitingSet
<1>5. \/ pc' = ends
      \/ waiters # <<>> /\ pc' = [ends EXCEPT ![Head(waiters)] = "granted"]
  BY <1>1 DEF Granted
<1>6. /\ pc' \in [Message -> Stages]
      /\ pc'[m] = "over"
      /\ q # <<>> => pc'[Head(q)] = "front"
      /\ \A x \in Message : \/ x = m
                            \/ q # <<>> /\ x = Head(q)
                            \/ pc'[x] = pc[x]
                            \/ pc[x] = "waiting" /\ pc'[x] = "granted"
  <2>1. CASE pc' = ends
    BY <1>3, <2>1
  <2>2. CASE waiters # <<>> /\ pc' = [ends EXCEPT ![Head(waiters)] = "granted"]
    <3> DEFINE w == Head(waiters)
    <3>1. w \in Message /\ pc[w] = "waiting" /\ w # m /\ (q # <<>> => w # Head(q))
      BY <1>1, <1>3, <1>4, <2>2
    <3> HIDE DEF w
    <3>2. "granted" \in Stages /\ pc' = [ends EXCEPT ![w] = "granted"]
      BY <2>2 DEF Stages, AtFront, Held, w
    <3>3. pc' \in [Message -> Stages] /\ \A x \in Message : pc'[x] = IF x = w THEN "granted" ELSE ends[x]
      BY <1>3, <3>2
    <3> QED BY <1>3, <3>1, <3>3
  <2> QED BY <1>5, <2>1, <2>2
<1>7. Fronts' /\ queue' \in [Lane -> Seq(Message)] /\ cur' \in [Lane -> Message \cup {None}]
  <2>1. \A x \in Message : x = m \/ (q # <<>> /\ x = Head(q)) \/ Apace(x)
    BY <1>6 DEF Apace, AtFront, Held
  <2>2. pc'[m] \in Ended /\ (q # <<>> => pc'[Head(q)] = "front")
    BY <1>2, <1>6
  <2> QED BY <1>1, <1>2, <2>1, <2>2, FrontsAdvance DEF LaneInv, q
<1>8. Home'
  <2>1. \A x \in Message : pc'[x] \in Live => pc[x] \in Live
    BY <1>2, <1>3, <1>6 DEF Live, AtFront
  <2> QED BY <1>1, <2>1, HomeStays DEF LaneInv, mapVars
<1>9. Permits' /\ permits' \in Nat /\ waiters' \in Seq(Message)
  BY PermitsEndTurn DEF LaneInv
<1>10. permits' \in 0..MaxPermits
  BY <1>9, PermitsRange
<1>11. {sink', active'} \subseteq [Chat -> Message \cup {None}]
  BY <1>1 DEF LaneInv, Types
<1>12. Types'
  BY <1>1, <1>6, <1>7, <1>9, <1>10, <1>11 DEF LaneInv, Types, mapVars
<1> QED BY <1>7, <1>8, <1>9, <1>12 DEF LaneInv

\* /stop.
LEMMA StopKeeps == ASSUME LaneInv, NEW c \in Chat, Stop(c) PROVE LaneInv'
<1> USE TurnLanesAssumption
<1>1. PICK l \in Lane :
        /\ aborted' = IF cur[l] = None THEN aborted ELSE aborted \cup {cur[l]}
        /\ RemovesWaiter(l)
        /\ pc' = [m \in Message |->
                    IF m \in ToSet(queue[l]) THEN "dropped"
                    ELSE IF m = cur[l] /\ pc[m] = "waiting" THEN "leaving" ELSE pc[m]]
        /\ queue' = [queue EXCEPT ![l] = <<>>]
        /\ UNCHANGED laneOf /\ FetchesLane(c, l)
  BY DEF Stop
<1>2. /\ stops < MaxStops /\ stops' = stops + 1 /\ UNCHANGED <<cur, permits, turnVars>>
      /\ Types
  BY DEF Stop, LaneInv
<1>3. Fronts' /\ queue' \in [Lane -> Seq(Message)]
  BY <1>1, <1>2, FrontsStop DEF LaneInv
<1>4. Permits' /\ waiters' \in Seq(Message)
  BY <1>1, <1>2, PermitsStop DEF LaneInv
<1>5. \A m \in Message : \/ pc'[m] = "dropped"
                         \/ pc[m] = "waiting" /\ pc'[m] = "leaving"
                         \/ pc'[m] = pc[m]
  BY <1>1
<1>6. /\ Home' /\ lanes' \in [Chat -> Lane \cup {None}] /\ older' \subseteq Chat \X Chat
      /\ astray' \subseteq Chat
  <2>1. \A m \in Message : pc'[m] \in Live =>
          pc[m] \in Live /\ laneOf'[m] = laneOf[m] /\ (pc[m] = "hook" => pc'[m] = "hook")
    BY <1>1, <1>5 DEF Live, AtFront, Held
  <2> QED BY <1>1, <2>1, FetchHome DEF LaneInv
<1>7. pc' \in [Message -> Stages]
  BY <1>1, <1>2 DEF Types, Stages, AtFront, Ended
<1>8. aborted' \subseteq Message
  BY <1>1, <1>2 DEF Types
<1>9. Types'
  BY <1>1, <1>2, <1>3, <1>4, <1>6, <1>7, <1>8 DEF Types, turnVars
<1> QED BY <1>3, <1>4, <1>6, <1>9 DEF LaneInv

\* Every step of Next keeps LaneInv.
LEMMA NextKeeps == LaneInv /\ [Next]_vars => LaneInv'
<1> USE TurnLanesAssumption
<1> SUFFICES ASSUME LaneInv, [Next]_vars PROVE LaneInv'
  OBVIOUS
<1>1. CASE UNCHANGED vars
  <2>1. /\ UNCHANGED <<lanes, older, queue, cur, pc, laneOf, aborted, permits, waiters>>
        /\ UNCHANGED <<sink, active, astray, stops>>
    BY <1>1 DEF vars, mapVars, laneVars, permitVars, turnVars
  <2>2. Types' /\ Home'
    BY <2>1 DEF LaneInv, Types, Home
  <2>3. Fronts'
    <3>1. \A m \in Message : Apace(m)
      BY <2>1 DEF Apace
    <3> QED BY <2>1, <3>1, FrontsStay DEF LaneInv, laneVars
  <2>4. Permits'
    BY <2>1 DEF LaneInv, Permits, HeldSet, WaitingSet
  <2> QED BY <2>2, <2>3, <2>4 DEF LaneInv
<1>2. ASSUME NEW m \in Message, Arrive(m) PROVE LaneInv'
  BY <1>2, ArriveKeeps
<1>3. ASSUME NEW m \in Message, Steer(m) PROVE LaneInv'
  <2>1. CASE pc' = [pc EXCEPT ![m] = "absorbed"] /\ UNCHANGED laneVars
    <3>1. "absorbed" \in Stages /\ "absorbed" \in Ended
      BY DEF Stages, Ended
    <3>2. {sink', active'} \subseteq [Chat -> Message \cup {None}]
      BY <1>3 DEF Steer, turnVars, LaneInv, Types
    <3> QED BY <1>3, <2>1, <3>1, <3>2, MoveKeeps DEF Steer
  <2>2. CASE Enqueue(m)
    BY <1>3, <2>2, EnqueueKeeps DEF Steer
  <2> QED BY <1>3, <2>1, <2>2 DEF Steer
<1>4. ASSUME NEW m \in Message, Offer(m) PROVE LaneInv'
  <2>1. CASE pc' = [pc EXCEPT ![m] = "busy"] /\ UNCHANGED laneVars
    <3>1. "busy" \in Stages /\ "busy" \in Ended
      BY DEF Stages, Ended
    <3>2. {sink', active'} \subseteq [Chat -> Message \cup {None}]
      BY <1>4 DEF Offer, turnVars, LaneInv, Types
    <3> QED BY <1>4, <2>1, <3>1, <3>2, MoveKeeps DEF Offer
  <2>2. CASE Enqueue(m)
    BY <1>4, <2>2, EnqueueKeeps DEF Offer
  <2> QED BY <1>4, <2>1, <2>2 DEF Offer
<1>5. ASSUME NEW m \in Message, Consume(m) PROVE LaneInv'
  <2>1. "over" \in Stages /\ "over" \in Ended
    BY DEF Stages, Ended
  <2>2. {sink', active'} \subseteq [Chat -> Message \cup {None}]
    BY <1>5 DEF Consume, turnVars, LaneInv, Types
  <2> QED BY <1>5, <2>1, <2>2, MoveKeeps DEF Consume
<1>6. ASSUME NEW m \in Message, OverCap(m) PROVE LaneInv'
  <2>1. /\ "leaving" \in Stages /\ "leaving" \in AtFront /\ "front" \in AtFront
        /\ "leaving" \notin Held /\ "front" \notin Held
    BY DEF Stages, AtFront, Held
  <2>2. {sink', active'} \subseteq [Chat -> Message \cup {None}]
    BY <1>6 DEF OverCap, turnVars, LaneInv, Types
  <2> QED BY <1>6, <2>1, <2>2, MoveKeeps DEF OverCap
<1>7. ASSUME NEW m \in Message, Acquire(m) PROVE LaneInv'
  BY <1>7, AcquireKeeps
<1>8. ASSUME NEW m \in Message, BeginTurn(m) PROVE LaneInv'
  <2>1. /\ "running" \in Stages /\ {"granted", "running"} \subseteq AtFront
        /\ {"granted", "running"} \subseteq Held
    BY DEF Stages, AtFront, Held
  <2>2. {sink', active'} \subseteq [Chat -> Message \cup {None}]
    BY <1>8 DEF BeginTurn, LaneInv, Types
  <2> QED BY <1>8, <2>1, <2>2, MoveKeeps DEF BeginTurn
<1>9. ASSUME NEW m \in Message, SealSink(m) PROVE LaneInv'
  <2>1. /\ "tail" \in Stages /\ {"running", "tail"} \subseteq AtFront
        /\ {"running", "tail"} \subseteq Held
    BY DEF Stages, AtFront, Held
  <2>2. {sink', active'} \subseteq [Chat -> Message \cup {None}]
    BY <1>9 DEF SealSink, LaneInv, Types
  <2> QED BY <1>9, <2>1, <2>2, MoveKeeps DEF SealSink
<1>10. ASSUME NEW m \in Message, LeaveLane(m) PROVE LaneInv'
  BY <1>10, LeaveLaneKeeps
<1>11. ASSUME NEW m \in Message, EndTurn(m) PROVE LaneInv'
  BY <1>11, EndTurnKeeps
<1>12. ASSUME NEW c \in Chat, Stop(c) PROVE LaneInv'
  BY <1>12, StopKeeps
<1> QED BY <1>1, <1>2, <1>3, <1>4, <1>5, <1>6, <1>7, <1>8, <1>9, <1>10, <1>11, <1>12
        DEF Next, Handle, Turn

-----------------------------------------------------------------------------
(* The theorems.                                                           *)

\* The lanes, the map and the permits stay in order, whatever arrives, ends or is
\* stopped when.
THEOREM LaneInvariant == Spec => []LaneInv
<1>1. Init => LaneInv
  BY InitInv
<1>2. LaneInv /\ [Next]_vars => LaneInv'
  BY NextKeeps
<1> QED BY <1>1, <1>2, PTL DEF Spec

\* TypeOK: the state has its types, and a message is at the front of a lane exactly
\* if the lane runs it.
THEOREM TypeCorrect == Spec => []TypeOK
<1>1. LaneInv => TypeOK
  <2> SUFFICES ASSUME LaneInv PROVE TypeOK
    OBVIOUS
  <2> USE TurnLanesAssumption
  <2>1. \A m \in Message : pc[m] \in AtFront <=> \E l \in Lane : cur[l] = m
    BY DEF LaneInv, Fronts, Laned, FrontIsCur, CurIsFront, AtFront, Held
  <2> QED BY <2>1 DEF LaneInv, Types, TypeOK
<1> QED BY <1>1, LaneInvariant, PTL

\* PermitsAccounted: TurnSemaphore loses and invents no permit, and its line holds the
\* live waiters, each once.
THEOREM PermitsAccountedCorrect == Spec => []PermitsAccounted
<1>1. LaneInv => PermitsAccounted
  <2> SUFFICES ASSUME LaneInv PROVE PermitsAccounted
    OBVIOUS
  <2> DEFINE S == WaitingSet
  <2>1. waiters \in Seq(Message) /\ Lists(waiters, S)
    BY DEF LaneInv, Types, Permits
  <2> HIDE DEF S
  <2>2. ToSet(waiters) = S /\ Len(waiters) = Cardinality(S)
    BY <2>1, ListsCount
  <2> QED BY <2>2 DEF LaneInv, Permits, PermitsAccounted, HeldSet, S, WaitingSet
<1> QED BY <1>1, LaneInvariant, PTL

\* OneTurnBarringEviction: two turns of one chat are at work side by side only if
\* eviction took the chat's lane from under a message.
THEOREM OneTurnBarringEvictionCorrect == Spec => []OneTurnBarringEviction
<1>1. LaneInv => OneTurnBarringEviction
  <2> SUFFICES ASSUME LaneInv, NEW c \in Chat, c \notin astray
               PROVE  Cardinality(Working(c)) <= 1
    BY DEF OneTurnBarringEviction
  <2> DEFINE W == Working(c)
  <2>1. \A m \in W, n \in W : m = n
    BY DEF LaneInv, Fronts, Laned, FrontIsCur, Home, Live, Working
  <2> HIDE DEF W
  <2>2. CASE W = {}
    BY <2>2, FS_EmptySet DEF W
  <2>3. CASE W # {}
    <3>1. PICK m : W = {m}
      BY <2>1, <2>3
    <3>2. Cardinality(W) = 1
      BY <3>1, FS_Singleton
    <3> QED BY <3>2 DEF W
  <2> QED BY <2>2, <2>3
<1> QED BY <1>1, LaneInvariant, PTL

==============================================================================
