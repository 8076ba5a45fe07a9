------------------------ MODULE DeliveryLedgerProofs ------------------------
(***************************************************************************)
(* Proofs about the delivery ledger, for any number of gateways, replies,  *)
(* crashes and faults.                                                     *)
(***************************************************************************)
EXTENDS DeliveryLedger, TLAPS

-----------------------------------------------------------------------------
(* Type correctness.                                                       *)

\* No step of the gateway leaves the types, and the sweep's current row is set
\* exactly while it holds a claim.
LEMMA TypeStep == TypeOK /\ [Next]_vars => TypeOK'
<1> USE LedgerAssumption DEF TypeOK, ledgerVars, processVars, ghostVars, Statuses,
        Stages, Phases, Sending
<1> SUFFICES ASSUME TypeOK, [Next]_vars PROVE TypeOK'
  OBVIOUS
<1>1. ASSUME NEW p \in Process, NEW o \in Obligation, BeginDelivery(p, o) PROVE TypeOK'
  BY <1>1 DEF BeginDelivery
<1>2. ASSUME NEW p \in Process, NEW o \in Obligation, LiveAccepted(p, o) PROVE TypeOK'
  BY <1>2 DEF LiveAccepted
<1>3. ASSUME NEW p \in Process, NEW o \in Obligation, LiveConfirm(p, o) PROVE TypeOK'
  BY <1>3 DEF LiveConfirm, Delivered
<1>4. ASSUME NEW p \in Process, NEW o \in Obligation, LiveConfirmFails(p, o) PROVE TypeOK'
  BY <1>4 DEF LiveConfirmFails
<1>5. ASSUME NEW p \in Process, NEW o \in Obligation, LiveTakenUnseen(p, o) PROVE TypeOK'
  BY <1>5 DEF LiveTakenUnseen
<1>6. ASSUME NEW p \in Process, NEW o \in Obligation, LiveRefused(p, o) PROVE TypeOK'
  BY <1>6 DEF LiveRefused
<1>7. ASSUME NEW p \in Process, SweepReclaim(p) PROVE TypeOK'
  BY <1>7 DEF SweepReclaim
<1>8. ASSUME NEW p \in Process, SweepList(p) PROVE TypeOK'
  BY <1>8 DEF SweepList
<1>9. ASSUME NEW p \in Process, BootSweep(p) PROVE TypeOK'
  BY <1>9 DEF BootSweep
<1>10. ASSUME NEW p \in Process, NEW o \in Obligation, SweepSkip(p, o) PROVE TypeOK'
  BY <1>10 DEF SweepSkip
<1>11. ASSUME NEW p \in Process, NEW o \in Obligation, SweepClaim(p, o) PROVE TypeOK'
  BY <1>11 DEF SweepClaim
<1>12. ASSUME NEW p \in Process, SweepAccepted(p) PROVE TypeOK'
  BY <1>12 DEF SweepAccepted
<1>13. ASSUME NEW p \in Process, SweepConfirm(p) PROVE TypeOK'
  BY <1>13 DEF SweepConfirm, Delivered, NextRow
<1>14. ASSUME NEW p \in Process, SweepConfirmFails(p) PROVE TypeOK'
  <2>1. cur[p] \in Obligation
    BY <1>14 DEF SweepConfirmFails
  <2>2. Release(cur[p]) \/ UNCHANGED <<status, claimAge>>
    BY <1>14 DEF SweepConfirmFails, LedgerThrows
  <2>3. /\ status' \in [Obligation -> Statuses]
        /\ claimAge' \in [Obligation -> {"none", "fresh", "stale"}]
    BY <2>1, <2>2 DEF Release
  <2>4. /\ phase' \in [Process -> Phases]
        /\ cur' \in [Process -> Obligation \cup {None}]
        /\ \A q \in Process : cur'[q] = None <=> ~Sending(q)'
    BY <1>14 DEF SweepConfirmFails, LedgerThrows, NextRow
  <2>5. /\ faults' \in [Obligation -> Nat]
        /\ failures' \in Nat
    BY <1>14, <2>1 DEF SweepConfirmFails, LedgerThrows
  <2> QED
    BY <1>14, <2>3, <2>4, <2>5 DEF SweepConfirmFails, LedgerThrows
<1>15. ASSUME NEW p \in Process, SweepTakenUnseen(p) PROVE TypeOK'
  BY <1>15 DEF SweepTakenUnseen
<1>16. ASSUME NEW p \in Process, NEW permanent \in BOOLEAN, SweepRefused(p, permanent) PROVE TypeOK'
  <2>1. cur[p] \in Obligation
    BY <1>16 DEF SweepRefused, Refused
  <2>2. /\ status' \in [Obligation -> Statuses]
        /\ claimAge' \in [Obligation -> {"none", "fresh", "stale"}]
    BY <1>16, <2>1 DEF SweepRefused, Settle
  <2>3. /\ attempts' \in [Obligation -> Nat]
        /\ due' \in [Obligation -> BOOLEAN]
    <3>1. Settle(p, permanent)
      BY <1>16 DEF SweepRefused
    <3>2. CASE status[cur[p]] # "redelivering"
      BY <3>1, <3>2 DEF Settle
    <3>3. CASE status[cur[p]] = "redelivering"
      <4>1. attempts' = [attempts EXCEPT ![cur[p]] = @ + 1]
        BY <3>1, <3>3 DEF Settle
      <4>2. due' = due \/ due' = [due EXCEPT ![cur[p]] = FALSE]
        BY <3>1, <3>3 DEF Settle
      <4>3. attempts' \in [Obligation -> Nat]
        BY <2>1, <4>1
      <4>4. due' \in [Obligation -> BOOLEAN]
        BY <2>1, <4>2
      <4> QED
        BY <4>3, <4>4
    <3> QED
      BY <3>2, <3>3
  <2>4. /\ phase' \in [Process -> Phases]
        /\ cur' \in [Process -> Obligation \cup {None}]
        /\ \A q \in Process : cur'[q] = None <=> ~Sending(q)'
    BY <1>16 DEF SweepRefused, NextRow
  <2>5. /\ refused' \in [Obligation -> Nat]
        /\ hopeless' \in [Obligation -> BOOLEAN]
    BY <1>16, <2>1 DEF SweepRefused, Refused
  <2> QED
    BY <1>16, <2>2, <2>3, <2>4, <2>5 DEF SweepRefused
<1>17. ASSUME NEW p \in Process, NEW permanent \in BOOLEAN, SweepSettleFails(p, permanent) PROVE TypeOK'
  <2>1. cur[p] \in Obligation
    BY <1>17 DEF SweepSettleFails, Refused
  <2>2. Release(cur[p]) \/ UNCHANGED <<status, claimAge>>
    BY <1>17 DEF SweepSettleFails, LedgerThrows
  <2>3. /\ status' \in [Obligation -> Statuses]
        /\ claimAge' \in [Obligation -> {"none", "fresh", "stale"}]
    BY <2>1, <2>2 DEF Release
  <2>4. /\ phase' \in [Process -> Phases]
        /\ cur' \in [Process -> Obligation \cup {None}]
        /\ \A q \in Process : cur'[q] = None <=> ~Sending(q)'
    BY <1>17 DEF SweepSettleFails, LedgerThrows, NextRow
  <2>5. /\ refused' \in [Obligation -> Nat]
        /\ hopeless' \in [Obligation -> BOOLEAN]
    BY <1>17, <2>1 DEF SweepSettleFails, Refused
  <2> QED
    BY <1>17, <2>3, <2>4, <2>5 DEF SweepSettleFails, LedgerThrows
<1>18. ASSUME NEW p \in Process, SweepEnd(p) PROVE TypeOK'
  BY <1>18 DEF SweepEnd
<1>19. ASSUME NEW p \in Process, AbandonStale(p) PROVE TypeOK'
  BY <1>19 DEF AbandonStale
<1>20. ASSUME NEW p \in Process, PruneDelivered(p) PROVE TypeOK'
  BY <1>20 DEF PruneDelivered
<1>21. ASSUME NEW p \in Process, Crash(p) PROVE TypeOK'
  BY <1>21 DEF Crash
<1>22. ASSUME NEW p \in Process, Boot(p) PROVE TypeOK'
  BY <1>22 DEF Boot
<1>23. ASSUME NEW o \in Obligation, Tick(o) PROVE TypeOK'
  <2>1. CASE AgeRow(o)
    <3> HIDE DEF TypeOK
    <3>1. PICK a \in {"settled", "expired"} : age' = [age EXCEPT ![o] = a]
      BY <2>1 DEF AgeRow
    <3>2. age \in [Obligation -> {"young", "settled", "expired"}]
      BY DEF TypeOK
    <3>3. age' \in [Obligation -> {"young", "settled", "expired"}]
      BY <3>1, <3>2
    <3> USE DEF TypeOK
    <3> QED
      BY <2>1, <3>3 DEF AgeRow
  <2>2. CASE AgeClaim(o)
    BY <2>2 DEF AgeClaim
  <2>3. CASE BecomeDue(o)
    BY <2>3 DEF BecomeDue
  <2> QED
    BY <1>23, <2>1, <2>2, <2>3 DEF Tick
<1>24. CASE UNCHANGED vars
  BY <1>24 DEF vars
<1> HIDE DEF TypeOK, ledgerVars, processVars, ghostVars, Statuses, Stages, Phases,
        Sending
<1> QED
  BY <1>1, <1>2, <1>3, <1>4, <1>5, <1>6, <1>7, <1>8, <1>9, <1>10, <1>11, <1>12,
     <1>13, <1>14, <1>15, <1>16, <1>17, <1>18, <1>19, <1>20, <1>21, <1>22,
     <1>23, <1>24
  DEF Next, LiveEnds, SweepStep

\* Every variable keeps its type, in every deployment.
THEOREM TypeCorrect == Spec => []TypeOK
<1>1. Init => TypeOK
  BY LedgerAssumption DEF Init, TypeOK, Statuses, Stages, Phases, Sending
<1> QED
  BY <1>1, TypeStep, PTL DEF Spec
-----------------------------------------------------------------------------
(* One sender per reply.                                                   *)

\* A process sends only what it serves, knows only recorded rows, and its sweep
\* never holds the row its own live send is working on.
SenderInv ==
    \A p \in Process :
       /\ todo[p] \subseteq Serves[p]
       /\ cur[p] \in Serves[p] \cup {None}
       /\ \A o \in Obligation :
            /\ InFlight(p, o) => o \in Serves[p] /\ ~(Sending(p) /\ cur[p] = o)
            /\ InFlight(p, o) \/ o \in todo[p] \/ cur[p] = o
                 => status[o] # "absent"

\* A platform call for o whose outcome is still unknown to the gateway.
Open(p, o) ==
    \/ live[p][o] \in {"sending", "unseen"}
    \/ phase[p] \in {"sending", "unseen"} /\ cur[p] = o

\* Copies are accounted for: one more acceptance than faults only while it is
\* about to be confirmed, or when the row is settled and nobody is sending.
CopyInv ==
    \A o \in Obligation :
       /\ accepted[o] <= 1 + faults[o]
       /\ status[o] = "absent" => accepted[o] = 0
       /\ Owed(o) /\ (\A p \in Process : ~Unconfirmed(p, o))
            => accepted[o] <= faults[o]
       /\ (\E p \in Process : Open(p, o)) => accepted[o] <= faults[o]
\* No step of the gateway makes two of its own senders meet on one row.
LEMMA SenderStep == TypeOK /\ SenderInv /\ [Next]_vars => SenderInv'
<1> USE LedgerAssumption DEF TypeOK, SenderInv, InFlight, Sending, ledgerVars,
        processVars, ghostVars
<1> SUFFICES ASSUME TypeOK, SenderInv, [Next]_vars PROVE SenderInv'
  OBVIOUS
<1>1. ASSUME NEW p \in Process, NEW o \in Obligation, BeginDelivery(p, o)
      PROVE  SenderInv'
  BY <1>1 DEF BeginDelivery
<1>2. ASSUME NEW p \in Process, NEW o \in Obligation, LiveAccepted(p, o)
      PROVE  SenderInv'
  BY <1>2 DEF LiveAccepted
<1>3. ASSUME NEW p \in Process, NEW o \in Obligation, LiveConfirm(p, o)
      PROVE  SenderInv'
  BY <1>3 DEF LiveConfirm, Delivered
<1>4. ASSUME NEW p \in Process, NEW o \in Obligation, LiveConfirmFails(p, o)
      PROVE  SenderInv'
  BY <1>4 DEF LiveConfirmFails
<1>5. ASSUME NEW p \in Process, NEW o \in Obligation, LiveTakenUnseen(p, o)
      PROVE  SenderInv'
  BY <1>5 DEF LiveTakenUnseen
<1>6. ASSUME NEW p \in Process, NEW o \in Obligation, LiveRefused(p, o)
      PROVE  SenderInv'
  BY <1>6 DEF LiveRefused
<1>7. ASSUME NEW p \in Process, SweepReclaim(p) PROVE SenderInv'
  BY <1>7 DEF SweepReclaim, Reclaimed
<1>8. ASSUME NEW p \in Process, SweepList(p) PROVE SenderInv'
  BY <1>8 DEF SweepList, Listable
<1>9. ASSUME NEW p \in Process, BootSweep(p) PROVE SenderInv'
  BY <1>9 DEF BootSweep, Reclaimed
<1>10. ASSUME NEW p \in Process, NEW o \in Obligation, SweepSkip(p, o)
      PROVE  SenderInv'
  BY <1>10 DEF SweepSkip
<1>11. ASSUME NEW p \in Process, NEW o \in Obligation, SweepClaim(p, o)
      PROVE  SenderInv'
  BY <1>11 DEF SweepClaim
<1>12. ASSUME NEW p \in Process, SweepAccepted(p) PROVE SenderInv'
  BY <1>12 DEF SweepAccepted
<1>13. ASSUME NEW p \in Process, SweepConfirm(p) PROVE SenderInv'
  BY <1>13 DEF SweepConfirm, Delivered, NextRow
<1>14. ASSUME NEW p \in Process, SweepConfirmFails(p) PROVE SenderInv'
  BY <1>14 DEF SweepConfirmFails, LedgerThrows, Release, NextRow
<1>15. ASSUME NEW p \in Process, SweepTakenUnseen(p) PROVE SenderInv'
  BY <1>15 DEF SweepTakenUnseen
<1>16. ASSUME NEW p \in Process, NEW permanent \in BOOLEAN, SweepRefused(p, permanent)
      PROVE  SenderInv'
  BY <1>16 DEF SweepRefused, Refused, Settle, NextRow
<1>17. ASSUME NEW p \in Process, NEW permanent \in BOOLEAN, SweepSettleFails(p, permanent)
      PROVE  SenderInv'
  BY <1>17 DEF SweepSettleFails, Refused, LedgerThrows, Release, NextRow
<1>18. ASSUME NEW p \in Process, SweepEnd(p) PROVE SenderInv'
  BY <1>18 DEF SweepEnd
<1>19. ASSUME NEW p \in Process, AbandonStale(p) PROVE SenderInv'
  BY <1>19 DEF AbandonStale, Stale, Owed
<1>20. ASSUME NEW p \in Process, PruneDelivered(p) PROVE SenderInv'
  BY <1>20 DEF PruneDelivered, Prunable
<1>21. ASSUME NEW p \in Process, Crash(p) PROVE SenderInv'
  BY <1>21 DEF Crash
<1>22. ASSUME NEW p \in Process, Boot(p) PROVE SenderInv'
  BY <1>22 DEF Boot
<1>23. ASSUME NEW o \in Obligation, AgeRow(o) PROVE SenderInv'
  BY <1>23 DEF AgeRow
<1>24. ASSUME NEW o \in Obligation, AgeClaim(o) PROVE SenderInv'
  BY <1>24 DEF AgeClaim
<1>25. ASSUME NEW o \in Obligation, BecomeDue(o) PROVE SenderInv'
  BY <1>25 DEF BecomeDue
<1>26. CASE UNCHANGED vars
  BY <1>26 DEF vars
<1> HIDE DEF TypeOK, SenderInv, InFlight, Sending
<1> QED
  BY <1>1, <1>2, <1>3, <1>4, <1>5, <1>6, <1>7, <1>8, <1>9, <1>10, <1>11, <1>12,
     <1>13, <1>14, <1>15, <1>16, <1>17, <1>18, <1>19, <1>20, <1>21, <1>22,
     <1>23, <1>24, <1>25, <1>26
  DEF Next, LiveEnds, SweepStep, Tick

\* With one owner per bot, no two platform calls for a reply overlap.
LEMMA OneSender == OneOwner /\ SenderInv => SingleSender
<1> SUFFICES ASSUME OneOwner, SenderInv, NEW o \in Obligation,
                    NEW s \in Senders(o), NEW t \in Senders(o)
             PROVE  s = t
  BY DEF SingleSender
<1>1. PICK p \in Process : \/ s = <<p, "live">> /\ InFlight(p, o)
                           \/ s = <<p, "sweep">> /\ Sending(p) /\ cur[p] = o
  BY DEF Senders
<1>2. PICK q \in Process : \/ t = <<q, "live">> /\ InFlight(q, o)
                           \/ t = <<q, "sweep">> /\ Sending(q) /\ cur[q] = o
  BY DEF Senders
<1>3. o \in Serves[p] /\ o \in Serves[q]
  BY <1>1, <1>2, LedgerAssumption DEF SenderInv
<1>4. p = q
  BY <1>3 DEF OneOwner
<1> QED
  BY <1>1, <1>2, <1>4 DEF SenderInv

\* SenderInv is an invariant, and with it SingleSender.
THEOREM SingleSenderCorrect == OneOwner => (Spec => []SingleSender)
<1> SUFFICES ASSUME OneOwner PROVE Spec => []SingleSender
  OBVIOUS
<1>1. Init => SenderInv
  BY LedgerAssumption DEF Init, SenderInv, InFlight, Sending
<1>2. SenderInv => SingleSender
  BY OneSender
<1> QED
  BY <1>1, <1>2, SenderStep, TypeCorrect, PTL DEF Spec

-----------------------------------------------------------------------------
(* A duplicate needs a fault.                                              *)

\* Every acceptance beyond the recorded faults belongs to a send that is about
\* to be confirmed or to a row nobody will send again.
LEMMA CopyStep ==
    OneOwner /\ TypeOK /\ SenderInv /\ CopyInv /\ [Next]_vars => CopyInv'
<1> USE LedgerAssumption DEF TypeOK, SenderInv, CopyInv, InFlight, Sending, Open,
        Unconfirmed, Owed, OneOwner, ledgerVars, processVars, ghostVars
<1> SUFFICES ASSUME OneOwner, TypeOK, SenderInv, CopyInv, [Next]_vars
             PROVE  CopyInv'
  OBVIOUS
<1>1. ASSUME NEW p \in Process, NEW o \in Obligation, BeginDelivery(p, o)
      PROVE  CopyInv'
  BY <1>1 DEF BeginDelivery
<1>2. ASSUME NEW p \in Process, NEW o \in Obligation, LiveAccepted(p, o)
      PROVE  CopyInv'
  BY <1>2 DEF LiveAccepted
<1>3. ASSUME NEW p \in Process, NEW o \in Obligation, LiveConfirm(p, o)
      PROVE  CopyInv'
  BY <1>3 DEF LiveConfirm, Delivered
<1>4. ASSUME NEW p \in Process, NEW o \in Obligation, LiveConfirmFails(p, o)
      PROVE  CopyInv'
  BY <1>4 DEF LiveConfirmFails
<1>5. ASSUME NEW p \in Process, NEW o \in Obligation, LiveTakenUnseen(p, o)
      PROVE  CopyInv'
  BY <1>5 DEF LiveTakenUnseen
<1>6. ASSUME NEW p \in Process, NEW o \in Obligation, LiveRefused(p, o)
      PROVE  CopyInv'
  BY <1>6 DEF LiveRefused
<1>7. ASSUME NEW p \in Process, SweepReclaim(p) PROVE CopyInv'
  BY <1>7 DEF SweepReclaim, Reclaimed
<1>8. ASSUME NEW p \in Process, SweepList(p) PROVE CopyInv'
  BY <1>8 DEF SweepList, Listable
<1>9. ASSUME NEW p \in Process, BootSweep(p) PROVE CopyInv'
  BY <1>9 DEF BootSweep, Reclaimed
<1>10. ASSUME NEW p \in Process, NEW o \in Obligation, SweepSkip(p, o)
      PROVE  CopyInv'
  BY <1>10 DEF SweepSkip
<1>11. ASSUME NEW p \in Process, NEW o \in Obligation, SweepClaim(p, o)
      PROVE  CopyInv'
  <2>1. o \in Serves[p] /\ status[o] = "pending" /\ ~InFlight(p, o)
    BY <1>11 DEF SweepClaim
  <2>2. ASSUME NEW q \in Process, Unconfirmed(q, o) PROVE FALSE
    <3>1. o \in Serves[q]
      BY <2>2
    <3>2. q = p
      BY <2>1, <3>1
    <3> QED
      BY <1>11, <2>1, <2>2, <3>2 DEF SweepClaim
  <2>3. accepted[o] <= faults[o]
    BY <2>1, <2>2
  <2>4. \A x \in Obligation :
           /\ Owed(x)' => Owed(x)
           /\ status'[x] = "absent" => status[x] = "absent"
    BY <1>11 DEF SweepClaim
  <2>5. \A x \in Obligation, q \in Process :
           /\ x # o => (Unconfirmed(q, x)' <=> Unconfirmed(q, x))
           /\ x # o => (Open(q, x)' <=> Open(q, x))
    BY <1>11 DEF SweepClaim
  <2>6. accepted' = accepted /\ faults' = faults
    BY <1>11 DEF SweepClaim
  <2>7. /\ status'[o] = "redelivering"
        /\ accepted[o] <= 1 + faults[o]
    BY <1>11, <2>3 DEF SweepClaim
  <2>8. ASSUME NEW x \in Obligation, x # o
        PROVE  /\ accepted[x] <= 1 + faults[x]
               /\ status'[x] = "absent" => accepted[x] = 0
               /\ Owed(x)' /\ (\A q \in Process : ~Unconfirmed(q, x)')
                    => accepted[x] <= faults[x]
               /\ (\E q \in Process : Open(q, x)') => accepted[x] <= faults[x]
    <3> HIDE DEF Open, Unconfirmed, Owed
    <3> QED
      BY <2>4, <2>5, <2>8
  <2> QED
    BY <2>3, <2>6, <2>7, <2>8
<1>12. ASSUME NEW p \in Process, SweepAccepted(p) PROVE CopyInv'
  BY <1>12 DEF SweepAccepted
<1>13. ASSUME NEW p \in Process, SweepConfirm(p) PROVE CopyInv'
  BY <1>13 DEF SweepConfirm, Delivered, NextRow
<1>14. ASSUME NEW p \in Process, SweepConfirmFails(p) PROVE CopyInv'
  BY <1>14 DEF SweepConfirmFails, LedgerThrows, Release, NextRow
<1>15. ASSUME NEW p \in Process, SweepTakenUnseen(p) PROVE CopyInv'
  BY <1>15 DEF SweepTakenUnseen
<1>16. ASSUME NEW p \in Process, NEW permanent \in BOOLEAN, SweepRefused(p, permanent)
      PROVE  CopyInv'
  BY <1>16 DEF SweepRefused, Refused, Settle, NextRow
<1>17. ASSUME NEW p \in Process, NEW permanent \in BOOLEAN, SweepSettleFails(p, permanent)
      PROVE  CopyInv'
  BY <1>17 DEF SweepSettleFails, Refused, LedgerThrows, Release, NextRow
<1>18. ASSUME NEW p \in Process, SweepEnd(p) PROVE CopyInv'
  BY <1>18 DEF SweepEnd
<1>19. ASSUME NEW p \in Process, AbandonStale(p) PROVE CopyInv'
  BY <1>19 DEF AbandonStale, Stale
<1>20. ASSUME NEW p \in Process, PruneDelivered(p) PROVE CopyInv'
  BY <1>20 DEF PruneDelivered, Prunable
<1>21. ASSUME NEW p \in Process, Crash(p) PROVE CopyInv'
  BY <1>21 DEF Crash
<1>22. ASSUME NEW p \in Process, Boot(p) PROVE CopyInv'
  BY <1>22 DEF Boot
<1>23. ASSUME NEW o \in Obligation, AgeRow(o) PROVE CopyInv'
  BY <1>23 DEF AgeRow
<1>24. ASSUME NEW o \in Obligation, AgeClaim(o) PROVE CopyInv'
  BY <1>24 DEF AgeClaim
<1>25. ASSUME NEW o \in Obligation, BecomeDue(o) PROVE CopyInv'
  BY <1>25 DEF BecomeDue
<1>26. CASE UNCHANGED vars
  BY <1>26 DEF vars
<1> HIDE DEF TypeOK, SenderInv, CopyInv, InFlight, Sending, Open, Unconfirmed, Owed
<1> QED
  BY <1>1, <1>2, <1>3, <1>4, <1>5, <1>6, <1>7, <1>8, <1>9, <1>10, <1>11, <1>12,
     <1>13, <1>14, <1>15, <1>16, <1>17, <1>18, <1>19, <1>20, <1>21, <1>22,
     <1>23, <1>24, <1>25, <1>26
  DEF Next, LiveEnds, SweepStep, Tick

\* The duplicate bound, for every deployment with one owner per bot.
THEOREM DuplicateNeedsFaultCorrect ==
    OneOwner => (Spec => []DuplicateNeedsFault)
<1> SUFFICES ASSUME OneOwner PROVE Spec => []DuplicateNeedsFault
  OBVIOUS
<1>1. Init => SenderInv /\ CopyInv
  BY LedgerAssumption DEF Init, SenderInv, CopyInv, InFlight, Sending, Open, Owed
<1>2. CopyInv => DuplicateNeedsFault
  BY DEF CopyInv, DuplicateNeedsFault
<1> QED
  BY <1>1, <1>2, SenderStep, CopyStep, TypeCorrect, PTL DEF Spec

-----------------------------------------------------------------------------
(* The ledger implements DeliveryPromise.                                  *)

\* A send about to be confirmed was taken by the platform.
ConfirmInv ==
    \A o \in Obligation : (\E p \in Process : Unconfirmed(p, o)) => accepted[o] > 0

\* Only an acceptance leads to a confirmation.
LEMMA ConfirmStep == TypeOK /\ ConfirmInv /\ [Next]_vars => ConfirmInv'
<1> USE LedgerAssumption DEF TypeOK, ConfirmInv, Unconfirmed, ledgerVars, processVars,
        ghostVars
<1> SUFFICES ASSUME TypeOK, ConfirmInv, [Next]_vars PROVE ConfirmInv'
  OBVIOUS
<1>1. ASSUME NEW p \in Process, NEW o \in Obligation, BeginDelivery(p, o)
      PROVE  ConfirmInv'
  BY <1>1 DEF BeginDelivery
<1>2. ASSUME NEW p \in Process, NEW o \in Obligation, LiveAccepted(p, o)
      PROVE  ConfirmInv'
  BY <1>2 DEF LiveAccepted
<1>3. ASSUME NEW p \in Process, NEW o \in Obligation, LiveConfirm(p, o)
      PROVE  ConfirmInv'
  BY <1>3 DEF LiveConfirm, Delivered
<1>4. ASSUME NEW p \in Process, NEW o \in Obligation, LiveConfirmFails(p, o)
      PROVE  ConfirmInv'
  BY <1>4 DEF LiveConfirmFails
<1>5. ASSUME NEW p \in Process, NEW o \in Obligation, LiveTakenUnseen(p, o)
      PROVE  ConfirmInv'
  BY <1>5 DEF LiveTakenUnseen
<1>6. ASSUME NEW p \in Process, NEW o \in Obligation, LiveRefused(p, o)
      PROVE  ConfirmInv'
  BY <1>6 DEF LiveRefused
<1>7. ASSUME NEW p \in Process, SweepReclaim(p) PROVE ConfirmInv'
  BY <1>7 DEF SweepReclaim, Reclaimed
<1>8. ASSUME NEW p \in Process, SweepList(p) PROVE ConfirmInv'
  BY <1>8 DEF SweepList, Listable
<1>9. ASSUME NEW p \in Process, BootSweep(p) PROVE ConfirmInv'
  BY <1>9 DEF BootSweep, Reclaimed
<1>10. ASSUME NEW p \in Process, NEW o \in Obligation, SweepSkip(p, o)
      PROVE  ConfirmInv'
  BY <1>10 DEF SweepSkip
<1>11. ASSUME NEW p \in Process, NEW o \in Obligation, SweepClaim(p, o)
      PROVE  ConfirmInv'
  BY <1>11 DEF SweepClaim
<1>12. ASSUME NEW p \in Process, SweepAccepted(p) PROVE ConfirmInv'
  BY <1>12 DEF SweepAccepted
<1>13. ASSUME NEW p \in Process, SweepConfirm(p) PROVE ConfirmInv'
  BY <1>13 DEF SweepConfirm, Delivered, NextRow
<1>14. ASSUME NEW p \in Process, SweepConfirmFails(p) PROVE ConfirmInv'
  BY <1>14 DEF SweepConfirmFails, LedgerThrows, Release, NextRow
<1>15. ASSUME NEW p \in Process, SweepTakenUnseen(p) PROVE ConfirmInv'
  BY <1>15 DEF SweepTakenUnseen
<1>16. ASSUME NEW p \in Process, NEW permanent \in BOOLEAN, SweepRefused(p, permanent)
      PROVE  ConfirmInv'
  BY <1>16 DEF SweepRefused, Refused, Settle, NextRow
<1>17. ASSUME NEW p \in Process, NEW permanent \in BOOLEAN, SweepSettleFails(p, permanent)
      PROVE  ConfirmInv'
  BY <1>17 DEF SweepSettleFails, Refused, LedgerThrows, Release, NextRow
<1>18. ASSUME NEW p \in Process, SweepEnd(p) PROVE ConfirmInv'
  BY <1>18 DEF SweepEnd
<1>19. ASSUME NEW p \in Process, AbandonStale(p) PROVE ConfirmInv'
  BY <1>19 DEF AbandonStale, Stale
<1>20. ASSUME NEW p \in Process, PruneDelivered(p) PROVE ConfirmInv'
  BY <1>20 DEF PruneDelivered, Prunable
<1>21. ASSUME NEW p \in Process, Crash(p) PROVE ConfirmInv'
  BY <1>21 DEF Crash
<1>22. ASSUME NEW p \in Process, Boot(p) PROVE ConfirmInv'
  BY <1>22 DEF Boot
<1>23. ASSUME NEW o \in Obligation, AgeRow(o) PROVE ConfirmInv'
  BY <1>23 DEF AgeRow
<1>24. ASSUME NEW o \in Obligation, AgeClaim(o) PROVE ConfirmInv'
  BY <1>24 DEF AgeClaim
<1>25. ASSUME NEW o \in Obligation, BecomeDue(o) PROVE ConfirmInv'
  BY <1>25 DEF BecomeDue
<1>26. CASE UNCHANGED vars
  BY <1>26 DEF vars
<1> HIDE DEF TypeOK, ConfirmInv, Unconfirmed
<1> QED
  BY <1>1, <1>2, <1>3, <1>4, <1>5, <1>6, <1>7, <1>8, <1>9, <1>10, <1>11, <1>12,
     <1>13, <1>14, <1>15, <1>16, <1>17, <1>18, <1>19, <1>20, <1>21, <1>22,
     <1>23, <1>24, <1>25, <1>26
  DEF Next, LiveEnds, SweepStep, Tick

\* An acceptance of a recorded row is a Take.
LEMMA Taking ==
    ASSUME TypeOK, NEW o \in Obligation, status[o] # "absent", status' = status,
           accepted' = [accepted EXCEPT ![o] = @ + 1]
    PROVE  DP!Take(o)
<1>1. promiseBar[o] # "none"
  BY DEF TypeOK, Statuses, promiseBar, PromiseOf
<1>2. promiseBar' = promiseBar
  BY DEF promiseBar, PromiseOf
<1>3. takenBar' = takenBar \cup {o}
  BY DEF TypeOK, takenBar
<1> QED
  BY <1>1, <1>2, <1>3 DEF DP!Take

\* markDelivered on a taken row is a Keep, or changes nothing.
LEMMA Keeping ==
    ASSUME TypeOK, NEW o \in Obligation, status[o] # "absent", accepted[o] > 0,
           status' = [status EXCEPT ![o] = Delivered(o)], accepted' = accepted
    PROVE  DP!Keep(o) \/ UNCHANGED <<promiseBar, takenBar>>
<1>1. takenBar' = takenBar /\ o \in takenBar
  BY DEF takenBar
<1>2. CASE status[o] \in {"pending", "redelivering", "abandoned"}
  <2>1. promiseBar[o] \in {"owed", "givenup"}
    BY <1>2 DEF promiseBar, PromiseOf
  <2>2. status' = [status EXCEPT ![o] = "delivered"]
    BY <1>2 DEF Delivered
  <2>3. promiseBar' = [promiseBar EXCEPT ![o] = "kept"]
    <3>1. \A x \in Obligation :
             status'[x] = IF x = o THEN "delivered" ELSE status[x]
      BY <2>2 DEF TypeOK
    <3>2. \A x \in Obligation :
             promiseBar'[x] = IF x = o THEN "kept" ELSE promiseBar[x]
      BY <3>1 DEF promiseBar, PromiseOf
    <3> QED
      BY <3>2 DEF promiseBar
  <2> QED
    BY <1>1, <2>1, <2>3 DEF DP!Keep
<1>3. CASE status[o] \in {"delivered", "pruned"}
  <2>1. status' = status
    BY <1>3 DEF Delivered, TypeOK
  <2>2. promiseBar' = promiseBar
    BY <2>1 DEF promiseBar, PromiseOf
  <2> QED
    BY <1>1, <2>2
<1> QED
  BY <1>2, <1>3 DEF TypeOK, Statuses

\* Each step of the ledger is a step of its promise, or changes nothing of it.
LEMMA PromiseStep ==
    TypeOK /\ SenderInv /\ ConfirmInv /\ [Next]_vars => [DP!Next]_(DP!vars)
<1> USE LedgerAssumption DEF TypeOK, SenderInv, ConfirmInv, Unconfirmed, InFlight,
        Sending, Owed, Statuses, promiseBar, PromiseOf, takenBar, ledgerVars, processVars, ghostVars
<1> SUFFICES ASSUME TypeOK, SenderInv, ConfirmInv, [Next]_vars
             PROVE  [DP!Next]_(DP!vars)
  OBVIOUS
<1>1. ASSUME NEW p \in Process, NEW o \in Obligation, BeginDelivery(p, o)
      PROVE  DP!Owe(o)
  <2>1. status[o] = "absent" /\ status' = [status EXCEPT ![o] = "pending"]
    BY <1>1 DEF BeginDelivery
  <2>2. promiseBar[o] = "none"
    BY <2>1
  <2>3. promiseBar' = [promiseBar EXCEPT ![o] = "owed"]
    BY <2>1
  <2>4. takenBar' = takenBar
    BY <1>1 DEF BeginDelivery
  <2> QED
    BY <2>2, <2>3, <2>4 DEF DP!Owe
<1>2. ASSUME NEW p \in Process, NEW o \in Obligation, LiveAccepted(p, o)
      PROVE  DP!Take(o)
  BY <1>2, Taking DEF LiveAccepted
<1>3. ASSUME NEW p \in Process, NEW o \in Obligation, LiveConfirm(p, o)
      PROVE  DP!Keep(o) \/ UNCHANGED <<promiseBar, takenBar>>
  BY <1>3, Keeping DEF LiveConfirm
<1>4. ASSUME NEW p \in Process, NEW o \in Obligation, LiveConfirmFails(p, o)
      PROVE  UNCHANGED <<promiseBar, takenBar>>
  BY <1>4 DEF LiveConfirmFails
<1>5. ASSUME NEW p \in Process, NEW o \in Obligation, LiveTakenUnseen(p, o)
      PROVE  DP!Take(o)
  BY <1>5, Taking DEF LiveTakenUnseen
<1>6. ASSUME NEW p \in Process, NEW o \in Obligation, LiveRefused(p, o)
      PROVE  UNCHANGED <<promiseBar, takenBar>>
  BY <1>6 DEF LiveRefused
<1>7. ASSUME NEW p \in Process, SweepReclaim(p)
      PROVE  UNCHANGED <<promiseBar, takenBar>>
  BY <1>7 DEF SweepReclaim, Reclaimed
<1>8. ASSUME NEW p \in Process, SweepList(p)
      PROVE  UNCHANGED <<promiseBar, takenBar>>
  BY <1>8 DEF SweepList, Listable
<1>9. ASSUME NEW p \in Process, BootSweep(p)
      PROVE  UNCHANGED <<promiseBar, takenBar>>
  BY <1>9 DEF BootSweep, Reclaimed
<1>10. ASSUME NEW p \in Process, NEW o \in Obligation, SweepSkip(p, o)
      PROVE  UNCHANGED <<promiseBar, takenBar>>
  BY <1>10 DEF SweepSkip
<1>11. ASSUME NEW p \in Process, NEW o \in Obligation, SweepClaim(p, o)
      PROVE  UNCHANGED <<promiseBar, takenBar>>
  BY <1>11 DEF SweepClaim
<1>12. ASSUME NEW p \in Process, SweepAccepted(p)
      PROVE  \E o \in Obligation : DP!Take(o)
  <2>1. cur[p] \in Obligation /\ status[cur[p]] # "absent"
    BY <1>12 DEF SweepAccepted
  <2>2. status' = status /\ accepted' = [accepted EXCEPT ![cur[p]] = @ + 1]
    BY <1>12 DEF SweepAccepted
  <2> HIDE DEF TypeOK, promiseBar, takenBar
  <2> QED
    BY <2>1, <2>2, Taking
<1>13. ASSUME NEW p \in Process, SweepConfirm(p)
      PROVE  (\E o \in Obligation : DP!Keep(o)) \/ UNCHANGED <<promiseBar, takenBar>>
  <2>1. cur[p] \in Obligation /\ status[cur[p]] # "absent" /\ accepted[cur[p]] > 0
    BY <1>13 DEF SweepConfirm
  <2>2. status' = [status EXCEPT ![cur[p]] = Delivered(cur[p])] /\ accepted' = accepted
    BY <1>13 DEF SweepConfirm
  <2> HIDE DEF TypeOK, promiseBar, takenBar
  <2> QED
    BY <2>1, <2>2, Keeping
<1>14. ASSUME NEW p \in Process, SweepConfirmFails(p)
      PROVE  UNCHANGED <<promiseBar, takenBar>>
  BY <1>14 DEF SweepConfirmFails, LedgerThrows, Release, NextRow
<1>15. ASSUME NEW p \in Process, SweepTakenUnseen(p)
      PROVE  \E o \in Obligation : DP!Take(o)
  <2>1. cur[p] \in Obligation /\ status[cur[p]] # "absent"
    BY <1>15 DEF SweepTakenUnseen
  <2>2. status' = status /\ accepted' = [accepted EXCEPT ![cur[p]] = @ + 1]
    BY <1>15 DEF SweepTakenUnseen
  <2> HIDE DEF TypeOK, promiseBar, takenBar
  <2> QED
    BY <2>1, <2>2, Taking
<1>16. ASSUME NEW p \in Process, NEW permanent \in BOOLEAN, SweepRefused(p, permanent)
      PROVE  \/ \E S \in SUBSET Obligation : DP!GiveUp(S)
             \/ UNCHANGED <<promiseBar, takenBar>>
  <2>1. cur[p] \in Obligation
    BY <1>16 DEF SweepRefused, Refused
  <2>2. DP!GiveUp({cur[p]}) \/ UNCHANGED <<promiseBar, takenBar>>
    BY <1>16, <2>1 DEF SweepRefused, Refused, Settle, NextRow, DP!GiveUp
  <2>3. {cur[p]} \in SUBSET Obligation
    BY <2>1
  <2> HIDE DEF TypeOK, SenderInv, ConfirmInv, promiseBar, takenBar
  <2> QED
    BY <2>2, <2>3
<1>17. ASSUME NEW p \in Process, NEW permanent \in BOOLEAN, SweepSettleFails(p, permanent)
      PROVE  UNCHANGED <<promiseBar, takenBar>>
  BY <1>17 DEF SweepSettleFails, Refused, LedgerThrows, Release, NextRow
<1>18. ASSUME NEW p \in Process, SweepEnd(p)
      PROVE  UNCHANGED <<promiseBar, takenBar>>
  BY <1>18 DEF SweepEnd
<1>19. ASSUME NEW p \in Process, AbandonStale(p)
      PROVE  DP!GiveUp({o \in Obligation : Stale(p, o)})
  BY <1>19 DEF AbandonStale, Stale, DP!GiveUp
<1>20. ASSUME NEW p \in Process, PruneDelivered(p)
      PROVE  DP!Forget({o \in Obligation : Prunable(o)})
  BY <1>20 DEF PruneDelivered, Prunable, DP!Forget
<1>21. ASSUME NEW p \in Process, Crash(p)
      PROVE  UNCHANGED <<promiseBar, takenBar>>
  BY <1>21 DEF Crash
<1>22. ASSUME NEW p \in Process, Boot(p)
      PROVE  UNCHANGED <<promiseBar, takenBar>>
  BY <1>22 DEF Boot
<1>23. ASSUME NEW o \in Obligation, AgeRow(o)
      PROVE  UNCHANGED <<promiseBar, takenBar>>
  BY <1>23 DEF AgeRow
<1>24. ASSUME NEW o \in Obligation, AgeClaim(o)
      PROVE  UNCHANGED <<promiseBar, takenBar>>
  BY <1>24 DEF AgeClaim
<1>25. ASSUME NEW o \in Obligation, BecomeDue(o)
      PROVE  UNCHANGED <<promiseBar, takenBar>>
  BY <1>25 DEF BecomeDue
<1>26. CASE UNCHANGED vars
  BY <1>26 DEF vars, DP!vars
<1> HIDE DEF TypeOK, SenderInv, ConfirmInv, Unconfirmed, InFlight, Sending, Owed,
        Statuses, promiseBar, takenBar
<1>27. ASSUME NEW p \in Process, NEW o \in Obligation,
              BeginDelivery(p, o) \/ LiveEnds(p, o)
       PROVE  [DP!Next]_(DP!vars)
  BY <1>27, <1>1, <1>2, <1>3, <1>4, <1>5, <1>6 DEF LiveEnds, DP!Next, DP!vars
<1>28. ASSUME NEW p \in Process, SweepStep(p) PROVE [DP!Next]_(DP!vars)
  BY <1>28, <1>7, <1>8, <1>9, <1>10, <1>11, <1>12, <1>13, <1>14,
     <1>15, <1>16, <1>17, <1>18
  DEF SweepStep, DP!Next, DP!vars
<1>29. ASSUME NEW p \in Process, AbandonStale(p) \/ PruneDelivered(p) PROVE DP!Next
  BY <1>29, <1>19, <1>20 DEF DP!Next
<1>30. ASSUME NEW p \in Process, Crash(p) \/ Boot(p) PROVE [DP!Next]_(DP!vars)
  BY <1>30, <1>21, <1>22 DEF DP!vars
<1>31. ASSUME NEW o \in Obligation, Tick(o) PROVE [DP!Next]_(DP!vars)
  BY <1>31, <1>23, <1>24, <1>25 DEF Tick, DP!vars
<1> QED
  BY <1>26, <1>27, <1>28, <1>29, <1>30, <1>31 DEF Next

\* The ledger implements DeliveryPromise: delivered is final and means that the
\* platform took the message, in every deployment, shared bots included.
THEOREM PromiseCorrect == Spec => PromiseImplemented
<1>1. Init => SenderInv /\ ConfirmInv /\ DP!Init
  BY LedgerAssumption DEF Init, SenderInv, ConfirmInv, Unconfirmed, InFlight, Sending,
       DP!Init, promiseBar, PromiseOf, takenBar
<1> QED
  BY <1>1, SenderStep, ConfirmStep, PromiseStep, TypeCorrect, PTL
  DEF Spec, PromiseImplemented, DP!Spec

-----------------------------------------------------------------------------
(* A reply is given up for a reason.                                       *)

\* The attempts a sweep reads never run ahead of the row, nor the row's of the
\* refusals that happened (counted up to the cap).
AttemptInv ==
    /\ \A o \in Obligation : attempts[o] <= refused[o] \/ refused[o] >= MaxAttempts
    /\ \A p \in Process : \A o \in Obligation : snap[p][o] <= attempts[o]

\* Giving a row up at the cap means that the refusals are really that many, and
\* no step takes a reason back.
LEMMA GivenUpStep ==
    TypeOK /\ AttemptInv /\ GivenUpForAReason /\ [Next]_vars
      => AttemptInv' /\ GivenUpForAReason'
<1> USE LedgerAssumption DEF TypeOK, AttemptInv, GivenUpForAReason, ledgerVars,
        processVars, ghostVars
<1> SUFFICES ASSUME TypeOK, AttemptInv, GivenUpForAReason, [Next]_vars
             PROVE  AttemptInv' /\ GivenUpForAReason'
  OBVIOUS
<1>1. ASSUME NEW p \in Process, NEW o \in Obligation, BeginDelivery(p, o)
      PROVE  AttemptInv' /\ GivenUpForAReason'
  BY <1>1 DEF BeginDelivery
<1>2. ASSUME NEW p \in Process, NEW o \in Obligation, LiveAccepted(p, o)
      PROVE  AttemptInv' /\ GivenUpForAReason'
  BY <1>2 DEF LiveAccepted
<1>3. ASSUME NEW p \in Process, NEW o \in Obligation, LiveConfirm(p, o)
      PROVE  AttemptInv' /\ GivenUpForAReason'
  BY <1>3 DEF LiveConfirm, Delivered
<1>4. ASSUME NEW p \in Process, NEW o \in Obligation, LiveConfirmFails(p, o)
      PROVE  AttemptInv' /\ GivenUpForAReason'
  BY <1>4 DEF LiveConfirmFails
<1>5. ASSUME NEW p \in Process, NEW o \in Obligation, LiveTakenUnseen(p, o)
      PROVE  AttemptInv' /\ GivenUpForAReason'
  BY <1>5 DEF LiveTakenUnseen
<1>6. ASSUME NEW p \in Process, NEW o \in Obligation, LiveRefused(p, o)
      PROVE  AttemptInv' /\ GivenUpForAReason'
  BY <1>6 DEF LiveRefused
<1>7. ASSUME NEW p \in Process, SweepReclaim(p)
      PROVE  AttemptInv' /\ GivenUpForAReason'
  BY <1>7 DEF SweepReclaim, Reclaimed
<1>8. ASSUME NEW p \in Process, SweepList(p)
      PROVE  AttemptInv' /\ GivenUpForAReason'
  BY <1>8 DEF SweepList
<1>9. ASSUME NEW p \in Process, BootSweep(p)
      PROVE  AttemptInv' /\ GivenUpForAReason'
  BY <1>9 DEF BootSweep, Reclaimed
<1>10. ASSUME NEW p \in Process, NEW o \in Obligation, SweepSkip(p, o)
      PROVE  AttemptInv' /\ GivenUpForAReason'
  BY <1>10 DEF SweepSkip
<1>11. ASSUME NEW p \in Process, NEW o \in Obligation, SweepClaim(p, o)
      PROVE  AttemptInv' /\ GivenUpForAReason'
  BY <1>11 DEF SweepClaim
<1>12. ASSUME NEW p \in Process, SweepAccepted(p)
      PROVE  AttemptInv' /\ GivenUpForAReason'
  BY <1>12 DEF SweepAccepted
<1>13. ASSUME NEW p \in Process, SweepConfirm(p)
      PROVE  AttemptInv' /\ GivenUpForAReason'
  BY <1>13 DEF SweepConfirm, Delivered
<1>14. ASSUME NEW p \in Process, SweepConfirmFails(p)
      PROVE  AttemptInv' /\ GivenUpForAReason'
  BY <1>14 DEF SweepConfirmFails, LedgerThrows, Release
<1>15. ASSUME NEW p \in Process, SweepTakenUnseen(p)
      PROVE  AttemptInv' /\ GivenUpForAReason'
  BY <1>15 DEF SweepTakenUnseen
<1>16. ASSUME NEW p \in Process, NEW permanent \in BOOLEAN, SweepRefused(p, permanent)
      PROVE  AttemptInv' /\ GivenUpForAReason'
  <2> DEFINE o == cur[p]
  <2>1. /\ o \in Obligation
        /\ refused' = [refused EXCEPT ![o] = IF @ < MaxAttempts THEN @ + 1 ELSE @]
        /\ hopeless' = [hopeless EXCEPT ![o] = @ \/ permanent]
        /\ age' = age /\ snap' = snap
    BY <1>16 DEF SweepRefused, Refused, Sending
  <2>2. CASE status[o] # "redelivering"
    <3>1. status' = status /\ attempts' = attempts
      BY <1>16, <2>2 DEF SweepRefused, Settle
    <3> QED
      BY <2>1, <3>1
  <2>3. CASE status[o] = "redelivering"
    <3>1. attempts' = [attempts EXCEPT ![o] = @ + 1]
      BY <1>16, <2>3 DEF SweepRefused, Settle
    <3>2. AttemptInv'
      BY <2>1, <3>1
    <3>3. CASE GivesUp(p, permanent)
      <4>1. status' = [status EXCEPT ![o] = "abandoned"]
        BY <1>16, <2>3, <3>3 DEF SweepRefused, Settle
      <4>2. hopeless'[o] \/ refused'[o] >= MaxAttempts
        BY <2>1, <3>3 DEF GivesUp
      <4> QED
        BY <2>1, <3>2, <4>1, <4>2
    <3>4. CASE ~GivesUp(p, permanent)
      <4>1. status' = [status EXCEPT ![o] = "pending"]
        BY <1>16, <2>3, <3>4 DEF SweepRefused, Settle
      <4> QED
        BY <2>1, <3>2, <4>1
    <3> QED
      BY <3>3, <3>4
  <2> QED
    BY <2>2, <2>3
<1>17. ASSUME NEW p \in Process, NEW permanent \in BOOLEAN, SweepSettleFails(p, permanent)
      PROVE  AttemptInv' /\ GivenUpForAReason'
  BY <1>17 DEF SweepSettleFails, Refused, LedgerThrows, Release
<1>18. ASSUME NEW p \in Process, SweepEnd(p)
      PROVE  AttemptInv' /\ GivenUpForAReason'
  BY <1>18 DEF SweepEnd
<1>19. ASSUME NEW p \in Process, AbandonStale(p)
      PROVE  AttemptInv' /\ GivenUpForAReason'
  BY <1>19 DEF AbandonStale, Stale
<1>20. ASSUME NEW p \in Process, PruneDelivered(p)
      PROVE  AttemptInv' /\ GivenUpForAReason'
  BY <1>20 DEF PruneDelivered, Prunable
<1>21. ASSUME NEW p \in Process, Crash(p)
      PROVE  AttemptInv' /\ GivenUpForAReason'
  BY <1>21 DEF Crash
<1>22. ASSUME NEW p \in Process, Boot(p)
      PROVE  AttemptInv' /\ GivenUpForAReason'
  BY <1>22 DEF Boot
<1>23. ASSUME NEW o \in Obligation, AgeRow(o)
      PROVE  AttemptInv' /\ GivenUpForAReason'
  BY <1>23 DEF AgeRow
<1>24. ASSUME NEW o \in Obligation, AgeClaim(o)
      PROVE  AttemptInv' /\ GivenUpForAReason'
  BY <1>24 DEF AgeClaim
<1>25. ASSUME NEW o \in Obligation, BecomeDue(o)
      PROVE  AttemptInv' /\ GivenUpForAReason'
  BY <1>25 DEF BecomeDue
<1>26. CASE UNCHANGED vars
  BY <1>26 DEF vars
<1> HIDE DEF TypeOK, AttemptInv, GivenUpForAReason
<1> QED
  BY <1>1, <1>2, <1>3, <1>4, <1>5, <1>6, <1>7, <1>8, <1>9, <1>10, <1>11, <1>12,
     <1>13, <1>14, <1>15, <1>16, <1>17, <1>18, <1>19, <1>20, <1>21, <1>22,
     <1>23, <1>24, <1>25, <1>26
  DEF Next, LiveEnds, SweepStep, Tick

\* No reply is given up for less than expiry, a refusal for good, or MaxAttempts
\* refusals, in every deployment, shared bots included.
THEOREM GivenUpForAReasonCorrect == Spec => []GivenUpForAReason
<1>1. Init => AttemptInv /\ GivenUpForAReason
  BY LedgerAssumption DEF Init, AttemptInv, GivenUpForAReason
<1> QED
  BY <1>1, GivenUpStep, TypeCorrect, PTL DEF Spec

=============================================================================
