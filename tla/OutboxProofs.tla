---------------------------- MODULE OutboxProofs ----------------------------
(***************************************************************************)
(* Proofs about the outbox, for any number of items, gateways, revisions,  *)
(* yeses and faults: what reaches a platform is what a human said yes to.  *)
(***************************************************************************)
EXTENDS Outbox, TLAPS

-----------------------------------------------------------------------------
(* Type correctness.                                                       *)

\* No step of a human, a dispatcher, the ledger or a clock leaves the types.
LEMMA TypeStep == TypeOK /\ [Next]_vars => TypeOK'
<1> USE OutboxAssumption DEF TypeOK, itemVars, ledgerVars, procVars, ghostVars, States,
        Stages, InHand, Counters, Revision
<1> SUFFICES ASSUME TypeOK, [Next]_vars PROVE TypeOK'
  OBVIOUS
<1>1. ASSUME NEW i \in Item, Propose(i) PROVE TypeOK'
  BY <1>1 DEF Propose
<1>2. ASSUME NEW i \in Item, AttachReview(i) PROVE TypeOK'
  BY <1>2 DEF AttachReview
<1>3. ASSUME NEW i \in Item, Edit(i) PROVE TypeOK'
  BY <1>3 DEF Edit
<1>4. ASSUME NEW i \in Item, Reject(i) PROVE TypeOK'
  BY <1>4 DEF Reject
<1>5. ASSUME NEW i \in Item, Revoke(i) PROVE TypeOK'
  BY <1>5 DEF Revoke, Withdrawn
<1>6. ASSUME NEW i \in Item, Retry(i) PROVE TypeOK'
  BY <1>6 DEF Retry, SaysYes, AtWork
<1>7. ASSUME NEW i \in Item, NEW r \in Revision, Approve(i, r) PROVE TypeOK'
  BY <1>7 DEF Approve, SaysYes, UpToDate
<1>8. ASSUME NEW p \in Process, RunExpiry(p) PROVE TypeOK'
  BY <1>8 DEF RunExpiry, Step, Withdrawn, Expires, PendingExpires, ApprovalExpires
<1>9. ASSUME NEW p \in Process, ReleaseReviews(p) PROVE TypeOK'
  BY <1>9 DEF ReleaseReviews, Step, StaleSending
<1>10. ASSUME NEW p \in Process, NEW i \in Item, AskLedger(p, i) PROVE TypeOK'
  BY <1>10 DEF AskLedger, Step, Takes
<1>11. ASSUME NEW p \in Process, ReconcileSending(p) PROVE TypeOK'
  BY <1>11 DEF ReconcileSending, Step, Verdict, Settle, PutsDown
<1>12. ASSUME NEW p \in Process, ListClaimable(p) PROVE TypeOK'
  BY <1>12 DEF ListClaimable, Step
<1>13. ASSUME NEW p \in Process, NEW i \in Item, Claim(p, i) PROVE TypeOK'
  BY <1>13 DEF Claim, Step, Takes, Claimable
<1>14. ASSUME NEW p \in Process, NEW i \in Item, Skip(p, i) PROVE TypeOK'
  BY <1>14 DEF Skip
<1>15. ASSUME NEW p \in Process, Refuse(p) PROVE TypeOK'
  BY <1>15 DEF Refuse, Step, Settle, PutsDown, Spend
<1>16. ASSUME NEW p \in Process, Record(p) PROVE TypeOK'
  BY <1>16 DEF Record, Step, Spend
<1>17. ASSUME NEW p \in Process, HandOver(p) PROVE TypeOK'
  BY <1>17 DEF HandOver, Step
<1>18. ASSUME NEW p \in Process, Answer(p) PROVE TypeOK'
  BY <1>18 DEF Answer, Step
<1>19. ASSUME NEW p \in Process, Mark(p) PROVE TypeOK'
  <2>1. hand[p] \in Item
    BY <1>19 DEF Mark, Step
  <2>2. /\ state' \in [Item -> States]
        /\ reason' \in [Item -> {"none", "not_sent", "void", "unclear"}]
    BY <1>19, <2>1 DEF Mark, Outcome, Settle
  <2> QED
    BY <1>19, <2>1, <2>2 DEF Mark, Step, PutsDown
<1>20. ASSUME NEW p \in Process, EndTick(p) PROVE TypeOK'
  BY <1>20 DEF EndTick, Step
<1>21. ASSUME NEW p \in Process, Crash(p) PROVE TypeOK'
  BY <1>21 DEF Crash, PutsDown, Spend
<1>22. ASSUME NEW p \in Process, Boot(p) PROVE TypeOK'
  BY <1>22 DEF Boot, Step
<1>23. ASSUME NEW i \in Item, Clock(i) PROVE TypeOK'
  BY <1>23 DEF Clock, TurnsLate, Lapse, FallsDue
<1>24. ASSUME Outage PROVE TypeOK'
  BY <1>24 DEF Outage, Spend
<1>25. ASSUME NEW i \in Item, SweepLedger(i) PROVE TypeOK'
  BY <1>25 DEF SweepLedger
<1>26. ASSUME NEW i \in Item, PruneLedger(i) PROVE TypeOK'
  BY <1>26 DEF PruneLedger
<1>27. CASE UNCHANGED vars
  BY <1>27 DEF vars
<1> HIDE DEF TypeOK
<1> QED
  BY <1>1, <1>2, <1>3, <1>4, <1>5, <1>6, <1>7, <1>8, <1>9, <1>10, <1>11, <1>12,
     <1>13, <1>14, <1>15, <1>16, <1>17, <1>18, <1>19, <1>20, <1>21, <1>22, <1>23,
     <1>24, <1>25, <1>26, <1>27
  DEF Next, Dispatch

\* Type correctness of the outbox, including that a dispatcher holds a row exactly in
\* the stages that work on one.
THEOREM TypeCorrect == Spec => []TypeOK
<1>1. Init => TypeOK
  BY OutboxAssumption DEF Init, TypeOK, States, Stages, InHand, Counters, Revision
<1> QED
  BY <1>1, TypeStep, PTL DEF Spec

-----------------------------------------------------------------------------
(* Publication by leave.                                                   *)

OnTheWay(p) == pc[p] \in {"claimed", "recorded"}

\* A standing approval is an unused yes to the current revision, and so is a row on
\* its way to the platform, which nobody can approve, edit or claim meanwhile: an old
\* claimant whose answer comes late may have settled it.
LeaveInv ==
    /\ \A i \in Item : state[i] = "approved" => leave[i] = rev[i]
    /\ \A p \in Process : OnTheWay(p) =>
         /\ state[hand[p]] \in {"sending", "sent", "unconfirmed", "failed"}
         /\ leave[hand[p]] = rev[hand[p]]

LEMMA LeaveStep ==
    TypeOK /\ LeaveInv /\ OnePublisher /\ [Next]_vars => LeaveInv' /\ OnePublisher'
<1> USE OutboxAssumption DEF TypeOK, LeaveInv, OnePublisher, OnTheWay, itemVars, ledgerVars,
        procVars, ghostVars, InHand
<1> SUFFICES ASSUME TypeOK, LeaveInv, OnePublisher, [Next]_vars
             PROVE  LeaveInv' /\ OnePublisher'
  OBVIOUS
<1>1. ASSUME NEW i \in Item, Propose(i) PROVE LeaveInv' /\ OnePublisher'
  BY <1>1 DEF Propose
<1>2. ASSUME NEW i \in Item, AttachReview(i) PROVE LeaveInv' /\ OnePublisher'
  BY <1>2 DEF AttachReview
<1>3. ASSUME NEW i \in Item, Edit(i) PROVE LeaveInv' /\ OnePublisher'
  BY <1>3 DEF Edit
<1>4. ASSUME NEW i \in Item, Reject(i) PROVE LeaveInv' /\ OnePublisher'
  BY <1>4 DEF Reject
<1>5. ASSUME NEW i \in Item, Revoke(i) PROVE LeaveInv' /\ OnePublisher'
  BY <1>5 DEF Revoke, Withdrawn
<1>6. ASSUME NEW i \in Item, Retry(i) PROVE LeaveInv' /\ OnePublisher'
  BY <1>6 DEF Retry, SaysYes, AtWork
<1>7. ASSUME NEW i \in Item, NEW r \in Revision, Approve(i, r) PROVE LeaveInv' /\ OnePublisher'
  BY <1>7 DEF Approve, SaysYes, UpToDate
<1>8. ASSUME NEW p \in Process, RunExpiry(p) PROVE LeaveInv' /\ OnePublisher'
  BY <1>8 DEF RunExpiry, Step, Withdrawn, Expires, PendingExpires, ApprovalExpires
<1>9. ASSUME NEW p \in Process, ReleaseReviews(p) PROVE LeaveInv' /\ OnePublisher'
  BY <1>9 DEF ReleaseReviews, Step, StaleSending
<1>10. ASSUME NEW p \in Process, NEW i \in Item, AskLedger(p, i) PROVE LeaveInv' /\ OnePublisher'
  BY <1>10 DEF AskLedger, Step, Takes
<1>11. ASSUME NEW p \in Process, ReconcileSending(p) PROVE LeaveInv' /\ OnePublisher'
  BY <1>11 DEF ReconcileSending, Step, Verdict, Settle, PutsDown
<1>12. ASSUME NEW p \in Process, ListClaimable(p) PROVE LeaveInv' /\ OnePublisher'
  BY <1>12 DEF ListClaimable, Step
<1>13. ASSUME NEW p \in Process, NEW i \in Item, Claim(p, i) PROVE LeaveInv' /\ OnePublisher'
  BY <1>13 DEF Claim, Step, Takes, Claimable
<1>14. ASSUME NEW p \in Process, NEW i \in Item, Skip(p, i) PROVE LeaveInv' /\ OnePublisher'
  BY <1>14 DEF Skip
<1>15. ASSUME NEW p \in Process, Refuse(p) PROVE LeaveInv' /\ OnePublisher'
  BY <1>15 DEF Refuse, Step, Settle, PutsDown, Spend
<1>16. ASSUME NEW p \in Process, Record(p) PROVE LeaveInv' /\ OnePublisher'
  BY <1>16 DEF Record, Step, Spend
<1>17. ASSUME NEW p \in Process, HandOver(p) PROVE LeaveInv' /\ OnePublisher'
  BY <1>17 DEF HandOver, Step
<1>18. ASSUME NEW p \in Process, Answer(p) PROVE LeaveInv' /\ OnePublisher'
  BY <1>18 DEF Answer, Step
<1>19. ASSUME NEW p \in Process, Mark(p) PROVE LeaveInv' /\ OnePublisher'
  BY <1>19 DEF Mark, Step, Outcome, Settle, PutsDown
<1>20. ASSUME NEW p \in Process, EndTick(p) PROVE LeaveInv' /\ OnePublisher'
  BY <1>20 DEF EndTick, Step
<1>21. ASSUME NEW p \in Process, Crash(p) PROVE LeaveInv' /\ OnePublisher'
  BY <1>21 DEF Crash, PutsDown, Spend
<1>22. ASSUME NEW p \in Process, Boot(p) PROVE LeaveInv' /\ OnePublisher'
  BY <1>22 DEF Boot, Step
<1>23. ASSUME NEW i \in Item, Clock(i) PROVE LeaveInv' /\ OnePublisher'
  BY <1>23 DEF Clock, TurnsLate, Lapse, FallsDue
<1>24. ASSUME Outage PROVE LeaveInv' /\ OnePublisher'
  BY <1>24 DEF Outage, Spend
<1>25. ASSUME NEW i \in Item, SweepLedger(i) PROVE LeaveInv' /\ OnePublisher'
  BY <1>25 DEF SweepLedger
<1>26. ASSUME NEW i \in Item, PruneLedger(i) PROVE LeaveInv' /\ OnePublisher'
  BY <1>26 DEF PruneLedger
<1>27. CASE UNCHANGED vars
  BY <1>27 DEF vars
<1> HIDE DEF TypeOK, LeaveInv, OnePublisher
<1> QED
  BY <1>1, <1>2, <1>3, <1>4, <1>5, <1>6, <1>7, <1>8, <1>9, <1>10, <1>11, <1>12,
     <1>13, <1>14, <1>15, <1>16, <1>17, <1>18, <1>19, <1>20, <1>21, <1>22, <1>23,
     <1>24, <1>25, <1>26, <1>27
  DEF Next, Dispatch

LEMMA LeaveCorrect == Spec => [](LeaveInv /\ OnePublisher)
<1>1. Init => LeaveInv /\ OnePublisher
  BY DEF Init, LeaveInv, OnePublisher, OnTheWay
<1> QED
  BY <1>1, LeaveStep, TypeCorrect, PTL DEF Spec

\* Two dispatchers never take the same publication to the platform.
THEOREM OnePublisherCorrect == Spec => []OnePublisher
  BY LeaveCorrect, PTL

\* Nothing is published but on a standing, unused yes to that text.
THEOREM PublishedByLeaveCorrect == Spec => PublishedByLeave
<1> DEFINE ByLeave == \A p \in Process : pc[p] = "recorded" /\ pc'[p] = "handed" =>
                        leave[hand[p]] = rev[hand[p]]
<1>1. LeaveInv /\ [Next]_vars => ByLeave
  BY DEF LeaveInv, OnTheWay
<1>2. [][ByLeave]_vars => PublishedByLeave
  BY DEF PublishedByLeave
<1> HIDE DEF ByLeave
<1> QED
  BY <1>1, <1>2, LeaveCorrect, PTL DEF Spec

-----------------------------------------------------------------------------
(* The ledger's word.                                                      *)

\* A row the dispatcher is reconciling: listed stale, or asked about.
Reconciling(p, i) ==
    \/ i \in list[p] /\ pc[p] \in {"reconcile", "verdict"}
    \/ hand[p] = i /\ pc[p] = "verdict"

Handing(p) == pc[p] \in {"recorded", "handed", "answered"}

\* While the ledger is whole: a publication with a ledger row is never back in human
\* hands, every live send has its row, nothing on its way is stale or reconciled,
\* and a dispatcher that found no row is right until it marks.
LedgerInv ==
    LedgerWhole =>
      /\ aged = {}
      /\ \A i \in Item :
           /\ ledger[i] # "none" => state[i] \in {"sending", "sent", "unconfirmed"}
           /\ i \in called /\ state[i] \in {"sending", "approved", "failed"} =>
                ledger[i] # "none"
      /\ \A p \in Process :
           /\ pc[p] = "claimed" => ledger[hand[p]] = "none" /\ state[hand[p]] = "sending"
           /\ Handing(p) => p \in row /\ ledger[hand[p]] # "none"
           /\ pc[p] = "verdict" /\ p \notin row => ledger[hand[p]] = "none"
           /\ OnTheWay(p) => hand[p] \notin late
      /\ \A p \in Process, i \in Item : Reconciling(p, i) =>
           /\ state[i] \in {"sending", "sent", "unconfirmed", "failed"}
           /\ \A q \in Process : OnTheWay(q) => hand[q] # i

LEMMA LedgerStep ==
    TypeOK /\ LeaveInv /\ OnePublisher /\ LedgerInv /\ [Next]_vars => LedgerInv'
<1> USE OutboxAssumption DEF TypeOK, LeaveInv, OnePublisher, LedgerInv, LedgerWhole,
        OnTheWay, Handing, Reconciling, itemVars, ledgerVars, procVars, ghostVars, InHand,
        Counters
<1> SUFFICES ASSUME TypeOK, LeaveInv, OnePublisher, LedgerInv, [Next]_vars
             PROVE  LedgerInv'
  OBVIOUS
<1>1. ASSUME NEW i \in Item, Propose(i) PROVE LedgerInv'
  BY <1>1 DEF Propose
<1>2. ASSUME NEW i \in Item, AttachReview(i) PROVE LedgerInv'
  BY <1>2 DEF AttachReview
<1>3. ASSUME NEW i \in Item, Edit(i) PROVE LedgerInv'
  BY <1>3 DEF Edit
<1>4. ASSUME NEW i \in Item, Reject(i) PROVE LedgerInv'
  BY <1>4 DEF Reject
<1>5. ASSUME NEW i \in Item, Revoke(i) PROVE LedgerInv'
  BY <1>5 DEF Revoke, Withdrawn
<1>6. ASSUME NEW i \in Item, Retry(i) PROVE LedgerInv'
  BY <1>6 DEF Retry, SaysYes, AtWork
<1>7. ASSUME NEW i \in Item, NEW r \in Revision, Approve(i, r) PROVE LedgerInv'
  BY <1>7 DEF Approve, SaysYes, UpToDate
<1>8. ASSUME NEW p \in Process, RunExpiry(p) PROVE LedgerInv'
  BY <1>8 DEF RunExpiry, Step, Withdrawn, Expires, PendingExpires, ApprovalExpires
<1>9. ASSUME NEW p \in Process, ReleaseReviews(p) PROVE LedgerInv'
  <2>1. \A i \in Item : state[i] # state'[i] =>
          state[i] = "awaiting_review" /\ state'[i] = "awaiting_approval"
    BY <1>9 DEF ReleaseReviews
  <2>2. /\ list' = [list EXCEPT ![p] = StaleSending]
        /\ pc' = [pc EXCEPT ![p] = "reconcile"] /\ pc[p] = "expired"
        /\ state' \in [Item -> States]
        /\ UNCHANGED <<rev, late, ledger, aged, hand, row, called, spent>>
    BY <1>9 DEF ReleaseReviews, Step, States
  <2>3. \A i \in StaleSending : i \in Item /\ state[i] = "sending" /\ i \in late
    BY DEF StaleSending
  <2>4. ASSUME LedgerWhole, NEW q \in Process, NEW i \in Item, Reconciling(q, i)'
        PROVE  /\ state'[i] \in {"sending", "sent", "unconfirmed", "failed"}
               /\ \A r \in Process : OnTheWay(r)' => hand'[r] # i
    <3>1. CASE q = p
      BY <2>1, <2>2, <2>3, <2>4, <3>1
    <3>2. CASE q # p
      BY <2>1, <2>2, <2>4, <3>2
    <3> QED
      BY <3>1, <3>2
  <2> QED
    BY <2>1, <2>2, <2>4
<1>10. ASSUME NEW p \in Process, NEW i \in Item, AskLedger(p, i) PROVE LedgerInv'
  BY <1>10 DEF AskLedger, Step, Takes
<1>11. ASSUME NEW p \in Process, ReconcileSending(p) PROVE LedgerInv'
  <2>1. /\ hand[p] \in Item /\ Reconciling(p, hand[p])
        /\ pc[p] = "verdict" /\ pc' = [pc EXCEPT ![p] = "reconcile"]
        /\ hand' = [hand EXCEPT ![p] = None] /\ row' = row \ {p}
        /\ UNCHANGED <<late, ledger, aged, list, called, spent>>
    BY <1>11 DEF ReconcileSending, Step, PutsDown
  <2>2. \A i \in Item :
          \/ state'[i] = state[i]
          \/ /\ i = hand[p] /\ state[i] = "sending"
             /\ \/ state'[i] = "unconfirmed"
                \/ state'[i] = "failed" /\ p \notin row
    BY <1>11, <2>1 DEF ReconcileSending, Verdict, Settle
  <2> SUFFICES ASSUME LedgerWhole PROVE LedgerInv'
    BY <2>1
  <2>3. \A i \in Item :
          /\ ledger'[i] # "none" => state'[i] \in {"sending", "sent", "unconfirmed"}
          /\ i \in called' /\ state'[i] \in {"sending", "approved", "failed"} =>
               ledger'[i] # "none"
    BY <2>1, <2>2
  <2>4. ASSUME NEW q \in Process
        PROVE  /\ pc'[q] = "claimed" => ledger'[hand'[q]] = "none"
                                        /\ state'[hand'[q]] = "sending"
               /\ Handing(q)' => q \in row' /\ ledger'[hand'[q]] # "none"
               /\ pc'[q] = "verdict" /\ q \notin row' => ledger'[hand'[q]] = "none"
               /\ OnTheWay(q)' => hand'[q] \notin late'
    <3>1. CASE q = p
      BY <2>1, <3>1
    <3>2. CASE q # p
      <4>1. /\ pc'[q] = pc[q] /\ hand'[q] = hand[q] /\ (q \in row' <=> q \in row)
        BY <2>1, <3>2
      <4>2. pc[q] = "claimed" => hand[q] # hand[p] /\ hand[q] \in Item
        BY <2>1
      <4> QED
        BY <2>1, <2>2, <4>1, <4>2
    <3> QED
      BY <3>1, <3>2
  <2>5. ASSUME NEW q \in Process, NEW i \in Item, Reconciling(q, i)'
        PROVE  /\ state'[i] \in {"sending", "sent", "unconfirmed", "failed"}
               /\ \A r \in Process : OnTheWay(r)' => hand'[r] # i
    <3>1. Reconciling(q, i)
      BY <2>1, <2>5
    <3> QED
      BY <2>1, <2>2, <2>5, <3>1
  <2> QED
    BY <2>1, <2>3, <2>4, <2>5
<1>12. ASSUME NEW p \in Process, ListClaimable(p) PROVE LedgerInv'
  BY <1>12 DEF ListClaimable, Step
<1>13. ASSUME NEW p \in Process, NEW i \in Item, Claim(p, i) PROVE LedgerInv'
  BY <1>13 DEF Claim, Step, Takes, Claimable
<1>14. ASSUME NEW p \in Process, NEW i \in Item, Skip(p, i) PROVE LedgerInv'
  BY <1>14 DEF Skip
<1>15. ASSUME NEW p \in Process, Refuse(p) PROVE LedgerInv'
  BY <1>15 DEF Refuse, Step, Settle, PutsDown, Spend
<1>16. ASSUME NEW p \in Process, Record(p) PROVE LedgerInv'
  BY <1>16 DEF Record, Step, Spend
<1>17. ASSUME NEW p \in Process, HandOver(p) PROVE LedgerInv'
  BY <1>17 DEF HandOver, Step
<1>18. ASSUME NEW p \in Process, Answer(p) PROVE LedgerInv'
  BY <1>18 DEF Answer, Step
<1>19. ASSUME NEW p \in Process, Mark(p) PROVE LedgerInv'
  BY <1>19 DEF Mark, Step, Outcome, Settle, PutsDown
<1>20. ASSUME NEW p \in Process, EndTick(p) PROVE LedgerInv'
  BY <1>20 DEF EndTick, Step
<1>21. ASSUME NEW p \in Process, Crash(p) PROVE LedgerInv'
  BY <1>21 DEF Crash, PutsDown, Spend
<1>22. ASSUME NEW p \in Process, Boot(p) PROVE LedgerInv'
  BY <1>22 DEF Boot, Step
<1>23. ASSUME NEW i \in Item, Clock(i) PROVE LedgerInv'
  BY <1>23 DEF Clock, TurnsLate, Lapse, FallsDue
<1>24. ASSUME Outage PROVE LedgerInv'
  BY <1>24 DEF Outage, Spend
<1>25. ASSUME NEW i \in Item, SweepLedger(i) PROVE LedgerInv'
  BY <1>25 DEF SweepLedger
<1>26. ASSUME NEW i \in Item, PruneLedger(i) PROVE LedgerInv'
  BY <1>26 DEF PruneLedger
<1>27. CASE UNCHANGED vars
  BY <1>27 DEF vars
<1> HIDE DEF TypeOK, LeaveInv, OnePublisher, LedgerInv
<1> QED
  BY <1>1, <1>2, <1>3, <1>4, <1>5, <1>6, <1>7, <1>8, <1>9, <1>10, <1>11, <1>12,
     <1>13, <1>14, <1>15, <1>16, <1>17, <1>18, <1>19, <1>20, <1>21, <1>22, <1>23,
     <1>24, <1>25, <1>26, <1>27
  DEF Next, Dispatch

LEMMA LedgerCorrect == Spec => []LedgerInv
<1>1. Init => LedgerInv
  BY DEF Init, LedgerInv, OnTheWay, Handing, Reconciling
<1> QED
  BY <1>1, LedgerStep, LeaveCorrect, TypeCorrect, PTL DEF Spec

\* While the ledger is whole, a human is told "not sent" only of what was not sent.
THEOREM NotSentIsTrueCorrect == Spec => []NotSentIsTrue
<1>1. LedgerInv => NotSentIsTrue
  BY DEF LedgerInv, NotSentIsTrue
<1> QED
  BY <1>1, LedgerCorrect, PTL

\* While the ledger is whole, the outbox leaves to the ledger what has a row there.
THEOREM OneRetryOwnerCorrect == Spec => OneRetryOwner
<1> DEFINE Owner == \A p \in Process :
                      pc[p] = "claimed" /\ pc'[p] = "recorded" /\ LedgerWhole =>
                        ledger[hand[p]] = "none"
<1>1. LedgerInv /\ [Next]_vars => Owner
  BY DEF LedgerInv
<1>2. [][Owner]_vars => OneRetryOwner
  BY DEF OneRetryOwner
<1> HIDE DEF Owner
<1> QED
  BY <1>1, <1>2, LedgerCorrect, PTL DEF Spec
=============================================================================
