------------------------- MODULE GatewayTurnsProofs -------------------------
(***************************************************************************)
(* Proofs about GatewayTurns, for any number of messages and rows, and any *)
(* bounds on crashes, shutdowns, throws and operations.                    *)
(*                                                                         *)
(* HeldInv is the first inductive invariant: the spool table is a one-     *)
(* level tree (Shape, Tree), kills stay within the attempts (Budget), and  *)
(* each call, queued task, unread steer and the running turn holds an owed *)
(* row of its own (TasksHeld, Apart, TurnHeld).  TypeOK, HeldRowsOwed and  *)
(* CrashLoopBounded follow.                                                *)
(*                                                                         *)
(* TextInv is inductive with it: a message is in one row at most, what the *)
(* disk knows of tools and replies is in the row its text runs with        *)
(* (Durable), nothing is lost (NoneLost), a task's text is that of its row *)
(* and of the rows absorbed into it (LaneText), and a turn that may close  *)
(* its row has settled its text (EndText); each of them but for astray     *)
(* messages.  OnlyAstrayLost, ToolsNotRepeated and RepliedOnce follow.     *)
(*                                                                         *)
(* The spool's methods are first reduced to a few shapes of table update   *)
(* (Settles, Rewrites, Relinks, Reopens, Inserts), so that what an update  *)
(* keeps is proved once per shape and not once per method.                 *)
(***************************************************************************)
EXTENDS GatewayTurns, TLAPS, FiniteSetTheorems

Table == [Row -> RowType]

\* The row is to be run by somebody.
Owes(rs, r) == rs[r].status \in {"received", "processing"}

\* The rows in use are the first ones; an unused row is blank.
Shape(rs) ==
    /\ rs \in Table
    /\ \E n \in 0..MaxRows : Used(rs) = 1..n
    /\ \A r \in Row : rs[r].status = "absent" =>
          rs[r].key = NoMessage /\ rs[r].text = {} /\ rs[r].into = None

\* Absorption is one level deep, and an absorbed row shares the fate of its primary.
Tree(rs) ==
    \A c \in Row : rs[c].into # None =>
        LET p == rs[c].into IN
        /\ p # c /\ rs[p].into = None /\ rs[p].status # "absent"
        /\ rs[c].status \notin {"absent", "processing"}
        /\ rs[c].status = "received" => Owes(rs, p)
        /\ rs[c].status \in {"interrupted", "dead"} => rs[p].status = rs[c].status

\* Replies are recorded for rows in use; no process is newer than the current one.
Obligations(rs, ob) == \A r \in Row : rs[r].status = "absent" => r \notin ob

Owned(rs, o) == \A r \in Row : rs[r].owner <= o

\* A kill has been counted as an attempt, and an owed row's attempts are within the cap.
Budget(rs, k) ==
    \A r \in Row :
        /\ k[r] <= MaxAttempts
        /\ Owes(rs, r) => k[r] <= rs[r].attempts /\ rs[r].attempts <= MaxAttempts
        /\ rs[r].status = "absent" => k[r] = 0

\* The row r and the rows that go with it.
Family(rs, r) == {c \in Row : c = r \/ (rs[c].into = r /\ rs[c].status # "done")}

\* The rows of E, and no others, take the status `to`.
Settles(rs, ns, E, to) ==
    /\ ns \in Table
    /\ \A c \in Row \ E : ns[c] = rs[c]
    /\ \A c \in E : /\ ns[c].status = to
                    /\ ns[c].text = (IF to = "done" THEN {} ELSE rs[c].text)
                    /\ ns[c].owner \in {None, rs[c].owner}
                    /\ ns[c].key = rs[c].key /\ ns[c].attempts = rs[c].attempts
                    /\ ns[c].tool = rs[c].tool /\ ns[c].into = rs[c].into

\* The types of a row's fields.
LEMMA RowFields ==
    ASSUME NEW rs \in Table, NEW r \in Row
    PROVE  /\ rs[r].status \in Statuses /\ rs[r].key \in Message \cup {NoMessage}
           /\ rs[r].text \subseteq Message /\ rs[r].attempts \in Nat /\ rs[r].owner \in Nat
           /\ rs[r].tool \in BOOLEAN /\ rs[r].into \in Row \cup {None}
BY DEF Table, RowType

\* Rows are positive numbers, and None, which is 0, is no row.
LEMMA RowNumbers == None \notin Row /\ Row \subseteq Nat /\ None \in Nat
BY SpoolAssumption DEF Row, None

\* One row of a table written anew.
LEMMA OneRow ==
    ASSUME NEW rs \in Table, NEW r \in Row, NEW e \in RowType
    PROVE  /\ [rs EXCEPT ![r] = e] \in Table /\ [rs EXCEPT ![r] = e][r] = e
           /\ \A c \in Row : c # r => [rs EXCEPT ![r] = e][c] = rs[c]
BY DEF Table

\* What a terminal written to the absorbed rows does.
LEMMA CascadeFields ==
    ASSUME NEW rs \in Table, NEW p \in Row, NEW from, NEW to \in Statuses
    PROVE  Settles(rs, CascadeAbsorbed(rs, p, from, to), Absorbed(rs, p, from), to)
<1> DEFINE ns == CascadeAbsorbed(rs, p, from, to)
           E == Absorbed(rs, p, from)
<1>1. ASSUME NEW c \in Row, c \notin E
      PROVE  ns[c] = rs[c]
  BY <1>1 DEF CascadeAbsorbed
<1>2. ASSUME NEW c \in E
      PROVE  /\ ns[c] \in RowType /\ ns[c].status = to
             /\ ns[c].text = (IF to = "done" THEN {} ELSE rs[c].text)
             /\ ns[c].owner = None
             /\ ns[c].key = rs[c].key /\ ns[c].attempts = rs[c].attempts
             /\ ns[c].tool = rs[c].tool /\ ns[c].into = rs[c].into
  <2>1. c \in Row
    BY DEF Absorbed
  <2>2. ns[c] = [rs[c] EXCEPT !.status = to, !.owner = None,
                              !.text = IF to = "done" THEN {} ELSE @]
    BY <2>1, <1>2 DEF CascadeAbsorbed
  <2>3. rs[c] \in RowType /\ None \in Nat
    BY <2>1, RowNumbers DEF Table
  <2> HIDE DEF ns, E
  <2> QED
    BY <2>2, <2>3 DEF RowType
<1>3. ns \in Table
  <2>1. \A c \in Row : ns[c] \in RowType
    BY <1>1, <1>2 DEF Table
  <2> QED
    BY <2>1 DEF CascadeAbsorbed, Table
<1>4. E \subseteq Row
  BY DEF Absorbed
<1>5. Settles(rs, ns, E, to)
  <2> HIDE DEF ns, E
  <2> QED
    BY <1>1, <1>2, <1>3, <1>4 DEF Settles
<1> QED
  BY <1>5

\* A row closed in its own right, and the absorbed rows with it.
LEMMA SettlesBoth ==
    ASSUME NEW rs \in Table, NEW r \in Row, NEW from, NEW to \in Statuses, NEW e \in RowType,
           e.status = to, e.text = (IF to = "done" THEN {} ELSE rs[r].text),
           e.owner \in {None, rs[r].owner}, e.key = rs[r].key, e.attempts = rs[r].attempts,
           e.tool = rs[r].tool, e.into = rs[r].into, e.into # r,
           Absorbed(rs, r, from) = Family(rs, r) \ {r}
    PROVE  Settles(rs, CascadeAbsorbed([rs EXCEPT ![r] = e], r, from, to), Family(rs, r), to)
<1> DEFINE ms == [rs EXCEPT ![r] = e]
           ns == CascadeAbsorbed(ms, r, from, to)
<1>1. ms \in Table /\ ms[r] = e /\ \A c \in Row : c # r => ms[c] = rs[c]
  BY OneRow
<1> HIDE DEF ms
<1>2. Absorbed(ms, r, from) = Absorbed(rs, r, from)
  BY <1>1 DEF Absorbed, Family
<1>3. Settles(ms, ns, Absorbed(rs, r, from), to)
  BY <1>1, <1>2, CascadeFields
<1>4. r \in Family(rs, r) /\ Family(rs, r) \subseteq Row
  BY DEF Family
<1> HIDE DEF ns
<1>5. ns \in Table /\ \A c \in Row \ Family(rs, r) : ns[c] = rs[c]
  BY <1>1, <1>3, <1>4 DEF Settles
<1>6. ns[r] = e
  BY <1>1, <1>3 DEF Settles
<1>7. ASSUME NEW c \in Family(rs, r), c # r
      PROVE  /\ ns[c].status = to
             /\ ns[c].text = (IF to = "done" THEN {} ELSE rs[c].text)
             /\ ns[c].owner \in {None, rs[c].owner}
             /\ ns[c].key = rs[c].key /\ ns[c].attempts = rs[c].attempts
             /\ ns[c].tool = rs[c].tool /\ ns[c].into = rs[c].into
  <2>1. c \in Absorbed(rs, r, from) /\ ms[c] = rs[c]
    BY <1>1, <1>4, <1>7
  <2> QED
    BY <2>1, <1>3 DEF Settles
<1>8. Settles(rs, ns, Family(rs, r), to)
  BY <1>5, <1>6, <1>7 DEF Settles
<1> QED
  BY <1>8 DEF ns, ms

\* Which rows are absorbed into r depends on r's own status.
LEMMA FamilyStatus ==
    ASSUME NEW rs \in Table, Tree(rs), NEW r \in Row, NEW from
    PROVE  /\ rs[r].into # r
           /\ Owes(rs, r) /\ from \in {{"received"}, {"received", "interrupted"}}
                => Absorbed(rs, r, from) = Family(rs, r) \ {r}
           /\ rs[r].status = "interrupted" /\ from \in {{"interrupted"}, {"dead", "interrupted"}}
                => Absorbed(rs, r, from) = Family(rs, r) \ {r}
           /\ rs[r].status = "dead" /\ from = {"dead", "interrupted"}
                => Absorbed(rs, r, from) = Family(rs, r) \ {r}
<1>1. rs[r].into # r
  BY RowNumbers DEF Tree
<1>2. ASSUME NEW c \in Row, rs[c].into = r
      PROVE  /\ c # r /\ rs[c].status \in {"received", "interrupted", "dead", "done"}
             /\ rs[c].status = "received" => Owes(rs, r)
             /\ rs[c].status \in {"interrupted", "dead"} => rs[r].status = rs[c].status
  BY <1>1, <1>2, RowFields, RowNumbers DEF Tree, Statuses
<1>3. Absorbed(rs, r, from) = {c \in Row : rs[c].into = r /\ rs[c].status \in from}
  BY DEF Absorbed
<1>4. Family(rs, r) \ {r} = {c \in Row : rs[c].into = r /\ rs[c].status # "done"}
  BY <1>1 DEF Family
<1> QED
  BY <1>1, <1>2, <1>3, <1>4 DEF Owes

\* markDone closes an owed row and the rows absorbed into it, and drops their text.
LEMMA MarkDoneSettles ==
    ASSUME NEW rs \in Table, Tree(rs), NEW r \in Row, Owes(rs, r)
    PROVE  Settles(rs, MarkDone(rs, r), Family(rs, r), "done")
<1> DEFINE e == [rs[r] EXCEPT !.status = "done", !.text = {}]
<1>1. rs[r] \in RowType /\ None \in Nat
  BY RowNumbers DEF Table
<1>2. /\ e \in RowType /\ e.status = "done" /\ e.text = {} /\ e.owner = rs[r].owner
      /\ e.key = rs[r].key /\ e.attempts = rs[r].attempts /\ e.tool = rs[r].tool
      /\ e.into = rs[r].into
  BY <1>1 DEF RowType, Statuses
<1>3. [rs EXCEPT ![r].status = "done", ![r].text = {}] = [rs EXCEPT ![r] = e]
  BY <1>1 DEF Table
<1>4. MarkDone(rs, r) = CascadeAbsorbed([rs EXCEPT ![r] = e], r, {"received", "interrupted"}, "done")
  BY <1>3 DEF MarkDone, Owes
<1>5. rs[r].into # r /\ Absorbed(rs, r, {"received", "interrupted"}) = Family(rs, r) \ {r}
  BY FamilyStatus DEF Owes
<1> HIDE DEF e
<1> QED
  BY <1>2, <1>4, <1>5, SettlesBoth DEF Statuses

\* markInterrupted sets an owed row and its absorbed rows aside for the user.
LEMMA MarkInterruptedSettles ==
    ASSUME NEW rs \in Table, Tree(rs), NEW r \in Row, Owes(rs, r)
    PROVE  Settles(rs, MarkInterrupted(rs, r), Family(rs, r), "interrupted")
<1> DEFINE e == [rs[r] EXCEPT !.status = "interrupted", !.owner = None]
<1>1. rs[r] \in RowType /\ None \in Nat
  BY RowNumbers DEF Table
<1>2. /\ e \in RowType /\ e.status = "interrupted" /\ e.text = rs[r].text /\ e.owner = None
      /\ e.key = rs[r].key /\ e.attempts = rs[r].attempts /\ e.tool = rs[r].tool
      /\ e.into = rs[r].into
  BY <1>1 DEF RowType, Statuses
<1>3. [rs EXCEPT ![r].status = "interrupted", ![r].owner = None] = [rs EXCEPT ![r] = e]
  BY <1>1 DEF Table
<1>4. MarkInterrupted(rs, r) = CascadeAbsorbed([rs EXCEPT ![r] = e], r, {"received"}, "interrupted")
  BY <1>3 DEF MarkInterrupted, Owes
<1>5. rs[r].into # r /\ Absorbed(rs, r, {"received"}) = Family(rs, r) \ {r}
  BY FamilyStatus DEF Owes
<1> HIDE DEF e
<1> QED
  BY <1>2, <1>4, <1>5, SettlesBoth DEF Statuses

\* markDead dead-letters an unclaimed row with its absorbed rows.
LEMMA MarkDeadSettles ==
    ASSUME NEW rs \in Table, Tree(rs), NEW r \in Row, rs[r].status = "received",
           rs[r].owner = None
    PROVE  Settles(rs, MarkDead(rs, r), Family(rs, r), "dead")
<1> DEFINE e == [rs[r] EXCEPT !.status = "dead"]
<1>1. rs[r] \in RowType /\ None \in Nat
  BY RowNumbers DEF Table
<1>2. /\ e \in RowType /\ e.status = "dead" /\ e.text = rs[r].text /\ e.owner = rs[r].owner
      /\ e.key = rs[r].key /\ e.attempts = rs[r].attempts /\ e.tool = rs[r].tool
      /\ e.into = rs[r].into
  BY <1>1 DEF RowType, Statuses
<1>3. [rs EXCEPT ![r].status = "dead"] = [rs EXCEPT ![r] = e]
  BY <1>1 DEF Table
<1>4. MarkDead(rs, r) = CascadeAbsorbed([rs EXCEPT ![r] = e], r, {"received"}, "dead")
  BY <1>3 DEF MarkDead
<1>5. rs[r].into # r /\ Absorbed(rs, r, {"received"}) = Family(rs, r) \ {r}
  BY FamilyStatus DEF Owes
<1> HIDE DEF e
<1> QED
  BY <1>2, <1>4, <1>5, SettlesBoth DEF Statuses

\* discard closes a dead or interrupted row with its absorbed rows.
LEMMA DiscardSettles ==
    ASSUME NEW rs \in Table, Tree(rs), NEW r \in Row, rs[r].status \in {"dead", "interrupted"}
    PROVE  Settles(rs, Discard(rs, r), Family(rs, r), "done")
<1> DEFINE e == [rs[r] EXCEPT !.status = "done", !.text = {}]
<1>1. rs[r] \in RowType /\ None \in Nat
  BY RowNumbers DEF Table
<1>2. /\ e \in RowType /\ e.status = "done" /\ e.text = {} /\ e.owner = rs[r].owner
      /\ e.key = rs[r].key /\ e.attempts = rs[r].attempts /\ e.tool = rs[r].tool
      /\ e.into = rs[r].into
  BY <1>1 DEF RowType, Statuses
<1>3. [rs EXCEPT ![r].status = "done", ![r].text = {}] = [rs EXCEPT ![r] = e]
  BY <1>1 DEF Table
<1>4. Discard(rs, r) = CascadeAbsorbed([rs EXCEPT ![r] = e], r, {"dead", "interrupted"}, "done")
  BY <1>3 DEF Discard
<1>5. rs[r].into # r /\ Absorbed(rs, r, {"dead", "interrupted"}) = Family(rs, r) \ {r}
  BY FamilyStatus DEF Owes
<1> HIDE DEF e
<1> QED
  BY <1>2, <1>4, <1>5, SettlesBoth DEF Statuses

\* The row a retry replaces is closed like a discarded one.
Replaced(rs, r) ==
    CascadeAbsorbed([rs EXCEPT ![r].status = "done", ![r].text = {}], r, {"interrupted"}, "done")

\* The first half of retryInterrupted: the interrupted row closes with its absorbed rows.
LEMMA ReplacedSettles ==
    ASSUME NEW rs \in Table, Tree(rs), NEW r \in Row, rs[r].status = "interrupted"
    PROVE  Settles(rs, Replaced(rs, r), Family(rs, r), "done")
<1> DEFINE e == [rs[r] EXCEPT !.status = "done", !.text = {}]
<1>1. rs[r] \in RowType /\ None \in Nat
  BY RowNumbers DEF Table
<1>2. /\ e \in RowType /\ e.status = "done" /\ e.text = {} /\ e.owner = rs[r].owner
      /\ e.key = rs[r].key /\ e.attempts = rs[r].attempts /\ e.tool = rs[r].tool
      /\ e.into = rs[r].into
  BY <1>1 DEF RowType, Statuses
<1>3. [rs EXCEPT ![r].status = "done", ![r].text = {}] = [rs EXCEPT ![r] = e]
  BY <1>1 DEF Table
<1>4. Replaced(rs, r) = CascadeAbsorbed([rs EXCEPT ![r] = e], r, {"interrupted"}, "done")
  BY <1>3 DEF Replaced
<1>5. rs[r].into # r /\ Absorbed(rs, r, {"interrupted"}) = Family(rs, r) \ {r}
  BY FamilyStatus DEF Owes
<1> HIDE DEF e
<1> QED
  BY <1>2, <1>4, <1>5, SettlesBoth DEF Statuses

\* A failed turn is owed again, or its row is settled with its absorbed rows.
LEMMA MarkFailedSettles ==
    ASSUME NEW rs \in Table, Tree(rs), NEW r \in Row, Owes(rs, r), NEW to,
           to = FailOutcome(rs, r, MaxAttempts), to # "received"
    PROVE  /\ to \in {"dead", "interrupted"}
           /\ Settles(rs, MarkFailed(rs, r, MaxAttempts), Family(rs, r), to)
<1> DEFINE e == [rs[r] EXCEPT !.status = to, !.owner = IF to = "interrupted" THEN None ELSE @]
<1>0. to \in {"dead", "interrupted"}
  BY DEF FailOutcome
<1>1. rs[r] \in RowType /\ None \in Nat
  BY RowNumbers DEF Table
<1>2. /\ e \in RowType /\ e.status = to /\ e.text = rs[r].text /\ e.owner \in {None, rs[r].owner}
      /\ e.key = rs[r].key /\ e.attempts = rs[r].attempts /\ e.tool = rs[r].tool
      /\ e.into = rs[r].into
  BY <1>0, <1>1 DEF RowType, Statuses
<1>3. [rs EXCEPT ![r].status = to, ![r].owner = IF to = "interrupted" THEN None ELSE @]
        = [rs EXCEPT ![r] = e]
  BY <1>1 DEF Table
<1>4. MarkFailed(rs, r, MaxAttempts) = CascadeAbsorbed([rs EXCEPT ![r] = e], r, {"received"}, to)
  BY <1>3 DEF MarkFailed, Owes
<1>5. rs[r].into # r /\ Absorbed(rs, r, {"received"}) = Family(rs, r) \ {r}
  BY FamilyStatus
<1> HIDE DEF e
<1> QED
  BY <1>0, <1>2, <1>4, <1>5, SettlesBoth DEF Statuses

-----------------------------------------------------------------------------
(* What the writes keep of the spool.                                      *)

\* The table is well formed.
Form(rs, ob, o) == Shape(rs) /\ Tree(rs) /\ Owned(rs, o) /\ Obligations(rs, ob)

SpoolOK(rs, ob, o, k) == Form(rs, ob, o) /\ Budget(rs, k)

\* A set of rows that is settled together: no row outside it hangs on one inside.
Closed(rs, E) ==
    /\ E \subseteq {r \in Row : rs[r].status # "absent"}
    /\ \A c \in Row : rs[c].into \in E => c \in E \/ rs[c].status = "done"

\* What goes with a row in use is in use, and takes all that is absorbed into it along.
LEMMA FamilyClosed ==
    ASSUME NEW rs \in Table, Tree(rs), NEW r \in Row, rs[r].status # "absent"
    PROVE  /\ Closed(rs, Family(rs, r)) /\ r \in Family(rs, r)
           /\ rs[r].into = None =>
                \A c \in Family(rs, r) : rs[c].into = None \/ rs[c].into \in Family(rs, r)
<1>1. \A c \in Row : rs[c].into # None =>
        rs[rs[c].into].into = None /\ rs[c].status # "absent"
  BY DEF Tree
<1>2. ASSUME NEW c \in Family(rs, r)
      PROVE  c \in Row /\ rs[c].status # "absent" /\ (c = r \/ rs[c].into = r)
  BY <1>1, <1>2, RowNumbers DEF Family
<1>3. ASSUME NEW c \in Row, rs[c].into \in Family(rs, r), c \notin Family(rs, r)
      PROVE  rs[c].status = "done"
  BY <1>1, <1>2, <1>3, RowNumbers DEF Family
<1> QED
  BY <1>2, <1>3 DEF Closed, Family

\* Writing to rows in use leaves the unused ones where they were.
LEMMA SameUsed ==
    ASSUME NEW rs \in Table, NEW ns \in Table, Shape(rs),
           \A c \in Row : ns[c].status = "absent" <=> rs[c].status = "absent",
           \A c \in Row : rs[c].status = "absent" => ns[c] = rs[c]
    PROVE  Shape(ns)
BY DEF Shape, Used

\* Settling a set of rows that is closed under absorption keeps the table well formed.
LEMMA SettlesKeeps ==
    ASSUME NEW rs, NEW ob, NEW o, NEW k, Form(rs, ob, o), NEW E, Closed(rs, E),
           NEW to \in {"done", "dead", "interrupted"},
           to = "done" \/ \A c \in E : rs[c].into = None \/ rs[c].into \in E,
           NEW ns, Settles(rs, ns, E, to), o \in Nat
    PROVE  Form(ns, ob, o) /\ (Budget(rs, k) => Budget(ns, k))
<1>1. rs \in Table /\ ns \in Table
  BY DEF Form, Shape, Settles
<1>2. ASSUME NEW c \in Row
      PROVE  /\ c \notin E => ns[c] = rs[c]
             /\ c \in E => ns[c].status = to /\ rs[c].status # "absent"
             /\ ns[c].into = rs[c].into /\ ns[c].owner \in {None, rs[c].owner}
  BY DEF Settles, Closed
<1>3. Shape(ns)
  BY <1>1, <1>2, SameUsed DEF Form
<1>4. Tree(ns)
  <2> SUFFICES ASSUME NEW c \in Row, ns[c].into # None, NEW p, p = ns[c].into
               PROVE  /\ p # c /\ ns[p].into = None /\ ns[p].status # "absent"
                      /\ ns[c].status \notin {"absent", "processing"}
                      /\ ns[c].status = "received" => Owes(ns, p)
                      /\ ns[c].status \in {"interrupted", "dead"} => ns[p].status = ns[c].status
    BY DEF Tree
  <2>1. rs[c].into = p /\ p \in Row
    BY <1>1, <1>2, RowFields
  <2>2. /\ p # c /\ rs[p].into = None /\ rs[p].status # "absent"
        /\ rs[c].status \notin {"absent", "processing"}
        /\ rs[c].status = "received" => Owes(rs, p)
        /\ rs[c].status \in {"interrupted", "dead"} => rs[p].status = rs[c].status
    BY <2>1 DEF Form, Tree
  <2>3. p \in E => c \in E \/ rs[c].status = "done"
    BY <2>1 DEF Closed
  <2>4. c \in E => to = "done" \/ p \in E
    BY <2>1
  <2>5. /\ c \notin E => ns[c] = rs[c]
        /\ p \notin E => ns[p] = rs[p]
        /\ c \in E => ns[c].status = to
        /\ p \in E => ns[p].status = to
        /\ ns[p].into = rs[p].into
    BY <1>2, <2>1
  <2>6. CASE c \in E
    BY <2>2, <2>4, <2>5, <2>6 DEF Owes
  <2>7. CASE c \notin E
    BY <2>2, <2>3, <2>5, <2>7 DEF Owes
  <2> QED
    BY <2>6, <2>7
<1>5. Owned(ns, o)
  <2> SUFFICES ASSUME NEW c \in Row
               PROVE  ns[c].owner <= o
    BY DEF Owned
  <2>1. ns[c].owner \in {None, rs[c].owner} /\ rs[c].owner \in Nat /\ rs[c].owner <= o
    BY <1>1, <1>2, RowFields DEF Form, Owned
  <2> QED
    BY <2>1 DEF None
<1>6. Obligations(ns, ob)
  BY <1>2 DEF Form, Obligations
<1>7. Budget(rs, k) => Budget(ns, k)
  BY <1>2 DEF Budget, Owes
<1> QED
  BY <1>3, <1>4, <1>5, <1>6, <1>7 DEF Form

\* One row written, which stays owed.
Rewrites(rs, ns, r, st, att, ow, tl) ==
    /\ ns \in Table
    /\ \A c \in Row \ {r} : ns[c] = rs[c]
    /\ ns[r].status = st /\ ns[r].attempts = att /\ ns[r].owner = ow /\ ns[r].tool = tl
    /\ ns[r].key = rs[r].key /\ ns[r].text = rs[r].text /\ ns[r].into = rs[r].into

\* Writing status, attempts, owner and tool of one owed row keeps the table well formed,
\* and the kills within the attempts if the new attempts leave room for them.
LEMMA RewritesKeeps ==
    ASSUME NEW rs, NEW ob, NEW o, NEW k, Form(rs, ob, o), o \in Nat,
           NEW r \in Row, Owes(rs, r), NEW st \in {"received", "processing"}, NEW att, NEW ow, NEW tl,
           st = "processing" => rs[r].into = None, ow <= o,
           NEW ns, Rewrites(rs, ns, r, st, att, ow, tl)
    PROVE  /\ Form(ns, ob, o)
           /\ Budget(rs, k) /\ k[r] <= att /\ att <= MaxAttempts => Budget(ns, k)
<1>1. rs \in Table /\ ns \in Table
  BY DEF Form, Shape, Rewrites
<1>2. ASSUME NEW c \in Row
      PROVE  /\ c # r => ns[c] = rs[c]
             /\ ns[c].into = rs[c].into
             /\ Owes(ns, c) <=> Owes(rs, c)
             /\ c = r => Owes(ns, c) /\ ns[c].status = st
  BY DEF Rewrites, Owes
<1>3. Shape(ns)
  BY <1>1, <1>2, SameUsed DEF Form, Owes
<1>4. Tree(ns)
  <2> SUFFICES ASSUME NEW c \in Row, ns[c].into # None, NEW p, p = ns[c].into
               PROVE  /\ p # c /\ ns[p].into = None /\ ns[p].status # "absent"
                      /\ ns[c].status \notin {"absent", "processing"}
                      /\ ns[c].status = "received" => Owes(ns, p)
                      /\ ns[c].status \in {"interrupted", "dead"} => ns[p].status = ns[c].status
    BY DEF Tree
  <2>1. rs[c].into = p /\ p \in Row
    BY <1>1, <1>2, RowFields
  <2>2. /\ p # c /\ rs[p].into = None /\ rs[p].status # "absent"
        /\ rs[c].status \notin {"absent", "processing"}
        /\ rs[c].status = "received" => Owes(rs, p)
        /\ rs[c].status \in {"interrupted", "dead"} => rs[p].status = rs[c].status
    BY <2>1 DEF Form, Tree
  <2>3. /\ c # r => ns[c] = rs[c]
        /\ p # r => ns[p] = rs[p]
        /\ ns[p].into = rs[p].into /\ (Owes(ns, p) <=> Owes(rs, p))
        /\ c = r => ns[c].status = "received" /\ Owes(rs, c)
        /\ p = r => Owes(ns, p)
    BY <1>2, <2>1
  <2>4. CASE c = r
    BY <2>2, <2>3, <2>4 DEF Owes
  <2>5. CASE c # r
    BY <2>2, <2>3, <2>5 DEF Owes
  <2> QED
    BY <2>4, <2>5
<1>5. Owned(ns, o)
  BY <1>2 DEF Form, Owned, Rewrites
<1>6. Obligations(ns, ob)
  BY <1>2 DEF Form, Obligations, Owes
<1>7. Budget(rs, k) /\ k[r] <= att /\ att <= MaxAttempts => Budget(ns, k)
  <2> SUFFICES ASSUME Budget(rs, k), k[r] <= att, att <= MaxAttempts, NEW c \in Row
               PROVE  /\ k[c] <= MaxAttempts
                      /\ Owes(ns, c) => k[c] <= ns[c].attempts /\ ns[c].attempts <= MaxAttempts
                      /\ ns[c].status = "absent" => k[c] = 0
    BY DEF Budget
  <2>1. /\ k[c] <= MaxAttempts
        /\ Owes(rs, c) => k[c] <= rs[c].attempts /\ rs[c].attempts <= MaxAttempts
        /\ rs[c].status = "absent" => k[c] = 0
    BY DEF Budget
  <2> QED
    BY <1>2, <2>1 DEF Owes, Rewrites
<1> QED
  BY <1>3, <1>4, <1>5, <1>6, <1>7 DEF Form

\* The links of the rows in S written.
Relinks(rs, ns, S, p) ==
    /\ ns \in Table
    /\ \A c \in Row \ S : ns[c] = rs[c]
    /\ \A c \in Row :
         /\ ns[c].into = IF c \in S THEN p ELSE rs[c].into
         /\ ns[c].status = rs[c].status /\ ns[c].key = rs[c].key /\ ns[c].text = rs[c].text
         /\ ns[c].attempts = rs[c].attempts /\ ns[c].owner = rs[c].owner
         /\ ns[c].tool = rs[c].tool

\* Unlinking rows, or linking received ones with all that hangs on them to an owed
\* primary, keeps the table well formed.
LEMMA RelinksKeeps ==
    ASSUME NEW rs, NEW ob, NEW o, NEW k, SpoolOK(rs, ob, o, k), NEW S, NEW p, NEW ns,
           Relinks(rs, ns, S, p),
           \/ p = None
           \/ /\ p \in Row /\ Owes(rs, p) /\ rs[p].into = None /\ p \notin S
              /\ \A c \in S \cap Row : rs[c].status \in {"received", "done"}
              /\ \A c \in Row : rs[c].into \in S => c \in S
    PROVE  SpoolOK(ns, ob, o, k)
<1>1. rs \in Table /\ ns \in Table
  BY DEF SpoolOK, Form, Shape, Relinks
<1>2. \A c \in Row : /\ ns[c].into = IF c \in S THEN p ELSE rs[c].into
                     /\ ns[c].status = rs[c].status /\ ns[c].key = rs[c].key
                     /\ ns[c].text = rs[c].text /\ ns[c].attempts = rs[c].attempts
                     /\ ns[c].owner = rs[c].owner
  BY DEF Relinks
<1>3. Shape(ns)
  <2>1. Used(ns) = Used(rs)
    BY <1>2 DEF Used
  <2>2. \A c \in S \cap Row : rs[c].status = "absent" => p = None
    BY DEF Owes
  <2> QED
    BY <1>1, <1>2, <2>1, <2>2 DEF SpoolOK, Form, Shape
<1>4. Tree(ns)
  <2> SUFFICES ASSUME NEW c \in Row, ns[c].into # None, NEW q, q = ns[c].into
               PROVE  /\ q # c /\ ns[q].into = None /\ ns[q].status # "absent"
                      /\ ns[c].status \notin {"absent", "processing"}
                      /\ ns[c].status = "received" => Owes(ns, q)
                      /\ ns[c].status \in {"interrupted", "dead"} => ns[q].status = ns[c].status
    BY DEF Tree
  <2>1. q \in Row
    BY <1>1, RowFields
  <2>2. CASE c \in S
    BY <1>2, <2>1, <2>2 DEF Owes
  <2>3. CASE c \notin S
    <3>1. q = rs[c].into
      BY <1>2, <2>3
    <3>2. /\ q # c /\ rs[q].into = None /\ rs[q].status # "absent"
          /\ rs[c].status \notin {"absent", "processing"}
          /\ rs[c].status = "received" => Owes(rs, q)
          /\ rs[c].status \in {"interrupted", "dead"} => rs[q].status = rs[c].status
      BY <3>1 DEF SpoolOK, Form, Tree
    <3>3. ns[q].into = None
      BY <1>2, <2>1, <2>3, <3>1, <3>2
    <3> QED
      BY <1>2, <2>1, <3>2, <3>3 DEF Owes
  <2> QED
    BY <2>2, <2>3
<1>5. Owned(ns, o) /\ Obligations(ns, ob) /\ Budget(ns, k)
  BY <1>2 DEF SpoolOK, Form, Owned, Obligations, Budget, Owes
<1> QED
  BY <1>3, <1>4, <1>5 DEF SpoolOK, Form

\* A row comes back: its links go, or it hangs on one that comes back with it.
Reopens(rs, ns, S, r) ==
    /\ ns \in Table
    /\ \A c \in Row \ S : ns[c] = rs[c]
    /\ \A c \in S : /\ ns[c].status = "received" /\ ns[c].owner = None
                    /\ ns[c].attempts = 0 /\ ns[c].key = rs[c].key /\ ns[c].text = rs[c].text
                    /\ ns[c].tool = IF c = r THEN FALSE ELSE rs[c].tool
                    /\ ns[c].into = IF c = r THEN None ELSE rs[c].into

\* The operator's requeue reopens a settled row with all that goes with it, and no other.
LEMMA RequeueFields ==
    ASSUME NEW rs \in Table, Tree(rs), NEW r \in Row, rs[r].status \in {"dead", "interrupted"}
    PROVE  /\ Reopens(rs, Requeue(rs, r), Family(rs, r), r)
           /\ \A c \in Row : c \in Family(rs, r) <=> Requeue(rs, r)[c] # rs[c]
           /\ \A c \in Family(rs, r) : rs[c].status \in {"dead", "interrupted"}
<1> DEFINE ns == Requeue(rs, r)
<1>1. ASSUME NEW c \in Family(rs, r)
      PROVE  c \in Row /\ rs[c].status \in {"dead", "interrupted"}
  <2>1. c \in Row /\ (c = r \/ (rs[c].into = r /\ rs[c].status # "done"))
    BY DEF Family
  <2>2. CASE c # r
    <3>1. rs[c].into = r /\ rs[c].into # None /\ rs[c].status # "done"
      BY <2>1, <2>2, RowNumbers
    <3>2. rs[c].status \notin {"absent", "processing"} /\ (rs[c].status = "received" => Owes(rs, r))
      BY <2>1, <3>1 DEF Tree
    <3> QED
      BY <2>1, <3>1, <3>2, RowFields DEF Owes, Statuses
  <2> QED
    BY <2>1, <2>2
<1>2. ASSUME NEW c \in Row, c \notin Family(rs, r)
      PROVE  ns[c] = rs[c]
  BY <1>2 DEF Family, Requeue
<1>3. ASSUME NEW c \in Family(rs, r)
      PROVE  /\ ns[c] \in RowType /\ ns[c].status = "received" /\ ns[c].owner = None
             /\ ns[c].attempts = 0 /\ ns[c].key = rs[c].key /\ ns[c].text = rs[c].text
             /\ ns[c].tool = IF c = r THEN FALSE ELSE rs[c].tool
             /\ ns[c].into = IF c = r THEN None ELSE rs[c].into
  <2>1. rs[c] \in RowType /\ None \in Nat
    BY <1>1, RowNumbers DEF Table
  <2>2. ns[c] = IF c = r
                THEN [rs[c] EXCEPT !.status = "received", !.attempts = 0, !.owner = None,
                                   !.tool = FALSE, !.into = None]
                ELSE [rs[c] EXCEPT !.status = "received", !.attempts = 0, !.owner = None]
    BY <1>1 DEF Family, Requeue
  <2> HIDE DEF ns
  <2>3. CASE c = r
    <3>1. ns[c] = [rs[c] EXCEPT !.status = "received", !.attempts = 0, !.owner = None,
                                !.tool = FALSE, !.into = None]
      BY <2>2, <2>3
    <3>2. ns[c] \in RowType
      BY <2>1, <3>1, 0 \in Nat DEF RowType, Statuses
    <3>3. /\ ns[c].status = "received" /\ ns[c].owner = None
          /\ ns[c].attempts = 0 /\ ns[c].key = rs[c].key /\ ns[c].text = rs[c].text
          /\ ns[c].tool = FALSE /\ ns[c].into = None
      BY <2>1, <3>1 DEF RowType
    <3> QED
      BY <2>3, <3>2, <3>3
  <2>4. CASE c # r
    <3>1. ns[c] = [rs[c] EXCEPT !.status = "received", !.attempts = 0, !.owner = None]
      BY <2>2, <2>4
    <3>2. ns[c] \in RowType
      BY <2>1, <3>1, 0 \in Nat DEF RowType, Statuses
    <3>3. /\ ns[c].status = "received" /\ ns[c].owner = None
          /\ ns[c].attempts = 0 /\ ns[c].key = rs[c].key /\ ns[c].text = rs[c].text
          /\ ns[c].tool = rs[c].tool /\ ns[c].into = rs[c].into
      BY <2>1, <3>1 DEF RowType
    <3> QED
      BY <2>4, <3>2, <3>3
  <2> QED
    BY <2>3, <2>4
<1>4. ns \in Table
  <2>1. \A c \in Row : ns[c] \in RowType
    BY <1>2, <1>3, ZenonT(60) DEF Table
  <2>2. ns = [c \in Row |-> ns[c]]
    BY Zenon DEF Requeue
  <2> HIDE DEF ns
  <2> QED
    BY <2>1, <2>2 DEF Table
<1> HIDE DEF ns
<1>5. Reopens(rs, ns, Family(rs, r), r)
  BY <1>2, <1>3, <1>4 DEF Reopens
<1>6. \A c \in Row : c \in Family(rs, r) <=> ns[c] # rs[c]
  BY <1>1, <1>2, <1>3
<1> QED
  BY <1>1, <1>5, <1>6 DEF ns

\* Reopened rows start with no attempts, so their kills are counted anew.
LEMMA ReopensKeeps ==
    ASSUME NEW rs, NEW ob, NEW o, NEW k, SpoolOK(rs, ob, o, k), o \in Nat, NEW r \in Row,
           rs[r].status \in {"dead", "interrupted"},
           \A c \in Family(rs, r) : rs[c].status \in {"dead", "interrupted"},
           NEW ns, Reopens(rs, ns, Family(rs, r), r),
           NEW j, \A c \in Row : j[c] = IF c \in Family(rs, r) THEN 0 ELSE k[c]
    PROVE  SpoolOK(ns, ob, o, j)
<1>1. rs \in Table /\ ns \in Table
  BY DEF SpoolOK, Form, Shape, Reopens
<1>2. ASSUME NEW c \in Row
      PROVE  /\ c \notin Family(rs, r) => ns[c] = rs[c] /\ j[c] = k[c]
             /\ c \in Family(rs, r) =>
                  /\ ns[c].status = "received" /\ ns[c].owner = None /\ ns[c].attempts = 0
                  /\ ns[c].into = (IF c = r THEN None ELSE rs[c].into) /\ j[c] = 0
                  /\ rs[c].status \in {"dead", "interrupted"}
  BY DEF Reopens
<1>3. Shape(ns)
  BY <1>1, <1>2, SameUsed DEF SpoolOK, Form
<1>4. Tree(ns)
  <2> SUFFICES ASSUME NEW c \in Row, ns[c].into # None, NEW p, p = ns[c].into
               PROVE  /\ p # c /\ ns[p].into = None /\ ns[p].status # "absent"
                      /\ ns[c].status \notin {"absent", "processing"}
                      /\ ns[c].status = "received" => Owes(ns, p)
                      /\ ns[c].status \in {"interrupted", "dead"} => ns[p].status = ns[c].status
    BY DEF Tree
  <2>1. rs[c].into = p /\ p \in Row /\ (c \in Family(rs, r) => c # r)
    BY <1>1, <1>2, RowFields
  <2>2. /\ p # c /\ rs[p].into = None /\ rs[p].status # "absent"
        /\ rs[c].status \notin {"absent", "processing"}
        /\ rs[c].status = "received" => Owes(rs, p)
        /\ rs[c].status \in {"interrupted", "dead"} => rs[p].status = rs[c].status
    BY <2>1 DEF SpoolOK, Form, Tree
  <2>3. ns[p].into = None
    BY <1>2, <2>1, <2>2
  <2>4. CASE c \in Family(rs, r)
    <3>1. p = r
      BY <2>1, <2>4 DEF Family
    <3>2. r \in Family(rs, r)
      BY DEF Family
    <3> QED
      BY <1>2, <2>2, <2>3, <2>4, <3>1, <3>2 DEF Owes
  <2>5. CASE c \notin Family(rs, r)
    <3>1. p \in Family(rs, r) => rs[c].status = "done"
      BY <2>1, <2>2, <2>5, RowNumbers DEF Family
    <3> QED
      BY <1>2, <2>1, <2>2, <2>3, <2>5, <3>1 DEF Owes
  <2> QED
    BY <2>4, <2>5
<1>5. Owned(ns, o)
  BY <1>2 DEF SpoolOK, Form, Owned, None
<1>6. Obligations(ns, ob)
  BY <1>2 DEF SpoolOK, Form, Obligations
<1>7. Budget(ns, j)
  BY <1>2, TurnsAssumption DEF SpoolOK, Form, Budget, Owes
<1> QED
  BY <1>3, <1>4, <1>5, <1>6, <1>7 DEF SpoolOK, Form

\* Rows of dead processes come back.
LEMMA RecoverFields ==
    ASSUME NEW rs \in Table, NEW o
    PROVE  /\ RecoverOrphans(rs, o) \in Table
           /\ \A c \in Row :
                LET n == RecoverOrphans(rs, o)[c]
                    back == Owes(rs, c) /\ rs[c].owner # o
                IN  /\ n.status = IF back THEN "received" ELSE rs[c].status
                    /\ n.owner = IF back THEN None ELSE rs[c].owner
                    /\ n.key = rs[c].key /\ n.text = rs[c].text /\ n.tool = rs[c].tool
                    /\ n.attempts = rs[c].attempts /\ n.into = rs[c].into
<1>1. ASSUME NEW c \in Row, NEW n, n = RecoverOrphans(rs, o)[c]
      PROVE  /\ n \in RowType
             /\ n.status = IF Owes(rs, c) /\ rs[c].owner # o THEN "received" ELSE rs[c].status
             /\ n.owner = IF Owes(rs, c) /\ rs[c].owner # o THEN None ELSE rs[c].owner
             /\ n.key = rs[c].key /\ n.text = rs[c].text /\ n.tool = rs[c].tool
             /\ n.attempts = rs[c].attempts /\ n.into = rs[c].into
  <2>1. rs[c] \in RowType /\ None \in Nat
    BY RowNumbers DEF Table
  <2>2. n = IF Owes(rs, c) /\ rs[c].owner # o
            THEN [rs[c] EXCEPT !.status = "received", !.owner = None] ELSE rs[c]
    BY <1>1 DEF RecoverOrphans, Owes
  <2>3. CASE Owes(rs, c) /\ rs[c].owner # o
    BY <2>1, <2>2, <2>3 DEF RowType, Statuses
  <2> QED
    BY <2>1, <2>2, <2>3
<1>2. RecoverOrphans(rs, o) \in Table
  BY <1>1 DEF RecoverOrphans, Table
<1> QED
  BY <1>1, <1>2

\* Recovering the rows of dead processes keeps the table well formed.
LEMMA RecoverKeeps ==
    ASSUME NEW rs, NEW ob, NEW o, NEW k, SpoolOK(rs, ob, o, k), o \in Nat,
           NEW ns, ns = RecoverOrphans(rs, o)
    PROVE  SpoolOK(ns, ob, o, k)
<1>1. rs \in Table /\ ns \in Table
  BY RecoverFields DEF SpoolOK, Form, Shape
<1>2. \A c \in Row :
        /\ Owes(ns, c) <=> Owes(rs, c)
        /\ ns[c].status = rs[c].status \/ (ns[c].status = "received" /\ rs[c].status = "processing")
        /\ ns[c].owner \in {None, rs[c].owner}
        /\ ns[c].key = rs[c].key /\ ns[c].text = rs[c].text
        /\ ns[c].attempts = rs[c].attempts /\ ns[c].into = rs[c].into
  BY <1>1, RecoverFields DEF Owes
<1>3. Shape(ns)
  <2>1. Used(ns) = Used(rs)
    BY <1>2 DEF Used, Owes
  <2> QED
    BY <1>1, <1>2, <2>1 DEF SpoolOK, Form, Shape
<1>4. Tree(ns)
  <2>1. \A c \in Row : rs[c].into # None => rs[c].into \in Row
    BY <1>1, RowFields
  <2> QED
    BY <1>2, <2>1 DEF SpoolOK, Form, Tree, Owes
<1>5. Owned(ns, o)
  <2>1. \A c \in Row : rs[c].owner <= o /\ None <= o
    BY DEF SpoolOK, Form, Owned, None
  <2> QED
    BY <1>2, <2>1 DEF Owned
<1>6. Obligations(ns, ob) /\ Budget(ns, k)
  BY <1>2 DEF SpoolOK, Form, Obligations, Budget, Owes
<1> QED
  BY <1>3, <1>4, <1>5, <1>6 DEF SpoolOK, Form

-----------------------------------------------------------------------------
(* Which of these writes each method is.                                   *)

\* An update of one row that leaves key, text and link alone.
LEMMA RewritesRow ==
    ASSUME NEW rs \in Table, NEW r \in Row, NEW e \in RowType, e.key = rs[r].key,
           e.text = rs[r].text, e.into = rs[r].into, NEW ns, ns = [rs EXCEPT ![r] = e],
           NEW st, NEW att, NEW ow, NEW tl,
           e.status = st, e.attempts = att, e.owner = ow, e.tool = tl
    PROVE  Rewrites(rs, ns, r, st, att, ow, tl)
<1>1. ns \in Table /\ ns[r] = e /\ \A c \in Row : c # r => ns[c] = rs[c]
  BY DEF Table
<1> QED
  BY <1>1 DEF Rewrites

\* A claim gives an unclaimed received row its owner.
LEMMA ClaimFields ==
    ASSUME NEW rs \in Table, NEW r \in Row, NEW o \in Nat, rs[r].status = "received",
           rs[r].owner = None
    PROVE  Rewrites(rs, Claim(rs, r, o), r, "received", rs[r].attempts, o, rs[r].tool)
<1> DEFINE e == [rs[r] EXCEPT !.owner = o]
<1>1. rs[r] \in RowType
  BY DEF Table
<1>2. e \in RowType
  BY <1>1 DEF RowType
<1>3. /\ e.status = "received" /\ e.attempts = rs[r].attempts /\ e.owner = o
      /\ e.tool = rs[r].tool /\ e.key = rs[r].key /\ e.text = rs[r].text /\ e.into = rs[r].into
  BY <1>1 DEF RowType
<1>4. Claim(rs, r, o) = [rs EXCEPT ![r] = e]
  BY <1>1 DEF Claim, Table
<1> HIDE DEF e
<1> QED
  BY <1>2, <1>3, <1>4, RewritesRow

\* markProcessing takes the owner's claim and counts the attempt.
LEMMA MarkProcessingFields ==
    ASSUME NEW rs \in Table, NEW r \in Row, NEW o \in Nat, rs[r].status = "received"
    PROVE  Rewrites(rs, MarkProcessing(rs, r, o), r, "processing", rs[r].attempts + 1, o,
                    rs[r].tool)
<1> DEFINE e == [rs[r] EXCEPT !.status = "processing", !.attempts = @ + 1, !.owner = o]
<1>1. rs[r] \in RowType /\ rs[r].attempts + 1 \in Nat
  BY RowFields DEF Table
<1>2. e \in RowType
  BY <1>1 DEF RowType, Statuses
<1>3. /\ e.status = "processing" /\ e.attempts = rs[r].attempts + 1 /\ e.owner = o
      /\ e.tool = rs[r].tool /\ e.key = rs[r].key /\ e.text = rs[r].text /\ e.into = rs[r].into
  BY <1>1 DEF RowType
<1>4. [rs EXCEPT ![r].status = "processing", ![r].attempts = @ + 1, ![r].owner = o]
        = [rs EXCEPT ![r] = e]
  BY <1>1 DEF Table
<1>5. MarkProcessing(rs, r, o) = [rs EXCEPT ![r] = e]
  BY <1>4 DEF MarkProcessing
<1> HIDE DEF e
<1> QED
  BY <1>2, <1>3, <1>5, RewritesRow

\* markToolStarted sets the flag and nothing else.
LEMMA MarkToolStartedFields ==
    ASSUME NEW rs \in Table, NEW r \in Row, rs[r].status = "processing"
    PROVE  Rewrites(rs, MarkToolStarted(rs, r), r, "processing", rs[r].attempts, rs[r].owner,
                    TRUE)
<1> DEFINE e == [rs[r] EXCEPT !.tool = TRUE]
<1>1. rs[r] \in RowType
  BY DEF Table
<1>2. e \in RowType
  BY <1>1 DEF RowType
<1>3. /\ e.status = "processing" /\ e.attempts = rs[r].attempts /\ e.owner = rs[r].owner
      /\ e.tool = TRUE /\ e.key = rs[r].key /\ e.text = rs[r].text /\ e.into = rs[r].into
  BY <1>1 DEF RowType
<1>4. MarkToolStarted(rs, r) = [rs EXCEPT ![r] = e]
  BY <1>1 DEF MarkToolStarted, Table
<1> HIDE DEF e
<1> QED
  BY <1>2, <1>3, <1>4, RewritesRow

\* A turn cut by a graceful shutdown is received again, its attempt refunded.
LEMMA ReleaseFields ==
    ASSUME NEW rs \in Table, NEW r \in Row, rs[r].status = "processing", rs[r].attempts > 0
    PROVE  Rewrites(rs, ReleaseOnShutdown(rs, r), r, "received", rs[r].attempts - 1, None,
                    rs[r].tool)
<1> DEFINE e == [rs[r] EXCEPT !.status = "received", !.owner = None, !.attempts = @ - 1]
<1>1. rs[r] \in RowType /\ rs[r].attempts - 1 \in Nat /\ None \in Nat
  BY RowFields, RowNumbers DEF Table
<1>2. e \in RowType
  BY <1>1 DEF RowType, Statuses
<1>3. /\ e.status = "received" /\ e.attempts = rs[r].attempts - 1 /\ e.owner = None
      /\ e.tool = rs[r].tool /\ e.key = rs[r].key /\ e.text = rs[r].text /\ e.into = rs[r].into
  BY <1>1 DEF RowType
<1>4. [rs EXCEPT ![r].status = "received", ![r].owner = None,
                 ![r].attempts = IF @ > 0 THEN @ - 1 ELSE 0] = [rs EXCEPT ![r] = e]
  BY <1>1 DEF Table
<1>5. ReleaseOnShutdown(rs, r) = [rs EXCEPT ![r] = e]
  BY <1>4 DEF ReleaseOnShutdown
<1> HIDE DEF e
<1> QED
  BY <1>2, <1>3, <1>5, RewritesRow

\* Below the cap, and with no tool started, a failed row is received again.
LEMMA FailedOwedFields ==
    ASSUME NEW rs \in Table, NEW r \in Row, Owes(rs, r),
           FailOutcome(rs, r, MaxAttempts) = "received"
    PROVE  Rewrites(rs, MarkFailed(rs, r, MaxAttempts), r, "received", rs[r].attempts,
                    rs[r].owner, rs[r].tool)
<1> DEFINE e == [rs[r] EXCEPT !.status = "received"]
<1>1. rs[r] \in RowType
  BY DEF Table
<1>2. e \in RowType
  BY <1>1 DEF RowType, Statuses
<1>3. /\ e.status = "received" /\ e.attempts = rs[r].attempts /\ e.owner = rs[r].owner
      /\ e.tool = rs[r].tool /\ e.key = rs[r].key /\ e.text = rs[r].text /\ e.into = rs[r].into
  BY <1>1 DEF RowType
<1>4. [rs EXCEPT ![r].status = "received",
                 ![r].owner = IF "received" = "interrupted" THEN None ELSE @]
        = [rs EXCEPT ![r] = e]
  BY <1>1 DEF Table
<1>5. MarkFailed(rs, r, MaxAttempts) = [rs EXCEPT ![r] = e]
  BY <1>4 DEF MarkFailed, Owes
<1> HIDE DEF e
<1> QED
  BY <1>2, <1>3, <1>5, RewritesRow

\* markAbsorbed links the row, and the rows absorbed into it, to the turn's row.
LEMMA MarkAbsorbedFields ==
    ASSUME NEW rs \in Table, NEW r \in Row, NEW p \in Row, CanAbsorb(rs, r, p)
    PROVE  Relinks(rs, MarkAbsorbed(rs, r, p), {c \in Row : c = r \/ rs[c].into = r}, p)
<1> DEFINE ns == MarkAbsorbed(rs, r, p)
           S == {c \in Row : c = r \/ rs[c].into = r}
<1>1. ASSUME NEW c \in Row
      PROVE  /\ ns[c] \in RowType /\ (c \notin S => ns[c] = rs[c])
             /\ ns[c].into = IF c \in S THEN p ELSE rs[c].into
             /\ ns[c].status = rs[c].status /\ ns[c].key = rs[c].key /\ ns[c].text = rs[c].text
             /\ ns[c].attempts = rs[c].attempts /\ ns[c].owner = rs[c].owner
             /\ ns[c].tool = rs[c].tool
  <2>1. rs[c] \in RowType
    BY DEF Table
  <2>2. ns[c] = IF c \in S THEN [rs[c] EXCEPT !.into = p] ELSE rs[c]
    BY DEF MarkAbsorbed
  <2> HIDE DEF ns, S
  <2>3. CASE c \in S
    <3>1. ns[c] = [rs[c] EXCEPT !.into = p]
      BY <2>2, <2>3
    <3>2. ns[c] \in RowType
      BY <2>1, <3>1 DEF RowType
    <3>3. /\ ns[c].into = p
          /\ ns[c].status = rs[c].status /\ ns[c].key = rs[c].key /\ ns[c].text = rs[c].text
          /\ ns[c].attempts = rs[c].attempts /\ ns[c].owner = rs[c].owner
          /\ ns[c].tool = rs[c].tool
      BY <2>1, <3>1 DEF RowType
    <3> QED
      BY <2>3, <3>2, <3>3
  <2>4. CASE c \notin S
    BY <2>1, <2>2, <2>4
  <2> QED
    BY <2>3, <2>4
<1>2. ns = [c \in Row |-> ns[c]]
  BY DEF MarkAbsorbed
<1> HIDE DEF ns, S
<1>3. ns \in Table
  BY <1>1, <1>2 DEF Table
<1>4. Relinks(rs, ns, S, p)
  BY <1>1, <1>3 DEF Relinks
<1> QED
  BY <1>4 DEF ns, S

\* unlinkSteer for a list of tasks clears the link of those still received.
LEMMA UnlinkAllFields ==
    ASSUME NEW rs \in Table, NEW tasks
    PROVE  Relinks(rs, UnlinkAll(rs, tasks),
                   {c \in Row : c \in RowsOf(tasks) /\ rs[c].status = "received"}, None)
<1> DEFINE ns == UnlinkAll(rs, tasks)
           S == {c \in Row : c \in RowsOf(tasks) /\ rs[c].status = "received"}
<1>1. ASSUME NEW c \in Row
      PROVE  /\ ns[c] \in RowType /\ (c \notin S => ns[c] = rs[c])
             /\ ns[c].into = IF c \in S THEN None ELSE rs[c].into
             /\ ns[c].status = rs[c].status /\ ns[c].key = rs[c].key /\ ns[c].text = rs[c].text
             /\ ns[c].attempts = rs[c].attempts /\ ns[c].owner = rs[c].owner
             /\ ns[c].tool = rs[c].tool
  <2>1. rs[c] \in RowType
    BY DEF Table
  <2>2. ns[c] = IF c \in S THEN [rs EXCEPT ![c].into = None][c] ELSE rs[c]
    BY DEF UnlinkAll, UnlinkAbsorbed
  <2>3. [rs EXCEPT ![c].into = None][c] = [rs[c] EXCEPT !.into = None]
    BY DEF Table
  <2> HIDE DEF ns, S
  <2>4. CASE c \in S
    <3>1. ns[c] = [rs[c] EXCEPT !.into = None]
      BY <2>2, <2>3, <2>4
    <3>2. ns[c] \in RowType
      BY <2>1, <3>1 DEF RowType
    <3>3. /\ ns[c].into = None
          /\ ns[c].status = rs[c].status /\ ns[c].key = rs[c].key /\ ns[c].text = rs[c].text
          /\ ns[c].attempts = rs[c].attempts /\ ns[c].owner = rs[c].owner
          /\ ns[c].tool = rs[c].tool
      BY <2>1, <3>1 DEF RowType
    <3> QED
      BY <2>4, <3>2, <3>3
  <2>5. CASE c \notin S
    BY <2>1, <2>2, <2>5
  <2> QED
    BY <2>4, <2>5
<1>2. ns = [c \in Row |-> ns[c]]
  BY DEF UnlinkAll
<1> HIDE DEF ns, S
<1>3. ns \in Table
  BY <1>1, <1>2 DEF Table
<1>4. Relinks(rs, ns, S, None)
  BY <1>1, <1>3 DEF Relinks
<1> QED
  BY <1>4 DEF ns, S

\* A fresh row takes the next number.
Inserts(rs, ns, r, key, text, o) ==
    /\ ns \in Table /\ r \in Row /\ rs[r].status = "absent"
    /\ \A c \in Row \ {r} : ns[c] = rs[c]
    /\ ns[r] = [NoRow EXCEPT !.status = "received", !.key = key, !.text = text, !.owner = o]

\* A row is inserted right behind the rows in use.
LEMMA InsertFields ==
    ASSUME NEW rs, Shape(rs), NextRow(rs) \in Row, NEW key \in Message \cup {NoMessage},
           NEW text \in SUBSET Message, NEW o \in Nat
    PROVE  /\ Inserts(rs, Insert(rs, key, text, o), NextRow(rs), key, text, o)
           /\ Used(rs) = 1..(NextRow(rs) - 1)
<1>1. rs \in Table
  BY DEF Shape
<1>2. PICK n \in 0..MaxRows : Used(rs) = 1..n
  BY DEF Shape
<1>3. NextRow(rs) = n + 1
  <2>1. n \in Nat /\ n >= 1 - 1
    BY <1>2, SpoolAssumption
  <2>2. Cardinality(1..n) = n
    BY <2>1, FS_Interval
  <2> QED
    BY <1>2, <2>2 DEF NextRow
<1>4. rs[NextRow(rs)].status = "absent"
  <2>1. n + 1 \notin 1..n
    BY <1>2
  <2> QED
    BY <1>2, <1>3, <2>1 DEF Used
<1> DEFINE e == [NoRow EXCEPT !.status = "received", !.key = key, !.text = text, !.owner = o]
<1>5. e \in RowType
  BY DEF RowType, Statuses, NoRow
<1>6. Insert(rs, key, text, o) = [rs EXCEPT ![NextRow(rs)] = e]
  BY DEF Insert
<1> HIDE DEF e
<1>7. Inserts(rs, [rs EXCEPT ![NextRow(rs)] = e], NextRow(rs), key, text, o)
  <2>1. /\ [rs EXCEPT ![NextRow(rs)] = e] \in Table /\ [rs EXCEPT ![NextRow(rs)] = e][NextRow(rs)] = e
        /\ \A c \in Row : c # NextRow(rs) => [rs EXCEPT ![NextRow(rs)] = e][c] = rs[c]
    BY <1>1, <1>5, OneRow
  <2> QED
    BY <1>4, <2>1 DEF Inserts, e
<1>8. Used(rs) = 1..(NextRow(rs) - 1)
  BY <1>2, <1>3
<1> QED
  BY <1>6, <1>7, <1>8

\* The fields of an inserted row.
LEMMA FreshRow ==
    ASSUME NEW rs, NEW ns, NEW r, NEW key, NEW text, NEW o, Inserts(rs, ns, r, key, text, o)
    PROVE  /\ ns[r].status = "received" /\ ns[r].key = key /\ ns[r].text = text
           /\ ns[r].owner = o /\ ns[r].attempts = 0 /\ ns[r].tool = FALSE /\ ns[r].into = None
           /\ r \in Row
BY DEF Inserts, NoRow

\* A fresh row keeps the table well formed.
LEMMA InsertKeeps ==
    ASSUME NEW rs, NEW ob, NEW o, NEW k, Form(rs, ob, o), NEW ns, NEW r, NEW key, NEW text,
           NEW w \in 0..o, o \in Nat, Inserts(rs, ns, r, key, text, w), Used(rs) = 1..(r - 1)
    PROVE  Form(ns, ob, o) /\ (Budget(rs, k) => Budget(ns, k))
<1>1. rs \in Table /\ ns \in Table /\ r \in Row /\ r \in Nat
  BY RowNumbers DEF Form, Shape, Inserts
<1>0. /\ ns[r].status = "received" /\ ns[r].owner = w
      /\ ns[r].attempts = 0 /\ ns[r].into = None
  BY DEF Inserts, NoRow
<1>2. ASSUME NEW c \in Row
      PROVE  /\ c # r => ns[c] = rs[c]
             /\ c = r => /\ ns[c].status = "received" /\ ns[c].into = None /\ ns[c].owner <= o
                         /\ ns[c].attempts = 0 /\ rs[c].status = "absent"
  BY <1>0, w <= o DEF Inserts
<1>3. Shape(ns)
  <2>1. Used(ns) = Used(rs) \cup {r}
    BY <1>1, <1>2 DEF Used
  <2>2. 1..(r - 1) \cup {r} = 1..r
    BY <1>1 DEF Row
  <2>3. Used(ns) = 1..r /\ r \in 0..MaxRows
    BY <1>1, <2>1, <2>2 DEF Row
  <2>4. \A c \in Row : ns[c].status = "absent" => c # r /\ ns[c] = rs[c]
    BY <1>2
  <2> QED
    BY <1>1, <2>3, <2>4 DEF Form, Shape
<1>4. Tree(ns)
  <2> SUFFICES ASSUME NEW c \in Row, ns[c].into # None, NEW p, p = ns[c].into
               PROVE  /\ p # c /\ ns[p].into = None /\ ns[p].status # "absent"
                      /\ ns[c].status \notin {"absent", "processing"}
                      /\ ns[c].status = "received" => Owes(ns, p)
                      /\ ns[c].status \in {"interrupted", "dead"} => ns[p].status = ns[c].status
    BY DEF Tree
  <2>1. c # r /\ ns[c] = rs[c] /\ rs[c].into = p /\ p \in Row
    BY <1>1, <1>2, RowFields
  <2>2. /\ p # c /\ rs[p].into = None /\ rs[p].status # "absent"
        /\ rs[c].status \notin {"absent", "processing"}
        /\ rs[c].status = "received" => Owes(rs, p)
        /\ rs[c].status \in {"interrupted", "dead"} => rs[p].status = rs[c].status
    BY <2>1 DEF Form, Tree
  <2>3. p # r
    BY <1>2, <2>1, <2>2
  <2> QED
    BY <1>2, <2>1, <2>2, <2>3 DEF Owes
<1>5. Owned(ns, o)
  BY <1>2 DEF Form, Owned
<1>6. Obligations(ns, ob)
  BY <1>2 DEF Form, Obligations
<1>7. Budget(rs, k) => Budget(ns, k)
  BY <1>2, TurnsAssumption DEF Budget, Owes
<1> QED
  BY <1>3, <1>4, <1>5, <1>6, <1>7 DEF Form

\* Every message of the queued turns is closed.
LEMMA CloseAllSettles ==
    ASSUME NEW rs \in Table, Tree(rs), NEW tasks,
           \A q \in RowsOf(tasks) : q \in Row /\ Owes(rs, q)
    PROVE  LET E == {c \in Row : \E q \in RowsOf(tasks) : c \in Family(rs, q)}
           IN Settles(rs, CloseAll(rs, tasks), E, "done") /\ Closed(rs, E)
<1> DEFINE ns == CloseAll(rs, tasks)
           E == {c \in Row : \E q \in RowsOf(tasks) : c \in Family(rs, q)}
<1>1. ASSUME NEW q \in RowsOf(tasks), NEW c \in Row
      PROVE  /\ MarkDone(rs, q)[c] # rs[c] <=> c \in Family(rs, q)
             /\ c \in Family(rs, q) => rs[c].status # "absent"
             /\ rs[c].into \in Family(rs, q) => c \in Family(rs, q) \/ rs[c].status = "done"
  <2>1. q \in Row /\ Owes(rs, q) /\ rs[q].status # "absent"
    BY DEF Owes
  <2>2. Settles(rs, MarkDone(rs, q), Family(rs, q), "done")
    BY <2>1, MarkDoneSettles
  <2>3. c \in Family(rs, q) => rs[c].status # "done"
    BY <2>1 DEF Family, Owes
  <2>4. Closed(rs, Family(rs, q))
    BY <2>1, FamilyClosed
  <2> QED
    BY <2>2, <2>3, <2>4 DEF Settles, Closed
<1>2. ASSUME NEW c \in Row
      PROVE  ns[c] = IF c \in E THEN [rs[c] EXCEPT !.status = "done", !.text = {}] ELSE rs[c]
  <2>1. c \in E <=> \E q \in RowsOf(tasks) : MarkDone(rs, q)[c] # rs[c]
    BY <1>1
  <2> QED
    BY <2>1 DEF CloseAll
<1>3. ASSUME NEW c \in E
      PROVE  /\ c \in Row /\ ns[c] \in RowType /\ ns[c].status = "done" /\ ns[c].text = {}
             /\ ns[c].owner = rs[c].owner
             /\ ns[c].key = rs[c].key /\ ns[c].attempts = rs[c].attempts
             /\ ns[c].tool = rs[c].tool /\ ns[c].into = rs[c].into
  <2>1. c \in Row /\ rs[c] \in RowType
    BY DEF Table
  <2>2. ns[c] = [rs[c] EXCEPT !.status = "done", !.text = {}]
    BY <1>2, <1>3, <2>1
  <2> HIDE DEF ns, E
  <2>3. ns[c] \in RowType
    BY <2>1, <2>2 DEF RowType, Statuses
  <2>4. /\ ns[c].status = "done" /\ ns[c].text = {}
        /\ ns[c].owner = rs[c].owner
        /\ ns[c].key = rs[c].key /\ ns[c].attempts = rs[c].attempts
        /\ ns[c].tool = rs[c].tool /\ ns[c].into = rs[c].into
    BY <2>1, <2>2 DEF RowType
  <2> QED
    BY <2>1, <2>3, <2>4
<1>4. ns = [c \in Row |-> ns[c]]
  BY DEF CloseAll
<1>5. E \subseteq Row
  OBVIOUS
<1>6. Closed(rs, E)
  <2>1. \A c \in Row : c \in E => rs[c].status # "absent"
    BY <1>1
  <2>2. \A c \in Row : rs[c].into \in E => c \in E \/ rs[c].status = "done"
    BY <1>1
  <2> HIDE DEF E
  <2> QED
    BY <1>5, <2>1, <2>2 DEF Closed
<1> HIDE DEF ns, E
<1>7. ns \in Table
  <2>1. \A c \in Row : ns[c] \in RowType
    BY <1>2, <1>3 DEF Table
  <2> QED
    BY <1>4, <2>1 DEF Table
<1>8. Settles(rs, ns, E, "done")
  BY <1>2, <1>3, <1>5, <1>7 DEF Settles
<1> QED
  BY <1>6, <1>8 DEF ns, E

\* The rows a write leaves alone: those owed, but for R and what hangs on R.
Aside(rs, ns, R) ==
    \A c \in Row : Owes(rs, c) /\ c \notin R /\ rs[c].into \notin R => ns[c] = rs[c]

\* No row is taken into use, and none is dropped.
SameAbsent(rs, ns) == \A c \in Row : ns[c].status = "absent" <=> rs[c].status = "absent"

\* A row settled with what goes with it keeps the table well formed and touches no other
\* owed row.
LEMMA SettledRow ==
    ASSUME NEW rs, NEW ob, NEW o \in Nat, NEW k, Form(rs, ob, o), NEW r \in Row,
           rs[r].status # "absent", NEW to \in {"done", "dead", "interrupted"},
           to = "done" \/ rs[r].into = None,
           NEW ns, Settles(rs, ns, Family(rs, r), to)
    PROVE  /\ Form(ns, ob, o) /\ (Budget(rs, k) => Budget(ns, k))
           /\ Aside(rs, ns, {r}) /\ SameAbsent(rs, ns)
<1>1. rs \in Table /\ Tree(rs)
  BY DEF Form, Shape
<1>2. /\ Closed(rs, Family(rs, r)) /\ r \in Family(rs, r)
      /\ rs[r].into = None =>
           \A c \in Family(rs, r) : rs[c].into = None \/ rs[c].into \in Family(rs, r)
  BY <1>1, FamilyClosed
<1>3. Form(ns, ob, o) /\ (Budget(rs, k) => Budget(ns, k))
  BY <1>2, SettlesKeeps
<1>4. Aside(rs, ns, {r})
  BY DEF Aside, Settles, Family
<1>5. SameAbsent(rs, ns)
  BY <1>2 DEF SameAbsent, Settles, Closed
<1> QED
  BY <1>3, <1>4, <1>5

\* Closing the interrupted row a message found touches no owed row.
LEMMA DiscardKeeps ==
    ASSUME NEW rs, NEW ob, NEW o \in Nat, NEW k, Form(rs, ob, o), NEW r \in Row
    PROVE  LET ns == Discard(rs, r)
           IN /\ Form(ns, ob, o) /\ (Budget(rs, k) => Budget(ns, k))
              /\ Aside(rs, ns, {}) /\ SameAbsent(rs, ns)
<1> DEFINE ns == Discard(rs, r)
<1>1. rs \in Table /\ Tree(rs)
  BY DEF Form, Shape
<1>2. CASE rs[r].status \in {"dead", "interrupted"}
  <2>1. Settles(rs, ns, Family(rs, r), "done")
    BY <1>1, <1>2, DiscardSettles
  <2> HIDE DEF ns
  <2>2. /\ Form(ns, ob, o) /\ (Budget(rs, k) => Budget(ns, k))
        /\ SameAbsent(rs, ns)
    BY <1>2, <2>1, SettledRow
  <2>3. \A c \in Family(rs, r) : ~Owes(rs, c)
    BY <1>1, <1>2, RowNumbers DEF Family, Tree, Owes
  <2>4. Aside(rs, ns, {})
    BY <2>1, <2>3 DEF Aside, Settles
  <2> QED
    BY <2>2, <2>4 DEF ns
<1>3. CASE rs[r].status \notin {"dead", "interrupted"}
  BY <1>3 DEF Discard, Aside, SameAbsent
<1> QED
  BY <1>2, <1>3

\* markDone of an owed row touches no other owed row.
LEMMA MarkDoneKeeps ==
    ASSUME NEW rs, NEW ob, NEW o \in Nat, NEW k, Form(rs, ob, o), NEW r \in Row, Owes(rs, r)
    PROVE  LET ns == MarkDone(rs, r)
           IN /\ Form(ns, ob, o) /\ (Budget(rs, k) => Budget(ns, k))
              /\ Aside(rs, ns, {r}) /\ SameAbsent(rs, ns)
<1>1. rs \in Table /\ Tree(rs) /\ rs[r].status # "absent"
  BY DEF Form, Shape, Owes
<1>2. Settles(rs, MarkDone(rs, r), Family(rs, r), "done")
  BY <1>1, MarkDoneSettles
<1> QED
  BY <1>1, <1>2, SettledRow

\* markInterrupted of an owed row touches no other owed row.
LEMMA MarkInterruptedKeeps ==
    ASSUME NEW rs, NEW ob, NEW o \in Nat, NEW k, Form(rs, ob, o), NEW r \in Row, Owes(rs, r),
           rs[r].into = None
    PROVE  LET ns == MarkInterrupted(rs, r)
           IN /\ Form(ns, ob, o) /\ (Budget(rs, k) => Budget(ns, k))
              /\ Aside(rs, ns, {r}) /\ SameAbsent(rs, ns)
<1>1. rs \in Table /\ Tree(rs) /\ rs[r].status # "absent"
  BY DEF Form, Shape, Owes
<1>2. Settles(rs, MarkInterrupted(rs, r), Family(rs, r), "interrupted")
  BY <1>1, MarkInterruptedSettles
<1> QED
  BY <1>1, <1>2, SettledRow

\* markDead of an unclaimed row touches no other owed row.
LEMMA MarkDeadKeeps ==
    ASSUME NEW rs, NEW ob, NEW o \in Nat, NEW k, Form(rs, ob, o), NEW r \in Row,
           rs[r].status = "received", rs[r].owner = None, rs[r].into = None
    PROVE  LET ns == MarkDead(rs, r)
           IN /\ Form(ns, ob, o) /\ (Budget(rs, k) => Budget(ns, k))
              /\ Aside(rs, ns, {r}) /\ SameAbsent(rs, ns)
<1>1. rs \in Table /\ Tree(rs) /\ rs[r].status # "absent"
  BY DEF Form, Shape
<1>2. Settles(rs, MarkDead(rs, r), Family(rs, r), "dead")
  BY <1>1, MarkDeadSettles
<1> QED
  BY <1>1, <1>2, SettledRow

\* A failed turn's row, owed again or settled.
LEMMA MarkFailedKeeps ==
    ASSUME NEW rs, NEW ob, NEW o \in Nat, NEW k, Form(rs, ob, o), NEW r \in Row, Owes(rs, r),
           rs[r].into = None
    PROVE  LET ns == MarkFailed(rs, r, MaxAttempts)
           IN /\ Form(ns, ob, o) /\ (Budget(rs, k) => Budget(ns, k))
              /\ Aside(rs, ns, {r}) /\ SameAbsent(rs, ns)
<1> DEFINE ns == MarkFailed(rs, r, MaxAttempts)
           to == FailOutcome(rs, r, MaxAttempts)
<1>1. rs \in Table /\ Tree(rs) /\ rs[r].status # "absent"
  BY DEF Form, Shape, Owes
<1>2. CASE to = "received"
  <2>1. Rewrites(rs, ns, r, "received", rs[r].attempts, rs[r].owner, rs[r].tool)
    BY <1>1, <1>2, FailedOwedFields
  <2>2. rs[r].owner <= o
    BY DEF Form, Owned
  <2> HIDE DEF ns
  <2>3. /\ Form(ns, ob, o)
        /\ Budget(rs, k) /\ k[r] <= rs[r].attempts /\ rs[r].attempts <= MaxAttempts
             => Budget(ns, k)
    BY <2>1, <2>2, RewritesKeeps
  <2>4. Budget(rs, k) => Budget(ns, k)
    BY <2>3 DEF Budget
  <2>5. Aside(rs, ns, {r})
    BY <2>1 DEF Aside, Rewrites
  <2>6. SameAbsent(rs, ns)
    BY <1>1, <2>1 DEF SameAbsent, Rewrites
  <2> QED
    BY <2>3, <2>4, <2>5, <2>6 DEF ns
<1>3. CASE to # "received"
  <2>1. to \in {"dead", "interrupted"} /\ Settles(rs, ns, Family(rs, r), to)
    BY <1>1, <1>3, MarkFailedSettles
  <2> HIDE DEF ns, to
  <2>1a. to \in {"done", "dead", "interrupted"}
    BY <2>1
  <2>2. /\ Form(ns, ob, o) /\ (Budget(rs, k) => Budget(ns, k))
        /\ Aside(rs, ns, {r}) /\ SameAbsent(rs, ns)
    BY <1>1, <2>1a, <2>1, SettledRow
  <2> QED
    BY <2>2 DEF ns
<1> QED
  BY <1>2, <1>3

-----------------------------------------------------------------------------
(* The inductive invariant                                                 *)

\* This process holds the row, which may run: attempts left, no tool, no reply.
HeldRow(rs, ob, o, r) ==
    /\ r \in Row /\ rs[r].status = "received" /\ rs[r].owner = o
    /\ rs[r].attempts < MaxAttempts /\ ~rs[r].tool /\ r \notin ob

\* The messages of this process: their rows are claimed, untried or refunded,
\* and linked to no turn but the one whose sink holds them.
TasksHeld(rs, ob, o, in, qu, tn) ==
    /\ \A c \in in : HeldRow(rs, ob, o, c.row) /\ rs[c.row].into = None
    /\ \A i \in 1..Len(qu) : HeldRow(rs, ob, o, qu[i].row) /\ rs[qu[i].row].into = None
    /\ \A i \in 1..Len(tn.unread) :
         HeldRow(rs, ob, o, tn.unread[i].row) /\ rs[tn.unread[i].row].into = tn.row

\* No row is on its way to two turns.
Apart(in, qu, un) ==
    /\ \A c, d \in in : c.row = d.row => c = d
    /\ \A i, j \in 1..Len(qu) : qu[i].row = qu[j].row => i = j
    /\ \A i, j \in 1..Len(un) : un[i].row = un[j].row => i = j
    /\ \A c \in in, i \in 1..Len(qu) : c.row # qu[i].row

\* The running turn holds its row, and how far its delivery got fits its stage.
TurnHeld(rs, o, k, tn) ==
    /\ tn.stage = "idle" => tn = Idle
    /\ tn.stage # "idle" =>
         /\ tn.row \in Row /\ rs[tn.row].status = "processing" /\ rs[tn.row].owner = o
         /\ rs[tn.row].into = None /\ k[tn.row] < rs[tn.row].attempts
         /\ tn.tool = rs[tn.row].tool
    /\ tn.stage = "running" => tn.send = "none"
    /\ tn.stage = "tail" => tn.send # "none"
    /\ tn.answered => tn.send = "settled"

\* The inductive invariant of the rows and of who holds them.
HeldInv ==
    /\ TypeOK
    /\ owner # None
    /\ SpoolOK(rows, obliged, owner, kills)
    /\ TasksHeld(rows, obliged, owner, inbox, queue, turn)
    /\ Apart(inbox, queue, turn.unread)
    /\ TurnHeld(rows, owner, kills, turn)

\* None of the process's rows is in R.
Clear(in, qu, tn, R) ==
    /\ None \notin R
    /\ tn.stage # "idle" => tn.row \notin R
    /\ \A c \in in : c.row \notin R
    /\ \A i \in 1..Len(qu) : qu[i].row \notin R
    /\ \A i \in 1..Len(tn.unread) : tn.unread[i].row \notin R

\* A write to other rows.
LEMMA Undisturbed ==
    ASSUME NEW rs, NEW ns, NEW ob, NEW o, NEW k, NEW in, NEW qu, NEW tn, NEW R,
           TasksHeld(rs, ob, o, in, qu, tn), TurnHeld(rs, o, k, tn), Clear(in, qu, tn, R),
           Aside(rs, ns, R)
    PROVE  TasksHeld(ns, ob, o, in, qu, tn) /\ TurnHeld(ns, o, k, tn)
<1>1. ASSUME NEW r, HeldRow(rs, ob, o, r), r \notin R, rs[r].into \notin R
      PROVE  HeldRow(ns, ob, o, r) /\ ns[r].into = rs[r].into
  BY <1>1 DEF HeldRow, Aside, Owes
<1>2. \A c \in in : HeldRow(ns, ob, o, c.row) /\ ns[c.row].into = None
  BY <1>1 DEF TasksHeld, Clear
<1>3. \A i \in 1..Len(qu) : HeldRow(ns, ob, o, qu[i].row) /\ ns[qu[i].row].into = None
  BY <1>1 DEF TasksHeld, Clear
<1>4. ASSUME NEW i \in 1..Len(tn.unread)
      PROVE  HeldRow(ns, ob, o, tn.unread[i].row) /\ ns[tn.unread[i].row].into = tn.row
  <2>1. tn.stage # "idle"
    BY <1>4 DEF TurnHeld, Idle
  <2> QED
    BY <1>1, <1>4, <2>1 DEF TasksHeld, Clear
<1>5. TurnHeld(ns, o, k, tn)
  <2>1. tn.stage # "idle" => ns[tn.row] = rs[tn.row]
    BY DEF TurnHeld, Aside, Owes, Clear
  <2> QED
    BY <2>1 DEF TurnHeld
<1> QED
  BY <1>2, <1>3, <1>4, <1>5 DEF TasksHeld

\* What the invariant says of the state, with its types unfolded.
LEMMA HeldFacts ==
    ASSUME HeldInv
    PROVE  /\ rows \in Table /\ owner \in Nat /\ Form(rows, obliged, owner) /\ Budget(rows, kills)
           /\ turn.stage = "idle" => turn = Idle /\ turn.unread = <<>>
           /\ turn \in Turn /\ turn.unread \in Seq(Task) /\ queue \in Seq(Task)
           /\ \A c \in inbox : c \in Call /\ c.row \in Row /\ c.intr \in Row \cup {None}
BY DEF HeldInv, SpoolOK, Form, Shape, TypeOK, TurnHeld, Idle, Turn, Call

\* What a message's way into the lane does to the row of an interrupted turn.
LEMMA DiscardedKeeps ==
    ASSUME HeldInv, NEW c \in inbox
    PROVE  LET ns == Discarded(c)
           IN /\ Form(ns, obliged, owner) /\ Budget(ns, kills)
              /\ Aside(rows, ns, {}) /\ SameAbsent(rows, ns)
<1>1. CASE c.intr = None
  BY <1>1, HeldFacts DEF Discarded, Aside, SameAbsent
<1>2. CASE c.intr # None
  <2>1. c.intr \in Row
    BY <1>2, HeldFacts
  <2> QED
    BY <1>2, <2>1, HeldFacts, DiscardKeeps DEF Discarded
<1> QED
  BY <1>1, <1>2

\* A queued message keeps its row, which is held and owed, and comes out of one call only.
LEMMA EnqueueTurnHeld ==
    ASSUME HeldInv, NEW c \in inbox, EnqueueTurn(c)
    PROVE  HeldInv'
<1> DEFINE t == [row |-> c.row, text |-> c.text]
<1>1. /\ inbox' = inbox \ {c} /\ rows' = Discarded(c) /\ queue' = Append(queue, t)
      /\ UNCHANGED <<obliged, phase, owner, recovered, watched, replaying, visited,
                     turn, replied, asked, acted, told, astray, kills, spent>>
      /\ excused' = excused \cup GivenUp(c)
  BY DEF EnqueueTurn
<1>2. Form(rows', obliged, owner) /\ Budget(rows', kills) /\ Aside(rows, rows', {})
  BY <1>1, DiscardedKeeps
<1>3. t \in Task /\ c \in Call /\ c.row \in Row
  BY DEF HeldInv, TypeOK, Call, Task
<1>4. TypeOK'
  <2>1. GivenUp(c) \subseteq Message
    BY HeldFacts, RowFields DEF GivenUp
  <2>2. phase # "down"
    BY DEF HeldInv, TypeOK
  <2>3. rows' \in Table
    BY <1>2 DEF Form, Shape
  <2>4. queue' \in Seq(Task)
    BY <1>1, <1>3 DEF HeldInv, TypeOK
  <2> QED
    BY <1>1, <2>1, <2>2, <2>3, <2>4 DEF HeldInv, TypeOK, Table
<1>5. TasksHeld(rows', obliged, owner, inbox', queue, turn) /\ TurnHeld(rows', owner, kills, turn)
  <2>1. TasksHeld(rows, obliged, owner, inbox', queue, turn) /\ TurnHeld(rows, owner, kills, turn)
    BY <1>1 DEF HeldInv, TasksHeld
  <2>2. Clear(inbox', queue, turn, {})
    BY DEF Clear
  <2> QED
    BY <1>2, <2>1, <2>2, Undisturbed
<1>6. HeldRow(rows', obliged, owner, c.row) /\ rows'[c.row].into = None
  BY <1>2 DEF HeldInv, TasksHeld, HeldRow, Aside, Owes
<1>7. TasksHeld(rows', obliged, owner, inbox', queue', turn)
  <2>1. Len(queue') = Len(queue) + 1 /\ queue'[Len(queue) + 1] = t
        /\ \A i \in 1..Len(queue) : queue'[i] = queue[i]
    BY <1>1, <1>3 DEF HeldInv, TypeOK
  <2> QED
    BY <1>5, <1>6, <2>1 DEF TasksHeld
<1>8. Apart(inbox', queue', turn.unread)
  <2>1. Len(queue') = Len(queue) + 1 /\ queue'[Len(queue) + 1] = t /\ t.row = c.row
        /\ \A i \in 1..Len(queue) : queue'[i] = queue[i]
    BY <1>1, <1>3 DEF HeldInv, TypeOK
  <2>2. \A d \in inbox' : d \in inbox /\ d.row # c.row
    BY <1>1 DEF HeldInv, Apart
  <2>3. \A i, j \in 1..Len(queue') : queue'[i].row = queue'[j].row => i = j
    BY <1>1, <2>1 DEF HeldInv, Apart
  <2> QED
    BY <2>1, <2>2, <2>3 DEF HeldInv, Apart
<1> QED
  BY <1>1, <1>2, <1>4, <1>5, <1>7, <1>8 DEF HeldInv, SpoolOK

\* A message enters the process.
LEMMA NewCall ==
    ASSUME NEW rs, NEW ob, NEW o, NEW in, NEW qu, NEW tn, NEW c,
           TasksHeld(rs, ob, o, in, qu, tn), Apart(in, qu, tn.unread),
           HeldRow(rs, ob, o, c.row), rs[c.row].into = None,
           \A d \in in : d.row # c.row, \A i \in 1..Len(qu) : qu[i].row # c.row
    PROVE  TasksHeld(rs, ob, o, in \cup {c}, qu, tn) /\ Apart(in \cup {c}, qu, tn.unread)
<1>1. TasksHeld(rs, ob, o, in \cup {c}, qu, tn)
  BY DEF TasksHeld
<1>2. Apart(in \cup {c}, qu, tn.unread)
  BY DEF Apart
<1> QED
  BY <1>1, <1>2

\* A fresh row is nobody's yet.
LEMMA FreshHeld ==
    ASSUME NEW rs, NEW ns, NEW ob, NEW o \in Nat, NEW k, NEW in, NEW qu, NEW tn,
           NEW r, NEW key, NEW text, NEW w \in 0..o,
           Form(rs, ob, o), Budget(rs, k), TasksHeld(rs, ob, o, in, qu, tn), TurnHeld(rs, o, k, tn),
           Inserts(rs, ns, r, key, text, w), Used(rs) = 1..(r - 1)
    PROVE  /\ Form(ns, ob, o) /\ Budget(ns, k)
           /\ TasksHeld(ns, ob, o, in, qu, tn) /\ TurnHeld(ns, o, k, tn)
           /\ w = o => HeldRow(ns, ob, o, r) /\ ns[r].into = None
           /\ \A c \in in : c.row # r
           /\ \A i \in 1..Len(qu) : qu[i].row # r
<1>1. Form(ns, ob, o) /\ Budget(ns, k)
  BY InsertKeeps
<1>2. /\ ns[r].status = "received" /\ ns[r].owner = w /\ ns[r].attempts = 0
      /\ ns[r].tool = FALSE /\ ns[r].into = None /\ r \in Row /\ rs[r].status = "absent"
  BY DEF Inserts, NoRow
<1>3. /\ \A c \in in : c.row # r
      /\ \A i \in 1..Len(qu) : qu[i].row # r
      /\ \A i \in 1..Len(tn.unread) : tn.unread[i].row # r
      /\ tn.stage # "idle" => tn.row # r
  BY <1>2 DEF TasksHeld, HeldRow, TurnHeld
<1>4. Aside(rs, ns, {}) /\ Clear(in, qu, tn, {})
  BY <1>2 DEF Aside, Inserts, Owes, Clear
<1>5. TasksHeld(ns, ob, o, in, qu, tn) /\ TurnHeld(ns, o, k, tn)
  BY <1>4, Undisturbed
<1>6. r \notin ob
  BY <1>2 DEF Form, Obligations
<1>7. w = o => HeldRow(ns, ob, o, r) /\ ns[r].into = None
  BY <1>2, <1>6, TurnsAssumption DEF HeldRow
<1> QED
  BY <1>1, <1>3, <1>5, <1>7

\* A message received during a replay is claimed by nobody, and else by this process.
LEMMA ReceiveHeld ==
    ASSUME HeldInv, NEW m \in Message, Receive(m)
    PROVE  HeldInv'
<1> DEFINE r == NextRow(rows)
           w == IF replaying THEN None ELSE owner
<1>1. /\ phase = "up" /\ r \in Row /\ rows' = Insert(rows, m, {m}, w)
      /\ UNCHANGED <<obliged, phase, owner, recovered, replaying, visited, queue, turn,
                     replied, asked, excused, acted, told, astray, kills, spent>>
  BY DEF Receive, history
<1>2. \/ replaying /\ UNCHANGED <<inbox, watched>>
      \/ /\ ~replaying
         /\ \E i \in Row \cup {None} :
              inbox' = inbox \cup {[row |-> r, text |-> {m}, intr |-> i, loop |-> FALSE]}
         /\ watched' \in BOOLEAN
  BY DEF Receive, Pending, Retryable
<1>3. owner \in Nat /\ None \in Nat /\ owner # None /\ w \in 0..owner /\ 0 <= owner
  BY HeldFacts DEF HeldInv, None
<1>4. Shape(rows)
  BY DEF HeldInv, SpoolOK, Form
<1>5. Inserts(rows, rows', r, m, {m}, w) /\ Used(rows) = 1..(r - 1)
  <2>1. w \in Nat
    BY <1>3
  <2> HIDE DEF w
  <2> QED
    BY <1>1, <1>4, <2>1, InsertFields
<1> HIDE DEF w, r
<1>6. /\ Form(rows', obliged, owner) /\ Budget(rows', kills)
      /\ TasksHeld(rows', obliged, owner, inbox, queue, turn) /\ TurnHeld(rows', owner, kills, turn)
      /\ w = owner => HeldRow(rows', obliged, owner, r) /\ rows'[r].into = None
      /\ \A c \in inbox : c.row # r
      /\ \A i \in 1..Len(queue) : queue[i].row # r
  <2>1. /\ Form(rows, obliged, owner) /\ Budget(rows, kills)
        /\ TasksHeld(rows, obliged, owner, inbox, queue, turn) /\ TurnHeld(rows, owner, kills, turn)
    BY DEF HeldInv, SpoolOK
  <2> QED
    BY <1>3, <1>5, <2>1, FreshHeld
<1>7. CASE replaying /\ UNCHANGED <<inbox, watched>>
  <2>1. rows' \in Table
    BY <1>6 DEF Form, Shape
  <2>2. TypeOK'
    BY <1>1, <1>7, <2>1 DEF HeldInv, TypeOK, Table
  <2> QED
    BY <1>1, <1>6, <1>7, <2>2 DEF HeldInv, SpoolOK
<1>8. CASE /\ ~replaying /\ watched' \in BOOLEAN
           /\ \E i \in Row \cup {None} :
                inbox' = inbox \cup {[row |-> r, text |-> {m}, intr |-> i, loop |-> FALSE]}
  <2>1. PICK i \in Row \cup {None} :
          inbox' = inbox \cup {[row |-> r, text |-> {m}, intr |-> i, loop |-> FALSE]}
    BY <1>8
  <2> DEFINE c == [row |-> r, text |-> {m}, intr |-> i, loop |-> FALSE]
  <2>2. c \in Call /\ c.row = r
    BY <1>1 DEF Call, r
  <2>3. rows' \in Table
    BY <1>6 DEF Form, Shape
  <2>4. TypeOK'
    <3>1. inbox' \subseteq Call
      BY <2>1, <2>2 DEF HeldInv, TypeOK
    <3> QED
      BY <1>1, <1>8, <2>3, <3>1 DEF HeldInv, TypeOK, Table
  <2>5. w = owner
    BY <1>8 DEF w
  <2>6. TasksHeld(rows', obliged, owner, inbox', queue, turn) /\ Apart(inbox', queue, turn.unread)
    <3>1. Apart(inbox, queue, turn.unread)
      BY DEF HeldInv
    <3>2. HeldRow(rows', obliged, owner, c.row) /\ rows'[c.row].into = None
      BY <1>6, <2>2, <2>5
    <3>3. (\A d \in inbox : d.row # c.row) /\ (\A j \in 1..Len(queue) : queue[j].row # c.row)
      BY <1>6, <2>2
    <3> HIDE DEF c
    <3>4. /\ TasksHeld(rows', obliged, owner, inbox \cup {c}, queue, turn)
          /\ Apart(inbox \cup {c}, queue, turn.unread)
      BY <1>6, <3>1, <3>2, <3>3, NewCall
    <3> QED
      BY <2>1, <3>4 DEF c
  <2> QED
    BY <1>1, <1>6, <2>4, <2>6 DEF HeldInv, SpoolOK
<1> QED
  BY <1>2, <1>7, <1>8

\* Two writes that each leave other owed rows alone.
LEMMA AsideTrans ==
    ASSUME NEW rs, NEW ms, NEW ns, NEW R, NEW Q, Aside(rs, ms, R), Aside(ms, ns, Q)
    PROVE  Aside(rs, ns, R \cup Q)
BY DEF Aside, Owes

\* A call's row is on no other way to a turn.
LEMMA InboxClear ==
    ASSUME HeldInv, NEW c \in inbox
    PROVE  /\ Clear(inbox \ {c}, queue, turn, {c.row})
           /\ Apart(inbox \ {c}, queue, turn.unread)
           /\ TasksHeld(rows, obliged, owner, inbox \ {c}, queue, turn)
           /\ HeldRow(rows, obliged, owner, c.row) /\ rows[c.row].into = None
<1>1. /\ TasksHeld(rows, obliged, owner, inbox, queue, turn) /\ TurnHeld(rows, owner, kills, turn)
      /\ Apart(inbox, queue, turn.unread)
  BY DEF HeldInv
<1>2. TasksHeld(rows, obliged, owner, inbox \ {c}, queue, turn)
  BY <1>1 DEF TasksHeld
<1>3. Apart(inbox \ {c}, queue, turn.unread)
  BY <1>1 DEF Apart
<1>4. HeldRow(rows, obliged, owner, c.row) /\ rows[c.row].into = None
  BY <1>1 DEF TasksHeld
<1>5. turn.stage # "idle" => turn.row # c.row /\ turn.row # None
  BY <1>1, <1>4, RowNumbers DEF HeldRow, TurnHeld
<1>6. \A i \in 1..Len(turn.unread) : turn.unread[i].row # c.row
  <2>1. ASSUME NEW i \in 1..Len(turn.unread)
        PROVE  turn.stage # "idle" /\ rows[turn.unread[i].row].into = turn.row
    BY <1>1, <2>1 DEF TasksHeld, TurnHeld, Idle
  <2> QED
    BY <1>4, <1>5, <2>1
<1>7. Clear(inbox \ {c}, queue, turn, {c.row})
  BY <1>1, <1>4, <1>5, <1>6, RowNumbers DEF Clear, Apart, HeldRow
<1> QED
  BY <1>2, <1>3, <1>4, <1>7

\* A steered message's row is linked to the running turn's, which is owed.
LEMMA SteerHeld ==
    ASSUME HeldInv, NEW c \in inbox, Steer(c)
    PROVE  HeldInv'
<1> DEFINE t == [row |-> c.row, text |-> c.text]
           ms == Discarded(c)
           S == {d \in Row : d = c.row \/ ms[d].into = c.row}
<1>1. /\ turn.stage = "running"
      /\ inbox' = inbox \ {c}
      /\ rows' = MarkAbsorbed(ms, c.row, turn.row)
      /\ turn' = [turn EXCEPT !.unread = Append(@, t)]
      /\ excused' = excused \cup GivenUp(c)
      /\ astray' = astray \cup (c.text \ rows[c.row].text)
                        \cup (IF turn.aborted /\ ~Closing THEN c.text ELSE {})
      /\ UNCHANGED <<obliged, phase, owner, recovered, watched, replaying, visited,
                     queue, replied, asked, acted, told, kills, spent>>
  BY DEF Steer
<1>2. Form(ms, obliged, owner) /\ Budget(ms, kills) /\ Aside(rows, ms, {})
  BY DiscardedKeeps
<1>3. /\ t \in Task /\ t.row = c.row /\ c \in Call /\ c.row \in Row /\ c.text \subseteq Message
      /\ turn \in Turn /\ turn.unread \in Seq(Task)
  BY DEF HeldInv, TypeOK, Call, Task, Turn
<1>4. /\ Clear(inbox \ {c}, queue, turn, {c.row})
      /\ Apart(inbox \ {c}, queue, turn.unread)
      /\ TasksHeld(rows, obliged, owner, inbox \ {c}, queue, turn)
      /\ HeldRow(rows, obliged, owner, c.row) /\ rows[c.row].into = None
  BY InboxClear
<1>5. /\ TurnHeld(rows, owner, kills, turn) /\ turn.row \in Row /\ turn.row # c.row
      /\ rows[turn.row].status = "processing" /\ rows[turn.row].into = None
  BY <1>1, <1>4 DEF HeldInv, TurnHeld, HeldRow
<1>6. ms[c.row] = rows[c.row] /\ ms[turn.row] = rows[turn.row] /\ ms \in Table
  BY <1>2, <1>4, <1>5 DEF Aside, Owes, HeldRow, Form, Shape
<1> HIDE DEF ms
<1>7. Relinks(ms, rows', S, turn.row)
  <2>1. CanAbsorb(ms, c.row, turn.row)
    BY <1>4, <1>5, <1>6 DEF CanAbsorb, HeldRow
  <2> QED
    BY <1>1, <1>3, <1>5, <1>6, <2>1, MarkAbsorbedFields
<1>8. SpoolOK(rows', obliged, owner, kills)
  <2>1. SpoolOK(ms, obliged, owner, kills) /\ Tree(ms)
    BY <1>2 DEF SpoolOK, Form
  <2>2. Owes(ms, turn.row) /\ ms[turn.row].into = None /\ turn.row \notin S
    BY <1>3, <1>5, <1>6, RowNumbers DEF Owes
  <2>3. \A d \in S \cap Row : ms[d].status \in {"received", "done"}
    <3> SUFFICES ASSUME NEW d \in Row, ms[d].into = c.row
                 PROVE  ms[d].status \in {"received", "done"}
      BY <1>4, <1>6 DEF HeldRow
    <3>1. ms[d].status \in Statuses /\ ms[c.row].status = "received" /\ c.row # None
      BY <1>3, <1>4, <1>6, RowFields, RowNumbers DEF HeldRow
    <3> QED
      BY <2>1, <3>1 DEF Tree, Statuses
  <2>4. \A d \in Row : ms[d].into \in S => d \in S
    <3> SUFFICES ASSUME NEW d \in Row, NEW e \in Row, ms[d].into = e, ms[e].into = c.row
                 PROVE  FALSE
      BY DEF S
    <3>1. e # None /\ c.row # None
      BY <1>3, RowNumbers
    <3> QED
      BY <2>1, <3>1 DEF Tree
  <2> HIDE DEF S
  <2> QED
    BY <1>5, <1>7, <2>1, <2>2, <2>3, <2>4, RelinksKeeps
<1>9. Aside(rows, rows', {c.row})
  <2>1. Aside(ms, rows', {c.row})
    BY <1>7 DEF Aside, Relinks
  <2> QED
    BY <1>2, <2>1, AsideTrans
<1>10. /\ TasksHeld(rows', obliged, owner, inbox \ {c}, queue, turn)
       /\ TurnHeld(rows', owner, kills, turn)
  BY <1>4, <1>5, <1>9, Undisturbed
<1>11. /\ turn' \in Turn /\ turn'.row = turn.row /\ turn'.stage = turn.stage
       /\ turn'.tool = turn.tool /\ turn'.answered = turn.answered /\ turn'.send = turn.send
       /\ turn'.unread = Append(turn.unread, t)
  <2>1. Append(turn.unread, t) \in Seq(Task)
    BY <1>3
  <2>2. turn' = [turn EXCEPT !.unread = Append(turn.unread, t)]
    BY <1>1
  <2> HIDE DEF t
  <2>3. turn' \in Turn
    BY <1>3, <2>1, <2>2 DEF Turn
  <2> QED
    BY <1>3, <2>2, <2>3 DEF Turn
<1>12. /\ Len(turn'.unread) = Len(turn.unread) + 1 /\ turn'.unread[Len(turn.unread) + 1] = t
       /\ \A i \in 1..Len(turn.unread) : turn'.unread[i] = turn.unread[i]
  BY <1>3, <1>11
<1>13. TasksHeld(rows', obliged, owner, inbox', queue, turn')
  <2>1. HeldRow(rows', obliged, owner, c.row) /\ rows'[c.row].into = turn.row
    <3>1. c.row \in S
      BY <1>3
    <3> QED
      BY <1>3, <1>4, <1>6, <1>7, <3>1 DEF HeldRow, Relinks
  <2> QED
    BY <1>1, <1>3, <1>10, <1>11, <1>12, <2>1 DEF TasksHeld
<1>14. Apart(inbox', queue, turn'.unread)
  <2>1. \A i \in 1..Len(turn.unread) : turn.unread[i].row # c.row
    BY <1>4 DEF Clear
  <2>2. \A i, j \in 1..Len(turn'.unread) : turn'.unread[i].row = turn'.unread[j].row => i = j
    <3>1. Len(turn.unread) \in Nat
      BY <1>3
    <3>2. \A i \in 1..Len(turn'.unread) : i \in 1..Len(turn.unread) \/ i = Len(turn.unread) + 1
      BY <1>12, <3>1
    <3>3. \A i, j \in 1..Len(turn.unread) : turn.unread[i].row = turn.unread[j].row => i = j
      BY <1>4 DEF Apart
    <3>4. turn'.unread[Len(turn.unread) + 1].row = c.row
      BY <1>3, <1>12
    <3> QED
      BY <1>12, <2>1, <3>2, <3>3, <3>4, ZenonT(60)
  <2> QED
    BY <1>1, <1>4, <2>2 DEF Apart
<1>15. TurnHeld(rows', owner, kills, turn')
  BY <1>1, <1>10, <1>11 DEF TurnHeld
<1>16. TypeOK'
  <2>1. GivenUp(c) \subseteq Message
    BY HeldFacts, RowFields DEF GivenUp
  <2>2. phase # "down"
    BY DEF HeldInv, TypeOK
  <2>3. rows' \in Table
    BY <1>7 DEF Relinks
  <2>4. astray' \subseteq Message
    BY <1>1, <1>3 DEF HeldInv, TypeOK
  <2>5. inbox' \subseteq Call
    BY <1>1 DEF HeldInv, TypeOK
  <2>6. excused' \subseteq Message
    BY <1>1, <2>1 DEF HeldInv, TypeOK
  <2> QED
    BY <1>1, <1>11, <2>2, <2>3, <2>4, <2>5, <2>6 DEF HeldInv, TypeOK, Table
<1> QED
  BY <1>1, <1>8, <1>13, <1>14, <1>15, <1>16 DEF HeldInv

\* A consumed message closes a row no other call, task or turn stands for.
LEMMA ConsumeHeld ==
    ASSUME HeldInv, NEW c \in inbox, Consume(c)
    PROVE  HeldInv'
<1> DEFINE ms == IF rows' = MarkDone(rows, c.row) THEN rows ELSE Discarded(c)
<1>1. /\ inbox' = inbox \ {c} /\ rows' = MarkDone(ms, c.row)
      /\ UNCHANGED <<obliged, phase, owner, recovered, watched, replaying, visited,
                     queue, turn, replied, asked, acted, told, astray, kills, spent>>
  BY DEF Consume
<1>2. excused' \subseteq Message
  <2>1. GivenUp(c) \subseteq Message /\ c.text \subseteq Message
    BY HeldFacts, RowFields DEF GivenUp, Call
  <2> QED
    BY <2>1 DEF Consume, HeldInv, TypeOK
<1>3. Form(ms, obliged, owner) /\ Budget(ms, kills) /\ Aside(rows, ms, {})
  BY DiscardedKeeps, HeldFacts DEF Aside
<1>4. /\ Clear(inbox', queue, turn, {c.row}) /\ Apart(inbox', queue, turn.unread)
      /\ TasksHeld(rows, obliged, owner, inbox', queue, turn)
      /\ HeldRow(rows, obliged, owner, c.row) /\ rows[c.row].into = None
  BY <1>1, InboxClear
<1>5. c.row \in Row /\ Owes(ms, c.row)
  BY <1>3, <1>4 DEF HeldRow, Owes, Aside
<1> HIDE DEF ms
<1>6. /\ Form(rows', obliged, owner) /\ Budget(rows', kills) /\ Aside(ms, rows', {c.row})
  BY <1>1, <1>3, <1>5, MarkDoneKeeps, HeldFacts
<1>7. Aside(rows, rows', {c.row})
  BY <1>3, <1>6, AsideTrans
<1>8. TasksHeld(rows', obliged, owner, inbox', queue, turn) /\ TurnHeld(rows', owner, kills, turn)
  BY <1>4, <1>7, Undisturbed DEF HeldInv
<1>9. TypeOK'
  <2>1. rows' \in Table
    BY <1>6 DEF Form, Shape
  <2>2. inbox' \subseteq Call
    BY <1>1 DEF HeldInv, TypeOK
  <2>3. phase # "down"
    BY DEF HeldInv, TypeOK
  <2> QED
    BY <1>1, <1>2, <2>1, <2>2, <2>3 DEF HeldInv, TypeOK, Table
<1> QED
  BY <1>1, <1>4, <1>6, <1>8, <1>9 DEF HeldInv, SpoolOK

\* Closing the interrupted row of a retry touches no owed row.
LEMMA ReplacedKeeps ==
    ASSUME NEW rs, NEW ob, NEW o \in Nat, NEW k, Form(rs, ob, o), NEW r \in Row,
           rs[r].status = "interrupted"
    PROVE  LET ns == Replaced(rs, r)
           IN /\ Form(ns, ob, o) /\ (Budget(rs, k) => Budget(ns, k))
              /\ Aside(rs, ns, {}) /\ SameAbsent(rs, ns)
<1> DEFINE ns == Replaced(rs, r)
<1>1. rs \in Table /\ Tree(rs)
  BY DEF Form, Shape
<1>2. Settles(rs, ns, Family(rs, r), "done")
  BY <1>1, ReplacedSettles
<1> HIDE DEF ns
<1>3. /\ Form(ns, ob, o) /\ (Budget(rs, k) => Budget(ns, k))
      /\ SameAbsent(rs, ns)
  BY <1>2, SettledRow
<1>4. \A c \in Family(rs, r) : ~Owes(rs, c)
  BY <1>1, RowNumbers DEF Family, Tree, Owes
<1>5. Aside(rs, ns, {})
  BY <1>2, <1>4 DEF Aside, Settles
<1> QED
  BY <1>3, <1>5 DEF ns

\* A folded text is a set of messages.
LEMMA FoldedTextType ==
    ASSUME NEW rs \in Table, NEW r \in Row
    PROVE  FoldedText(rs, r) \subseteq Message
BY RowFields DEF FoldedText, Absorbed

\* The row a retry inserts is held by this process and by the one call it goes to.
LEMMA RetryHeld ==
    ASSUME HeldInv, NEW c \in inbox, Retry(c)
    PROVE  HeldInv'
<1>1. /\ excused' = excused \cup c.text /\ c.intr \in Row /\ c \in Call /\ c.text \subseteq Message
      /\ UNCHANGED <<obliged, phase, owner, recovered, replaying, visited, queue,
                     turn, replied, told, astray, kills, spent>>
  BY HeldFacts DEF Retry, IsRetry, Call
<1>2. /\ Clear(inbox \ {c}, queue, turn, {c.row}) /\ Apart(inbox \ {c}, queue, turn.unread)
      /\ TasksHeld(rows, obliged, owner, inbox \ {c}, queue, turn)
      /\ HeldRow(rows, obliged, owner, c.row) /\ rows[c.row].into = None
      /\ TurnHeld(rows, owner, kills, turn)
  BY InboxClear DEF HeldInv
<1>3. /\ rows \in Table /\ owner \in Nat /\ Form(rows, obliged, owner) /\ Budget(rows, kills)
  BY HeldFacts
<1>4. phase # "down" /\ excused' \subseteq Message
  BY <1>1 DEF HeldInv, TypeOK
<1>5. CASE rows[c.intr].status # "interrupted"
  <2>1. /\ rows' = MarkDone(rows, c.row) /\ inbox' = inbox \ {c}
        /\ UNCHANGED <<watched, acted, asked>>
    BY <1>5 DEF Retry
  <2>2. c.row \in Row /\ Owes(rows, c.row)
    BY <1>2 DEF HeldRow, Owes
  <2>3. Form(rows', obliged, owner) /\ Budget(rows', kills) /\ Aside(rows, rows', {c.row})
    BY <1>3, <2>1, <2>2, MarkDoneKeeps
  <2>4. /\ TasksHeld(rows', obliged, owner, inbox', queue, turn)
        /\ TurnHeld(rows', owner, kills, turn)
    BY <1>2, <2>1, <2>3, Undisturbed
  <2>5. rows' \in Table /\ inbox' \subseteq Call
    BY <2>1, <2>3 DEF Form, Shape, HeldInv, TypeOK
  <2>6. TypeOK'
    BY <1>1, <1>4, <2>1, <2>5 DEF HeldInv, TypeOK, Table
  <2> QED
    BY <1>1, <1>2, <2>1, <2>3, <2>4, <2>6 DEF HeldInv, SpoolOK
<1>6. CASE rows[c.intr].status = "interrupted"
  <2> DEFINE text  == FoldedText(rows, c.intr)
             fresh == NextRow(rows)
             os    == Replaced(rows, c.intr)
             ms    == Insert(os, NoMessage, text, owner)
  <2>1. /\ fresh \in Row /\ rows' = MarkDone(ms, c.row)
        /\ acted' = acted \ text /\ asked' = asked \cup text
        /\ \/ inbox' = inbox \ {c} /\ watched' = watched
           \/ /\ watched' \in BOOLEAN
              /\ \E i \in Row \cup {None} :
                   inbox' = (inbox \ {c}) \cup {[row |-> fresh, text |-> text, intr |-> i, loop |-> FALSE]}
    BY <1>6 DEF Retry, RetryInterrupted, Replaced, Pending, Retryable
  <2>2. Form(os, obliged, owner) /\ Budget(os, kills) /\ Aside(rows, os, {}) /\ SameAbsent(rows, os)
    BY <1>1, <1>3, <1>6, ReplacedKeeps
  <2>3. text \in SUBSET Message
    BY <1>1, <1>3, FoldedTextType
  <2> HIDE DEF os, text
  <2>4. Shape(os) /\ NextRow(os) = fresh
    BY <2>2 DEF Form, NextRow, Used, SameAbsent
  <2>5. Inserts(os, ms, fresh, NoMessage, text, owner) /\ Used(os) = 1..(fresh - 1)
    BY <1>3, <2>1, <2>3, <2>4, InsertFields
  <2> HIDE DEF ms, fresh
  <2>6. /\ TasksHeld(os, obliged, owner, inbox \ {c}, queue, turn) /\ TurnHeld(os, owner, kills, turn)
    <3>1. Clear(inbox \ {c}, queue, turn, {})
      BY DEF Clear
    <3> QED
      BY <1>2, <2>2, <3>1, Undisturbed
  <2>7. /\ Form(ms, obliged, owner) /\ Budget(ms, kills)
        /\ TasksHeld(ms, obliged, owner, inbox \ {c}, queue, turn) /\ TurnHeld(ms, owner, kills, turn)
        /\ HeldRow(ms, obliged, owner, fresh) /\ ms[fresh].into = None
        /\ \A d \in inbox \ {c} : d.row # fresh
        /\ \A i \in 1..Len(queue) : queue[i].row # fresh
    <3>1. owner \in 0..owner
      BY <1>3
    <3> QED
      BY <1>3, <2>2, <2>5, <2>6, <3>1, FreshHeld
  <2>8. Owes(ms, c.row) /\ c.row \in Row /\ c.row # fresh
    BY <1>2, <2>2, <2>5 DEF HeldRow, Owes, Aside, Inserts
  <2>9. Form(rows', obliged, owner) /\ Budget(rows', kills) /\ Aside(ms, rows', {c.row})
    BY <1>3, <2>1, <2>7, <2>8, MarkDoneKeeps
  <2>10. rows' \in Table /\ acted' \subseteq Message /\ asked' \subseteq Message
    BY <2>1, <2>3, <2>9 DEF Form, Shape, HeldInv, TypeOK
  <2>11. CASE inbox' = inbox \ {c} /\ watched' = watched
    <3>1. TasksHeld(rows', obliged, owner, inbox', queue, turn) /\ TurnHeld(rows', owner, kills, turn)
      BY <1>2, <2>7, <2>9, <2>11, Undisturbed
    <3>2. TypeOK'
      BY <1>1, <1>4, <2>10, <2>11 DEF HeldInv, TypeOK, Table
    <3> QED
      BY <1>1, <1>2, <2>9, <2>11, <3>1, <3>2 DEF HeldInv, SpoolOK
  <2>12. ASSUME watched' \in BOOLEAN, NEW i \in Row \cup {None},
                inbox' = (inbox \ {c}) \cup {[row |-> fresh, text |-> text, intr |-> i, loop |-> FALSE]}
         PROVE  HeldInv'
    <3> DEFINE d == [row |-> fresh, text |-> text, intr |-> i, loop |-> FALSE]
    <3>1. d \in Call /\ d.row = fresh
      BY <2>1, <2>3 DEF Call
    <3>2. inbox' = (inbox \ {c}) \cup {d}
      BY <2>12
    <3> HIDE DEF d
    <3>3. TasksHeld(ms, obliged, owner, inbox', queue, turn) /\ Apart(inbox', queue, turn.unread)
      BY <1>2, <2>7, <3>1, <3>2, NewCall
    <3>4. Clear(inbox', queue, turn, {c.row})
      BY <1>2, <2>8, <3>1, <3>2 DEF Clear
    <3>5. TasksHeld(rows', obliged, owner, inbox', queue, turn) /\ TurnHeld(rows', owner, kills, turn)
      BY <2>7, <2>9, <3>3, <3>4, Undisturbed
    <3>6. inbox' \subseteq Call
      BY <3>1, <3>2 DEF HeldInv, TypeOK
    <3>7. TypeOK'
      BY <1>1, <1>4, <2>10, <2>12, <3>6 DEF HeldInv, TypeOK, Table
    <3> QED
      BY <1>1, <2>9, <3>3, <3>5, <3>7 DEF HeldInv, SpoolOK
  <2> QED
    BY <2>1, <2>11, <2>12
<1> QED
  BY <1>5, <1>6

\* Aborting a turn changes its flag only.
LEMMA AbortedTurn ==
    ASSUME turn \in Turn, NEW t, t = [turn EXCEPT !.aborted = TRUE]
    PROVE  /\ t \in Turn /\ t.row = turn.row /\ t.stage = turn.stage /\ t.tool = turn.tool
           /\ t.unread = turn.unread /\ t.answered = turn.answered /\ t.send = turn.send
           /\ t.text = turn.text
BY DEF Turn

\* The text of a list of tasks is a set of messages.
LEMMA TextOfType ==
    ASSUME NEW tasks \in Seq(Task)
    PROVE  TextOf(tasks) \subseteq Message
<1>1. ASSUME NEW i \in DOMAIN tasks
      PROVE  tasks[i].text \subseteq Message
  <2>1. tasks[i] \in Task
    OBVIOUS
  <2> QED
    BY <2>1 DEF Task
<1> QED
  BY <1>1 DEF TextOf

\* What the lane forgets.
LEMMA AbortedHeld ==
    ASSUME HeldInv, NEW t, t = IF turn.stage = "idle" THEN turn ELSE [turn EXCEPT !.aborted = TRUE],
           NEW rs, NEW in, TasksHeld(rs, obliged, owner, in, <<>>, turn), TurnHeld(rs, owner, kills, turn)
    PROVE  /\ TasksHeld(rs, obliged, owner, in, <<>>, t) /\ TurnHeld(rs, owner, kills, t)
           /\ t \in Turn /\ t.unread = turn.unread /\ t.text = turn.text /\ t.stage = turn.stage
<1>1. CASE turn.stage = "idle"
  BY <1>1, HeldFacts
<1>2. CASE turn.stage # "idle"
  <2>1. /\ t \in Turn /\ t.row = turn.row /\ t.stage = turn.stage /\ t.tool = turn.tool
        /\ t.unread = turn.unread /\ t.answered = turn.answered /\ t.send = turn.send
        /\ t.text = turn.text
    BY <1>2, AbortedTurn, HeldFacts
  <2> QED
    BY <1>2, <2>1 DEF TasksHeld, TurnHeld
<1> QED
  BY <1>1, <1>2

\* What /stop drops with the queue.
LEMMA QueuedRows ==
    ASSUME HeldInv, NEW c \in inbox, NEW ms, ms = Discarded(c), NEW q \in RowsOf(queue)
    PROVE  /\ q \in Row /\ rows[q].status = "received" /\ rows[q].into = None
           /\ q # c.row /\ ms[q] = rows[q]
           /\ \A d \in inbox : d.row # q
           /\ turn.stage # "idle" => turn.row # q
           /\ \A i \in 1..Len(turn.unread) : turn.unread[i].row # q
<1>1. Form(ms, obliged, owner) /\ Budget(ms, kills) /\ Aside(rows, ms, {})
  BY DiscardedKeeps
<1>2. /\ Apart(inbox, queue, turn.unread) /\ TurnHeld(rows, owner, kills, turn)
      /\ TasksHeld(rows, obliged, owner, inbox, queue, turn) /\ queue \in Seq(Task)
  BY HeldFacts DEF HeldInv
<1>3. PICK i \in 1..Len(queue) : q = queue[i].row
  BY <1>2 DEF RowsOf
<1>4. HeldRow(rows, obliged, owner, q) /\ rows[q].into = None
  BY <1>2, <1>3 DEF TasksHeld
<1>5. \A d \in inbox : d.row # q
  BY <1>2, <1>3 DEF Apart
<1>6. turn.stage # "idle" => turn.row # q /\ turn.row # None
  BY <1>2, <1>4, RowNumbers DEF TurnHeld, HeldRow
<1>7. \A j \in 1..Len(turn.unread) : turn.unread[j].row # q
  <2>1. ASSUME NEW j \in 1..Len(turn.unread)
        PROVE  turn.stage # "idle" /\ rows[turn.unread[j].row].into = turn.row
    BY <1>2, <2>1 DEF TasksHeld, TurnHeld, Idle
  <2> QED
    BY <1>4, <1>6, <2>1
<1>8. ms[q] = rows[q]
  BY <1>1, <1>4 DEF Aside, Owes, HeldRow
<1> QED
  BY <1>4, <1>5, <1>6, <1>7, <1>8 DEF HeldRow

\* Closing the rows of all queued turns touches none that the lane still needs.
LEMMA DroppedQueue ==
    ASSUME HeldInv, NEW c \in inbox, NEW ms, ms = Discarded(c), NEW xs, xs = CloseAll(ms, queue),
           NEW E, E = {d \in Row : \E q \in RowsOf(queue) : d \in Family(ms, q)}
    PROVE  /\ Settles(ms, xs, E, "done")
           /\ Form(xs, obliged, owner) /\ Budget(xs, kills) /\ Aside(rows, xs, RowsOf(queue))
<1>1. /\ Form(ms, obliged, owner) /\ Budget(ms, kills) /\ Aside(rows, ms, {}) /\ owner \in Nat
  BY DiscardedKeeps, HeldFacts
<1>2. ms \in Table /\ Tree(ms)
  BY <1>1 DEF Form, Shape
<1>3. \A q \in RowsOf(queue) : q \in Row /\ Owes(ms, q)
  BY QueuedRows DEF Owes
<1>4. Settles(ms, xs, E, "done") /\ Closed(ms, E)
  BY <1>2, <1>3, CloseAllSettles
<1>5. \A d \in E : d \in RowsOf(queue) \/ ms[d].into \in RowsOf(queue)
  BY DEF Family
<1>6. Form(xs, obliged, owner) /\ Budget(xs, kills)
  BY <1>1, <1>4, SettlesKeeps
<1>7. Aside(ms, xs, RowsOf(queue))
  BY <1>4, <1>5 DEF Aside, Settles
<1>8. {} \cup RowsOf(queue) = RowsOf(queue)
  OBVIOUS
<1>9. Aside(rows, xs, RowsOf(queue))
  BY <1>1, <1>7, <1>8, AsideTrans
<1> QED
  BY <1>4, <1>6, <1>9

\* /stop closes rows that no call, task or turn stands for any more.
LEMMA StopHeld ==
    ASSUME HeldInv, NEW c \in inbox, Stop(c)
    PROVE  HeldInv'
<1> DEFINE ms == Discarded(c)
           ks == IF Closing THEN ms ELSE CloseAll(ms, queue)
<1>1. /\ inbox' = inbox \ {c} /\ queue' = <<>>
      /\ turn' = IF turn.stage = "idle" THEN turn ELSE [turn EXCEPT !.aborted = TRUE]
      /\ rows' = MarkDone(ks, c.row)
      /\ excused' = excused \cup GivenUp(c) \cup c.text \cup turn.text
                     \cup TextOf(turn.unread) \cup TextOf(queue)
      /\ UNCHANGED <<obliged, phase, owner, recovered, watched, replaying, visited,
                     replied, asked, acted, told, astray, kills, spent>>
  BY DEF Stop
<1>2. Form(ms, obliged, owner) /\ Budget(ms, kills) /\ Aside(rows, ms, {})
  BY DiscardedKeeps
<1>3. /\ Clear(inbox \ {c}, queue, turn, {c.row}) /\ Apart(inbox, queue, turn.unread)
      /\ TasksHeld(rows, obliged, owner, inbox, queue, turn)
      /\ TasksHeld(rows, obliged, owner, inbox \ {c}, queue, turn)
      /\ HeldRow(rows, obliged, owner, c.row) /\ rows[c.row].into = None
      /\ TurnHeld(rows, owner, kills, turn)
      /\ turn.unread \in Seq(Task) /\ queue \in Seq(Task) /\ owner \in Nat
  BY InboxClear, HeldFacts DEF HeldInv
<1>4. ASSUME NEW q \in RowsOf(queue)
      PROVE  /\ q \in Row /\ rows[q].status = "received" /\ rows[q].into = None
             /\ q # c.row /\ ms[q] = rows[q]
             /\ \A d \in inbox : d.row # q
             /\ turn.stage # "idle" => turn.row # q
             /\ \A i \in 1..Len(turn.unread) : turn.unread[i].row # q
  BY QueuedRows
<1>5. Form(ks, obliged, owner) /\ Budget(ks, kills) /\ Aside(rows, ks, RowsOf(queue))
  <2>1. CASE Closing
    <3>1. Aside(ms, ms, RowsOf(queue)) /\ {} \cup RowsOf(queue) = RowsOf(queue)
      BY DEF Aside
    <3> QED
      BY <1>2, <2>1, <3>1, AsideTrans
  <2>2. CASE ~Closing
    BY <2>2, DroppedQueue
  <2> QED
    BY <2>1, <2>2
<1> HIDE DEF ms, ks
<1>6. c.row \in Row /\ Owes(ks, c.row)
  <2>1. c.row \notin RowsOf(queue) /\ None \notin RowsOf(queue)
    BY <1>4, RowNumbers
  <2> QED
    BY <1>3, <1>5, <2>1 DEF HeldRow, Owes, Aside
<1>7. Form(rows', obliged, owner) /\ Budget(rows', kills) /\ Aside(ks, rows', {c.row})
  BY <1>1, <1>3, <1>5, <1>6, MarkDoneKeeps
<1>8. Aside(rows, rows', RowsOf(queue) \cup {c.row})
  BY <1>5, <1>7, AsideTrans
<1>9. Clear(inbox', <<>>, turn, RowsOf(queue) \cup {c.row})
  <2>1. Clear(inbox', queue, turn, {c.row})
    BY <1>1, <1>3
  <2>2. None \notin RowsOf(queue)
    BY <1>4, RowNumbers
  <2> QED
    BY <1>1, <1>4, <2>1, <2>2 DEF Clear
<1>10. TasksHeld(rows, obliged, owner, inbox', <<>>, turn)
  BY <1>1, <1>3 DEF TasksHeld
<1>11. TasksHeld(rows', obliged, owner, inbox', <<>>, turn) /\ TurnHeld(rows', owner, kills, turn)
  BY <1>3, <1>8, <1>9, <1>10, Undisturbed
<1>12. /\ TasksHeld(rows', obliged, owner, inbox', <<>>, turn') /\ TurnHeld(rows', owner, kills, turn')
       /\ turn' \in Turn /\ turn'.unread = turn.unread
  BY <1>1, <1>11, AbortedHeld
<1>13. Apart(inbox', queue', turn'.unread)
  BY <1>1, <1>3, <1>12 DEF Apart
<1>14. TypeOK'
  <2>1. GivenUp(c) \subseteq Message
    BY HeldFacts, RowFields DEF GivenUp
  <2>2. phase # "down"
    BY DEF HeldInv, TypeOK
  <2>3. rows' \in Table /\ queue' \in Seq(Task)
    BY <1>1, <1>7 DEF Form, Shape
  <2>4. inbox' \subseteq Call /\ c.text \subseteq Message /\ turn.text \subseteq Message
    BY <1>1 DEF HeldInv, TypeOK, Call, Turn
  <2>5. TextOf(turn.unread) \subseteq Message /\ TextOf(queue) \subseteq Message
    BY <1>3, TextOfType
  <2>6. excused' \subseteq Message
    BY <1>1, <2>1, <2>4, <2>5 DEF HeldInv, TypeOK
  <2> QED
    BY <1>1, <1>12, <2>2, <2>3, <2>4, <2>6 DEF HeldInv, TypeOK, Table
<1> QED
  BY <1>1, <1>7, <1>12, <1>13, <1>14 DEF HeldInv, SpoolOK

\* Whatever becomes of a dispatched message, the invariant is kept.
LEMMA DispatchHeld ==
    ASSUME HeldInv, NEW c \in inbox, Dispatch(c)
    PROVE  HeldInv'
BY EnqueueTurnHeld, SteerHeld, ConsumeHeld, RetryHeld, StopHeld DEF Dispatch

\* The head of the lane's queue.
LEMMA HeadHeld ==
    ASSUME HeldInv, queue # <<>>, turn.stage = "idle", NEW q, q = Tail(queue)
    PROVE  LET r == Head(queue).row
           IN /\ Head(queue) \in Task /\ q \in Seq(Task)
              /\ HeldRow(rows, obliged, owner, r) /\ rows[r].into = None
              /\ Clear(inbox, q, turn, {r}) /\ Apart(inbox, q, turn.unread)
              /\ TasksHeld(rows, obliged, owner, inbox, q, turn)
<1> DEFINE r == Head(queue).row
<1>1. queue \in Seq(Task) /\ turn.unread = <<>> /\ Len(queue) >= 1 /\ r = queue[1].row
  BY HeldFacts
<1>2. /\ q \in Seq(Task) /\ Len(q) = Len(queue) - 1 /\ Head(queue) \in Task
      /\ \A i \in 1..Len(q) : q[i] = queue[i + 1] /\ i + 1 \in 1..Len(queue)
  BY <1>1
<1>3. TasksHeld(rows, obliged, owner, inbox, queue, turn) /\ Apart(inbox, queue, turn.unread)
  BY DEF HeldInv
<1>4. HeldRow(rows, obliged, owner, r) /\ rows[r].into = None
  BY <1>1, <1>3 DEF TasksHeld
<1>5. TasksHeld(rows, obliged, owner, inbox, q, turn)
  BY <1>2, <1>3 DEF TasksHeld
<1>6. Apart(inbox, q, turn.unread)
  <2>1. \A i, j \in 1..Len(q) : q[i].row = q[j].row => i = j
    <3> SUFFICES ASSUME NEW i \in 1..Len(q), NEW j \in 1..Len(q), q[i].row = q[j].row
                 PROVE  i = j
      OBVIOUS
    <3>1. i + 1 = j + 1
      BY <1>2, <1>3 DEF Apart
    <3> QED
      BY <3>1
  <2> QED
    BY <1>2, <1>3, <2>1 DEF Apart
<1>7. Clear(inbox, q, turn, {r})
  <2>1. \A i \in 1..Len(q) : q[i].row # r
    <3> SUFFICES ASSUME NEW i \in 1..Len(q), q[i].row = r
                 PROVE  FALSE
      OBVIOUS
    <3>1. 1 \in 1..Len(queue)
      BY <1>1
    <3>2. i + 1 = 1
      BY <1>1, <1>2, <1>3, <3>1 DEF Apart
    <3> QED
      BY <3>2
  <2>2. \A c \in inbox : c.row # r
    BY <1>1, <1>3 DEF Apart
  <2>3. r # None
    BY <1>4, RowNumbers DEF HeldRow
  <2> QED
    BY <1>1, <2>1, <2>2, <2>3 DEF Clear
<1> QED
  BY <1>2, <1>4, <1>5, <1>6, <1>7

\* An idle turn has its type and holds nothing.
LEMMA IdleType ==
    Idle \in Turn /\ Idle.unread = <<>> /\ ~Idle.tool /\ ~Idle.answered /\ Idle.send = "none"
<1>1. <<>> \in Seq(Task) /\ None \in Row \cup {None}
  OBVIOUS
<1> QED
  BY <1>1 DEF Idle, Turn

\* The head's row becomes `processing`; its attempt leaves room for one more kill.
LEMMA StartTurnHeld ==
    ASSUME HeldInv, StartTurn
    PROVE  HeldInv'
<1> DEFINE h == Head(queue)
           r == h.row
<1>1. /\ phase # "down" /\ turn.stage = "idle" /\ queue # <<>> /\ queue' = Tail(queue)
      /\ turn' = [Idle EXCEPT !.row = r, !.text = h.text, !.stage = "running"]
      /\ rows' = MarkProcessing(rows, r, owner)
      /\ UNCHANGED <<obliged, phase, owner, recovered, watched, replaying, visited, inbox,
                     replied, asked, excused, acted, told, astray, kills, spent>>
  BY DEF StartTurn, history
<1>2. /\ h \in Task /\ queue' \in Seq(Task)
      /\ HeldRow(rows, obliged, owner, r) /\ rows[r].into = None
      /\ Clear(inbox, queue', turn, {r}) /\ Apart(inbox, queue', turn.unread)
      /\ TasksHeld(rows, obliged, owner, inbox, queue', turn)
  BY <1>1, HeadHeld
<1>3. /\ rows \in Table /\ owner \in Nat /\ Form(rows, obliged, owner) /\ Budget(rows, kills)
      /\ turn = Idle /\ TurnHeld(rows, owner, kills, turn) /\ kills \in [Row -> Nat]
  BY <1>1, HeldFacts DEF HeldInv, TypeOK
<1> HIDE DEF h
<1>4. /\ r \in Row /\ rows[r].status = "received" /\ rows[r].attempts \in Nat
      /\ rows[r].attempts < MaxAttempts /\ Owes(rows, r) /\ h.text \subseteq Message
  BY <1>2, <1>3, RowFields DEF HeldRow, Owes, Task
<1>5. Rewrites(rows, rows', r, "processing", rows[r].attempts + 1, owner, rows[r].tool)
  BY <1>1, <1>3, <1>4, MarkProcessingFields
<1>6. kills[r] <= rows[r].attempts /\ kills[r] \in Nat /\ MaxAttempts \in Nat
  BY <1>3, <1>4, TurnsAssumption DEF Budget
<1>7. Form(rows', obliged, owner) /\ Budget(rows', kills)
  <2>1. kills[r] <= rows[r].attempts + 1 /\ rows[r].attempts + 1 <= MaxAttempts
    BY <1>4, <1>6
  <2>2. owner <= owner
    BY <1>3
  <2> QED
    BY <1>2, <1>3, <1>4, <1>5, <2>1, <2>2, RewritesKeeps
<1>8. Aside(rows, rows', {r})
  BY <1>5 DEF Aside, Rewrites
<1>9. TasksHeld(rows', obliged, owner, inbox, queue', turn)
  BY <1>2, <1>3, <1>8, Undisturbed
<1>10. /\ turn' \in Turn /\ turn'.row = r /\ turn'.stage = "running" /\ turn'.unread = <<>>
       /\ turn'.tool = FALSE /\ turn'.answered = FALSE /\ turn'.send = "none"
  <2>1. Idle \in Turn /\ Idle.unread = <<>> /\ ~Idle.tool /\ ~Idle.answered /\ Idle.send = "none"
    BY IdleType
  <2>2. turn' \in Turn
    BY <1>1, <1>4, <2>1 DEF Turn
  <2> QED
    BY <1>1, <2>1, <2>2 DEF Turn
<1>11. TasksHeld(rows', obliged, owner, inbox, queue', turn')
  BY <1>9, <1>10 DEF TasksHeld
<1>12. Apart(inbox, queue', turn'.unread)
  BY <1>2, <1>10 DEF Apart
<1>13. TurnHeld(rows', owner, kills, turn')
  <2>1. kills[r] < rows[r].attempts + 1
    BY <1>4, <1>6
  <2>2. rows'[r].tool = FALSE
    BY <1>2, <1>3, <1>4, <1>5, RowFields DEF HeldRow, Rewrites
  <2> QED
    BY <1>2, <1>4, <1>5, <1>10, <2>1, <2>2 DEF TurnHeld, Rewrites
<1>14. TypeOK'
  <2>1. rows' \in Table
    BY <1>7 DEF Form, Shape
  <2> QED
    BY <1>1, <1>2, <1>10, <2>1 DEF HeldInv, TypeOK, Table
<1> QED
  BY <1>1, <1>7, <1>11, <1>12, <1>13, <1>14 DEF HeldInv, SpoolOK

\* A refused turn closes the row of the task it drops.
LEMMA RefuseAtCapHeld ==
    ASSUME HeldInv, RefuseAtCap
    PROVE  HeldInv'
<1> DEFINE h == Head(queue)
           r == h.row
<1>1. /\ phase # "down" /\ turn.stage = "idle" /\ queue # <<>> /\ queue' = Tail(queue)
      /\ rows' = MarkDone(rows, r) /\ excused' = excused \cup h.text
      /\ UNCHANGED <<obliged, phase, owner, recovered, watched, replaying, visited,
                     inbox, turn, replied, asked, acted, told, astray, kills, spent>>
  BY DEF RefuseAtCap
<1>2. /\ h \in Task /\ queue' \in Seq(Task)
      /\ HeldRow(rows, obliged, owner, r) /\ rows[r].into = None
      /\ Clear(inbox, queue', turn, {r}) /\ Apart(inbox, queue', turn.unread)
      /\ TasksHeld(rows, obliged, owner, inbox, queue', turn)
  BY <1>1, HeadHeld
<1> HIDE DEF h
<1>3. r \in Row /\ Owes(rows, r) /\ h.text \subseteq Message
  BY <1>2 DEF HeldRow, Owes, Task
<1>4. Form(rows', obliged, owner) /\ Budget(rows', kills) /\ Aside(rows, rows', {r})
  BY <1>1, <1>3, HeldFacts, MarkDoneKeeps
<1>5. TasksHeld(rows', obliged, owner, inbox, queue', turn) /\ TurnHeld(rows', owner, kills, turn)
  BY <1>2, <1>4, Undisturbed DEF HeldInv
<1>6. TypeOK'
  <2>1. rows' \in Table
    BY <1>4 DEF Form, Shape
  <2>2. excused' \subseteq Message
    BY <1>1, <1>3 DEF HeldInv, TypeOK
  <2> QED
    BY <1>1, <1>2, <2>1, <2>2 DEF HeldInv, TypeOK, Table
<1> QED
  BY <1>1, <1>2, <1>4, <1>5, <1>6 DEF HeldInv, SpoolOK

\* The tool flag of the turn and of its row go together.
LEMMA StartToolHeld ==
    ASSUME HeldInv, StartTool
    PROVE  HeldInv'
<1> DEFINE r == turn.row
<1>1. /\ turn.stage = "running" /\ turn' = [turn EXCEPT !.tool = TRUE]
      /\ rows' = MarkToolStarted(rows, r) /\ acted' = acted \cup turn.text
      /\ UNCHANGED <<obliged, phase, owner, recovered, watched, replaying, visited,
                     inbox, queue, replied, asked, excused, told, astray, kills, spent>>
  BY DEF StartTool
<1>2. /\ rows \in Table /\ owner \in Nat /\ Form(rows, obliged, owner) /\ Budget(rows, kills)
      /\ turn \in Turn /\ TurnHeld(rows, owner, kills, turn)
      /\ TasksHeld(rows, obliged, owner, inbox, queue, turn)
  BY HeldFacts DEF HeldInv
<1>3. /\ r \in Row /\ rows[r].status = "processing" /\ rows[r].owner = owner
      /\ rows[r].into = None /\ kills[r] < rows[r].attempts /\ Owes(rows, r)
  BY <1>1, <1>2 DEF TurnHeld, Owes
<1>4. Rewrites(rows, rows', r, "processing", rows[r].attempts, rows[r].owner, TRUE)
  BY <1>1, <1>2, <1>3, MarkToolStartedFields
<1>5. Form(rows', obliged, owner) /\ Budget(rows', kills)
  <2>1. kills[r] <= rows[r].attempts /\ rows[r].attempts <= MaxAttempts
    BY <1>2, <1>3 DEF Budget
  <2>2. rows[r].owner <= owner
    BY <1>2, <1>3
  <2> QED
    <3>1. Rewrites(rows, rows', r, "processing", rows[r].attempts, rows[r].owner, rows'[r].tool)
      BY <1>4 DEF Rewrites
    <3> QED
      BY <1>2, <1>3, <2>1, <2>2, <3>1, RewritesKeeps
<1>6. Aside(rows, rows', {r})
  BY <1>4 DEF Aside, Rewrites
<1>7. /\ turn' \in Turn /\ turn'.row = r /\ turn'.stage = "running" /\ turn'.unread = turn.unread
      /\ turn'.tool = TRUE /\ turn'.answered = turn.answered /\ turn'.send = turn.send
  BY <1>1, <1>2 DEF Turn
<1>8. TasksHeld(rows', obliged, owner, inbox, queue, turn)
  <2>1. ASSUME NEW s, HeldRow(rows, obliged, owner, s)
        PROVE  HeldRow(rows', obliged, owner, s) /\ rows'[s].into = rows[s].into
    BY <1>3, <1>4, <2>1 DEF HeldRow, Rewrites
  <2> QED
    BY <1>2, <2>1 DEF TasksHeld
<1>9. TasksHeld(rows', obliged, owner, inbox, queue, turn')
  BY <1>7, <1>8 DEF TasksHeld
<1>10. TurnHeld(rows', owner, kills, turn')
  BY <1>1, <1>2, <1>3, <1>4, <1>7, ZenonT(60) DEF TurnHeld, Rewrites
<1>11. TypeOK'
  <2>1. rows' \in Table
    BY <1>5 DEF Form, Shape
  <2>2. acted' \subseteq Message /\ phase # "down"
    BY <1>1, <1>2 DEF HeldInv, TypeOK, Turn, Idle
  <2> QED
    BY <1>1, <1>7, <2>1, <2>2 DEF HeldInv, TypeOK, Table
<1> QED
  BY <1>1, <1>5, <1>7, <1>9, <1>10, <1>11 DEF HeldInv, SpoolOK, Apart

\* Draining the sink changes no row.
LEMMA ReadSteersHeld ==
    ASSUME HeldInv, ReadSteers
    PROVE  HeldInv'
<1>1. /\ turn.stage = "running"
      /\ turn' = [turn EXCEPT !.text = turn.text \cup TextOf(turn.unread), !.unread = <<>>]
      /\ acted' = acted \cup (IF turn.tool THEN TextOf(turn.unread) ELSE {})
      /\ UNCHANGED <<rows, obliged, phase, owner, recovered, watched, replaying, visited,
                     inbox, queue, replied, asked, excused, told, astray, kills, spent>>
  BY HeldFacts DEF ReadSteers, Turn
<1>2. turn \in Turn /\ TextOf(turn.unread) \subseteq Message
  BY HeldFacts, TextOfType
<1>3. /\ turn' \in Turn /\ turn'.row = turn.row /\ turn'.stage = turn.stage /\ turn'.unread = <<>>
      /\ turn'.tool = turn.tool /\ turn'.answered = turn.answered /\ turn'.send = turn.send
  <2>1. <<>> \in Seq(Task) /\ turn.text \cup TextOf(turn.unread) \subseteq Message
    BY <1>2 DEF Turn
  <2>2. turn' \in Turn
    BY <1>1, <1>2, <2>1 DEF Turn
  <2> QED
    BY <1>1, <1>2, <2>2 DEF Turn
<1>4. TasksHeld(rows, obliged, owner, inbox, queue, turn') /\ Apart(inbox, queue, turn'.unread)
      /\ TurnHeld(rows, owner, kills, turn')
  BY <1>1, <1>3 DEF HeldInv, TasksHeld, Apart, TurnHeld
<1>5. TypeOK'
  <2>1. acted' \subseteq Message /\ phase # "down"
    BY <1>1, <1>2 DEF HeldInv, TypeOK, Turn, Idle
  <2> QED
    BY <1>1, <1>3, <2>1 DEF HeldInv, TypeOK
<1> QED
  BY <1>1, <1>4, <1>5 DEF HeldInv

\* The sink's rows are on no other way to a turn.
LEMMA UnreadApart ==
    ASSUME HeldInv, NEW i \in 1..Len(turn.unread)
    PROVE  LET r == turn.unread[i].row
           IN /\ turn.stage # "idle" /\ r # turn.row /\ turn.row # None
              /\ HeldRow(rows, obliged, owner, r) /\ rows[r].into = turn.row
              /\ \A c \in inbox : c.row # r
              /\ \A j \in 1..Len(queue) : queue[j].row # r
<1>1. TasksHeld(rows, obliged, owner, inbox, queue, turn) /\ TurnHeld(rows, owner, kills, turn)
  BY DEF HeldInv
<1>2. turn.stage # "idle"
  BY <1>1 DEF TurnHeld, Idle
<1>3. /\ HeldRow(rows, obliged, owner, turn.unread[i].row)
      /\ rows[turn.unread[i].row].into = turn.row /\ turn.row \in Row
      /\ rows[turn.row].status = "processing"
  BY <1>1, <1>2 DEF TasksHeld, TurnHeld
<1>4. turn.row # None
  BY <1>3, RowNumbers
<1>5. /\ \A c \in inbox : c.row # turn.unread[i].row
      /\ \A j \in 1..Len(queue) : queue[j].row # turn.unread[i].row
  BY <1>1, <1>3, <1>4 DEF TasksHeld
<1> QED
  BY <1>2, <1>3, <1>4, <1>5 DEF HeldRow

\* Unread steers let go of.
LEMMA UnlinkedHeld ==
    ASSUME HeldInv, NEW ns, ns = UnlinkAll(rows, turn.unread)
    PROVE  /\ Form(ns, obliged, owner) /\ Budget(ns, kills)
           /\ Aside(rows, ns, RowsOf(turn.unread))
           /\ turn.stage # "idle" => ns[turn.row] = rows[turn.row]
           /\ \A r \in RowsOf(turn.unread) : HeldRow(ns, obliged, owner, r) /\ ns[r].into = None
           /\ turn.stage # "idle" => Clear(inbox, queue, Idle, RowsOf(turn.unread) \cup {turn.row})
<1> DEFINE S == {c \in Row : c \in RowsOf(turn.unread) /\ rows[c].status = "received"}
<1>1. Relinks(rows, ns, S, None) /\ rows \in Table /\ turn.unread \in Seq(Task)
  BY HeldFacts, UnlinkAllFields
<1>2. Form(ns, obliged, owner) /\ Budget(ns, kills)
  <2>1. SpoolOK(rows, obliged, owner, kills)
    BY DEF HeldInv
  <2> HIDE DEF S
  <2> QED
    BY <1>1, <2>1, RelinksKeeps DEF SpoolOK
<1>3. ASSUME NEW r \in RowsOf(turn.unread)
      PROVE  /\ r \in S /\ HeldRow(rows, obliged, owner, r) /\ r # None
             /\ turn.stage # "idle" /\ r # turn.row /\ turn.row # None
             /\ \A c \in inbox : c.row # r
             /\ \A j \in 1..Len(queue) : queue[j].row # r
  <2>1. PICK i \in 1..Len(turn.unread) : r = turn.unread[i].row
    BY <1>1 DEF RowsOf
  <2> QED
    BY <2>1, UnreadApart, RowNumbers DEF HeldRow
<1>4. Aside(rows, ns, RowsOf(turn.unread))
  BY <1>1 DEF Aside, Relinks
<1>5. turn.stage # "idle" => ns[turn.row] = rows[turn.row]
  BY <1>1 DEF Relinks, HeldInv, TurnHeld
<1>6. \A r \in RowsOf(turn.unread) : HeldRow(ns, obliged, owner, r) /\ ns[r].into = None
  BY <1>1, <1>3 DEF HeldRow, Relinks
<1>7. turn.stage # "idle" => Clear(inbox, queue, Idle, RowsOf(turn.unread) \cup {turn.row})
  <2>1. turn.stage # "idle"
        => /\ turn.row # None /\ \A c \in inbox : c.row # turn.row
           /\ \A j \in 1..Len(queue) : queue[j].row # turn.row
    BY RowNumbers DEF HeldInv, TurnHeld, TasksHeld, HeldRow
  <2>2. Idle.stage = "idle" /\ Idle.unread = <<>>
    BY DEF Idle
  <2> QED
    BY <1>3, <2>1, <2>2 DEF Clear
<1> QED
  BY <1>2, <1>4, <1>5, <1>6, <1>7

\* Unread steers join the queue with rows that are theirs alone again.
LEMMA TerminalHeld ==
    ASSUME HeldInv, Terminal
    PROVE  HeldInv'
<1> DEFINE requeued == ~turn.aborted /\ ~Closing
<1>1. /\ turn.stage = "running"
      /\ rows' = IF requeued THEN UnlinkAll(rows, turn.unread) ELSE rows
      /\ queue' = IF requeued THEN queue \o turn.unread ELSE queue
      /\ turn' = [turn EXCEPT !.stage = "tail",
                              !.unread = IF requeued THEN <<>> ELSE turn.unread,
                              !.send = IF turn.aborted THEN "settled" ELSE "due"]
      /\ astray' = astray \cup (IF turn.aborted THEN {} ELSE TextOf(turn'.unread))
      /\ UNCHANGED <<obliged, phase, owner, recovered, watched, replaying, visited,
                     inbox, replied, asked, excused, acted, told, kills, spent>>
  BY HeldFacts DEF Terminal, Turn
<1>2. /\ turn \in Turn /\ turn.unread \in Seq(Task) /\ queue \in Seq(Task)
      /\ TasksHeld(rows, obliged, owner, inbox, queue, turn) /\ TurnHeld(rows, owner, kills, turn)
      /\ Apart(inbox, queue, turn.unread) /\ Form(rows, obliged, owner) /\ Budget(rows, kills)
  BY HeldFacts DEF HeldInv
<1> DEFINE un == IF requeued THEN <<>> ELSE turn.unread
           se == IF turn.aborted THEN "settled" ELSE "due"
<1>3. un \in Seq(Task) /\ se \in {"settled", "due"}
  BY <1>2
<1>4. turn' = [turn EXCEPT !.stage = "tail", !.unread = un, !.send = se]
  BY <1>1
<1>5. /\ turn' \in Turn /\ turn'.row = turn.row /\ turn'.stage = "tail" /\ turn'.unread = un
      /\ turn'.tool = turn.tool /\ turn'.answered = turn.answered /\ turn'.send = se
  <2> HIDE DEF un, se
  <2>1. turn' \in Turn
    BY <1>2, <1>3, <1>4 DEF Turn
  <2> QED
    BY <1>2, <1>4, <2>1 DEF Turn
<1>6. astray' \subseteq Message
  <2>1. TextOf(turn'.unread) \subseteq Message
    BY <1>3, <1>5, TextOfType
  <2> QED
    BY <1>1, <2>1 DEF HeldInv, TypeOK
<1>7. ~turn.answered
  BY <1>1, <1>2 DEF TurnHeld
<1>8. CASE ~requeued
  <2>1. rows' = rows /\ queue' = queue /\ un = turn.unread
    BY <1>1, <1>8
  <2> HIDE DEF un, se, requeued
  <2>2. TasksHeld(rows, obliged, owner, inbox, queue, turn')
    BY <1>2, <1>5, <2>1 DEF TasksHeld
  <2>3. TurnHeld(rows, owner, kills, turn')
    BY <1>1, <1>2, <1>3, <1>5, <1>7 DEF TurnHeld
  <2>4. TypeOK'
    <3>1. phase # "down"
      BY <1>1, IdleType DEF HeldInv, TypeOK, Idle
    <3> QED
      BY <1>1, <1>5, <1>6, <2>1, <3>1, ZenonT(60) DEF HeldInv, TypeOK
  <2> QED
    BY <1>1, <1>5, <2>1, <2>2, <2>3, <2>4 DEF HeldInv
<1>9. CASE requeued
  <2>1. rows' = UnlinkAll(rows, turn.unread) /\ queue' = queue \o turn.unread /\ un = <<>>
    BY <1>1, <1>9
  <2> HIDE DEF un, se, requeued
  <2>2. /\ Form(rows', obliged, owner) /\ Budget(rows', kills)
        /\ Aside(rows, rows', RowsOf(turn.unread))
        /\ rows'[turn.row] = rows[turn.row]
        /\ \A r \in RowsOf(turn.unread) : HeldRow(rows', obliged, owner, r) /\ rows'[r].into = None
    BY <1>1, <2>1, UnlinkedHeld
  <2>3. Clear(inbox, queue, Idle, RowsOf(turn.unread))
    BY <1>1, UnlinkedHeld DEF Clear
  <2>4. TasksHeld(rows', obliged, owner, inbox, queue, Idle)
    <3>1. TasksHeld(rows, obliged, owner, inbox, queue, Idle) /\ TurnHeld(rows, owner, kills, Idle)
      BY <1>2, IdleType DEF TasksHeld, TurnHeld, Idle
    <3> QED
      BY <2>2, <2>3, <3>1, Undisturbed
  <2>5. /\ queue' \in Seq(Task) /\ Len(queue') = Len(queue) + Len(turn.unread)
        /\ \A i \in 1..Len(queue') :
             \/ i \in 1..Len(queue) /\ queue'[i] = queue[i]
             \/ i - Len(queue) \in 1..Len(turn.unread) /\ queue'[i] = turn.unread[i - Len(queue)]
    BY <1>2, <2>1
  <2>6. \A i \in 1..Len(turn.unread) : turn.unread[i].row \in RowsOf(turn.unread)
    BY <1>2 DEF RowsOf
  <2>7. TasksHeld(rows', obliged, owner, inbox, queue', turn')
    BY <1>5, <2>1, <2>2, <2>4, <2>5, <2>6 DEF TasksHeld
  <2>8. Apart(inbox, queue', turn'.unread)
    <3>1. \A i, j \in 1..Len(queue') : queue'[i].row = queue'[j].row => i = j
      <4> SUFFICES ASSUME NEW i \in 1..Len(queue'), NEW j \in 1..Len(queue'),
                          queue'[i].row = queue'[j].row
                   PROVE  i = j
        OBVIOUS
      <4>1. i \in Nat /\ j \in Nat /\ Len(queue) \in Nat
        BY <1>2, <2>5
      <4>2. CASE i \in 1..Len(queue) /\ queue'[i] = queue[i] /\ j \in 1..Len(queue) /\ queue'[j] = queue[j]
        BY <1>2, <4>2 DEF Apart
      <4>3. CASE /\ i \in 1..Len(queue) /\ queue'[i] = queue[i]
                 /\ j - Len(queue) \in 1..Len(turn.unread) /\ queue'[j] = turn.unread[j - Len(queue)]
        BY <2>3, <2>6, <4>3 DEF Clear
      <4>4. CASE /\ j \in 1..Len(queue) /\ queue'[j] = queue[j]
                 /\ i - Len(queue) \in 1..Len(turn.unread) /\ queue'[i] = turn.unread[i - Len(queue)]
        BY <2>3, <2>6, <4>4 DEF Clear
      <4>5. CASE /\ i - Len(queue) \in 1..Len(turn.unread) /\ queue'[i] = turn.unread[i - Len(queue)]
                 /\ j - Len(queue) \in 1..Len(turn.unread) /\ queue'[j] = turn.unread[j - Len(queue)]
        <5>1. i - Len(queue) = j - Len(queue)
          BY <1>2, <4>5 DEF Apart
        <5> QED
          BY <4>1, <5>1
      <4> QED
        BY <2>5, <4>2, <4>3, <4>4, <4>5
    <3>2. \A c \in inbox, i \in 1..Len(queue') : c.row # queue'[i].row
      <4> SUFFICES ASSUME NEW c \in inbox, NEW i \in 1..Len(queue')
                   PROVE  c.row # queue'[i].row
        OBVIOUS
      <4>1. CASE i \in 1..Len(queue) /\ queue'[i] = queue[i]
        BY <1>2, <4>1 DEF Apart
      <4>2. CASE i - Len(queue) \in 1..Len(turn.unread) /\ queue'[i] = turn.unread[i - Len(queue)]
        BY <2>3, <2>6, <4>2 DEF Clear
      <4> QED
        BY <2>5, <4>1, <4>2
    <3> QED
      BY <1>2, <1>5, <2>1, <3>1, <3>2 DEF Apart
  <2>9. TurnHeld(rows', owner, kills, turn')
    BY <1>1, <1>2, <1>3, <1>5, <1>7, <2>2 DEF TurnHeld
  <2>10. TypeOK'
    <3>1. rows' \in Table
      BY <2>2 DEF Form, Shape
    <3>2. phase # "down"
      BY <1>1, IdleType DEF HeldInv, TypeOK, Idle
    <3> QED
      BY <1>1, <1>5, <1>6, <2>5, <3>1, <3>2 DEF HeldInv, TypeOK, Table
  <2> QED
    BY <1>1, <2>2, <2>7, <2>8, <2>9, <2>10 DEF HeldInv, SpoolOK
<1> QED
  BY <1>8, <1>9

\* The row of a recorded reply is the running turn's, which no task holds.
LEMMA RecordReplyHeld ==
    ASSUME HeldInv, RecordReply
    PROVE  HeldInv'
<1>1. /\ turn.send = "due" /\ turn' = [turn EXCEPT !.send = "recorded"]
      /\ obliged' = obliged \cup {turn.row} /\ replied' = replied \cup turn.text
      /\ UNCHANGED <<rows, phase, owner, recovered, watched, replaying, visited,
                     inbox, queue, asked, excused, acted, told, astray, kills, spent>>
  BY DEF RecordReply
<1>2. /\ turn \in Turn /\ turn.stage # "idle" /\ ~turn.answered /\ turn.stage # "running"
      /\ TasksHeld(rows, obliged, owner, inbox, queue, turn) /\ TurnHeld(rows, owner, kills, turn)
      /\ SpoolOK(rows, obliged, owner, kills)
  BY <1>1, HeldFacts, IdleType DEF HeldInv, TurnHeld
<1>3. turn.row \in Row /\ rows[turn.row].status = "processing"
  BY <1>2 DEF TurnHeld
<1>4. /\ turn' \in Turn /\ turn'.row = turn.row /\ turn'.stage = turn.stage /\ turn'.send = "recorded"
      /\ turn'.tool = turn.tool /\ turn'.answered = turn.answered /\ turn'.unread = turn.unread
  BY <1>1, <1>2 DEF Turn
<1>5. SpoolOK(rows, obliged', owner, kills)
  BY <1>1, <1>2, <1>3 DEF SpoolOK, Form, Obligations
<1>6. TasksHeld(rows, obliged', owner, inbox, queue, turn')
  <2>1. \A r : HeldRow(rows, obliged, owner, r) => HeldRow(rows, obliged', owner, r)
    BY <1>1, <1>3 DEF HeldRow
  <2> QED
    BY <1>2, <1>4, <2>1 DEF TasksHeld
<1>7. TurnHeld(rows, owner, kills, turn')
  BY <1>2, <1>4 DEF TurnHeld
<1>8. TypeOK'
  <2>1. phase # "down"
    BY <1>2, IdleType DEF HeldInv, TypeOK, Idle
  <2>2. obliged' \subseteq Row /\ replied' \subseteq Message
    BY <1>1, <1>2, <1>3 DEF HeldInv, TypeOK, Turn
  <2> QED
    BY <1>1, <1>4, <2>1, <2>2 DEF HeldInv, TypeOK
<1> QED
  BY <1>1, <1>4, <1>5, <1>6, <1>7, <1>8 DEF HeldInv

\* Sending changes the turn only.
LEMMA SendReplyHeld ==
    ASSUME HeldInv, SendReply
    PROVE  HeldInv'
<1>1. PICK ok \in BOOLEAN : turn' = [turn EXCEPT !.send = "settled", !.answered = ok]
  BY DEF SendReply
<1>2. /\ turn.send = "recorded"
      /\ UNCHANGED <<rows, obliged, phase, owner, recovered, watched, replaying, visited,
                     inbox, queue, replied, asked, excused, acted, told, astray, kills, spent>>
  BY DEF SendReply, history
<1>3. /\ turn \in Turn /\ turn.stage # "idle" /\ turn.stage # "running"
      /\ TasksHeld(rows, obliged, owner, inbox, queue, turn) /\ TurnHeld(rows, owner, kills, turn)
  BY <1>2, HeldFacts, IdleType DEF HeldInv, TurnHeld
<1>4. /\ turn' \in Turn /\ turn'.row = turn.row /\ turn'.stage = turn.stage /\ turn'.send = "settled"
      /\ turn'.tool = turn.tool /\ turn'.unread = turn.unread
  BY <1>1, <1>3 DEF Turn
<1>5. TasksHeld(rows, obliged, owner, inbox, queue, turn')
  BY <1>3, <1>4 DEF TasksHeld
<1>6. TurnHeld(rows, owner, kills, turn')
  BY <1>3, <1>4 DEF TurnHeld
<1>7. TypeOK'
  <2>1. phase # "down"
    BY <1>3, IdleType DEF HeldInv, TypeOK, Idle
  <2> QED
    BY <1>2, <1>4, <2>1 DEF HeldInv, TypeOK
<1> QED
  BY <1>2, <1>4, <1>5, <1>6, <1>7 DEF HeldInv

\* The rows in use can be counted.
LEMMA UsedCount ==
    ASSUME NEW rs, Shape(rs)
    PROVE  Cardinality(Used(rs)) \in Row \cup {None}
<1>1. PICK n \in 0..MaxRows : Used(rs) = 1..n
  BY DEF Shape
<1>2. n \in Nat /\ n >= 1 - 1
  BY <1>1, SpoolAssumption
<1>3. Cardinality(1..n) = n
  BY <1>2, FS_Interval
<1> QED
  BY <1>1, <1>2, <1>3 DEF Row, None

\* The times of the notices have their type.
LEMMA NoticeType ==
    ASSUME HeldInv, NEW rs, Notice(rs)
    PROVE  told' \in [Row -> Row \cup {None}]
<1>1. Cardinality(Used(rows)) \in Row \cup {None}
  BY UsedCount DEF HeldInv, SpoolOK, Form
<1>2. told \in [Row -> Row \cup {None}]
  BY DEF HeldInv, TypeOK
<1> QED
  BY <1>1, <1>2 DEF Notice

\* However a turn ends, its row is settled, or owed to the next attempt.
LEMMA SettledKeeps ==
    ASSUME HeldInv, turn.stage # "idle", NEW rs, Form(rs, obliged, owner), Budget(rs, kills),
           rs[turn.row] = rows[turn.row], NEW threw \in BOOLEAN
    PROVE  LET ns == Settled(rs, threw)
           IN Form(ns, obliged, owner) /\ Budget(ns, kills) /\ Aside(rs, ns, {turn.row})
<1> DEFINE r == turn.row
           ns == Settled(rs, threw)
<1>1. /\ r \in Row /\ rs[r].status = "processing" /\ rs[r].into = None /\ Owes(rs, r)
      /\ kills[r] < rs[r].attempts /\ rs \in Table /\ owner \in Nat /\ kills[r] \in Nat
  BY HeldFacts DEF HeldInv, TurnHeld, Owes, Form, Shape, TypeOK
<1>2. CASE ns = ReleaseOnShutdown(rs, r)
  <2>1. rs[r].attempts \in Nat /\ rs[r].attempts > 0 /\ kills[r] <= rs[r].attempts - 1
        /\ rs[r].attempts - 1 <= MaxAttempts
    BY <1>1, RowFields, TurnsAssumption DEF Budget
  <2>2. Rewrites(rs, ns, r, "received", rs[r].attempts - 1, None, rs[r].tool)
    BY <1>1, <1>2, <2>1, ReleaseFields
  <2>3. None <= owner
    BY <1>1 DEF None
  <2> HIDE DEF ns
  <2>4. Form(ns, obliged, owner) /\ Budget(ns, kills)
    BY <1>1, <2>1, <2>2, <2>3, RewritesKeeps
  <2>5. Aside(rs, ns, {r})
    BY <2>2 DEF Aside, Rewrites
  <2> QED
    BY <2>4, <2>5 DEF ns
<1>3. CASE ns = MarkInterrupted(rs, r)
  BY <1>1, <1>3, MarkInterruptedKeeps
<1>4. CASE ns = MarkFailed(rs, r, MaxAttempts)
  BY <1>1, <1>4, MarkFailedKeeps
<1>5. CASE ns = MarkDone(rs, r)
  BY <1>1, <1>5, MarkDoneKeeps
<1> QED
  BY <1>2, <1>3, <1>4, <1>5 DEF Settled

\* The turn is over: the rest of the process's messages are untouched.
LEMMA EndTurnHeld ==
    ASSUME HeldInv, turn.stage # "idle", NEW rs, NEW threw \in BOOLEAN,
           \/ rs = rows
           \/ rs = UnlinkAll(rows, turn.unread),
           EndTurn(Settled(rs, threw)),
           UNCHANGED <<obliged, phase, owner, recovered, replaying, visited, inbox,
                       queue, replied, asked, excused, acted, astray, kills>>,
           spent' \in [Counters -> Nat]
    PROVE  HeldInv'
<1>1. /\ rows' = Settled(rs, threw) /\ turn' = Idle /\ watched' \in BOOLEAN
      /\ Notice(Settled(rs, threw))
  <2>1. watched \in BOOLEAN
    BY DEF HeldInv, TypeOK
  <2> QED
    BY <2>1 DEF EndTurn
<1> DEFINE R == RowsOf(turn.unread)
<1>2. /\ Form(rs, obliged, owner) /\ Budget(rs, kills) /\ rs[turn.row] = rows[turn.row]
      /\ Aside(rows, rs, R)
  <2>1. CASE rs = rows
    BY <2>1, HeldFacts DEF Aside
  <2>2. CASE rs = UnlinkAll(rows, turn.unread)
    BY <2>2, UnlinkedHeld
  <2> QED
    BY <2>1, <2>2
<1>3. Form(rows', obliged, owner) /\ Budget(rows', kills) /\ Aside(rs, rows', {turn.row})
  BY <1>1, <1>2, SettledKeeps
<1>4. Aside(rows, rows', R \cup {turn.row})
  BY <1>2, <1>3, AsideTrans
<1>5. Clear(inbox, queue, Idle, R \cup {turn.row})
  BY UnlinkedHeld
<1>6. TasksHeld(rows, obliged, owner, inbox, queue, Idle) /\ TurnHeld(rows, owner, kills, Idle)
  BY IdleType DEF HeldInv, TasksHeld, TurnHeld, Idle
<1>7. TasksHeld(rows', obliged, owner, inbox, queue, Idle) /\ TurnHeld(rows', owner, kills, Idle)
  BY <1>4, <1>5, <1>6, Undisturbed
<1>8. Apart(inbox, queue, Idle.unread)
  BY IdleType DEF HeldInv, Apart
<1>9. TypeOK'
  <2>1. rows' \in Table
    BY <1>3 DEF Form, Shape
  <2>2. told' \in [Row -> Row \cup {None}]
    BY <1>1, NoticeType
  <2> QED
    BY <1>1, <2>1, <2>2, IdleType DEF HeldInv, TypeOK, Table
<1> QED
  BY <1>1, <1>3, <1>7, <1>8, <1>9 DEF HeldInv, SpoolOK

\* A finished turn settles its own row.
LEMMA FinishTurnHeld ==
    ASSUME HeldInv, FinishTurn
    PROVE  HeldInv'
<1> DEFINE rs == IF Closing /\ turn.answered THEN UnlinkAll(rows, turn.unread) ELSE rows
<1>1. /\ turn.stage = "tail" /\ EndTurn(Settled(rs, FALSE))
      /\ UNCHANGED <<obliged, phase, owner, recovered, replaying, visited, inbox,
                     queue, replied, asked, excused, acted, astray, kills, spent>>
  BY DEF FinishTurn
<1>2. rs = rows \/ rs = UnlinkAll(rows, turn.unread)
  OBVIOUS
<1> HIDE DEF rs
<1>3. spent' \in [Counters -> Nat]
  BY <1>1 DEF HeldInv, TypeOK
<1> QED
  BY <1>1, <1>2, <1>3, EndTurnHeld

\* Spending keeps the counters' type.
LEMMA SpentType ==
    ASSUME HeldInv, NEW kind \in Counters, NEW max, Spend(kind, max)
    PROVE  spent' \in [Counters -> Nat]
BY DEF Spend, HeldInv, TypeOK

\* A turn that throws settles its own row, or leaves it held for the next boot.
LEMMA ThrowTurnHeld ==
    ASSUME HeldInv, ThrowTurn
    PROVE  HeldInv'
<1>1. /\ turn.stage # "idle" /\ EndTurn(Settled(rows, TRUE))
      /\ UNCHANGED <<obliged, phase, owner, recovered, replaying, visited, inbox,
                     queue, replied, asked, excused, acted, astray, kills>>
  BY IdleType DEF ThrowTurn, HeldInv, TurnHeld
<1>2. spent' \in [Counters -> Nat]
  BY SpentType DEF ThrowTurn, Counters
<1> QED
  BY <1>1, <1>2, EndTurnHeld

\* Beginning to shut down changes the phase only.
LEMMA BeginShutdownHeld ==
    ASSUME HeldInv, BeginShutdown
    PROVE  HeldInv'
<1>1. spent' \in [Counters -> Nat]
  BY SpentType DEF BeginShutdown, Counters
<1> QED
  BY <1>1 DEF BeginShutdown, HeldInv, TypeOK

\* Aborting the lanes drops the queue and leaves its rows owed.
LEMMA AbortLanesHeld ==
    ASSUME HeldInv, AbortLanes
    PROVE  HeldInv'
<1>1. /\ phase = "closing" /\ phase' = "aborted" /\ queue' = <<>>
      /\ turn' = IF turn.stage = "idle" THEN turn ELSE [turn EXCEPT !.aborted = TRUE]
      /\ UNCHANGED <<rows, obliged, owner, recovered, watched, replaying, visited, inbox,
                     replied, asked, excused, acted, told, astray, kills, spent>>
  BY DEF AbortLanes, history
<1>2. TasksHeld(rows, obliged, owner, inbox, <<>>, turn) /\ TurnHeld(rows, owner, kills, turn)
  BY DEF HeldInv, TasksHeld
<1>3. /\ TasksHeld(rows, obliged, owner, inbox, <<>>, turn') /\ TurnHeld(rows, owner, kills, turn')
      /\ turn' \in Turn /\ turn'.unread = turn.unread
  BY <1>1, <1>2, AbortedHeld
<1>4. Apart(inbox, <<>>, turn'.unread)
  BY <1>3 DEF HeldInv, Apart
<1>5. TypeOK'
  BY <1>1, <1>3 DEF HeldInv, TypeOK
<1> QED
  BY <1>1, <1>3, <1>4, <1>5 DEF HeldInv

\* What is left of a process that is gone.
LEMMA GoneType ==
    ASSUME HeldInv, rows' \in Table,
           /\ phase' = "down" /\ recovered' = FALSE /\ watched' = FALSE /\ replaying' = FALSE
           /\ visited' = {} /\ inbox' = {} /\ queue' = <<>> /\ turn' = Idle,
           UNCHANGED <<obliged, owner, replied, asked, excused, acted, told, astray>>,
           kills' \in [Row -> Nat], spent' \in [Counters -> Nat]
    PROVE  TypeOK'
<1>1. /\ phase' \in {"down", "up", "closing", "aborted"}
      /\ {recovered', watched', replaying'} \subseteq BOOLEAN
      /\ visited' \subseteq Row /\ inbox' \subseteq Call /\ queue' \in Seq(Task) /\ turn' \in Turn
  <2>1. <<>> \in Seq(Task) /\ Idle \in Turn
    BY IdleType
  <2> QED
    BY <2>1
<1>2. /\ obliged' \subseteq Row /\ owner' \in Nat
      /\ {replied', asked', excused', acted', astray'} \subseteq SUBSET Message
      /\ told' \in [Row -> Row \cup {None}]
  BY DEF HeldInv, TypeOK
<1> QED
  BY <1>1, <1>2 DEF TypeOK, Table

\* A process that is gone holds nothing.
LEMMA NothingHeld ==
    ASSUME NEW rs, NEW ob, NEW o, NEW k
    PROVE  /\ TasksHeld(rs, ob, o, {}, <<>>, Idle) /\ TurnHeld(rs, o, k, Idle)
           /\ Apart({}, <<>>, Idle.unread)
BY IdleType DEF TasksHeld, TurnHeld, Apart, Idle

\* A process that exits leaves its rows to the next boot.
LEMMA ExitHeld ==
    ASSUME HeldInv, Exit
    PROVE  HeldInv'
<1>1. TypeOK'
  <2>1. rows' \in Table /\ kills' \in [Row -> Nat] /\ spent' \in [Counters -> Nat]
    BY DEF Exit, Gone, HeldInv, TypeOK, Table
  <2> QED
    BY <2>1, GoneType DEF Exit, Gone
<1> QED
  BY <1>1, NothingHeld DEF Exit, Gone, HeldInv

\* A kill is charged to the running turn's row.
LEMMA KillKeeps ==
    ASSUME HeldInv, NEW j,
           j = IF turn.stage = "idle" THEN kills ELSE [kills EXCEPT ![turn.row] = @ + 1]
    PROVE  j \in [Row -> Nat] /\ Budget(rows, j)
<1>1. kills \in [Row -> Nat] /\ Budget(rows, kills) /\ rows \in Table /\ MaxAttempts \in Nat
  BY HeldFacts, TurnsAssumption DEF HeldInv, TypeOK
<1>2. CASE turn.stage = "idle"
  BY <1>1, <1>2
<1>3. CASE turn.stage # "idle"
  <2>1. /\ turn.row \in Row /\ kills[turn.row] < rows[turn.row].attempts
        /\ rows[turn.row].status = "processing"
    BY <1>3 DEF HeldInv, TurnHeld
  <2>2. /\ j \in [Row -> Nat] /\ j[turn.row] = kills[turn.row] + 1
        /\ \A c \in Row : c # turn.row => j[c] = kills[c]
    BY <1>1, <1>3, <2>1
  <2>3. rows[turn.row].attempts \in Nat /\ rows[turn.row].attempts <= MaxAttempts
    BY <1>1, <2>1, RowFields DEF Budget, Owes
  <2> SUFFICES ASSUME NEW c \in Row
               PROVE  /\ j[c] <= MaxAttempts
                      /\ Owes(rows, c) => j[c] <= rows[c].attempts /\ rows[c].attempts <= MaxAttempts
                      /\ rows[c].status = "absent" => j[c] = 0
    BY <2>2 DEF Budget
  <2>4. CASE c = turn.row
    BY <1>1, <2>1, <2>2, <2>3, <2>4
  <2>5. CASE c # turn.row
    BY <1>1, <2>2, <2>5 DEF Budget
  <2> QED
    BY <2>4, <2>5
<1> QED
  BY <1>2, <1>3

\* A crash is charged to the running turn's row, whose attempts cover it.
LEMMA CrashHeld ==
    ASSUME HeldInv, Crash
    PROVE  HeldInv'
<1>1. spent' \in [Counters -> Nat]
  BY SpentType DEF Crash, Counters
<1>2. kills' \in [Row -> Nat] /\ Budget(rows, kills')
  BY KillKeeps DEF Crash
<1>3. TypeOK'
  <2>1. rows' \in Table
    BY HeldFacts DEF Crash, Gone
  <2> QED
    BY <1>1, <1>2, <2>1, GoneType DEF Crash, Gone
<1> QED
  BY <1>2, <1>3, NothingHeld DEF Crash, Gone, HeldInv, SpoolOK

\* A crash inside acceptInbound leaves one more row, which no kill is charged to.
LEMMA CrashInAcceptHeld ==
    ASSUME HeldInv, NEW m \in Message, CrashInAccept(m)
    PROVE  HeldInv'
<1>1. spent' \in [Counters -> Nat]
  BY SpentType DEF CrashInAccept, Counters
<1>2. kills' \in [Row -> Nat] /\ Budget(rows, kills')
  BY KillKeeps DEF CrashInAccept
<1>3. /\ NextRow(rows) \in Row /\ rows' = Insert(rows, m, {m}, owner) /\ ~replaying
      /\ phase' = "down" /\ recovered' = FALSE /\ watched' = FALSE /\ visited' = {}
      /\ inbox' = {} /\ queue' = <<>> /\ turn' = Idle
      /\ UNCHANGED <<obliged, owner, replaying, replied, asked, excused, acted, told, astray>>
  BY DEF CrashInAccept
<1>4. Form(rows, obliged, owner) /\ Shape(rows) /\ owner \in Nat /\ owner \in 0..owner
  BY HeldFacts DEF Form
<1>5. Inserts(rows, rows', NextRow(rows), m, {m}, owner) /\ Used(rows) = 1..(NextRow(rows) - 1)
  BY <1>3, <1>4, InsertFields
<1>6. Form(rows', obliged, owner) /\ Budget(rows', kills')
  BY <1>2, <1>4, <1>5, InsertKeeps
<1>7. TypeOK'
  <2>1. rows' \in Table
    BY <1>6 DEF Form, Shape
  <2> QED
    BY <1>1, <1>2, <1>3, <2>1, GoneType DEF HeldInv, TypeOK
<1> QED
  BY <1>3, <1>6, <1>7, NothingHeld DEF HeldInv, SpoolOK

\* The new process has a new identity and holds no row yet.
LEMMA BootHeld ==
    ASSUME HeldInv, Boot
    PROVE  HeldInv'
<1>1. /\ phase = "down" /\ phase' = "up" /\ owner' = owner + 1 /\ owner \in Nat
      /\ UNCHANGED <<rows, obliged, recovered, watched, replaying, visited, inbox,
                     queue, turn, replied, asked, excused, acted, told, astray, kills, spent>>
  BY HeldFacts DEF Boot, history
<1>2. inbox' = {} /\ queue' = <<>> /\ turn' = Idle
  BY <1>1 DEF HeldInv, TypeOK
<1>3. owner' # None
  BY <1>1 DEF None
<1>4. Owned(rows', owner')
  <2>1. \A r \in Row : rows[r].owner \in Nat /\ rows[r].owner <= owner
    BY HeldFacts, RowFields DEF Form, Owned
  <2> QED
    BY <1>1, <2>1 DEF Owned
<1>5. SpoolOK(rows', obliged', owner', kills')
  BY <1>1, <1>4 DEF HeldInv, SpoolOK, Form
<1>6. TypeOK'
  BY <1>1 DEF HeldInv, TypeOK
<1> QED
  BY <1>2, <1>3, <1>5, <1>6, NothingHeld DEF HeldInv

\* Recovering orphans touches no row this process holds.
LEMMA BeginReplayHeld ==
    ASSUME HeldInv, BeginReplay
    PROVE  HeldInv'
<1>1. /\ phase = "up" /\ replaying' = TRUE /\ recovered' = TRUE /\ watched' \in BOOLEAN
      /\ UNCHANGED <<obliged, phase, owner, visited, inbox, queue, turn,
                     replied, asked, excused, acted, told, astray, kills, spent>>
      /\ rows' = rows \/ rows' = RecoverOrphans(rows, owner)
  <2>1. watched \in BOOLEAN
    BY DEF HeldInv, TypeOK
  <2> QED
    BY <2>1 DEF BeginReplay, history
<1>2. /\ TasksHeld(rows, obliged, owner, inbox, queue, turn) /\ TurnHeld(rows, owner, kills, turn)
      /\ SpoolOK(rows, obliged, owner, kills) /\ owner \in Nat
  BY HeldFacts DEF HeldInv
<1>3. \A r \in Row : rows[r].owner = owner => rows'[r] = rows[r]
  BY <1>1 DEF RecoverOrphans
<1>4. SpoolOK(rows', obliged, owner, kills)
  BY <1>1, <1>2, RecoverKeeps
<1>5. TasksHeld(rows', obliged, owner, inbox, queue, turn)
  BY <1>2, <1>3 DEF TasksHeld, HeldRow
<1>6. TurnHeld(rows', owner, kills, turn)
  BY <1>2, <1>3 DEF TurnHeld
<1>7. TypeOK'
  <2>1. rows' \in Table
    BY <1>4 DEF SpoolOK, Form, Shape
  <2> QED
    BY <1>1, <2>1 DEF HeldInv, TypeOK, Table
<1> QED
  BY <1>1, <1>4, <1>5, <1>6, <1>7 DEF HeldInv

\* Ending the replay changes no row.
LEMMA EndReplayHeld ==
    ASSUME HeldInv, EndReplay
    PROVE  HeldInv'
BY DEF EndReplay, history, HeldInv, TypeOK

\* A row the replay takes up belongs to no process, and carries its own steers.
LEMMA ReplayedRow ==
    ASSUME HeldInv, NEW r \in Row, NextToReplay(r)
    PROVE  /\ rows[r].status = "received" /\ rows[r].owner = None /\ rows[r].into = None
           /\ Owes(rows, r) /\ Clear(inbox, queue, turn, {r})
           /\ visited' \subseteq Row /\ phase # "down"
<1>1. rows[r].status = "received" /\ rows[r].owner = None /\ r \in Replayable(rows)
  BY DEF NextToReplay, Unvisited, Replayable
<1>2. rows[r].into = None
  BY <1>1 DEF Replayable, HeldInv, SpoolOK, Form, Tree, Owes
<1>3. Clear(inbox, queue, turn, {r})
  <2>1. /\ TasksHeld(rows, obliged, owner, inbox, queue, turn) /\ TurnHeld(rows, owner, kills, turn)
        /\ owner # None
    BY DEF HeldInv
  <2>2. \A s : HeldRow(rows, obliged, owner, s) => s # r
    BY <1>1, <2>1 DEF HeldRow
  <2>3. turn.stage # "idle" => turn.row # r
    BY <1>1, <2>1 DEF TurnHeld
  <2> QED
    BY <2>1, <2>2, <2>3, RowNumbers DEF Clear, TasksHeld
<1>4. visited' \subseteq Row /\ phase # "down"
  BY DEF NextToReplay, HeldInv, TypeOK
<1> QED
  BY <1>1, <1>2, <1>3, <1>4 DEF Owes

\* The row the replay claims is held by this process, all else as it was.
LEMMA ClaimedRow ==
    ASSUME HeldInv, NEW r \in Row, NextToReplay(r), NEW ns, ns = Claim(rows, r, owner)
    PROVE  /\ Form(ns, obliged, owner) /\ Budget(ns, kills) /\ Aside(rows, ns, {r})
           /\ ns[r].status = "received" /\ ns[r].owner = owner /\ ns[r].into = None
           /\ ns[r].attempts = rows[r].attempts /\ ns[r].tool = rows[r].tool
<1>1. /\ rows \in Table /\ owner \in Nat /\ Form(rows, obliged, owner) /\ Budget(rows, kills)
  BY HeldFacts
<1>2. /\ rows[r].status = "received" /\ rows[r].owner = None /\ rows[r].into = None
      /\ Owes(rows, r)
  BY ReplayedRow
<1>3. Rewrites(rows, ns, r, "received", rows[r].attempts, owner, rows[r].tool)
  BY <1>1, <1>2, ClaimFields
<1>4. Form(ns, obliged, owner) /\ Budget(ns, kills)
  <2>1. kills[r] <= rows[r].attempts /\ rows[r].attempts <= MaxAttempts /\ owner <= owner
    BY <1>1, <1>2 DEF Budget
  <2> QED
    BY <1>1, <1>2, <1>3, <2>1, RewritesKeeps
<1>5. Aside(rows, ns, {r})
  BY <1>3 DEF Aside, Rewrites
<1> QED
  BY <1>2, <1>3, <1>4, <1>5 DEF Rewrites

\* A row settled by the replay, before it reaches the lane.
LEMMA ReplaySettlesHeld ==
    ASSUME HeldInv, NEW r \in Row, NextToReplay(r), Form(rows', obliged, owner),
           Budget(rows', kills), Aside(rows, rows', {r}),
           UNCHANGED <<obliged, phase, owner, recovered, replaying, inbox, queue, turn,
                       replied, asked, excused, acted, astray, kills, spent>>,
           watched' \in BOOLEAN, told' \in [Row -> Row \cup {None}]
    PROVE  HeldInv'
<1>1. Clear(inbox, queue, turn, {r}) /\ visited' \subseteq Row /\ phase # "down"
  BY ReplayedRow
<1>2. TasksHeld(rows', obliged, owner, inbox, queue, turn) /\ TurnHeld(rows', owner, kills, turn)
  BY <1>1, Undisturbed DEF HeldInv
<1>3. rows' \in Table
  BY DEF Form, Shape
<1>4. TypeOK'
  BY <1>1, <1>3 DEF HeldInv, TypeOK, Table
<1> QED
  BY <1>2, <1>4 DEF HeldInv, SpoolOK

\* A stale row is dead-lettered.
LEMMA ReplayStaleHeld ==
    ASSUME HeldInv, NEW r \in Row, ReplayStale(r)
    PROVE  HeldInv'
<1>1. /\ NextToReplay(r) /\ rows' = MarkDead(rows, r)
      /\ UNCHANGED <<obliged, phase, owner, recovered, watched, replaying, inbox, queue, turn,
                     replied, asked, excused, acted, told, astray, kills, spent>>
  BY DEF ReplayStale, history
<1>2. Form(rows', obliged, owner) /\ Budget(rows', kills) /\ Aside(rows, rows', {r})
  BY <1>1, ReplayedRow, HeldFacts, MarkDeadKeeps
<1>3. watched' \in BOOLEAN /\ told' \in [Row -> Row \cup {None}]
  BY <1>1 DEF HeldInv, TypeOK
<1> QED
  BY <1>1, <1>2, <1>3, ReplaySettlesHeld

\* An answered row is closed.
LEMMA ReplayAnsweredHeld ==
    ASSUME HeldInv, NEW r \in Row, ReplayAnswered(r)
    PROVE  HeldInv'
<1> DEFINE ms == Claim(rows, r, owner)
<1>1. /\ NextToReplay(r) /\ rows' = MarkDone(ms, r)
      /\ UNCHANGED <<obliged, phase, owner, recovered, watched, replaying, inbox, queue, turn,
                     replied, asked, excused, acted, told, astray, kills, spent>>
  BY DEF ReplayAnswered, history
<1>2. /\ Form(ms, obliged, owner) /\ Budget(ms, kills) /\ Aside(rows, ms, {r})
      /\ Owes(ms, r) /\ owner \in Nat
  BY <1>1, ClaimedRow, HeldFacts DEF Owes
<1> HIDE DEF ms
<1>3. Form(rows', obliged, owner) /\ Budget(rows', kills) /\ Aside(ms, rows', {r})
  BY <1>1, <1>2, MarkDoneKeeps
<1>4. Aside(rows, rows', {r})
  <2>1. {r} \cup {r} = {r}
    OBVIOUS
  <2> QED
    BY <1>2, <1>3, <2>1, AsideTrans
<1>5. watched' \in BOOLEAN /\ told' \in [Row -> Row \cup {None}]
  BY <1>1 DEF HeldInv, TypeOK
<1> QED
  BY <1>1, <1>3, <1>4, <1>5, ReplaySettlesHeld

\* A tool-started row waits for the user.
LEMMA ReplayInterruptedHeld ==
    ASSUME HeldInv, NEW r \in Row, ReplayInterrupted(r)
    PROVE  HeldInv'
<1> DEFINE ms == Claim(rows, r, owner)
<1>1. /\ NextToReplay(r) /\ rows' = MarkInterrupted(ms, r)
      /\ watched' = TRUE /\ Notice(rows')
      /\ UNCHANGED <<obliged, phase, owner, recovered, replaying, inbox, queue, turn,
                     replied, asked, excused, acted, astray, kills, spent>>
  BY DEF ReplayInterrupted
<1>2. /\ Form(ms, obliged, owner) /\ Budget(ms, kills) /\ Aside(rows, ms, {r})
      /\ Owes(ms, r) /\ owner \in Nat /\ ms[r].into = None
  BY <1>1, ClaimedRow, HeldFacts DEF Owes
<1> HIDE DEF ms
<1>3. Form(rows', obliged, owner) /\ Budget(rows', kills) /\ Aside(ms, rows', {r})
  BY <1>1, <1>2, MarkInterruptedKeeps
<1>4. Aside(rows, rows', {r})
  <2>1. {r} \cup {r} = {r}
    OBVIOUS
  <2> QED
    BY <1>2, <1>3, <2>1, AsideTrans
<1>5. watched' \in BOOLEAN /\ told' \in [Row -> Row \cup {None}]
  BY <1>1, NoticeType
<1> QED
  BY <1>1, <1>3, <1>4, <1>5, ReplaySettlesHeld

\* A row without attempts left is dead-lettered, though its last attempt is counted
\* beyond the cap for a moment.
LEMMA ReplayExhaustedHeld ==
    ASSUME HeldInv, NEW r \in Row, ReplayExhausted(r)
    PROVE  HeldInv'
<1> DEFINE ms == Claim(rows, r, owner)
           ks == MarkProcessing(ms, r, owner)
<1>1. /\ NextToReplay(r) /\ rows' = MarkFailed(ks, r, MaxAttempts)
      /\ rows[r].attempts >= MaxAttempts
      /\ UNCHANGED <<obliged, phase, owner, recovered, watched, replaying, inbox, queue, turn,
                     replied, asked, excused, acted, told, astray, kills, spent>>
  BY DEF ReplayExhausted, history
<1>2. /\ Form(ms, obliged, owner) /\ Budget(ms, kills) /\ Aside(rows, ms, {r})
      /\ ms[r].status = "received" /\ ms[r].into = None
      /\ ms[r].attempts = rows[r].attempts /\ owner \in Nat
  BY <1>1, ClaimedRow, HeldFacts
<1> HIDE DEF ms
<1>3. ms \in Table /\ Owes(ms, r) /\ ms[r].attempts \in Nat
  BY <1>2, RowFields DEF Form, Shape, Owes
<1>4. Rewrites(ms, ks, r, "processing", ms[r].attempts + 1, owner, ms[r].tool)
  BY <1>2, <1>3, MarkProcessingFields
<1> HIDE DEF ks
<1>5. Form(ks, obliged, owner)
  <2>1. owner <= owner
    BY <1>2
  <2> QED
    BY <1>2, <1>3, <1>4, <2>1, RewritesKeeps
<1>6. /\ ks \in Table /\ Tree(ks) /\ Owes(ks, r) /\ ks[r].into = None
      /\ ks[r].status = "processing" /\ ks[r].attempts = ms[r].attempts + 1
  BY <1>2, <1>4, <1>5 DEF Form, Shape, Owes, Rewrites
<1>7. FailOutcome(ks, r, MaxAttempts) = "dead"
  BY <1>1, <1>2, <1>3, <1>6, TurnsAssumption DEF FailOutcome
<1>8. Settles(ks, rows', Family(ks, r), "dead")
  <2>1. FailOutcome(ks, r, MaxAttempts) # "received"
    BY <1>7
  <2> QED
    BY <1>1, <1>6, <1>7, <2>1, MarkFailedSettles
<1>9. Form(rows', obliged, owner) /\ Aside(ks, rows', {r})
  BY <1>2, <1>5, <1>6, <1>8, SettledRow
<1>10. Budget(rows', kills)
  <2>1. ASSUME NEW c \in Row
        PROVE  /\ kills[c] <= MaxAttempts
               /\ Owes(rows', c) => kills[c] <= rows'[c].attempts /\ rows'[c].attempts <= MaxAttempts
               /\ rows'[c].status = "absent" => kills[c] = 0
    <3>1. /\ kills[c] <= MaxAttempts
          /\ Owes(ms, c) => kills[c] <= ms[c].attempts /\ ms[c].attempts <= MaxAttempts
          /\ ms[c].status = "absent" => kills[c] = 0
      BY <1>2 DEF Budget
    <3>2. r \in Family(ks, r)
      BY DEF Family
    <3>3. CASE c \in Family(ks, r)
      BY <1>8, <3>1, <3>3 DEF Settles, Owes
    <3>4. CASE c \notin Family(ks, r)
      <4>1. rows'[c] = ms[c]
        BY <1>4, <1>8, <3>2, <3>4 DEF Settles, Rewrites
      <4> QED
        BY <3>1, <4>1 DEF Owes
    <3> QED
      BY <3>3, <3>4
  <2> QED
    BY <2>1 DEF Budget
<1>11. Aside(rows, rows', {r})
  <2>1. {r} \cup {r} = {r} /\ Aside(ms, ks, {r})
    BY <1>4 DEF Aside, Rewrites
  <2>2. Aside(rows, ks, {r})
    BY <1>2, <2>1, AsideTrans
  <2> QED
    BY <1>9, <2>1, <2>2, AsideTrans
<1>12. watched' \in BOOLEAN /\ told' \in [Row -> Row \cup {None}]
  BY <1>1 DEF HeldInv, TypeOK
<1> QED
  BY <1>1, <1>9, <1>10, <1>11, <1>12, ReplaySettlesHeld

\* A replayed row has attempts left, no tool started and no reply, as a held row must.
LEMMA ReplayTurnHeld ==
    ASSUME HeldInv, NEW r \in Row, ReplayTurn(r)
    PROVE  HeldInv'
<1>1. /\ NextToReplay(r) /\ rows' = Claim(rows, r, owner)
      /\ ~(r \in obliged) /\ ~rows[r].tool /\ rows[r].attempts < MaxAttempts
      /\ UNCHANGED <<obliged, phase, owner, recovered, replaying, queue, turn,
                     replied, asked, excused, acted, told, astray, kills, spent>>
      /\ \/ UNCHANGED <<inbox, watched>>
         \/ /\ \E i \in Row \cup {None} :
                 inbox' = inbox \cup {[row |-> r, text |-> FoldedText(rows, r), intr |-> i, loop |-> TRUE]}
            /\ watched' \in BOOLEAN
  BY DEF ReplayTurn, history, Answered, Pending, Retryable
<1>2. /\ Form(rows', obliged, owner) /\ Budget(rows', kills) /\ Aside(rows, rows', {r})
      /\ rows'[r].status = "received" /\ rows'[r].owner = owner /\ rows'[r].into = None
      /\ rows'[r].attempts = rows[r].attempts /\ rows'[r].tool = rows[r].tool
  BY <1>1, ClaimedRow
<1>3. Clear(inbox, queue, turn, {r}) /\ visited' \subseteq Row /\ phase # "down"
  BY <1>1, ReplayedRow
<1>4. told' \in [Row -> Row \cup {None}] /\ Apart(inbox, queue, turn.unread)
  BY <1>1 DEF HeldInv, TypeOK
<1>5. CASE UNCHANGED <<inbox, watched>>
  <2>1. watched' \in BOOLEAN
    BY <1>5 DEF HeldInv, TypeOK
  <2> QED
    BY <1>1, <1>2, <1>4, <1>5, <2>1, ReplaySettlesHeld
<1>6. ASSUME NEW i \in Row \cup {None}, watched' \in BOOLEAN,
             inbox' = inbox \cup {[row |-> r, text |-> FoldedText(rows, r), intr |-> i, loop |-> TRUE]}
      PROVE  HeldInv'
  <2> DEFINE d == [row |-> r, text |-> FoldedText(rows, r), intr |-> i, loop |-> TRUE]
  <2>1. d \in Call /\ d.row = r
    BY HeldFacts, FoldedTextType DEF Call
  <2>2. inbox' = inbox \cup {d}
    BY <1>6
  <2> HIDE DEF d
  <2>3. HeldRow(rows', obliged, owner, d.row) /\ rows'[d.row].into = None
    BY <1>1, <1>2, <2>1 DEF HeldRow
  <2>4. TasksHeld(rows', obliged, owner, inbox, queue, turn) /\ TurnHeld(rows', owner, kills, turn)
    BY <1>2, <1>3, Undisturbed DEF HeldInv
  <2>5. TasksHeld(rows', obliged, owner, inbox', queue, turn) /\ Apart(inbox', queue, turn.unread)
    <3>1. (\A c \in inbox : c.row # d.row) /\ (\A j \in 1..Len(queue) : queue[j].row # d.row)
      BY <1>3, <2>1 DEF Clear
    <3> QED
      BY <1>4, <2>2, <2>3, <2>4, <3>1, NewCall
  <2>6. TypeOK'
    <3>1. rows' \in Table /\ inbox' \subseteq Call
      BY <1>2, <2>1, <2>2 DEF Form, Shape, HeldInv, TypeOK
    <3> QED
      BY <1>1, <1>3, <1>6, <3>1 DEF HeldInv, TypeOK, Table
  <2> QED
    BY <1>1, <1>2, <2>4, <2>5, <2>6 DEF HeldInv, SpoolOK
<1> QED
  BY <1>1, <1>5, <1>6

\* Whatever the replay does with a row, the invariant is kept.
LEMMA ReplayRowHeld ==
    ASSUME HeldInv, NEW r \in Row, ReplayRow(r)
    PROVE  HeldInv'
BY ReplayStaleHeld, ReplayAnsweredHeld, ReplayInterruptedHeld, ReplayExhaustedHeld,
   ReplayTurnHeld DEF ReplayRow

\* The operator's requeue touches settled rows only, which nobody holds.
LEMMA ReplayHeld ==
    ASSUME HeldInv, NEW r \in Row, Replay(r)
    PROVE  HeldInv'
<1> DEFINE text == UNION {rows[c].text : c \in {d \in Row : rows'[d] # rows[d]}}
<1>1. /\ rows[r].status \in {"dead", "interrupted"} /\ rows' = Requeue(rows, r)
      /\ acted' = acted \ text /\ asked' = asked \cup text
      /\ kills' = [c \in Row |-> IF rows'[c] # rows[c] THEN 0 ELSE kills[c]]
      /\ UNCHANGED <<obliged, phase, owner, recovered, watched, replaying, visited, inbox,
                     queue, turn, replied, excused, told, astray>>
      /\ spent' \in [Counters -> Nat]
  BY SpentType DEF Replay, memory, Counters
<1>2. /\ rows \in Table /\ owner \in Nat /\ Form(rows, obliged, owner) /\ Budget(rows, kills)
      /\ Tree(rows)
  BY HeldFacts DEF Form
<1>3. /\ Reopens(rows, rows', Family(rows, r), r)
      /\ \A c \in Row : c \in Family(rows, r) <=> rows'[c] # rows[c]
      /\ \A c \in Family(rows, r) : rows[c].status \in {"dead", "interrupted"}
  BY <1>1, <1>2, RequeueFields
<1>4. \A c \in Row : kills'[c] = IF c \in Family(rows, r) THEN 0 ELSE kills[c]
  BY <1>1, <1>3
<1>5. SpoolOK(rows', obliged, owner, kills')
  BY <1>1, <1>2, <1>3, <1>4, ReopensKeeps DEF SpoolOK
<1>6. Aside(rows, rows', {})
  BY <1>3 DEF Aside, Reopens, Owes
<1>7. TasksHeld(rows', obliged, owner, inbox, queue, turn) /\ TurnHeld(rows', owner, kills, turn)
  <2>1. Clear(inbox, queue, turn, {})
    BY DEF Clear
  <2> QED
    BY <1>6, <2>1, Undisturbed DEF HeldInv
<1>8. TurnHeld(rows', owner, kills', turn)
  <2>1. turn.stage # "idle" => turn.row \in Row /\ rows[turn.row].status = "processing"
    BY DEF HeldInv, TurnHeld
  <2>2. turn.stage # "idle" => kills'[turn.row] = kills[turn.row]
    BY <1>3, <1>4, <2>1
  <2> QED
    BY <1>7, <2>2 DEF TurnHeld
<1>9. TypeOK'
  <2>1. rows' \in Table
    BY <1>3 DEF Reopens
  <2>2. acted' \subseteq Message /\ asked' \subseteq Message
    <3>1. text \subseteq Message
      BY <1>2, RowFields
    <3> QED
      BY <1>1, <3>1 DEF HeldInv, TypeOK
  <2>3. kills' \in [Row -> Nat]
    BY <1>1 DEF HeldInv, TypeOK
  <2> QED
    BY <1>1, <2>1, <2>2, <2>3 DEF HeldInv, TypeOK, Table
<1> QED
  BY <1>1, <1>5, <1>7, <1>8, <1>9 DEF HeldInv

\* The operator's discard touches settled rows only, which nobody holds.
LEMMA DropHeld ==
    ASSUME HeldInv, NEW r \in Row, Drop(r)
    PROVE  HeldInv'
<1> DEFINE text == UNION {rows[c].text : c \in {d \in Row : rows'[d] # rows[d]}}
<1>1. /\ rows' = Discard(rows, r) /\ excused' = excused \cup text
      /\ UNCHANGED <<obliged, phase, owner, recovered, watched, replaying, visited, inbox,
                     queue, turn, replied, asked, acted, told, astray, kills>>
      /\ spent' \in [Counters -> Nat]
  BY SpentType DEF Drop, memory, Counters
<1>2. Form(rows', obliged, owner) /\ Budget(rows', kills) /\ Aside(rows, rows', {})
  BY <1>1, HeldFacts, DiscardKeeps
<1>3. TasksHeld(rows', obliged, owner, inbox, queue, turn) /\ TurnHeld(rows', owner, kills, turn)
  <2>1. Clear(inbox, queue, turn, {})
    BY DEF Clear
  <2> QED
    BY <1>2, <2>1, Undisturbed DEF HeldInv
<1>4. TypeOK'
  <2>1. rows' \in Table
    BY <1>2 DEF Form, Shape
  <2>2. text \subseteq Message
    BY HeldFacts, RowFields
  <2>3. excused' \subseteq Message
    BY <1>1, <2>2 DEF HeldInv, TypeOK
  <2> QED
    BY <1>1, <2>1, <2>3 DEF HeldInv, TypeOK, Table
<1> QED
  BY <1>1, <1>2, <1>3, <1>4 DEF HeldInv, SpoolOK

\* An empty spool satisfies the invariant.
LEMMA InitHeld ==
    ASSUME Init
    PROVE  HeldInv
<1>1. /\ rows = [r \in Row |-> NoRow] /\ obliged = {} /\ phase = "up" /\ owner = 1
      /\ recovered = FALSE /\ watched = FALSE /\ replaying = FALSE
      /\ visited = {} /\ inbox = {} /\ queue = <<>> /\ turn = Idle
      /\ replied = {} /\ asked = {} /\ excused = {} /\ acted = {} /\ astray = {}
      /\ told = [r \in Row |-> None] /\ kills = [r \in Row |-> 0]
      /\ spent = [k \in Counters |-> 0]
  BY DEF Init
<1>2. /\ NoRow \in RowType /\ NoRow.status = "absent" /\ NoRow.key = NoMessage
      /\ NoRow.text = {} /\ NoRow.into = None /\ NoRow.owner = None
  BY DEF NoRow, RowType, Statuses, None
<1>3. rows \in Table /\ \A r \in Row : rows[r] = NoRow
  BY <1>1, <1>2 DEF Table
<1>4. Shape(rows)
  <2>1. Used(rows) = {}
    BY <1>2, <1>3 DEF Used
  <2>2. {} = 1..0 /\ 0 \in 0..MaxRows
    BY SpoolAssumption
  <2> QED
    BY <1>2, <1>3, <2>1, <2>2 DEF Shape
<1>5. SpoolOK(rows, obliged, owner, kills)
  <2>1. Tree(rows) /\ Owned(rows, owner) /\ Obligations(rows, obliged)
    BY <1>1, <1>2, <1>3 DEF Tree, Owned, Obligations, None
  <2>2. Budget(rows, kills)
    BY <1>1, <1>2, <1>3, TurnsAssumption DEF Budget, Owes
  <2> QED
    BY <1>4, <2>1, <2>2 DEF SpoolOK, Form
<1>6. TypeOK
  <2>1. <<>> \in Seq(Task) /\ Idle \in Turn /\ 1 \in Nat
    BY IdleType
  <2>2. told \in [Row -> Row \cup {None}] /\ kills \in [Row -> Nat] /\ spent \in [Counters -> Nat]
    BY <1>1
  <2>3. {recovered, watched, replaying} \subseteq BOOLEAN /\ queue \in Seq(Task) /\ turn \in Turn
    BY <1>1, <2>1
  <2> QED
    BY <1>1, <1>3, <2>1, <2>2, <2>3 DEF TypeOK, Table
<1>7. owner # None
  BY <1>1 DEF None
<1> QED
  BY <1>1, <1>5, <1>6, <1>7, NothingHeld DEF HeldInv

\* Every step keeps the invariant.
LEMMA NextHeld ==
    ASSUME HeldInv, [Next]_vars
    PROVE  HeldInv'
<1>1. CASE UNCHANGED vars
  BY <1>1 DEF HeldInv, TypeOK, vars, memory, history
<1>2. CASE Next
  <2>1. ASSUME NEW m \in Message, Receive(m) \/ CrashInAccept(m)
        PROVE  HeldInv'
    BY <2>1, ReceiveHeld, CrashInAcceptHeld
  <2>2. ASSUME NEW c \in inbox, Dispatch(c)
        PROVE  HeldInv'
    BY <2>2, DispatchHeld
  <2>3. ASSUME TurnStep
        PROVE  HeldInv'
    BY <2>3, StartTurnHeld, RefuseAtCapHeld, StartToolHeld, ReadSteersHeld, TerminalHeld,
       RecordReplyHeld, SendReplyHeld, FinishTurnHeld, ThrowTurnHeld DEF TurnStep
  <2>4. ASSUME BeginShutdown \/ AbortLanes \/ Exit \/ Crash \/ Boot \/ BeginReplay \/ EndReplay
        PROVE  HeldInv'
    BY <2>4, BeginShutdownHeld, AbortLanesHeld, ExitHeld, CrashHeld, BootHeld, BeginReplayHeld,
       EndReplayHeld
  <2>5. ASSUME NEW r \in Row, ReplayRow(r) \/ Replay(r) \/ Drop(r)
        PROVE  HeldInv'
    BY <2>5, ReplayRowHeld, ReplayHeld, DropHeld
  <2> QED
    BY <1>2, <2>1, <2>2, <2>3, <2>4, <2>5 DEF Next
<1> QED
  BY <1>1, <1>2

\* The rows are well formed, and every message on its way to a turn, and the running turn,
\* holds an owed row of its own, in every reachable state.
THEOREM HeldInvariant == Spec => []HeldInv
<1>1. Init => HeldInv
  BY InitHeld
<1>2. HeldInv /\ [Next]_vars => HeldInv'
  BY NextHeld
<1> QED
  BY <1>1, <1>2, PTL DEF Spec

\* Every variable of the gateway and its spool has its type; a process that is down
\* remembers nothing.
THEOREM TypeCorrect == Spec => []TypeOK
<1>1. HeldInv => TypeOK
  BY DEF HeldInv
<1> QED
  BY <1>1, HeldInvariant, PTL

\* A message queued on the lane, or on its way there, is still owed on disk and held by this
\* process (spool `received`, spoolOwner), and the running turn's row is `processing` under it:
\* no settling or replaying behind a queued task's back.
THEOREM HeldRowsOwedCorrect == Spec => []HeldRowsOwed
<1>1. HeldInv => HeldRowsOwed
  <2> SUFFICES ASSUME HeldInv
               PROVE  HeldRowsOwed
    OBVIOUS
  <2>1. /\ TasksHeld(rows, obliged, owner, inbox, queue, turn) /\ TurnHeld(rows, owner, kills, turn)
        /\ queue \in Seq(Task) /\ turn.unread \in Seq(Task)
    BY HeldFacts DEF HeldInv
  <2>2. \A t \in inbox \cup TaskSet(queue) \cup TaskSet(turn.unread) :
          rows[t.row].status = "received" /\ rows[t.row].owner = owner
    BY <2>1 DEF TasksHeld, HeldRow, TaskSet
  <2> QED
    BY <2>1, <2>2 DEF HeldRowsOwed, TurnHeld
<1> QED
  BY <1>1, HeldInvariant, PTL

\* A message kills at most spoolMaxAttempts processes, however crashes, refunds of a graceful
\* shutdown, throws and replays interleave.
THEOREM CrashLoopCorrect == Spec => []CrashLoopBounded
<1>1. HeldInv => CrashLoopBounded
  BY DEF HeldInv, SpoolOK, Budget, CrashLoopBounded
<1> QED
  BY <1>1, HeldInvariant, PTL

-----------------------------------------------------------------------------
(* The texts: what the disk and the lane say of the messages.             *)

\* The row r is the turn row p, or absorbed into it.
Home(rs, r, p) == r = p \/ rs[r].into = p

\* The message is in a row that goes with p.
Carried(rs, p, m) == \E r \in Row : Home(rs, r, p) /\ m \in rs[r].text

\* The row whose turn runs the message of row r.
Primary(rs, r) == IF rs[r].into = None THEN r ELSE rs[r].into

\* The message was accepted.
Known(rs, m) == \E r \in Row : rs[r].key = m

\* What the disk says of the messages.  A text is in one row; a row whose reply is
\* recorded holds nothing unanswered; a message a tool has run for is in a row that
\* knows it; `fine` messages need no row.
Durable(rs, ob, act, ast, rep, again, fine) ==
    /\ \A r \in Row : rs[r].status = "done" => rs[r].text = {}
    /\ \A r, s \in Row : \A m \in rs[r].text : m \in rs[s].text => r = s
    /\ \A r \in Row : \A m \in rs[r].text : Known(rs, m)
    /\ \A m \in act \cup rep : Known(rs, m)
    /\ \A r \in ob : r \in Row /\ rs[r].into = None
    /\ \A r \in ob, c \in Row : Home(rs, c, r) => rs[c].text \subseteq fine
    /\ \A r \in Row : Owes(rs, r) =>
          \A m \in rs[r].text : m \in act => m \in ast \/ rs[Primary(rs, r)].tool
    /\ \A r \in Row : \A m \in rs[r].text :
          m \in rep => m \in again \/ r \in ob \/ rs[r].into \in ob

\* Only `fine` messages are in no row.
NoneLost(rs, fine) ==
    \A m \in Message : Known(rs, m) /\ m \notin fine => \E r \in Row : m \in rs[r].text

\* A message runs with the text of its row and of the rows absorbed into it.
TaskOK(rs, t, act, ast) ==
    /\ \A m \in t.text : Known(rs, m) /\ (m \in act => m \in ast)
    /\ \A m \in Message : m \notin ast => (m \in t.text <=> Carried(rs, t.row, m))

\* An unread steer runs with the text of its own row.
UnreadOK(rs, t, act, ast) ==
    /\ \A m \in t.text : Known(rs, m) /\ (m \in act => m \in ast)
    /\ \A m \in Message : m \notin ast => (m \in t.text <=> m \in rs[t.row].text)

\* The turn's text is that of the rows that go with it, but for unread steers.
TurnOK(rs, tn, act, ast) ==
    /\ \A m \in tn.text : Known(rs, m) /\ (m \in act => m \in ast \/ tn.tool)
    /\ \A m \in Message : m \notin ast =>
         (m \in tn.text <=> \E r \in Row : /\ Home(rs, r, tn.row) /\ m \in rs[r].text
                                           /\ \A i \in 1..Len(tn.unread) : tn.unread[i].row # r)

\* The lane's texts and their rows.
LaneText(rs, in, qu, tn, act, ast) ==
    /\ \A c \in in : TaskOK(rs, c, act, ast)
    /\ \A i \in 1..Len(qu) : TaskOK(rs, qu[i], act, ast)
    /\ \A i \in 1..Len(tn.unread) : UnreadOK(rs, tn.unread[i], act, ast)
    /\ tn.stage # "idle" => TurnOK(rs, tn, act, ast)

\* What is already settled of the turn's text when it ends.
EndText(tn, ph, ob, rep, exc, ast) ==
    /\ tn.stage = "running" \/ tn.send = "due" => tn.row \notin ob
    /\ tn.aborted /\ ph = "up" =>
         /\ tn.text \subseteq exc \cup ast
         /\ \A i \in 1..Len(tn.unread) : tn.unread[i].text \subseteq exc \cup ast
    /\ tn.send = "settled" =>
         tn.text \subseteq rep \cup exc \cup ast \/ (tn.aborted /\ ph # "up")
    /\ tn.send = "recorded" \/ tn.answered => tn.text \subseteq rep
    /\ tn.send \in {"due", "recorded"} \/ tn.answered =>
         \A i \in 1..Len(tn.unread) : tn.unread[i].text \subseteq ast
    /\ tn.stage = "tail" =>
         \/ \A i \in 1..Len(tn.unread) : tn.unread[i].text \subseteq exc \cup ast
         \/ tn.aborted /\ ph # "up"

\* Messages that need no row any more.
Fine == replied \cup excused \cup astray

\* The inductive invariant of the texts.
TextInv ==
    /\ Durable(rows, obliged, acted, astray, replied, asked \cup astray, Fine)
    /\ NoneLost(rows, Fine)
    /\ LaneText(rows, inbox, queue, turn, acted, astray)
    /\ EndText(turn, phase, obliged, replied, excused, astray)

\* The rows of a lane.
LaneRow(in, qu, tn, p) ==
    \/ \E c \in in : p = c.row
    \/ \E i \in 1..Len(qu) : p = qu[i].row
    \/ \E i \in 1..Len(tn.unread) : p = tn.unread[i].row
    \/ tn.stage # "idle" /\ p = tn.row

\* No text and no link changes.
Plain(rs, ns) ==
    \A c \in Row : /\ ns[c].text = rs[c].text /\ ns[c].into = rs[c].into /\ ns[c].key = rs[c].key
                   /\ Owes(ns, c) => Owes(rs, c)
                   /\ rs[c].tool => ns[c].tool
                   /\ ns[c].status = "done" => rs[c].status = "done"

\* Text and links unchanged, the disk says of the messages what it said.
LEMMA PlainDurable ==
    ASSUME NEW rs \in Table, NEW ns, NEW ob, NEW act, NEW ast, NEW rep, NEW again, NEW fine,
           Durable(rs, ob, act, ast, rep, again, fine), Plain(rs, ns)
    PROVE  Durable(ns, ob, act, ast, rep, again, fine)
<1>1. \A m : Known(ns, m) <=> Known(rs, m)
  BY DEF Plain, Known
<1>2. \A r \in Row : \A p : Home(ns, r, p) <=> Home(rs, r, p)
  BY DEF Plain, Home
<1>3. \A r \in Row : Primary(ns, r) = Primary(rs, r) /\ Primary(rs, r) \in Row
  BY RowFields DEF Plain, Primary
<1> QED
  BY <1>1, <1>2, <1>3 DEF Plain, Durable

\* Text and links unchanged, nothing is lost.
LEMMA PlainLost ==
    ASSUME NEW rs, NEW ns, NEW fine, NoneLost(rs, fine), Plain(rs, ns)
    PROVE  NoneLost(ns, fine)
BY DEF Plain, NoneLost, Known

\* Text and links unchanged, the lane's texts still match their rows.
LEMMA PlainLane ==
    ASSUME NEW rs, NEW ns, NEW in, NEW qu, NEW tn, NEW act, NEW ast, NEW ob, NEW o, NEW k,
           TasksHeld(rs, ob, o, in, qu, tn),
           LaneText(rs, in, qu, tn, act, ast), Plain(rs, ns)
    PROVE  LaneText(ns, in, qu, tn, act, ast)
<1>1. \A m : Known(ns, m) <=> Known(rs, m)
  BY DEF Plain, Known
<1>2. \A p, m : Carried(ns, p, m) <=> Carried(rs, p, m)
  BY DEF Plain, Home, Carried
<1>3. \A t : TaskOK(rs, t, act, ast) => TaskOK(ns, t, act, ast)
  BY <1>1, <1>2 DEF TaskOK
<1>4. \A t : t.row \in Row /\ UnreadOK(rs, t, act, ast) => UnreadOK(ns, t, act, ast)
  BY <1>1 DEF UnreadOK, Plain
<1>5. TurnOK(rs, tn, act, ast) => TurnOK(ns, tn, act, ast)
  BY <1>1 DEF TurnOK, Plain, Home
<1>6. \A i \in 1..Len(tn.unread) : tn.unread[i].row \in Row
  BY DEF TasksHeld, HeldRow
<1> QED
  BY <1>3, <1>4, <1>5, <1>6 DEF LaneText

\* Looser bounds.
LEMMA DurableMono ==
    ASSUME NEW rs, NEW ob, NEW act, NEW ast, NEW rep, NEW again, NEW fine,
           Durable(rs, ob, act, ast, rep, again, fine),
           NEW actb, NEW astb, NEW againb, NEW fineb,
           actb \subseteq act, ast \subseteq astb, again \subseteq againb, fine \subseteq fineb
    PROVE  Durable(rs, ob, actb, astb, rep, againb, fineb)
BY DEF Durable

\* Fewer tool-started messages and more astray ones demand less of the lane.
LEMMA LaneMono ==
    ASSUME NEW rs, NEW in, NEW qu, NEW tn, NEW act, NEW ast, LaneText(rs, in, qu, tn, act, ast),
           NEW actb, NEW astb, actb \subseteq act, ast \subseteq astb
    PROVE  LaneText(rs, in, qu, tn, actb, astb)
<1>1. \A t : TaskOK(rs, t, act, ast) => TaskOK(rs, t, actb, astb)
  BY DEF TaskOK
<1>2. \A t : UnreadOK(rs, t, act, ast) => UnreadOK(rs, t, actb, astb)
  BY DEF UnreadOK
<1>3. TurnOK(rs, tn, act, ast) => TurnOK(rs, tn, actb, astb)
  BY DEF TurnOK
<1> QED
  BY <1>1, <1>2, <1>3 DEF LaneText

\* More messages that need no row demand less of the disk.
LEMMA LostMono ==
    ASSUME NEW rs, NEW fine, NEW fineb, NoneLost(rs, fine), fine \subseteq fineb
    PROVE  NoneLost(rs, fineb)
BY DEF NoneLost

\* Rows that close take their text along.
LEMMA DoneDurable ==
    ASSUME NEW rs \in Table, NEW ns, NEW E, NEW ob, NEW act, NEW ast, NEW rep, NEW again, NEW fine,
           Durable(rs, ob, act, ast, rep, again, fine), E \subseteq Row, Settles(rs, ns, E, "done")
    PROVE  Durable(ns, ob, act, ast, rep, again, fine)
<1>1. \A c \in Row : /\ ns[c].into = rs[c].into /\ ns[c].key = rs[c].key /\ ns[c].tool = rs[c].tool
                     /\ c \notin E => ns[c] = rs[c]
                     /\ c \in E => ns[c].text = {} /\ ns[c].status = "done"
                     /\ ns[c].text \subseteq rs[c].text
                     /\ Owes(ns, c) => Owes(rs, c)
                     /\ ns[c].status = "done" => ns[c].text = {} \/ ns[c] = rs[c]
  BY DEF Settles, Owes
<1>2. \A m : Known(ns, m) <=> Known(rs, m)
  BY <1>1 DEF Known
<1>3. \A r \in Row : \A p : Home(ns, r, p) <=> Home(rs, r, p)
  BY <1>1 DEF Home
<1>4. \A r \in Row : Primary(ns, r) = Primary(rs, r) /\ Primary(rs, r) \in Row
  BY <1>1, RowFields DEF Primary
<1> QED
  BY <1>1, <1>2, <1>3, <1>4 DEF Durable

\* Closing rows loses nothing if what they held needs no row.
LEMMA DoneLost ==
    ASSUME NEW rs, NEW ns, NEW E, NEW fine, NEW fineb, NoneLost(rs, fine), E \subseteq Row,
           Settles(rs, ns, E, "done"), fine \subseteq fineb, \A c \in E : rs[c].text \subseteq fineb
    PROVE  NoneLost(ns, fineb)
<1>1. \A m : Known(ns, m) <=> Known(rs, m)
  BY DEF Known, Settles
<1> QED
  BY <1>1 DEF NoneLost, Settles

\* The rows of E run with no turn of the lane.
Away(rs, E, in, qu, tn) ==
    \A p : LaneRow(in, qu, tn, p) => p \in Row /\ \A c \in E : ~Home(rs, c, p)

\* Closing rows that run with no turn of the lane leaves its texts alone.
LEMMA DoneLane ==
    ASSUME NEW rs, NEW ns, NEW E, NEW in, NEW qu, NEW tn, NEW act, NEW ast,
           LaneText(rs, in, qu, tn, act, ast), E \subseteq Row, Settles(rs, ns, E, "done"),
           Away(rs, E, in, qu, tn)
    PROVE  LaneText(ns, in, qu, tn, act, ast)
<1>1. \A m : Known(ns, m) <=> Known(rs, m)
  BY DEF Known, Settles
<1>2. \A c \in Row : ns[c].into = rs[c].into /\ (c \notin E => ns[c] = rs[c])
                     /\ (c \in E => ns[c].text = {})
  BY DEF Settles
<1>3. ASSUME NEW p, LaneRow(in, qu, tn, p), NEW r \in Row
      PROVE  /\ Home(ns, r, p) <=> Home(rs, r, p)
             /\ Home(rs, r, p) => ns[r] = rs[r]
  BY <1>2, <1>3 DEF Home, Away
<1>4. ASSUME NEW t, LaneRow(in, qu, tn, t.row), TaskOK(rs, t, act, ast)
      PROVE  TaskOK(ns, t, act, ast)
  <2>1. \A m : Carried(ns, t.row, m) <=> Carried(rs, t.row, m)
    BY <1>3, <1>4 DEF Carried
  <2> QED
    BY <1>1, <1>4, <2>1 DEF TaskOK
<1>5. ASSUME NEW t, LaneRow(in, qu, tn, t.row), UnreadOK(rs, t, act, ast)
      PROVE  UnreadOK(ns, t, act, ast)
  <2>1. t.row \in Row /\ ns[t.row] = rs[t.row]
    BY <1>3, <1>5 DEF Home, Away
  <2> QED
    BY <1>1, <1>5, <2>1 DEF UnreadOK
<1>6. ASSUME tn.stage # "idle", TurnOK(rs, tn, act, ast)
      PROVE  TurnOK(ns, tn, act, ast)
  <2>1. LaneRow(in, qu, tn, tn.row)
    BY <1>6 DEF LaneRow
  <2> QED
    BY <1>1, <1>3, <1>6, <2>1 DEF TurnOK
<1>7. \A c \in in : TaskOK(ns, c, act, ast)
  BY <1>4 DEF LaneText, LaneRow
<1>8. \A i \in 1..Len(qu) : TaskOK(ns, qu[i], act, ast)
  BY <1>4 DEF LaneText, LaneRow
<1>9. \A i \in 1..Len(tn.unread) : UnreadOK(ns, tn.unread[i], act, ast)
  BY <1>5 DEF LaneText, LaneRow
<1> QED
  BY <1>6, <1>7, <1>8, <1>9 DEF LaneText

\* Every row of a lane is owed.
LEMMA LaneOwed ==
    ASSUME NEW rs, NEW ob, NEW o, NEW k, NEW in, NEW qu, NEW tn, NEW p,
           TasksHeld(rs, ob, o, in, qu, tn), TurnHeld(rs, o, k, tn), LaneRow(in, qu, tn, p)
    PROVE  p \in Row /\ Owes(rs, p)
<1>1. \A q : HeldRow(rs, ob, o, q) => q \in Row /\ Owes(rs, q)
  BY DEF HeldRow, Owes
<1> QED
  BY <1>1 DEF TasksHeld, TurnHeld, LaneRow, Owes

\* Settled rows run with no turn.
LEMMA SettledAway ==
    ASSUME NEW rs, Tree(rs), NEW E, E \subseteq Row,
           \A c \in E : rs[c].status \in {"dead", "interrupted"},
           NEW in, NEW qu, NEW tn,
           \A p : LaneRow(in, qu, tn, p) => p \in Row /\ Owes(rs, p)
    PROVE  Away(rs, E, in, qu, tn)
<1>1. ASSUME NEW p \in Row, Owes(rs, p), NEW c \in E
      PROVE  ~Home(rs, c, p)
  <2>1. c \in Row /\ rs[c].status \in {"dead", "interrupted"} /\ p # None
    BY RowNumbers
  <2>2. c # p
    BY <1>1, <2>1 DEF Owes
  <2>3. rs[c].into = p => rs[p].status = rs[c].status
    BY <2>1 DEF Tree
  <2> QED
    BY <1>1, <2>1, <2>2, <2>3 DEF Home, Owes
<1> QED
  BY <1>1 DEF Away

\* The rows that go with r run with no other turn of the lane.
LEMMA FamilyAway ==
    ASSUME NEW rs, NEW ob, NEW o, NEW k, NEW in, NEW qu, NEW tn, NEW r \in Row,
           rs[r].into = None, TasksHeld(rs, ob, o, in, qu, tn), TurnHeld(rs, o, k, tn),
           Clear(in, qu, tn, {r}), tn.stage = "idle" => tn.unread = <<>>
    PROVE  Away(rs, Family(rs, r), in, qu, tn)
<1>1. \A p : LaneRow(in, qu, tn, p) => p \in Row /\ Owes(rs, p)
  BY LaneOwed
<1>2. ASSUME NEW p, LaneRow(in, qu, tn, p)
      PROVE  p # r /\ rs[p].into # r
  <2>1. r # None
    BY RowNumbers
  <2>2. CASE \E c \in in : p = c.row
    BY <2>1, <2>2 DEF TasksHeld, Clear
  <2>3. CASE \E i \in 1..Len(qu) : p = qu[i].row
    BY <2>1, <2>3 DEF TasksHeld, Clear
  <2>4. CASE tn.stage # "idle" /\ p = tn.row
    BY <2>1, <2>4 DEF TurnHeld, Clear
  <2>5. CASE tn.stage # "idle" /\ \E i \in 1..Len(tn.unread) : p = tn.unread[i].row
    BY <2>5 DEF TasksHeld, Clear
  <2>6. CASE tn.stage = "idle" /\ \E i \in 1..Len(tn.unread) : p = tn.unread[i].row
    <3>1. Len(tn.unread) = 0
      BY <2>6
    <3> QED
      BY <2>6, <3>1
  <2> QED
    BY <1>2, <2>2, <2>3, <2>4, <2>5, <2>6 DEF LaneRow
<1>3. ASSUME NEW p, LaneRow(in, qu, tn, p), NEW c \in Family(rs, r)
      PROVE  ~Home(rs, c, p)
  <2>1. p # r /\ rs[p].into # r /\ p # None
    BY <1>1, <1>2, <1>3, RowNumbers
  <2> QED
    BY <2>1, <1>3 DEF Home, Family
<1> QED
  BY <1>1, <1>3 DEF Away

\* A fresh row takes a text that no row holds.
LEMMA InsertDurable ==
    ASSUME NEW rs, Shape(rs), Tree(rs), NEW ob, Obligations(rs, ob), NEW act, NEW ast, NEW rep,
           NEW again, NEW fine, Durable(rs, ob, act, ast, rep, again, fine),
           NEW ns, NEW r, NEW key, NEW text, NEW w, Inserts(rs, ns, r, key, text, w),
           text \subseteq Message, act \cup rep \subseteq Message,
           \A m \in text : m = key \/ Known(rs, m),
           \A s \in Row : \A m \in text : m \notin rs[s].text,
           \A m \in text : (m \in act => m \in ast) /\ (m \in rep => m \in again)
    PROVE  Durable(ns, ob, act, ast, rep, again, fine)
<1>1. r \in Row /\ r # None /\ rs[r].status = "absent" /\ r \notin ob
  BY RowNumbers DEF Inserts, Obligations
<1>2. rs[r].text = {} /\ rs[r].into = None /\ rs[r].key = NoMessage
  BY <1>1 DEF Shape
<1>3. \A c \in Row : rs[c].into # r
  BY <1>1 DEF Tree
<1>4. /\ ns[r].status = "received" /\ ns[r].key = key /\ ns[r].text = text /\ ns[r].into = None
      /\ ns[r].tool = FALSE
  BY DEF Inserts, NoRow
<1>5. \A c \in Row : c # r => ns[c] = rs[c]
  BY DEF Inserts
<1>6. \A m \in Message : Known(rs, m) => Known(ns, m)
  BY <1>2, <1>5, SpoolAssumption DEF Known
<1>7. Known(ns, key)
  BY <1>1, <1>4 DEF Known
<1>8. \A c \in Row : \A p \in Row : Home(ns, c, p) <=> Home(rs, c, p)
  BY <1>2, <1>4, <1>5, RowNumbers DEF Home
<1>9. \A c \in Row : ns[c].into = rs[c].into
  BY <1>2, <1>4, <1>5
<1>10. rs \in Table /\ \A c \in Row : rs[c].text \subseteq Message /\ Primary(rs, c) \in Row
  BY RowFields DEF Shape, Primary
<1>11. \A c \in Row : c # r => Primary(ns, c) = Primary(rs, c) /\ Primary(rs, c) # r
  BY <1>3, <1>5 DEF Primary
<1>12. \A c \in Row : c # r => (Owes(ns, c) <=> Owes(rs, c))
  BY <1>5 DEF Owes
<1>13. \A c \in Row : ns[c].status = "done" => ns[c].text = {}
  BY <1>4, <1>5 DEF Durable
<1>14. \A c, s \in Row : \A m \in ns[c].text : m \in ns[s].text => c = s
  BY <1>4, <1>5 DEF Durable
<1>15. \A c \in Row : \A m \in ns[c].text : Known(ns, m)
  BY <1>4, <1>5, <1>6, <1>7, <1>10 DEF Durable
<1>16. \A m \in act \cup rep : Known(ns, m)
  BY <1>6 DEF Durable
<1>17. \A q \in ob : q \in Row /\ ns[q].into = None
  BY <1>9 DEF Durable
<1>18. \A q \in ob, c \in Row : Home(ns, c, q) => ns[c].text \subseteq fine
  <2>1. ASSUME NEW q \in ob, NEW c \in Row, Home(ns, c, q)
        PROVE  ns[c].text \subseteq fine
    <3>1. q \in Row /\ Home(rs, c, q) /\ q # r
      BY <1>1, <1>8, <2>1 DEF Durable
    <3>2. c # r
      BY <1>1, <1>2, <3>1, RowNumbers DEF Home
    <3> QED
      BY <1>5, <3>1, <3>2 DEF Durable
  <2> QED
    BY <2>1
<1>19. \A c \in Row : Owes(ns, c) =>
          \A m \in ns[c].text : m \in act => m \in ast \/ ns[Primary(ns, c)].tool
  BY <1>4, <1>5, <1>10, <1>11, <1>12 DEF Durable
<1>20. \A c \in Row : \A m \in ns[c].text :
          m \in rep => m \in again \/ c \in ob \/ ns[c].into \in ob
  BY <1>4, <1>5, <1>9 DEF Durable
<1> QED
  BY <1>13, <1>14, <1>15, <1>16, <1>17, <1>18, <1>19, <1>20 DEF Durable

\* What a fresh row takes over is not lost.
LEMMA InsertLost ==
    ASSUME NEW rs, Shape(rs), NEW fine, NEW ns, NEW r, NEW key, NEW text, NEW w,
           Inserts(rs, ns, r, key, text, w), NoneLost(rs, fine \cup text),
           key \in text \/ key \notin Message
    PROVE  NoneLost(ns, fine)
<1>1. r \in Row /\ rs[r].text = {} /\ ns[r].text = text /\ ns[r].key = key
  BY DEF Inserts, Shape, NoRow
<1>2. \A c \in Row : c # r => ns[c] = rs[c]
  BY DEF Inserts
<1>3. \A m \in Message : Known(ns, m) => Known(rs, m) \/ m = key
  BY <1>1, <1>2 DEF Known
<1> QED
  BY <1>1, <1>2, <1>3 DEF NoneLost

\* A fresh row belongs to no task of the lane, and nothing is absorbed into it.
LEMMA InsertLane ==
    ASSUME NEW rs, Shape(rs), Tree(rs), NEW ns, NEW r, NEW key, NEW text, NEW w,
           Inserts(rs, ns, r, key, text, w),
           NEW in, NEW qu, NEW tn, NEW act, NEW ast, LaneText(rs, in, qu, tn, act, ast),
           \A p : LaneRow(in, qu, tn, p) => p \in Row /\ Owes(rs, p),
           \A c \in in : c.text \subseteq Message,
           \A i \in 1..Len(qu) : qu[i].text \subseteq Message,
           \A i \in 1..Len(tn.unread) : tn.unread[i].text \subseteq Message,
           tn.text \subseteq Message
    PROVE  /\ LaneText(ns, in, qu, tn, act, ast)
           /\ \A m : Carried(ns, r, m) <=> m \in text
<1>1. r \in Row /\ r # None /\ rs[r].status = "absent"
  BY RowNumbers DEF Inserts
<1>2. rs[r].text = {} /\ rs[r].into = None /\ rs[r].key = NoMessage
  BY <1>1 DEF Shape
<1>3. \A c \in Row : rs[c].into # r
  BY <1>1 DEF Tree
<1>4. ns[r].text = text /\ ns[r].into = None
  BY DEF Inserts, NoRow
<1>5. \A c \in Row : c # r => ns[c] = rs[c]
  BY DEF Inserts
<1>6. \A m \in Message : Known(rs, m) => Known(ns, m)
  BY <1>2, <1>5, SpoolAssumption DEF Known
<1>7. \A p : LaneRow(in, qu, tn, p) => p \in Row /\ p # r /\ p # None
  BY <1>1, RowNumbers DEF Owes
<1>8. \A c \in Row : \A p : Home(ns, c, p) <=> Home(rs, c, p)
  BY <1>2, <1>4, <1>5 DEF Home
<1>9. ASSUME NEW p, p # r, p # None, NEW c \in Row, Home(rs, c, p)
      PROVE  ns[c] = rs[c]
  BY <1>2, <1>5, <1>9 DEF Home
<1>10. ASSUME NEW t, LaneRow(in, qu, tn, t.row), t.text \subseteq Message, TaskOK(rs, t, act, ast)
       PROVE  TaskOK(ns, t, act, ast)
  <2>1. \A m : Carried(ns, t.row, m) <=> Carried(rs, t.row, m)
    BY <1>7, <1>8, <1>9, <1>10 DEF Carried
  <2> QED
    BY <1>6, <1>10, <2>1 DEF TaskOK
<1>11. ASSUME NEW t, LaneRow(in, qu, tn, t.row), t.text \subseteq Message, UnreadOK(rs, t, act, ast)
       PROVE  UnreadOK(ns, t, act, ast)
  BY <1>5, <1>6, <1>7, <1>11 DEF UnreadOK
<1>12. ASSUME tn.stage # "idle", TurnOK(rs, tn, act, ast)
       PROVE  TurnOK(ns, tn, act, ast)
  <2>1. tn.row # r /\ tn.row # None
    BY <1>7, <1>12 DEF LaneRow
  <2> QED
    BY <1>6, <1>8, <1>9, <1>12, <2>1 DEF TurnOK
<1>13. LaneText(ns, in, qu, tn, act, ast)
  BY <1>10, <1>11, <1>12 DEF LaneText, LaneRow
<1>14. \A m : Carried(ns, r, m) <=> m \in text
  BY <1>1, <1>2, <1>3, <1>4, <1>5 DEF Carried, Home
<1> QED
  BY <1>13, <1>14

\* Rows whose link changes.
LEMMA RelinksDurable ==
    ASSUME NEW rs \in Table, NEW ob, NEW act, NEW ast, NEW rep, NEW again, NEW fine,
           Durable(rs, ob, act, ast, rep, again, fine),
           NEW ns, NEW S, S \subseteq Row, NEW p \in Row \cup {None}, Relinks(rs, ns, S, p),
           p \notin ob \/ p = None, p = None \/ S \cap ob = {},
           \A c \in S : \A m \in rs[c].text : m \in act => m \in ast,
           \A c \in S : \A m \in rs[c].text : m \in rep => m \in again \/ (c \notin ob /\ rs[c].into \notin ob)
    PROVE  Durable(ns, ob, act, ast, rep, again, fine)
<1>1. \A c \in Row : /\ ns[c].status = rs[c].status /\ ns[c].key = rs[c].key
                     /\ ns[c].text = rs[c].text /\ ns[c].tool = rs[c].tool
                     /\ ns[c].into = (IF c \in S THEN p ELSE rs[c].into)
  BY DEF Relinks
<1>2. \A m : Known(ns, m) <=> Known(rs, m)
  BY <1>1 DEF Known
<1>3. \A q \in ob : q \in Row /\ q # None /\ ns[q].into = None
  <2>1. ASSUME NEW q \in ob
        PROVE  q \in Row /\ q # None /\ ns[q].into = None
    <3>1. q \in Row /\ q # None /\ rs[q].into = None
      BY RowNumbers DEF Durable
    <3>2. q \in S => p = None
      OBVIOUS
    <3> QED
      BY <1>1, <3>1, <3>2
  <2> QED
    BY <2>1
<1>4. ASSUME NEW q \in ob, NEW c \in Row, Home(ns, c, q)
      PROVE  ns[c].text \subseteq fine
  <2>1. Home(rs, c, q)
    BY <1>1, <1>3, <1>4 DEF Home
  <2> QED
    BY <1>1, <2>1 DEF Durable
<1>5. ASSUME NEW c \in Row, Owes(ns, c), NEW m \in ns[c].text, m \in act
      PROVE  m \in ast \/ ns[Primary(ns, c)].tool
  <2>1. CASE c \in S
    BY <1>1, <1>5, <2>1
  <2>2. CASE c \notin S
    <3>1. Owes(rs, c) /\ m \in rs[c].text /\ Primary(ns, c) = Primary(rs, c)
      BY <1>1, <1>5, <2>2 DEF Owes, Primary
    <3>2. Primary(rs, c) \in Row
      BY RowFields DEF Primary
    <3> QED
      BY <1>1, <1>5, <3>1, <3>2 DEF Durable
  <2> QED
    BY <2>1, <2>2
<1>6. ASSUME NEW c \in Row, NEW m \in ns[c].text, m \in rep
      PROVE  m \in again \/ c \in ob \/ ns[c].into \in ob
  BY <1>1, <1>6 DEF Durable
<1> QED
  BY <1>1, <1>2, <1>3, <1>4, <1>5, <1>6 DEF Durable

\* A link changes no text.
LEMMA RelinksLost ==
    ASSUME NEW rs, NEW ns, NEW S, NEW p, Relinks(rs, ns, S, p), NEW fine, NoneLost(rs, fine)
    PROVE  NoneLost(ns, fine)
BY DEF Relinks, NoneLost, Known

\* A task keeps its text when no link to or from its row changes.
LEMMA RelinksTask ==
    ASSUME NEW rs, NEW ns, NEW S, NEW p, Relinks(rs, ns, S, p), NEW act, NEW ast,
           NEW t, TaskOK(rs, t, act, ast), t.row # p,
           \A c \in S : c \in Row => c = t.row \/ rs[c].into # t.row
    PROVE  TaskOK(ns, t, act, ast)
<1>1. \A m : Known(ns, m) <=> Known(rs, m)
  BY DEF Known, Relinks
<1>2. \A c \in Row : Home(ns, c, t.row) <=> Home(rs, c, t.row)
  BY DEF Home, Relinks
<1>3. \A m : Carried(ns, t.row, m) <=> Carried(rs, t.row, m)
  BY <1>2 DEF Carried, Relinks
<1> QED
  BY <1>1, <1>3 DEF TaskOK

\* An unread steer's own text does not depend on links.
LEMMA RelinksUnread ==
    ASSUME NEW rs, NEW ns, NEW S, NEW p, Relinks(rs, ns, S, p), NEW act, NEW ast,
           NEW t, UnreadOK(rs, t, act, ast), t.row \in Row
    PROVE  UnreadOK(ns, t, act, ast)
BY DEF UnreadOK, Known, Relinks

\* The operator takes a settled row and what goes with it up again.
LEMMA ReopensDurable ==
    ASSUME NEW rs \in Table, Tree(rs), NEW ob, NEW act, NEW ast, NEW rep, NEW again, NEW fine,
           Durable(rs, ob, act, ast, rep, again, fine), NEW r \in Row,
           \A c \in Family(rs, r) : rs[c].status \in {"dead", "interrupted"},
           NEW ns, Reopens(rs, ns, Family(rs, r), r), NEW text,
           \A c \in Family(rs, r) : rs[c].text \subseteq text
    PROVE  Durable(ns, ob, act \ text, ast, rep, again \cup text, fine)
<1> DEFINE E == Family(rs, r)
<1>1. \A c \in Row : /\ ns[c].key = rs[c].key /\ ns[c].text = rs[c].text
                     /\ ns[c].into = rs[c].into \/ (c = r /\ ns[c].into = None)
                     /\ c \in E => ns[c].status = "received"
                     /\ c \notin E => ns[c] = rs[c]
                     /\ c # r => ns[c].tool = rs[c].tool
                     /\ rs[c].into = r /\ rs[c].status # "done" => c \in E
  BY DEF Reopens, Family
<1>2. r \in E
  BY DEF Family
<1> HIDE DEF E
<1>3. \A m : Known(ns, m) <=> Known(rs, m)
  BY <1>1 DEF Known
<1>4. \A q \in ob : q \in Row /\ q # None /\ ns[q].into = None
  <2> SUFFICES ASSUME NEW q \in ob PROVE q \in Row /\ q # None /\ ns[q].into = None
    OBVIOUS
  <2>1. q \in Row /\ rs[q].into = None
    BY DEF Durable
  <2>2. q # None
    BY <2>1, RowNumbers
  <2>3. ns[q].into = rs[q].into \/ ns[q].into = None
    BY <1>1, <2>1
  <2> QED
    BY <2>1, <2>2, <2>3
<1>5. ASSUME NEW q \in ob, NEW c \in Row, Home(ns, c, q)
      PROVE  ns[c].text \subseteq fine
  <2>1. Home(rs, c, q)
    BY <1>1, <1>4, <1>5 DEF Home
  <2> QED
    BY <1>1, <2>1 DEF Durable
<1>6. ASSUME NEW c \in Row, Owes(ns, c), NEW m \in ns[c].text, m \in act \ text
      PROVE  m \in ast \/ ns[Primary(ns, c)].tool
  <2>1. c \notin E
    BY <1>1, <1>6 DEF E
  <2>2. ns[c] = rs[c] /\ Owes(rs, c) /\ m \in rs[c].text /\ Primary(ns, c) = Primary(rs, c)
    BY <1>1, <1>6, <2>1 DEF Owes, Primary
  <2>3. Primary(rs, c) \in Row
    BY RowFields DEF Primary
  <2>4. Primary(rs, c) # r
    BY <1>1, <1>2, <2>1, <2>2 DEF Primary, Owes
  <2> QED
    BY <1>1, <1>6, <2>2, <2>3, <2>4 DEF Durable
<1>7. ASSUME NEW c \in Row, NEW m \in ns[c].text, m \in rep
      PROVE  m \in again \cup text \/ c \in ob \/ ns[c].into \in ob
  <2>1. CASE c \in E
    BY <1>1, <1>7, <2>1 DEF E
  <2>2. CASE c \notin E
    BY <1>1, <1>7, <2>2 DEF Durable
  <2> QED
    BY <2>1, <2>2
<1>8. \A c \in Row : ns[c].status = "done" => ns[c].text = {}
  BY <1>1 DEF Durable
<1>9. \A c, s \in Row : \A m \in ns[c].text : m \in ns[s].text => c = s
  BY <1>1 DEF Durable
<1>10. \A c \in Row : \A m \in ns[c].text : Known(ns, m)
  BY <1>1, <1>3 DEF Durable
<1>11. \A m \in (act \ text) \cup rep : Known(ns, m)
  BY <1>3 DEF Durable
<1> QED
  BY <1>4, <1>5, <1>6, <1>7, <1>8, <1>9, <1>10, <1>11 DEF Durable

\* Reopening rows loses no text.
LEMMA ReopensLost ==
    ASSUME NEW rs, NEW ns, NEW r \in Row, Reopens(rs, ns, Family(rs, r), r), NEW fine, NoneLost(rs, fine)
    PROVE  NoneLost(ns, fine)
<1>1. \A c \in Row : ns[c].key = rs[c].key /\ ns[c].text = rs[c].text
  BY DEF Reopens, Family
<1> QED
  BY <1>1 DEF NoneLost, Known

\* Reopened rows were settled, so they run with no task of the lane.
LEMMA ReopensLane ==
    ASSUME NEW rs \in Table, Tree(rs), NEW r \in Row,
           \A c \in Family(rs, r) : rs[c].status \in {"dead", "interrupted"},
           NEW ns, Reopens(rs, ns, Family(rs, r), r),
           NEW in, NEW qu, NEW tn, NEW act, NEW ast, LaneText(rs, in, qu, tn, act, ast),
           \A p : LaneRow(in, qu, tn, p) => p \in Row /\ Owes(rs, p)
    PROVE  LaneText(ns, in, qu, tn, act, ast)
<1>1. \A c \in Row : /\ ns[c].key = rs[c].key /\ ns[c].text = rs[c].text
                     /\ ns[c].into = rs[c].into \/ (c = r /\ ns[c].into = None)
  BY DEF Reopens, Family
<1>2. rs[r].status \in {"dead", "interrupted"}
  BY DEF Family
<1>3. \A m : Known(ns, m) <=> Known(rs, m)
  BY <1>1 DEF Known
<1>4. ASSUME NEW p, LaneRow(in, qu, tn, p), NEW c \in Row
      PROVE  Home(ns, c, p) <=> Home(rs, c, p)
  <2>1. p \in Row /\ p # None /\ Owes(rs, p)
    BY <1>4, RowNumbers
  <2>2. rs[r].into # p
    BY <1>2, <2>1 DEF Tree, Owes
  <2> QED
    BY <1>1, <2>1, <2>2 DEF Home
<1>5. ASSUME NEW t, LaneRow(in, qu, tn, t.row), TaskOK(rs, t, act, ast)
      PROVE  TaskOK(ns, t, act, ast)
  <2>1. \A m : Carried(ns, t.row, m) <=> Carried(rs, t.row, m)
    BY <1>1, <1>4, <1>5 DEF Carried
  <2> QED
    BY <1>3, <1>5, <2>1 DEF TaskOK
<1>6. ASSUME NEW t, LaneRow(in, qu, tn, t.row), UnreadOK(rs, t, act, ast)
      PROVE  UnreadOK(ns, t, act, ast)
  BY <1>1, <1>3, <1>6 DEF UnreadOK
<1>7. ASSUME tn.stage # "idle", TurnOK(rs, tn, act, ast)
      PROVE  TurnOK(ns, tn, act, ast)
  <2>1. LaneRow(in, qu, tn, tn.row)
    BY <1>7 DEF LaneRow
  <2> QED
    BY <1>1, <1>3, <1>4, <1>7, <2>1 DEF TurnOK
<1> QED
  BY <1>5, <1>6, <1>7 DEF LaneText, LaneRow

-----------------------------------------------------------------------------
(* The lane's tasks and their text, whatever the table is.                 *)

\* What HeldInv says of the rows and of who holds them.
Sound(rs, ob, o, k, in, qu, tn) ==
    /\ Form(rs, ob, o) /\ Budget(rs, k)
    /\ TasksHeld(rs, ob, o, in, qu, tn) /\ TurnHeld(rs, o, k, tn)
    /\ tn.stage = "idle" => tn.unread = <<>>

\* What TextInv says of them.
Texts(rs, ob, in, qu, tn, act, ast, rep, again, fine) ==
    /\ Durable(rs, ob, act, ast, rep, again, fine)
    /\ NoneLost(rs, fine)
    /\ LaneText(rs, in, qu, tn, act, ast)

\* What follows of the rows and of the lane's.
LEMMA SoundFacts ==
    ASSUME NEW rs, NEW ob, NEW o, NEW k, NEW in, NEW qu, NEW tn, Sound(rs, ob, o, k, in, qu, tn)
    PROVE  /\ rs \in Table /\ Shape(rs) /\ Tree(rs) /\ Obligations(rs, ob)
           /\ \A p : LaneRow(in, qu, tn, p) => p \in Row /\ Owes(rs, p)
<1>1. \A p : LaneRow(in, qu, tn, p) => p \in Row /\ Owes(rs, p)
  BY LaneOwed DEF Sound
<1> QED
  BY <1>1 DEF Sound, Form, Shape

\* Both invariants, and the types of the texts.
LEMMA TextFacts ==
    ASSUME HeldInv, TextInv
    PROVE  /\ Sound(rows, obliged, owner, kills, inbox, queue, turn)
           /\ Texts(rows, obliged, inbox, queue, turn, acted, astray, replied, asked \cup astray, Fine)
           /\ acted \cup replied \subseteq Message
           /\ \A c \in inbox : c.text \subseteq Message
           /\ \A i \in 1..Len(queue) : queue[i].text \subseteq Message
           /\ \A i \in 1..Len(turn.unread) : turn.unread[i].text \subseteq Message
           /\ turn.text \subseteq Message
<1>1. /\ Form(rows, obliged, owner) /\ Budget(rows, kills)
      /\ turn.stage = "idle" => turn.unread = <<>>
      /\ turn.unread \in Seq(Task) /\ queue \in Seq(Task)
      /\ \A c \in inbox : c \in Call
  BY HeldFacts
<1>2. Sound(rows, obliged, owner, kills, inbox, queue, turn)
  BY <1>1 DEF Sound, HeldInv
<1>3. Texts(rows, obliged, inbox, queue, turn, acted, astray, replied, asked \cup astray, Fine)
  BY DEF Texts, TextInv
<1>4. \A i \in 1..Len(queue) : queue[i].text \subseteq Message
  <2>1. \A i \in 1..Len(queue) : queue[i] \in Task
    BY <1>1
  <2> QED
    BY <2>1 DEF Task
<1>5. \A i \in 1..Len(turn.unread) : turn.unread[i].text \subseteq Message
  <2>1. \A i \in 1..Len(turn.unread) : turn.unread[i] \in Task
    BY <1>1
  <2> QED
    BY <2>1 DEF Task
<1>6. turn.text \subseteq Message /\ acted \cup replied \subseteq Message
  BY DEF HeldInv, TypeOK, Turn
<1>7. \A c \in inbox : c.text \subseteq Message
  BY <1>1 DEF Call
<1> QED
  BY <1>2, <1>3, <1>4, <1>5, <1>6, <1>7

\* What goes with a task's row is the task's text, but for astray messages.
LEMMA FamilyText ==
    ASSUME NEW rs \in Table, NEW act, NEW ast, NEW t, TaskOK(rs, t, act, ast), t.row \in Row,
           NEW e \in Family(rs, t.row)
    PROVE  rs[e].text \subseteq t.text \cup ast
<1>1. e \in Row /\ Home(rs, e, t.row)
  BY DEF Family, Home
<1>2. rs[e].text \subseteq Message
  BY <1>1, RowFields
<1> QED
  BY <1>1, <1>2 DEF TaskOK, Carried

\* A row that is in no turn is closed.
LEMMA MarkDoneText ==
    ASSUME NEW rs, NEW ob, NEW o, NEW k, NEW in, NEW qu, NEW tn, Sound(rs, ob, o, k, in, qu, tn),
           NEW act, NEW ast, NEW rep, NEW again, NEW fine, NEW more,
           Texts(rs, ob, in, qu, tn, act, ast, rep, again, fine), fine \subseteq more,
           NEW r \in Row, Owes(rs, r), rs[r].into = None, Clear(in, qu, tn, {r}),
           \A e \in Family(rs, r) : rs[e].text \subseteq more
    PROVE  Texts(MarkDone(rs, r), ob, in, qu, tn, act, ast, rep, again, more)
<1> DEFINE ns == MarkDone(rs, r)
           E == Family(rs, r)
<1>1. rs \in Table /\ Tree(rs)
  BY SoundFacts
<1>2. Settles(rs, ns, E, "done") /\ E \subseteq Row
  BY <1>1, MarkDoneSettles DEF Family
<1>3. Away(rs, E, in, qu, tn)
  BY FamilyAway DEF Sound
<1>4. Durable(rs, ob, act, ast, rep, again, fine) /\ NoneLost(rs, fine) /\ LaneText(rs, in, qu, tn, act, ast)
  BY DEF Texts
<1>5. \A e \in E : rs[e].text \subseteq more
  OBVIOUS
<1> HIDE DEF ns, E
<1>6. Durable(ns, ob, act, ast, rep, again, fine)
  BY <1>1, <1>2, <1>4, DoneDurable
<1>7. Durable(ns, ob, act, ast, rep, again, more)
  BY <1>6 DEF Durable
<1>8. NoneLost(ns, more)
  BY <1>2, <1>4, <1>5, DoneLost
<1>9. LaneText(ns, in, qu, tn, act, ast)
  BY <1>2, <1>3, <1>4, DoneLane
<1>10. Texts(ns, ob, in, qu, tn, act, ast, rep, again, more)
  BY <1>7, <1>8, <1>9 DEF Texts
<1> QED
  BY <1>10 DEF ns

\* A settled row is closed: what it held is given up.
LEMMA DiscardText ==
    ASSUME NEW rs, NEW ob, NEW o, NEW k, NEW in, NEW qu, NEW tn, Sound(rs, ob, o, k, in, qu, tn),
           NEW act, NEW ast, NEW rep, NEW again, NEW fine, NEW more,
           Texts(rs, ob, in, qu, tn, act, ast, rep, again, fine), fine \subseteq more,
           NEW r \in Row, NEW ns, ns = Discard(rs, r),
           \A e \in Row : ns[e] # rs[e] => rs[e].text \subseteq more
    PROVE  Texts(ns, ob, in, qu, tn, act, ast, rep, again, more)
<1>1. /\ rs \in Table /\ Tree(rs)
      /\ \A p : LaneRow(in, qu, tn, p) => p \in Row /\ Owes(rs, p)
  BY SoundFacts
<1>2. Durable(rs, ob, act, ast, rep, again, fine) /\ NoneLost(rs, fine) /\ LaneText(rs, in, qu, tn, act, ast)
  BY DEF Texts
<1>3. CASE rs[r].status \in {"dead", "interrupted"}
  <2> DEFINE E == Family(rs, r)
  <2>1. Settles(rs, ns, E, "done") /\ E \subseteq Row
    BY <1>1, <1>3, DiscardSettles DEF Family
  <2>2. \A e \in E : rs[e].status \in {"dead", "interrupted"}
    BY <1>1, <1>3, RequeueFields
  <2>3. \A e \in E : rs[e].text \subseteq more
    <3>1. \A e \in E : ns[e].status = "done" /\ e \in Row
      BY <2>1 DEF Settles
    <3>2. \A e \in E : ns[e] # rs[e] /\ e \in Row
      BY <2>2, <3>1
    <3> QED
      BY <3>2
  <2> HIDE DEF E
  <2>4. Away(rs, E, in, qu, tn)
    BY <1>1, <2>1, <2>2, SettledAway
  <2>5. Durable(ns, ob, act, ast, rep, again, fine)
    BY <1>1, <1>2, <2>1, DoneDurable
  <2>6. Durable(ns, ob, act, ast, rep, again, more)
    BY <2>5 DEF Durable
  <2>7. NoneLost(ns, more)
    BY <1>2, <2>1, <2>3, DoneLost
  <2>8. LaneText(ns, in, qu, tn, act, ast)
    BY <1>2, <2>1, <2>4, DoneLane
  <2> QED
    BY <2>6, <2>7, <2>8 DEF Texts
<1>4. CASE rs[r].status \notin {"dead", "interrupted"}
  <2>1. ns = rs
    BY <1>4 DEF Discard
  <2>2. Durable(rs, ob, act, ast, rep, again, more) /\ NoneLost(rs, more)
    BY <1>2 DEF Durable, NoneLost
  <2> QED
    BY <1>2, <2>1, <2>2 DEF Texts
<1> QED
  BY <1>3, <1>4

\* Texts do not change when neither text nor link does.
LEMMA PlainTexts ==
    ASSUME NEW rs, NEW ob, NEW o, NEW k, NEW in, NEW qu, NEW tn, Sound(rs, ob, o, k, in, qu, tn),
           NEW act, NEW ast, NEW rep, NEW again, NEW fine,
           Texts(rs, ob, in, qu, tn, act, ast, rep, again, fine), NEW ns, Plain(rs, ns)
    PROVE  Texts(ns, ob, in, qu, tn, act, ast, rep, again, fine)
<1>1. rs \in Table
  BY SoundFacts
<1>2. TasksHeld(rs, ob, o, in, qu, tn)
  BY DEF Sound
<1>3. Durable(rs, ob, act, ast, rep, again, fine) /\ NoneLost(rs, fine) /\ LaneText(rs, in, qu, tn, act, ast)
  BY DEF Texts
<1>4. Durable(ns, ob, act, ast, rep, again, fine)
  BY <1>1, <1>3, PlainDurable
<1>5. NoneLost(ns, fine)
  BY <1>3, PlainLost
<1>6. LaneText(ns, in, qu, tn, act, ast)
  BY <1>2, <1>3, PlainLane
<1> QED
  BY <1>4, <1>5, <1>6 DEF Texts

\* Rows that are dead-lettered or interrupted keep text and links.
LEMMA SettlesPlain ==
    ASSUME NEW rs, NEW ns, NEW E, E \subseteq Row, NEW to \in {"dead", "interrupted"},
           Settles(rs, ns, E, to)
    PROVE  Plain(rs, ns)
BY DEF Settles, Plain, Owes

\* Status, attempts and claim of an owed row may change, and its tool flag may be set.
LEMMA RewritesPlain ==
    ASSUME NEW rs, NEW ns, NEW r \in Row, NEW st \in {"received", "processing"}, NEW att, NEW ow,
           NEW tl, Owes(rs, r), rs[r].tool => tl, Rewrites(rs, ns, r, st, att, ow, tl)
    PROVE  Plain(rs, ns)
BY DEF Rewrites, Plain, Owes

\* Two such writes in a row.
LEMMA PlainTrans ==
    ASSUME NEW rs, NEW ms, NEW ns, Plain(rs, ms), Plain(ms, ns)
    PROVE  Plain(rs, ns)
BY DEF Plain

\* The end of a turn and what is settled of its text.
LEMMA EndTextMono ==
    ASSUME NEW tn, NEW ph, NEW ob, NEW rep, NEW exc, NEW ast, EndText(tn, ph, ob, rep, exc, ast),
           NEW excb, NEW astb, exc \subseteq excb, ast \subseteq astb
    PROVE  EndText(tn, ph, ob, rep, excb, astb)
BY DEF EndText

\* An idle turn claims nothing of any text.
LEMMA IdleText ==
    ASSUME NEW rs, NEW in, NEW qu, NEW tn, NEW act, NEW ast, LaneText(rs, in, qu, tn, act, ast),
           NEW ph, NEW ob, NEW rep, NEW exc
    PROVE  LaneText(rs, in, qu, Idle, act, ast) /\ EndText(Idle, ph, ob, rep, exc, ast)
<1>1. /\ Idle.stage = "idle" /\ Idle.unread = <<>> /\ ~Idle.aborted /\ ~Idle.answered
      /\ Idle.send = "none"
  BY DEF Idle
<1>2. 1..Len(Idle.unread) = {}
  BY <1>1
<1> QED
  BY <1>1, <1>2 DEF LaneText, EndText

-----------------------------------------------------------------------------
(* Arrival and dispatch.                                                   *)

\* One call less.
LEMMA DropCall ==
    ASSUME NEW rs, NEW ob, NEW o, NEW k, NEW in, NEW qu, NEW tn, Sound(rs, ob, o, k, in, qu, tn),
           NEW act, NEW ast, NEW rep, NEW again, NEW fine,
           Texts(rs, ob, in, qu, tn, act, ast, rep, again, fine), NEW S
    PROVE  /\ Sound(rs, ob, o, k, in \ S, qu, tn)
           /\ Texts(rs, ob, in \ S, qu, tn, act, ast, rep, again, fine)
BY DEF Sound, TasksHeld, Texts, LaneText

\* A task at the end of the queue.
LEMMA AppendLane ==
    ASSUME NEW rs, NEW in, NEW qu \in Seq(Task), NEW tn, NEW act, NEW ast,
           LaneText(rs, in, qu, tn, act, ast), NEW t \in Task, TaskOK(rs, t, act, ast)
    PROVE  LaneText(rs, in, Append(qu, t), tn, act, ast)
<1>1. \A i \in 1..Len(Append(qu, t)) : Append(qu, t)[i] = t \/ (i \in 1..Len(qu) /\ Append(qu, t)[i] = qu[i])
  OBVIOUS
<1> QED
  BY <1>1 DEF LaneText

\* One call more.
LEMMA NewTask ==
    ASSUME NEW rs, NEW in, NEW qu, NEW tn, NEW act, NEW ast, LaneText(rs, in, qu, tn, act, ast),
           NEW t, TaskOK(rs, t, act, ast)
    PROVE  LaneText(rs, in \cup {t}, qu, tn, act, ast)
BY DEF LaneText

\* Closing the interrupted row a message found loses what it gives up, and no more.
LEMMA DiscardedText ==
    ASSUME HeldInv, TextInv, NEW c \in inbox, NEW ns, ns = Discarded(c)
    PROVE  /\ Sound(ns, obliged, owner, kills, inbox, queue, turn)
           /\ Texts(ns, obliged, inbox, queue, turn, acted, astray, replied, asked \cup astray,
                    Fine \cup GivenUp(c))
           /\ \A r \in Row : Owes(rows, r) => ns[r] = rows[r]
<1>1. /\ Sound(rows, obliged, owner, kills, inbox, queue, turn)
      /\ Texts(rows, obliged, inbox, queue, turn, acted, astray, replied, asked \cup astray, Fine)
  BY TextFacts
<1>2. Form(ns, obliged, owner) /\ Budget(ns, kills) /\ Aside(rows, ns, {})
  BY DiscardedKeeps
<1>3. Clear(inbox, queue, turn, {})
  BY DEF Clear
<1>4. TasksHeld(ns, obliged, owner, inbox, queue, turn) /\ TurnHeld(ns, owner, kills, turn)
  BY <1>1, <1>2, <1>3, Undisturbed DEF Sound
<1>5. Sound(ns, obliged, owner, kills, inbox, queue, turn)
  BY <1>1, <1>2, <1>4 DEF Sound
<1>6. \A r \in Row : Owes(rows, r) => ns[r] = rows[r]
  BY <1>2 DEF Aside
<1>7. Texts(ns, obliged, inbox, queue, turn, acted, astray, replied, asked \cup astray,
            Fine \cup GivenUp(c))
  <2> DEFINE more == Fine \cup GivenUp(c)
  <2>1. \A e \in Row : ns[e] # rows[e] => rows[e].text \subseteq more
    BY DEF GivenUp
  <2>2. Fine \subseteq more
    OBVIOUS
  <2> HIDE DEF more
  <2>3. CASE c.intr = None
    <3>1. ns = rows
      BY <2>3 DEF Discarded
    <3>2. Durable(rows, obliged, acted, astray, replied, asked \cup astray, more) /\ NoneLost(rows, more)
      BY <1>1, <2>2 DEF Texts, Durable, NoneLost
    <3>3. Texts(ns, obliged, inbox, queue, turn, acted, astray, replied, asked \cup astray, more)
      BY <1>1, <3>1, <3>2 DEF Texts
    <3> QED
      BY <3>3 DEF more
  <2>4. CASE c.intr # None
    <3>1. c.intr \in Row
      BY <2>4, HeldFacts
    <3>2. ns = Discard(rows, c.intr)
      BY <2>4 DEF Discarded
    <3>3. Texts(ns, obliged, inbox, queue, turn, acted, astray, replied, asked \cup astray, more)
      BY <1>1, <2>1, <2>2, <3>1, <3>2, DiscardText
    <3> QED
      BY <3>3 DEF more
  <2> QED
    BY <2>3, <2>4
<1> QED
  BY <1>5, <1>6, <1>7

\* A queued task keeps row and text of its call.
LEMMA EnqueueTurnText ==
    ASSUME HeldInv, TextInv, NEW c \in inbox, EnqueueTurn(c)
    PROVE  TextInv'
<1> DEFINE t == [row |-> c.row, text |-> c.text]
           fine == Fine \cup GivenUp(c)
<1>1. /\ Sound(rows', obliged, owner, kills, inbox, queue, turn)
      /\ Texts(rows', obliged, inbox, queue, turn, acted, astray, replied, asked \cup astray, fine)
  BY DiscardedText DEF EnqueueTurn
<1>2. fine = Fine'
  BY DEF EnqueueTurn, Fine
<1> HIDE DEF fine
<1>3. /\ Durable(rows', obliged, acted, astray, replied, asked \cup astray, fine) /\ NoneLost(rows', fine)
      /\ LaneText(rows', inbox, queue, turn, acted, astray)
  BY <1>1 DEF Texts
<1>4. c \in Call /\ queue \in Seq(Task)
  BY HeldFacts
<1>5. t \in Task
  BY <1>4 DEF Call, Task
<1>6. TaskOK(rows', t, acted, astray)
  BY <1>3 DEF LaneText, TaskOK
<1> HIDE DEF t
<1>7. LaneText(rows', inbox, Append(queue, t), turn, acted, astray)
  BY <1>3, <1>4, <1>5, <1>6, AppendLane
<1>8. LaneText(rows', inbox', queue', turn, acted, astray)
  <2>1. queue' = Append(queue, t) /\ inbox' \subseteq inbox
    BY DEF EnqueueTurn, t
  <2> QED
    BY <1>7, <2>1 DEF LaneText
<1>9. EndText(turn, phase, obliged, replied, excused', astray)
  BY EndTextMono DEF TextInv, EnqueueTurn
<1>10. UNCHANGED <<obliged, acted, astray, replied, asked, turn, phase>>
  BY DEF EnqueueTurn
<1> QED
  BY <1>2, <1>3, <1>8, <1>9, <1>10 DEF TextInv

\* A consumed message's row closes, and all its text with it: it is excused or astray.
LEMMA ConsumeText ==
    ASSUME HeldInv, TextInv, NEW c \in inbox, Consume(c)
    PROVE  TextInv'
<1> DEFINE in == inbox \ {c}
<1>1. UNCHANGED <<obliged, acted, astray, replied, asked, turn, phase, queue>> /\ inbox' = in
  BY DEF Consume
<1>2. /\ Clear(in, queue, turn, {c.row}) /\ c.row \in Row /\ Owes(rows, c.row)
      /\ rows[c.row].into = None
  BY InboxClear DEF HeldRow, Owes
<1> HIDE DEF in
<1>3. ASSUME NEW rs, NEW fine, Sound(rs, obliged, owner, kills, inbox, queue, turn),
             Texts(rs, obliged, inbox, queue, turn, acted, astray, replied, asked \cup astray, fine),
             rs[c.row] = rows[c.row], fine \cup c.text \subseteq Fine', Fine \subseteq fine
      PROVE  Texts(MarkDone(rs, c.row), obliged, in, queue, turn, acted, astray, replied,
                   asked \cup astray, Fine')
  <2>1. /\ Sound(rs, obliged, owner, kills, in, queue, turn)
        /\ Texts(rs, obliged, in, queue, turn, acted, astray, replied, asked \cup astray, fine)
    BY <1>3, DropCall DEF in
  <2>2. Owes(rs, c.row) /\ rs[c.row].into = None
    BY <1>2, <1>3 DEF Owes
  <2>3. rs \in Table
    BY <1>3, SoundFacts
  <2>4. TaskOK(rs, c, acted, astray)
    BY <1>3 DEF Texts, LaneText
  <2>5. \A e \in Family(rs, c.row) : rs[e].text \subseteq c.text \cup astray
    BY <1>2, <2>3, <2>4, FamilyText
  <2>6. astray \subseteq Fine
    BY DEF Fine
  <2>7. fine \subseteq Fine' /\ \A e \in Family(rs, c.row) : rs[e].text \subseteq Fine'
    BY <1>3, <2>5, <2>6
  <2> QED
    BY <1>2, <2>1, <2>2, <2>7, MarkDoneText
<1>4. Texts(rows', obliged, in, queue, turn, acted, astray, replied, asked \cup astray, Fine')
  <2>1. CASE /\ rows' = MarkDone(Discarded(c), c.row)
             /\ excused' = excused \cup GivenUp(c) \cup c.text
    <3> DEFINE fine == Fine \cup GivenUp(c)
               ns == Discarded(c)
    <3>1. fine \cup c.text \subseteq Fine' /\ Fine \subseteq fine
      BY <2>1, <1>1 DEF Fine
    <3>2. /\ Sound(ns, obliged, owner, kills, inbox, queue, turn)
          /\ Texts(ns, obliged, inbox, queue, turn, acted, astray, replied, asked \cup astray, fine)
          /\ \A r \in Row : Owes(rows, r) => ns[r] = rows[r]
      BY DiscardedText
    <3> HIDE DEF fine, ns
    <3>3. Texts(MarkDone(ns, c.row), obliged, in, queue, turn, acted, astray, replied,
                asked \cup astray, Fine')
      BY <1>2, <1>3, <3>1, <3>2
    <3> QED
      BY <2>1, <3>3 DEF ns
  <2>2. CASE rows' = MarkDone(rows, c.row) /\ excused' = excused \cup c.text
    <3>1. Fine \cup c.text \subseteq Fine'
      BY <2>2, <1>1 DEF Fine
    <3>2. /\ Sound(rows, obliged, owner, kills, inbox, queue, turn)
          /\ Texts(rows, obliged, inbox, queue, turn, acted, astray, replied, asked \cup astray, Fine)
      BY TextFacts
    <3> QED
      BY <1>3, <2>2, <3>1, <3>2
  <2> QED
    BY <2>1, <2>2 DEF Consume
<1>5. excused \subseteq excused'
  BY DEF Consume
<1>6. EndText(turn, phase, obliged, replied, excused', astray)
  BY <1>5, EndTextMono DEF TextInv
<1> QED
  BY <1>1, <1>4, <1>6 DEF TextInv, Texts

\* A message arrives in a row of its own.
LEMMA ArrivalText ==
    ASSUME HeldInv, TextInv, NEW m \in Message, ~Accepted(m), NextRow(rows) \in Row, NEW w \in Nat,
           NEW ns, ns = Insert(rows, m, {m}, w), NEW r, r = NextRow(rows)
    PROVE  /\ Texts(ns, obliged, inbox, queue, turn, acted, astray, replied, asked \cup astray, Fine)
           /\ \A x : Carried(ns, r, x) <=> x \in {m}
           /\ Known(ns, m) /\ m \notin acted
<1>1. /\ rows \in Table /\ Shape(rows) /\ Tree(rows) /\ Obligations(rows, obliged)
      /\ \A p : LaneRow(inbox, queue, turn, p) => p \in Row /\ Owes(rows, p)
  BY TextFacts, SoundFacts
<1>2. /\ Durable(rows, obliged, acted, astray, replied, asked \cup astray, Fine)
      /\ NoneLost(rows, Fine) /\ LaneText(rows, inbox, queue, turn, acted, astray)
  BY DEF TextInv
<1>3. /\ acted \cup replied \subseteq Message /\ \A c \in inbox : c.text \subseteq Message
      /\ \A i \in 1..Len(queue) : queue[i].text \subseteq Message
      /\ \A i \in 1..Len(turn.unread) : turn.unread[i].text \subseteq Message
      /\ turn.text \subseteq Message
  BY TextFacts
<1>4. ~Known(rows, m)
  BY DEF Known, Accepted
<1>5. Inserts(rows, ns, r, m, {m}, w)
  BY <1>1, InsertFields
<1>6. \A x \in {m} : x = m \/ Known(rows, x)
  OBVIOUS
<1>7. \A s \in Row : \A x \in {m} : x \notin rows[s].text
  BY <1>2, <1>4 DEF Durable
<1>8. m \notin acted /\ m \notin replied
  BY <1>2, <1>4 DEF Durable
<1>9. \A x \in {m} : (x \in acted => x \in astray) /\ (x \in replied => x \in asked \cup astray)
  BY <1>8
<1>10. {m} \subseteq Message
  OBVIOUS
<1>11. Durable(ns, obliged, acted, astray, replied, asked \cup astray, Fine)
  BY <1>1, <1>2, <1>3, <1>5, <1>6, <1>7, <1>9, <1>10, InsertDurable
<1>12. NoneLost(ns, Fine)
  <2>1. NoneLost(rows, Fine \cup {m})
    BY <1>2 DEF NoneLost
  <2>2. m \in {m} \/ m \notin Message
    OBVIOUS
  <2> QED
    BY <1>1, <1>5, <2>1, <2>2, InsertLost
<1>13. /\ LaneText(ns, inbox, queue, turn, acted, astray)
       /\ \A x : Carried(ns, r, x) <=> x \in {m}
  <2> DEFINE text == {m}
  <2>1. Inserts(rows, ns, r, m, text, w)
    BY <1>5
  <2> HIDE DEF text
  <2>2. LaneText(ns, inbox, queue, turn, acted, astray)
    BY <1>1, <1>2, <1>3, <2>1, InsertLane
  <2>3. \A x : Carried(ns, r, x) <=> x \in text
    BY <1>1, <1>2, <1>3, <2>1, InsertLane
  <2> QED
    BY <2>2, <2>3 DEF text
<1>14. Known(ns, m)
  BY <1>5 DEF Inserts, Known, NoRow
<1> QED
  BY <1>8, <1>11, <1>12, <1>13, <1>14 DEF Texts

\* A received message is in the row inserted for it.
LEMMA ReceiveText ==
    ASSUME HeldInv, TextInv, NEW m \in Message, Receive(m)
    PROVE  TextInv'
<1> DEFINE r == NextRow(rows)
           w == IF replaying THEN None ELSE owner
<1>1. /\ ~Accepted(m) /\ r \in Row /\ rows' = Insert(rows, m, {m}, w)
      /\ UNCHANGED <<obliged, acted, astray, replied, asked, excused, turn, phase, queue>>
  BY DEF Receive, history
<1>2. w \in Nat
  BY RowNumbers, HeldFacts
<1> HIDE DEF w
<1>3. /\ Texts(rows', obliged, inbox, queue, turn, acted, astray, replied, asked \cup astray, Fine)
      /\ \A x : Carried(rows', r, x) <=> x \in {m}
      /\ Known(rows', m) /\ m \notin acted
  BY <1>1, <1>2, ArrivalText
<1> HIDE DEF r
<1>4. LaneText(rows', inbox', queue, turn, acted, astray)
  <2>1. CASE inbox' = inbox
    BY <1>3, <2>1 DEF Texts
  <2>2. CASE inbox' # inbox
    <3>1. PICK i : inbox' = inbox \cup {[row |-> r, text |-> {m}, intr |-> i, loop |-> FALSE]}
      BY <2>2 DEF Receive, r
    <3> DEFINE t == [row |-> r, text |-> {m}, intr |-> i, loop |-> FALSE]
    <3>2. t.row = r /\ t.text = {m}
      OBVIOUS
    <3> HIDE DEF t
    <3>3. TaskOK(rows', t, acted, astray)
      BY <1>3, <3>2 DEF TaskOK
    <3>4. LaneText(rows', inbox \cup {t}, queue, turn, acted, astray)
      BY <1>3, <3>3, NewTask DEF Texts
    <3> QED
      BY <3>1, <3>4 DEF t
  <2> QED
    BY <2>1, <2>2
<1> QED
  BY <1>1, <1>3, <1>4 DEF TextInv, Texts, Fine

\* So it is if the process is killed inside acceptInbound.
LEMMA CrashInAcceptText ==
    ASSUME HeldInv, TextInv, NEW m \in Message, CrashInAccept(m)
    PROVE  TextInv'
<1>1. /\ ~Accepted(m) /\ NextRow(rows) \in Row /\ rows' = Insert(rows, m, {m}, owner)
      /\ UNCHANGED <<obliged, acted, astray, replied, asked, excused>>
      /\ inbox' = {} /\ queue' = <<>> /\ turn' = Idle /\ owner \in Nat
  BY HeldFacts DEF CrashInAccept
<1>2. Texts(rows', obliged, inbox, queue, turn, acted, astray, replied, asked \cup astray, Fine)
  <2> DEFINE r == NextRow(rows)
             ns == rows'
             w == owner
  <2>1. /\ r = NextRow(rows) /\ r \in Row /\ ns = Insert(rows, m, {m}, w) /\ w \in Nat
        /\ ~Accepted(m)
    BY <1>1
  <2> HIDE DEF r, ns, w
  <2>2. Texts(ns, obliged, inbox, queue, turn, acted, astray, replied, asked \cup astray, Fine)
    BY <2>1, ArrivalText, SMTT(60)
  <2> QED
    BY <2>2 DEF ns
<1>3. LaneText(rows', {}, <<>>, turn, acted, astray)
  <2>1. 1..Len(<<>>) = {}
    OBVIOUS
  <2> QED
    BY <1>2, <2>1 DEF Texts, LaneText
<1>4. /\ LaneText(rows', {}, <<>>, Idle, acted, astray)
      /\ EndText(Idle, phase', obliged, replied, excused, astray)
  BY <1>3, IdleText
<1> QED
  BY <1>1, <1>2, <1>4 DEF TextInv, Texts, Fine

\* The folded text of a row is what goes with it.
LEMMA FoldedFamily ==
    ASSUME NEW rs \in Table, Tree(rs), NEW r \in Row, Owes(rs, r) \/ rs[r].status = "interrupted",
           NEW m
    PROVE  m \in FoldedText(rs, r) <=> \E e \in Family(rs, r) : m \in rs[e].text
<1> DEFINE A == Absorbed(rs, r, {"received", "interrupted"})
<1>1. r \in Family(rs, r)
  BY DEF Family
<1>2. A = Family(rs, r) \ {r}
  <2>1. CASE Owes(rs, r)
    BY <2>1, FamilyStatus
  <2>2. CASE rs[r].status = "interrupted"
    <3>1. rs[r].into # r
      BY FamilyStatus
    <3>2. ASSUME NEW c \in Row, rs[c].into = r, rs[c].status # "done"
          PROVE  rs[c].status = "interrupted"
      <4>1. rs[c].status \in Statuses /\ r # None
        BY RowFields, RowNumbers
      <4> QED
        BY <2>2, <3>2, <4>1 DEF Tree, Owes, Statuses
    <3> QED
      BY <3>1, <3>2 DEF Absorbed, Family
  <2> QED
    BY <2>1, <2>2
<1>3. m \in FoldedText(rs, r) <=> m \in rs[r].text \/ \E e \in A : m \in rs[e].text
  BY DEF FoldedText
<1> HIDE DEF A
<1> QED
  BY <1>1, <1>2, <1>3

\* Messages that may be answered again once those of `text` are asked for.
Anew(text) == (asked \cup astray) \cup text

\* The row r carries the text, and nothing else.
Holds(rs, r, text) ==
    /\ rs[r].into = None
    /\ \A m : Carried(rs, r, m) <=> m \in text
    /\ \A m \in text : Known(rs, m)

\* What a retry has written before it closes its own row.
LEMMA RetriedText ==
    ASSUME HeldInv, TextInv, NEW c \in inbox, NEW i \in Row, rows[i].status = "interrupted",
           NextRow(rows) \in Row,
           NEW text, text = FoldedText(rows, i), NEW fresh, fresh = NextRow(rows),
           NEW ms, ms = Insert(Replaced(rows, i), NoMessage, text, owner)
    PROVE  /\ Sound(ms, obliged, owner, kills, inbox \ {c}, queue, turn)
           /\ Texts(ms, obliged, inbox, queue, turn, acted \ text, astray, replied, Anew(text), Fine)
           /\ HeldRow(ms, obliged, owner, fresh) /\ Holds(ms, fresh, text)
           /\ Owes(ms, c.row) /\ ms[c.row].into = None /\ c.row # fresh
<1> DEFINE os == Replaced(rows, i)
           E  == Family(rows, i)
           act == acted \ text
           again == Anew(text)
<1>1. /\ rows \in Table /\ Tree(rows) /\ owner \in Nat /\ Form(rows, obliged, owner)
      /\ Budget(rows, kills)
      /\ \A p : LaneRow(inbox, queue, turn, p) => p \in Row /\ Owes(rows, p)
  BY HeldFacts, TextFacts, SoundFacts
<1>2. Form(os, obliged, owner) /\ Budget(os, kills) /\ Aside(rows, os, {}) /\ SameAbsent(rows, os)
  BY <1>1, ReplacedKeeps
<1>3. Settles(rows, os, E, "done") /\ E \subseteq Row
  BY <1>1, ReplacedSettles DEF Family
<1>4. \A e \in E : rows[e].status \in {"dead", "interrupted"}
  BY <1>1, RequeueFields
<1>5. \A m : m \in text <=> \E e \in E : m \in rows[e].text
  BY <1>1, FoldedFamily
<1>6. text \in SUBSET Message
  BY <1>1, FoldedTextType
<1>7. ms = Insert(os, NoMessage, text, owner)
  OBVIOUS
<1> HIDE DEF os, E
<1>8. Shape(os) /\ Tree(os) /\ Obligations(os, obliged) /\ NextRow(os) = fresh /\ fresh \in Row
  BY <1>2 DEF Form, NextRow, Used, SameAbsent
<1>9. Inserts(os, ms, fresh, NoMessage, text, owner) /\ Used(os) = 1..(fresh - 1)
  <2>1. NextRow(os) \in Row
    BY <1>8
  <2>2. NoMessage \in Message \cup {NoMessage}
    OBVIOUS
  <2> QED
    BY <1>1, <1>6, <1>7, <1>8, <2>1, <2>2, InsertFields
<1>10. /\ Clear(inbox \ {c}, queue, turn, {c.row})
       /\ TasksHeld(rows, obliged, owner, inbox \ {c}, queue, turn)
       /\ HeldRow(rows, obliged, owner, c.row) /\ rows[c.row].into = None
       /\ TurnHeld(rows, owner, kills, turn)
  BY InboxClear DEF HeldInv
<1>11. TasksHeld(os, obliged, owner, inbox \ {c}, queue, turn) /\ TurnHeld(os, owner, kills, turn)
  <2>1. Clear(inbox \ {c}, queue, turn, {})
    BY DEF Clear
  <2> QED
    BY <1>2, <1>10, <2>1, Undisturbed
<1>12. /\ Form(ms, obliged, owner) /\ Budget(ms, kills)
       /\ TasksHeld(ms, obliged, owner, inbox \ {c}, queue, turn) /\ TurnHeld(ms, owner, kills, turn)
       /\ HeldRow(ms, obliged, owner, fresh) /\ ms[fresh].into = None
  <2>1. owner \in 0..owner
    BY <1>1
  <2> DEFINE in == inbox \ {c}
  <2>2. TasksHeld(os, obliged, owner, in, queue, turn) /\ TurnHeld(os, owner, kills, turn)
    BY <1>11
  <2> HIDE DEF in
  <2>3. /\ Form(ms, obliged, owner) /\ Budget(ms, kills)
        /\ TasksHeld(ms, obliged, owner, in, queue, turn) /\ TurnHeld(ms, owner, kills, turn)
    BY <1>1, <1>2, <1>9, <2>1, <2>2, FreshHeld
  <2>4. HeldRow(ms, obliged, owner, fresh) /\ ms[fresh].into = None
    BY <1>8, <1>9, TurnsAssumption DEF Inserts, NoRow, HeldRow, Obligations
  <2> QED
    BY <2>3, <2>4 DEF in
<1>13. Owes(ms, c.row) /\ ms[c.row].into = None /\ c.row # fresh
  BY <1>2, <1>9, <1>10 DEF HeldRow, Owes, Aside, Inserts
<1>14. Sound(ms, obliged, owner, kills, inbox \ {c}, queue, turn)
  <2>1. turn.stage = "idle" => turn.unread = <<>>
    BY HeldFacts
  <2> QED
    BY <1>12, <2>1 DEF Sound
<1>15. /\ Durable(rows, obliged, acted, astray, replied, asked \cup astray, Fine)
       /\ NoneLost(rows, Fine) /\ LaneText(rows, inbox, queue, turn, acted, astray)
  BY DEF TextInv
<1>16. Durable(os, obliged, act, astray, replied, again, Fine)
  <2>1. Durable(os, obliged, acted, astray, replied, asked \cup astray, Fine)
    BY <1>1, <1>3, <1>15, DoneDurable
  <2>2. act \subseteq acted /\ asked \cup astray \subseteq again
    BY DEF Anew
  <2> HIDE DEF act, again
  <2> QED
    BY <2>1, <2>2 DEF Durable
<1>17. NoneLost(os, Fine \cup text)
  <2>1. \A e \in E : rows[e].text \subseteq Fine \cup text
    BY <1>5
  <2>2. Fine \subseteq Fine \cup text
    OBVIOUS
  <2> DEFINE more == Fine \cup text
  <2> HIDE DEF more
  <2>3. NoneLost(os, more)
    BY <1>3, <1>15, <2>1, <2>2, DoneLost DEF more
  <2> QED
    BY <2>3 DEF more
<1>18. LaneText(os, inbox, queue, turn, act, astray)
  <2>1. Away(rows, E, inbox, queue, turn)
    BY <1>1, <1>3, <1>4, SettledAway
  <2>2. LaneText(os, inbox, queue, turn, acted, astray)
    BY <1>3, <1>15, <2>1, DoneLane
  <2>3. act \subseteq acted /\ astray \subseteq astray
    OBVIOUS
  <2> HIDE DEF act
  <2> QED
    BY <2>2, <2>3, LaneMono
<1>19. \A m \in text : Known(os, m)
  <2>1. \A r \in Row : os[r].key = rows[r].key
    BY <1>3 DEF Settles
  <2> QED
    BY <1>3, <1>5, <1>15, <2>1 DEF Durable, Known
<1>20. \A s \in Row : \A m \in text : m \notin os[s].text
  <2>1. ASSUME NEW s \in Row, NEW m \in text, m \in os[s].text
        PROVE  FALSE
    <3>1. PICK e \in E : m \in rows[e].text
      BY <1>5
    <3>2. s \notin E /\ m \in rows[s].text
      BY <1>3, <2>1 DEF Settles
    <3> QED
      BY <1>3, <1>15, <3>1, <3>2 DEF Durable
  <2> QED
    BY <2>1
<1>21. /\ acted \cup replied \subseteq Message /\ \A d \in inbox : d.text \subseteq Message
       /\ \A j \in 1..Len(queue) : queue[j].text \subseteq Message
       /\ \A j \in 1..Len(turn.unread) : turn.unread[j].text \subseteq Message
       /\ turn.text \subseteq Message
  BY TextFacts
<1>22. /\ \A m \in text : m = NoMessage \/ Known(os, m)
       /\ \A m \in text : (m \in act => m \in astray) /\ (m \in replied => m \in again)
       /\ text \subseteq Message /\ act \cup replied \subseteq Message
  BY <1>6, <1>19, <1>21 DEF Anew
<1> HIDE DEF act, again
<1>23. Durable(ms, obliged, act, astray, replied, again, Fine)
  BY <1>8, <1>9, <1>16, <1>20, <1>22, InsertDurable
<1>24. NoneLost(ms, Fine)
  BY <1>8, <1>9, <1>17, InsertLost, SpoolAssumption
<1>25. \A p : LaneRow(inbox, queue, turn, p) => p \in Row /\ Owes(os, p)
  BY <1>1, <1>2 DEF Aside, Owes
<1>26. LaneText(ms, inbox, queue, turn, act, astray)
  BY <1>8, <1>9, <1>18, <1>21, <1>25, InsertLane
<1>27. \A m : Carried(ms, fresh, m) <=> m \in text
  BY <1>8, <1>9, <1>18, <1>21, <1>25, InsertLane
<1>28. \A m \in text : Known(ms, m)
  <2>1. fresh \in Row /\ ms[fresh].text = text
    BY <1>9 DEF Inserts, NoRow
  <2> QED
    BY <1>23, <2>1 DEF Durable
<1>29. Texts(ms, obliged, inbox, queue, turn, act, astray, replied, again, Fine)
  BY <1>23, <1>24, <1>26 DEF Texts
<1> QED
  BY <1>12, <1>13, <1>14, <1>27, <1>28, <1>29 DEF act, again, Holds

\* The interrupted row's text, and that folded into it, moves to the retry's fresh row, asked
\* for anew; the retry's own row closes.
LEMMA RetryText ==
    ASSUME HeldInv, TextInv, NEW c \in inbox, Retry(c)
    PROVE  TextInv'
<1>1. /\ excused' = excused \cup c.text /\ c.intr \in Row
      /\ UNCHANGED <<obliged, phase, queue, turn, replied, astray>>
  BY HeldFacts DEF Retry, IsRetry
<1>2. /\ Clear(inbox \ {c}, queue, turn, {c.row}) /\ c.row \in Row /\ Owes(rows, c.row)
      /\ rows[c.row].into = None
  BY InboxClear DEF HeldRow, Owes
<1>3. EndText(turn, phase, obliged, replied, excused', astray)
  BY <1>1, EndTextMono DEF TextInv
<1>4. Fine \subseteq Fine' /\ c.text \cup astray \subseteq Fine'
  BY <1>1 DEF Fine
<1>5. CASE rows[c.intr].status # "interrupted"
  <2> DEFINE in == inbox \ {c}
  <2>1. /\ rows' = MarkDone(rows, c.row) /\ inbox' = in
        /\ UNCHANGED <<acted, asked>>
    BY <1>5 DEF Retry
  <2>2. /\ Sound(rows, obliged, owner, kills, inbox, queue, turn)
        /\ Texts(rows, obliged, inbox, queue, turn, acted, astray, replied, asked \cup astray, Fine)
    BY TextFacts
  <2>3. /\ Sound(rows, obliged, owner, kills, in, queue, turn)
        /\ Texts(rows, obliged, in, queue, turn, acted, astray, replied, asked \cup astray, Fine)
    BY <2>2, DropCall
  <2>4. TaskOK(rows, c, acted, astray) /\ rows \in Table
    BY <2>2, SoundFacts DEF Texts, LaneText
  <2>5. \A e \in Family(rows, c.row) : rows[e].text \subseteq c.text \cup astray
    BY <1>2, <2>4, FamilyText
  <2>6. \A e \in Family(rows, c.row) : rows[e].text \subseteq Fine'
    BY <1>4, <2>5
  <2> HIDE DEF in
  <2>7. Texts(rows', obliged, in, queue, turn, acted, astray, replied, asked \cup astray, Fine')
    BY <1>2, <1>4, <2>1, <2>3, <2>6, MarkDoneText DEF in
  <2> QED
    BY <1>1, <1>3, <2>1, <2>7 DEF TextInv, Texts
<1>6. CASE rows[c.intr].status = "interrupted"
  <2> DEFINE i     == c.intr
             text  == FoldedText(rows, i)
             fresh == NextRow(rows)
             ms    == Insert(Replaced(rows, i), NoMessage, text, owner)
             again == Anew(text)
             act   == acted \ text
             in    == inbox \ {c}
  <2>0. c \in inbox
    OBVIOUS
  <2>1. /\ fresh \in Row /\ rows' = MarkDone(ms, c.row)
        /\ acted' = act /\ asked' = asked \cup text
        /\ \/ inbox' = in
           \/ \E j \in Row \cup {None} :
                inbox' = in \cup {[row |-> fresh, text |-> text, intr |-> j, loop |-> FALSE]}
    BY <1>6 DEF Retry, RetryInterrupted, Replaced, Pending, Retryable
  <2>2. /\ NextRow(rows) \in Row /\ text = FoldedText(rows, i) /\ fresh = NextRow(rows)
        /\ ms = Insert(Replaced(rows, i), NoMessage, text, owner)
        /\ i \in Row /\ rows[i].status = "interrupted"
    BY <1>1, <1>6, <2>1
  <2> HIDE DEF i, text, fresh, ms
  <2>3. /\ Sound(ms, obliged, owner, kills, in, queue, turn)
        /\ Texts(ms, obliged, inbox, queue, turn, act, astray, replied, again, Fine)
    BY <2>0, <2>2, RetriedText
  <2>4. /\ HeldRow(ms, obliged, owner, fresh) /\ ms[fresh].into = None
        /\ Owes(ms, c.row) /\ ms[c.row].into = None /\ c.row # fresh
    <3>1. HeldRow(ms, obliged, owner, fresh)
      BY <2>0, <2>2, RetriedText
    <3>2. Holds(ms, fresh, text)
      BY <2>0, <2>2, RetriedText
    <3>3. Owes(ms, c.row)
      BY <2>0, <2>2, RetriedText
    <3>4. ms[c.row].into = None /\ c.row # fresh
      BY <2>0, <2>2, RetriedText
    <3> QED
      BY <3>1, <3>2, <3>3, <3>4 DEF Holds
  <2>5. Holds(ms, fresh, text)
    BY <2>0, <2>2, RetriedText
  <2>7. TaskOK(ms, c, act, astray) /\ ms \in Table
    BY <2>3, SoundFacts DEF Texts, LaneText
  <2>8. \A e \in Family(ms, c.row) : ms[e].text \subseteq c.text \cup astray
    BY <1>2, <2>7, FamilyText
  <2>9. \A e \in Family(ms, c.row) : ms[e].text \subseteq Fine'
    BY <1>4, <2>8
  <2>10. ASSUME NEW box, Sound(ms, obliged, owner, kills, box, queue, turn),
                Texts(ms, obliged, box, queue, turn, act, astray, replied, again, Fine),
                Clear(box, queue, turn, {c.row}), inbox' = box
         PROVE  TextInv'
    <3>1. Texts(rows', obliged, box, queue, turn, act, astray, replied, again, Fine')
      BY <1>2, <1>4, <2>1, <2>4, <2>9, <2>10, MarkDoneText
    <3>2. asked' \cup astray' = again
      BY <1>1, <2>1 DEF Anew
    <3> HIDE DEF again
    <3> QED
      BY <1>1, <1>3, <2>1, <2>10, <3>1, <3>2 DEF TextInv, Texts
  <2>11. Texts(ms, obliged, in, queue, turn, act, astray, replied, again, Fine)
    BY <2>3 DEF Texts, LaneText
  <2>12. CASE inbox' = in
    BY <1>2, <2>3, <2>10, <2>11, <2>12
  <2>13. ASSUME NEW j, inbox' = in \cup {[row |-> fresh, text |-> text, intr |-> j, loop |-> FALSE]}
         PROVE  TextInv'
    <3> DEFINE d == [row |-> fresh, text |-> text, intr |-> j, loop |-> FALSE]
    <3>1. d.row = fresh /\ d.text = text
      OBVIOUS
    <3>2. inbox' = in \cup {d}
      BY <2>13
    <3> HIDE DEF d
    <3>3. TaskOK(ms, d, act, astray)
      BY <2>5, <3>1 DEF TaskOK, Holds
    <3>4. Texts(ms, obliged, in \cup {d}, queue, turn, act, astray, replied, again, Fine)
      BY <2>11, <3>3 DEF Texts, LaneText
    <3>5. Sound(ms, obliged, owner, kills, in \cup {d}, queue, turn)
      BY <2>3, <2>4, <3>1 DEF Sound, TasksHeld
    <3>6. Clear(in \cup {d}, queue, turn, {c.row})
      BY <1>2, <2>4, <3>1 DEF Clear
    <3> QED
      BY <2>10, <3>2, <3>4, <3>5, <3>6
  <2> HIDE DEF in
  <2> QED
    BY <2>1, <2>12, <2>13
<1> QED
  BY <1>5, <1>6

\* The queued tasks' rows run with no other turn.
LEMMA QueueAway ==
    ASSUME HeldInv, NEW c \in inbox, NEW ms, ms = Discarded(c),
           Sound(ms, obliged, owner, kills, inbox, <<>>, turn),
           NEW E, E = {d \in Row : \E q \in RowsOf(queue) : d \in Family(ms, q)}
    PROVE  Away(ms, E, inbox, <<>>, turn)
<1>1. ASSUME NEW q \in RowsOf(queue)
      PROVE  Away(ms, Family(ms, q), inbox, <<>>, turn)
  <2>1. /\ q \in Row /\ rows[q].into = None /\ ms[q] = rows[q]
        /\ \A d \in inbox : d.row # q
        /\ turn.stage # "idle" => turn.row # q
        /\ \A i \in 1..Len(turn.unread) : turn.unread[i].row # q
    BY QueuedRows
  <2>2. Clear(inbox, <<>>, turn, {q})
    <3>1. 1..Len(<<>>) = {} /\ None # q
      BY <2>1, RowNumbers
    <3> QED
      BY <2>1, <3>1 DEF Clear
  <2> QED
    BY <2>1, <2>2, FamilyAway DEF Sound
<1>2. \A p : LaneRow(inbox, <<>>, turn, p) => p \in Row
  BY SoundFacts
<1> QED
  BY <1>1, <1>2 DEF Away

\* The queue goes with the rows it leaves.
LEMMA DroppedText ==
    ASSUME HeldInv, TextInv, NEW c \in inbox, NEW ms, ms = Discarded(c),
           NEW ks, ks = IF Closing THEN ms ELSE CloseAll(ms, queue),
           NEW more, Fine \cup GivenUp(c) \cup TextOf(queue) \subseteq more
    PROVE  /\ Sound(ks, obliged, owner, kills, inbox, <<>>, turn)
           /\ Texts(ks, obliged, inbox, <<>>, turn, acted, astray, replied, asked \cup astray, more)
           /\ ks[c.row] = rows[c.row]
<1> DEFINE fine == Fine \cup GivenUp(c)
           xs   == CloseAll(ms, queue)
           E    == {d \in Row : \E q \in RowsOf(queue) : d \in Family(ms, q)}
<1>1. /\ Sound(ms, obliged, owner, kills, inbox, queue, turn)
      /\ Texts(ms, obliged, inbox, queue, turn, acted, astray, replied, asked \cup astray, fine)
  BY DiscardedText
<1>2. \A r \in Row : Owes(rows, r) => ms[r] = rows[r]
  BY DiscardedText
<1>3. 1..Len(<<>>) = {} /\ fine \subseteq more /\ \A i \in 1..Len(queue) : queue[i].text \subseteq more
  <2>1. queue \in Seq(Task)
    BY HeldFacts
  <2> QED
    BY <2>1 DEF TextOf
<1>4. c.row \in Row /\ Owes(rows, c.row) /\ rows[c.row].into = None
  BY InboxClear DEF HeldRow, Owes
<1> HIDE DEF fine
<1>5. /\ Sound(ms, obliged, owner, kills, inbox, <<>>, turn)
      /\ Texts(ms, obliged, inbox, <<>>, turn, acted, astray, replied, asked \cup astray, fine)
  BY <1>1, <1>3 DEF Sound, Texts, TasksHeld, LaneText
<1>6. /\ Durable(ms, obliged, acted, astray, replied, asked \cup astray, fine) /\ NoneLost(ms, fine)
      /\ LaneText(ms, inbox, <<>>, turn, acted, astray)
      /\ \A i \in 1..Len(queue) : TaskOK(ms, queue[i], acted, astray)
  BY <1>1, <1>5 DEF Texts, LaneText
<1>7. CASE Closing
  <2>1. ks = ms
    BY <1>7
  <2>2. Durable(ms, obliged, acted, astray, replied, asked \cup astray, more) /\ NoneLost(ms, more)
    BY <1>3, <1>6 DEF Durable, NoneLost
  <2> QED
    BY <1>2, <1>4, <1>5, <1>6, <2>1, <2>2 DEF Texts
<1>8. CASE ~Closing
  <2>1. ks = xs
    BY <1>8
  <2>2. /\ Settles(ms, xs, E, "done")
        /\ Form(xs, obliged, owner) /\ Budget(xs, kills) /\ Aside(rows, xs, RowsOf(queue))
    BY DroppedQueue
  <2>3. Away(ms, E, inbox, <<>>, turn)
    BY <1>5, QueueAway
  <2>4. \A e \in E : ms[e].text \subseteq more
    <3>1. ASSUME NEW e \in E
          PROVE  ms[e].text \subseteq more
      <4>1. PICK i \in 1..Len(queue) : e \in Family(ms, queue[i].row)
        <5>1. queue \in Seq(Task)
          BY HeldFacts
        <5> QED
          BY <3>1, <5>1 DEF RowsOf
      <4>2. queue[i].row \in Row
        BY <1>1 DEF Sound, TasksHeld, HeldRow
      <4>3. ms \in Table
        BY <1>1, SoundFacts
      <4>4. ms[e].text \subseteq queue[i].text \cup astray
        BY <1>6, <4>1, <4>2, <4>3, FamilyText
      <4>5. astray \subseteq more
        BY DEF Fine
      <4> QED
        BY <1>3, <4>4, <4>5
    <3> QED
      BY <3>1
  <2>5. ms \in Table /\ E \subseteq Row
    BY <1>1, SoundFacts
  <2> HIDE DEF E, xs
  <2>6. Durable(xs, obliged, acted, astray, replied, asked \cup astray, fine)
    BY <1>6, <2>2, <2>5, DoneDurable
  <2>7. Durable(xs, obliged, acted, astray, replied, asked \cup astray, more)
    BY <1>3, <2>6 DEF Durable
  <2>8. NoneLost(xs, more)
    BY <1>3, <1>6, <2>2, <2>4, <2>5, DoneLost
  <2>9. LaneText(xs, inbox, <<>>, turn, acted, astray)
    BY <1>6, <2>2, <2>3, <2>5, DoneLane
  <2>10. /\ c.row \notin RowsOf(queue) /\ None \notin RowsOf(queue)
    BY QueuedRows, RowNumbers
  <2>11. xs[c.row] = rows[c.row]
    BY <1>4, <2>2, <2>10 DEF Aside
  <2>12. Clear(inbox, <<>>, turn, RowsOf(queue))
    <3>1. \A q \in RowsOf(queue) :
            /\ \A d \in inbox : d.row # q
            /\ turn.stage # "idle" => turn.row # q
            /\ \A i \in 1..Len(turn.unread) : turn.unread[i].row # q
      BY QueuedRows
    <3>2. turn.stage # "idle" => turn.row \notin RowsOf(queue)
      BY <3>1
    <3>3. \A d \in inbox : d.row \notin RowsOf(queue)
      BY <3>1
    <3>4. \A i \in 1..Len(turn.unread) : turn.unread[i].row \notin RowsOf(queue)
      BY <3>1
    <3>5. 1..Len(<<>>) = {}
      OBVIOUS
    <3> QED
      BY <2>10, <3>2, <3>3, <3>4, <3>5 DEF Clear
  <2>13. /\ TasksHeld(rows, obliged, owner, inbox, <<>>, turn) /\ TurnHeld(rows, owner, kills, turn)
         /\ turn.stage = "idle" => turn.unread = <<>>
    BY <1>3, HeldFacts DEF HeldInv, TasksHeld
  <2>14. TasksHeld(xs, obliged, owner, inbox, <<>>, turn) /\ TurnHeld(xs, owner, kills, turn)
    BY <2>2, <2>12, <2>13, Undisturbed
  <2> QED
    BY <2>1, <2>2, <2>7, <2>8, <2>9, <2>11, <2>13, <2>14 DEF Sound, Texts
<1> QED
  BY <1>7, <1>8

\* An aborted turn keeps its text; whoever aborts it outside of a shutdown gives it up.
LEMMA AbortedText ==
    ASSUME HeldInv, NEW t, t = IF turn.stage = "idle" THEN turn ELSE [turn EXCEPT !.aborted = TRUE],
           NEW rs, NEW in, NEW qu, LaneText(rs, in, qu, turn, acted, astray),
           NEW ph, NEW pg, NEW exc, EndText(turn, ph, obliged, replied, excused, astray),
           excused \subseteq exc,
           \/ pg # "up"
           \/ /\ pg = ph /\ turn.text \subseteq exc
              /\ \A i \in 1..Len(turn.unread) : turn.unread[i].text \subseteq exc
    PROVE  LaneText(rs, in, qu, t, acted, astray) /\ EndText(t, pg, obliged, replied, exc, astray)
<1>1. CASE turn.stage = "idle"
  <2>1. turn = Idle /\ t = Idle
    BY <1>1, HeldFacts
  <2>2. LaneText(rs, in, qu, Idle, acted, astray)
    BY <2>1
  <2>3. EndText(Idle, pg, obliged, replied, exc, astray)
    BY <2>2, IdleText
  <2> QED
    BY <2>1, <2>2, <2>3
<1>2. CASE turn.stage # "idle"
  <2>1. turn \in Turn /\ t = [turn EXCEPT !.aborted = TRUE]
    BY <1>2, HeldFacts
  <2>2. /\ t.row = turn.row /\ t.stage = turn.stage /\ t.tool = turn.tool
        /\ t.unread = turn.unread /\ t.answered = turn.answered /\ t.send = turn.send
        /\ t.text = turn.text
    BY <2>1, AbortedTurn
  <2>3. t.aborted = TRUE
    BY <2>1 DEF Turn
  <2> HIDE DEF Turn
  <2>4. LaneText(rs, in, qu, t, acted, astray)
    BY <2>2 DEF LaneText, TurnOK
  <2>5. EndText(t, pg, obliged, replied, exc, astray)
    BY <2>2, <2>3 DEF EndText
  <2> QED
    BY <2>4, <2>5
<1> QED
  BY <1>1, <1>2

\* /stop gives up the running turn's text, the unread steers' and the queue's.
LEMMA StopText ==
    ASSUME HeldInv, TextInv, NEW c \in inbox, Stop(c)
    PROVE  TextInv'
<1> DEFINE ms == Discarded(c)
           ks == IF Closing THEN ms ELSE CloseAll(ms, queue)
           more == Fine'
           in == inbox \ {c}
<1>1. /\ inbox' = inbox \ {c} /\ queue' = <<>>
      /\ turn' = IF turn.stage = "idle" THEN turn ELSE [turn EXCEPT !.aborted = TRUE]
      /\ rows' = MarkDone(ks, c.row)
      /\ excused' = excused \cup GivenUp(c) \cup c.text \cup turn.text
                     \cup TextOf(turn.unread) \cup TextOf(queue)
      /\ UNCHANGED <<obliged, phase, replied, asked, acted, astray>>
  BY DEF Stop
<1>2. Fine \cup GivenUp(c) \cup TextOf(queue) \subseteq more /\ c.text \cup astray \subseteq more
  BY <1>1 DEF Fine
<1>3. ms = Discarded(c) /\ ks = (IF Closing THEN ms ELSE CloseAll(ms, queue))
  OBVIOUS
<1> HIDE DEF ms, ks, more
<1>4. /\ Sound(ks, obliged, owner, kills, inbox, <<>>, turn)
      /\ Texts(ks, obliged, inbox, <<>>, turn, acted, astray, replied, asked \cup astray, more)
      /\ ks[c.row] = rows[c.row]
  BY <1>2, <1>3, DroppedText
<1>5. /\ Clear(in, queue, turn, {c.row}) /\ c.row \in Row /\ Owes(rows, c.row)
      /\ rows[c.row].into = None
  BY InboxClear DEF HeldRow, Owes
<1>6. Clear(in, <<>>, turn, {c.row})
  BY <1>5 DEF Clear
<1>7. TaskOK(ks, c, acted, astray) /\ ks \in Table
  BY <1>4, SoundFacts DEF Texts, LaneText
<1>8. \A e \in Family(ks, c.row) : ks[e].text \subseteq c.text \cup astray
  BY <1>5, <1>7, FamilyText
<1>9. \A e \in Family(ks, c.row) : ks[e].text \subseteq more
  BY <1>2, <1>8
<1>10. /\ Sound(ks, obliged, owner, kills, in, <<>>, turn)
       /\ Texts(ks, obliged, in, <<>>, turn, acted, astray, replied, asked \cup astray, more)
  BY <1>4, DropCall
<1>11. Owes(ks, c.row) /\ ks[c.row].into = None /\ more \subseteq more
  BY <1>4, <1>5 DEF Owes
<1> HIDE DEF in
<1>12. Texts(rows', obliged, in, <<>>, turn, acted, astray, replied, asked \cup astray, more)
  BY <1>1, <1>5, <1>6, <1>9, <1>10, <1>11, MarkDoneText
<1>13. /\ turn.text \subseteq excused' /\ excused \subseteq excused'
       /\ \A i \in 1..Len(turn.unread) : turn.unread[i].text \subseteq excused'
  <2>1. turn.unread \in Seq(Task)
    BY HeldFacts
  <2> QED
    BY <1>1, <2>1 DEF TextOf
<1>14. LaneText(rows', in, <<>>, turn', acted, astray)
       /\ EndText(turn', phase, obliged, replied, excused', astray)
  <2>1. LaneText(rows', in, <<>>, turn, acted, astray) /\ EndText(turn, phase, obliged, replied, excused, astray)
    BY <1>12 DEF Texts, TextInv
  <2> QED
    BY <1>1, <1>13, <2>1, AbortedText
<1> QED
  BY <1>1, <1>12, <1>14 DEF TextInv, Texts, in, more

\* A steered message's row, and what hangs on it, goes with the turn's row; the text absorbed
\* into it that the steer does not say goes astray.
LEMMA SteerText ==
    ASSUME HeldInv, TextInv, NEW c \in inbox, Steer(c)
    PROVE  TextInv'
<1> DEFINE u == [row |-> c.row, text |-> c.text]
           ms == Discarded(c)
           fine == Fine \cup GivenUp(c)
           S == {d \in Row : d = c.row \/ ms[d].into = c.row}
           in == inbox \ {c}
           ast == astray'
           again == asked \cup astray'
           more == Fine'
<1>1. /\ turn.stage = "running"
      /\ inbox' = in
      /\ rows' = MarkAbsorbed(ms, c.row, turn.row)
      /\ turn' = [turn EXCEPT !.unread = Append(@, u)]
      /\ excused' = excused \cup GivenUp(c)
      /\ astray' = astray \cup (c.text \ rows[c.row].text)
                        \cup (IF turn.aborted /\ ~Closing THEN c.text ELSE {})
      /\ UNCHANGED <<obliged, phase, queue, replied, asked, acted>>
  BY DEF Steer
<1>2. astray \subseteq ast /\ asked \cup astray \subseteq again /\ fine \subseteq more
  BY <1>1 DEF Fine
<1>3. \A m \in c.text : m \notin ast => m \in rows[c.row].text
  BY <1>1
<1>4. turn.aborted /\ phase = "up" => c.text \subseteq ast
  BY <1>1 DEF Closing
<1>5. /\ Sound(ms, obliged, owner, kills, inbox, queue, turn)
      /\ Texts(ms, obliged, inbox, queue, turn, acted, astray, replied, asked \cup astray, fine)
  BY DiscardedText
<1>6. \A r \in Row : Owes(rows, r) => ms[r] = rows[r]
  BY DiscardedText
<1>7. /\ Clear(in, queue, turn, {c.row}) /\ c.row \in Row /\ rows[c.row].status = "received"
      /\ rows[c.row].into = None /\ c.row \notin obliged
  BY InboxClear DEF HeldRow
<1>8. /\ ms \in Table /\ Tree(ms)
      /\ \A p : LaneRow(inbox, queue, turn, p) => p \in Row /\ Owes(ms, p)
  BY <1>5, SoundFacts
<1>9. /\ turn.row \in Row /\ ms[turn.row].status = "processing" /\ ms[turn.row].into = None
      /\ turn.row # c.row /\ turn.send = "none" /\ ~turn.answered
  <2>1. TurnHeld(ms, owner, kills, turn)
    BY <1>5 DEF Sound
  <2>2. ms[c.row].status = "received"
    BY <1>6, <1>7 DEF Owes
  <2> QED
    BY <1>1, <2>1, <2>2 DEF TurnHeld
<1>10. ms[c.row] = rows[c.row]
  BY <1>6, <1>7 DEF Owes
<1>11. Relinks(ms, rows', S, turn.row) /\ S \subseteq Row
  <2>1. CanAbsorb(ms, c.row, turn.row)
    BY <1>7, <1>9, <1>10 DEF CanAbsorb
  <2> HIDE DEF ms
  <2> QED
    BY <1>1, <1>7, <1>8, <1>9, <2>1, MarkAbsorbedFields
<1>12. /\ Durable(ms, obliged, acted, astray, replied, asked \cup astray, fine) /\ NoneLost(ms, fine)
       /\ LaneText(ms, inbox, queue, turn, acted, astray)
  BY <1>5 DEF Texts
<1>13. turn.row \notin obliged
  BY <1>1 DEF TextInv, EndText
<1>14. TaskOK(ms, c, acted, astray)
  BY <1>12 DEF LaneText
<1>15. \A d \in S : d \in Row /\ Home(ms, d, c.row) /\ ms[d].into \in {None, c.row}
  BY <1>7, <1>10 DEF Home
<1>16. \A d \in S : \A m \in ms[d].text : m \notin ast => m \in c.text
  <2>1. \A d \in S : ms[d].text \subseteq Message
    BY <1>8, <1>15, RowFields
  <2> HIDE DEF ast, S, ms
  <2> QED
    BY <1>2, <1>14, <1>15, <2>1 DEF TaskOK, Carried
<1> HIDE DEF ms, fine, S, in, ast, again, more
<1>17. Durable(ms, obliged, acted, ast, replied, again, more)
  BY <1>2, <1>12, DurableMono
<1>18. LaneText(ms, inbox, queue, turn, acted, ast)
  <2>1. acted \subseteq acted
    OBVIOUS
  <2> QED
    BY <1>2, <1>12, <2>1, LaneMono
<1>19. Durable(rows', obliged, acted, ast, replied, again, more)
  <2>1. \A q \in obliged : q \in Row /\ ms[q].into = None
    BY <1>12 DEF Durable
  <2>2. ASSUME NEW d \in S
        PROVE  d \notin obliged /\ ms[d].into \notin obliged
    <3>1. d = c.row \/ ms[d].into = c.row
      BY DEF S
    <3> QED
      BY <1>7, <1>15, <2>1, <3>1, RowNumbers
  <2>3. S \cap obliged = {}
    BY <2>2
  <2>4. \A d \in S : \A m \in ms[d].text : m \in acted => m \in ast
    BY <1>2, <1>14, <1>16 DEF TaskOK
  <2>5. \A d \in S : \A m \in ms[d].text :
          m \in replied => m \in again \/ (d \notin obliged /\ ms[d].into \notin obliged)
    BY <2>2
  <2>6. turn.row \in Row \cup {None}
    BY <1>9
  <2> QED
    BY <1>8, <1>11, <1>13, <1>17, <2>3, <2>4, <2>5, <2>6, RelinksDurable
<1>20. NoneLost(rows', more)
  <2>1. NoneLost(ms, more)
    BY <1>2, <1>12, LostMono
  <2> QED
    BY <1>11, <2>1, RelinksLost
<1>21. ASSUME NEW t, LaneRow(in, queue, Idle, t.row), TaskOK(ms, t, acted, ast),
              t.row # turn.row, t.row # c.row
       PROVE  TaskOK(rows', t, acted, ast)
  <2>1. t.row # None
    BY <1>8, <1>21, RowNumbers DEF LaneRow, in, Idle
  <2>2. \A d \in S : d \in Row => d = t.row \/ ms[d].into # t.row
    BY <1>15, <1>21, <2>1
  <2> QED
    BY <1>11, <1>21, <2>2, RelinksTask
<1>22. \A t \in in : TaskOK(rows', t, acted, ast)
  <2>1. ASSUME NEW t \in in
        PROVE  TaskOK(rows', t, acted, ast)
    <3>1. t \in inbox /\ TaskOK(ms, t, acted, ast)
      BY <1>18 DEF LaneText, in
    <3>2. t.row # c.row
      BY <1>7 DEF Clear
    <3>3. ms[t.row].status = "received"
      BY <1>5, <3>1 DEF Sound, TasksHeld, HeldRow
    <3> QED
      BY <1>9, <1>21, <3>1, <3>2, <3>3 DEF LaneRow
  <2> QED
    BY <2>1
<1>23. \A i \in 1..Len(queue) : TaskOK(rows', queue[i], acted, ast)
  <2>1. ASSUME NEW i \in 1..Len(queue)
        PROVE  TaskOK(rows', queue[i], acted, ast)
    <3>1. TaskOK(ms, queue[i], acted, ast)
      BY <1>18 DEF LaneText
    <3>2. queue[i].row # c.row
      BY <1>7 DEF Clear
    <3>3. ms[queue[i].row].status = "received"
      BY <1>5 DEF Sound, TasksHeld, HeldRow
    <3> QED
      BY <1>9, <1>21, <3>1, <3>2, <3>3 DEF LaneRow
  <2> QED
    BY <2>1
<1>24. /\ turn'.row = turn.row /\ turn'.stage = turn.stage /\ turn'.tool = turn.tool
       /\ turn'.answered = turn.answered /\ turn'.send = turn.send /\ turn'.text = turn.text
       /\ turn'.aborted = turn.aborted
       /\ Len(turn'.unread) = Len(turn.unread) + 1 /\ turn'.unread[Len(turn.unread) + 1] = u
       /\ \A i \in 1..Len(turn.unread) : turn'.unread[i] = turn.unread[i]
       /\ Len(turn.unread) \in Nat
  <2>1. turn \in Turn /\ turn.unread \in Seq(Task) /\ c \in Call
    BY HeldFacts
  <2>2. u \in Task
    BY <2>1 DEF Call, Task
  <2>3. turn' = [turn EXCEPT !.unread = Append(turn.unread, u)]
    BY <1>1
  <2> HIDE DEF u
  <2>4. turn'.unread = Append(turn.unread, u)
    BY <2>1, <2>3 DEF Turn
  <2>5. /\ turn'.row = turn.row /\ turn'.stage = turn.stage /\ turn'.tool = turn.tool
        /\ turn'.answered = turn.answered /\ turn'.send = turn.send /\ turn'.text = turn.text
        /\ turn'.aborted = turn.aborted
    BY <2>1, <2>3 DEF Turn
  <2> QED
    BY <2>1, <2>2, <2>4, <2>5
<1>25. u.row = c.row /\ u.text = c.text
  OBVIOUS
<1> HIDE DEF u
<1>26. \A i \in 1..Len(turn'.unread) : i \in 1..Len(turn.unread) \/ i = Len(turn.unread) + 1
  BY <1>24
<1>27. \A m : Known(rows', m) <=> Known(ms, m)
  BY <1>11 DEF Known, Relinks
<1>28. UnreadOK(rows', u, acted, ast)
  <2>1. \A m \in c.text : Known(rows', m) /\ (m \in acted => m \in ast)
    BY <1>2, <1>14, <1>27 DEF TaskOK
  <2>2. rows'[c.row].text = ms[c.row].text
    BY <1>7, <1>11 DEF Relinks
  <2>3. c.row \in S
    BY <1>7 DEF S
  <2>4. \A m \in Message : m \notin ast => (m \in c.text <=> m \in rows'[c.row].text)
    BY <1>3, <1>10, <1>16, <2>2, <2>3 DEF ast
  <2> QED
    BY <1>25, <2>1, <2>4 DEF UnreadOK
<1>29. \A i \in 1..Len(turn'.unread) : UnreadOK(rows', turn'.unread[i], acted, ast)
  <2>1. ASSUME NEW i \in 1..Len(turn.unread)
        PROVE  UnreadOK(rows', turn.unread[i], acted, ast)
    <3>1. turn.unread[i].row \in Row
      BY <1>8 DEF LaneRow
    <3>2. UnreadOK(ms, turn.unread[i], acted, ast)
      BY <1>18 DEF LaneText
    <3> QED
      BY <1>11, <3>1, <3>2, RelinksUnread
  <2> QED
    BY <1>24, <1>26, <1>28, <2>1
<1>30. TurnOK(rows', turn', acted, ast)
  <2>1. TurnOK(ms, turn, acted, ast)
    BY <1>1, <1>18 DEF LaneText
  <2>2. \A m \in turn.text : Known(rows', m) /\ (m \in acted => m \in ast \/ turn.tool)
    BY <1>27, <2>1 DEF TurnOK
  <2>3. ASSUME NEW m \in Message, m \notin ast
        PROVE  m \in turn.text <=> \E r \in Row : /\ Home(rows', r, turn.row) /\ m \in rows'[r].text
                                                  /\ \A i \in 1..Len(turn'.unread) : turn'.unread[i].row # r
    <3>1. m \in turn.text <=> \E r \in Row : /\ Home(ms, r, turn.row) /\ m \in ms[r].text
                                             /\ \A i \in 1..Len(turn.unread) : turn.unread[i].row # r
      BY <2>1, <2>3 DEF TurnOK
    <3>2. ASSUME NEW r \in Row, m \in ms[r].text
          PROVE  (/\ Home(ms, r, turn.row) /\ m \in ms[r].text
                  /\ \A i \in 1..Len(turn.unread) : turn.unread[i].row # r)
                 <=> (/\ Home(rows', r, turn.row) /\ m \in rows'[r].text
                      /\ \A i \in 1..Len(turn'.unread) : turn'.unread[i].row # r)
      <4>1. rows'[r].text = ms[r].text /\ rows'[r].into = IF r \in S THEN turn.row ELSE ms[r].into
        BY <1>11 DEF Relinks
      <4>2. (\A i \in 1..Len(turn'.unread) : turn'.unread[i].row # r)
              <=> r # c.row /\ \A i \in 1..Len(turn.unread) : turn.unread[i].row # r
        <5> DEFINE n == Len(turn.unread)
        <5>1. /\ \A i \in 1..n : i \in 1..Len(turn'.unread) /\ turn'.unread[i].row = turn.unread[i].row
              /\ n + 1 \in 1..Len(turn'.unread) /\ turn'.unread[n + 1].row = c.row
              /\ \A i \in 1..Len(turn'.unread) : i \in 1..n \/ i = n + 1
          BY <1>24, <1>25, <1>26
        <5> HIDE DEF n
        <5>2. (\A i \in 1..Len(turn'.unread) : turn'.unread[i].row # r)
                <=> r # c.row /\ \A i \in 1..n : turn.unread[i].row # r
          BY <5>1
        <5> QED
          BY <5>2 DEF n
      <4>3. CASE r \notin S
        <5>1. r # c.row
          BY <1>7, <4>3 DEF S
        <5>2. Home(rows', r, turn.row) <=> Home(ms, r, turn.row)
          BY <4>1, <4>3 DEF Home
        <5> QED
          BY <3>2, <4>1, <4>2, <5>1, <5>2
      <4>4. CASE r \in S
        <5>1. ~Home(ms, r, turn.row)
          BY <1>7, <1>9, <1>15, <4>4, RowNumbers DEF Home, S
        <5>2. r = c.row
          <6>1. m \in c.text /\ m \in ms[c.row].text
            BY <1>3, <1>10, <1>16, <2>3, <3>2, <4>4 DEF ast
          <6> QED
            BY <1>7, <1>12, <3>2, <6>1 DEF Durable
        <5> QED
          BY <4>2, <5>1, <5>2
      <4> QED
        BY <4>3, <4>4
    <3>3. \A r \in Row : rows'[r].text = ms[r].text
      BY <1>11 DEF Relinks
    <3> QED
      BY <3>1, <3>2, <3>3
  <2> QED
    BY <1>24, <2>2, <2>3 DEF TurnOK
<1>31. EndText(turn', phase, obliged, replied, excused', ast)
  <2>1. EndText(turn, phase, obliged, replied, excused, astray)
    BY DEF TextInv
  <2>2. EndText(turn, phase, obliged, replied, excused', ast)
    <3>1. excused \subseteq excused'
      BY <1>1
    <3> QED
      BY <1>2, <2>1, <3>1, EndTextMono
  <2>3. turn.aborted /\ phase = "up" =>
          /\ turn'.text \subseteq excused' \cup ast
          /\ \A i \in 1..Len(turn'.unread) : turn'.unread[i].text \subseteq excused' \cup ast
    BY <1>4, <1>24, <1>25, <1>26, <2>2 DEF EndText, ast
  <2> QED
    BY <1>1, <1>9, <1>13, <1>24, <2>3 DEF EndText
<1>32. LaneText(rows', in, queue, turn', acted, ast)
  BY <1>22, <1>23, <1>29, <1>30 DEF LaneText
<1> QED
  BY <1>1, <1>19, <1>20, <1>31, <1>32 DEF TextInv, ast, again, more, in

\* Whatever becomes of a dispatched message, the texts match the rows.
LEMMA DispatchText ==
    ASSUME HeldInv, TextInv, NEW c \in inbox, Dispatch(c)
    PROVE  TextInv'
BY EnqueueTurnText, SteerText, ConsumeText, RetryText, StopText DEF Dispatch

-----------------------------------------------------------------------------
(* The turn.                                                               *)

\* The queue without its head.
LEMMA DropHead ==
    ASSUME NEW rs, NEW ob, NEW in, NEW qu \in Seq(Task), qu # <<>>, NEW tn, NEW act, NEW ast, NEW rep,
           NEW again, NEW fine, Texts(rs, ob, in, qu, tn, act, ast, rep, again, fine)
    PROVE  /\ Texts(rs, ob, in, Tail(qu), tn, act, ast, rep, again, fine)
           /\ TaskOK(rs, Head(qu), act, ast)
<1>1. /\ Head(qu) = qu[1] /\ 1 \in 1..Len(qu)
      /\ \A i \in 1..Len(Tail(qu)) : i + 1 \in 1..Len(qu) /\ Tail(qu)[i] = qu[i + 1]
  OBVIOUS
<1> QED
  BY <1>1 DEF Texts, LaneText

\* The turn starts with the text of the task it takes.
LEMMA StartTurnText ==
    ASSUME HeldInv, TextInv, StartTurn
    PROVE  TextInv'
<1> DEFINE r == Head(queue).row
           q == Tail(queue)
<1>1. /\ queue # <<>> /\ turn.stage = "idle" /\ queue' = q
      /\ turn' = [Idle EXCEPT !.row = r, !.text = Head(queue).text, !.stage = "running"]
      /\ rows' = MarkProcessing(rows, r, owner)
      /\ UNCHANGED <<obliged, phase, inbox, history>>
  BY DEF StartTurn
<1>2. HeldRow(rows, obliged, owner, r)
  BY <1>1, HeadHeld
<1>3. rows \in Table /\ owner \in Nat /\ queue \in Seq(Task) /\ turn.unread = <<>>
  BY <1>1, HeldFacts
<1>4. /\ Sound(rows, obliged, owner, kills, inbox, queue, turn)
      /\ Texts(rows, obliged, inbox, queue, turn, acted, astray, replied, asked \cup astray, Fine)
  BY TextFacts
<1> HIDE DEF r, q
<1>5. Plain(rows, rows')
  <2>1. r \in Row /\ rows[r].status = "received" /\ Owes(rows, r)
    BY <1>2 DEF HeldRow, Owes
  <2>2. Rewrites(rows, rows', r, "processing", rows[r].attempts + 1, owner, rows[r].tool)
    BY <1>1, <1>3, <2>1, MarkProcessingFields
  <2> QED
    BY <2>1, <2>2, RewritesPlain
<1>6. Texts(rows', obliged, inbox, queue, turn, acted, astray, replied, asked \cup astray, Fine)
  BY <1>4, <1>5, PlainTexts
<1>7. /\ Texts(rows', obliged, inbox, q, turn, acted, astray, replied, asked \cup astray, Fine)
      /\ TaskOK(rows', Head(queue), acted, astray)
  BY <1>1, <1>3, <1>6, DropHead DEF q
<1>8. /\ turn'.row = Head(queue).row /\ turn'.text = Head(queue).text /\ turn'.stage = "running"
      /\ turn'.unread = <<>> /\ ~turn'.aborted /\ ~turn'.answered /\ turn'.send = "none"
  BY <1>1 DEF Idle, r
<1>9. 1..Len(turn'.unread) = {}
  BY <1>8
<1>10. TurnOK(rows', turn', acted, astray)
  BY <1>7, <1>8, <1>9 DEF TurnOK, TaskOK, Carried
<1>11. LaneText(rows', inbox, q, turn', acted, astray)
  BY <1>7, <1>9, <1>10 DEF Texts, LaneText
<1>12. EndText(turn', phase, obliged, replied, excused, astray)
  BY <1>2, <1>8 DEF EndText, HeldRow, r
<1> QED
  BY <1>1, <1>7, <1>11, <1>12 DEF TextInv, Texts, history, Fine

\* A refused turn's text is excused.
LEMMA RefuseAtCapText ==
    ASSUME HeldInv, TextInv, RefuseAtCap
    PROVE  TextInv'
<1> DEFINE r == Head(queue).row
           q == Tail(queue)
           t == Head(queue)
<1>1. /\ queue # <<>> /\ turn.stage = "idle" /\ queue' = q
      /\ rows' = MarkDone(rows, r)
      /\ excused' = excused \cup t.text
      /\ UNCHANGED <<obliged, phase, inbox, turn, replied, asked, acted, astray>>
  BY DEF RefuseAtCap
<1>2. /\ HeldRow(rows, obliged, owner, r) /\ rows[r].into = None /\ Clear(inbox, q, turn, {r})
      /\ TasksHeld(rows, obliged, owner, inbox, q, turn)
  BY <1>1, HeadHeld
<1>3. rows \in Table /\ queue \in Seq(Task)
  BY HeldFacts
<1>4. /\ Sound(rows, obliged, owner, kills, inbox, queue, turn)
      /\ Texts(rows, obliged, inbox, queue, turn, acted, astray, replied, asked \cup astray, Fine)
  BY TextFacts
<1>5. /\ Texts(rows, obliged, inbox, q, turn, acted, astray, replied, asked \cup astray, Fine)
      /\ TaskOK(rows, t, acted, astray)
  BY <1>1, <1>3, <1>4, DropHead
<1>6. Sound(rows, obliged, owner, kills, inbox, q, turn)
  BY <1>2, <1>4 DEF Sound
<1>7. r \in Row /\ Owes(rows, r) /\ t.row = r
  BY <1>2 DEF HeldRow, Owes
<1> HIDE DEF r, q, t
<1>8. Fine \subseteq Fine' /\ t.text \cup astray \subseteq Fine'
  BY <1>1 DEF Fine
<1>9. \A e \in Family(rows, r) : rows[e].text \subseteq t.text \cup astray
  BY <1>3, <1>5, <1>7, FamilyText
<1>10. \A e \in Family(rows, r) : rows[e].text \subseteq Fine'
  BY <1>8, <1>9
<1>11. Texts(rows', obliged, inbox, q, turn, acted, astray, replied, asked \cup astray, Fine')
  BY <1>1, <1>2, <1>5, <1>6, <1>7, <1>8, <1>10, MarkDoneText
<1>12. EndText(turn, phase, obliged, replied, excused', astray)
  BY <1>1, EndTextMono DEF TextInv
<1> QED
  BY <1>1, <1>11, <1>12 DEF TextInv, Texts

\* Text that runs with the turn of p runs with no task of another row.
LEMMA TaskApart ==
    ASSUME NEW rs, NEW ob, NEW act, NEW ast, NEW rep, NEW again, NEW fine,
           Durable(rs, ob, act, ast, rep, again, fine), NEW p \in Row, rs[p].into = None,
           NEW x \in Row, Home(rs, x, p), NEW m \in rs[x].text, m \in Message \ ast,
           NEW t, TaskOK(rs, t, act, ast), m \in t.text, t.row \in Row, rs[t.row].into = None
    PROVE  t.row = p
<1>1. PICK y \in Row : Home(rs, y, t.row) /\ m \in rs[y].text
  BY DEF TaskOK, Carried
<1>2. y = x
  BY <1>1 DEF Durable
<1> QED
  BY <1>1, <1>2, RowNumbers DEF Home

\* Tools run for the texts T of the running turn.
LEMMA ActedMore ==
    ASSUME NEW rs, NEW ob, NEW o, NEW in, NEW qu, NEW tn, NEW act, NEW ast, NEW rep, NEW again,
           NEW fine, rs \in Table, TasksHeld(rs, ob, o, in, qu, tn),
           Texts(rs, ob, in, qu, tn, act, ast, rep, again, fine),
           tn.row \in Row, rs[tn.row].into = None, rs[tn.row].status = "processing", rs[tn.row].tool,
           NEW T \in SUBSET Message, \A m \in T : Known(rs, m),
           \A m \in T : m \notin ast => Carried(rs, tn.row, m)
    PROVE  /\ Durable(rs, ob, act \cup T, ast, rep, again, fine)
           /\ \A c \in in : TaskOK(rs, c, act \cup T, ast)
           /\ \A i \in 1..Len(qu) : TaskOK(rs, qu[i], act \cup T, ast)
<1>1. /\ Durable(rs, ob, act, ast, rep, again, fine)
      /\ \A c \in in : TaskOK(rs, c, act, ast)
      /\ \A i \in 1..Len(qu) : TaskOK(rs, qu[i], act, ast)
  BY DEF Texts, LaneText
<1>2. ASSUME NEW x \in Row, NEW m \in rs[x].text, m \in T, m \notin ast
      PROVE  Primary(rs, x) = tn.row
  <2>1. PICK y \in Row : Home(rs, y, tn.row) /\ m \in rs[y].text
    BY <1>2 DEF Carried
  <2>2. y = x
    BY <1>1, <1>2, <2>1 DEF Durable
  <2> QED
    BY <2>1, <2>2, RowNumbers DEF Home, Primary
<1>3. Durable(rs, ob, act \cup T, ast, rep, again, fine)
  <2>1. \A m \in act \cup T \cup rep : Known(rs, m)
    BY <1>1 DEF Durable
  <2>2. \A x \in Row : Owes(rs, x) =>
          \A m \in rs[x].text : m \in act \cup T => m \in ast \/ rs[Primary(rs, x)].tool
    BY <1>1, <1>2 DEF Durable
  <2> QED
    BY <1>1, <2>1, <2>2 DEF Durable
<1>4. ASSUME NEW t, TaskOK(rs, t, act, ast), t.row \in Row, rs[t.row].into = None,
             rs[t.row].status = "received"
      PROVE  TaskOK(rs, t, act \cup T, ast)
  <2>1. ASSUME NEW m \in t.text, m \in T
        PROVE  m \in ast
    <3> SUFFICES ASSUME m \notin ast
                 PROVE  FALSE
      OBVIOUS
    <3>1. PICK x \in Row : Home(rs, x, tn.row) /\ m \in rs[x].text
      BY <2>1 DEF Carried
    <3>2. m \in Message \ ast
      BY <2>1
    <3>3. t.row = tn.row
      BY <1>1, <1>4, <2>1, <3>1, <3>2, TaskApart
    <3> QED
      BY <1>4, <3>3
  <2> QED
    BY <1>4, <2>1 DEF TaskOK
<1>5. \A c \in in : TaskOK(rs, c, act \cup T, ast)
  BY <1>1, <1>4 DEF TasksHeld, HeldRow
<1>6. \A i \in 1..Len(qu) : TaskOK(rs, qu[i], act \cup T, ast)
  BY <1>1, <1>4 DEF TasksHeld, HeldRow
<1> QED
  BY <1>3, <1>5, <1>6

\* Unread steers run with no tool of the turn.
LEMMA UnreadMore ==
    ASSUME NEW rs, NEW ob, NEW act, NEW ast, NEW rep, NEW again, NEW fine,
           Durable(rs, ob, act, ast, rep, again, fine),
           NEW tn, TurnOK(rs, tn, act, ast), tn.text \subseteq Message,
           NEW i \in 1..Len(tn.unread), UnreadOK(rs, tn.unread[i], act, ast),
           tn.unread[i].row \in Row
    PROVE  UnreadOK(rs, tn.unread[i], act \cup tn.text, ast)
<1>1. ASSUME NEW m \in tn.unread[i].text, m \in tn.text, m \notin ast
      PROVE  FALSE
  <2>1. m \in rs[tn.unread[i].row].text
    BY <1>1 DEF UnreadOK
  <2>2. PICK r \in Row : m \in rs[r].text /\ tn.unread[i].row # r
    BY <1>1 DEF TurnOK
  <2> QED
    BY <2>1, <2>2 DEF Durable
<1> QED
  BY <1>1 DEF UnreadOK

\* The messages the tool runs for are in rows that go with the turn's, whose flag is set.
LEMMA StartToolText ==
    ASSUME HeldInv, TextInv, StartTool
    PROVE  TextInv'
<1> DEFINE r == turn.row
<1>1. /\ turn.stage = "running" /\ turn' = [turn EXCEPT !.tool = TRUE]
      /\ rows' = MarkToolStarted(rows, r) /\ acted' = acted \cup turn.text
      /\ UNCHANGED <<obliged, phase, owner, inbox, queue, replied, asked, excused, astray, kills>>
  BY DEF StartTool
<1>2. /\ rows \in Table /\ turn \in Turn /\ TurnHeld(rows, owner, kills, turn)
  BY HeldFacts DEF HeldInv
<1>3. /\ r \in Row /\ rows[r].status = "processing" /\ Owes(rows, r) /\ rows[r].into = None
  BY <1>1, <1>2 DEF TurnHeld, Owes
<1>4. Rewrites(rows, rows', r, "processing", rows[r].attempts, rows[r].owner, TRUE)
  BY <1>1, <1>2, <1>3, MarkToolStartedFields
<1>5. Plain(rows, rows')
  <2>1. Rewrites(rows, rows', r, "processing", rows[r].attempts, rows[r].owner, rows'[r].tool)
        /\ rows'[r].tool
    BY <1>4 DEF Rewrites
  <2> QED
    BY <1>3, <2>1, RewritesPlain
<1>6. /\ Sound(rows, obliged, owner, kills, inbox, queue, turn)
      /\ Texts(rows, obliged, inbox, queue, turn, acted, astray, replied, asked \cup astray, Fine)
      /\ turn.text \subseteq Message
  BY TextFacts
<1>7. /\ turn' \in Turn /\ turn'.row = r /\ turn'.stage = "running" /\ turn'.unread = turn.unread
      /\ turn'.text = turn.text /\ turn'.aborted = turn.aborted
      /\ turn'.tool = TRUE /\ turn'.answered = turn.answered /\ turn'.send = turn.send
  BY <1>1, <1>2 DEF Turn
<1>8. Texts(rows', obliged, inbox, queue, turn, acted, astray, replied, asked \cup astray, Fine)
  BY <1>5, <1>6, PlainTexts
<1>9. Texts(rows', obliged, inbox, queue, turn', acted, astray, replied, asked \cup astray, Fine)
  BY <1>1, <1>7, <1>8 DEF Texts, LaneText, TurnOK
<1>10. rows' \in Table /\ rows'[r].tool /\ rows'[r].status = "processing" /\ rows'[r].into = None
  BY <1>3, <1>4 DEF Rewrites
<1>11. TasksHeld(rows', obliged, owner, inbox, queue, turn')
  BY <1>1, StartToolHeld DEF HeldInv
<1>12. TurnOK(rows', turn', acted, astray)
  BY <1>7, <1>9 DEF Texts, LaneText
<1> HIDE DEF r
<1>13. /\ Durable(rows', obliged, acted \cup turn.text, astray, replied, asked \cup astray, Fine)
       /\ \A c \in inbox : TaskOK(rows', c, acted \cup turn.text, astray)
       /\ \A i \in 1..Len(queue) : TaskOK(rows', queue[i], acted \cup turn.text, astray)
  <2>1. \A m \in turn.text : Known(rows', m) /\ (m \notin astray => Carried(rows', turn'.row, m))
    BY <1>6, <1>7, <1>12 DEF TurnOK, Carried
  <2> QED
    BY <1>3, <1>6, <1>7, <1>9, <1>10, <1>11, <2>1, ActedMore, ZenonT(60)
<1>14. ASSUME NEW i \in 1..Len(turn'.unread)
       PROVE  UnreadOK(rows', turn'.unread[i], acted \cup turn.text, astray)
  <2>1. turn'.unread[i].row \in Row
    BY <1>11 DEF TasksHeld, HeldRow
  <2>2. /\ Durable(rows', obliged, acted, astray, replied, asked \cup astray, Fine)
        /\ UnreadOK(rows', turn'.unread[i], acted, astray)
    BY <1>9 DEF Texts, LaneText
  <2>3. UnreadOK(rows', turn'.unread[i], acted \cup turn'.text, astray)
    BY <1>6, <1>7, <1>12, <2>1, <2>2, UnreadMore
  <2> QED
    BY <1>7, <2>3
<1>15. TurnOK(rows', turn', acted \cup turn.text, astray)
  BY <1>7, <1>12 DEF TurnOK
<1>16. LaneText(rows', inbox, queue, turn', acted \cup turn.text, astray)
  BY <1>13, <1>14, <1>15 DEF LaneText
<1>17. EndText(turn', phase, obliged, replied, excused, astray)
  BY <1>1, <1>7 DEF TextInv, EndText
<1>18. NoneLost(rows', Fine)
  BY <1>9 DEF Texts
<1> QED
  BY <1>1, <1>13, <1>16, <1>17, <1>18 DEF TextInv, Fine

\* The steers the turn reads are in rows that go with its own.
LEMMA ReadSteersText ==
    ASSUME HeldInv, TextInv, ReadSteers
    PROVE  TextInv'
<1> DEFINE read == TextOf(turn.unread)
           T == IF turn.tool THEN read ELSE {}
<1>1. /\ turn.stage = "running"
      /\ turn' = [turn EXCEPT !.text = turn.text \cup read, !.unread = <<>>]
      /\ acted' = acted \cup T
      /\ UNCHANGED <<rows, obliged, phase, owner, inbox, queue, replied, asked, excused, astray,
                     kills>>
  BY HeldFacts DEF ReadSteers, Turn
<1>2. /\ rows \in Table /\ turn \in Turn /\ TurnHeld(rows, owner, kills, turn)
      /\ TasksHeld(rows, obliged, owner, inbox, queue, turn)
  BY HeldFacts DEF HeldInv
<1>3. /\ turn.row \in Row /\ rows[turn.row].status = "processing" /\ rows[turn.row].into = None
      /\ turn.tool = rows[turn.row].tool
  BY <1>1, <1>2 DEF TurnHeld
<1>4. /\ turn'.row = turn.row /\ turn'.stage = turn.stage /\ turn'.unread = <<>>
      /\ turn'.text = turn.text \cup read /\ turn'.aborted = turn.aborted
      /\ turn'.tool = turn.tool /\ turn'.answered = turn.answered /\ turn'.send = turn.send
  BY <1>1, <1>2 DEF Turn
<1>5. turn.unread \in Seq(Task) /\ read \subseteq Message
  BY HeldFacts, TextOfType
<1>6. \A m : m \in read <=> \E i \in 1..Len(turn.unread) : m \in turn.unread[i].text
  BY <1>5 DEF TextOf
<1>7. \A i \in 1..Len(turn.unread) : /\ turn.unread[i].row \in Row
                                     /\ Home(rows, turn.unread[i].row, turn.row)
  BY <1>2 DEF TasksHeld, HeldRow, Home
<1>8. Texts(rows, obliged, inbox, queue, turn, acted, astray, replied, asked \cup astray, Fine)
  BY TextFacts
<1>9. /\ \A i \in 1..Len(turn.unread) : UnreadOK(rows, turn.unread[i], acted, astray)
      /\ TurnOK(rows, turn, acted, astray)
  BY <1>1, <1>8 DEF Texts, LaneText
<1> HIDE DEF read
<1>10. \A m \in read : /\ Known(rows, m) /\ (m \in acted => m \in astray)
                       /\ m \notin astray => Carried(rows, turn.row, m)
  BY <1>5, <1>6, <1>7, <1>9 DEF UnreadOK, Carried
<1>11. /\ Durable(rows, obliged, acted \cup T, astray, replied, asked \cup astray, Fine)
       /\ \A c \in inbox : TaskOK(rows, c, acted \cup T, astray)
       /\ \A i \in 1..Len(queue) : TaskOK(rows, queue[i], acted \cup T, astray)
  <2>1. CASE turn.tool
    <3>1. T = read
      BY <2>1
    <3> QED
      BY <1>2, <1>3, <1>5, <1>8, <1>10, <2>1, <3>1, ActedMore
  <2>2. CASE ~turn.tool
    <3>1. acted \cup T = acted
      BY <2>2
    <3> QED
      BY <1>8, <3>1 DEF Texts, LaneText
  <2> QED
    BY <2>1, <2>2
<1>12. 1..Len(turn'.unread) = {}
  BY <1>4
<1>13. TurnOK(rows, turn', acted \cup T, astray)
  <2>1. \A m \in turn'.text : Known(rows, m) /\ (m \in acted \cup T => m \in astray \/ turn'.tool)
    BY <1>4, <1>9, <1>10 DEF TurnOK
  <2>2. ASSUME NEW m \in Message, m \notin astray
        PROVE  m \in turn'.text <=> \E r \in Row : Home(rows, r, turn.row) /\ m \in rows[r].text
    <3>1. ASSUME m \in turn'.text
          PROVE  \E r \in Row : Home(rows, r, turn.row) /\ m \in rows[r].text
      BY <1>4, <1>9, <1>10, <2>2, <3>1 DEF TurnOK, Carried
    <3>2. ASSUME NEW r \in Row, Home(rows, r, turn.row), m \in rows[r].text
          PROVE  m \in turn'.text
      <4>1. CASE \E i \in 1..Len(turn.unread) : turn.unread[i].row = r
        BY <1>4, <1>6, <1>9, <2>2, <3>2, <4>1 DEF UnreadOK
      <4>2. CASE \A i \in 1..Len(turn.unread) : turn.unread[i].row # r
        BY <1>4, <1>9, <2>2, <3>2, <4>2 DEF TurnOK
      <4> QED
        BY <4>1, <4>2
    <3> QED
      BY <3>1, <3>2
  <2> QED
    BY <1>4, <1>12, <2>1, <2>2 DEF TurnOK
<1>14. LaneText(rows, inbox, queue, turn', acted \cup T, astray)
  BY <1>11, <1>12, <1>13 DEF LaneText
<1>15. EndText(turn', phase, obliged, replied, excused, astray)
  <2>1. EndText(turn, phase, obliged, replied, excused, astray) /\ turn.send = "none" /\ ~turn.answered
    BY <1>1, <1>2 DEF TextInv, TurnHeld
  <2>2. turn.aborted /\ phase = "up" => turn'.text \subseteq excused \cup astray
    BY <1>4, <1>6, <2>1 DEF EndText
  <2> QED
    BY <1>1, <1>4, <1>12, <2>1, <2>2 DEF EndText
<1>16. NoneLost(rows, Fine)
  BY <1>8 DEF Texts
<1> QED
  BY <1>1, <1>11, <1>14, <1>15, <1>16 DEF TextInv, Fine

\* Unread steers are let go of: their text is theirs again.
LEMMA UnlinkedText ==
    ASSUME HeldInv, TextInv, turn.stage # "idle", NEW ns, ns = UnlinkAll(rows, turn.unread),
           turn.row \notin obliged \/ \A i \in 1..Len(turn.unread) : turn.unread[i].text \subseteq astray,
           NEW t, t.row = turn.row, t.text = turn.text, t.tool = turn.tool, t.unread = <<>>
    PROVE  /\ Durable(ns, obliged, acted, astray, replied, asked \cup astray, Fine)
           /\ NoneLost(ns, Fine)
           /\ \A c \in inbox : TaskOK(ns, c, acted, astray)
           /\ \A i \in 1..Len(queue) : TaskOK(ns, queue[i], acted, astray)
           /\ \A i \in 1..Len(turn.unread) : TaskOK(ns, turn.unread[i], acted, astray)
           /\ TurnOK(ns, t, acted, astray)
<1> DEFINE S == {c \in Row : c \in RowsOf(turn.unread) /\ rows[c].status = "received"}
<1>1. Relinks(rows, ns, S, None) /\ rows \in Table /\ turn.unread \in Seq(Task) /\ Tree(rows)
  BY HeldFacts, UnlinkAllFields DEF Form
<1>2. \A i \in 1..Len(turn.unread) :
         /\ turn.unread[i].row \in S /\ rows[turn.unread[i].row].into = turn.row
         /\ turn.unread[i].row \notin obliged
  BY <1>1, UnreadApart DEF RowsOf, HeldRow
<1>3. ASSUME NEW c \in S
      PROVE  \E i \in 1..Len(turn.unread) : c = turn.unread[i].row
  BY <1>1 DEF RowsOf
<1>4. /\ Texts(rows, obliged, inbox, queue, turn, acted, astray, replied, asked \cup astray, Fine)
  BY TextFacts
<1>5. /\ \A i \in 1..Len(turn.unread) : UnreadOK(rows, turn.unread[i], acted, astray)
      /\ \A c \in inbox : TaskOK(rows, c, acted, astray)
      /\ \A i \in 1..Len(queue) : TaskOK(rows, queue[i], acted, astray)
      /\ TurnOK(rows, turn, acted, astray)
      /\ Durable(rows, obliged, acted, astray, replied, asked \cup astray, Fine)
      /\ NoneLost(rows, Fine)
  BY <1>4 DEF Texts, LaneText
<1>6. /\ turn.row \in Row /\ rows[turn.row].status = "processing" /\ turn.row # None
      /\ \A c \in inbox : c.row # turn.row /\ c.row \in Row /\ c.row # None
      /\ \A i \in 1..Len(queue) : /\ queue[i].row # turn.row /\ queue[i].row \in Row
                                  /\ queue[i].row # None
  BY RowNumbers DEF HeldInv, TurnHeld, TasksHeld, HeldRow
<1>7. S \subseteq Row /\ turn.row \notin S
  BY <1>6
<1> HIDE DEF S
<1>8. \A c \in S : rows[c].into = turn.row /\ c \notin obliged
  BY <1>2, <1>3
<1>9. Durable(ns, obliged, acted, astray, replied, asked \cup astray, Fine)
  <2>1. ASSUME NEW c \in S, NEW m \in rows[c].text
        PROVE  m \notin astray => /\ m \in acted => m \in astray
                                  /\ turn.row \notin obliged
    <3>1. PICK i \in 1..Len(turn.unread) : c = turn.unread[i].row
      BY <1>3
    <3>2. m \in Message
      BY <1>1, <1>7, RowFields
    <3> QED
      BY <1>5, <3>1, <3>2 DEF UnreadOK
  <2>2. \A c \in S : \A m \in rows[c].text : m \in acted => m \in astray
    BY <2>1
  <2>3. \A c \in S : \A m \in rows[c].text :
          m \in replied => m \in asked \cup astray \/ (c \notin obliged /\ rows[c].into \notin obliged)
    BY <1>8, <2>1
  <2>4. None \in Row \cup {None}
    OBVIOUS
  <2> QED
    BY <1>1, <1>5, <1>7, <2>2, <2>3, <2>4, RelinksDurable
<1>10. NoneLost(ns, Fine)
  BY <1>1, <1>5, RelinksLost
<1>11. ASSUME NEW u, TaskOK(rows, u, acted, astray), u.row # None, u.row # turn.row
       PROVE  TaskOK(ns, u, acted, astray)
  BY <1>1, <1>8, <1>11, RelinksTask
<1>12. ASSUME NEW i \in 1..Len(turn.unread)
       PROVE  TaskOK(ns, turn.unread[i], acted, astray)
  <2> DEFINE u == turn.unread[i]
  <2>1. u.row \in S /\ u.row \in Row /\ rows[u.row].into # None /\ UnreadOK(rows, u, acted, astray)
    BY <1>2, <1>5, <1>6, <1>7
  <2> HIDE DEF u
  <2>2. \A r \in Row : Home(ns, r, u.row) <=> r = u.row
    <3>1. \A r \in Row : ns[r].into = None \/ ns[r].into = rows[r].into
      BY <1>1 DEF Relinks
    <3>2. \A r \in Row : rows[r].into # u.row
      BY <1>1, <2>1, RowNumbers DEF Tree
    <3> QED
      BY <2>1, <3>1, <3>2, RowNumbers DEF Home
  <2>3. ns[u.row].text = rows[u.row].text /\ \A m : Known(ns, m) <=> Known(rows, m)
    BY <1>1, <2>1 DEF Relinks, Known
  <2>4. \A m : Carried(ns, u.row, m) <=> m \in rows[u.row].text
    BY <2>1, <2>2, <2>3 DEF Carried
  <2>5. TaskOK(ns, u, acted, astray)
    BY <2>1, <2>3, <2>4 DEF TaskOK, UnreadOK
  <2> QED
    BY <2>5 DEF u
<1>13. TurnOK(ns, t, acted, astray)
  <2>1. \A m : Known(ns, m) <=> Known(rows, m)
    BY <1>1 DEF Relinks, Known
  <2>2. ASSUME NEW r \in Row
        PROVE  Home(ns, r, turn.row) <=> /\ Home(rows, r, turn.row)
                                         /\ \A i \in 1..Len(turn.unread) : turn.unread[i].row # r
    BY <1>1, <1>2, <1>3, <1>6, <1>7 DEF Home, Relinks
  <2>3. \A r \in Row : ns[r].text = rows[r].text
    BY <1>1 DEF Relinks
  <2>4. 1..Len(t.unread) = {}
    OBVIOUS
  <2> QED
    BY <1>5, <2>1, <2>2, <2>3, <2>4 DEF TurnOK
<1> QED
  BY <1>5, <1>6, <1>9, <1>10, <1>11, <1>12, <1>13

\* Unread steers go back to the queue, or astray if the turn was neither aborted nor may requeue.
LEMMA TerminalText ==
    ASSUME HeldInv, TextInv, Terminal
    PROVE  TextInv'
<1> DEFINE requeued == ~turn.aborted /\ ~Closing
           un == IF requeued THEN <<>> ELSE turn.unread
           se == IF turn.aborted THEN "settled" ELSE "due"
<1>1. /\ turn.stage = "running"
      /\ rows' = IF requeued THEN UnlinkAll(rows, turn.unread) ELSE rows
      /\ queue' = IF requeued THEN queue \o turn.unread ELSE queue
      /\ turn' = [turn EXCEPT !.stage = "tail", !.unread = un, !.send = se]
      /\ astray' = astray \cup (IF turn.aborted THEN {} ELSE TextOf(turn'.unread))
      /\ UNCHANGED <<obliged, phase, owner, inbox, replied, asked, excused, acted, kills>>
  BY HeldFacts DEF Terminal, Turn
<1>2. /\ turn \in Turn /\ turn.unread \in Seq(Task) /\ queue \in Seq(Task)
      /\ TurnHeld(rows, owner, kills, turn) /\ ~turn.answered
  BY <1>1, HeldFacts DEF HeldInv, TurnHeld
<1>3. /\ turn'.row = turn.row /\ turn'.stage = "tail" /\ turn'.unread = un
      /\ turn'.text = turn.text /\ turn'.aborted = turn.aborted
      /\ turn'.tool = turn.tool /\ turn'.answered = turn.answered /\ turn'.send = se
  <2> HIDE DEF un, se
  <2> QED
    BY <1>1, <1>2 DEF Turn
<1>4. EndText(turn, phase, obliged, replied, excused, astray) /\ turn.row \notin obliged
  BY <1>1 DEF TextInv, EndText
<1>5. CASE requeued
  <2>1. /\ rows' = UnlinkAll(rows, turn.unread) /\ queue' = queue \o turn.unread /\ turn'.unread = <<>>
        /\ turn'.send = "due"
    BY <1>1, <1>3, <1>5
  <2>2. 1..Len(turn'.unread) = {} /\ astray' = astray
    <3>1. TextOf(<<>>) = {}
      BY DEF TextOf
    <3> QED
      BY <1>1, <2>1, <3>1
  <2> HIDE DEF requeued, un, se
  <2>3. /\ Durable(rows', obliged, acted, astray, replied, asked \cup astray, Fine)
        /\ NoneLost(rows', Fine)
        /\ \A c \in inbox : TaskOK(rows', c, acted, astray)
        /\ \A i \in 1..Len(queue) : TaskOK(rows', queue[i], acted, astray)
        /\ \A i \in 1..Len(turn.unread) : TaskOK(rows', turn.unread[i], acted, astray)
        /\ TurnOK(rows', turn', acted, astray)
    BY <1>1, <1>3, <1>4, <2>1, UnlinkedText
  <2>4. \A i \in 1..Len(queue') :
             \/ i \in 1..Len(queue) /\ queue'[i] = queue[i]
             \/ i - Len(queue) \in 1..Len(turn.unread) /\ queue'[i] = turn.unread[i - Len(queue)]
    BY <1>2, <2>1
  <2>5. \A i \in 1..Len(queue') : TaskOK(rows', queue'[i], acted, astray)
    BY <2>3, <2>4
  <2>6. LaneText(rows', inbox, queue', turn', acted, astray)
    BY <2>2, <2>3, <2>5 DEF LaneText
  <2>7. EndText(turn', phase, obliged, replied, excused, astray)
    BY <1>1, <1>2, <1>3, <1>4, <2>1, <2>2 DEF EndText
  <2> QED
    BY <1>1, <2>2, <2>3, <2>6, <2>7 DEF TextInv, Fine
<1>6. CASE ~requeued
  <2>1. rows' = rows /\ queue' = queue /\ turn'.unread = turn.unread
    BY <1>1, <1>3, <1>6
  <2>2. /\ turn'.send = (IF turn.aborted THEN "settled" ELSE "due")
        /\ astray \subseteq astray'
        /\ ~turn.aborted => \A i \in 1..Len(turn.unread) : turn.unread[i].text \subseteq astray'
    BY <1>1, <1>2, <1>3, <2>1 DEF TextOf
  <2> HIDE DEF requeued, un, se
  <2>3. LaneText(rows, inbox, queue, turn', acted, astray)
    <3>1. LaneText(rows, inbox, queue, turn, acted, astray)
      BY DEF TextInv
    <3> QED
      BY <1>1, <1>3, <2>1, <3>1 DEF LaneText, TurnOK
  <2>4. LaneText(rows, inbox, queue, turn', acted, astray')
    BY <2>2, <2>3, LaneMono
  <2>5. Fine \subseteq Fine' /\ asked \cup astray \subseteq asked' \cup astray'
    BY <1>1, <2>2 DEF Fine
  <2>6. Durable(rows, obliged, acted, astray', replied, asked' \cup astray', Fine') /\ NoneLost(rows, Fine')
    BY <2>2, <2>5, DurableMono, LostMono DEF TextInv
  <2>7. EndText(turn', phase, obliged, replied, excused, astray')
    BY <1>1, <1>2, <1>3, <1>4, <2>1, <2>2 DEF EndText
  <2> QED
    BY <1>1, <2>1, <2>4, <2>6, <2>7 DEF TextInv
<1> QED
  BY <1>5, <1>6

\* The reply answers what is in the rows that go with the turn's; no reply was recorded for
\* them before.
LEMMA RecordReplyText ==
    ASSUME HeldInv, TextInv, RecordReply
    PROVE  /\ TextInv'
           /\ turn.row \notin obliged /\ turn.text \cap replied \subseteq asked \cup astray
<1>1. /\ turn.send = "due" /\ turn' = [turn EXCEPT !.send = "recorded"]
      /\ obliged' = obliged \cup {turn.row} /\ replied' = replied \cup turn.text
      /\ UNCHANGED <<rows, phase, inbox, queue, asked, excused, acted, astray>>
  BY DEF RecordReply
<1>2. /\ turn \in Turn /\ turn.stage = "tail" /\ ~turn.answered /\ rows \in Table
      /\ turn.text \subseteq Message
      /\ turn.row \in Row /\ rows[turn.row].into = None
  <2>1. turn.stage = "tail"
    BY <1>1, HeldFacts, IdleType DEF HeldInv, TurnHeld, Turn
  <2> QED
    BY <1>1, <2>1, HeldFacts DEF HeldInv, TurnHeld, Turn
<1>3. /\ turn'.row = turn.row /\ turn'.stage = turn.stage /\ turn'.send = "recorded"
      /\ turn'.tool = turn.tool /\ turn'.answered = turn.answered /\ turn'.unread = turn.unread
      /\ turn'.text = turn.text /\ turn'.aborted = turn.aborted
  BY <1>1, <1>2 DEF Turn
<1>4. /\ Durable(rows, obliged, acted, astray, replied, asked \cup astray, Fine)
      /\ LaneText(rows, inbox, queue, turn, acted, astray)
      /\ EndText(turn, phase, obliged, replied, excused, astray)
      /\ NoneLost(rows, Fine)
  BY DEF TextInv
<1>5. /\ TurnOK(rows, turn, acted, astray)
      /\ \A i \in 1..Len(turn.unread) : UnreadOK(rows, turn.unread[i], acted, astray)
  BY <1>2, <1>4 DEF LaneText
<1>6. turn.row \notin obliged /\ \A i \in 1..Len(turn.unread) : turn.unread[i].text \subseteq astray
  BY <1>1, <1>4 DEF EndText
<1>7. ASSUME NEW m \in turn.text, m \notin astray
      PROVE  \E x \in Row : Home(rows, x, turn.row) /\ m \in rows[x].text
  BY <1>2, <1>5, <1>7 DEF TurnOK
<1>8. ASSUME NEW m \in turn.text, m \in replied, m \notin asked \cup astray
      PROVE  FALSE
  <2>1. PICK x \in Row : Home(rows, x, turn.row) /\ m \in rows[x].text
    BY <1>7, <1>8
  <2>2. x \in obliged \/ rows[x].into \in obliged
    BY <1>4, <1>8, <2>1 DEF Durable
  <2> QED
    BY <1>2, <1>4, <1>6, <2>1, <2>2, RowNumbers DEF Durable, Home
<1>9. Durable(rows, obliged', acted, astray, replied', asked \cup astray, Fine')
  <2>1. \A m \in acted \cup replied' : Known(rows, m)
    BY <1>1, <1>4, <1>5 DEF Durable, TurnOK
  <2>2. \A r \in obliged' : r \in Row /\ rows[r].into = None
    BY <1>1, <1>2, <1>4 DEF Durable
  <2>3. Fine' = Fine \cup turn.text
    BY <1>1 DEF Fine
  <2>4. ASSUME NEW c \in Row, Home(rows, c, turn.row)
        PROVE  rows[c].text \subseteq Fine'
    <3>1. ASSUME NEW m \in rows[c].text, m \notin astray
          PROVE  m \in turn.text
      <4>1. m \in Message
        BY <1>2, <3>1, RowFields
      <4>2. \A i \in 1..Len(turn.unread) : turn.unread[i].row # c
        BY <1>5, <1>6, <3>1, <4>1 DEF UnreadOK
      <4> QED
        BY <1>5, <2>4, <3>1, <4>1, <4>2 DEF TurnOK
    <3> QED
      BY <2>3, <3>1 DEF Fine
  <2>5. \A r \in obliged', c \in Row : Home(rows, c, r) => rows[c].text \subseteq Fine'
    BY <1>1, <1>4, <2>3, <2>4 DEF Durable
  <2>6. ASSUME NEW r \in Row, NEW m \in rows[r].text, m \in replied'
        PROVE  m \in asked \cup astray \/ r \in obliged' \/ rows[r].into \in obliged'
    <3>1. CASE m \in replied
      BY <1>1, <1>4, <3>1 DEF Durable
    <3>2. CASE m \in turn.text /\ m \notin astray
      <4>1. PICK x \in Row : Home(rows, x, turn.row) /\ m \in rows[x].text
        BY <1>7, <3>2
      <4>2. x = r
        BY <1>4, <4>1 DEF Durable
      <4> QED
        BY <1>1, <4>1, <4>2 DEF Home
    <3> QED
      BY <1>1, <2>6, <3>1, <3>2
  <2> QED
    BY <1>4, <2>1, <2>2, <2>5, <2>6 DEF Durable
<1>10. NoneLost(rows, Fine')
  BY <1>1, <1>4 DEF NoneLost, Fine
<1>11. LaneText(rows, inbox, queue, turn', acted, astray)
  BY <1>2, <1>3, <1>4 DEF LaneText, TurnOK
<1>12. EndText(turn', phase, obliged', replied', excused, astray)
  BY <1>1, <1>2, <1>3, <1>4, <1>6 DEF EndText
<1> QED
  BY <1>1, <1>6, <1>8, <1>9, <1>10, <1>11, <1>12 DEF TextInv

\* An answered turn's text is in its recorded reply.
LEMMA SendReplyText ==
    ASSUME HeldInv, TextInv, SendReply
    PROVE  TextInv'
<1>1. PICK ok \in BOOLEAN : turn' = [turn EXCEPT !.send = "settled", !.answered = ok]
  BY Zenon DEF SendReply
<1>2. /\ turn.send = "recorded"
      /\ UNCHANGED <<rows, obliged, phase, inbox, queue, replied, asked, excused, acted, astray>>
  BY DEF SendReply, history
<1>3. turn \in Turn
  BY HeldFacts
<1>4. /\ turn'.row = turn.row /\ turn'.stage = turn.stage /\ turn'.send = "settled"
      /\ turn'.tool = turn.tool /\ turn'.unread = turn.unread /\ turn'.text = turn.text
      /\ turn'.aborted = turn.aborted
  BY <1>1, <1>3 DEF Turn
<1>5. LaneText(rows, inbox, queue, turn', acted, astray)
  BY <1>4 DEF TextInv, LaneText, TurnOK
<1>6. EndText(turn', phase, obliged, replied, excused, astray)
  <2>1. turn.stage # "running"
    BY <1>2, HeldFacts DEF HeldInv, TurnHeld
  <2> QED
    BY <1>2, <1>4, <2>1 DEF TextInv, EndText
<1> QED
  BY <1>2, <1>5, <1>6 DEF TextInv, Fine

\* A row whose turn failed keeps its text.
LEMMA MarkFailedPlain ==
    ASSUME NEW rs \in Table, Tree(rs), NEW r \in Row, Owes(rs, r)
    PROVE  Plain(rs, MarkFailed(rs, r, MaxAttempts))
<1> DEFINE ns == MarkFailed(rs, r, MaxAttempts)
           to == FailOutcome(rs, r, MaxAttempts)
<1>1. CASE to = "received"
  <2>1. Rewrites(rs, ns, r, "received", rs[r].attempts, rs[r].owner, rs[r].tool)
    BY <1>1, FailedOwedFields
  <2> HIDE DEF ns
  <2>2. Plain(rs, ns)
    BY <2>1, RewritesPlain
  <2> QED
    BY <2>2 DEF ns
<1>2. CASE to # "received"
  <2>1. to \in {"dead", "interrupted"} /\ Settles(rs, ns, Family(rs, r), to)
    BY <1>2, MarkFailedSettles
  <2>2. Family(rs, r) \subseteq Row
    BY DEF Family
  <2> HIDE DEF ns, to
  <2>3. Plain(rs, ns)
    BY <2>1, <2>2, SettlesPlain
  <2> QED
    BY <2>3 DEF ns
<1> QED
  BY <1>1, <1>2

\* A row that waits for the user keeps its text.
LEMMA MarkInterruptedPlain ==
    ASSUME NEW rs \in Table, Tree(rs), NEW r \in Row, Owes(rs, r)
    PROVE  Plain(rs, MarkInterrupted(rs, r))
<1> DEFINE ns == MarkInterrupted(rs, r)
<1>1. Settles(rs, ns, Family(rs, r), "interrupted") /\ Family(rs, r) \subseteq Row
  BY MarkInterruptedSettles DEF Family
<1> HIDE DEF ns
<1>2. Plain(rs, ns)
  BY <1>1, SettlesPlain
<1> QED
  BY <1>2 DEF ns

\* However a turn ends, text leaves the disk only with a row that closes.
LEMMA SettledText ==
    ASSUME HeldInv, turn.stage # "idle", NEW rs, NEW again, NEW threw,
           Sound(rs, obliged, owner, kills, inbox, queue, Idle),
           Texts(rs, obliged, inbox, queue, Idle, acted, astray, replied, again, Fine),
           rs[turn.row] = rows[turn.row],
           NEW ns, ns = Settled(rs, threw),
           turn.answered \/ ~(threw \/ (Closing /\ turn.aborted))
             => \A e \in Family(rs, turn.row) : rs[e].text \subseteq Fine
    PROVE  Texts(ns, obliged, inbox, queue, Idle, acted, astray, replied, again, Fine)
<1> DEFINE r == turn.row
<1>1. /\ r \in Row /\ rs[r].status = "processing" /\ rs[r].into = None /\ Owes(rs, r)
      /\ kills[r] < rs[r].attempts /\ kills[r] \in Nat
  BY DEF HeldInv, TurnHeld, Owes, TypeOK
<1>2. rs \in Table /\ Tree(rs)
  BY SoundFacts
<1>3. Clear(inbox, queue, Idle, {r})
  BY UnlinkedHeld DEF Clear
<1>4. CASE ns = ReleaseOnShutdown(rs, r)
  <2>1. rs[r].attempts \in Nat /\ rs[r].attempts > 0
    BY <1>1, <1>2, RowFields
  <2>2. Rewrites(rs, ns, r, "received", rs[r].attempts - 1, None, rs[r].tool)
    BY <1>1, <1>2, <1>4, <2>1, ReleaseFields
  <2>3. Plain(rs, ns)
    BY <1>1, <2>2, RewritesPlain
  <2> QED
    BY <2>3, PlainTexts
<1>5. CASE ns = MarkInterrupted(rs, r)
  <2>1. Plain(rs, ns)
    BY <1>1, <1>2, <1>5, MarkInterruptedPlain
  <2> QED
    BY <2>1, PlainTexts
<1>6. CASE ns = MarkFailed(rs, r, MaxAttempts)
  <2>1. Plain(rs, ns)
    BY <1>1, <1>2, <1>6, MarkFailedPlain
  <2> QED
    BY <2>1, PlainTexts
<1>7. CASE turn.answered \/ ~(threw \/ (Closing /\ turn.aborted))
  <2>1. Fine \subseteq Fine /\ ns = MarkDone(rs, r)
    BY <1>7 DEF Settled
  <2> QED
    BY <1>1, <1>3, <1>7, <2>1, MarkDoneText
<1>8. CASE ~turn.answered /\ (threw \/ (Closing /\ turn.aborted))
  BY <1>4, <1>5, <1>6, <1>8 DEF Settled
<1> QED
  BY <1>7, <1>8

\* The rest of the lane, once the turn is over.
LEMMA WithoutTurn ==
    ASSUME HeldInv, turn.stage # "idle", NEW rs, Form(rs, obliged, owner), Budget(rs, kills),
           Aside(rows, rs, RowsOf(turn.unread))
    PROVE  Sound(rs, obliged, owner, kills, inbox, queue, Idle)
<1>1. Clear(inbox, queue, Idle, RowsOf(turn.unread))
  BY UnlinkedHeld DEF Clear
<1>2. TasksHeld(rows, obliged, owner, inbox, queue, Idle) /\ TurnHeld(rows, owner, kills, Idle)
  BY IdleType DEF HeldInv, TasksHeld, TurnHeld, Idle
<1>3. TasksHeld(rs, obliged, owner, inbox, queue, Idle) /\ TurnHeld(rs, owner, kills, Idle)
  BY <1>1, <1>2, Undisturbed
<1> QED
  BY <1>3, IdleType DEF Sound

\* A turn that closes its row has answered, given up or led astray all that goes with it.
LEMMA FinishTurnText ==
    ASSUME HeldInv, TextInv, FinishTurn
    PROVE  TextInv'
<1> DEFINE rs == IF Closing /\ turn.answered THEN UnlinkAll(rows, turn.unread) ELSE rows
<1>1. /\ turn.stage = "tail" /\ turn.send = "settled"
      /\ rows' = Settled(rs, FALSE) /\ turn' = Idle
      /\ UNCHANGED <<obliged, phase, owner, inbox, queue, replied, asked, excused, acted, astray,
                     kills>>
  BY DEF FinishTurn, EndTurn
<1>2. /\ rows \in Table /\ Form(rows, obliged, owner) /\ Budget(rows, kills)
      /\ turn.row \in Row /\ turn.stage # "idle"
  BY <1>1, HeldFacts DEF HeldInv, TurnHeld
<1>3. /\ Durable(rows, obliged, acted, astray, replied, asked \cup astray, Fine)
      /\ NoneLost(rows, Fine) /\ LaneText(rows, inbox, queue, turn, acted, astray)
      /\ EndText(turn, phase, obliged, replied, excused, astray)
  BY DEF TextInv
<1>4. CASE Closing /\ turn.answered
  <2>1. rs = UnlinkAll(rows, turn.unread) /\ turn.text \subseteq replied
        /\ \A i \in 1..Len(turn.unread) : turn.unread[i].text \subseteq astray
    BY <1>3, <1>4 DEF EndText
  <2> HIDE DEF rs
  <2>2. /\ Form(rs, obliged, owner) /\ Budget(rs, kills) /\ rs[turn.row] = rows[turn.row]
        /\ Aside(rows, rs, RowsOf(turn.unread))
    BY <1>2, <2>1, UnlinkedHeld
  <2>3. Sound(rs, obliged, owner, kills, inbox, queue, Idle) /\ rs \in Table
    BY <1>2, <2>2, WithoutTurn DEF Form, Shape
  <2> DEFINE t == [turn EXCEPT !.unread = <<>>]
  <2>4. t.row = turn.row /\ t.text = turn.text /\ t.tool = turn.tool /\ t.unread = <<>>
    BY HeldFacts DEF Turn
  <2> HIDE DEF t
  <2>5. /\ Durable(rs, obliged, acted, astray, replied, asked \cup astray, Fine) /\ NoneLost(rs, Fine)
        /\ \A c \in inbox : TaskOK(rs, c, acted, astray)
        /\ \A i \in 1..Len(queue) : TaskOK(rs, queue[i], acted, astray)
        /\ TurnOK(rs, t, acted, astray)
    BY <1>2, <2>1, <2>4, UnlinkedText
  <2>6. Idle.stage = "idle" /\ 1..Len(Idle.unread) = {} /\ 1..Len(t.unread) = {}
    BY <2>4, IdleType DEF Idle
  <2>7. Texts(rs, obliged, inbox, queue, Idle, acted, astray, replied, asked \cup astray, Fine)
    BY <2>5, <2>6 DEF Texts, LaneText
  <2>8. ASSUME NEW e \in Family(rs, turn.row)
        PROVE  rs[e].text \subseteq Fine
    <3>1. e \in Row /\ Home(rs, e, turn.row) /\ rs[e].text \subseteq Message
      BY <2>3, RowFields DEF Family, Home
    <3> QED
      BY <2>1, <2>4, <2>5, <2>6, <3>1 DEF TurnOK, Fine
  <2>9. Texts(rows', obliged, inbox, queue, Idle, acted, astray, replied, asked \cup astray, Fine)
    BY <1>1, <1>2, <2>2, <2>3, <2>7, <2>8, SettledText
  <2> QED
    BY <1>1, <2>9, IdleText DEF Texts, TextInv, Fine
<1>5. CASE ~(Closing /\ turn.answered)
  <2>1. rs = rows
    BY <1>5
  <2> HIDE DEF rs
  <2>2. Sound(rows, obliged, owner, kills, inbox, queue, Idle)
    BY <1>2, WithoutTurn DEF Aside
  <2>3. Texts(rows, obliged, inbox, queue, Idle, acted, astray, replied, asked \cup astray, Fine)
    BY <1>3, IdleText DEF Texts
  <2>4. ASSUME NEW e \in Family(rows, turn.row), Closing => ~turn.aborted
        PROVE  rows[e].text \subseteq Fine
    <3>1. e \in Row /\ Home(rows, e, turn.row) /\ rows[e].text \subseteq Message
      BY <1>2, RowFields DEF Family, Home
    <3>2. phase # "down"
      BY <1>2, IdleType DEF HeldInv, TypeOK, Idle
    <3>3. turn.aborted => phase = "up"
      BY <2>4, <3>2 DEF HeldInv, TypeOK, Closing
    <3>4. /\ turn.text \subseteq Fine
          /\ \A i \in 1..Len(turn.unread) : turn.unread[i].text \subseteq Fine
      BY <1>1, <1>3, <3>3 DEF EndText, Fine
    <3>5. TurnOK(rows, turn, acted, astray)
          /\ \A i \in 1..Len(turn.unread) : UnreadOK(rows, turn.unread[i], acted, astray)
      BY <1>1, <1>3 DEF LaneText
    <3>6. ASSUME NEW m \in rows[e].text, m \notin astray
          PROVE  m \in Fine
      <4>1. CASE \E i \in 1..Len(turn.unread) : turn.unread[i].row = e
        BY <3>1, <3>4, <3>5, <3>6, <4>1 DEF UnreadOK
      <4>2. CASE \A i \in 1..Len(turn.unread) : turn.unread[i].row # e
        BY <3>1, <3>4, <3>5, <3>6, <4>2 DEF TurnOK
      <4> QED
        BY <4>1, <4>2
    <3> QED
      BY <3>6 DEF Fine
  <2>5. Texts(rows', obliged, inbox, queue, Idle, acted, astray, replied, asked \cup astray, Fine)
    BY <1>1, <1>2, <1>5, <2>1, <2>2, <2>3, <2>4, SettledText
  <2> QED
    BY <1>1, <2>5, IdleText DEF Texts, TextInv, Fine
<1> QED
  BY <1>4, <1>5

\* A turn that throws closes no row.
LEMMA ThrowTurnText ==
    ASSUME HeldInv, TextInv, ThrowTurn
    PROVE  TextInv'
<1>1. /\ rows' = Settled(rows, TRUE) /\ turn' = Idle
      /\ UNCHANGED <<obliged, phase, owner, inbox, queue, replied, asked, excused, acted, astray,
                     kills>>
  BY DEF ThrowTurn, EndTurn
<1>2. turn.stage # "idle" /\ ~turn.answered
  BY IdleType DEF ThrowTurn, HeldInv, TurnHeld
<1>3. Sound(rows, obliged, owner, kills, inbox, queue, Idle)
  BY <1>2, HeldFacts, WithoutTurn DEF Aside
<1>4. Texts(rows, obliged, inbox, queue, Idle, acted, astray, replied, asked \cup astray, Fine)
  BY IdleText DEF TextInv, Texts
<1>5. Texts(rows', obliged, inbox, queue, Idle, acted, astray, replied, asked \cup astray, Fine)
  <2>1. TRUE \/ (Closing /\ turn.aborted)
    OBVIOUS
  <2> QED
    BY <1>1, <1>2, <1>3, <1>4, <2>1, SettledText
<1> QED
  BY <1>1, <1>5, IdleText DEF Texts, TextInv, Fine

-----------------------------------------------------------------------------
(* Shutdown, crash, boot.                                                  *)

\* A turn may end without an answer from here on.
LEMMA BeginShutdownText ==
    ASSUME HeldInv, TextInv, BeginShutdown
    PROVE  TextInv'
<1>1. /\ phase = "up" /\ phase' = "closing"
      /\ UNCHANGED <<rows, obliged, inbox, queue, turn, replied, asked, excused, acted, astray>>
  BY DEF BeginShutdown
<1>2. EndText(turn, phase', obliged, replied, excused, astray)
  BY <1>1 DEF TextInv, EndText
<1> QED
  BY <1>1, <1>2 DEF TextInv, Fine

\* A turn aborted by the shutdown keeps its text owed.
LEMMA AbortLanesText ==
    ASSUME HeldInv, TextInv, AbortLanes
    PROVE  TextInv'
<1>1. /\ phase' = "aborted" /\ queue' = <<>>
      /\ turn' = IF turn.stage = "idle" THEN turn ELSE [turn EXCEPT !.aborted = TRUE]
      /\ UNCHANGED <<rows, obliged, inbox, replied, asked, excused, acted, astray>>
  BY DEF AbortLanes, history
<1>2. 1..Len(<<>>) = {}
  OBVIOUS
<1>3. LaneText(rows, inbox, <<>>, turn, acted, astray)
  BY <1>2 DEF TextInv, LaneText
<1>4. /\ phase' # "up" /\ EndText(turn, phase, obliged, replied, excused, astray)
      /\ excused \subseteq excused
  BY <1>1 DEF TextInv
<1>5. /\ LaneText(rows, inbox, <<>>, turn', acted, astray)
      /\ EndText(turn', phase', obliged, replied, excused, astray)
  BY <1>1, <1>3, <1>4, AbortedText
<1> QED
  BY <1>1, <1>5 DEF TextInv, Fine

\* What the process forgets is on disk.
LEMMA GoneText ==
    ASSUME HeldInv, TextInv, Gone
    PROVE  TextInv'
<1>1. /\ inbox' = {} /\ queue' = <<>> /\ turn' = Idle
      /\ UNCHANGED <<rows, obliged, replied, asked, excused, acted, astray>>
  BY DEF Gone
<1>2. 1..Len(<<>>) = {}
  OBVIOUS
<1>3. LaneText(rows, {}, <<>>, turn, acted, astray)
  BY <1>2 DEF TextInv, LaneText
<1>4. /\ LaneText(rows, {}, <<>>, Idle, acted, astray)
      /\ EndText(Idle, phase', obliged, replied, excused, astray)
  BY <1>3, IdleText
<1> QED
  BY <1>1, <1>4 DEF TextInv, Fine

\* A new process starts with an idle lane.
LEMMA BootText ==
    ASSUME HeldInv, TextInv, Boot
    PROVE  TextInv'
<1>1. /\ phase = "down"
      /\ UNCHANGED <<rows, obliged, inbox, queue, turn, replied, asked, excused, acted, astray>>
  BY DEF Boot, history
<1>2. turn = Idle
  BY <1>1 DEF HeldInv, TypeOK
<1>3. EndText(turn, phase', obliged, replied, excused, astray)
  BY <1>2, IdleText DEF TextInv
<1> QED
  BY <1>1, <1>3 DEF TextInv, Fine

-----------------------------------------------------------------------------
(* Replay.                                                                 *)

\* Recovering orphans changes neither text nor link.
LEMMA RecoverPlain ==
    ASSUME NEW rs \in Table, NEW o
    PROVE  Plain(rs, RecoverOrphans(rs, o))
<1> DEFINE ns == RecoverOrphans(rs, o)
<1>1. \A c \in Row : /\ ns[c].key = rs[c].key /\ ns[c].text = rs[c].text /\ ns[c].tool = rs[c].tool
                     /\ ns[c].into = rs[c].into
                     /\ ns[c].status = rs[c].status \/ (Owes(rs, c) /\ ns[c].status = "received")
  BY RecoverFields
<1> HIDE DEF ns
<1>2. Plain(rs, ns)
  BY <1>1 DEF Plain, Owes
<1> QED
  BY <1>2 DEF ns

\* A row that only changes its claim or its status.
LEMMA PlainText ==
    ASSUME HeldInv, TextInv, Plain(rows, rows'),
           UNCHANGED <<obliged, phase, inbox, queue, turn, replied, asked, excused, acted, astray>>
    PROVE  TextInv'
<1>1. Texts(rows', obliged, inbox, queue, turn, acted, astray, replied, asked \cup astray, Fine)
  BY TextFacts, PlainTexts
<1> QED
  BY <1>1 DEF Texts, TextInv, Fine

\* Nor does the replay's beginning.
LEMMA BeginReplayText ==
    ASSUME HeldInv, TextInv, BeginReplay
    PROVE  TextInv'
<1>1. /\ rows' = rows \/ rows' = RecoverOrphans(rows, owner)
      /\ UNCHANGED <<obliged, phase, inbox, queue, turn, replied, asked, excused, acted, astray>>
  BY DEF BeginReplay, history
<1>2. Plain(rows, rows')
  BY <1>1, HeldFacts, RecoverPlain DEF Plain
<1> QED
  BY <1>1, <1>2, PlainText

\* A dead-lettered row keeps its text.
LEMMA ReplayStaleText ==
    ASSUME HeldInv, TextInv, NEW r \in Row, ReplayStale(r)
    PROVE  TextInv'
<1>1. /\ NextToReplay(r) /\ rows' = MarkDead(rows, r)
      /\ UNCHANGED <<obliged, phase, inbox, queue, turn, replied, asked, excused, acted, astray>>
  BY DEF ReplayStale, history
<1>2. Settles(rows, rows', Family(rows, r), "dead") /\ Family(rows, r) \subseteq Row
  BY <1>1, ReplayedRow, HeldFacts, MarkDeadSettles DEF Form, Family
<1>3. Plain(rows, rows')
  BY <1>2, SettlesPlain
<1> QED
  BY <1>1, <1>3, PlainText

\* Claiming a row changes neither its text nor its links.
LEMMA ClaimedText ==
    ASSUME HeldInv, NEW r \in Row, NextToReplay(r), NEW ms, ms = Claim(rows, r, owner)
    PROVE  /\ Plain(rows, ms) /\ ms \in Table /\ Tree(ms) /\ Owes(ms, r)
           /\ ms[r].status = "received" /\ ms[r].into = None
           /\ Sound(ms, obliged, owner, kills, inbox, queue, turn)
<1>1. /\ rows[r].status = "received" /\ rows[r].owner = None /\ Owes(rows, r)
      /\ Clear(inbox, queue, turn, {r})
  BY ReplayedRow
<1>2. Rewrites(rows, ms, r, "received", rows[r].attempts, owner, rows[r].tool)
  BY <1>1, HeldFacts, ClaimFields
<1>3. Plain(rows, ms)
  BY <1>1, <1>2, RewritesPlain
<1>4. /\ Form(ms, obliged, owner) /\ Budget(ms, kills) /\ Aside(rows, ms, {r})
      /\ ms[r].status = "received" /\ ms[r].into = None
  BY ClaimedRow
<1>5. TasksHeld(ms, obliged, owner, inbox, queue, turn) /\ TurnHeld(ms, owner, kills, turn)
  BY <1>1, <1>4, Undisturbed DEF HeldInv
<1> QED
  BY <1>3, <1>4, <1>5, HeldFacts DEF Sound, Form, Shape, Owes

\* A row that closes because its reply is recorded holds nothing unanswered.
LEMMA ReplayAnsweredText ==
    ASSUME HeldInv, TextInv, NEW r \in Row, ReplayAnswered(r)
    PROVE  TextInv'
<1> DEFINE ms == Claim(rows, r, owner)
<1>1. /\ NextToReplay(r) /\ rows' = MarkDone(ms, r) /\ r \in obliged
      /\ UNCHANGED <<obliged, phase, inbox, queue, turn, replied, asked, excused, acted, astray>>
  BY DEF ReplayAnswered, Answered, history
<1>2. /\ Plain(rows, ms) /\ Owes(ms, r) /\ ms[r].into = None
      /\ Sound(ms, obliged, owner, kills, inbox, queue, turn)
  BY <1>1, ClaimedText
<1>3. Clear(inbox, queue, turn, {r})
  BY <1>1, ReplayedRow
<1> HIDE DEF ms
<1>4. Texts(ms, obliged, inbox, queue, turn, acted, astray, replied, asked \cup astray, Fine)
  BY <1>2, TextFacts, PlainTexts
<1>5. \A e \in Family(ms, r) : ms[e].text \subseteq Fine
  BY <1>1, <1>4 DEF Texts, Durable, Family, Home
<1>6. Fine \subseteq Fine
  OBVIOUS
<1>7. Texts(rows', obliged, inbox, queue, turn, acted, astray, replied, asked \cup astray, Fine)
  BY <1>1, <1>2, <1>3, <1>4, <1>5, <1>6, MarkDoneText
<1> QED
  BY <1>1, <1>7 DEF Texts, TextInv, Fine

\* A row that waits for the user keeps its text.
LEMMA ReplayInterruptedText ==
    ASSUME HeldInv, TextInv, NEW r \in Row, ReplayInterrupted(r)
    PROVE  TextInv'
<1> DEFINE ms == Claim(rows, r, owner)
<1>1. /\ NextToReplay(r) /\ rows' = MarkInterrupted(ms, r)
      /\ UNCHANGED <<obliged, phase, inbox, queue, turn, replied, asked, excused, acted, astray>>
  BY DEF ReplayInterrupted
<1>2. Plain(rows, ms) /\ ms \in Table /\ Tree(ms) /\ Owes(ms, r)
  BY <1>1, ClaimedText
<1> HIDE DEF ms
<1>3. Plain(ms, rows')
  BY <1>1, <1>2, MarkInterruptedPlain
<1>4. Plain(rows, rows')
  BY <1>2, <1>3, PlainTrans
<1> QED
  BY <1>1, <1>4, PlainText

\* A row without attempts left keeps its text.
LEMMA ReplayExhaustedText ==
    ASSUME HeldInv, TextInv, NEW r \in Row, ReplayExhausted(r)
    PROVE  TextInv'
<1> DEFINE ms == Claim(rows, r, owner)
           ks == MarkProcessing(ms, r, owner)
<1>1. /\ NextToReplay(r) /\ rows' = MarkFailed(ks, r, MaxAttempts)
      /\ UNCHANGED <<obliged, phase, inbox, queue, turn, replied, asked, excused, acted, astray>>
  BY DEF ReplayExhausted, history
<1>2. /\ Plain(rows, ms) /\ ms \in Table /\ Tree(ms) /\ Owes(ms, r)
      /\ ms[r].status = "received" /\ ms[r].into = None
      /\ Form(ms, obliged, owner) /\ owner \in Nat
  BY <1>1, ClaimedText, ClaimedRow, HeldFacts
<1> HIDE DEF ms
<1>3. Rewrites(ms, ks, r, "processing", ms[r].attempts + 1, owner, ms[r].tool)
  BY <1>2, MarkProcessingFields
<1> HIDE DEF ks
<1>4. Plain(ms, ks)
  BY <1>2, <1>3, RewritesPlain
<1>5. Form(ks, obliged, owner)
  <2>1. owner <= owner
    BY <1>2
  <2> QED
    BY <1>2, <1>3, <2>1, RewritesKeeps
<1>6. ks \in Table /\ Tree(ks) /\ Owes(ks, r)
  BY <1>3, <1>5 DEF Form, Shape, Owes, Rewrites
<1>7. Plain(ks, rows')
  BY <1>1, <1>6, MarkFailedPlain
<1>8. Plain(rows, rows')
  BY <1>2, <1>4, <1>7, PlainTrans
<1> QED
  BY <1>1, <1>8, PlainText

\* The replayed message runs with the text of all rows that go with its row; no tool has run
\* for it, or the row would know, unless it went astray.
LEMMA ReplayTurnText ==
    ASSUME HeldInv, TextInv, NEW r \in Row, ReplayTurn(r)
    PROVE  TextInv'
<1> DEFINE text == FoldedText(rows, r)
<1>1. /\ NextToReplay(r) /\ rows' = Claim(rows, r, owner) /\ ~rows[r].tool
      /\ UNCHANGED <<obliged, phase, queue, turn, replied, asked, excused, acted, astray>>
      /\ \/ UNCHANGED inbox
         \/ \E i : inbox' = inbox \cup {[row |-> r, text |-> text, intr |-> i, loop |-> TRUE]}
  BY DEF ReplayTurn, history
<1>2. Plain(rows, rows')
  BY <1>1, ClaimedText
<1>3. Texts(rows', obliged, inbox, queue, turn, acted, astray, replied, asked \cup astray, Fine)
  BY <1>2, TextFacts, PlainTexts
<1>4. /\ rows \in Table /\ Tree(rows) /\ rows[r].status = "received" /\ rows[r].into = None
      /\ Owes(rows, r) /\ text \subseteq Message /\ r # None
  BY <1>1, ReplayedRow, HeldFacts, FoldedTextType, RowNumbers DEF Form
<1>5. Durable(rows, obliged, acted, astray, replied, asked \cup astray, Fine)
  BY DEF TextInv
<1>6. \A m : m \in text <=> \E e \in Family(rows, r) : m \in rows[e].text
  BY <1>4, FoldedFamily
<1> HIDE DEF text
<1>7. ASSUME NEW m \in text
      PROVE  Known(rows', m) /\ (m \in acted => m \in astray)
  <2>1. PICK e \in Family(rows, r) : m \in rows[e].text
    BY <1>6
  <2>2. e \in Row /\ (e = r \/ (rows[e].into = r /\ rows[e].status # "done"))
    BY DEF Family
  <2>3. Owes(rows, e)
    <3>1. CASE e = r
      BY <1>4, <3>1
    <3>2. CASE e # r
      <4>1. rows[e].status \in Statuses
        BY <1>4, <2>2, RowFields
      <4> QED
        BY <1>4, <2>2, <3>2, <4>1 DEF Tree, Owes, Statuses
    <3> QED
      BY <3>1, <3>2
  <2>4. Primary(rows, e) = r
    BY <1>4, <2>2 DEF Primary
  <2>5. Known(rows, m) /\ (m \in acted => m \in astray)
    BY <1>1, <1>5, <2>1, <2>2, <2>3, <2>4 DEF Durable
  <2> QED
    BY <1>2, <2>5 DEF Plain, Known
<1>8. \A m : Carried(rows', r, m) <=> m \in text
  <2>1. \A m : Carried(rows', r, m) <=> Carried(rows, r, m)
    BY <1>2 DEF Carried, Home, Plain
  <2>2. \A m : Carried(rows, r, m) <=> \E e \in Family(rows, r) : m \in rows[e].text
    BY <1>4, <1>5 DEF Carried, Home, Family, Durable
  <2> QED
    BY <1>6, <2>1, <2>2
<1>9. LaneText(rows', inbox', queue, turn, acted, astray)
  <2>1. CASE UNCHANGED inbox
    BY <1>3, <2>1 DEF Texts
  <2>2. ASSUME NEW i, inbox' = inbox \cup {[row |-> r, text |-> text, intr |-> i, loop |-> TRUE]}
        PROVE  LaneText(rows', inbox', queue, turn, acted, astray)
    <3> DEFINE t == [row |-> r, text |-> text, intr |-> i, loop |-> TRUE]
    <3>1. t.row = r /\ t.text = text
      OBVIOUS
    <3> HIDE DEF t
    <3>2. TaskOK(rows', t, acted, astray)
      BY <1>7, <1>8, <3>1 DEF TaskOK
    <3>3. LaneText(rows', inbox \cup {t}, queue, turn, acted, astray)
      BY <1>3, <3>2, NewTask DEF Texts
    <3> QED
      BY <2>2, <3>3 DEF t
  <2> QED
    BY <1>1, <2>1, <2>2
<1> QED
  BY <1>1, <1>3, <1>9 DEF Texts, TextInv, Fine

\* Whatever the replay does with a row, the texts match the rows.
LEMMA ReplayRowText ==
    ASSUME HeldInv, TextInv, NEW r \in Row, ReplayRow(r)
    PROVE  TextInv'
BY ReplayStaleText, ReplayAnsweredText, ReplayInterruptedText, ReplayExhaustedText,
   ReplayTurnText DEF ReplayRow

\* Ending the replay changes no row.
LEMMA EndReplayText ==
    ASSUME HeldInv, TextInv, EndReplay
    PROVE  TextInv'
<1>1. UNCHANGED <<rows, obliged, phase, inbox, queue, turn, replied, asked, excused, acted, astray>>
  BY DEF EndReplay, history
<1> QED
  BY <1>1 DEF TextInv, Fine

-----------------------------------------------------------------------------
(* The operator.                                                           *)

\* The operator asks for the text of the rows that are reopened.
LEMMA ReplayText ==
    ASSUME HeldInv, TextInv, NEW r \in Row, Replay(r)
    PROVE  TextInv'
<1> DEFINE text == UNION {rows[c].text : c \in {d \in Row : rows'[d] # rows[d]}}
<1>1. /\ rows[r].status \in {"dead", "interrupted"} /\ rows' = Requeue(rows, r)
      /\ acted' = acted \ text /\ asked' = asked \cup text
      /\ UNCHANGED <<obliged, phase, inbox, queue, turn, replied, excused, astray>>
  BY DEF Replay, memory
<1>2. /\ rows \in Table /\ Tree(rows)
      /\ \A p : LaneRow(inbox, queue, turn, p) => p \in Row /\ Owes(rows, p)
  BY TextFacts, SoundFacts
<1>3. /\ Reopens(rows, rows', Family(rows, r), r)
      /\ \A c \in Row : c \in Family(rows, r) <=> rows'[c] # rows[c]
      /\ \A c \in Family(rows, r) : rows[c].status \in {"dead", "interrupted"}
  BY <1>1, <1>2, RequeueFields
<1>4. \A c \in Family(rows, r) : rows[c].text \subseteq text
  BY <1>3 DEF Family
<1> HIDE DEF text
<1>5. Durable(rows', obliged, acted \ text, astray, replied, (asked \cup astray) \cup text, Fine)
  BY <1>2, <1>3, <1>4, ReopensDurable DEF TextInv
<1>6. Durable(rows', obliged, acted', astray, replied, asked' \cup astray, Fine)
  <2>1. (asked \cup astray) \cup text \subseteq asked' \cup astray /\ acted' \subseteq acted \ text
        /\ astray \subseteq astray /\ Fine \subseteq Fine
    BY <1>1
  <2> QED
    BY <1>5, <2>1, DurableMono
<1>7. NoneLost(rows', Fine)
  BY <1>3, ReopensLost DEF TextInv
<1>8. LaneText(rows', inbox, queue, turn, acted, astray)
  BY <1>2, <1>3, ReopensLane DEF TextInv
<1>9. LaneText(rows', inbox, queue, turn, acted', astray)
  BY <1>1, <1>8, LaneMono
<1> QED
  BY <1>1, <1>6, <1>7, <1>9 DEF TextInv, Fine

\* The operator gives up the text of the rows that are closed.
LEMMA DropText ==
    ASSUME HeldInv, TextInv, NEW r \in Row, Drop(r)
    PROVE  TextInv'
<1> DEFINE text == UNION {rows[c].text : c \in {d \in Row : rows'[d] # rows[d]}}
<1>1. /\ rows' = Discard(rows, r) /\ excused' = excused \cup text
      /\ UNCHANGED <<obliged, phase, inbox, queue, turn, replied, asked, acted, astray>>
  BY DEF Drop, memory
<1>2. Fine \subseteq Fine' /\ \A e \in Row : rows'[e] # rows[e] => rows[e].text \subseteq Fine'
  BY <1>1 DEF Fine
<1> HIDE DEF text
<1>3. Texts(rows', obliged, inbox, queue, turn, acted, astray, replied, asked \cup astray, Fine')
  BY <1>1, <1>2, TextFacts, DiscardText
<1>4. EndText(turn, phase, obliged, replied, excused', astray)
  BY <1>1, EndTextMono DEF TextInv
<1> QED
  BY <1>1, <1>3, <1>4 DEF Texts, TextInv

-----------------------------------------------------------------------------
(* The invariant, and what follows from it.                                *)

\* An empty spool has lost nothing.
LEMMA InitText ==
    ASSUME Init
    PROVE  TextInv
<1>1. /\ rows = [r \in Row |-> NoRow] /\ obliged = {} /\ inbox = {} /\ queue = <<>> /\ turn = Idle
      /\ replied = {} /\ asked = {} /\ excused = {} /\ acted = {} /\ astray = {}
  BY DEF Init
<1>2. \A r \in Row : /\ rows[r].key \notin Message /\ rows[r].text = {} /\ ~Owes(rows, r)
  BY <1>1, SpoolAssumption DEF NoRow, Owes
<1>3. Durable(rows, obliged, acted, astray, replied, asked \cup astray, Fine)
  BY <1>1, <1>2 DEF Durable
<1>4. NoneLost(rows, Fine)
  BY <1>2 DEF NoneLost, Known
<1>5. 1..Len(<<>>) = {}
  OBVIOUS
<1>6. /\ LaneText(rows, {}, <<>>, Idle, acted, astray)
      /\ EndText(Idle, phase, obliged, replied, excused, astray)
  <2>1. Idle.stage = "idle" /\ 1..Len(Idle.unread) = {}
    BY IdleType DEF Idle
  <2>2. LaneText(rows, {}, <<>>, Idle, acted, astray)
    BY <1>5, <2>1 DEF LaneText
  <2> QED
    BY <2>2, IdleText
<1> QED
  BY <1>1, <1>3, <1>4, <1>6 DEF TextInv

\* Every step keeps the texts.
LEMMA NextText ==
    ASSUME HeldInv, TextInv, [Next]_vars
    PROVE  TextInv'
<1>1. CASE UNCHANGED vars
  BY <1>1 DEF TextInv, Fine, vars, memory, history
<1>2. CASE Next
  <2>1. ASSUME NEW m \in Message, Receive(m) \/ CrashInAccept(m)
        PROVE  TextInv'
    BY <2>1, ReceiveText, CrashInAcceptText
  <2>2. ASSUME NEW c \in inbox, Dispatch(c)
        PROVE  TextInv'
    BY <2>2, DispatchText
  <2>3. ASSUME TurnStep
        PROVE  TextInv'
    BY <2>3, StartTurnText, RefuseAtCapText, StartToolText, ReadSteersText, TerminalText,
       RecordReplyText, SendReplyText, FinishTurnText, ThrowTurnText DEF TurnStep
  <2>4. ASSUME BeginShutdown \/ AbortLanes \/ Exit \/ Crash \/ Boot \/ BeginReplay \/ EndReplay
        PROVE  TextInv'
    BY <2>4, BeginShutdownText, AbortLanesText, GoneText, BootText, BeginReplayText,
       EndReplayText DEF Exit, Crash
  <2>5. ASSUME NEW r \in Row, ReplayRow(r) \/ Replay(r) \/ Drop(r)
        PROVE  TextInv'
    BY <2>5, ReplayRowText, ReplayText, DropText
  <2> QED
    BY <1>2, <2>1, <2>2, <2>3, <2>4, <2>5 DEF Next
<1> QED
  BY <1>1, <1>2

\* What the lane runs is what the rows say, and nothing else is lost, repeated or answered
\* twice, but for astray messages.
THEOREM TextInvariant == Spec => []TextInv
<1>1. Init => TextInv
  BY InitText
<1>2. HeldInv /\ TextInv /\ [Next]_vars => TextInv'
  BY NextText
<1> QED
  BY <1>1, <1>2, HeldInvariant, PTL DEF Spec

\* Every message the gateway accepted is answered by a recorded reply, given up by the user or
\* an operator, or still on disk, whatever crashes, shutdowns, throws, retries and operators do,
\* unless it entered one of the windows in which finishSpoolTurn and markAbsorbed lose text.
THEOREM OnlyAstrayLostCorrect == Spec => []OnlyAstrayLost
<1>1. TextInv => OnlyAstrayLost
  BY DEF TextInv, NoneLost, Known, Fine, OnlyAstrayLost, Kept, Accepted, OwedText
<1> QED
  BY <1>1, TextInvariant, PTL

\* A turn that runs no tool yet runs no message a tool has run for, unless somebody asked for
\* it or it went astray: replayInboundSpool never re-runs a tool-started turn.
THEOREM ToolsNotRepeatedCorrect == Spec => []ToolsNotRepeated
<1>1. TextInv => ToolsNotRepeated
  BY DEF TextInv, LaneText, TurnOK, ToolsNotRepeated
<1> QED
  BY <1>1, TextInvariant, PTL

\* beginDelivery records one reply per row and, but for messages asked for anew or astray, one
\* reply per message.
THEOREM RepliedOnceCorrect == Spec => RepliedOnce
<1> DEFINE Once == obliged' # obliged => /\ turn.row \notin obliged
                                         /\ turn.text \cap replied \subseteq asked \cup astray
<1>1. HeldInv /\ TextInv /\ [Next]_vars => [Once]_vars
  <2> SUFFICES ASSUME HeldInv, TextInv, Next, obliged' # obliged
               PROVE  Once
    BY DEF vars
  <2>1. ASSUME NEW m \in Message, Receive(m) \/ CrashInAccept(m)
        PROVE  obliged' = obliged
    BY <2>1 DEF Receive, CrashInAccept
  <2>2. ASSUME NEW c \in inbox, Dispatch(c)
        PROVE  obliged' = obliged
    BY <2>2 DEF Dispatch, EnqueueTurn, Steer, Consume, Retry, Stop
  <2>3. StartTurn \/ RefuseAtCap \/ StartTool \/ ReadSteers \/ Terminal \/ SendReply
        \/ FinishTurn \/ ThrowTurn => obliged' = obliged
    <3>1. StartTurn \/ RefuseAtCap \/ StartTool \/ ReadSteers => obliged' = obliged
      BY DEF StartTurn, RefuseAtCap, StartTool, ReadSteers
    <3>2. Terminal \/ SendReply => obliged' = obliged
      BY Zenon DEF Terminal, SendReply
    <3>3. FinishTurn \/ ThrowTurn => obliged' = obliged
      BY Zenon DEF FinishTurn, ThrowTurn
    <3> QED
      BY <3>1, <3>2, <3>3
  <2>4. BeginShutdown \/ AbortLanes \/ Exit \/ Crash \/ Boot \/ BeginReplay \/ EndReplay
        => obliged' = obliged
    BY DEF BeginShutdown, AbortLanes, Exit, Crash, Gone, Boot, BeginReplay, EndReplay
  <2>5. ASSUME NEW r \in Row, ReplayRow(r) \/ Replay(r) \/ Drop(r)
        PROVE  obliged' = obliged
    BY <2>5 DEF ReplayRow, ReplayStale, ReplayAnswered, ReplayInterrupted, ReplayExhausted,
       ReplayTurn, Replay, Drop
  <2>6. RecordReply
    BY <2>1, <2>2, <2>3, <2>4, <2>5 DEF Next, TurnStep
  <2> QED
    BY <2>6, RecordReplyText
<1> QED
  BY <1>1, HeldInvariant, TextInvariant, PTL DEF Spec, RepliedOnce
=============================================================================
