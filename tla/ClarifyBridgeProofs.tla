------------------------- MODULE ClarifyBridgeProofs -------------------------
(***************************************************************************)
(* Proofs about the clarify bridge, for any number of bridges, questions,  *)
(* lanes, replies and crashes.  The memory of a bridge is sound by itself; *)
(* a second invariant relates the memories to the rows of the file, each   *)
(* question by itself, as far as no whole-file write took a row back.      *)
(***************************************************************************)
EXTENDS ClarifyBridge, FiniteSetTheorems, SequenceTheorems, TLAPS

\* A bridge hydrates once in a life, at boot, as the gateway does it.  With the boot
\* profile the web's bridge hydrates twice; that breaks LaneAsksOne, see the README.
OneHydrate == MaxHydrates = 1

\* Only the bridge that asks a question presents its surface ("the current
\* one-presenter-per-surface-type deployment shape", hydrate).  Not so where a gateway
\* has two bots on one platform: it builds a bridge for each, and both present it.
Apart == \A b \in Bridge : \A q \in Presents[b] : AskedOn[q] = b

-----------------------------------------------------------------------------
(* The memory of one bridge.                                               *)

Kinds == {"add", "show", "settle", "answer", "reap"}

\* What a bridge can hold: it asks and adopts questions of the surfaces it presents.
Own(b) == {q \in Question : q \in Presents[b]}

Has(m, kind, q) == \E i \in DOMAIN m.ops : m.ops[i].kind = kind /\ m.ops[i].q = q
Waits(m, q) == \E i \in DOMAIN m.waiting[LaneOf[q]] : m.waiting[LaneOf[q]][i] = q

\* Writes that carry an answer carry one of the right kind.
Answers(m) ==
    \A i \in DOMAIN m.ops :
        /\ m.ops[i].kind = "settle" => m.ops[i].response \in Response
        /\ m.ops[i].kind = "answer" => m.ops[i].response \in Reply

\* The map and the lanes hold the bridge's own questions, a lane those of the lane;
\* none is in a lane twice.
OwnLanes(b, m) ==
    /\ m.armed \subseteq m.pending /\ m.pending \subseteq Own(b)
    /\ \A l \in Lane : m.occupant[l] # None =>
          m.occupant[l] \in Own(b) /\ LaneOf[m.occupant[l]] = l
    /\ \A l \in Lane : \A i \in DOMAIN m.waiting[l] :
          /\ m.waiting[l][i] \in Own(b) /\ LaneOf[m.waiting[l][i]] = l
          /\ m.waiting[l][i] # m.occupant[l]
    /\ \A l \in Lane : \A i, j \in DOMAIN m.waiting[l] :
          m.waiting[l][i] = m.waiting[l][j] => i = j

\* A question is added once and shown once; while it is being shown it has its
\* lane, and its removal stands behind.
OwnOps(b, m) ==
    /\ \A i \in DOMAIN m.ops :
          m.ops[i].kind \in {"add", "show", "settle"} => m.ops[i].q \in Own(b)
    /\ \A i, j \in DOMAIN m.ops :
          m.ops[i].kind \in {"add", "show"} /\ m.ops[j].kind = m.ops[i].kind
          /\ m.ops[j].q = m.ops[i].q => i = j
    /\ \A i \in DOMAIN m.ops : m.ops[i].kind = "show" =>
          m.occupant[LaneOf[m.ops[i].q]] = m.ops[i].q
    /\ \A i, j \in DOMAIN m.ops :
          m.ops[i].kind = "show" /\ m.ops[j].kind = "settle" /\ m.ops[j].q = m.ops[i].q
            => i < j

\* A question in the map is added and not yet being removed; one that is being
\* added is nowhere else.
Phases(m) ==
    /\ \A q \in m.pending : ~Has(m, "add", q) /\ ~Has(m, "settle", q)
    /\ \A q \in Question : Has(m, "add", q) =>
          ~Has(m, "settle", q) /\ ~Waits(m, q) /\ m.occupant[LaneOf[q]] # q

\* Before it hydrates, a bridge holds nothing; it may pass on answers and reap.
Cold(m) ==
    m.hydrates = 0 =>
       /\ m.pending = {}
       /\ \A l \in Lane : m.occupant[l] = None /\ m.waiting[l] = <<>>
       /\ \A i \in DOMAIN m.ops : m.ops[i].kind \in {"answer", "reap"}

Sound(b, m) == Answers(m) /\ OwnLanes(b, m) /\ OwnOps(b, m) /\ Phases(m) /\ Cold(m)

Knows(m, q) ==
    \/ \E i \in DOMAIN m.ops : m.ops[i].q = q
    \/ q \in m.pending \/ Waits(m, q) \/ m.occupant[LaneOf[q]] = q

Queued(m, q) == Waits(m, q) /\ q \in m.pending

ToShow(m, q) == Has(m, "show", q) \/ Queued(m, q)

\* From m to n nothing came up about q but that a queued question is being shown; it
\* is not heard of for the first time; it keeps its lane.
Keeps(m, n, q) ==
    /\ Has(n, "add", q) => Has(m, "add", q)
    /\ Has(n, "show", q) => Has(m, "show", q) \/ Queued(m, q)
    /\ Queued(n, q) => Queued(m, q)
    /\ n.hydrates = m.hydrates
    /\ q \in n.armed => q \in m.armed

Hides(m, n, q) == Knows(n, q) => Knows(m, q)

Stays(m, n, q) == m.occupant[LaneOf[q]] = q => n.occupant[LaneOf[q]] = q

-----------------------------------------------------------------------------
(* Lemmas about the methods.                                               *)

LEMMA Members ==
    ASSUME NEW m \in Memory
    PROVE  /\ m.up \in BOOLEAN /\ m.hydrates \in 0..MaxHydrates
           /\ m.pending \subseteq Question /\ m.live \subseteq Question
           /\ m.armed \subseteq Question
           /\ m.occupant \in [Lane -> Question \cup {None}]
           /\ m.waiting \in [Lane -> Seq(Question)]
           /\ m.ops \in Seq(Op)
BY DEF Memory

LEMMA IsMemory ==
    ASSUME NEW m \in Memory, NEW u \in BOOLEAN, NEW h \in 0..MaxHydrates,
           NEW p \in SUBSET Question, NEW v \in SUBSET Question, NEW a \in SUBSET Question,
           NEW o \in [Lane -> Question \cup {None}], NEW w \in [Lane -> Seq(Question)],
           NEW s \in Seq(Op)
    PROVE  [up |-> u, hydrates |-> h, pending |-> p, live |-> v, armed |-> a,
            occupant |-> o, waiting |-> w, ops |-> s] \in Memory
BY DEF Memory

LEMMA LaneOfType == \A q \in Question : LaneOf[q] \in Lane /\ AskedOn[q] \in Bridge
BY ClarifyAssumption

LEMMA KeepsTransitive ==
    ASSUME NEW m, NEW n, NEW o, NEW q, Keeps(m, n, q), Keeps(n, o, q)
    PROVE  Keeps(m, o, q)
BY DEF Keeps

\* As long as map, lanes and writes stay, so does all that is said of them.
LEMMA SameKeeps ==
    ASSUME NEW m, NEW n, NEW q, n.pending = m.pending, n.armed \subseteq m.armed,
           n.occupant = m.occupant, n.waiting = m.waiting, n.hydrates = m.hydrates,
           n.ops = m.ops
    PROVE  Keeps(m, n, q) /\ Hides(m, n, q) /\ Stays(m, n, q)
BY DEF Keeps, Hides, Stays, Knows, Queued, Waits, Has

\* Fewer questions in the map.
LEMMA SoundShrink ==
    ASSUME NEW b \in Bridge, NEW m \in Memory, NEW n \in Memory, Sound(b, m),
           n.pending \subseteq m.pending, n.armed \subseteq n.pending,
           n.occupant = m.occupant, n.waiting = m.waiting, n.hydrates = m.hydrates,
           n.ops = m.ops
    PROVE  Sound(b, n)
<1>1. Answers(n)
  BY DEF Sound, Answers
<1>2. OwnLanes(b, n)
  BY DEF Sound, OwnLanes
<1>3. OwnOps(b, n)
  BY DEF Sound, OwnOps
<1>4. Phases(n)
  BY DEF Sound, Phases, Has, Waits
<1>5. Cold(n)
  BY DEF Sound, Cold
<1> QED
  BY <1>1, <1>2, <1>3, <1>4, <1>5 DEF Sound

\* What one more write changes.
LEMMA HasAppend ==
    ASSUME NEW m \in Memory, NEW n \in Memory, NEW op \in Op, n.ops = Append(m.ops, op),
           NEW k, NEW q
    PROVE  Has(n, k, q) <=> Has(m, k, q) \/ (op.kind = k /\ op.q = q)
<1> DEFINE s == m.ops
           t == n.ops
<1>1. s \in Seq(Op) /\ t = Append(s, op)
  BY Members
<1>2. Len(s) \in Nat /\ DOMAIN s = 1..Len(s) /\ DOMAIN t = 1..Len(s) + 1
  BY <1>1
<1>3. /\ t[Len(s) + 1] = op
      /\ \A i \in 1..Len(s) : t[i] = s[i]
  BY <1>1
<1>4. DOMAIN t = DOMAIN s \cup {Len(s) + 1}
  BY <1>2
<1> HIDE DEF s, t
<1>5. (\E i \in DOMAIN t : t[i].kind = k /\ t[i].q = q)
        <=> (\E i \in DOMAIN s : s[i].kind = k /\ s[i].q = q) \/ (op.kind = k /\ op.q = q)
  BY <1>2, <1>3, <1>4
<1> QED
  BY <1>5 DEF Has, s, t

LEMMA SoundAppend ==
    ASSUME NEW b \in Bridge, NEW m \in Memory, NEW n \in Memory, NEW op \in Op, Sound(b, m),
           n.pending = m.pending, n.armed = m.armed, n.occupant = m.occupant,
           n.waiting = m.waiting, n.hydrates = m.hydrates, n.ops = Append(m.ops, op),
           op.kind \in {"add", "show", "settle"} => op.q \in Own(b) /\ m.hydrates # 0,
           op.kind = "settle" => /\ op.response \in Response
                                 /\ op.q \notin m.pending /\ ~Has(m, "add", op.q),
           op.kind = "answer" => op.response \in Reply,
           op.kind = "add" => /\ ~Has(m, "add", op.q) /\ ~Has(m, "settle", op.q)
                              /\ ~Waits(m, op.q) /\ op.q \notin m.pending
                              /\ m.occupant[LaneOf[op.q]] # op.q,
           op.kind = "show" => /\ ~Has(m, "show", op.q) /\ ~Has(m, "settle", op.q)
                               /\ m.occupant[LaneOf[op.q]] = op.q
    PROVE  Sound(b, n)
<1> DEFINE s == m.ops
           t == n.ops
           e == Len(s) + 1
<1>1. s \in Seq(Op) /\ t = Append(s, op)
  BY Members
<1>2. Len(s) \in Nat /\ DOMAIN s = 1..Len(s) /\ DOMAIN t = 1..Len(s) + 1
  BY <1>1
<1>3. t[e] = op /\ \A i \in DOMAIN s : t[i] = s[i]
  BY <1>1, <1>2
<1>4. DOMAIN t = DOMAIN s \cup {e} /\ e \in Nat /\ \A i \in DOMAIN s : i \in Nat /\ i < e
  BY <1>2
<1>5. op.kind \in Kinds
  BY DEF Op, Kinds
<1>6. \A k \in Kinds, q \in Question : Has(n, k, q) <=> Has(m, k, q) \/ (op.kind = k /\ op.q = q)
  BY HasAppend
<1>7. \A i \in DOMAIN s : Has(m, s[i].kind, s[i].q)
  BY DEF Has
<1> HIDE DEF s, t, e
<1>11. Answers(n)
  BY <1>3, <1>4 DEF Sound, Answers, s, t
<1>12. OwnLanes(b, n)
  BY DEF Sound, OwnLanes
<1>13. OwnOps(b, n)
  <2>1. \A i \in DOMAIN t : t[i].kind \in {"add", "show", "settle"} => t[i].q \in Own(b)
    BY <1>3, <1>4 DEF Sound, OwnOps, s
  <2>2. \A i, j \in DOMAIN t :
          t[i].kind \in {"add", "show"} /\ t[j].kind = t[i].kind
          /\ t[j].q = t[i].q => i = j
    BY <1>3, <1>4, <1>7 DEF Sound, OwnOps, s
  <2>3. \A i \in DOMAIN t : t[i].kind = "show" => n.occupant[LaneOf[t[i].q]] = t[i].q
    BY <1>3, <1>4 DEF Sound, OwnOps, s
  <2>4. \A i, j \in DOMAIN t :
          t[i].kind = "show" /\ t[j].kind = "settle" /\ t[j].q = t[i].q => i < j
    BY <1>3, <1>4, <1>7 DEF Sound, OwnOps, s
  <2> QED
    BY <2>1, <2>2, <2>3, <2>4 DEF OwnOps, t
<1>14. Phases(n)
  <2>1. \A q \in n.pending : ~Has(n, "add", q) /\ ~Has(n, "settle", q)
    BY <1>6, Members DEF Sound, Phases, Kinds
  <2>2. ASSUME NEW q \in Question, Has(n, "add", q)
        PROVE  ~Has(n, "settle", q) /\ ~Waits(n, q) /\ n.occupant[LaneOf[q]] # q
    <3>1. Waits(n, q) <=> Waits(m, q)
      BY DEF Waits
    <3> QED
      BY <2>2, <1>6, <3>1 DEF Sound, Phases, Kinds
  <2> QED
    BY <2>1, <2>2 DEF Phases
<1>15. Cold(n)
  BY <1>3, <1>4, <1>5 DEF Sound, Cold, s, t, Kinds
<1> QED
  BY <1>11, <1>12, <1>13, <1>14, <1>15 DEF Sound

\* The first write is done.
LEMMA Pop ==
    ASSUME NEW b \in Bridge, NEW m \in Memory, NEW n, Sound(b, m), m.ops # <<>>,
           n = [m EXCEPT !.ops = Tail(@)]
    PROVE  /\ n \in Memory /\ Sound(b, n)
           /\ \A q \in Question : Keeps(m, n, q) /\ Hides(m, n, q) /\ Stays(m, n, q)
           /\ Head(m.ops) \in Op /\ Has(m, Head(m.ops).kind, Head(m.ops).q)
           /\ \A k, q : Has(n, k, q) => Has(m, k, q)
           /\ Head(m.ops).kind \in {"add", "show"} => ~Has(n, Head(m.ops).kind, Head(m.ops).q)
           /\ Head(m.ops).kind = "settle" => ~Has(n, "show", Head(m.ops).q)
           /\ Head(m.ops).kind = "settle" => Head(m.ops).response \in Response
           /\ Head(m.ops).kind = "answer" => Head(m.ops).response \in Reply
<1> DEFINE s == m.ops
           t == n.ops
           op == s[1]
<1>1. s \in Seq(Op) /\ s # <<>> /\ t = Tail(s)
  BY Members DEF Memory
<1>2. /\ Len(s) \in Nat \ {0} /\ DOMAIN s = 1..Len(s) /\ DOMAIN t = 1..Len(s) - 1
      /\ t \in Seq(Op) /\ Head(s) = op /\ op \in Op
  BY <1>1
<1>3. \A i \in DOMAIN t : t[i] = s[i + 1] /\ i + 1 \in DOMAIN s /\ i \in Nat /\ i + 1 # 1
  BY <1>1, <1>2
<1>4. 1 \in DOMAIN s
  BY <1>2
<1>5. /\ n.up = m.up /\ n.hydrates = m.hydrates /\ n.pending = m.pending /\ n.live = m.live
      /\ n.armed = m.armed /\ n.occupant = m.occupant /\ n.waiting = m.waiting
  BY DEF Memory
<1>6. n \in Memory
  BY <1>1, <1>2, Members DEF Memory
<1>7. Head(m.ops) = op
  BY <1>2
<1> HIDE DEF s, t, op
<1>8. \A k, q : Has(n, k, q) => Has(m, k, q)
  BY <1>3 DEF Has, s, t
<1>9. Answers(n)
  BY <1>3 DEF Sound, Answers, s, t
<1>10. OwnLanes(b, n)
  BY <1>5 DEF Sound, OwnLanes
<1>11. OwnOps(b, n)
  <2>1. \A i \in DOMAIN t : t[i].kind \in {"add", "show", "settle"} => t[i].q \in Own(b)
    BY <1>3 DEF Sound, OwnOps, s
  <2>2. \A i, j \in DOMAIN t :
          t[i].kind \in {"add", "show"} /\ t[j].kind = t[i].kind
          /\ t[j].q = t[i].q => i = j
    <3> TAKE i \in DOMAIN t, j \in DOMAIN t
    <3> HAVE t[i].kind \in {"add", "show"} /\ t[j].kind = t[i].kind /\ t[j].q = t[i].q
    <3>1. i + 1 = j + 1
      BY <1>3 DEF Sound, OwnOps, s
    <3> QED
      BY <1>3, <3>1
  <2>3. \A i \in DOMAIN t : t[i].kind = "show" => n.occupant[LaneOf[t[i].q]] = t[i].q
    BY <1>3, <1>5 DEF Sound, OwnOps, s
  <2>4. \A i, j \in DOMAIN t :
          t[i].kind = "show" /\ t[j].kind = "settle" /\ t[j].q = t[i].q => i < j
    <3> TAKE i \in DOMAIN t, j \in DOMAIN t
    <3> HAVE t[i].kind = "show" /\ t[j].kind = "settle" /\ t[j].q = t[i].q
    <3>1. i + 1 < j + 1
      BY <1>3 DEF Sound, OwnOps, s
    <3> QED
      BY <1>3, <3>1
  <2> QED
    BY <2>1, <2>2, <2>3, <2>4 DEF OwnOps, t
<1>12. Phases(n)
  <2>1. \A q : Waits(n, q) <=> Waits(m, q)
    BY <1>5 DEF Waits
  <2> QED
    BY <1>5, <1>8, <2>1 DEF Sound, Phases
<1>13. Cold(n)
  BY <1>3, <1>5 DEF Sound, Cold, s, t
<1>14. \A q \in Question : Keeps(m, n, q) /\ Hides(m, n, q) /\ Stays(m, n, q)
  <2> TAKE q \in Question
  <2>1. Waits(n, q) <=> Waits(m, q)
    BY <1>5 DEF Waits
  <2>2. (\E i \in DOMAIN t : t[i].q = q) => \E i \in DOMAIN s : s[i].q = q
    BY <1>3
  <2>3. Knows(n, q) => Knows(m, q)
    BY <1>5, <2>1, <2>2 DEF Knows, s, t
  <2> QED
    BY <1>5, <1>8, <2>1, <2>3 DEF Keeps, Hides, Stays, Queued
<1>15. Has(m, op.kind, op.q)
  BY <1>4 DEF Has, op, s
<1>16. op.kind \in {"add", "show"} => ~Has(n, op.kind, op.q)
  <2> SUFFICES ASSUME op.kind \in {"add", "show"}, NEW i \in DOMAIN t,
                      t[i].kind = op.kind, t[i].q = op.q
               PROVE  FALSE
    BY DEF Has, t
  <2>1. i + 1 = 1
    BY <1>3, <1>4 DEF Sound, OwnOps, s, op
  <2> QED
    BY <1>3, <2>1
<1>17. op.kind = "settle" => ~Has(n, "show", op.q)
  <2> SUFFICES ASSUME op.kind = "settle", NEW i \in DOMAIN t,
                      t[i].kind = "show", t[i].q = op.q
               PROVE  FALSE
    BY DEF Has, t
  <2>1. i + 1 < 1
    BY <1>3, <1>4 DEF Sound, OwnOps, s, op
  <2> QED
    BY <1>3, <2>1
<1>18. /\ op.kind = "settle" => op.response \in Response
       /\ op.kind = "answer" => op.response \in Reply
  BY <1>4 DEF Sound, Answers, op, s
<1> QED
  BY <1>2, <1>6, <1>7, <1>8, <1>9, <1>10, <1>11, <1>12, <1>13, <1>14, <1>15, <1>16, <1>17, <1>18
  DEF Sound

\* A question leaves the map, its removal is under way.
LEMMA Responding ==
    ASSUME NEW b \in Bridge, NEW m \in Memory, NEW n, NEW q \in m.pending,
           NEW r \in Response, Sound(b, m), n = StartRespond(m, q, r)
    PROVE  /\ n \in Memory /\ Sound(b, n)
           /\ \A p \in Question : Keeps(m, n, p) /\ Hides(m, n, p) /\ Stays(m, n, p)
           /\ \A k \in {"add", "show"} : \A p : Has(n, k, p) <=> Has(m, k, p)
           /\ n.occupant = m.occupant /\ n.hydrates = m.hydrates /\ n.waiting = m.waiting
           /\ n.pending = m.pending \ {q} /\ n.armed = m.armed \ {q}
<1> DEFINE op == [kind |-> "settle", q |-> q, response |-> r, live |-> q \in m.live]
           m1 == [m EXCEPT !.pending = @ \ {q}, !.live = @ \ {q}, !.armed = @ \ {q}]
<1>1. q \in Question
  BY Members
<1>2. op \in Op
  BY <1>1 DEF Op
<1>3. /\ m1 \in Memory /\ m1.pending = m.pending \ {q} /\ m1.armed = m.armed \ {q}
      /\ m1.occupant = m.occupant /\ m1.waiting = m.waiting /\ m1.hydrates = m.hydrates
      /\ m1.ops = m.ops
  BY Members DEF Memory
<1>4. /\ n.up = m.up /\ n.pending = m.pending \ {q} /\ n.armed = m.armed \ {q}
      /\ n.live = m.live \ {q} /\ n.occupant = m.occupant /\ n.waiting = m.waiting
      /\ n.hydrates = m.hydrates /\ n.ops = Append(m.ops, op)
      /\ n = [up |-> n.up, hydrates |-> n.hydrates, pending |-> n.pending, live |-> n.live,
              armed |-> n.armed, occupant |-> n.occupant, waiting |-> n.waiting, ops |-> n.ops]
  BY DEF Memory, StartRespond, Push
<1>5. n \in Memory
  <2>1. Append(m.ops, op) \in Seq(Op)
    BY <1>2, Members
  <2> HIDE DEF op
  <2> QED
    BY <1>4, <2>1, Members DEF Memory
<1>6. Sound(b, m1)
  <2>1. m1.armed \subseteq m1.pending
    BY <1>3 DEF Sound, OwnLanes
  <2> HIDE DEF m1
  <2> QED
    BY <1>3, <2>1, SoundShrink
<1>7. op.kind = "settle" /\ op.q = q /\ op.response = r
  OBVIOUS
<1>8. /\ q \in Own(b) /\ m.hydrates # 0 /\ ~Has(m, "add", q)
  BY DEF Sound, OwnLanes, Cold, Phases
<1>9. ~Has(m1, "add", q)
  BY <1>3, <1>8 DEF Has
<1> HIDE DEF op, m1
<1>10. Sound(b, n)
  <2>1. /\ n.pending = m1.pending /\ n.armed = m1.armed /\ n.occupant = m1.occupant
        /\ n.waiting = m1.waiting /\ n.hydrates = m1.hydrates /\ n.ops = Append(m1.ops, op)
    BY <1>3, <1>4
  <2>2. /\ op.q \in Own(b) /\ m1.hydrates # 0 /\ op.response \in Response
        /\ op.q \notin m1.pending /\ ~Has(m1, "add", op.q)
    BY <1>3, <1>7, <1>8, <1>9
  <2> QED
    BY <1>2, <1>3, <1>5, <1>6, <1>7, <2>1, <2>2, SoundAppend
<1>11. \A k \in {"add", "show"} : \A p : Has(n, k, p) <=> Has(m, k, p)
  BY <1>2, <1>4, <1>5, <1>7, HasAppend
<1>12. \A p \in Question : Keeps(m, n, p) /\ Hides(m, n, p) /\ Stays(m, n, p)
  <2> TAKE p \in Question
  <2>1. Waits(n, p) <=> Waits(m, p)
    BY <1>4 DEF Waits
  <2>2. (\E i \in DOMAIN n.ops : n.ops[i].q = p) => (\E i \in DOMAIN m.ops : m.ops[i].q = p) \/ p = q
    <3> DEFINE s == m.ops
    <3>1. s \in Seq(Op) /\ n.ops = Append(s, op)
      BY <1>4, Members
    <3> HIDE DEF s
    <3>2. \A i \in DOMAIN Append(s, op) : (i \in DOMAIN s /\ Append(s, op)[i] = s[i]) \/ Append(s, op)[i] = op
      BY <1>2, <3>1
    <3> QED
      BY <1>7, <3>1, <3>2 DEF s
  <2>3. Knows(n, p) => Knows(m, p)
    BY <1>4, <2>1, <2>2 DEF Knows
  <2> QED
    BY <1>4, <1>11, <2>1, <2>3 DEF Keeps, Hides, Stays, Queued
<1> QED
  BY <1>4, <1>5, <1>10, <1>11, <1>12

\* An answer is passed on through the file, or a row is reaped.
LEMMA PassingOn ==
    ASSUME NEW b \in Bridge, NEW m \in Memory, NEW n, NEW k \in {"answer", "reap"},
           NEW q \in Question, NEW r \in Reply \cup {None}, Sound(b, m),
           n = Push(m, k, q, r), k = "answer" => r \in Reply
    PROVE  /\ n \in Memory /\ Sound(b, n)
           /\ \A p \in Question : Stays(m, n, p) /\ Keeps(m, n, p) /\ (p # q => Hides(m, n, p))
           /\ n.pending = m.pending /\ n.armed = m.armed /\ n.occupant = m.occupant
           /\ n.hydrates = m.hydrates
<1> DEFINE op == [kind |-> k, q |-> q, response |-> r, live |-> q \in m.live]
<1>1. op \in Op
  BY DEF Op, Response
<1>2. /\ n.up = m.up /\ n.pending = m.pending /\ n.armed = m.armed
      /\ n.live = m.live /\ n.occupant = m.occupant /\ n.waiting = m.waiting
      /\ n.hydrates = m.hydrates /\ n.ops = Append(m.ops, op)
      /\ n = [up |-> n.up, hydrates |-> n.hydrates, pending |-> n.pending, live |-> n.live,
              armed |-> n.armed, occupant |-> n.occupant, waiting |-> n.waiting, ops |-> n.ops]
  BY DEF Memory, Push
<1>3. op.kind = k /\ op.q = q /\ op.response = r
  OBVIOUS
<1> HIDE DEF op
<1>4. n \in Memory
  <2>1. Append(m.ops, op) \in Seq(Op)
    BY <1>1, Members
  <2> QED
    BY <1>2, <2>1, Members DEF Memory
<1>5. Sound(b, n)
  BY <1>1, <1>2, <1>3, <1>4, SoundAppend
<1>6. \A c, p : Has(n, c, p) <=> Has(m, c, p) \/ (k = c /\ p = q)
  BY <1>1, <1>2, <1>3, <1>4, HasAppend
<1>7. \A p : Waits(n, p) <=> Waits(m, p)
  BY <1>2 DEF Waits
<1>8. \A p : Queued(n, p) <=> Queued(m, p)
  BY <1>2, <1>7 DEF Queued
<1>9. ASSUME NEW p \in Question, p # q
      PROVE  Keeps(m, n, p) /\ Hides(m, n, p)
  <2>1. (\E i \in DOMAIN n.ops : n.ops[i].q = p) => (\E i \in DOMAIN m.ops : m.ops[i].q = p)
    <3> DEFINE s == m.ops
    <3>1. s \in Seq(Op) /\ n.ops = Append(s, op)
      BY <1>2, Members
    <3> HIDE DEF s
    <3>2. \A i \in DOMAIN Append(s, op) : (i \in DOMAIN s /\ Append(s, op)[i] = s[i]) \/ Append(s, op)[i] = op
      BY <1>1, <3>1
    <3> QED
      BY <1>3, <1>9, <3>1, <3>2 DEF s
  <2>2. Knows(n, p) => Knows(m, p)
    BY <1>2, <1>7, <2>1 DEF Knows
  <2> QED
    BY <1>2, <1>6, <1>8, <1>9, <2>2 DEF Keeps, Hides
<1>10. Keeps(m, n, q)
  BY <1>2, <1>6, <1>8 DEF Keeps
<1>11. \A p \in Question : Stays(m, n, p)
  BY <1>2 DEF Stays
<1> QED
  BY <1>2, <1>4, <1>5, <1>6, <1>8, <1>9, <1>10, <1>11

\* respond() from outside: a question that is held here, or an answer for the file.
LEMMA Replying ==
    ASSUME NEW b \in Bridge, NEW m \in Memory, NEW n, NEW q \in Question, NEW r \in Reply,
           Sound(b, m), n = Respond(m, q, r)
    PROVE  /\ n \in Memory /\ Sound(b, n)
           /\ \A p \in Question : Keeps(m, n, p) /\ Stays(m, n, p)
           /\ \A p \in Question : Knows(n, p) => Knows(m, p) \/ (p = q /\ file[q].at # "absent")
<1>1. r \in Response /\ r \in Reply \cup {None}
  BY DEF Response
<1>2. CASE q \in m.pending
  <2>1. n = StartRespond(m, q, r)
    BY <1>2 DEF Respond
  <2> QED
    BY <1>1, <1>2, <2>1, Responding DEF Hides
<1>3. CASE q \notin m.pending /\ file[q].at # "absent" /\ file[q].answer = None
  <2>1. n = Push(m, "answer", q, r)
    BY <1>3 DEF Respond
  <2>2. /\ n \in Memory /\ Sound(b, n)
        /\ \A p \in Question : Stays(m, n, p) /\ (p # q => Keeps(m, n, p) /\ Hides(m, n, p))
        /\ Keeps(m, n, q)
    BY <1>1, <2>1, PassingOn
  <2> QED
    BY <1>3, <2>2 DEF Hides
<1>4. CASE q \notin m.pending /\ ~(file[q].at # "absent" /\ file[q].answer = None)
  <2>1. n = m
    BY <1>4 DEF Respond
  <2> QED
    BY <2>1, SameKeeps DEF Hides
<1> QED
  BY <1>2, <1>3, <1>4

\* A free lane takes a question that waits nowhere.
LEMMA Presenting ==
    ASSUME NEW b \in Bridge, NEW m \in Memory, NEW n, NEW q \in m.pending, Sound(b, m),
           m.occupant[LaneOf[q]] = None, ~Waits(m, q), n = PresentNow(m, q)
    PROVE  /\ n \in Memory /\ Sound(b, n)
           /\ \A p \in Question : Hides(m, n, p) /\ Stays(m, n, p)
           /\ \A p \in Question : p # q => Keeps(m, n, p)
           /\ (Has(n, "add", q) => Has(m, "add", q))
           /\ n.pending = m.pending /\ n.armed = m.armed /\ n.waiting = m.waiting
           /\ n.hydrates = m.hydrates
<1> DEFINE l == LaneOf[q]
           op == [kind |-> "show", q |-> q, response |-> None, live |-> q \in m.live]
           m1 == [m EXCEPT !.occupant = [m.occupant EXCEPT ![l] = q]]
<1>1. q \in Question /\ q \in Own(b) /\ l \in Lane /\ q # None
  BY Members, LaneOfType, ClarifyAssumption DEF Sound, OwnLanes
<1>2. op \in Op
  BY <1>1 DEF Op
<1>3. /\ m1.up = m.up /\ m1.pending = m.pending /\ m1.armed = m.armed /\ m1.live = m.live
      /\ m1.occupant = [m.occupant EXCEPT ![l] = q] /\ m1.waiting = m.waiting
      /\ m1.hydrates = m.hydrates /\ m1.ops = m.ops
  BY DEF Memory
<1>30. [m.occupant EXCEPT ![l] = q] \in [Lane -> Question \cup {None}]
  BY <1>1, Members
<1>31. m1 \in Memory
  BY <1>30 DEF Memory
<1>4. /\ n.up = m.up /\ n.pending = m.pending /\ n.armed = m.armed /\ n.live = m.live
      /\ n.occupant = m1.occupant /\ n.waiting = m.waiting
      /\ n.hydrates = m.hydrates /\ n.ops = Append(m.ops, op)
      /\ n = [up |-> n.up, hydrates |-> n.hydrates, pending |-> n.pending, live |-> n.live,
              armed |-> n.armed, occupant |-> n.occupant, waiting |-> n.waiting, ops |-> n.ops]
  BY DEF Memory, PresentNow, Push
<1>5. op.kind = "show" /\ op.q = q
  OBVIOUS
<1>6. m.occupant[l] = None
  OBVIOUS
<1> HIDE DEF op, m1, l
<1>7. /\ m1.occupant \in [Lane -> Question \cup {None}]
      /\ m1.occupant[l] = q /\ \A x \in Lane : x # l => m1.occupant[x] = m.occupant[x]
  BY <1>1, <1>3, Members
<1>9. n \in Memory
  <2>1. Append(m.ops, op) \in Seq(Op)
    BY <1>2, Members
  <2> QED
    BY <1>4, <1>7, <2>1, Members DEF Memory
<1>10. \A p : Waits(m1, p) <=> Waits(m, p)
  BY <1>3 DEF Waits
<1>11. \A k, p : Has(m1, k, p) <=> Has(m, k, p)
  BY <1>3 DEF Has
<1>12. /\ m.hydrates # 0 /\ ~Has(m, "settle", q) /\ ~Has(m, "add", q)
  BY DEF Sound, Cold, Phases
<1>13. \A i \in DOMAIN m.ops : m.ops[i].kind = "show" =>
          LaneOf[m.ops[i].q] \in Lane /\ LaneOf[m.ops[i].q] # l
  <2> TAKE i \in DOMAIN m.ops
  <2> HAVE m.ops[i].kind = "show"
  <2>1. m.occupant[LaneOf[m.ops[i].q]] = m.ops[i].q /\ m.ops[i].q \in Own(b)
    BY DEF Sound, OwnOps
  <2>2. m.ops[i].q \in Question /\ m.ops[i].q # None
    BY <2>1, ClarifyAssumption DEF Own
  <2> QED
    BY <1>6, <2>1, <2>2, LaneOfType
<1>14. ~Has(m, "show", q)
  BY <1>13 DEF Has, l
<1>15. Sound(b, m1)
  <2>1. Answers(m1)
    BY <1>3 DEF Sound, Answers
  <2>2. OwnLanes(b, m1)
    <3>1. \A x \in Lane : m1.occupant[x] # None =>
          m1.occupant[x] \in Own(b) /\ LaneOf[m1.occupant[x]] = x
      BY <1>1, <1>7 DEF Sound, OwnLanes, l
    <3>2. ASSUME NEW x \in Lane, NEW i \in DOMAIN m1.waiting[x]
          PROVE /\ m1.waiting[x][i] \in Own(b) /\ LaneOf[m1.waiting[x][i]] = x
                /\ m1.waiting[x][i] # m1.occupant[x]
      <4>1. m1.waiting[x][i] # q
        <5> SUFFICES ASSUME m1.waiting[x][i] = q PROVE FALSE
          OBVIOUS
        <5>1. x = l
          BY <1>3, <3>2 DEF Sound, OwnLanes, l
        <5> QED
          BY <1>3, <3>2, <5>1 DEF Waits, l
      <4> QED
        BY <1>3, <1>7, <3>2, <4>1 DEF Sound, OwnLanes
    <3> QED
      BY <1>3, <3>1, <3>2 DEF Sound, OwnLanes
  <2>3. OwnOps(b, m1)
    <3>1. \A i \in DOMAIN m1.ops : m1.ops[i].kind = "show" =>
            m1.occupant[LaneOf[m1.ops[i].q]] = m1.ops[i].q
      BY <1>3, <1>7, <1>13 DEF Sound, OwnOps
    <3> QED
      BY <1>3, <3>1 DEF Sound, OwnOps
  <2>4. Phases(m1)
    <3>1. ASSUME NEW p \in Question, Has(m1, "add", p)
          PROVE  m1.occupant[LaneOf[p]] # p
      <4>1. p # q /\ m.occupant[LaneOf[p]] # p
        BY <1>11, <1>12, <3>1 DEF Sound, Phases
      <4> QED
        BY <1>7, <4>1, LaneOfType
    <3> QED
      BY <1>3, <1>10, <1>11, <3>1 DEF Sound, Phases
  <2>5. Cold(m1)
    BY <1>3, <1>12 DEF Cold
  <2> QED
    BY <2>1, <2>2, <2>3, <2>4, <2>5 DEF Sound
<1>16. Sound(b, n)
  <2>1. /\ n.pending = m1.pending /\ n.armed = m1.armed /\ n.occupant = m1.occupant
        /\ n.waiting = m1.waiting /\ n.hydrates = m1.hydrates /\ n.ops = Append(m1.ops, op)
    BY <1>3, <1>4
  <2>2. /\ op.q \in Own(b) /\ m1.hydrates # 0
        /\ ~Has(m1, "show", op.q) /\ ~Has(m1, "settle", op.q)
        /\ m1.occupant[LaneOf[op.q]] = op.q
    BY <1>1, <1>3, <1>5, <1>7, <1>11, <1>12, <1>14 DEF l
  <2> QED
    BY <1>2, <1>5, <1>31, <1>9, <1>15, <2>1, <2>2, SoundAppend
<1>17. \A k, p : Has(n, k, p) <=> Has(m, k, p) \/ (k = "show" /\ p = q)
  BY <1>2, <1>4, <1>5, <1>9, HasAppend
<1>18. \A p : Waits(n, p) <=> Waits(m, p)
  BY <1>4 DEF Waits
<1>19. \A p \in Question : Hides(m, n, p) /\ Stays(m, n, p)
  <2> TAKE p \in Question
  <2>1. (\E i \in DOMAIN n.ops : n.ops[i].q = p) => (\E i \in DOMAIN m.ops : m.ops[i].q = p) \/ p = q
    <3> DEFINE s == m.ops
    <3>1. s \in Seq(Op) /\ n.ops = Append(s, op)
      BY <1>4, Members
    <3> HIDE DEF s
    <3>2. \A i \in DOMAIN Append(s, op) : (i \in DOMAIN s /\ Append(s, op)[i] = s[i]) \/ Append(s, op)[i] = op
      BY <1>2, <3>1
    <3> QED
      BY <1>5, <3>1, <3>2 DEF s
  <2>2. n.occupant[LaneOf[p]] = p => m.occupant[LaneOf[p]] = p \/ p = q
    BY <1>4, <1>7, LaneOfType
  <2>3. Knows(n, p) => Knows(m, p)
    BY <1>4, <1>18, <2>1, <2>2 DEF Knows
  <2>4. m.occupant[LaneOf[p]] = p => n.occupant[LaneOf[p]] = p
    <3>1. p # None
      BY ClarifyAssumption
    <3> QED
      BY <1>4, <1>6, <1>7, <3>1, LaneOfType
  <2> QED
    BY <2>3, <2>4 DEF Hides, Stays
<1>20. \A p \in Question : p # q => Keeps(m, n, p)
  BY <1>4, <1>17, <1>18 DEF Keeps, Queued
<1> QED
  BY <1>4, <1>9, <1>16, <1>17, <1>19, <1>20

-----------------------------------------------------------------------------
(* Lanes.                                                                  *)

Distinct(s) == \A i, j \in DOMAIN s : s[i] = s[j] => i = j
Within(t, s) == \A i \in DOMAIN t : \E j \in DOMAIN s : t[i] = s[j]

LEMMA TailLeaves ==
    ASSUME NEW S, NEW s \in Seq(S), s # <<>>, Distinct(s)
    PROVE  /\ Tail(s) \in Seq(S) /\ Distinct(Tail(s)) /\ Within(Tail(s), s)
           /\ Head(s) \in S /\ 1 \in DOMAIN s /\ Head(s) = s[1]
           /\ \A i \in DOMAIN Tail(s) : Tail(s)[i] # Head(s)
<1> DEFINE t == Tail(s)
<1>1. /\ t \in Seq(S) /\ DOMAIN t = 1..Len(s) - 1 /\ Len(s) \in Nat \ {0}
      /\ DOMAIN s = 1..Len(s) /\ Head(s) = s[1] /\ s[1] \in S
  OBVIOUS
<1>2. \A i \in DOMAIN t : t[i] = s[i + 1] /\ i \in Nat /\ i + 1 \in DOMAIN s /\ i + 1 # 1
  BY <1>1
<1>3. 1 \in DOMAIN s
  BY <1>1
<1> HIDE DEF t
<1>4. Within(t, s)
  BY <1>2 DEF Within
<1>5. Distinct(t)
  <2> SUFFICES ASSUME NEW i \in DOMAIN t, NEW j \in DOMAIN t, t[i] = t[j] PROVE i = j
    BY DEF Distinct
  <2>1. i + 1 = j + 1
    BY <1>2 DEF Distinct
  <2> QED
    BY <1>2, <2>1
<1>6. \A i \in DOMAIN t : t[i] # s[1]
  BY <1>2, <1>3 DEF Distinct
<1> QED
  BY <1>1, <1>3, <1>4, <1>5, <1>6 DEF t

\* What is left of a sequence without its k-th element.
LEMMA RemoveAtIs ==
    ASSUME NEW S, NEW s \in Seq(S), NEW k \in 1..Len(s)
    PROVE  /\ RemoveAt(s, k) \in Seq(S) /\ DOMAIN RemoveAt(s, k) = 1..Len(s) - 1
           /\ \A i \in 1..Len(s) - 1 :
                 RemoveAt(s, k)[i] = IF i < k THEN s[i] ELSE s[i + 1]
<1> DEFINE u == SubSeq(s, 1, k - 1)
           v == SubSeq(s, k + 1, Len(s))
           t == u \o v
<1>1. Len(s) \in Nat /\ \A i \in 1..Len(s) : s[i] \in S
  BY LenProperties, ElementOfSeq
<1>2. /\ u \in Seq(S) /\ Len(u) = k - 1 /\ \A i \in 1..(k - 1) : u[i] = s[i]
  BY <1>1, SubSeqProperties
<1>3. /\ v \in Seq(S) /\ Len(v) = Len(s) - k /\ \A i \in 1..(Len(s) - k) : v[i] = s[i + k]
  <2>1. k + 1 \in Int /\ Len(s) \in Int /\ \A i \in (k + 1)..Len(s) : s[i] \in S
    BY <1>1
  <2>2. /\ v \in Seq(S)
        /\ Len(v) = IF k + 1 <= Len(s) THEN Len(s) - (k + 1) + 1 ELSE 0
        /\ \A i \in 1..(Len(s) - (k + 1) + 1) : v[i] = s[(k + 1) + i - 1]
    BY <2>1, SubSeqProperties
  <2> QED
    BY <2>2, <1>1
<1> HIDE DEF u, v
<1>4. /\ t \in Seq(S) /\ Len(t) = Len(u) + Len(v)
      /\ \A i \in 1..(Len(u) + Len(v)) : t[i] = IF i <= Len(u) THEN u[i] ELSE v[i - Len(u)]
  BY <1>2, <1>3, ConcatProperties
<1>5. RemoveAt(s, k) = t
  BY DEF RemoveAt, u, v
<1> HIDE DEF t
<1>6. ASSUME NEW i \in 1..Len(s) - 1 PROVE t[i] = IF i < k THEN s[i] ELSE s[i + 1]
  <2>1. t[i] = IF i <= Len(u) THEN u[i] ELSE v[i - Len(u)]
    BY <1>1, <1>2, <1>3, <1>4
  <2>2. CASE i < k
    BY <2>1, <2>2, <1>1, <1>2
  <2>3. CASE ~(i < k)
    <3>1. i - Len(u) \in 1..(Len(s) - k) /\ ~(i <= Len(u)) /\ (i - Len(u)) + k = i + 1
      BY <2>3, <1>1, <1>2
    <3> QED
      BY <3>1, <2>1, <2>3, <1>3
  <2> QED
    BY <2>2, <2>3
<1>7. DOMAIN t = 1..Len(s) - 1
  BY <1>1, <1>2, <1>3, <1>4
<1> QED
  BY <1>4, <1>5, <1>6, <1>7

LEMMA LeaveLeaves ==
    ASSUME NEW S, NEW s \in Seq(S), NEW q, Distinct(s)
    PROVE  /\ Leave(s, q) \in Seq(S) /\ Distinct(Leave(s, q)) /\ Within(Leave(s, q), s)
           /\ \A i \in DOMAIN Leave(s, q) : Leave(s, q)[i] # q
<1> DEFINE at == {i \in DOMAIN s : s[i] = q}
           first == {i \in DOMAIN s : s[i] = q /\ \A j \in 1..i - 1 : s[j] # q}
<1>0. first = at
  <2>1. \A i \in at : \A j \in 1..i - 1 : j \in DOMAIN s /\ j # i
    OBVIOUS
  <2> QED
    BY <2>1 DEF Distinct
<1>1. CASE at = {}
  <2>1. Leave(s, q) = s
    BY <1>0, <1>1 DEF Leave
  <2> QED
    BY <1>1, <2>1 DEF Within
<1>2. CASE at # {}
  <2>1. PICK k \in DOMAIN s : s[k] = q
    BY <1>2
  <2>2. \A i \in at : i = k
    BY <2>1 DEF Distinct
  <2>3. at = {k}
    BY <2>1, <2>2
  <2>4. k \in Nat /\ k \in 1..Len(s) /\ Len(s) \in Nat /\ DOMAIN s = 1..Len(s)
    BY <2>1
  <2>5. first = {k} /\ (CHOOSE i \in first : TRUE) = k
    BY <1>0, <2>3
  <2> DEFINE t == RemoveAt(s, k)
  <2>6. Leave(s, q) = t
    BY <2>5 DEF Leave
  <2>7. /\ t \in Seq(S) /\ DOMAIN t = 1..Len(s) - 1
        /\ \A i \in 1..Len(s) - 1 : t[i] = IF i < k THEN s[i] ELSE s[i + 1]
    BY <2>4, RemoveAtIs
  <2> HIDE DEF t, at, first
  <2>8. Within(t, s)
    <3> SUFFICES ASSUME NEW i \in DOMAIN t PROVE \E j \in DOMAIN s : t[i] = s[j]
      BY DEF Within
    <3>1. i \in DOMAIN s /\ i + 1 \in DOMAIN s
      BY <2>4, <2>7
    <3> QED
      BY <2>7, <3>1
  <2>9. Distinct(t)
    <3> SUFFICES ASSUME NEW i \in DOMAIN t, NEW j \in DOMAIN t, t[i] = t[j] PROVE i = j
      BY DEF Distinct
    <3>1. /\ i \in 1..Len(s) - 1 /\ j \in 1..Len(s) - 1
          /\ i \in DOMAIN s /\ i + 1 \in DOMAIN s /\ j \in DOMAIN s /\ j + 1 \in DOMAIN s
      BY <2>4, <2>7
    <3>2. (IF i < k THEN i ELSE i + 1) = (IF j < k THEN j ELSE j + 1)
      BY <2>7, <3>1 DEF Distinct
    <3> QED
      BY <2>4, <3>1, <3>2
  <2>10. \A i \in DOMAIN t : t[i] # q
    <3> TAKE i \in DOMAIN t
    <3>1. /\ i \in 1..Len(s) - 1 /\ i \in DOMAIN s /\ i + 1 \in DOMAIN s
      BY <2>4, <2>7
    <3> QED
      BY <2>1, <2>4, <2>7, <3>1 DEF Distinct
  <2> QED
    BY <2>6, <2>7, <2>8, <2>9, <2>10
<1> QED
  BY <1>1, <1>2

\* Questions leave their queues and lanes, none of which is just being shown.
LEMMA SoundLeave ==
    ASSUME NEW b \in Bridge, NEW m \in Memory, NEW n \in Memory, Sound(b, m),
           n.pending = m.pending, n.armed = m.armed, n.hydrates = m.hydrates, n.ops = m.ops,
           \A l \in Lane : \/ n.occupant[l] = m.occupant[l]
                           \/ n.occupant[l] = None /\ ~Has(m, "show", m.occupant[l]),
           \A l \in Lane : Distinct(n.waiting[l]) /\ Within(n.waiting[l], m.waiting[l])
    PROVE  /\ Sound(b, n)
           /\ \A q \in Question : Keeps(m, n, q) /\ Hides(m, n, q)
           /\ \A q \in Question : Waits(n, q) => Waits(m, q)
<1>1. \A k, q : Has(n, k, q) <=> Has(m, k, q)
  BY DEF Has
<1>2. \A q \in Question : Waits(n, q) => Waits(m, q)
  BY LaneOfType DEF Waits, Within
<1>3. \A q \in Question : q # None
  BY ClarifyAssumption
<1>4. Answers(n)
  BY DEF Sound, Answers
<1>5. OwnLanes(b, n)
  <2>1. \A l \in Lane : n.occupant[l] # None =>
          n.occupant[l] \in Own(b) /\ LaneOf[n.occupant[l]] = l
    BY DEF Sound, OwnLanes
  <2>2. ASSUME NEW l \in Lane, NEW i \in DOMAIN n.waiting[l]
        PROVE  /\ n.waiting[l][i] \in Own(b) /\ LaneOf[n.waiting[l][i]] = l
               /\ n.waiting[l][i] # n.occupant[l]
    <3>1. PICK j \in DOMAIN m.waiting[l] : n.waiting[l][i] = m.waiting[l][j]
      BY <2>2 DEF Within
    <3> QED
      BY <1>3, <3>1 DEF Sound, OwnLanes, Own
  <2> QED
    BY <2>1, <2>2 DEF Sound, OwnLanes, Distinct
<1>6. OwnOps(b, n)
  <2>1. ASSUME NEW i \in DOMAIN n.ops, n.ops[i].kind = "show"
        PROVE  n.occupant[LaneOf[n.ops[i].q]] = n.ops[i].q
    <3>1. /\ m.occupant[LaneOf[n.ops[i].q]] = n.ops[i].q /\ n.ops[i].q \in Question
      BY <2>1 DEF Sound, OwnOps, Own
    <3>2. Has(m, "show", n.ops[i].q)
      BY <2>1 DEF Has
    <3> QED
      BY <3>1, <3>2, LaneOfType
  <2> QED
    BY <2>1 DEF Sound, OwnOps
<1>7. Phases(n)
  <2>1. ASSUME NEW q \in Question, Has(n, "add", q)
        PROVE  ~Has(n, "settle", q) /\ ~Waits(n, q) /\ n.occupant[LaneOf[q]] # q
    BY <1>1, <1>2, <1>3, <2>1, LaneOfType DEF Sound, Phases
  <2> QED
    BY <1>1, <2>1 DEF Sound, Phases
<1>8. Cold(n)
  <2> SUFFICES ASSUME n.hydrates = 0, NEW l \in Lane
               PROVE  n.occupant[l] = None /\ n.waiting[l] = <<>>
    BY DEF Sound, Cold
  <2>1. m.occupant[l] = None /\ m.waiting[l] = <<>>
    BY DEF Sound, Cold
  <2>2. DOMAIN n.waiting[l] = {} /\ n.waiting[l] \in Seq(Question)
    BY <2>1, Members DEF Within
  <2> QED
    BY <2>1, <2>2
<1>9. \A q \in Question : Keeps(m, n, q) /\ Hides(m, n, q)
  <2> TAKE q \in Question
  <2>1. Knows(n, q) => Knows(m, q)
    BY <1>2, <1>3, LaneOfType DEF Knows
  <2> QED
    BY <1>1, <1>2, <2>1 DEF Keeps, Hides, Queued
<1> QED
  BY <1>2, <1>4, <1>5, <1>6, <1>7, <1>8, <1>9 DEF Sound

LEMMA Freeing ==
    ASSUME NEW b \in Bridge, NEW m \in Memory, NEW n, NEW q \in Question, Sound(b, m),
           ~Has(m, "show", q), n = Freed(m, q)
    PROVE  /\ n \in Memory /\ Sound(b, n)
           /\ \A p \in Question : Keeps(m, n, p) /\ Hides(m, n, p)
           /\ \A p \in Question : p # q => Stays(m, n, p)
           /\ n.pending = m.pending /\ n.armed = m.armed /\ n.hydrates = m.hydrates
           /\ n.live = m.live
<1> DEFINE l == LaneOf[q]
           w == Leave(m.waiting[l], q)
           o == IF m.occupant[l] = q THEN None ELSE m.occupant[l]
<1>1. l \in Lane
  BY LaneOfType
<1>2. /\ n.up = m.up /\ n.pending = m.pending /\ n.armed = m.armed /\ n.live = m.live
      /\ n.occupant = [m.occupant EXCEPT ![l] = o]
      /\ n.waiting = [m.waiting EXCEPT ![l] = w]
      /\ n.hydrates = m.hydrates /\ n.ops = m.ops
      /\ n = [up |-> n.up, hydrates |-> n.hydrates, pending |-> n.pending, live |-> n.live,
              armed |-> n.armed, occupant |-> n.occupant, waiting |-> n.waiting, ops |-> n.ops]
  BY DEF Memory, Freed
<1>3. \A x \in Lane : m.waiting[x] \in Seq(Question) /\ Distinct(m.waiting[x])
  BY Members DEF Sound, OwnLanes, Distinct
<1>4. w \in Seq(Question) /\ Distinct(w) /\ Within(w, m.waiting[l])
  BY <1>1, <1>3, LeaveLeaves
<1>5. o \in Question \cup {None} /\ (o = m.occupant[l] \/ (o = None /\ m.occupant[l] = q))
  BY <1>1, Members
<1> HIDE DEF w, o, l
<1>6. /\ n.occupant \in [Lane -> Question \cup {None}]
      /\ n.occupant[l] = o /\ \A x \in Lane : x # l => n.occupant[x] = m.occupant[x]
  BY <1>1, <1>2, <1>5, Members
<1>7. /\ n.waiting \in [Lane -> Seq(Question)]
      /\ n.waiting[l] = w /\ \A x \in Lane : x # l => n.waiting[x] = m.waiting[x]
  BY <1>1, <1>2, <1>4, Members
<1>8. n \in Memory
  BY <1>2, <1>6, <1>7, Members DEF Memory
<1>9. \A x \in Lane : \/ n.occupant[x] = m.occupant[x]
                      \/ n.occupant[x] = None /\ ~Has(m, "show", m.occupant[x])
  BY <1>5, <1>6
<1>10. \A x \in Lane : Distinct(n.waiting[x]) /\ Within(n.waiting[x], m.waiting[x])
  <2>1. \A x \in Lane : Within(m.waiting[x], m.waiting[x])
    BY DEF Within
  <2> QED
    BY <1>3, <1>4, <1>7, <2>1
<1>11. \A p \in Question : p # q => Stays(m, n, p)
  BY <1>5, <1>6, LaneOfType DEF Stays, l
<1> QED
  BY <1>2, <1>8, <1>9, <1>10, <1>11, SoundLeave

\* drainLane: the head of the queue, if it is still in the map, takes the free lane.
LEMMA Draining ==
    ASSUME NEW b \in Bridge, NEW m \in Memory, NEW n, NEW l \in Lane, Sound(b, m),
           n = DrainLane(m, l)
    PROVE  /\ n \in Memory /\ Sound(b, n)
           /\ \A p \in Question : Keeps(m, n, p) /\ Hides(m, n, p) /\ Stays(m, n, p)
           /\ n.pending = m.pending /\ n.armed = m.armed /\ n.hydrates = m.hydrates
<1>1. CASE m.occupant[l] # None \/ m.waiting[l] = <<>>
  <2>1. n = m
    BY <1>1 DEF DrainLane
  <2> QED
    BY <2>1, SameKeeps
<1>2. CASE m.occupant[l] = None /\ m.waiting[l] # <<>>
  <2> DEFINE w == Tail(m.waiting[l])
             q == Head(m.waiting[l])
             m1 == [m EXCEPT !.waiting = [m.waiting EXCEPT ![l] = w]]
  <2>1. \A x \in Lane : m.waiting[x] \in Seq(Question) /\ Distinct(m.waiting[x])
    BY Members DEF Sound, OwnLanes, Distinct
  <2>2. /\ w \in Seq(Question) /\ Distinct(w) /\ Within(w, m.waiting[l])
        /\ q \in Question /\ 1 \in DOMAIN m.waiting[l] /\ q = m.waiting[l][1]
        /\ \A i \in DOMAIN w : w[i] # q
    BY <1>2, <2>1, TailLeaves
  <2>3. q \in Own(b) /\ LaneOf[q] = l
    BY <2>2 DEF Sound, OwnLanes
  <2>4. n = PresentNow(m1, q)
    BY <1>2, Members DEF DrainLane, Memory
  <2>5. [m.waiting EXCEPT ![l] = w] \in [Lane -> Seq(Question)]
    BY <2>2, Members
  <2>6. m1 \in Memory
    BY <2>5 DEF Memory
  <2>7. /\ m1.pending = m.pending /\ m1.armed = m.armed /\ m1.live = m.live
        /\ m1.occupant = m.occupant /\ m1.waiting = [m.waiting EXCEPT ![l] = w]
        /\ m1.hydrates = m.hydrates /\ m1.ops = m.ops
    BY DEF Memory
  <2>8. m1.waiting[l] = w /\ \A x \in Lane : x # l => m1.waiting[x] = m.waiting[x]
    BY <2>2, <2>7, Members
  <2>9. Waits(m, q)
    BY <2>2, <2>3 DEF Waits
  <2> HIDE DEF w, q, m1
  <2>10. \A x \in Lane : Distinct(m1.waiting[x]) /\ Within(m1.waiting[x], m.waiting[x])
    <3>1. \A x \in Lane : Within(m.waiting[x], m.waiting[x])
      BY DEF Within
    <3> QED
      BY <2>1, <2>2, <2>8, <3>1
  <2>11. /\ Sound(b, m1)
         /\ \A p \in Question : Keeps(m, m1, p) /\ Hides(m, m1, p)
    BY <2>6, <2>7, <2>10, SoundLeave
  <2>12. ~Waits(m1, q)
    BY <2>2, <2>3, <2>8 DEF Waits
  <2>13. \A p : Stays(m, m1, p)
    BY <2>7 DEF Stays
  <2>14. CASE q \notin m1.pending
    <3>1. n = m1
      BY <2>4, <2>14 DEF PresentNow
    <3> QED
      BY <2>6, <2>7, <2>11, <2>13, <3>1
  <2>15. CASE q \in m1.pending
    <3>1. m1.occupant[LaneOf[q]] = None
      BY <1>2, <2>3, <2>7
    <3>2. /\ n \in Memory /\ Sound(b, n)
          /\ \A p \in Question : Hides(m1, n, p) /\ Stays(m1, n, p)
          /\ \A p \in Question : p # q => Keeps(m1, n, p)
          /\ (Has(n, "add", q) => Has(m1, "add", q))
          /\ n.pending = m1.pending /\ n.armed = m1.armed /\ n.waiting = m1.waiting
          /\ n.hydrates = m1.hydrates
      BY <2>4, <2>6, <2>11, <2>12, <2>15, <3>1, Presenting
    <3>3. Queued(m, q)
      BY <2>7, <2>9, <2>15 DEF Queued
    <3>4. ~Waits(n, q)
      BY <2>12, <3>2 DEF Waits
    <3>5. \A k, p : Has(m1, k, p) <=> Has(m, k, p)
      BY <2>7 DEF Has
    <3>6. Keeps(m, n, q)
      BY <2>7, <3>2, <3>3, <3>4, <3>5 DEF Keeps, Queued
    <3>7. \A p \in Question : p # q => Keeps(m, n, p)
      BY <2>11, <3>2, KeepsTransitive
    <3>8. \A p \in Question : Hides(m, n, p) /\ Stays(m, n, p)
      BY <2>11, <2>13, <3>2 DEF Hides, Stays
    <3> QED
      BY <2>7, <3>2, <3>6, <3>7, <3>8
  <2> QED
    BY <2>14, <2>15
<1> QED
  BY <1>1, <1>2

\* The rest of respond() once the row is gone.
LEMMA FreeingLane ==
    ASSUME NEW b \in Bridge, NEW m \in Memory, NEW n, NEW q \in Question, Sound(b, m),
           ~Has(m, "show", q), n = FreeLane(m, q)
    PROVE  /\ n \in Memory /\ Sound(b, n)
           /\ \A p \in Question : Keeps(m, n, p) /\ Hides(m, n, p)
           /\ \A p \in Question : p # q => Stays(m, n, p)
           /\ n.pending = m.pending /\ n.armed = m.armed /\ n.hydrates = m.hydrates
<1> DEFINE m1 == Freed(m, q)
<1>1. /\ m1 \in Memory /\ Sound(b, m1)
      /\ \A p \in Question : Keeps(m, m1, p) /\ Hides(m, m1, p)
      /\ \A p \in Question : p # q => Stays(m, m1, p)
      /\ m1.pending = m.pending /\ m1.armed = m.armed /\ m1.hydrates = m.hydrates
  BY Freeing
<1>2. n = DrainLane(m1, LaneOf[q]) /\ LaneOf[q] \in Lane
  BY LaneOfType DEF FreeLane
<1> HIDE DEF m1
<1>3. /\ n \in Memory /\ Sound(b, n)
      /\ \A p \in Question : Keeps(m1, n, p) /\ Hides(m1, n, p) /\ Stays(m1, n, p)
      /\ n.pending = m1.pending /\ n.armed = m1.armed /\ n.hydrates = m1.hydrates
  BY <1>1, <1>2, Draining
<1>4. \A p \in Question : Keeps(m, n, p)
  BY <1>1, <1>3, KeepsTransitive
<1>5. \A p \in Question : Hides(m, n, p) /\ (p # q => Stays(m, n, p))
  BY <1>1, <1>3 DEF Hides, Stays
<1> QED
  BY <1>1, <1>3, <1>4, <1>5

\* The rest of request() once its row is on disk.
LEMMA Registering ==
    ASSUME NEW b \in Bridge, NEW m \in Memory, NEW n, NEW q \in Own(b), Sound(b, m),
           m.hydrates # 0, q \notin m.pending, ~Waits(m, q), m.occupant[LaneOf[q]] # q,
           \A k \in {"add", "show", "settle"} : ~Has(m, k, q), n = Register(m, q)
    PROVE  /\ n \in Memory /\ Sound(b, n)
           /\ \A p \in Question :
                 p # q => Keeps(m, n, p) /\ Hides(m, n, p) /\ Stays(m, n, p)
           /\ ~Has(n, "add", q)
           /\ n.hydrates = m.hydrates /\ q \notin n.armed
<1> DEFINE l == LaneOf[q]
           kept == [m EXCEPT !.pending = @ \cup {q}, !.live = @ \cup {q}]
           placed == IF m.occupant[l] # None THEN [kept EXCEPT !.waiting[l] = Append(@, q)]
                     ELSE PresentNow(kept, q)
<1>1. q \in Question /\ l \in Lane /\ q # None
  BY LaneOfType, ClarifyAssumption DEF Own
<1>2. q \notin m.armed
  BY DEF Sound, OwnLanes
<1>3. /\ kept \in Memory /\ kept.pending = m.pending \cup {q} /\ kept.armed = m.armed
      /\ kept.occupant = m.occupant /\ kept.waiting = m.waiting
      /\ kept.hydrates = m.hydrates /\ kept.ops = m.ops
  BY <1>1, Members DEF Memory
<1>4. n = IF q \in aborted THEN StartRespond(placed, q, "cancel") ELSE placed
  BY <1>3 DEF Register
<1> HIDE DEF kept, l
<1>5. \A k, p : Has(kept, k, p) <=> Has(m, k, p)
  BY <1>3 DEF Has
<1>6. \A p : Waits(kept, p) <=> Waits(m, p)
  BY <1>3 DEF Waits
<1>7. Sound(b, kept)
  <2>1. Answers(kept)
    BY <1>3 DEF Sound, Answers
  <2>2. OwnLanes(b, kept)
    BY <1>3 DEF Sound, OwnLanes
  <2>3. OwnOps(b, kept)
    BY <1>3 DEF Sound, OwnOps
  <2>4. Phases(kept)
    BY <1>3, <1>5, <1>6 DEF Sound, Phases
  <2>5. Cold(kept)
    BY <1>3 DEF Cold
  <2> QED
    BY <2>1, <2>2, <2>3, <2>4, <2>5 DEF Sound
<1>8. \A p \in Question : p # q => Keeps(m, kept, p) /\ Hides(m, kept, p) /\ Stays(m, kept, p)
  BY <1>3, <1>5, <1>6 DEF Keeps, Hides, Stays, Knows, Queued
<1>9. /\ placed \in Memory /\ Sound(b, placed)
      /\ \A p \in Question :
            p # q => Keeps(kept, placed, p) /\ Hides(kept, placed, p) /\ Stays(kept, placed, p)
      /\ (Has(placed, "add", q) => Has(kept, "add", q))
      /\ placed.pending = kept.pending /\ placed.armed = kept.armed
      /\ placed.hydrates = kept.hydrates
  <2>1. CASE m.occupant[l] = None
    <3>1. placed = PresentNow(kept, q)
      BY <2>1
    <3>2. kept.occupant[LaneOf[q]] = None /\ ~Waits(kept, q) /\ q \in kept.pending
      BY <1>3, <1>6, <2>1 DEF l
    <3> HIDE DEF placed
    <3> QED
      BY <1>3, <1>7, <3>1, <3>2, Presenting
  <2>2. CASE m.occupant[l] # None
    <3> DEFINE w == Append(m.waiting[l], q)
    <3>1. m.waiting[l] \in Seq(Question) /\ w \in Seq(Question)
      BY <1>1, Members
    <3>2. /\ placed.up = kept.up /\ placed.pending = kept.pending /\ placed.armed = kept.armed
          /\ placed.live = kept.live /\ placed.occupant = kept.occupant
          /\ placed.waiting = [m.waiting EXCEPT ![l] = w]
          /\ placed.hydrates = kept.hydrates /\ placed.ops = kept.ops
          /\ placed = [up |-> placed.up, hydrates |-> placed.hydrates,
                       pending |-> placed.pending, live |-> placed.live,
                       armed |-> placed.armed, occupant |-> placed.occupant,
                       waiting |-> placed.waiting, ops |-> placed.ops]
      BY <1>3, <2>2 DEF Memory
    <3> HIDE DEF placed
    <3>3. /\ \A i \in DOMAIN w : (i \in DOMAIN m.waiting[l] /\ w[i] = m.waiting[l][i]) \/ w[i] = q
          /\ \A i, j \in DOMAIN w : w[i] = q /\ w[j] = q => i = j
      <4>1. \A i \in DOMAIN m.waiting[l] : m.waiting[l][i] # q
        BY DEF Waits, l
      <4>2. /\ DOMAIN w = 1..Len(m.waiting[l]) + 1 /\ DOMAIN m.waiting[l] = 1..Len(m.waiting[l])
            /\ Len(m.waiting[l]) \in Nat /\ w[Len(m.waiting[l]) + 1] = q
            /\ \A i \in DOMAIN m.waiting[l] : w[i] = m.waiting[l][i]
        BY <3>1
      <4> QED
        BY <4>1, <4>2
    <3> HIDE DEF w
    <3>4. /\ placed.waiting \in [Lane -> Seq(Question)] /\ placed.waiting[l] = w
          /\ \A x \in Lane : x # l => placed.waiting[x] = m.waiting[x]
      BY <1>1, <3>1, <3>2, Members
    <3>5. placed \in Memory
      BY <1>3, <3>2, <3>4, Members DEF Memory
    <3>6. \A k, p : Has(placed, k, p) <=> Has(kept, k, p)
      BY <3>2 DEF Has
    <3>7. \A p \in Question : p # q => (Waits(placed, p) => Waits(m, p))
      BY <3>3, <3>4, LaneOfType DEF Waits
    <3>8. Sound(b, placed)
      <4>1. Answers(placed)
        BY <1>7, <3>2 DEF Sound, Answers
      <4>2. OwnLanes(b, placed)
        <5>1. ASSUME NEW x \in Lane, NEW i \in DOMAIN placed.waiting[x]
              PROVE  /\ placed.waiting[x][i] \in Own(b) /\ LaneOf[placed.waiting[x][i]] = x
                     /\ placed.waiting[x][i] # placed.occupant[x]
          <6>1. CASE x = l
            BY <1>3, <3>2, <3>3, <3>4, <5>1, <6>1 DEF Sound, OwnLanes, l
          <6>2. CASE x # l
            BY <1>3, <3>2, <3>4, <5>1, <6>2 DEF Sound, OwnLanes
          <6> QED
            BY <6>1, <6>2
        <5>2. ASSUME NEW x \in Lane, NEW i \in DOMAIN placed.waiting[x],
                     NEW j \in DOMAIN placed.waiting[x],
                     placed.waiting[x][i] = placed.waiting[x][j]
              PROVE  i = j
          <6>1. CASE x = l
            BY <3>3, <3>4, <5>2, <6>1 DEF Sound, OwnLanes
          <6>2. CASE x # l
            BY <3>4, <5>2, <6>2 DEF Sound, OwnLanes
          <6> QED
            BY <6>1, <6>2
        <5> QED
          BY <1>7, <3>2, <5>1, <5>2 DEF Sound, OwnLanes
      <4>3. OwnOps(b, placed)
        BY <1>7, <3>2 DEF Sound, OwnOps
      <4>4. Phases(placed)
        <5>1. ASSUME NEW p \in Question, Has(placed, "add", p)
              PROVE  /\ ~Has(placed, "settle", p) /\ ~Waits(placed, p)
                     /\ placed.occupant[LaneOf[p]] # p
          <6>1. Has(m, "add", p) /\ p # q
            BY <1>5, <3>6, <5>1
          <6> QED
            BY <1>3, <1>5, <3>2, <3>6, <3>7, <6>1 DEF Sound, Phases
        <5>2. \A p \in placed.pending : ~Has(placed, "add", p) /\ ~Has(placed, "settle", p)
          BY <1>7, <3>2, <3>6 DEF Sound, Phases
        <5> QED
          BY <5>1, <5>2 DEF Phases
      <4>5. Cold(placed)
        BY <1>3, <3>2 DEF Cold
      <4> QED
        BY <4>1, <4>2, <4>3, <4>4, <4>5 DEF Sound
    <3>9. ASSUME NEW p \in Question, p # q
          PROVE  Keeps(kept, placed, p) /\ Hides(kept, placed, p) /\ Stays(kept, placed, p)
      <4>1. Waits(placed, p) => Waits(kept, p)
        BY <1>6, <3>7, <3>9
      <4>2. Keeps(kept, placed, p)
        BY <3>2, <3>6, <4>1 DEF Keeps, Queued
      <4>3. Hides(kept, placed, p) /\ Stays(kept, placed, p)
        BY <3>2, <4>1 DEF Hides, Stays, Knows
      <4> QED
        BY <4>2, <4>3
    <3> QED
      BY <3>2, <3>5, <3>6, <3>8, <3>9
  <2> QED
    BY <2>1, <2>2
<1> HIDE DEF placed
<1>10. CASE q \notin aborted
  <2>1. n = placed
    BY <1>4, <1>10
  <2>2. \A p \in Question : p # q => Keeps(m, n, p)
    BY <1>8, <1>9, <2>1, KeepsTransitive
  <2>3. \A p \in Question : p # q => Hides(m, n, p) /\ Stays(m, n, p)
    BY <1>8, <1>9, <2>1 DEF Hides, Stays
  <2> QED
    BY <1>2, <1>3, <1>5, <1>9, <2>1, <2>2, <2>3
<1>11. CASE q \in aborted
  <2>1. n = StartRespond(placed, q, "cancel") /\ "cancel" \in Response
    BY <1>4, <1>11 DEF Response, Reply
  <2>2. q \in placed.pending
    BY <1>3, <1>9
  <2>3. /\ n \in Memory /\ Sound(b, n)
        /\ \A p \in Question : Keeps(placed, n, p) /\ Hides(placed, n, p) /\ Stays(placed, n, p)
        /\ \A k \in {"add", "show"} : \A p : Has(n, k, p) <=> Has(placed, k, p)
        /\ n.hydrates = placed.hydrates /\ n.armed = placed.armed \ {q}
    BY <1>9, <2>1, <2>2, Responding
  <2>4. \A p \in Question : p # q => Keeps(m, n, p)
    <3>1. \A p \in Question : p # q => Keeps(m, placed, p)
      BY <1>8, <1>9, KeepsTransitive
    <3> QED
      BY <2>3, <3>1, KeepsTransitive
  <2>5. \A p \in Question : p # q => Hides(m, n, p) /\ Stays(m, n, p)
    BY <1>8, <1>9, <2>3 DEF Hides, Stays
  <2> QED
    BY <1>2, <1>3, <1>5, <1>9, <2>3, <2>4, <2>5
<1> QED
  BY <1>10, <1>11


-----------------------------------------------------------------------------
(* Types, in whatever way the bridges are deployed.                        *)

Typed(m) == m \in Memory /\ Answers(m)

\* n is a memory that m may go on with.
Follows(m, n) == Typed(n) /\ n.up = m.up

LEMMA FollowsTransitive ==
    ASSUME NEW m, NEW n, NEW o, Follows(m, n), Follows(n, o)
    PROVE  Follows(m, o)
BY DEF Follows

\* The map and the lanes may change as they like.
LEMMA FieldsTyped ==
    ASSUME NEW m, NEW n, Typed(m), n.up = m.up, n.hydrates = m.hydrates,
           n.pending \subseteq Question, n.live \subseteq Question, n.armed \subseteq Question,
           n.occupant \in [Lane -> Question \cup {None}], n.waiting \in [Lane -> Seq(Question)],
           n.ops = m.ops,
           n = [up |-> n.up, hydrates |-> n.hydrates, pending |-> n.pending, live |-> n.live,
                armed |-> n.armed, occupant |-> n.occupant, waiting |-> n.waiting, ops |-> n.ops]
    PROVE  Follows(m, n)
<1>1. n \in Memory
  BY Members DEF Typed, Memory
<1>2. Answers(n)
  BY DEF Typed, Answers
<1> QED
  BY <1>1, <1>2 DEF Follows, Typed

LEMMA PushTyped ==
    ASSUME NEW m, Typed(m), NEW k \in Kinds, NEW q \in Question, NEW r \in Response \cup {None},
           k = "settle" => r \in Response, k = "answer" => r \in Reply,
           NEW n, n = Push(m, k, q, r)
    PROVE  Follows(m, n) /\ n.ops # <<>>
<1> DEFINE op == [kind |-> k, q |-> q, response |-> r, live |-> q \in m.live]
           s == m.ops
<1>1. op \in Op /\ op.kind = k /\ op.response = r
  BY DEF Op, Kinds
<1>2. m \in Memory /\ s \in Seq(Op)
  BY Members DEF Typed
<1>3. /\ n.up = m.up /\ n.pending = m.pending /\ n.armed = m.armed
      /\ n.live = m.live /\ n.occupant = m.occupant /\ n.waiting = m.waiting
      /\ n.hydrates = m.hydrates /\ n.ops = Append(s, op)
      /\ n = [up |-> n.up, hydrates |-> n.hydrates, pending |-> n.pending, live |-> n.live,
              armed |-> n.armed, occupant |-> n.occupant, waiting |-> n.waiting, ops |-> n.ops]
  BY <1>2 DEF Memory, Push
<1> HIDE DEF op, s
<1>4. Append(s, op) \in Seq(Op) /\ Append(s, op) # <<>>
  BY <1>1, <1>2, AppendProperties
<1>5. \A i \in DOMAIN Append(s, op) : (i \in DOMAIN s /\ Append(s, op)[i] = s[i]) \/ Append(s, op)[i] = op
  BY <1>1, <1>2
<1>6. n \in Memory
  BY <1>2, <1>3, <1>4, Members DEF Memory
<1>7. Answers(n)
  BY <1>1, <1>3, <1>5 DEF Typed, Answers, s
<1> QED
  BY <1>3, <1>4, <1>6, <1>7 DEF Follows, Typed

LEMMA PresentTyped ==
    ASSUME NEW m, Typed(m), NEW q \in Question, NEW n, n = PresentNow(m, q)
    PROVE  Follows(m, n)
<1>1. CASE q \notin m.pending
  BY <1>1 DEF PresentNow, Follows
<1>2. CASE q \in m.pending
  <2>1. PICK o : o = [m EXCEPT !.occupant = [m.occupant EXCEPT ![LaneOf[q]] = q]]
    OBVIOUS
  <2>2. m \in Memory /\ [m.occupant EXCEPT ![LaneOf[q]] = q] \in [Lane -> Question \cup {None}]
    BY Members, LaneOfType DEF Typed
  <2>3. /\ o.up = m.up /\ o.hydrates = m.hydrates /\ o.pending = m.pending
        /\ o.live = m.live /\ o.armed = m.armed /\ o.waiting = m.waiting /\ o.ops = m.ops
        /\ o.occupant = [m.occupant EXCEPT ![LaneOf[q]] = q]
        /\ o = [up |-> o.up, hydrates |-> o.hydrates, pending |-> o.pending, live |-> o.live,
                armed |-> o.armed, occupant |-> o.occupant, waiting |-> o.waiting, ops |-> o.ops]
    BY <2>1, <2>2 DEF Memory
  <2>4. Follows(m, o)
    <3>1. /\ o.pending \subseteq Question /\ o.live \subseteq Question
          /\ o.armed \subseteq Question /\ o.waiting \in [Lane -> Seq(Question)]
          /\ o.occupant \in [Lane -> Question \cup {None}]
      BY <2>2, <2>3, Members
    <3> QED
      BY <2>3, <3>1, FieldsTyped
  <2>5. n = Push(o, "show", q, None)
    BY <1>2, <2>1, <2>2 DEF PresentNow, Memory
  <2>6. Follows(o, n)
    BY <2>4, <2>5, PushTyped DEF Follows, Kinds
  <2> QED
    BY <2>4, <2>6, FollowsTransitive
<1> QED
  BY <1>1, <1>2

LEMMA StartRespondTyped ==
    ASSUME NEW m, Typed(m), NEW q \in Question, NEW r \in Response, NEW n,
           n = StartRespond(m, q, r)
    PROVE  Follows(m, n) /\ n.ops # <<>>
<1>1. PICK o : o = Push(m, "settle", q, r)
  OBVIOUS
<1>2. Follows(m, o) /\ o.ops # <<>>
  BY <1>1, PushTyped DEF Kinds
<1>3. o \in Memory
  BY <1>2 DEF Follows, Typed
<1>4. n = [o EXCEPT !.pending = @ \ {q}, !.live = @ \ {q}, !.armed = @ \ {q}]
  BY <1>1 DEF StartRespond
<1>5. /\ n.up = o.up /\ n.hydrates = o.hydrates /\ n.pending = o.pending \ {q}
      /\ n.live = o.live \ {q} /\ n.armed = o.armed \ {q}
      /\ n.occupant = o.occupant /\ n.waiting = o.waiting /\ n.ops = o.ops
      /\ n = [up |-> n.up, hydrates |-> n.hydrates, pending |-> n.pending, live |-> n.live,
              armed |-> n.armed, occupant |-> n.occupant, waiting |-> n.waiting, ops |-> n.ops]
  BY <1>3, <1>4 DEF Memory
<1>6. Follows(o, n)
  BY <1>2, <1>3, <1>5, FieldsTyped, Members DEF Follows
<1> QED
  BY <1>2, <1>5, <1>6, FollowsTransitive

LEMMA RespondTyped ==
    ASSUME NEW m, Typed(m), NEW q \in Question, NEW r \in Reply, NEW n, n = Respond(m, q, r)
    PROVE  Follows(m, n) /\ (m.ops # <<>> => n.ops # <<>>)
<1>1. r \in Response
  BY DEF Response
<1>2. CASE q \in m.pending
  BY <1>1, <1>2, StartRespondTyped DEF Respond
<1>3. CASE q \notin m.pending /\ file[q].at # "absent" /\ file[q].answer = None
  <2>1. n = Push(m, "answer", q, r)
    BY <1>3 DEF Respond
  <2> QED
    BY <1>1, <2>1, PushTyped DEF Kinds
<1>4. CASE q \notin m.pending /\ ~(file[q].at # "absent" /\ file[q].answer = None)
  <2>1. n = m
    BY <1>4 DEF Respond
  <2> QED
    BY <2>1 DEF Follows
<1> QED
  BY <1>2, <1>3, <1>4

LEMMA TailTyped ==
    ASSUME NEW S, NEW s \in Seq(S), s # <<>>
    PROVE  Tail(s) \in Seq(S) /\ Head(s) \in S
OBVIOUS

LEMMA LeaveTyped ==
    ASSUME NEW S, NEW s \in Seq(S), NEW q
    PROVE  Leave(s, q) \in Seq(S)
<1> DEFINE first == {i \in DOMAIN s : s[i] = q /\ \A j \in 1..i - 1 : s[j] # q}
<1>1. CASE first = {}
  BY <1>1 DEF Leave
<1>2. CASE first # {}
  <2>1. PICK k : k = CHOOSE i \in first : TRUE
    OBVIOUS
  <2>2. k \in first
    BY <1>2, <2>1
  <2>3. k \in 1..Len(s)
    BY <2>2
  <2>4. Leave(s, q) = RemoveAt(s, k)
    BY <1>2, <2>1 DEF Leave
  <2> QED
    BY <2>3, <2>4, RemoveAtIs
<1> QED
  BY <1>1, <1>2

LEMMA FreedTyped ==
    ASSUME NEW m, Typed(m), NEW q \in Question, NEW n, n = Freed(m, q)
    PROVE  Follows(m, n)
<1> DEFINE l == LaneOf[q]
           w == Leave(m.waiting[l], q)
           o == IF m.occupant[l] = q THEN None ELSE m.occupant[l]
<1>1. l \in Lane /\ m \in Memory
  BY LaneOfType DEF Typed
<1>2. /\ n.up = m.up /\ n.pending = m.pending /\ n.armed = m.armed /\ n.live = m.live
      /\ n.occupant = [m.occupant EXCEPT ![l] = o]
      /\ n.waiting = [m.waiting EXCEPT ![l] = w]
      /\ n.hydrates = m.hydrates /\ n.ops = m.ops
      /\ n = [up |-> n.up, hydrates |-> n.hydrates, pending |-> n.pending, live |-> n.live,
              armed |-> n.armed, occupant |-> n.occupant, waiting |-> n.waiting, ops |-> n.ops]
  BY <1>1 DEF Memory, Freed
<1>3. w \in Seq(Question)
  BY <1>1, Members, LeaveTyped
<1>4. o \in Question \cup {None}
  BY <1>1, Members
<1> HIDE DEF w, o, l
<1>5. /\ n.occupant \in [Lane -> Question \cup {None}]
      /\ n.waiting \in [Lane -> Seq(Question)]
  BY <1>1, <1>2, <1>3, <1>4, Members
<1> QED
  BY <1>1, <1>2, <1>5, FieldsTyped, Members

LEMMA DrainTyped ==
    ASSUME NEW m, Typed(m), NEW l \in Lane, NEW n, n = DrainLane(m, l)
    PROVE  Follows(m, n)
<1>1. CASE m.occupant[l] # None \/ m.waiting[l] = <<>>
  BY <1>1 DEF DrainLane, Follows
<1>2. CASE m.occupant[l] = None /\ m.waiting[l] # <<>>
  <2> DEFINE w == Tail(m.waiting[l])
             q == Head(m.waiting[l])
  <2>1. m \in Memory /\ m.waiting[l] \in Seq(Question) /\ m.waiting \in [Lane -> Seq(Question)]
    BY Members DEF Typed
  <2>2. w \in Seq(Question) /\ q \in Question
    BY <1>2, <2>1, TailTyped
  <2>3. [m.waiting EXCEPT ![l] = w] \in [Lane -> Seq(Question)]
    BY <2>1, <2>2
  <2>4. PICK o : o = [m EXCEPT !.waiting = [m.waiting EXCEPT ![l] = w]]
    OBVIOUS
  <2>5. n = PresentNow(o, q)
    BY <1>2, <2>1, <2>4 DEF DrainLane, Memory
  <2> HIDE DEF w, q
  <2>6. /\ o.up = m.up /\ o.hydrates = m.hydrates /\ o.pending = m.pending
        /\ o.live = m.live /\ o.armed = m.armed /\ o.occupant = m.occupant /\ o.ops = m.ops
        /\ o.waiting = [m.waiting EXCEPT ![l] = w]
        /\ o = [up |-> o.up, hydrates |-> o.hydrates, pending |-> o.pending, live |-> o.live,
                armed |-> o.armed, occupant |-> o.occupant, waiting |-> o.waiting, ops |-> o.ops]
    BY <2>1, <2>4 DEF Memory
  <2>7. Follows(m, o)
    BY <2>1, <2>3, <2>6, FieldsTyped, Members
  <2>8. Follows(o, n)
    BY <2>2, <2>5, <2>7, PresentTyped DEF Follows
  <2> QED
    BY <2>7, <2>8, FollowsTransitive
<1> QED
  BY <1>1, <1>2

LEMMA FreeTyped ==
    ASSUME NEW m, Typed(m), NEW q \in Question, NEW n, n = FreeLane(m, q)
    PROVE  Follows(m, n)
<1>1. PICK o : o = Freed(m, q)
  OBVIOUS
<1>2. Follows(m, o)
  BY <1>1, FreedTyped
<1>3. n = DrainLane(o, LaneOf[q])
  BY <1>1 DEF FreeLane
<1>4. Follows(o, n)
  BY <1>2, <1>3, DrainTyped, LaneOfType DEF Follows
<1> QED
  BY <1>2, <1>4, FollowsTransitive

LEMMA RegisterTyped ==
    ASSUME NEW m, Typed(m), NEW q \in Question, NEW n, n = Register(m, q)
    PROVE  Follows(m, n)
<1> DEFINE l == LaneOf[q]
<1>0. l \in Lane /\ m \in Memory
  BY LaneOfType DEF Typed
<1>1. PICK o : o = [m EXCEPT !.pending = @ \cup {q}, !.live = @ \cup {q}]
  OBVIOUS
<1>2. /\ o.up = m.up /\ o.hydrates = m.hydrates /\ o.pending = m.pending \cup {q}
      /\ o.live = m.live \cup {q} /\ o.armed = m.armed /\ o.occupant = m.occupant
      /\ o.waiting = m.waiting /\ o.ops = m.ops
      /\ o = [up |-> o.up, hydrates |-> o.hydrates, pending |-> o.pending, live |-> o.live,
              armed |-> o.armed, occupant |-> o.occupant, waiting |-> o.waiting, ops |-> o.ops]
  BY <1>0, <1>1 DEF Memory
<1>3. Follows(m, o) /\ o \in Memory
  <2>1. o.pending \subseteq Question /\ o.live \subseteq Question
    BY <1>0, <1>2, Members
  <2>2. /\ o.armed \subseteq Question /\ o.occupant \in [Lane -> Question \cup {None}]
        /\ o.waiting \in [Lane -> Seq(Question)]
    BY <1>0, <1>2, Members
  <2>3. Follows(m, o)
    BY <1>2, <2>1, <2>2, FieldsTyped
  <2> QED
    BY <2>3 DEF Follows, Typed
<1>4. PICK p : p = IF m.occupant[l] # None THEN [o EXCEPT !.waiting[l] = Append(@, q)]
                   ELSE PresentNow(o, q)
  OBVIOUS
<1>5. n = IF q \in aborted THEN StartRespond(p, q, "cancel") ELSE p
  BY <1>1, <1>4 DEF Register
<1> HIDE DEF l
<1>6. Follows(o, p)
  <2>1. CASE m.occupant[l] = None
    BY <1>3, <1>4, <2>1, PresentTyped DEF Follows
  <2>2. CASE m.occupant[l] # None
    <3> DEFINE w == Append(o.waiting[l], q)
    <3>1. o.waiting[l] \in Seq(Question) /\ w \in Seq(Question)
      BY <1>0, <1>3, Members
    <3> HIDE DEF w
    <3>2. p = [o EXCEPT !.waiting = [o.waiting EXCEPT ![l] = w]]
      BY <1>3, <1>4, <2>2 DEF w, Memory
    <3>3. [o.waiting EXCEPT ![l] = w] \in [Lane -> Seq(Question)]
      BY <1>3, <3>1, Members
    <3>4. /\ p.up = o.up /\ p.hydrates = o.hydrates /\ p.pending = o.pending
          /\ p.live = o.live /\ p.armed = o.armed /\ p.occupant = o.occupant
          /\ p.waiting = [o.waiting EXCEPT ![l] = w] /\ p.ops = o.ops
          /\ p = [up |-> p.up, hydrates |-> p.hydrates, pending |-> p.pending, live |-> p.live,
                  armed |-> p.armed, occupant |-> p.occupant, waiting |-> p.waiting, ops |-> p.ops]
      BY <1>3, <3>2 DEF Memory
    <3>5. /\ p.pending \subseteq Question /\ p.live \subseteq Question
          /\ p.armed \subseteq Question /\ p.occupant \in [Lane -> Question \cup {None}]
      BY <1>3, <3>4, Members
    <3>6. Typed(o)
      BY <1>3 DEF Follows
    <3> QED
      BY <3>3, <3>4, <3>5, <3>6, FieldsTyped
  <2> QED
    BY <2>1, <2>2
<1>7. Follows(m, p)
  BY <1>3, <1>6, FollowsTransitive
<1>8. CASE q \in aborted
  <2>1. n = StartRespond(p, q, "cancel") /\ "cancel" \in Response
    BY <1>5, <1>8 DEF Response, Reply
  <2>2. Follows(p, n)
    BY <1>7, <2>1, StartRespondTyped DEF Follows
  <2> QED
    BY <1>7, <2>2, FollowsTransitive
<1>9. CASE q \notin aborted
  BY <1>5, <1>7, <1>9
<1> QED
  BY <1>8, <1>9

\* The first write is taken off.
LEMMA PopTyped ==
    ASSUME NEW m, Typed(m), m.ops # <<>>, NEW n, n = [m EXCEPT !.ops = Tail(@)]
    PROVE  /\ Follows(m, n) /\ Head(m.ops) \in Op
           /\ Head(m.ops).kind = "settle" => Head(m.ops).response \in Response
           /\ Head(m.ops).kind = "answer" => Head(m.ops).response \in Reply
<1> DEFINE s == m.ops
           t == n.ops
<1>1. m \in Memory /\ s \in Seq(Op) /\ s # <<>> /\ t = Tail(s)
  BY Members DEF Typed, Memory
<1>2. /\ n.up = m.up /\ n.hydrates = m.hydrates /\ n.pending = m.pending /\ n.live = m.live
      /\ n.armed = m.armed /\ n.occupant = m.occupant /\ n.waiting = m.waiting
      /\ n = [up |-> n.up, hydrates |-> n.hydrates, pending |-> n.pending, live |-> n.live,
              armed |-> n.armed, occupant |-> n.occupant, waiting |-> n.waiting, ops |-> n.ops]
  BY <1>1 DEF Memory
<1>3. /\ Len(s) \in Nat \ {0} /\ DOMAIN s = 1..Len(s) /\ DOMAIN t = 1..Len(s) - 1
      /\ t \in Seq(Op) /\ Head(s) = s[1] /\ Head(s) \in Op
  BY <1>1
<1>4. \A i \in DOMAIN t : t[i] = s[i + 1] /\ i + 1 \in DOMAIN s
  BY <1>1, <1>3
<1>5. 1 \in DOMAIN s
  BY <1>3
<1> HIDE DEF s, t
<1>6. n \in Memory
  BY <1>1, <1>2, <1>3, Members DEF Memory, t
<1>7. Answers(n)
  BY <1>4 DEF Typed, Answers, s, t
<1>8. /\ s[1].kind = "settle" => s[1].response \in Response
      /\ s[1].kind = "answer" => s[1].response \in Reply
  BY <1>5 DEF Typed, Answers, s
<1> QED
  BY <1>2, <1>3, <1>6, <1>7, <1>8 DEF Follows, Typed, s
-----------------------------------------------------------------------------
(* Hydration.                                                              *)

LEMMA RowsAreLists ==
    ASSUME NEW S, IsFiniteSet(S), NEW s \in Rows(S)
    PROVE  /\ s \in Seq(S) /\ Distinct(s) /\ (s = <<>> <=> S = {})
           /\ \A i \in DOMAIN s : s[i] \in S
<1>1. Cardinality(S) \in Nat /\ (Cardinality(S) = 0 <=> S = {})
  BY FS_CardinalityType, FS_EmptySet
<1>2. s \in [1..Cardinality(S) -> S] /\ \A i, j \in DOMAIN s : s[i] = s[j] => i = j
  BY DEF Rows
<1>3. s \in Seq(S) /\ Len(s) = Cardinality(S)
  BY <1>1, <1>2, LenProperties, SeqDef
<1>4. s = <<>> <=> S = {}
  BY <1>1, <1>3, EmptySeq
<1> QED
  BY <1>2, <1>3, <1>4 DEF Distinct

\* The memory with the adopted rows in it.
AdoptedBy(b, m, shown, queue, A) ==
    /\ A \in Memory /\ A.up = m.up /\ A.hydrates = m.hydrates + 1 /\ A.live = m.live
    /\ A.ops = m.ops
    /\ A.pending = m.pending \cup UNION {Adopted(m, b, l) : l \in Lane}
    /\ A.armed = m.armed \cup UNION {Shown(m, b, l) : l \in Lane}
    /\ \A l \in Lane :
          /\ A.occupant[l] = IF shown[l] = <<>> THEN m.occupant[l] ELSE Last(shown[l])
          /\ A.waiting[l] = m.waiting[l] \o queue[l]
          /\ shown[l] # <<>> => Last(shown[l]) \in Shown(m, b, l)
          /\ shown[l] = <<>> <=> Shown(m, b, l) = {}
          /\ queue[l] \in Seq(Question) /\ Distinct(queue[l])
          /\ \A i \in DOMAIN queue[l] : queue[l][i] \in Adopted(m, b, l) \ Shown(m, b, l)

LEMMA AdoptIs ==
    ASSUME NEW b \in Bridge, NEW m \in Memory, m.hydrates < MaxHydrates,
           NEW shown, NEW queue, Lists(m, b, shown, queue),
           NEW A, A = Adopt(m, b, shown, queue)
    PROVE  AdoptedBy(b, m, shown, queue, A)
<1>1. IsFiniteSet(Question)
  BY ClarifyAssumption, FS_Interval DEF Question
<1>2. \A l \in Lane : Shown(m, b, l) \subseteq Adopted(m, b, l) /\ Adopted(m, b, l) \subseteq Question
  BY DEF Shown, Adopted
<1>3. ASSUME NEW l \in Lane
      PROVE  /\ shown[l] # <<>> => Last(shown[l]) \in Shown(m, b, l)
             /\ shown[l] = <<>> <=> Shown(m, b, l) = {}
             /\ queue[l] \in Seq(Question) /\ Distinct(queue[l])
             /\ \A i \in DOMAIN queue[l] : queue[l][i] \in Adopted(m, b, l) \ Shown(m, b, l)
  <2> DEFINE S == Shown(m, b, l)
             T == Adopted(m, b, l) \ Shown(m, b, l)
  <2>1. IsFiniteSet(S) /\ IsFiniteSet(T) /\ T \subseteq Question
    BY <1>1, <1>2, FS_Subset
  <2>2. shown[l] \in Rows(S) /\ queue[l] \in Rows(T)
    BY DEF InOrder, Lists
  <2> HIDE DEF S, T
  <2>3. /\ shown[l] \in Seq(S) /\ (shown[l] = <<>> <=> S = {})
        /\ queue[l] \in Seq(T) /\ Distinct(queue[l]) /\ \A i \in DOMAIN queue[l] : queue[l][i] \in T
    BY <2>1, <2>2, RowsAreLists
  <2>4. queue[l] \in Seq(Question)
    BY <2>1, <2>3
  <2>5. shown[l] # <<>> => Last(shown[l]) \in S
    BY <2>3 DEF Last
  <2> QED
    BY <2>3, <2>4, <2>5 DEF S, T
<1>4. /\ A.up = m.up /\ A.hydrates = m.hydrates + 1 /\ A.live = m.live /\ A.ops = m.ops
      /\ A.pending = m.pending \cup UNION {Adopted(m, b, l) : l \in Lane}
      /\ A.armed = m.armed \cup UNION {Shown(m, b, l) : l \in Lane}
      /\ A.occupant = [l \in Lane |-> IF shown[l] = <<>> THEN m.occupant[l] ELSE Last(shown[l])]
      /\ A.waiting = [l \in Lane |-> m.waiting[l] \o queue[l]]
      /\ A = [up |-> A.up, hydrates |-> A.hydrates, pending |-> A.pending, live |-> A.live,
              armed |-> A.armed, occupant |-> A.occupant, waiting |-> A.waiting, ops |-> A.ops]
  BY DEF Memory, Adopt
<1>5. A.occupant \in [Lane -> Question \cup {None}]
  <2>1. \A l \in Lane : (IF shown[l] = <<>> THEN m.occupant[l] ELSE Last(shown[l])) \in Question \cup {None}
    BY <1>2, <1>3, Members
  <2> QED
    BY <1>4, <2>1
<1>6. A.waiting \in [Lane -> Seq(Question)]
  <2>1. ASSUME NEW l \in Lane PROVE m.waiting[l] \o queue[l] \in Seq(Question)
    <3>1. m.waiting[l] \in Seq(Question) /\ queue[l] \in Seq(Question)
      BY <1>3, Members
    <3> QED
      BY <3>1, ConcatProperties
  <2> QED
    BY <1>4, <2>1
<1>7. A.hydrates \in 0..MaxHydrates
  <2>1. m.hydrates \in 0..MaxHydrates /\ MaxHydrates \in Nat
    BY Members, ClarifyAssumption
  <2> QED
    BY <1>4, <2>1
<1>8. A.pending \subseteq Question /\ A.armed \subseteq Question
  BY <1>2, <1>4, Members
<1>9. A \in Memory
  BY <1>4, <1>5, <1>6, <1>7, <1>8, Members DEF Memory
<1>10. \A l \in Lane : /\ A.occupant[l] = IF shown[l] = <<>> THEN m.occupant[l] ELSE Last(shown[l])
                       /\ A.waiting[l] = m.waiting[l] \o queue[l]
  BY <1>4
<1> QED
  BY <1>3, <1>4, <1>9, <1>10 DEF AdoptedBy

LEMMA FewLanes ==
    ASSUME NEW S, \A l \in S : \E q \in Question : LaneOf[q] = l
    PROVE  IsFiniteSet(S)
<1> DEFINE T == {LaneOf[q] : q \in Question}
<1>1. LaneOf \in Surjection(Question, T)
  BY ClarifyAssumption DEF Surjection
<1>2. S \subseteq T
  OBVIOUS
<1> HIDE DEF T
<1>3. IsFiniteSet(Question)
  BY ClarifyAssumption, FS_Interval DEF Question
<1>4. IsFiniteSet(T)
  BY <1>1, <1>3, FS_Surjection
<1> QED
  BY <1>2, <1>4, FS_Subset

\* The memory A once the lanes ls are drained in this order, those of S
\* presenting.
DrainedTo(A, ls, S, order, n) ==
    /\ n \in Memory /\ n.up = A.up /\ n.hydrates = A.hydrates /\ n.live = A.live
    /\ n.pending = A.pending /\ n.armed = A.armed
    /\ order \in Seq(Lane) /\ Distinct(order)
    /\ \A i \in DOMAIN order : order[i] \in S /\ i \in Nat
    /\ \A l \in Lane :
          /\ n.occupant[l] = IF \E i \in DOMAIN order : order[i] = l
                             THEN Head(A.waiting[l]) ELSE A.occupant[l]
          /\ n.waiting[l] = IF l \in ls THEN Tail(A.waiting[l]) ELSE A.waiting[l]
    /\ \A i \in DOMAIN n.ops :
         \/ i \in DOMAIN A.ops /\ n.ops[i] = A.ops[i]
         \/ \E j \in DOMAIN order :
               /\ i = Len(A.ops) + j /\ n.ops[i].kind = "show"
               /\ n.ops[i].q = Head(A.waiting[order[j]])
    /\ A.ops # <<>> => n.ops # <<>>

\* Lanes of questions that have someone waiting.
CanDrain(A, ls) ==
    /\ ls \subseteq Lane
    /\ \A l \in ls : A.waiting[l] # <<>> /\ \E q \in Question : LaneOf[q] = l

LEMMA DrainIs ==
    ASSUME NEW A \in Memory, NEW ls, CanDrain(A, ls), NEW S \in SUBSET ls,
           NEW order \in Rows(S), NEW n, n = DrainLanes(A, ls, order)
    PROVE  DrainedTo(A, ls, S, order, n)
<1> DEFINE f == [i \in DOMAIN order |-> [kind |-> "show", q |-> Head(A.waiting[order[i]]),
                                         response |-> None,
                                         live |-> Head(A.waiting[order[i]]) \in A.live]]
           oc == [l \in Lane |-> IF l \in Range(order) THEN Head(A.waiting[l])
                                 ELSE A.occupant[l]]
           wa == [l \in Lane |-> IF l \in ls THEN Tail(A.waiting[l]) ELSE A.waiting[l]]
           s == A.ops
           t == n.ops
<1>1. /\ n.up = A.up /\ n.hydrates = A.hydrates /\ n.pending = A.pending /\ n.live = A.live
      /\ n.armed = A.armed /\ n.occupant = oc /\ n.waiting = wa /\ t = s \o f
      /\ n = [up |-> n.up, hydrates |-> n.hydrates, pending |-> n.pending, live |-> n.live,
              armed |-> n.armed, occupant |-> n.occupant, waiting |-> n.waiting, ops |-> n.ops]
  BY DEF Memory, DrainLanes
<1>2. order \in Seq(S) /\ Distinct(order) /\ \A i \in DOMAIN order : order[i] \in S
  <2>1. IsFiniteSet(S)
    BY FewLanes DEF CanDrain
  <2> QED
    BY <2>1, RowsAreLists
<1>3. order \in Seq(Lane) /\ DOMAIN order = 1..Len(order) /\ Len(order) \in Nat
  BY <1>2 DEF CanDrain
<1>4. \A l \in Lane : A.waiting[l] \in Seq(Question) /\ A.occupant[l] \in Question \cup {None}
  BY Members
<1>5. \A l \in ls : Head(A.waiting[l]) \in Question /\ Tail(A.waiting[l]) \in Seq(Question)
  BY <1>4, TailTyped DEF CanDrain
<1>6. \A l \in Lane : l \in Range(order) <=> \E i \in DOMAIN order : order[i] = l
  BY DEF Range
<1>7. /\ f \in Seq(Op) /\ Len(f) = Len(order) /\ DOMAIN f = DOMAIN order
      /\ \A i \in DOMAIN order : f[i].kind = "show" /\ f[i].q = Head(A.waiting[order[i]])
  <2>1. \A i \in DOMAIN order : Head(A.waiting[order[i]]) \in Question
    BY <1>2, <1>5
  <2>2. \A i \in DOMAIN order : f[i] \in Op
    BY <2>1 DEF Op
  <2>3. DOMAIN f = 1..Len(order) /\ f = [i \in 1..Len(order) |-> f[i]]
    BY <1>3
  <2>4. \A i \in DOMAIN order : f[i].kind = "show" /\ f[i].q = Head(A.waiting[order[i]])
    OBVIOUS
  <2> HIDE DEF f
  <2>5. f \in [1..Len(order) -> Op]
    BY <1>3, <2>2, <2>3
  <2> QED
    BY <1>3, <2>3, <2>4, <2>5, LenProperties, SeqDef
<1> HIDE DEF f, oc, wa, s, t
<1>8. t \in Seq(Op) /\ \A i \in DOMAIN t :
         \/ i \in DOMAIN s /\ t[i] = s[i]
         \/ \E j \in DOMAIN order : i = Len(s) + j /\ t[i] = f[j]
  <2>1. s \in Seq(Op) /\ t = s \o f /\ f \in Seq(Op)
    BY <1>1, <1>7, Members DEF s
  <2>2. DOMAIN order = 1..Len(f) /\ Len(f) \in Nat /\ Len(s) \in Nat
    BY <1>3, <1>7, <2>1
  <2>3. /\ t \in Seq(Op) /\ DOMAIN t = 1..Len(s) + Len(f) /\ DOMAIN s = 1..Len(s)
        /\ \A i \in 1..Len(s) + Len(f) : t[i] = IF i <= Len(s) THEN s[i] ELSE f[i - Len(s)]
    BY <2>1, <2>2, ConcatProperties, LenProperties
  <2>4. ASSUME NEW i \in DOMAIN t
        PROVE  \/ i \in DOMAIN s /\ t[i] = s[i]
               \/ \E j \in DOMAIN order : i = Len(s) + j /\ t[i] = f[j]
    <3>1. CASE i <= Len(s)
      BY <2>2, <2>3, <2>4, <3>1
    <3>2. CASE ~(i <= Len(s))
      <4>1. i \in 1..Len(s) + Len(f)
        BY <2>3, <2>4
      <4>2. t[i] = f[i - Len(s)]
        BY <2>3, <3>2, <4>1
      <4> DEFINE x == Len(s)
                 y == Len(f)
      <4>3. x \in Nat /\ y \in Nat /\ i \in 1..x + y /\ ~(i <= x)
        BY <2>2, <3>2, <4>1
      <4> HIDE DEF x, y
      <4>4. i - x \in 1..y /\ i = x + (i - x)
        BY <4>3
      <4> QED
        BY <2>2, <4>2, <4>4 DEF x, y
    <3> QED
      BY <3>1, <3>2
  <2> QED
    BY <2>3, <2>4
<1>9. s # <<>> => t # <<>>
  BY <1>1, <1>7, Members, ConcatProperties, EmptySeq DEF s
<1>10. n.occupant \in [Lane -> Question \cup {None}]
  <2>1. \A l \in Lane : l \in Range(order) => l \in ls
    BY <1>2, <1>6
  <2> QED
    BY <1>1, <1>4, <1>5, <2>1 DEF oc
<1>11. n.waiting \in [Lane -> Seq(Question)]
  BY <1>1, <1>4, <1>5 DEF wa
<1>12. n \in Memory
  BY <1>1, <1>8, <1>10, <1>11, Members DEF Memory, t
<1>13. \A l \in Lane :
         /\ n.occupant[l] = IF \E i \in DOMAIN order : order[i] = l
                            THEN Head(A.waiting[l]) ELSE A.occupant[l]
         /\ n.waiting[l] = IF l \in ls THEN Tail(A.waiting[l]) ELSE A.waiting[l]
  BY <1>1, <1>6 DEF oc, wa
<1>14. \A i \in DOMAIN n.ops :
         \/ i \in DOMAIN A.ops /\ n.ops[i] = A.ops[i]
         \/ \E j \in DOMAIN order :
               /\ i = Len(A.ops) + j /\ n.ops[i].kind = "show"
               /\ n.ops[i].q = Head(A.waiting[order[j]])
  <2> TAKE i \in DOMAIN n.ops
  <2>1. CASE i \in DOMAIN s /\ t[i] = s[i]
    BY <2>1 DEF s, t
  <2>2. CASE \E j \in DOMAIN order : i = Len(s) + j /\ t[i] = f[j]
    <3>1. PICK j \in DOMAIN order : i = Len(s) + j /\ t[i] = f[j]
      BY <2>2
    <3>2. t[i].kind = "show" /\ t[i].q = Head(A.waiting[order[j]])
      BY <1>7, <3>1
    <3> QED
      BY <3>1, <3>2 DEF s, t
  <2> QED
    BY <1>8, <2>1, <2>2 DEF t
<1>15. \A i \in DOMAIN order : i \in Nat
  BY <1>3
<1> QED
  BY <1>1, <1>2, <1>3, <1>9, <1>12, <1>13, <1>14, <1>15 DEF s, t, DrainedTo

\* A hydration in its parts: the memory A has the rows, n is what is left.
HydrateParts(b, m, shown, queue, A, order, n) ==
    /\ Lists(m, b, shown, queue) /\ A = Adopt(m, b, shown, queue)
    /\ order \in Rows(Callers(A, Drained(m, b, A)))
    /\ n = DrainLanes(A, Drained(m, b, A), order)

LEMMA HydrateTyped ==
    ASSUME NEW b \in Bridge, NEW m, Typed(m), m.hydrates < MaxHydrates,
           NEW shown, NEW queue, NEW A, NEW order, NEW n,
           HydrateParts(b, m, shown, queue, A, order, n)
    PROVE  Follows(m, n) /\ (m.ops # <<>> => n.ops # <<>>)
<1>a. PICK drained : drained = Drained(m, b, A)
  OBVIOUS
<1>b. PICK S : S = Callers(A, drained)
  OBVIOUS
<1>c. /\ Lists(m, b, shown, queue) /\ A = Adopt(m, b, shown, queue)
      /\ order \in Rows(S) /\ n = DrainLanes(A, drained, order)
  BY <1>a, <1>b DEF HydrateParts
<1>1. A \in Memory /\ A.up = m.up /\ A.ops = m.ops
  <2>1. m \in Memory
    BY DEF Typed
  <2>2. AdoptedBy(b, m, shown, queue, A)
    BY <2>1, <1>c, AdoptIs
  <2> QED
    BY <2>2 DEF AdoptedBy
<1>2. CanDrain(A, drained) /\ S \in SUBSET drained
  BY <1>a, <1>b DEF Adopted, CanDrain, Drained, Callers
<1>3. /\ n \in Memory /\ n.up = A.up /\ (A.ops # <<>> => n.ops # <<>>)
      /\ \A i \in DOMAIN n.ops : \/ i \in DOMAIN A.ops /\ n.ops[i] = A.ops[i]
                                 \/ n.ops[i].kind = "show"
  <2>1. DrainedTo(A, drained, S, order, n)
    BY <1>1, <1>2, <1>c, DrainIs
  <2> QED
    BY <2>1 DEF DrainedTo
<1>4. Answers(n)
  <2> DEFINE s == m.ops
             t == n.ops
  <2>1. \A i \in DOMAIN t : (i \in DOMAIN s /\ t[i] = s[i]) \/ t[i].kind = "show"
    BY <1>1, <1>3
  <2>2. \A i \in DOMAIN s : /\ s[i].kind = "settle" => s[i].response \in Response
                            /\ s[i].kind = "answer" => s[i].response \in Reply
    BY DEF Typed, Answers
  <2> HIDE DEF s, t
  <2>3. \A i \in DOMAIN t : /\ t[i].kind = "settle" => t[i].response \in Response
                            /\ t[i].kind = "answer" => t[i].response \in Reply
    BY <2>1, <2>2
  <2> QED
    BY <2>3 DEF Answers, t
<1> QED
  BY <1>1, <1>3, <1>4 DEF Follows, Typed
-----------------------------------------------------------------------------
(* Hydration, into the empty memory of a bridge that has just started.      *)

\* What hydration makes of a lane: it is had by one that was shown or by the head of
\* its queue, which is then being shown.
LaneHydrated(n, queue, drained, order, l) ==
    /\ queue[l] \in Seq(Question) /\ Distinct(queue[l])
    /\ \A i \in DOMAIN queue[l] :
          /\ queue[l][i] \in n.pending /\ file[queue[l][i]].at = "queued"
          /\ LaneOf[queue[l][i]] = l
    /\ \A i \in DOMAIN order : order[i] = l =>
          /\ l \in drained /\ queue[l] # <<>> /\ n.occupant[l] = Head(queue[l])
    /\ (\A i \in DOMAIN order : order[i] # l) =>
          IF \E q \in n.armed : LaneOf[q] = l
          THEN /\ l \notin drained /\ n.occupant[l] \in n.armed
               /\ LaneOf[n.occupant[l]] = l
          ELSE n.occupant[l] = None
    /\ l \in drained => (queue[l] # <<>> /\ ~\E q \in n.armed : LaneOf[q] = l)
    /\ n.waiting[l] = IF l \in drained THEN Tail(queue[l]) ELSE queue[l]

\* ... and of the memory.
Hydrated(b, m, n, queue, drained, order) ==
    /\ n \in Memory /\ n.hydrates = 1
    /\ \A q : q \in n.pending <=> q \in Question /\ Owned(m, b, q)
    /\ \A q : q \in n.armed <=> q \in n.pending /\ file[q].at = "shown"
    /\ \A l \in Lane : LaneHydrated(n, queue, drained, order, l)
    /\ Distinct(order) /\ \A i \in DOMAIN order : order[i] \in Lane /\ i \in Nat
    /\ \A i \in DOMAIN n.ops :
         \/ i \in DOMAIN m.ops /\ n.ops[i] = m.ops[i]
         \/ \E j \in DOMAIN order :
               /\ i = Len(m.ops) + j /\ n.ops[i].kind = "show"
               /\ n.ops[i].q = Head(queue[order[j]])

LEMMA Hydrating ==
    ASSUME NEW b \in Bridge, NEW m \in Memory, Sound(b, m), m.hydrates = 0,
           file \in [Question -> Row],
           NEW shown, NEW queue, Lists(m, b, shown, queue),
           NEW A, AdoptedBy(b, m, shown, queue, A),
           NEW drained, drained = {l \in Lane : /\ Adopted(m, b, l) # {}
                                                /\ A.occupant[l] = None /\ A.waiting[l] # <<>>},
           NEW S, S = {l \in drained : Head(A.waiting[l]) \in A.pending},
           NEW order, NEW n, DrainedTo(A, drained, S, order, n)
    PROVE  Hydrated(b, m, n, queue, drained, order)
<1>1. /\ m.pending = {} /\ m.armed = {}
      /\ \A l \in Lane : m.occupant[l] = None /\ m.waiting[l] = <<>>
  BY DEF Sound, Cold, OwnLanes
<1>2. \A q : q \in A.pending <=> q \in Question /\ Owned(m, b, q)
  BY <1>1, LaneOfType DEF AdoptedBy, Adopted
<1>3. \A q : q \in A.armed <=> q \in A.pending /\ file[q].at = "shown"
  BY <1>1, <1>2, LaneOfType DEF AdoptedBy, Shown, Adopted, WasShown
<1>4. \A l \in Lane : A.waiting[l] = queue[l] /\ queue[l] \in Seq(Question)
  <2> TAKE l \in Lane
  <2>1. queue[l] \in Seq(Question) /\ A.waiting[l] = m.waiting[l] \o queue[l]
    BY DEF AdoptedBy
  <2>2. <<>> \o queue[l] = queue[l]
    BY <2>1
  <2> QED
    BY <1>1, <2>1, <2>2
<1>5. ASSUME NEW l \in Lane
      PROVE  IF \E q \in A.armed : LaneOf[q] = l
             THEN A.occupant[l] \in A.armed /\ LaneOf[A.occupant[l]] = l
             ELSE A.occupant[l] = None
  <2>1. (\E q \in A.armed : LaneOf[q] = l) <=> Shown(m, b, l) # {}
    BY <1>2, <1>3 DEF Shown, Adopted, WasShown
  <2>2. IF Shown(m, b, l) = {} THEN A.occupant[l] = None ELSE A.occupant[l] \in Shown(m, b, l)
    BY <1>1 DEF AdoptedBy
  <2> QED
    BY <1>2, <1>3, <2>1, <2>2 DEF Shown, Adopted, WasShown
<1>6. ASSUME NEW l \in Lane, NEW i \in DOMAIN queue[l]
      PROVE  /\ queue[l][i] \in A.pending /\ file[queue[l][i]].at = "queued"
             /\ LaneOf[queue[l][i]] = l
  <2>1. /\ queue[l][i] \in Question /\ Owned(m, b, queue[l][i]) /\ LaneOf[queue[l][i]] = l
        /\ ~WasShown(queue[l][i])
    BY DEF AdoptedBy, Adopted, Shown
  <2>2. file[queue[l][i]].at \in {"absent", "queued", "shown"}
    BY <2>1 DEF Row
  <2> QED
    BY <1>2, <2>1, <2>2 DEF Owned, WasShown
<1>7. ASSUME NEW l \in drained
      PROVE  /\ l \in Lane /\ queue[l] # <<>> /\ A.occupant[l] = None
             /\ ~\E q \in A.armed : LaneOf[q] = l
             /\ Head(A.waiting[l]) \in A.pending
  <2>1. l \in Lane /\ queue[l] # <<>> /\ A.occupant[l] = None
    BY <1>4
  <2>2. \A q \in A.armed : q # None
    BY <1>2, <1>3, ClarifyAssumption
  <2>3. ~\E q \in A.armed : LaneOf[q] = l
    BY <1>5, <2>1, <2>2
  <2>4. Head(queue[l]) = queue[l][1] /\ 1 \in DOMAIN queue[l]
    BY <1>4, <2>1
  <2> QED
    BY <1>4, <1>6, <2>1, <2>3, <2>4
<1>8. /\ n \in Memory /\ n.hydrates = 1 /\ n.pending = A.pending /\ n.armed = A.armed
      /\ A.ops = m.ops /\ Distinct(order) /\ \A i \in DOMAIN order : order[i] \in S /\ i \in Nat
  BY DEF AdoptedBy, DrainedTo
<1>9. \A i \in DOMAIN order : order[i] \in drained /\ order[i] \in Lane
  BY <1>7, <1>8
<1>10. ASSUME NEW l \in Lane
       PROVE  LaneHydrated(n, queue, drained, order, l)
  <2>1. /\ n.occupant[l] = IF \E i \in DOMAIN order : order[i] = l
                           THEN Head(A.waiting[l]) ELSE A.occupant[l]
        /\ n.waiting[l] = IF l \in drained THEN Tail(A.waiting[l]) ELSE A.waiting[l]
    BY DEF DrainedTo
  <2>2. queue[l] \in Seq(Question) /\ Distinct(queue[l]) /\ A.waiting[l] = queue[l]
    BY <1>4 DEF AdoptedBy
  <2>3. \A i \in DOMAIN order : order[i] = l =>
           /\ l \in drained /\ queue[l] # <<>> /\ n.occupant[l] = Head(queue[l])
    BY <1>7, <1>9, <2>1, <2>2
  <2>4. (\A i \in DOMAIN order : order[i] # l) =>
           IF \E q \in n.armed : LaneOf[q] = l
           THEN /\ l \notin drained /\ n.occupant[l] \in n.armed /\ LaneOf[n.occupant[l]] = l
           ELSE n.occupant[l] = None
    BY <1>5, <1>7, <1>8, <2>1
  <2> QED
    BY <1>6, <1>7, <1>8, <2>1, <2>2, <2>3, <2>4 DEF LaneHydrated
<1>11. \A i \in DOMAIN n.ops :
         \/ i \in DOMAIN m.ops /\ n.ops[i] = m.ops[i]
         \/ \E j \in DOMAIN order :
               /\ i = Len(m.ops) + j /\ n.ops[i].kind = "show"
               /\ n.ops[i].q = Head(queue[order[j]])
  BY <1>4, <1>8, <1>9 DEF DrainedTo
<1> QED
  BY <1>2, <1>3, <1>8, <1>9, <1>10, <1>11 DEF Hydrated


\* What the hydrated memory n says of a row agrees with the file.
Wakes(b, m, n) ==
    /\ \A p \in Question :
          /\ ~Has(n, "add", p)
          /\ Has(n, "show", p) \/ Queued(n, p) => file[p].at = "queued"
          /\ p \in n.armed => file[p].at = "shown"
          /\ Knows(n, p) => Knows(m, p) \/ file[p].at # "absent"
    /\ \A p \in Own(b) : p \in Presents[b] /\ file[p].at = "shown" =>
          /\ n.occupant[LaneOf[p]] \in Own(b)
          /\ file[n.occupant[LaneOf[p]]].at = "shown"
          /\ LaneOf[n.occupant[LaneOf[p]]] = LaneOf[p]

LEMMA SoundHydrated ==
    ASSUME NEW b \in Bridge, NEW m \in Memory, NEW n, Sound(b, m), m.hydrates = 0,
           Presents[b] \subseteq Own(b), NEW queue, NEW drained, NEW order,
           Hydrated(b, m, n, queue, drained, order)
    PROVE  n \in Memory /\ Sound(b, n) /\ n.hydrates = 1 /\ Wakes(b, m, n)
<1> DEFINE New(i, j) == /\ i = Len(m.ops) + j /\ n.ops[i].kind = "show"
                        /\ n.ops[i].q = Head(queue[order[j]])
<1>1. /\ m.pending = {} /\ \A l \in Lane : m.occupant[l] = None /\ m.waiting[l] = <<>>
      /\ \A i \in DOMAIN m.ops : m.ops[i].kind \in {"answer", "reap"}
  BY DEF Sound, Cold
<1>2. /\ n \in Memory /\ n.hydrates = 1 /\ n.armed \subseteq n.pending
      /\ \A q \in n.pending : q \in Question /\ q \in Own(b) /\ file[q].at # "absent"
      /\ \A q : q \in n.armed <=> q \in n.pending /\ file[q].at = "shown"
  BY DEF Hydrated, Owned
<1>3. \A l \in Lane : LaneHydrated(n, queue, drained, order, l)
  BY DEF Hydrated
<1>4. Distinct(order) /\ \A j \in DOMAIN order : order[j] \in Lane /\ j \in Nat
  BY DEF Hydrated
<1>5. \A i \in DOMAIN n.ops : \/ i \in DOMAIN m.ops /\ n.ops[i] = m.ops[i]
                              \/ \E j \in DOMAIN order : New(i, j)
  BY DEF Hydrated
<1>6. ASSUME NEW l \in Lane, queue[l] # <<>>
      PROVE  /\ Head(queue[l]) = queue[l][1] /\ 1 \in DOMAIN queue[l]
             /\ Tail(queue[l]) \in Seq(Question)
             /\ Distinct(Tail(queue[l])) /\ Within(Tail(queue[l]), queue[l])
             /\ \A i \in DOMAIN Tail(queue[l]) : Tail(queue[l])[i] # Head(queue[l])
  <2> DEFINE s == queue[l]
  <2>1. s \in Seq(Question) /\ Distinct(s) /\ s # <<>>
    BY <1>3, <1>6 DEF LaneHydrated
  <2> HIDE DEF s
  <2>2. Head(s) = s[1] /\ 1 \in DOMAIN s
    BY <2>1
  <2>3. /\ Tail(s) \in Seq(Question) /\ Distinct(Tail(s)) /\ Within(Tail(s), s)
        /\ \A i \in DOMAIN Tail(s) : Tail(s)[i] # Head(s)
    BY <2>1, TailLeaves
  <2> QED
    BY <2>2, <2>3 DEF s
<1>7. ASSUME NEW l \in Lane
      PROVE  /\ Distinct(n.waiting[l])
             /\ \A i \in DOMAIN n.waiting[l] :
                   /\ n.waiting[l][i] \in n.pending /\ LaneOf[n.waiting[l][i]] = l
                   /\ file[n.waiting[l][i]].at = "queued"
                   /\ l \in drained => n.waiting[l][i] # Head(queue[l])
  <2>1. CASE l \in drained
    <3>1. queue[l] # <<>> /\ n.waiting[l] = Tail(queue[l])
      BY <1>3, <2>1 DEF LaneHydrated
    <3> QED
      BY <1>3, <1>6, <3>1 DEF LaneHydrated, Within
  <2>2. CASE l \notin drained
    BY <1>3, <2>2 DEF LaneHydrated
  <2> QED
    BY <2>1, <2>2
<1>8. ASSUME NEW i \in DOMAIN n.ops, NEW j \in DOMAIN order, New(i, j)
      PROVE  /\ order[j] \in Lane /\ order[j] \in drained
             /\ n.ops[i].q \in n.pending /\ LaneOf[n.ops[i].q] = order[j]
             /\ n.occupant[order[j]] = n.ops[i].q /\ file[n.ops[i].q].at = "queued"
  BY <1>3, <1>4, <1>6, <1>8 DEF LaneHydrated
<1>9. ASSUME NEW l \in Lane
      PROVE  \/ n.occupant[l] = None
             \/ n.occupant[l] \in n.armed /\ LaneOf[n.occupant[l]] = l
             \/ /\ l \in drained /\ n.occupant[l] = Head(queue[l]) /\ n.occupant[l] \in n.pending
                /\ LaneOf[n.occupant[l]] = l
  <2>1. CASE \E i \in DOMAIN order : order[i] = l
    BY <1>3, <1>6, <2>1 DEF LaneHydrated
  <2>2. CASE \A i \in DOMAIN order : order[i] # l
    BY <1>3, <2>2 DEF LaneHydrated
  <2> QED
    BY <2>1, <2>2
<1> HIDE DEF New
<1>10. \A i \in DOMAIN n.ops : \A j \in DOMAIN order :
         New(i, j) => n.ops[i].kind = "show" /\ n.ops[i].q = Head(queue[order[j]])
                      /\ i = Len(m.ops) + j
  BY DEF New
<1>11. Answers(n)
  BY <1>1, <1>5, <1>10 DEF Sound, Answers
<1>12. OwnLanes(b, n)
  <2>1. \A l \in Lane : n.occupant[l] # None => n.occupant[l] \in Own(b) /\ LaneOf[n.occupant[l]] = l
    BY <1>2, <1>9
  <2>2. ASSUME NEW l \in Lane, NEW i \in DOMAIN n.waiting[l]
        PROVE  /\ n.waiting[l][i] \in Own(b) /\ LaneOf[n.waiting[l][i]] = l
               /\ n.waiting[l][i] # n.occupant[l]
    <3>1. n.waiting[l][i] # None
      BY <1>2, <1>7, ClarifyAssumption
    <3> QED
      BY <1>2, <1>7, <1>9, <3>1
  <2>3. \A l \in Lane : \A i, j \in DOMAIN n.waiting[l] :
          n.waiting[l][i] = n.waiting[l][j] => i = j
    BY <1>7 DEF Distinct
  <2> QED
    BY <1>2, <2>1, <2>2, <2>3 DEF OwnLanes
<1>13. OwnOps(b, n)
  <2>1. \A i \in DOMAIN n.ops : n.ops[i].kind \in {"add", "show", "settle"} => n.ops[i].q \in Own(b)
    BY <1>1, <1>2, <1>5, <1>8
  <2>2. ASSUME NEW i \in DOMAIN n.ops, NEW k \in DOMAIN n.ops,
               n.ops[i].kind \in {"add", "show"}, n.ops[k].kind = n.ops[i].kind,
               n.ops[k].q = n.ops[i].q
        PROVE  i = k
    <3>1. PICK x \in DOMAIN order : New(i, x)
      BY <1>1, <1>5, <2>2
    <3>2. PICK y \in DOMAIN order : New(k, y)
      BY <1>1, <1>5, <2>2
    <3>3. order[x] = order[y]
      BY <1>8, <2>2, <3>1, <3>2
    <3>4. x = y
      BY <1>4, <3>3 DEF Distinct
    <3> QED
      BY <1>10, <3>1, <3>2, <3>4
  <2>3. \A i \in DOMAIN n.ops : n.ops[i].kind = "show" => n.occupant[LaneOf[n.ops[i].q]] = n.ops[i].q
    BY <1>1, <1>5, <1>8
  <2>4. \A i \in DOMAIN n.ops : n.ops[i].kind # "settle"
    BY <1>1, <1>5, <1>10
  <2> QED
    BY <2>1, <2>2, <2>3, <2>4 DEF OwnOps
<1>14. \A p : ~Has(n, "add", p) /\ ~Has(n, "settle", p)
  BY <1>1, <1>5, <1>10 DEF Has
<1>15. Sound(b, n)
  BY <1>2, <1>11, <1>12, <1>13, <1>14 DEF Sound, Phases, Cold
<1>16. ASSUME NEW p \in Question
       PROVE  /\ Has(n, "show", p) \/ Queued(n, p) => file[p].at = "queued"
              /\ p \in n.armed => file[p].at = "shown"
              /\ Knows(n, p) => Knows(m, p) \/ file[p].at # "absent"
  <2>1. Has(n, "show", p) => file[p].at = "queued"
    BY <1>1, <1>5, <1>8 DEF Has
  <2>2. Waits(n, p) => file[p].at = "queued"
    BY <1>7, LaneOfType DEF Waits
  <2>3. n.occupant[LaneOf[p]] = p => p \in n.pending
    BY <1>2, <1>9, LaneOfType, ClarifyAssumption
  <2>4. (\E i \in DOMAIN n.ops : n.ops[i].q = p) => (\E i \in DOMAIN m.ops : m.ops[i].q = p) \/ p \in n.pending
    BY <1>5, <1>8
  <2> QED
    BY <1>2, <2>1, <2>2, <2>3, <2>4 DEF Queued, Knows
<1>17. ASSUME NEW p \in Own(b), p \in Presents[b], file[p].at = "shown"
       PROVE  /\ n.occupant[LaneOf[p]] \in Own(b)
              /\ file[n.occupant[LaneOf[p]]].at = "shown"
              /\ LaneOf[n.occupant[LaneOf[p]]] = LaneOf[p]
  <2>1. p \in Question /\ LaneOf[p] \in Lane
    BY LaneOfType DEF Own
  <2>2. p \in n.armed
    BY <1>1, <1>2, <1>17, <2>1 DEF Hydrated, Owned
  <2>3. \A i \in DOMAIN order : order[i] # LaneOf[p]
    BY <1>3, <2>1, <2>2 DEF LaneHydrated
  <2>4. n.occupant[LaneOf[p]] \in n.armed /\ LaneOf[n.occupant[LaneOf[p]]] = LaneOf[p]
    BY <1>3, <2>1, <2>2, <2>3 DEF LaneHydrated
  <2> QED
    BY <1>2, <2>4
<1> QED
  BY <1>2, <1>14, <1>15, <1>16, <1>17 DEF Wakes

-----------------------------------------------------------------------------
(* The invariants: each memory is sound, and memories and rows agree.       *)

Home(q) == mem[AskedOn[q]]

Memories == \A b \in Bridge : Sound(b, mem[b])

\* Nobody has heard of a question that was not asked yet.
Unasked(q) ==
    asker[q] = "unasked" =>
       /\ file[q] = Absent
       /\ \A c \in Bridge : /\ ~Knows(mem[c], q) /\ prompts[q][c] = 0
                            /\ snap[c] # NoSnap => snap[c][1][q] = Absent

\* As long as no write took its row back: a question whose row is being added is nowhere
\* else; a bridge that shall show a question did not show it, and no bridge showed one
\* whose row is queued.
ToBeShown(q) ==
    \A c \in Bridge :
       /\ Has(mem[c], "add", q) =>
             /\ AskedOn[q] = c /\ file[q].at = "absent"
             /\ \A d \in Bridge : prompts[q][d] = 0 /\ ~ToShow(mem[d], q)
       /\ file[q].at = "queued" \/ ToShow(mem[c], q) => prompts[q][c] = 0
       /\ prompts[q][c] <= IF q \in Presents[c] THEN 1 ELSE 0

Unshown(q) == q \notin clobbered => ToBeShown(q)

\* Where no write took a row of the lane back: a question that was shown, or whose timer
\* runs, has the lane.
HasLane(q) ==
    /\ file[q].at = "shown" /\ Home(q).hydrates > 0 => Home(q).occupant[LaneOf[q]] = q
    /\ q \in Home(q).armed => Home(q).occupant[LaneOf[q]] = q

\* No other question of its lane was shown.
Lone(q) ==
    \A p \in Question : file[p].at = "shown" /\ AskedOn[p] = AskedOn[q] /\ LaneOf[p] = LaneOf[q]
                          => p = q

Alone(q) == file[q].at = "shown" => Lone(q)

Open(q) == Apart /\ Intact(LaneOf[q]) => HasLane(q) /\ Alone(q)

Agree == \A q \in Question : Unasked(q) /\ Unshown(q) /\ Open(q)

IInv == TypeOK /\ Memories /\ Agree

-----------------------------------------------------------------------------
(* What is kept of a question when bridge b goes on with the memory n.      *)

LEMMA Others ==
    ASSUME TypeOK, NEW b \in Bridge, NEW n, mem' = [mem EXCEPT ![b] = n]
    PROVE  /\ mem[b] \in Memory /\ mem'[b] = n
           /\ \A c \in Bridge : mem[c] \in Memory /\ (c # b => mem'[c] = mem[c])
           /\ \A q \in Question : AskedOn[q] = b => Home(q) = mem[b] /\ Home(q)' = n
           /\ \A q \in Question : AskedOn[q] # b => Home(q)' = Home(q)
BY LaneOfType DEF TypeOK, Home

LEMMA MemoriesKept ==
    ASSUME TypeOK, Memories, NEW b \in Bridge, NEW n, mem' = [mem EXCEPT ![b] = n],
           n \in Memory, Sound(b, n)
    PROVE  mem' \in [Bridge -> Memory] /\ Memories'
BY Others DEF TypeOK, Memories

LEMMA UnaskedKept ==
    ASSUME TypeOK, NEW b \in Bridge, NEW n, mem' = [mem EXCEPT ![b] = n],
           NEW q \in Question, Unasked(q), asker'[q] = "unasked",
           asker[q] = "unasked", file'[q] = file[q], prompts'[q] = prompts[q],
           Knows(n, q) => Knows(mem[b], q),
           \A c \in Bridge : snap'[c] = snap[c] \/ snap'[c] = NoSnap
    PROVE  Unasked(q)'
<1>1. file'[q] = Absent /\ \A c \in Bridge : prompts'[q][c] = 0
  BY DEF Unasked
<1>2. \A c \in Bridge : ~Knows(mem'[c], q)
  BY Others DEF Unasked
<1>3. \A c \in Bridge : snap'[c] # NoSnap => snap'[c][1][q] = Absent
  BY DEF Unasked
<1> QED
  BY <1>1, <1>2, <1>3 DEF Unasked

LEMMA ToBeShownKept ==
    ASSUME TypeOK, NEW b \in Bridge, NEW n, mem' = [mem EXCEPT ![b] = n],
           NEW q \in Question, ToBeShown(q),
           Has(n, "add", q) => Has(mem[b], "add", q), ToShow(n, q) => ToShow(mem[b], q),
           file'[q].at \in {file[q].at, "absent"}, prompts'[q] = prompts[q]
    PROVE  ToBeShown(q)'
<1>1. ASSUME NEW c \in Bridge
      PROVE  /\ Has(mem'[c], "add", q) => Has(mem[c], "add", q)
             /\ ToShow(mem'[c], q) => ToShow(mem[c], q)
  BY Others
<1>2. file'[q].at = "queued" => file[q].at = "queued"
  OBVIOUS
<1>3. file[q].at = "absent" => file'[q].at = "absent"
  OBVIOUS
<1> QED
  BY <1>1, <1>2, <1>3 DEF ToBeShown

LEMMA ToShowKept ==
    ASSUME NEW m, NEW n, NEW q, Keeps(m, n, q)
    PROVE  (Has(n, "add", q) => Has(m, "add", q)) /\ (ToShow(n, q) => ToShow(m, q))
BY DEF Keeps, ToShow

LEMMA HasLaneKept ==
    ASSUME TypeOK, NEW b \in Bridge, NEW n, mem' = [mem EXCEPT ![b] = n],
           NEW q \in Question, HasLane(q), Stays(mem[b], n, q), n.hydrates = mem[b].hydrates,
           q \in n.armed => q \in mem[b].armed,
           file'[q].at = "shown" => file[q].at = "shown"
    PROVE  HasLane(q)'
<1>1. CASE AskedOn[q] = b
  <2>1. Home(q) = mem[b] /\ Home(q)' = n
    BY <1>1, Others DEF Home
  <2> QED
    BY <2>1 DEF HasLane, Stays
<1>2. CASE AskedOn[q] # b
  <2>1. Home(q)' = Home(q)
    BY <1>2, Others
  <2> QED
    BY <2>1 DEF HasLane
<1> QED
  BY <1>1, <1>2

LEMMA AloneKept ==
    ASSUME NEW q \in Question, Alone(q),
           \A p \in Question : LaneOf[p] = LaneOf[q] /\ file'[p].at = "shown" => file[p].at = "shown"
    PROVE  Alone(q)'
BY DEF Alone, Lone

LEMMA IntactKept ==
    ASSUME clobbered \subseteq clobbered', NEW l, Intact(l)'
    PROVE  Intact(l) /\ \A p : LaneOf[p] = l => p \notin clobbered'
BY DEF Intact

\* A step of one bridge that leaves the file alone, for one question.
LEMMA QuietFor ==
    ASSUME TypeOK, NEW b \in Bridge, NEW n, mem' = [mem EXCEPT ![b] = n],
           file' = file, prompts' = prompts, clobbered' = clobbered,
           \A c \in Bridge : snap'[c] = snap[c] \/ snap'[c] = NoSnap,
           NEW q \in Question, Unasked(q), Unshown(q), Open(q),
           Keeps(mem[b], n, q), Stays(mem[b], n, q),
           asker'[q] = "unasked" => asker[q] = "unasked",
           Knows(n, q) => Knows(mem[b], q) \/ file[q].at # "absent"
    PROVE  Unasked(q)' /\ Unshown(q)' /\ Open(q)'
<1>2. Unasked(q)'
  <2>1. CASE asker'[q] = "unasked"
    <3>1. asker[q] = "unasked"
      BY <2>1
    <3>2. file[q].at = "absent"
      BY <3>1 DEF Unasked, Absent
    <3> QED
      BY <2>1, <3>1, <3>2, UnaskedKept
  <2>2. CASE asker'[q] # "unasked"
    BY <2>2 DEF Unasked
  <2> QED
    BY <2>1, <2>2
<1>3. Unshown(q)'
  <2>1. q \notin clobbered => ToBeShown(q)'
    BY ToBeShownKept, ToShowKept DEF Unshown
  <2> QED
    BY <2>1 DEF Unshown
<1>4. Open(q)'
  <2>1. n.hydrates = mem[b].hydrates /\ (q \in n.armed => q \in mem[b].armed)
    BY DEF Keeps
  <2>2. HasLane(q) => HasLane(q)'
    BY <2>1, HasLaneKept
  <2>3. Alone(q) => Alone(q)'
    BY AloneKept
  <2>4. Intact(LaneOf[q])' => Intact(LaneOf[q])
    BY IntactKept
  <2>5. HasLane(q)' /\ Alone(q)' => Open(q)'
    BY DEF Open
  <2>6. ~(Apart /\ Intact(LaneOf[q])') => Open(q)'
    BY DEF Open
  <2> QED
    BY <2>2, <2>3, <2>4, <2>5, <2>6 DEF Open
<1> QED
  BY <1>2, <1>3, <1>4

LEMMA Quiet ==
    ASSUME TypeOK, Agree, NEW b \in Bridge, NEW n, mem' = [mem EXCEPT ![b] = n],
           file' = file, prompts' = prompts, clobbered' = clobbered,
           \A c \in Bridge : snap'[c] = snap[c] \/ snap'[c] = NoSnap,
           \A q \in Question : Keeps(mem[b], n, q) /\ Stays(mem[b], n, q),
           \A q \in Question : asker'[q] = "unasked" => asker[q] = "unasked",
           \A q \in Question : Knows(n, q) => Knows(mem[b], q) \/ file[q].at # "absent"
    PROVE  Agree'
<1> SUFFICES ASSUME NEW q \in Question
             PROVE  Unasked(q)' /\ Unshown(q)' /\ Open(q)'
  BY DEF Agree
<1>1. Unasked(q) /\ Unshown(q) /\ Open(q)
  BY DEF Agree
<1> QED
  BY <1>1, QuietFor

-----------------------------------------------------------------------------
(* What a write makes of the rows.                                         *)

LEMMA Patching ==
    ASSUME NEW rows \in [Question -> Row], NEW op \in Op,
           op.kind = "answer" => op.response \in Reply
    PROVE  /\ Patched(rows, op) \in [Question -> Row]
           /\ \A p \in Question : p # op.q => Patched(rows, op)[p] = rows[p]
           /\ op.kind = "add" => Patched(rows, op)[op.q].at = "queued"
           /\ op.kind = "show" => \/ Patched(rows, op)[op.q].at = "shown"
                                  \/ Patched(rows, op)[op.q].at = rows[op.q].at /\ rows[op.q].at = "absent"
           /\ op.kind = "answer" => Patched(rows, op)[op.q].at = rows[op.q].at
           /\ op.kind \in {"settle", "reap"} => Patched(rows, op)[op.q].at = "absent"
<1>1. op.kind \in Kinds /\ op.q \in Question
  BY DEF Op, Kinds
<1>2. rows[op.q] \in Row
  BY <1>1
<1>3. CASE op.kind = "add"
  <2>1. Patched(rows, op) = [rows EXCEPT ![op.q] = [at |-> "queued", answer |-> None]]
    BY <1>3 DEF Patched
  <2> QED
    BY <1>1, <1>3, <2>1 DEF Row
<1>4. CASE op.kind = "show" /\ rows[op.q].at # "absent"
  <2>1. Patched(rows, op) = [rows EXCEPT ![op.q].at = "shown"]
    BY <1>4 DEF Patched
  <2> QED
    BY <1>1, <1>2, <1>4, <2>1 DEF Row
<1>5. CASE op.kind = "answer" /\ rows[op.q].at # "absent"
  <2>1. Patched(rows, op) = [rows EXCEPT ![op.q].answer = op.response]
    BY <1>5 DEF Patched
  <2> QED
    BY <1>1, <1>2, <1>5, <2>1 DEF Row
<1>6. CASE op.kind \in {"settle", "reap"}
  <2>1. Patched(rows, op) = [rows EXCEPT ![op.q] = Absent]
    BY <1>6 DEF Patched
  <2> QED
    BY <1>1, <1>6, <2>1 DEF Row, Absent
<1>7. CASE op.kind \in {"show", "answer"} /\ rows[op.q].at = "absent"
  <2>1. Patched(rows, op) = rows
    BY <1>7 DEF Patched
  <2> QED
    BY <1>1, <1>7, <2>1
<1> QED
  BY <1>1, <1>3, <1>4, <1>5, <1>6, <1>7 DEF Kinds

\* The first write of bridge b, which it has read the file for.
LEMMA Writing ==
    ASSUME TypeOK, Memories, Agree, NEW b \in Bridge, NEW kind, WriteFile(b, kind),
           NEW op, op = Head(mem[b].ops)
    PROVE  /\ mem[b].ops # <<>> /\ op \in Op /\ op.kind = kind /\ Has(mem[b], kind, op.q)
           /\ asker[op.q] # "unasked"
           /\ file' \in [Question -> Row] /\ clobbered \subseteq clobbered' /\ clobbered' \subseteq Question
           /\ \A q \in Question \ clobbered' : file'[q] = Patched(file, op)[q]
           /\ \A q \in Question : q # op.q => file'[q] = snap[b][1][q]
           /\ \A q \in Question \ clobbered' : q # op.q => file'[q] = file[q]
           /\ snap[b] # NoSnap /\ snap' = [snap EXCEPT ![b] = NoSnap]
<1>1. /\ snap[b] # NoSnap /\ op.kind = kind /\ file' = Patched(snap[b][1], op)
      /\ clobbered' = clobbered \cup {q \in Question : Patched(snap[b][1], op)[q] # Patched(file, op)[q]}
      /\ snap' = [snap EXCEPT ![b] = NoSnap]
  BY DEF WriteFile, DropsRead
<1>2. /\ mem[b] \in Memory /\ Sound(b, mem[b]) /\ mem[b].ops # <<>> /\ file \in [Question -> Row]
      /\ snap[b][1] \in [Question -> Row] /\ clobbered \subseteq Question
  BY <1>1 DEF TypeOK, Memories
<1>3. op \in Op /\ Has(mem[b], kind, op.q) /\ (op.kind = "answer" => op.response \in Reply)
  <2>1. PICK m : m = [mem[b] EXCEPT !.ops = Tail(@)]
    OBVIOUS
  <2> QED
    BY <1>1, <1>2, <2>1, Pop
<1>4. op.q \in Question
  BY <1>3 DEF Op
<1>5. asker[op.q] # "unasked"
  BY <1>3, <1>4 DEF Agree, Unasked, Knows, Has
<1>6. /\ file' \in [Question -> Row]
      /\ \A p \in Question : p # op.q => file'[p] = snap[b][1][p]
      /\ \A p \in Question : p # op.q => Patched(file, op)[p] = file[p]
  BY <1>1, <1>2, <1>3, Patching
<1>7. \A q \in Question \ clobbered' : file'[q] = Patched(file, op)[q]
  BY <1>1
<1> QED
  BY <1>1, <1>2, <1>3, <1>5, <1>6, <1>7

\* What is left to say of the question that a write is about.
LEMMA Written ==
    ASSUME TypeOK, Memories, Agree, NEW b \in Bridge, NEW kind, WriteFile(b, kind),
           NEW n, mem' = [mem EXCEPT ![b] = n], NEW q, q = Head(mem[b].ops).q,
           \A p \in Question : p # q => /\ Keeps(mem[b], n, p) /\ Hides(mem[b], n, p)
                                        /\ Stays(mem[b], n, p) /\ prompts'[p] = prompts[p],
           \A p \in Question : asker'[p] = "unasked" => asker[p] = "unasked",
           q \notin clobbered' => ToBeShown(q)',
           Apart /\ Intact(LaneOf[q])' => HasLane(q)',
           Apart /\ Intact(LaneOf[q])' /\ file'[q].at = "shown" => Lone(q)
    PROVE  Agree'
<1> DEFINE op == Head(mem[b].ops)
<1>1. /\ asker[q] # "unasked" /\ clobbered \subseteq clobbered' /\ clobbered' \subseteq Question
      /\ \A p \in Question : p # q => file'[p] = snap[b][1][p]
      /\ \A p \in Question \ clobbered' : p # q => file'[p] = file[p]
      /\ snap[b] # NoSnap /\ snap' = [snap EXCEPT ![b] = NoSnap] /\ q \in Question
  <2>1. op = Head(mem[b].ops) /\ q = op.q
    OBVIOUS
  <2> HIDE DEF op
  <2>2. op.q \in Question
    BY <2>1, Writing DEF Op
  <2> QED
    BY <2>1, <2>2, Writing
<1> SUFFICES ASSUME NEW p \in Question
             PROVE  Unasked(p)' /\ Unshown(p)' /\ Open(p)'
  BY DEF Agree
<1>2. Unasked(p) /\ Unshown(p) /\ Open(p)
  BY DEF Agree
<1>3. Unasked(p)'
  <2>1. CASE asker'[p] = "unasked"
    <3>1. asker[p] = "unasked" /\ p # q
      BY <1>1, <2>1
    <3>2. file'[p] = Absent /\ file[p] = Absent
      BY <1>1, <1>2, <3>1 DEF Unasked
    <3>3. \A c \in Bridge : snap'[c] = snap[c] \/ snap'[c] = NoSnap
      BY <1>1 DEF TypeOK
    <3>4. Knows(n, p) => Knows(mem[b], p)
      BY <3>1 DEF Hides
    <3> QED
      BY <1>2, <2>1, <3>1, <3>2, <3>3, <3>4, UnaskedKept
  <2>2. CASE asker'[p] # "unasked"
    BY <2>2 DEF Unasked
  <2> QED
    BY <2>1, <2>2
<1>4. Unshown(p)'
  <2>1. CASE p = q
    BY <2>1 DEF Unshown
  <2>2. CASE p # q /\ p \notin clobbered'
    <3>1. ToBeShown(p) /\ file'[p] = file[p]
      BY <1>1, <1>2, <2>2 DEF Unshown
    <3>2. ToBeShown(p)'
      BY <2>2, <3>1, ToBeShownKept, ToShowKept
    <3> QED
      BY <3>2 DEF Unshown
  <2>3. CASE p \in clobbered'
    BY <2>3 DEF Unshown
  <2> QED
    BY <2>1, <2>2, <2>3
<1>5. CASE Apart /\ Intact(LaneOf[p])'
  <2>1. /\ HasLane(p) /\ Alone(p) /\ Intact(LaneOf[p])
        /\ \A x \in Question : LaneOf[x] = LaneOf[p] => x \notin clobbered'
    BY <1>1, <1>2, <1>5, IntactKept DEF Open
  <2>2. \A x \in Question : LaneOf[x] = LaneOf[p] /\ x # q => file'[x] = file[x]
    BY <1>1, <2>1
  <2>3. HasLane(p)'
    <3>1. CASE p = q
      BY <1>5, <3>1
    <3>2. CASE p # q
      <4>1. n.hydrates = mem[b].hydrates /\ (p \in n.armed => p \in mem[b].armed) /\ Stays(mem[b], n, p)
        BY <3>2 DEF Keeps
      <4> QED
        BY <2>1, <2>2, <3>2, <4>1, HasLaneKept
    <3> QED
      BY <3>1, <3>2
  <2>4. ASSUME NEW x \in Question, file'[x].at = "shown", file'[p].at = "shown",
               AskedOn[x] = AskedOn[p], LaneOf[x] = LaneOf[p]
        PROVE  x = p
    <3>1. CASE x # q /\ p # q
      BY <2>1, <2>2, <2>4, <3>1 DEF Alone, Lone
    <3>2. CASE x = q /\ p # q
      BY <1>5, <2>2, <2>4, <3>2 DEF Lone
    <3>3. CASE x # q /\ p = q
      BY <1>5, <2>2, <2>4, <3>3 DEF Lone
    <3> QED
      BY <3>1, <3>2, <3>3
  <2>5. Alone(p)'
    BY <2>4 DEF Alone, Lone
  <2> QED
    BY <1>3, <1>4, <2>3, <2>5 DEF Open
<1>6. CASE ~(Apart /\ Intact(LaneOf[p])')
  BY <1>3, <1>4, <1>6 DEF Open
<1> QED
  BY <1>5, <1>6

-----------------------------------------------------------------------------
(* Types are kept, in whatever way the bridges are deployed.               *)

\* A bridge that is down holds nothing, and nobody asks on it.
Down(b) ==
    ~Up(b) => mem[b] = Empty(FALSE) /\ \A q \in Question : AskedOn[q] = b => asker[q] # "asking"

TypesOK == TypeOK /\ \A b \in Bridge : Answers(mem[b]) /\ Down(b)

Askers == [Question -> Response \cup {"unasked", "asking", "died"}]
Snaps  == [Bridge -> {NoSnap} \cup {<<f>> : f \in [Question -> Row]}]

LEMMA BridgeTypes ==
    ASSUME TypesOK, NEW b \in Bridge
    PROVE  /\ Typed(mem[b]) /\ Down(b)
           /\ ~Up(b) => /\ mem[b].ops = <<>> /\ snap[b] = NoSnap
                        /\ mem[b].pending = {} /\ mem[b].armed = {}
BY DEF TypesOK, TypeOK, Typed, Down, Empty

\* A bridge that is up goes on with the memory n.
LEMMA TypesKept ==
    ASSUME TypesOK, NEW b \in Bridge, NEW n, mem' = [mem EXCEPT ![b] = n],
           Up(b), Follows(mem[b], n),
           file' \in [Question -> Row], asker' \in Askers, prompts' \in [Question -> [Bridge -> Nat]],
           due' \subseteq Question, aborted' \subseteq Question, told' \subseteq Question,
           clobbered' \subseteq Question, replies' \in Nat, crashes' \in Nat,
           snap' \in Snaps, snap'[b] # NoSnap => n.ops # <<>>,
           \A c \in Bridge : c # b => snap'[c] = snap[c],
           \A q \in Question : asker'[q] = "asking" => asker[q] = "asking" \/ AskedOn[q] = b
    PROVE  TypesOK'
<1>1. n \in Memory /\ Answers(n) /\ n.up = TRUE
  BY DEF Follows, Typed, Up, TypesOK, TypeOK, Memory
<1>2. /\ mem' \in [Bridge -> Memory] /\ mem'[b] = n
      /\ \A c \in Bridge : c # b => mem'[c] = mem[c]
  BY <1>1 DEF TypesOK, TypeOK
<1>3. \A c \in Bridge : snap'[c] # NoSnap => mem'[c].ops # <<>>
  BY <1>2 DEF TypesOK, TypeOK
<1>4. TypeOK'
  BY <1>2, <1>3 DEF TypeOK, Askers, Snaps
<1>5. ASSUME NEW c \in Bridge
      PROVE  Answers(mem'[c]) /\ Down(c)'
  <2>1. CASE c = b
    BY <1>1, <1>2, <2>1 DEF Down, Up
  <2>2. CASE c # b
    <3>1. mem'[c] = mem[c] /\ Answers(mem[c]) /\ Down(c)
      BY <1>2, <2>2 DEF TypesOK
    <3> QED
      BY <2>2, <3>1 DEF Down, Up
  <2> QED
    BY <2>1, <2>2
<1> QED
  BY <1>4, <1>5 DEF TypesOK

\* What TypeOK says of the variables that a step may leave alone.
LEMMA TypesOf ==
    ASSUME TypesOK
    PROVE  /\ file \in [Question -> Row] /\ asker \in Askers /\ prompts \in [Question -> [Bridge -> Nat]]
           /\ due \subseteq Question /\ aborted \subseteq Question /\ told \subseteq Question
           /\ clobbered \subseteq Question /\ replies \in Nat /\ crashes \in Nat /\ snap \in Snaps
           /\ \A b \in Bridge : snap[b] # NoSnap => mem[b].ops # <<>>
BY DEF TypesOK, TypeOK, Askers, Snaps

LEMMA ReadTypes ==
    ASSUME TypesOK, NEW b \in Bridge, ReadFile(b)
    PROVE  TypesOK'
<1>1. /\ mem[b].ops # <<>> /\ snap' = [snap EXCEPT ![b] = <<file>>]
      /\ file' = file /\ mem' = mem /\ asker' = asker /\ prompts' = prompts
      /\ clobbered' = clobbered /\ due' = due /\ aborted' = aborted /\ told' = told
      /\ replies' = replies /\ crashes' = crashes
  BY DEF ReadFile, askers, ghosts, bounds
<1>2. snap' \in Snaps
  <2>1. <<file>> \in {<<f>> : f \in [Question -> Row]}
    BY TypesOf
  <2> QED
    BY <1>1, <2>1, TypesOf DEF Snaps
<1>3. \A c \in Bridge : snap'[c] # NoSnap => mem'[c].ops # <<>>
  BY <1>1, TypesOf DEF Snaps
<1>4. TypeOK'
  BY <1>1, <1>2, <1>3 DEF TypesOK, TypeOK, Snaps
<1>5. \A c \in Bridge : Answers(mem'[c]) /\ Down(c)'
  BY <1>1 DEF TypesOK, Down, Up
<1> QED
  BY <1>4, <1>5 DEF TypesOK

\* The first write of a bridge, and what it goes on with.
LEMMA WriteTypes ==
    ASSUME TypesOK, NEW b \in Bridge, NEW kind, WriteFile(b, kind)
    PROVE  /\ Up(b) /\ mem[b].ops # <<>> /\ Head(mem[b].ops) \in Op
           /\ Head(mem[b].ops).kind = kind
           /\ Follows(mem[b], Popped(b)) /\ Head(mem[b].ops).q \in Question
           /\ kind = "settle" => Head(mem[b].ops).response \in Response
           /\ file' \in [Question -> Row] /\ clobbered' \subseteq Question
           /\ snap' \in Snaps /\ snap'[b] = NoSnap
           /\ \A c \in Bridge : c # b => snap'[c] = snap[c]
<1> DEFINE op == Head(mem[b].ops)
<1>1. /\ snap[b] # NoSnap /\ op.kind = kind /\ file' = Patched(snap[b][1], op)
      /\ clobbered' = clobbered \cup {q \in Question : Patched(snap[b][1], op)[q] # Patched(file, op)[q]}
      /\ snap' = [snap EXCEPT ![b] = NoSnap]
  BY DEF WriteFile, DropsRead
<1>2. Typed(mem[b]) /\ mem[b].ops # <<>> /\ Up(b)
  BY <1>1, BridgeTypes, TypesOf
<1>3. /\ snap' \in Snaps /\ snap'[b] = NoSnap /\ snap[b][1] \in [Question -> Row]
      /\ \A c \in Bridge : c # b => snap'[c] = snap[c]
  BY <1>1, TypesOf DEF Snaps
<1>4. PICK m : m = mem[b]
  OBVIOUS
<1>5. PICK n : n = [m EXCEPT !.ops = Tail(@)]
  OBVIOUS
<1>6. /\ Follows(m, n) /\ Head(m.ops) \in Op
      /\ Head(m.ops).kind = "settle" => Head(m.ops).response \in Response
      /\ Head(m.ops).kind = "answer" => Head(m.ops).response \in Reply
  BY <1>2, <1>4, <1>5, PopTyped
<1>7. /\ Follows(mem[b], Popped(b)) /\ op \in Op /\ op.q \in Question
      /\ op.kind = "answer" => op.response \in Reply
      /\ op.kind = "settle" => op.response \in Response
  BY <1>4, <1>5, <1>6 DEF Popped, Op
<1>8. file' \in [Question -> Row]
  <2>1. PICK rows \in [Question -> Row] : rows = snap[b][1]
    BY <1>3
  <2> HIDE DEF op
  <2>2. Patched(rows, op) \in [Question -> Row]
    BY <1>7, Patching
  <2> QED
    BY <1>1, <2>1, <2>2
<1>9. clobbered' \subseteq Question
  BY <1>1, TypesOf
<1> QED
  BY <1>1, <1>2, <1>3, <1>7, <1>8, <1>9

\* ... whatever the continuation makes of the memory.
LEMMA ThenTypes ==
    ASSUME TypesOK, NEW b \in Bridge, NEW kind, WriteFile(b, kind),
           NEW n, mem' = [mem EXCEPT ![b] = n], Follows(Popped(b), n),
           asker' \in Askers, prompts' \in [Question -> [Bridge -> Nat]], told' \subseteq Question,
           \A q \in Question : asker'[q] = "asking" => asker[q] = "asking",
           due' = due, aborted' = aborted, replies' = replies, crashes' = crashes
    PROVE  TypesOK'
<1>1. /\ Up(b) /\ Follows(mem[b], Popped(b))
      /\ file' \in [Question -> Row] /\ clobbered' \subseteq Question
      /\ snap' \in Snaps /\ snap'[b] = NoSnap
      /\ \A c \in Bridge : c # b => snap'[c] = snap[c]
  BY WriteTypes
<1>2. Follows(mem[b], n)
  BY <1>1, FollowsTransitive
<1>3. due' \subseteq Question /\ aborted' \subseteq Question /\ replies' \in Nat /\ crashes' \in Nat
  BY TypesOf
<1> QED
  BY <1>1, <1>2, <1>3, TypesKept

LEMMA RequestedTypes ==
    ASSUME TypesOK, NEW b \in Bridge, Requested(b)
    PROVE  TypesOK'
<1>1. PICK m : m = Popped(b)
  OBVIOUS
<1>2. PICK q : q = Head(mem[b].ops).q
  OBVIOUS
<1>3. PICK n : n = Register(m, q)
  OBVIOUS
<1>4. /\ WriteFile(b, "add") /\ mem' = [mem EXCEPT ![b] = n]
      /\ due' = due /\ asker' = asker /\ aborted' = aborted /\ prompts' = prompts /\ told' = told
      /\ replies' = replies /\ crashes' = crashes
  BY <1>1, <1>2, <1>3 DEF Requested, Then, askers, bounds
<1>5. Typed(m) /\ q \in Question
  BY <1>1, <1>2, <1>4, WriteTypes DEF Follows
<1>6. Follows(m, n)
  BY <1>3, <1>5, RegisterTyped
<1>7. asker' \in Askers /\ prompts' \in [Question -> [Bridge -> Nat]] /\ told' \subseteq Question
  BY <1>4, TypesOf
<1> QED
  BY <1>1, <1>4, <1>6, <1>7, ThenTypes

LEMMA PresentedTypes ==
    ASSUME TypesOK, NEW b \in Bridge, Presented(b)
    PROVE  TypesOK'
<1>1. PICK m : m = Popped(b)
  OBVIOUS
<1>2. PICK q : q = Head(mem[b].ops).q
  OBVIOUS
<1>3. PICK S : S = IF q \in mem[b].pending THEN {q} ELSE {}
  OBVIOUS
<1>4. PICK n : n = [m EXCEPT !.armed = @ \cup S]
  OBVIOUS
<1>5. /\ WriteFile(b, "show") /\ mem' = [mem EXCEPT ![b] = n]
      /\ prompts' = [x \in Question |->
                       IF x \in S THEN [prompts[x] EXCEPT ![b] = @ + 1] ELSE prompts[x]]
      /\ due' = due /\ asker' = asker /\ aborted' = aborted /\ told' = told
      /\ replies' = replies /\ crashes' = crashes
  BY <1>1, <1>2, <1>3, <1>4 DEF Presented, Then, askers, bounds
<1>6. Typed(m) /\ q \in Question
  BY <1>1, <1>2, <1>5, WriteTypes DEF Follows
<1>7. m \in Memory /\ S \subseteq Question
  BY <1>3, <1>6 DEF Typed
<1>8. /\ n.up = m.up /\ n.hydrates = m.hydrates /\ n.pending = m.pending /\ n.live = m.live
      /\ n.armed = m.armed \cup S /\ n.occupant = m.occupant /\ n.waiting = m.waiting
      /\ n.ops = m.ops
      /\ n = [up |-> n.up, hydrates |-> n.hydrates, pending |-> n.pending, live |-> n.live,
              armed |-> n.armed, occupant |-> n.occupant, waiting |-> n.waiting, ops |-> n.ops]
  BY <1>4, <1>7 DEF Memory
<1>9. Follows(m, n)
  BY <1>6, <1>7, <1>8, FieldsTyped, Members
<1>10. prompts' \in [Question -> [Bridge -> Nat]]
  BY <1>5, TypesOf
<1>11. asker' \in Askers /\ told' \subseteq Question
  BY <1>5, TypesOf
<1> QED
  BY <1>1, <1>5, <1>9, <1>10, <1>11, ThenTypes

LEMMA SettledTypes ==
    ASSUME TypesOK, NEW b \in Bridge, Settled(b)
    PROVE  TypesOK'
<1>0. PICK op : op = Head(mem[b].ops)
  OBVIOUS
<1>1. PICK m : m = Popped(b)
  OBVIOUS
<1>2. PICK q : q = op.q
  OBVIOUS
<1>3. PICK n : n = FreeLane(m, q)
  OBVIOUS
<1>4. /\ WriteFile(b, "settle") /\ mem' = [mem EXCEPT ![b] = n]
      /\ asker' = [asker EXCEPT ![q] = IF op.live THEN op.response ELSE @]
      /\ told' \subseteq told \cup Question
      /\ due' = due /\ aborted' = aborted /\ prompts' = prompts
      /\ replies' = replies /\ crashes' = crashes
  BY <1>0, <1>1, <1>2, <1>3 DEF Settled, Then, Tells, bounds
<1>5. Typed(m) /\ q \in Question /\ op.response \in Response
  BY <1>0, <1>1, <1>2, <1>4, WriteTypes DEF Follows
<1>6. Follows(m, n)
  BY <1>3, <1>5, FreeTyped
<1>7. "asking" \notin Response
  BY DEF Response, Reply
<1>8. /\ asker' \in Askers
      /\ \A p \in Question : asker'[p] = "asking" => asker[p] = "asking"
  BY <1>4, <1>5, <1>7, TypesOf DEF Askers
<1>9. prompts' \in [Question -> [Bridge -> Nat]] /\ told' \subseteq Question
  BY <1>4, TypesOf
<1> QED
  BY <1>1, <1>4, <1>6, <1>8, <1>9, ThenTypes

LEMMA PassedOnTypes ==
    ASSUME TypesOK, NEW b \in Bridge, Answered(b) \/ Reaped(b)
    PROVE  TypesOK'
<1>1. PICK kind \in {"answer", "reap"} :
        /\ WriteFile(b, kind) /\ mem' = [mem EXCEPT ![b] = Popped(b)]
        /\ told' \subseteq told \cup Question
        /\ due' = due /\ asker' = asker /\ aborted' = aborted /\ prompts' = prompts
        /\ replies' = replies /\ crashes' = crashes
  BY DEF Answered, Reaped, Then, Tells, askers, bounds
<1>2. Follows(Popped(b), Popped(b))
  BY <1>1, WriteTypes DEF Follows
<1>3. asker' \in Askers /\ prompts' \in [Question -> [Bridge -> Nat]] /\ told' \subseteq Question
  BY <1>1, TypesOf
<1> QED
  BY <1>1, <1>2, <1>3, ThenTypes

LEMMA StoreTypes ==
    ASSUME TypesOK, NEW b \in Bridge, StoreStep(b)
    PROVE  TypesOK'
BY ReadTypes, RequestedTypes, PresentedTypes, SettledTypes, PassedOnTypes DEF StoreStep

\* A bridge that is up goes on with a memory in which it writes.
LEMMA GoesOn ==
    ASSUME TypesOK, NEW b \in Bridge, NEW n, mem' = [mem EXCEPT ![b] = n],
           Up(b), Follows(mem[b], n), mem[b].ops # <<>> => n.ops # <<>>,
           file' = file, snap' = snap, prompts' = prompts, told' = told,
           clobbered' = clobbered, crashes' = crashes, due' = due,
           asker' \in Askers, aborted' \subseteq Question, replies' \in Nat,
           \A q \in Question : asker'[q] = "asking" => asker[q] = "asking" \/ AskedOn[q] = b
    PROVE  TypesOK'
<1>1. /\ file' \in [Question -> Row] /\ prompts' \in [Question -> [Bridge -> Nat]]
      /\ due' \subseteq Question /\ told' \subseteq Question /\ clobbered' \subseteq Question
      /\ crashes' \in Nat /\ snap' \in Snaps
      /\ snap'[b] # NoSnap => n.ops # <<>>
      /\ \A c \in Bridge : c # b => snap'[c] = snap[c]
  BY TypesOf
<1> QED
  BY <1>1, TypesKept

LEMMA AskTypes ==
    ASSUME TypesOK, NEW q \in Question, Ask(q)
    PROVE  TypesOK'
<1>0. PICK b \in Bridge : b = AskedOn[q]
  BY LaneOfType
<1>1. PICK n : n = Push(mem[b], "add", q, None)
  OBVIOUS
<1>2. /\ Up(b) /\ mem' = [mem EXCEPT ![b] = n] /\ asker' = [asker EXCEPT ![q] = "asking"]
      /\ file' = file /\ snap' = snap /\ prompts' = prompts /\ told' = told
      /\ clobbered' = clobbered /\ crashes' = crashes /\ due' = due
      /\ aborted' = aborted /\ replies' = replies
  <2>1. mem' = [mem EXCEPT ![b] = Push(mem[b], "add", q, None)]
    BY <1>0 DEF Ask
  <2> QED
    BY <1>0, <1>1, <2>1 DEF Ask, ghosts, bounds
<1>3. Typed(mem[b])
  BY BridgeTypes
<1>4. Follows(mem[b], n) /\ n.ops # <<>>
  BY <1>1, <1>3, PushTyped DEF Kinds
<1>5. /\ asker' \in Askers
      /\ \A p \in Question : asker'[p] = "asking" => asker[p] = "asking" \/ AskedOn[p] = b
  BY <1>0, <1>2, TypesOf DEF Askers
<1>6. aborted' \subseteq Question /\ replies' \in Nat
  BY <1>2, TypesOf
<1> QED
  BY <1>2, <1>4, <1>5, <1>6, GoesOn

LEMMA AbortTypes ==
    ASSUME TypesOK, NEW q \in Question, Abort(q)
    PROVE  TypesOK'
<1>0. PICK b \in Bridge : b = AskedOn[q]
  BY LaneOfType
<1>1. PICK m : m = mem[b]
  OBVIOUS
<1>2. PICK n : mem' = [mem EXCEPT ![b] = n] /\ (n = m \/ n = Respond(m, q, "cancel"))
  <2>1. [mem EXCEPT ![b] = m] = mem
    BY <1>1 DEF TypesOK, TypeOK
  <2>2. mem' = mem \/ mem' = [mem EXCEPT ![b] = Respond(m, q, "cancel")]
    BY <1>0, <1>1 DEF Abort
  <2> QED
    BY <2>1, <2>2
<1>3. /\ replies' = replies + 1 /\ aborted' = aborted \cup {q} /\ asker' = asker
      /\ file' = file /\ due' = due /\ snap' = snap /\ prompts' = prompts
      /\ told' = told /\ clobbered' = clobbered /\ crashes' = crashes
  BY DEF Abort, ghosts
<1>4. Up(b) /\ Typed(m)
  BY <1>0, <1>1, BridgeTypes DEF Down, Abort
<1>5. Follows(m, n) /\ (m.ops # <<>> => n.ops # <<>>)
  <2>1. CASE n = m
    BY <1>4, <2>1 DEF Follows
  <2>2. CASE n = Respond(m, q, "cancel")
    BY <1>4, <2>2, RespondTyped DEF Reply
  <2> QED
    BY <1>2, <2>1, <2>2
<1>6. /\ asker' \in Askers /\ aborted' \subseteq Question /\ replies' \in Nat
      /\ \A p \in Question : asker'[p] = "asking" => asker[p] = "asking"
  BY <1>3, TypesOf
<1> QED
  BY <1>1, <1>2, <1>3, <1>4, <1>5, <1>6, GoesOn

LEMMA SendReplyTypes ==
    ASSUME TypesOK, NEW b \in Bridge, NEW q \in Question, NEW r \in Reply, SendReply(b, q, r)
    PROVE  TypesOK'
<1>1. PICK n : n = Respond(mem[b], q, r)
  OBVIOUS
<1>2. /\ Up(b) /\ mem' = [mem EXCEPT ![b] = n] /\ replies' = replies + 1 /\ aborted' = aborted
      /\ asker' = asker
      /\ file' = file /\ due' = due /\ snap' = snap /\ prompts' = prompts
      /\ told' = told /\ clobbered' = clobbered /\ crashes' = crashes
  BY <1>1 DEF SendReply, askers, ghosts
<1>3. Typed(mem[b])
  BY BridgeTypes
<1>4. Follows(mem[b], n) /\ (mem[b].ops # <<>> => n.ops # <<>>)
  BY <1>1, <1>3, RespondTyped
<1>5. asker' \in Askers /\ aborted' \subseteq Question /\ replies' \in Nat
  BY <1>2, TypesOf
<1> QED
  BY <1>2, <1>4, <1>5, GoesOn

\* A timer or the poll.
LEMMA RespondedTypes ==
    ASSUME TypesOK, NEW b \in Bridge, NEW q \in mem[b].pending,
           NEW r \in Response, mem' = [mem EXCEPT ![b] = StartRespond(@, q, r)],
           UNCHANGED <<file, due, snap, askers, ghosts, bounds>>
    PROVE  TypesOK'
<1>1. PICK n : n = StartRespond(mem[b], q, r)
  OBVIOUS
<1>2. /\ mem' = [mem EXCEPT ![b] = n] /\ replies' = replies /\ aborted' = aborted
      /\ asker' = asker
      /\ file' = file /\ due' = due /\ snap' = snap /\ prompts' = prompts
      /\ told' = told /\ clobbered' = clobbered /\ crashes' = crashes
  BY <1>1 DEF askers, ghosts, bounds
<1>3. Typed(mem[b]) /\ Up(b)
  BY BridgeTypes
<1>4. q \in Question
  BY <1>3, Members DEF Typed
<1>5. Follows(mem[b], n) /\ n.ops # <<>>
  BY <1>1, <1>3, <1>4, StartRespondTyped
<1>6. asker' \in Askers /\ aborted' \subseteq Question /\ replies' \in Nat
  BY <1>2, TypesOf
<1> QED
  BY <1>2, <1>3, <1>5, <1>6, GoesOn

LEMMA TimerTypes ==
    ASSUME TypesOK, NEW b \in Bridge, NEW q \in Question, FireTimeout(b, q) \/ PollForAnswers(b, q)
    PROVE  TypesOK'
<1>1. CASE FireTimeout(b, q)
  <2>1. q \in mem[b].pending /\ "timeout" \in Response
    BY <1>1 DEF FireTimeout, Response
  <2>2. /\ mem' = [mem EXCEPT ![b] = StartRespond(@, q, "timeout")]
        /\ UNCHANGED <<file, due, snap, askers, ghosts, bounds>>
    BY <1>1 DEF FireTimeout
  <2> QED
    BY <2>1, <2>2, RespondedTypes
<1>2. CASE PollForAnswers(b, q)
  <2>1. PICK r : r = file[q].answer
    OBVIOUS
  <2>2. q \in mem[b].pending /\ r # None
    BY <1>2, <2>1 DEF PollForAnswers
  <2>3. r \in Response
    BY <2>1, <2>2, TypesOf DEF Row, Response
  <2>4. /\ mem' = [mem EXCEPT ![b] = StartRespond(@, q, r)]
        /\ UNCHANGED <<file, due, snap, askers, ghosts, bounds>>
    BY <1>2, <2>1 DEF PollForAnswers
  <2> QED
    BY <2>2, <2>3, <2>4, RespondedTypes
<1> QED
  BY <1>1, <1>2

LEMMA SweepTypes ==
    ASSUME TypesOK, NEW b \in Bridge, NEW q \in Question, Sweep(b, q)
    PROVE  TypesOK'
<1>1. PICK n : n = Push(mem[b], "reap", q, None)
  OBVIOUS
<1>2. /\ Up(b) /\ mem' = [mem EXCEPT ![b] = n] /\ replies' = replies /\ aborted' = aborted
      /\ asker' = asker
      /\ file' = file /\ due' = due /\ snap' = snap /\ prompts' = prompts
      /\ told' = told /\ clobbered' = clobbered /\ crashes' = crashes
  BY <1>1 DEF Sweep, askers, ghosts, bounds
<1>3. Typed(mem[b])
  BY BridgeTypes
<1>4. Follows(mem[b], n) /\ n.ops # <<>>
  BY <1>1, <1>3, PushTyped DEF Kinds
<1>5. asker' \in Askers /\ aborted' \subseteq Question /\ replies' \in Nat
  BY <1>2, TypesOf
<1> QED
  BY <1>2, <1>4, <1>5, GoesOn

LEMMA Hydration ==
    ASSUME NEW b \in Bridge, Hydrate(b), NEW m, m = mem[b]
    PROVE  /\ Up(b) /\ m.hydrates < MaxHydrates /\ Presents[b] # {}
           /\ UNCHANGED <<file, due, snap, askers, ghosts, bounds>>
           /\ \E shown, queue, A, order, n :
                HydrateParts(b, m, shown, queue, A, order, n) /\ mem' = [mem EXCEPT ![b] = n]
<1>1. PICK shown, queue :
        /\ Lists(m, b, shown, queue)
        /\ \E order \in Rows(Callers(Adopt(m, b, shown, queue),
                                    Drained(m, b, Adopt(m, b, shown, queue)))) :
             mem' = [mem EXCEPT ![b] = DrainLanes(Adopt(m, b, shown, queue),
                                                 Drained(m, b, Adopt(m, b, shown, queue)),
                                                 order)]
  BY DEF Hydrate
<1>2. PICK A : A = Adopt(m, b, shown, queue)
  OBVIOUS
<1>3. PICK order \in Rows(Callers(A, Drained(m, b, A))) :
         mem' = [mem EXCEPT ![b] = DrainLanes(A, Drained(m, b, A), order)]
  BY <1>1, <1>2
<1>4. PICK n : n = DrainLanes(A, Drained(m, b, A), order)
  OBVIOUS
<1>5. HydrateParts(b, m, shown, queue, A, order, n) /\ mem' = [mem EXCEPT ![b] = n]
  BY <1>1, <1>2, <1>3, <1>4 DEF HydrateParts
<1>6. /\ Up(b) /\ m.hydrates < MaxHydrates /\ Presents[b] # {}
      /\ UNCHANGED <<file, due, snap, askers, ghosts, bounds>>
  BY DEF Hydrate
<1> QED
  BY <1>5, <1>6

LEMMA HydrateTypes ==
    ASSUME TypesOK, NEW b \in Bridge, Hydrate(b)
    PROVE  TypesOK'
<1>1. PICK m : m = mem[b]
  OBVIOUS
<1>2. /\ Up(b) /\ m.hydrates < MaxHydrates
      /\ UNCHANGED <<file, due, snap, askers, ghosts, bounds>>
      /\ \E shown, queue, A, order, n :
           HydrateParts(b, m, shown, queue, A, order, n) /\ mem' = [mem EXCEPT ![b] = n]
  BY <1>1, Hydration
<1>3. PICK shown, queue, A, order, n :
        HydrateParts(b, m, shown, queue, A, order, n) /\ mem' = [mem EXCEPT ![b] = n]
  BY <1>2
<1>4. Follows(m, n) /\ (m.ops # <<>> => n.ops # <<>>)
  <2>1. Typed(m)
    BY <1>1, BridgeTypes
  <2> QED
    BY <1>2, <1>3, <2>1, HydrateTyped
<1>5. /\ file' = file /\ due' = due /\ snap' = snap /\ prompts' = prompts
      /\ told' = told /\ clobbered' = clobbered /\ crashes' = crashes
      /\ replies' = replies /\ aborted' = aborted /\ asker' = asker
  BY <1>2 DEF askers, ghosts, bounds
<1>6. asker' \in Askers /\ aborted' \subseteq Question /\ replies' \in Nat
  BY <1>5, TypesOf
<1>7. mem' = [mem EXCEPT ![b] = n] /\ Up(b)
  BY <1>2, <1>3
<1> QED
  BY <1>1, <1>4, <1>5, <1>6, <1>7, GoesOn

LEMMA EmptyTyped ==
    ASSUME NEW u \in BOOLEAN, NEW n, n = Empty(u)
    PROVE  Typed(n) /\ n.up = u
<1>1. /\ n.up = u /\ n.hydrates = 0 /\ n.pending = {} /\ n.live = {} /\ n.armed = {}
      /\ n.occupant = [l \in Lane |-> None] /\ n.waiting = [l \in Lane |-> <<>>] /\ n.ops = <<>>
      /\ n = [up |-> n.up, hydrates |-> n.hydrates, pending |-> n.pending, live |-> n.live,
              armed |-> n.armed, occupant |-> n.occupant, waiting |-> n.waiting, ops |-> n.ops]
  BY DEF Empty
<1>2. 0 \in 0..MaxHydrates
  BY ClarifyAssumption
<1>3. /\ n.waiting \in [Lane -> Seq(Question)] /\ n.ops \in Seq(Op)
      /\ n.occupant \in [Lane -> Question \cup {None}]
  BY <1>1
<1>4. n \in Memory
  BY <1>1, <1>2, <1>3 DEF Memory
<1>5. Answers(n)
  BY <1>1 DEF Answers
<1> QED
  BY <1>1, <1>4, <1>5 DEF Typed

\* A crash, or the start after one.
LEMMA ProcessTypes ==
    ASSUME TypesOK, NEW b \in Bridge, Crash(b) \/ Restart(b)
    PROVE  TypesOK'
<1>1. PICK u \in BOOLEAN :
        /\ mem' = [mem EXCEPT ![b] = Empty(u)] /\ snap' = [snap EXCEPT ![b] = NoSnap]
        /\ asker' \in Askers /\ crashes' \in Nat
        /\ \A q \in Question : asker'[q] = "asking" => asker[q] = "asking"
        /\ u = FALSE => \A q \in Question : AskedOn[q] = b => asker'[q] # "asking"
        /\ file' = file /\ due' = due /\ aborted' = aborted /\ prompts' = prompts
        /\ told' = told /\ clobbered' = clobbered /\ replies' = replies
  <2>1. CASE Crash(b)
    <3>1. asker' = [q \in Question |->
                      IF AskedOn[q] = b /\ asker[q] = "asking" THEN "died" ELSE asker[q]]
      BY <2>1 DEF Crash
    <3>2. asker' \in Askers
      BY <3>1, TypesOf DEF Askers
    <3>3. /\ \A q \in Question : asker'[q] = "asking" => asker[q] = "asking"
          /\ \A q \in Question : AskedOn[q] = b => asker'[q] # "asking"
      BY <3>1
    <3>4. crashes' = crashes + 1 /\ crashes' \in Nat
      BY <2>1, TypesOf DEF Crash
    <3>5. /\ mem' = [mem EXCEPT ![b] = Empty(FALSE)] /\ snap' = [snap EXCEPT ![b] = NoSnap]
          /\ file' = file /\ due' = due /\ aborted' = aborted /\ prompts' = prompts
          /\ told' = told /\ clobbered' = clobbered /\ replies' = replies
      BY <2>1 DEF Crash, ghosts
    <3> QED
      BY <3>2, <3>3, <3>4, <3>5
  <2>2. CASE Restart(b)
    <3>1. snap[b] = NoSnap
      BY <2>2, BridgeTypes DEF Restart
    <3>2. [snap EXCEPT ![b] = NoSnap] = snap
      BY <3>1, TypesOf DEF Snaps
    <3> QED
      BY <2>2, <3>2, TypesOf DEF Restart, askers, ghosts, bounds
  <2> QED
    BY <2>1, <2>2
<1>2. PICK n : n = Empty(u)
  OBVIOUS
<1>3. n \in Memory /\ Answers(n) /\ n.up = u
  BY <1>2, EmptyTyped DEF Typed
<1>4. /\ mem' \in [Bridge -> Memory] /\ mem'[b] = n
      /\ \A c \in Bridge : c # b => mem'[c] = mem[c]
  BY <1>1, <1>2, <1>3 DEF TypesOK, TypeOK
<1>5. snap' \in Snaps /\ \A c \in Bridge : snap'[c] # NoSnap => mem'[c].ops # <<>>
  BY <1>1, <1>4, TypesOf DEF Snaps
<1>6. TypeOK'
  BY <1>1, <1>4, <1>5, TypesOf DEF TypeOK, Askers, Snaps
<1>7. ASSUME NEW c \in Bridge
      PROVE  Answers(mem'[c]) /\ Down(c)'
  <2>1. CASE c = b
    BY <1>1, <1>2, <1>3, <1>4, <2>1 DEF Down, Up
  <2>2. CASE c # b
    <3>1. mem'[c] = mem[c] /\ Answers(mem[c]) /\ Down(c)
      BY <1>4, <2>2 DEF TypesOK
    <3> QED
      BY <1>1, <3>1 DEF Down, Up
  <2> QED
    BY <2>1, <2>2
<1> QED
  BY <1>6, <1>7 DEF TypesOK

LEMMA DeadlineTypes ==
    ASSUME TypesOK, NEW q \in Question, DeadlinePasses(q)
    PROVE  TypesOK'
<1>1. /\ due' = due \cup {q} /\ mem' = mem /\ snap' = snap /\ asker' = asker
      /\ file' = file /\ aborted' = aborted /\ prompts' = prompts /\ told' = told
      /\ clobbered' = clobbered /\ replies' = replies /\ crashes' = crashes
  BY DEF DeadlinePasses, askers, ghosts, bounds
<1>2. TypeOK'
  BY <1>1 DEF TypesOK, TypeOK
<1> QED
  BY <1>1, <1>2 DEF TypesOK, Down, Up

LEMMA TypesStep ==
    ASSUME TypesOK, [Next]_vars
    PROVE  TypesOK'
<1>1. CASE UNCHANGED vars
  BY <1>1 DEF vars, TypesOK, TypeOK, Down, Up
<1>2. ASSUME NEW b \in Bridge, StoreStep(b) PROVE TypesOK'
  BY <1>2, StoreTypes
<1>3. ASSUME NEW b \in Bridge, Hydrate(b) PROVE TypesOK'
  BY <1>3, HydrateTypes
<1>4. ASSUME NEW b \in Bridge, Crash(b) \/ Restart(b) PROVE TypesOK'
  BY <1>4, ProcessTypes
<1>5. ASSUME NEW q \in Question, Ask(q) PROVE TypesOK'
  BY <1>5, AskTypes
<1>6. ASSUME NEW q \in Question, Abort(q) PROVE TypesOK'
  BY <1>6, AbortTypes
<1>7. ASSUME NEW q \in Question, DeadlinePasses(q) PROVE TypesOK'
  BY <1>7, DeadlineTypes
<1>8. ASSUME NEW b \in Bridge, NEW q \in Question, FireTimeout(b, q) \/ PollForAnswers(b, q)
      PROVE  TypesOK'
  BY <1>8, TimerTypes
<1>9. ASSUME NEW b \in Bridge, NEW q \in Question, Sweep(b, q) PROVE TypesOK'
  BY <1>9, SweepTypes
<1>10. ASSUME NEW b \in Bridge, NEW q \in Question, NEW r \in Reply, SendReply(b, q, r)
       PROVE  TypesOK'
  BY <1>10, SendReplyTypes
<1> QED
  BY <1>1, <1>2, <1>3, <1>4, <1>5, <1>6, <1>7, <1>8, <1>9, <1>10 DEF Next

LEMMA TypesInit ==
    ASSUME Init
    PROVE  TypesOK
<1>1. Typed(Empty(TRUE)) /\ Empty(TRUE).up = TRUE
  BY EmptyTyped
<1>2. mem \in [Bridge -> Memory] /\ \A b \in Bridge : Answers(mem[b]) /\ Up(b)
  BY <1>1 DEF Init, Typed, Up
<1>3. file \in [Question -> Row]
  BY DEF Init, Blank, Row, Absent
<1>4. /\ asker \in [Question -> Response \cup {"unasked", "asking", "died"}]
      /\ prompts \in [Question -> [Bridge -> Nat]]
  BY DEF Init
<1>5. /\ due = {} /\ aborted = {} /\ told = {} /\ clobbered = {} /\ replies = 0 /\ crashes = 0
      /\ snap = [b \in Bridge |-> NoSnap]
  BY DEF Init
<1>6. /\ snap \in [Bridge -> {NoSnap} \cup {<<f>> : f \in [Question -> Row]}]
      /\ \A b \in Bridge : snap[b] # NoSnap => mem[b].ops # <<>>
  BY <1>5
<1>7. TypeOK
  BY <1>2, <1>3, <1>4, <1>5, <1>6 DEF TypeOK
<1> QED
  BY <1>2, <1>7 DEF TypesOK, Down

\* Every variable keeps its type, however the bridges are deployed; what a write in
\* progress has read belongs to a write that is still the first of its bridge's mutex
\* (FileClarifyStore.mutate, clarify-bridge.ts).
THEOREM TypeCorrect == Spec => []TypeOK
<1>1. Init => TypesOK
  BY TypesInit
<1>2. TypesOK /\ [Next]_vars => TypesOK'
  BY TypesStep
<1>3. TypesOK => TypeOK
  BY DEF TypesOK
<1> QED
  BY <1>1, <1>2, <1>3, PTL DEF Spec

-----------------------------------------------------------------------------
(* The steps of the store.                                                 *)

LEMMA ReadStep ==
    ASSUME TypeOK, Memories, Agree, NEW b \in Bridge, ReadFile(b)
    PROVE  Memories' /\ Agree'
<1>1. /\ mem[b].ops # <<>> /\ snap' = [snap EXCEPT ![b] = <<file>>]
      /\ file' = file /\ mem' = mem /\ asker' = asker /\ prompts' = prompts
      /\ clobbered' = clobbered /\ due' = due /\ aborted' = aborted /\ told' = told
      /\ replies' = replies /\ crashes' = crashes
  BY DEF ReadFile, askers, ghosts, bounds
<1>3. Memories'
  BY <1>1 DEF Memories
<1>4. ASSUME NEW q \in Question
      PROVE  Unasked(q)' /\ Unshown(q)' /\ Open(q)'
  <2>1. Unasked(q) /\ Unshown(q) /\ Open(q)
    BY DEF Agree
  <2>2. Unasked(q)'
    <3>1. ASSUME asker[q] = "unasked", NEW c \in Bridge, snap'[c] # NoSnap
          PROVE  snap'[c][1][q] = Absent
      <4>1. CASE c = b
        <5>1. snap'[c] = <<file>>
          BY <1>1, <4>1 DEF TypeOK
        <5> QED
          BY <2>1, <3>1, <5>1 DEF Unasked
      <4>2. CASE c # b
        <5>1. snap'[c] = snap[c]
          BY <1>1, <4>2 DEF TypeOK
        <5> QED
          BY <2>1, <3>1, <5>1 DEF Unasked
      <4> QED
        BY <4>1, <4>2
    <3> QED
      BY <1>1, <2>1, <3>1 DEF Unasked
  <2>3. Unshown(q)' /\ Open(q)'
    BY <1>1, <2>1 DEF Unshown, Open, ToBeShown, HasLane, Alone, Lone, Home, Intact
  <2> QED
    BY <2>2, <2>3
<1> QED
  BY <1>3, <1>4 DEF Agree

\* The memory in which whoever awaited the write goes on.
LEMMA Popping ==
    ASSUME NEW b \in Bridge, mem[b] \in Memory, Sound(b, mem[b]), mem[b].ops # <<>>,
           NEW m, m = Popped(b),
           NEW op, op = Head(mem[b].ops), NEW q, q = op.q
    PROVE  /\ m \in Memory /\ Sound(b, m)
           /\ \A p \in Question : Keeps(mem[b], m, p) /\ Hides(mem[b], m, p) /\ Stays(mem[b], m, p)
           /\ \A k, p : Has(m, k, p) => Has(mem[b], k, p)
           /\ op.kind \in {"add", "show"} => ~Has(m, op.kind, q)
           /\ op.kind = "settle" => ~Has(m, "show", q) /\ op.response \in Response
           /\ op.kind = "answer" => op.response \in Reply
<1> DEFINE x == mem[b]
<1>1. x \in Memory /\ Sound(b, x) /\ x.ops # <<>> /\ m = [x EXCEPT !.ops = Tail(@)] /\ op = Head(x.ops)
  BY DEF Popped
<1> HIDE DEF x
<1>2. /\ m \in Memory /\ Sound(b, m)
      /\ \A p \in Question : Keeps(x, m, p) /\ Hides(x, m, p) /\ Stays(x, m, p)
      /\ \A k, p : Has(m, k, p) => Has(x, k, p)
      /\ Head(x.ops).kind \in {"add", "show"} => ~Has(m, Head(x.ops).kind, Head(x.ops).q)
      /\ Head(x.ops).kind = "settle" => ~Has(m, "show", Head(x.ops).q)
      /\ Head(x.ops).kind = "settle" => Head(x.ops).response \in Response
      /\ Head(x.ops).kind = "answer" => Head(x.ops).response \in Reply
  BY <1>1, Pop
<1> QED
  BY <1>1, <1>2 DEF x

LEMMA RequestedStep ==
    ASSUME TypeOK, Memories, Agree, NEW b \in Bridge, Requested(b)
    PROVE  Memories' /\ Agree'
<1>0. PICK op : op = Head(mem[b].ops)
  OBVIOUS
<1>1. PICK m : m = Popped(b)
  OBVIOUS
<1>2. PICK q : q = op.q
  OBVIOUS
<1>3. PICK n : n = Register(m, q)
  OBVIOUS
<1>4. /\ WriteFile(b, "add") /\ mem' = [mem EXCEPT ![b] = n]
      /\ due' = due /\ asker' = asker /\ aborted' = aborted /\ prompts' = prompts /\ told' = told
      /\ replies' = replies /\ crashes' = crashes
  BY <1>0, <1>1, <1>2, <1>3 DEF Requested, Then, askers, bounds
<1>5. /\ mem[b].ops # <<>> /\ op \in Op /\ op.kind = "add" /\ Has(mem[b], "add", q)
      /\ clobbered \subseteq clobbered' /\ clobbered' \subseteq Question
      /\ \A p \in Question \ clobbered' : file'[p] = Patched(file, op)[p]
      /\ mem[b] \in Memory /\ Sound(b, mem[b]) /\ file \in [Question -> Row]
  BY <1>0, <1>2, <1>4, Writing DEF Memories, TypeOK
<1>6. /\ m \in Memory /\ Sound(b, m)
      /\ \A p \in Question : Keeps(mem[b], m, p) /\ Hides(mem[b], m, p) /\ Stays(mem[b], m, p)
      /\ \A k, p : Has(m, k, p) => Has(mem[b], k, p)
      /\ ~Has(m, "add", q)
  BY <1>0, <1>1, <1>2, <1>5, Popping
<1>7. /\ m.hydrates = mem[b].hydrates /\ m.pending = mem[b].pending
      /\ m.occupant = mem[b].occupant /\ m.waiting = mem[b].waiting
  BY <1>1, <1>5 DEF Popped, Memory
<1>8. q \in Own(b) /\ q \in Question
  BY <1>2, <1>5 DEF Sound, OwnOps, Has, Own
<1>9. /\ mem[b].hydrates # 0 /\ q \notin mem[b].pending /\ ~Waits(mem[b], q)
      /\ mem[b].occupant[LaneOf[q]] # q /\ ~Has(mem[b], "settle", q)
  BY <1>5, <1>8 DEF Sound, Cold, Phases, Has
<1>10. ~Has(mem[b], "show", q)
  BY <1>5, <1>9 DEF Sound, OwnOps, Has
<1>11. ~Waits(m, q)
  BY <1>7, <1>9 DEF Waits
<1>12. /\ n \in Memory /\ Sound(b, n)
       /\ \A p \in Question :
             p # q => Keeps(m, n, p) /\ Hides(m, n, p) /\ Stays(m, n, p)
       /\ ~Has(n, "add", q)
       /\ n.hydrates = m.hydrates /\ q \notin n.armed
  <2>1. \A k \in {"add", "show", "settle"} : ~Has(m, k, q)
    BY <1>6, <1>9, <1>10
  <2> QED
    BY <1>3, <1>6, <1>7, <1>8, <1>9, <1>11, <2>1, Registering
<1>13. Memories'
  BY <1>4, <1>12, MemoriesKept
<1>14. \A p \in Question : p # q => /\ Keeps(mem[b], n, p) /\ Hides(mem[b], n, p)
                                    /\ Stays(mem[b], n, p) /\ prompts'[p] = prompts[p]
  <2> TAKE p \in Question
  <2> HAVE p # q
  <2>1. Keeps(mem[b], n, p)
    BY <1>6, <1>12, KeepsTransitive
  <2> QED
    BY <1>4, <1>6, <1>12, <2>1 DEF Hides, Stays
<1>15. q \notin clobbered' => file'[q].at = "queued"
  BY <1>2, <1>5, <1>8, Patching
<1>16. ASSUME q \notin clobbered'
       PROVE  ToBeShown(q)'
  <2>1. ToBeShown(q)
    BY <1>5, <1>8, <1>16 DEF Agree, Unshown
  <2>2. AskedOn[q] = b /\ \A c \in Bridge : prompts[q][c] = 0
    BY <1>5, <2>1 DEF ToBeShown
  <2>3. ASSUME NEW c \in Bridge
        PROVE  ~Has(mem'[c], "add", q)
    <3>1. CASE c = b
      BY <1>4, <1>12, <3>1, Others
    <3>2. CASE c # b
      BY <1>4, <2>1, <2>2, <3>2, Others DEF ToBeShown
    <3> QED
      BY <3>1, <3>2
  <2> QED
    BY <1>4, <1>15, <1>16, <2>2, <2>3 DEF ToBeShown
<1>17. ASSUME Apart, Intact(LaneOf[q])'
       PROVE  HasLane(q)' /\ file'[q].at # "shown"
  <2>1. q \notin clobbered'
    BY <1>17 DEF Intact
  <2>2. AskedOn[q] = b
    BY <1>8, <1>17 DEF Own, Apart
  <2>3. Home(q)' = n
    BY <1>4, <1>8, <2>2, Others DEF Home
  <2> QED
    BY <1>12, <1>15, <2>1, <2>3 DEF HasLane
<1>18. \A p \in Question : asker'[p] = "unasked" => asker[p] = "unasked"
  BY <1>4
<1>19. Agree'
  BY <1>0, <1>2, <1>4, <1>14, <1>16, <1>17, <1>18, Written
<1> QED
  BY <1>13, <1>19

LEMMA Starting ==
    ASSUME TypeOK, Memories, Agree, NEW b \in Bridge, NEW kind, WriteFile(b, kind),
           NEW m, m = Popped(b), NEW op, op = Head(mem[b].ops), NEW q, q = op.q
    PROVE  /\ mem[b].ops # <<>> /\ op \in Op /\ op.kind = kind /\ Has(mem[b], kind, q)
           /\ q \in Question /\ asker[q] # "unasked"
           /\ clobbered \subseteq clobbered' /\ clobbered' \subseteq Question
           /\ \A p \in Question \ clobbered' : file'[p] = Patched(file, op)[p]
           /\ mem[b] \in Memory /\ Sound(b, mem[b]) /\ file \in [Question -> Row]
           /\ m \in Memory /\ Sound(b, m)
           /\ \A p \in Question : Keeps(mem[b], m, p) /\ Hides(mem[b], m, p) /\ Stays(mem[b], m, p)
           /\ \A k, p : Has(m, k, p) => Has(mem[b], k, p)
           /\ kind \in {"add", "show"} => ~Has(m, kind, q)
           /\ kind = "settle" => ~Has(m, "show", q) /\ op.response \in Response
           /\ kind = "answer" => op.response \in Reply
           /\ m.hydrates = mem[b].hydrates /\ m.pending = mem[b].pending
           /\ m.armed = mem[b].armed /\ m.occupant = mem[b].occupant
           /\ m.waiting = mem[b].waiting
<1>1. /\ mem[b].ops # <<>> /\ op \in Op /\ op.kind = kind /\ Has(mem[b], kind, q)
      /\ asker[q] # "unasked"
      /\ clobbered \subseteq clobbered' /\ clobbered' \subseteq Question
      /\ \A p \in Question \ clobbered' : file'[p] = Patched(file, op)[p]
      /\ mem[b] \in Memory /\ Sound(b, mem[b]) /\ file \in [Question -> Row]
  BY Writing DEF Memories, TypeOK
<1>2. /\ m \in Memory /\ Sound(b, m)
      /\ \A p \in Question : Keeps(mem[b], m, p) /\ Hides(mem[b], m, p) /\ Stays(mem[b], m, p)
      /\ \A k, p : Has(m, k, p) => Has(mem[b], k, p)
      /\ op.kind \in {"add", "show"} => ~Has(m, op.kind, q)
      /\ op.kind = "settle" => ~Has(m, "show", q) /\ op.response \in Response
      /\ op.kind = "answer" => op.response \in Reply
  BY <1>1, Popping
<1>3. /\ m.hydrates = mem[b].hydrates /\ m.pending = mem[b].pending
      /\ m.armed = mem[b].armed /\ m.occupant = mem[b].occupant
      /\ m.waiting = mem[b].waiting
  BY <1>1 DEF Popped, Memory
<1>4. q \in Question
  BY <1>1 DEF Op
<1> QED
  BY <1>1, <1>2, <1>3, <1>4

\* A timer starts.
Armed(m, S) == [m EXCEPT !.armed = @ \cup S]

LEMMA Arming ==
    ASSUME NEW b \in Bridge, NEW m \in Memory, NEW n, NEW S \in SUBSET m.pending, Sound(b, m),
           n = Armed(m, S)
    PROVE  /\ n \in Memory /\ Sound(b, n)
           /\ \A p : Hides(m, n, p) /\ Stays(m, n, p) /\ (p \notin S => Keeps(m, n, p))
           /\ \A k, p : Has(n, k, p) <=> Has(m, k, p)
           /\ \A p : Queued(n, p) <=> Queued(m, p)
           /\ n.occupant = m.occupant /\ n.hydrates = m.hydrates /\ n.pending = m.pending
           /\ n.waiting = m.waiting
<1>1. /\ n \in Memory
      /\ n.occupant = m.occupant /\ n.hydrates = m.hydrates /\ n.pending = m.pending
      /\ n.waiting = m.waiting /\ n.ops = m.ops /\ n.armed = m.armed \cup S
  BY DEF Memory, Armed
<1>2. \A k, p : Has(n, k, p) <=> Has(m, k, p)
  BY <1>1 DEF Has
<1>3. \A p : Waits(n, p) <=> Waits(m, p)
  BY <1>1 DEF Waits
<1>4. Sound(b, n)
  <2>1. Answers(n)
    BY <1>1 DEF Sound, Answers
  <2>2. OwnLanes(b, n)
    BY <1>1 DEF Sound, OwnLanes
  <2>3. OwnOps(b, n)
    BY <1>1 DEF Sound, OwnOps
  <2>4. Phases(n)
    BY <1>1, <1>2, <1>3 DEF Sound, Phases
  <2>5. Cold(n)
    BY <1>1 DEF Sound, Cold
  <2> QED
    BY <2>1, <2>2, <2>3, <2>4, <2>5 DEF Sound
<1>5. \A p : Hides(m, n, p) /\ Stays(m, n, p) /\ (p \notin S => Keeps(m, n, p))
  BY <1>1, <1>2, <1>3 DEF Hides, Stays, Keeps, Knows, Queued
<1>6. \A p : Queued(n, p) <=> Queued(m, p)
  BY <1>1, <1>3 DEF Queued
<1> QED
  BY <1>1, <1>2, <1>4, <1>5, <1>6

LEMMA PresentedStep ==
    ASSUME TypeOK, Memories, Agree, NEW b \in Bridge, Presented(b)
    PROVE  Memories' /\ Agree'
<1>0. PICK op : op = Head(mem[b].ops)
  OBVIOUS
<1>1. PICK m : m = Popped(b)
  OBVIOUS
<1>2. PICK q : q = op.q
  OBVIOUS
<1>3. PICK S : S = IF q \in mem[b].pending THEN {q} ELSE {}
  OBVIOUS
<1>4. PICK n : n = Armed(m, S)
  OBVIOUS
<1>5. /\ WriteFile(b, "show") /\ mem' = [mem EXCEPT ![b] = n]
      /\ prompts' = [x \in Question |->
                       IF x \in S THEN [prompts[x] EXCEPT ![b] = @ + 1] ELSE prompts[x]]
      /\ due' = due /\ asker' = asker /\ aborted' = aborted /\ told' = told
      /\ replies' = replies /\ crashes' = crashes
  BY <1>0, <1>1, <1>2, <1>3, <1>4 DEF Presented, Then, Armed, askers, bounds
<1>6. /\ mem[b].ops # <<>> /\ op \in Op /\ op.kind = "show" /\ Has(mem[b], "show", q)
      /\ q \in Question /\ clobbered \subseteq clobbered'
      /\ \A p \in Question \ clobbered' : file'[p] = Patched(file, op)[p]
      /\ mem[b] \in Memory /\ Sound(b, mem[b]) /\ file \in [Question -> Row]
      /\ m \in Memory /\ Sound(b, m)
      /\ \A p \in Question : Keeps(mem[b], m, p) /\ Hides(mem[b], m, p) /\ Stays(mem[b], m, p)
      /\ \A k, p : Has(m, k, p) => Has(mem[b], k, p)
      /\ ~Has(m, "show", q)
      /\ m.hydrates = mem[b].hydrates /\ m.pending = mem[b].pending
      /\ m.occupant = mem[b].occupant /\ m.waiting = mem[b].waiting
  BY <1>0, <1>1, <1>2, <1>5, Starting
<1>7. /\ n \in Memory /\ Sound(b, n)
      /\ \A p : Hides(m, n, p) /\ Stays(m, n, p) /\ (p \notin S => Keeps(m, n, p))
      /\ \A k, p : Has(n, k, p) <=> Has(m, k, p)
      /\ \A p : Queued(n, p) <=> Queued(m, p)
      /\ n.occupant = m.occupant /\ n.hydrates = m.hydrates
  <2>1. S \in SUBSET m.pending
    BY <1>3, <1>6
  <2> QED
    BY <1>4, <1>6, <2>1, Arming
<1>8. q \in Own(b) /\ mem[b].occupant[LaneOf[q]] = q /\ mem[b].hydrates # 0
  BY <1>6 DEF Sound, OwnOps, Cold, Has
<1>9. ~Waits(mem[b], q) /\ ~Has(mem[b], "add", q)
  BY <1>6, <1>8, LaneOfType DEF Sound, OwnLanes, Phases, Waits
<1>10. ~Queued(n, q) /\ ~Has(n, "show", q) /\ ~Has(n, "add", q)
  <2>1. ~Waits(m, q)
    BY <1>6, <1>9 DEF Waits
  <2> QED
    BY <1>6, <1>7, <1>9, <2>1 DEF Queued
<1>11. Memories'
  BY <1>5, <1>7, MemoriesKept
<1>12. \A p \in Question : p # q => /\ Keeps(mem[b], n, p) /\ Hides(mem[b], n, p)
                                    /\ Stays(mem[b], n, p) /\ prompts'[p] = prompts[p]
  <2> TAKE p \in Question
  <2> HAVE p # q
  <2>0. p \notin S
    BY <1>3
  <2>1. Keeps(mem[b], n, p)
    BY <1>6, <1>7, <2>0, KeepsTransitive
  <2>2. prompts'[p] = prompts[p]
    BY <1>5, <2>0 DEF TypeOK
  <2> QED
    BY <1>6, <1>7, <2>1, <2>2 DEF Hides, Stays
<1>13. ASSUME q \notin clobbered'
       PROVE  ToBeShown(q)'
  <2>1. ToBeShown(q) /\ ToShow(mem[b], q)
    BY <1>6, <1>13 DEF Agree, Unshown, ToShow
  <2>2. prompts[q][b] = 0 /\ \A c \in Bridge : ~Has(mem[c], "add", q)
    BY <2>1 DEF ToBeShown
  <2>3. /\ prompts'[q][b] <= 1
        /\ \A c \in Bridge : c # b => prompts'[q][c] = prompts[q][c]
    BY <1>5, <1>6, <2>2 DEF TypeOK
  <2>4. file'[q].at # "queued"
    BY <1>2, <1>6, <1>13, Patching
  <2>5. ASSUME NEW c \in Bridge
        PROVE  /\ ~Has(mem'[c], "add", q)
               /\ ToShow(mem'[c], q) => prompts'[q][c] = 0
               /\ prompts'[q][c] <= IF q \in Presents[c] THEN 1 ELSE 0
    <3>1. CASE c = b
      <4>1. mem'[c] = n /\ q \in Presents[c]
        BY <1>5, <1>8, <3>1, Others DEF Own
      <4> QED
        BY <1>10, <2>3, <3>1, <4>1 DEF ToShow
    <3>2. CASE c # b
      <4>1. mem'[c] = mem[c]
        BY <1>5, <3>2, Others
      <4> QED
        BY <2>1, <2>2, <2>3, <3>2, <4>1 DEF ToBeShown
    <3> QED
      BY <3>1, <3>2
  <2> QED
    BY <2>4, <2>5 DEF ToBeShown
<1>14. n.occupant[LaneOf[q]] = q
  BY <1>6, <1>7, <1>8
<1>15. ASSUME Apart
       PROVE  AskedOn[q] = b /\ Home(q) = mem[b] /\ Home(q)' = n
  <2>1. AskedOn[q] = b
    BY <1>8, <1>15 DEF Own, Apart
  <2> QED
    BY <1>5, <1>6, <2>1, Others DEF Home
<1>16. Apart => HasLane(q)'
  BY <1>14, <1>15 DEF HasLane
<1>17. ASSUME Apart, Intact(LaneOf[q])', NEW p \in Question, file[p].at = "shown",
              AskedOn[p] = AskedOn[q], LaneOf[p] = LaneOf[q]
       PROVE  p = q
  <2>1. HasLane(p)
    BY <1>6, <1>17, IntactKept DEF Agree, Open
  <2>2. Home(p) = mem[b] /\ mem[b].hydrates > 0
    BY <1>6, <1>8, <1>15, <1>17, Members DEF Home
  <2> QED
    BY <1>8, <1>17, <2>1, <2>2 DEF HasLane
<1>18. \A p \in Question : asker'[p] = "unasked" => asker[p] = "unasked"
  BY <1>5
<1>19. Agree'
  <2>1. q = Head(mem[b].ops).q
    BY <1>0, <1>2
  <2>2. Apart /\ Intact(LaneOf[q])' /\ file'[q].at = "shown" => Lone(q)
    BY <1>17 DEF Lone
  <2>3. /\ WriteFile(b, "show") /\ mem' = [mem EXCEPT ![b] = n]
        /\ q \notin clobbered' => ToBeShown(q)'
        /\ Apart /\ Intact(LaneOf[q])' => HasLane(q)'
    BY <1>5, <1>13, <1>16
  <2> QED
    BY <1>12, <1>18, <2>1, <2>2, <2>3, Written
<1> QED
  BY <1>11, <1>19

LEMMA SettledStep ==
    ASSUME TypeOK, Memories, Agree, NEW b \in Bridge, Settled(b)
    PROVE  Memories' /\ Agree'
<1>0. PICK op : op = Head(mem[b].ops)
  OBVIOUS
<1>1. PICK m : m = Popped(b)
  OBVIOUS
<1>2. PICK q : q = op.q
  OBVIOUS
<1>3. PICK n : n = FreeLane(m, q)
  OBVIOUS
<1>4. /\ WriteFile(b, "settle") /\ mem' = [mem EXCEPT ![b] = n]
      /\ asker' = [asker EXCEPT ![q] = IF op.live THEN op.response ELSE @]
      /\ told' \subseteq told \cup Question
      /\ due' = due /\ aborted' = aborted /\ prompts' = prompts
      /\ replies' = replies /\ crashes' = crashes
  BY <1>0, <1>1, <1>2, <1>3 DEF Settled, Then, Tells, bounds
<1>5. /\ mem[b].ops # <<>> /\ op \in Op /\ op.kind = "settle" /\ Has(mem[b], "settle", q)
      /\ q \in Question /\ asker[q] # "unasked" /\ clobbered \subseteq clobbered'
      /\ \A p \in Question \ clobbered' : file'[p] = Patched(file, op)[p]
      /\ mem[b] \in Memory /\ Sound(b, mem[b]) /\ file \in [Question -> Row]
      /\ m \in Memory /\ Sound(b, m)
      /\ \A p \in Question : Keeps(mem[b], m, p) /\ Hides(mem[b], m, p) /\ Stays(mem[b], m, p)
      /\ ~Has(m, "show", q) /\ op.response \in Response
      /\ m.pending = mem[b].pending /\ m.hydrates = mem[b].hydrates
  BY <1>0, <1>1, <1>2, <1>4, Starting
<1>6. /\ n \in Memory /\ Sound(b, n)
      /\ \A p \in Question : Keeps(m, n, p) /\ Hides(m, n, p)
      /\ \A p \in Question : p # q => Stays(m, n, p)
      /\ n.pending = m.pending
  BY <1>3, <1>5, FreeingLane
<1>7. q \in Own(b) /\ q \notin mem[b].pending /\ ~Has(mem[b], "add", q)
  BY <1>5 DEF Sound, OwnOps, Phases, Has
<1>8. \A p \in Question : Keeps(mem[b], n, p)
  BY <1>5, <1>6, KeepsTransitive
<1>9. ~Has(n, "add", q) /\ ~Has(n, "show", q) /\ ~Queued(n, q) /\ q \notin n.armed
  <2>1. ~Queued(m, q)
    BY <1>5, <1>7 DEF Queued
  <2>2. n.armed \subseteq n.pending
    BY <1>6 DEF Sound, OwnLanes
  <2> QED
    BY <1>5, <1>6, <1>7, <1>8, <2>1, <2>2 DEF Keeps
<1>10. "unasked" \notin Response
  BY DEF Response, Reply
<1>11. \A p \in Question : asker'[p] = "unasked" => asker[p] = "unasked"
  BY <1>4, <1>5, <1>10 DEF TypeOK
<1>12. Memories'
  BY <1>4, <1>6, MemoriesKept
<1>13. \A p \in Question : p # q => /\ Keeps(mem[b], n, p) /\ Hides(mem[b], n, p)
                                    /\ Stays(mem[b], n, p) /\ prompts'[p] = prompts[p]
  BY <1>4, <1>5, <1>6, <1>8 DEF Hides, Stays
<1>15. q \notin clobbered' => file'[q].at = "absent"
  BY <1>2, <1>5, Patching
<1>16. ASSUME q \notin clobbered'
       PROVE  ToBeShown(q)'
  <2>1. ToBeShown(q)
    BY <1>5, <1>16 DEF Agree, Unshown
  <2> QED
    BY <1>4, <1>5, <1>8, <1>15, <1>16, <2>1, ToBeShownKept, ToShowKept
<1>17. ASSUME Apart, Intact(LaneOf[q])'
       PROVE  HasLane(q)' /\ file'[q].at # "shown"
  <2>1. q \notin clobbered'
    BY <1>17 DEF Intact
  <2>2. AskedOn[q] = b
    BY <1>7, <1>17 DEF Own, Apart
  <2>3. Home(q)' = n
    BY <1>4, <1>5, <2>2, Others DEF Home
  <2> QED
    BY <1>9, <1>15, <2>1, <2>3 DEF HasLane
<1>18. Agree'
  <2>1. q = Head(mem[b].ops).q
    BY <1>0, <1>2
  <2>2. WriteFile(b, "settle") /\ mem' = [mem EXCEPT ![b] = n]
    BY <1>4
  <2> QED
    BY <1>11, <1>13, <1>16, <1>17, <2>1, <2>2, Written
<1> QED
  BY <1>12, <1>18

\* The write of an answer, or of a reaped row, which nobody goes on from.
LEMMA PassedOn ==
    ASSUME TypeOK, Memories, Agree, NEW b \in Bridge, NEW kind \in {"answer", "reap"},
           WriteFile(b, kind), mem' = [mem EXCEPT ![b] = Popped(b)], told' \subseteq Question,
           UNCHANGED <<due, askers, prompts, bounds>>
    PROVE  Memories' /\ Agree'
<1>0. PICK op : op = Head(mem[b].ops)
  OBVIOUS
<1>1. PICK n : n = Popped(b)
  OBVIOUS
<1>2. PICK q : q = op.q
  OBVIOUS
<1>4. /\ WriteFile(b, kind) /\ mem' = [mem EXCEPT ![b] = n]
      /\ asker' = asker /\ due' = due /\ aborted' = aborted /\ prompts' = prompts
      /\ replies' = replies /\ crashes' = crashes
  BY <1>1 DEF askers, bounds
<1>5. /\ op \in Op /\ op.kind = kind /\ Has(mem[b], kind, q)
      /\ q \in Question /\ clobbered \subseteq clobbered'
      /\ \A p \in Question \ clobbered' : file'[p] = Patched(file, op)[p]
      /\ mem[b] \in Memory /\ Sound(b, mem[b]) /\ file \in [Question -> Row]
      /\ n \in Memory /\ Sound(b, n) /\ (op.kind = "answer" => op.response \in Reply)
      /\ \A p \in Question : Keeps(mem[b], n, p) /\ Hides(mem[b], n, p) /\ Stays(mem[b], n, p)
  BY <1>0, <1>1, <1>2, <1>4, Starting
<1>6. Memories'
  BY <1>4, <1>5, MemoriesKept
<1>7. q \notin clobbered' => file'[q].at = IF kind = "reap" THEN "absent" ELSE file[q].at
  BY <1>2, <1>5, Patching
<1>8. ASSUME q \notin clobbered'
      PROVE  ToBeShown(q)'
  <2>1. ToBeShown(q)
    BY <1>5, <1>8 DEF Agree, Unshown
  <2> QED
    BY <1>4, <1>5, <1>7, <1>8, <2>1, ToBeShownKept, ToShowKept
<1>9. ASSUME Apart, Intact(LaneOf[q])'
      PROVE  HasLane(q)' /\ (file'[q].at = "shown" => Lone(q))
  <2>1. q \notin clobbered' /\ HasLane(q) /\ Alone(q)
    BY <1>5, <1>9, IntactKept DEF Agree, Open
  <2>2. file'[q].at = "shown" => file[q].at = "shown"
    BY <1>7, <2>1
  <2>3. n.hydrates = mem[b].hydrates /\ (q \in n.armed => q \in mem[b].armed)
    BY <1>5 DEF Keeps
  <2>4. HasLane(q)'
    BY <1>4, <1>5, <2>1, <2>2, <2>3, HasLaneKept
  <2> QED
    BY <2>1, <2>2, <2>4 DEF Alone
<1>10. Agree'
  <2>1. q = Head(mem[b].ops).q
    BY <1>0, <1>2
  <2>2. WriteFile(b, kind) /\ mem' = [mem EXCEPT ![b] = n]
    BY <1>4
  <2>3. \A p \in Question : p # q => /\ Keeps(mem[b], n, p) /\ Hides(mem[b], n, p)
                                     /\ Stays(mem[b], n, p) /\ prompts'[p] = prompts[p]
    BY <1>4, <1>5
  <2>4. \A p \in Question : asker'[p] = "unasked" => asker[p] = "unasked"
    BY <1>4
  <2>5. /\ q \notin clobbered' => ToBeShown(q)'
        /\ Apart /\ Intact(LaneOf[q])' => HasLane(q)'
        /\ Apart /\ Intact(LaneOf[q])' /\ file'[q].at = "shown" => Lone(q)
    BY <1>8, <1>9
  <2> QED
    BY <2>1, <2>2, <2>3, <2>4, <2>5, Written, ZenonT(60)
<1> QED
  BY <1>6, <1>10

LEMMA StoreSteps ==
    ASSUME TypeOK, Memories, Agree, NEW b \in Bridge, StoreStep(b)
    PROVE  Memories' /\ Agree'
<1>1. CASE ReadFile(b)
  BY <1>1, ReadStep
<1>2. CASE Requested(b)
  BY <1>2, RequestedStep
<1>3. CASE Presented(b)
  BY <1>3, PresentedStep
<1>4. CASE Settled(b)
  BY <1>4, SettledStep
<1>5. CASE Answered(b)
  <2>1. told' \subseteq Question
    BY <1>5 DEF Answered, Tells, TypeOK
  <2> QED
    BY <1>5, <2>1, PassedOn DEF Answered, Then
<1>6. CASE Reaped(b)
  <2>1. told' \subseteq Question
    BY <1>6 DEF Reaped, TypeOK
  <2>2. UNCHANGED <<due, askers, prompts, bounds>>
    BY <1>6 DEF Reaped
  <2> QED
    BY <1>6, <2>1, <2>2, PassedOn DEF Reaped, Then
<1> QED
  BY <1>1, <1>2, <1>3, <1>4, <1>5, <1>6 DEF StoreStep

-----------------------------------------------------------------------------
(* The other steps.                                                        *)

LEMMA AskStep ==
    ASSUME TypeOK, Memories, Agree, NEW q \in Question, Ask(q)
    PROVE  Memories' /\ Agree'
<1>0. PICK b \in Bridge : b = AskedOn[q]
  BY LaneOfType
<1>1. PICK m \in Memory : m = mem[b]
  BY DEF TypeOK
<1>2. PICK n : n = Push(m, "add", q, None)
  OBVIOUS
<1>3. /\ m.hydrates > 0 /\ asker[q] = "unasked" /\ asker' = [asker EXCEPT ![q] = "asking"]
      /\ mem' = [mem EXCEPT ![b] = n]
      /\ file' = file /\ due' = due /\ snap' = snap /\ aborted' = aborted /\ prompts' = prompts
      /\ told' = told /\ clobbered' = clobbered /\ replies' = replies /\ crashes' = crashes
  BY <1>0, <1>1, <1>2 DEF Ask, ghosts, bounds
<1>4. Sound(b, m) /\ q \in Own(b)
  BY <1>0, <1>1, ClarifyAssumption DEF Memories, Own
<1>5. file[q].at = "absent" /\ \A c \in Bridge : ~Knows(mem[c], q) /\ prompts[q][c] = 0
  BY <1>3 DEF Agree, Unasked, Absent
<1>6. \A c \in Bridge : \A k : ~Has(mem[c], k, q)
  BY <1>5 DEF Knows, Has
<1>7. /\ q \notin m.pending /\ ~Waits(m, q) /\ m.occupant[LaneOf[q]] # q
  BY <1>1, <1>5 DEF Knows
<1> DEFINE op == [kind |-> "add", q |-> q, response |-> None, live |-> q \in m.live]
<1>8. /\ n.up = m.up /\ n.pending = m.pending /\ n.armed = m.armed
      /\ n.live = m.live /\ n.occupant = m.occupant /\ n.waiting = m.waiting
      /\ n.hydrates = m.hydrates /\ n.ops = Append(m.ops, op)
      /\ n = [up |-> n.up, hydrates |-> n.hydrates, pending |-> n.pending, live |-> n.live,
              armed |-> n.armed, occupant |-> n.occupant, waiting |-> n.waiting, ops |-> n.ops]
  BY <1>2 DEF Memory, Push
<1>9. op \in Op /\ op.kind = "add" /\ op.q = q
  BY DEF Op
<1> HIDE DEF op
<1>10. n \in Memory
  <2>1. Append(m.ops, op) \in Seq(Op)
    BY <1>9, Members
  <2> QED
    BY <1>8, <2>1, Members DEF Memory
<1>11. Sound(b, n)
  <2>1. ~Has(m, "add", q) /\ ~Has(m, "settle", q)
    BY <1>1, <1>6
  <2>2. m.hydrates # 0
    BY <1>3, Members
  <2> QED
    BY <2>2, <1>4, <1>7, <1>8, <1>9, <1>10, <2>1, SoundAppend
<1>12. \A k, p : Has(n, k, p) <=> Has(m, k, p) \/ (k = "add" /\ p = q)
  BY <1>8, <1>9, <1>10, HasAppend
<1>13. \A p : Waits(n, p) <=> Waits(m, p)
  BY <1>8 DEF Waits
<1>14. ASSUME NEW p \in Question, p # q
       PROVE  Keeps(m, n, p) /\ Stays(m, n, p) /\ (Knows(n, p) => Knows(m, p))
  <2>1. (\E i \in DOMAIN n.ops : n.ops[i].q = p) => (\E i \in DOMAIN m.ops : m.ops[i].q = p)
    <3> DEFINE s == m.ops
    <3>1. s \in Seq(Op) /\ n.ops = Append(s, op)
      BY <1>8, Members
    <3> HIDE DEF s
    <3>2. \A i \in DOMAIN Append(s, op) : (i \in DOMAIN s /\ Append(s, op)[i] = s[i]) \/ Append(s, op)[i] = op
      BY <1>9, <3>1
    <3> QED
      BY <1>9, <1>14, <3>1, <3>2 DEF s
  <2> QED
    BY <1>8, <1>12, <1>13, <1>14, <2>1 DEF Keeps, Stays, Knows, Queued
<1>15. Memories'
  BY <1>3, <1>10, <1>11, MemoriesKept
<1>16. Home(q) = m /\ Home(q)' = n
  BY <1>0, <1>1, <1>3, Others DEF Home
<1>17. Unasked(q)'
  BY <1>3 DEF Unasked, TypeOK
<1>18. Unshown(q)'
  <2>1. ASSUME NEW c \in Bridge
        PROVE  /\ ~ToShow(mem'[c], q)
               /\ Has(mem'[c], "add", q) => c = b
    <3>1. ~Has(mem[c], "show", q) /\ ~Has(mem[c], "add", q) /\ ~Queued(mem[c], q)
      BY <1>5, <1>6 DEF Knows, Queued
    <3>2. CASE c = b
      <4>1. mem'[c] = n /\ mem[c] = m
        BY <1>1, <1>3, <3>2, Others
      <4> QED
        BY <1>8, <1>12, <1>13, <3>1, <3>2, <4>1 DEF ToShow, Queued
    <3>3. CASE c # b
      <4>1. mem'[c] = mem[c]
        BY <1>3, <3>3, Others
      <4> QED
        BY <3>1, <4>1 DEF ToShow
    <3> QED
      BY <3>2, <3>3
  <2>2. file'[q].at = "absent" /\ \A c \in Bridge : prompts'[q][c] = 0
    BY <1>3, <1>5
  <2> QED
    BY <1>0, <2>1, <2>2 DEF Unshown, ToBeShown
<1>19. Open(q)'
  <2>1. q \notin n.armed
    BY <1>4, <1>7, <1>8 DEF Sound, OwnLanes
  <2> QED
    BY <1>3, <1>5, <1>16, <2>1 DEF Open, HasLane, Alone
<1>20. ASSUME NEW p \in Question, p # q
       PROVE  Unasked(p)' /\ Unshown(p)' /\ Open(p)'
  <2>1. Unasked(p) /\ Unshown(p) /\ Open(p)
    BY DEF Agree
  <2>2. asker'[p] = asker[p]
    BY <1>3, <1>20 DEF TypeOK
  <2> QED
    BY <1>1, <1>3, <1>14, <1>20, <2>1, <2>2, QuietFor
<1> QED
  BY <1>15, <1>17, <1>18, <1>19, <1>20 DEF Agree

LEMMA AbortStep ==
    ASSUME TypeOK, Memories, Agree, NEW q \in Question, Abort(q)
    PROVE  Memories' /\ Agree'
<1>0. PICK b \in Bridge : b = AskedOn[q]
  BY LaneOfType
<1>1. PICK m \in Memory : m = mem[b]
  BY DEF TypeOK
<1>2. PICK n : /\ mem' = [mem EXCEPT ![b] = n] /\ (n = m \/ n = Respond(m, q, "cancel"))
  <2>1. [mem EXCEPT ![b] = m] = mem
    BY <1>1 DEF TypeOK
  <2>2. mem' = mem \/ mem' = [mem EXCEPT ![b] = Respond(m, q, "cancel")]
    BY <1>0, <1>1 DEF Abort
  <2> QED
    BY <2>1, <2>2
<1>3. /\ replies' = replies + 1 /\ aborted' = aborted \cup {q} /\ asker' = asker
      /\ file' = file /\ due' = due /\ snap' = snap /\ prompts' = prompts
      /\ told' = told /\ clobbered' = clobbered /\ crashes' = crashes
  BY DEF Abort, ghosts
<1>4. Sound(b, m) /\ "cancel" \in Reply
  BY <1>1 DEF Memories, Reply
<1>5. /\ n \in Memory /\ Sound(b, n)
      /\ \A p \in Question : Keeps(m, n, p) /\ Stays(m, n, p)
      /\ \A p \in Question : Knows(n, p) => Knows(m, p) \/ (p = q /\ file[p].at # "absent")
  <2>1. CASE n = m
    BY <1>4, <2>1, SameKeeps
  <2>2. CASE n = Respond(m, q, "cancel")
    BY <1>4, <2>2, Replying
  <2> QED
    BY <1>2, <2>1, <2>2
<1>6. Memories'
  BY <1>2, <1>5, MemoriesKept
<1>7. Agree'
  BY <1>1, <1>2, <1>3, <1>5, Quiet
<1> QED
  BY <1>6, <1>7

LEMMA SendReplyStep ==
    ASSUME TypeOK, Memories, Agree, NEW b \in Bridge, NEW q \in Question, NEW r \in Reply,
           SendReply(b, q, r)
    PROVE  Memories' /\ Agree'
<1>1. PICK m \in Memory : m = mem[b]
  BY DEF TypeOK
<1>2. PICK n : n = Respond(m, q, r)
  OBVIOUS
<1>3. /\ mem' = [mem EXCEPT ![b] = n] /\ replies' = replies + 1 /\ aborted' = aborted
      /\ asker' = asker
      /\ file' = file /\ due' = due /\ snap' = snap /\ prompts' = prompts
      /\ told' = told /\ clobbered' = clobbered /\ crashes' = crashes
  BY <1>1, <1>2 DEF SendReply, askers, ghosts
<1>4. Sound(b, m)
  BY <1>1 DEF Memories
<1>5. /\ n \in Memory /\ Sound(b, n)
      /\ \A p \in Question : Keeps(m, n, p) /\ Stays(m, n, p)
      /\ \A p \in Question : Knows(n, p) => Knows(m, p) \/ (p = q /\ file[p].at # "absent")
  BY <1>2, <1>4, Replying
<1>6. Memories'
  BY <1>3, <1>5, MemoriesKept
<1>7. Agree'
  BY <1>1, <1>3, <1>5, Quiet
<1> QED
  BY <1>6, <1>7

\* A timer or the poll: a question that is held leaves the map.
LEMMA RespondedStep ==
    ASSUME TypeOK, Memories, Agree, NEW b \in Bridge, NEW q \in mem[b].pending,
           NEW r \in Response, mem' = [mem EXCEPT ![b] = StartRespond(@, q, r)],
           UNCHANGED <<file, due, snap, askers, ghosts, bounds>>
    PROVE  Memories' /\ Agree'
<1>1. PICK m \in Memory : m = mem[b]
  BY DEF TypeOK
<1>2. PICK n : n = StartRespond(m, q, r)
  OBVIOUS
<1>3. /\ mem' = [mem EXCEPT ![b] = n] /\ replies' = replies /\ aborted' = aborted
      /\ asker' = asker
      /\ file' = file /\ due' = due /\ snap' = snap /\ prompts' = prompts
      /\ told' = told /\ clobbered' = clobbered /\ crashes' = crashes
  BY <1>1, <1>2 DEF askers, ghosts, bounds
<1>4. Sound(b, m) /\ q \in m.pending
  BY <1>1 DEF Memories
<1>5. /\ n \in Memory /\ Sound(b, n)
      /\ \A p \in Question : Keeps(m, n, p) /\ Hides(m, n, p) /\ Stays(m, n, p)
  BY <1>2, <1>4, Responding
<1>6. Memories'
  BY <1>3, <1>5, MemoriesKept
<1>7. Agree'
  BY <1>1, <1>3, <1>5, Quiet DEF Hides
<1> QED
  BY <1>6, <1>7

LEMMA FireTimeoutStep ==
    ASSUME TypeOK, Memories, Agree, NEW b \in Bridge, NEW q \in Question, FireTimeout(b, q)
    PROVE  Memories' /\ Agree'
<1>1. q \in mem[b].pending /\ "timeout" \in Response
  BY DEF FireTimeout, Response
<1>2. /\ mem' = [mem EXCEPT ![b] = StartRespond(@, q, "timeout")]
      /\ UNCHANGED <<file, due, snap, askers, ghosts, bounds>>
  BY DEF FireTimeout
<1> QED
  BY <1>1, <1>2, RespondedStep

LEMMA PollStep ==
    ASSUME TypeOK, Memories, Agree, NEW b \in Bridge, NEW q \in Question, PollForAnswers(b, q)
    PROVE  Memories' /\ Agree'
<1>1. PICK r : r = file[q].answer
  OBVIOUS
<1>2. q \in mem[b].pending /\ r # None
  BY <1>1 DEF PollForAnswers
<1>3. r \in Response
  BY <1>1, <1>2 DEF TypeOK, Row, Response
<1>4. /\ mem' = [mem EXCEPT ![b] = StartRespond(@, q, r)]
      /\ UNCHANGED <<file, due, snap, askers, ghosts, bounds>>
  BY <1>1 DEF PollForAnswers
<1> QED
  BY <1>2, <1>3, <1>4, RespondedStep

LEMMA SweepStep ==
    ASSUME TypeOK, Memories, Agree, NEW b \in Bridge, NEW q \in Question, Sweep(b, q)
    PROVE  Memories' /\ Agree'
<1>1. PICK m \in Memory : m = mem[b]
  BY DEF TypeOK
<1>2. PICK n : n = Push(m, "reap", q, None)
  OBVIOUS
<1>3. /\ mem' = [mem EXCEPT ![b] = n] /\ replies' = replies /\ aborted' = aborted
      /\ asker' = asker /\ file[q].at = "shown"
      /\ file' = file /\ due' = due /\ snap' = snap /\ prompts' = prompts
      /\ told' = told /\ clobbered' = clobbered /\ crashes' = crashes
  BY <1>1, <1>2 DEF Sweep, Expired, askers, ghosts, bounds
<1>4. Sound(b, m)
  BY <1>1 DEF Memories
<1>5. /\ n \in Memory /\ Sound(b, n)
      /\ \A p \in Question : Stays(m, n, p) /\ Keeps(m, n, p) /\ (p # q => Hides(m, n, p))
  BY <1>2, <1>4, PassingOn
<1>6. Memories'
  BY <1>3, <1>5, MemoriesKept
<1>7. \A p \in Question : Knows(n, p) => Knows(mem[b], p) \/ file[p].at # "absent"
  BY <1>1, <1>3, <1>5 DEF Hides
<1>8. Agree'
  BY <1>1, <1>3, <1>5, <1>7, Quiet
<1> QED
  BY <1>6, <1>8

\* A bridge dies or starts: it holds nothing.
LEMMA Emptying ==
    ASSUME NEW b \in Bridge, NEW u \in BOOLEAN, NEW n, n = Empty(u)
    PROVE  /\ n \in Memory /\ Sound(b, n) /\ n.hydrates = 0 /\ n.armed = {}
           /\ \A q \in Question : ~Knows(n, q) /\ ~Queued(n, q) /\ \A k : ~Has(n, k, q)
<1>1. /\ n.up = u /\ n.hydrates = 0 /\ n.pending = {} /\ n.live = {} /\ n.armed = {}
      /\ n.occupant = [l \in Lane |-> None] /\ n.waiting = [l \in Lane |-> <<>>] /\ n.ops = <<>>
      /\ n = [up |-> n.up, hydrates |-> n.hydrates, pending |-> n.pending, live |-> n.live,
              armed |-> n.armed, occupant |-> n.occupant, waiting |-> n.waiting, ops |-> n.ops]
  BY DEF Empty
<1>2. n \in Memory
  <2>1. 0 \in 0..MaxHydrates
    BY ClarifyAssumption
  <2>2. n.waiting \in [Lane -> Seq(Question)] /\ n.ops \in Seq(Op)
    BY <1>1
  <2>3. n.occupant \in [Lane -> Question \cup {None}]
    BY <1>1
  <2> QED
    BY <1>1, <2>1, <2>2, <2>3 DEF Memory
<1>3. DOMAIN n.ops = {} /\ \A l \in Lane : DOMAIN n.waiting[l] = {} /\ n.occupant[l] = None
  BY <1>1
<1>4. \A q \in Question : ~Waits(n, q) /\ \A k : ~Has(n, k, q)
  BY <1>3, LaneOfType DEF Waits, Has
<1>5. Sound(b, n)
  BY <1>1, <1>3, <1>4 DEF Sound, Answers, OwnLanes, OwnOps, Phases, Cold
<1>6. \A q \in Question : ~Knows(n, q) /\ ~Queued(n, q)
  BY <1>1, <1>3, <1>4, LaneOfType, ClarifyAssumption DEF Knows, Queued
<1> QED
  BY <1>1, <1>2, <1>4, <1>5, <1>6

LEMMA Emptied ==
    ASSUME TypeOK, Memories, Agree, NEW b \in Bridge, NEW u \in BOOLEAN,
           mem' = [mem EXCEPT ![b] = Empty(u)],
           file' = file, prompts' = prompts, clobbered' = clobbered,
           \A q \in Question : asker'[q] = "unasked" => asker[q] = "unasked",
           \A c \in Bridge : snap'[c] = snap[c] \/ snap'[c] = NoSnap
    PROVE  Memories' /\ Agree'
<1>1. PICK n : n = Empty(u)
  OBVIOUS
<1>2. mem' = [mem EXCEPT ![b] = n]
  BY <1>1
<1>3. /\ n \in Memory /\ Sound(b, n) /\ n.hydrates = 0 /\ n.armed = {}
      /\ \A q \in Question : ~Knows(n, q) /\ ~Queued(n, q) /\ \A k : ~Has(n, k, q)
  BY <1>1, Emptying
<1>4. Memories'
  BY <1>2, <1>3, MemoriesKept
<1>5. ASSUME NEW q \in Question
      PROVE  Unasked(q)' /\ Unshown(q)' /\ Open(q)'
  <2>1. Unasked(q) /\ Unshown(q) /\ Open(q)
    BY DEF Agree
  <2>2. Unasked(q)'
    BY <1>2, <1>3, <2>1, UnaskedKept DEF Unasked
  <2>3. Unshown(q)'
    <3>1. ~Has(n, "add", q) /\ ~ToShow(n, q)
      BY <1>3 DEF ToShow
    <3>2. ToBeShown(q) => ToBeShown(q)'
      BY <1>2, <3>1, ToBeShownKept
    <3> QED
      BY <2>1, <3>2 DEF Unshown
  <2>4. HasLane(q) => HasLane(q)'
    <3>1. CASE AskedOn[q] = b
      <4>1. Home(q)' = n
        BY <1>2, <3>1, Others DEF Home
      <4> QED
        BY <1>3, <4>1 DEF HasLane
    <3>2. CASE AskedOn[q] # b
      <4>1. Home(q)' = Home(q)
        BY <1>2, <3>2, Others
      <4> QED
        BY <4>1 DEF HasLane
    <3> QED
      BY <3>1, <3>2
  <2>5. Alone(q) => Alone(q)'
    BY AloneKept
  <2>6. Open(q)'
    BY <2>1, <2>4, <2>5 DEF Open, Intact
  <2> QED
    BY <2>2, <2>3, <2>6
<1> QED
  BY <1>4, <1>5 DEF Agree

LEMMA CrashStep ==
    ASSUME TypeOK, Memories, Agree, NEW b \in Bridge, Crash(b)
    PROVE  Memories' /\ Agree'
<1>1. /\ mem' = [mem EXCEPT ![b] = Empty(FALSE)] /\ snap' = [snap EXCEPT ![b] = NoSnap]
      /\ asker' = [q \in Question |->
                     IF AskedOn[q] = b /\ asker[q] = "asking" THEN "died" ELSE asker[q]]
      /\ file' = file /\ prompts' = prompts /\ clobbered' = clobbered
  BY DEF Crash, ghosts
<1>2. \A q \in Question : asker'[q] = "unasked" => asker[q] = "unasked"
  BY <1>1
<1>3. \A c \in Bridge : snap'[c] = snap[c] \/ snap'[c] = NoSnap
  BY <1>1 DEF TypeOK
<1> QED
  BY <1>1, <1>2, <1>3, Emptied

LEMMA RestartStep ==
    ASSUME TypeOK, Memories, Agree, NEW b \in Bridge, Restart(b)
    PROVE  Memories' /\ Agree'
<1>1. /\ mem' = [mem EXCEPT ![b] = Empty(TRUE)] /\ snap' = snap /\ asker' = asker
      /\ file' = file /\ prompts' = prompts /\ clobbered' = clobbered
  BY DEF Restart, askers, ghosts
<1> QED
  BY <1>1, Emptied

LEMMA DeadlineStep ==
    ASSUME TypeOK, Memories, Agree, NEW q \in Question, DeadlinePasses(q)
    PROVE  Memories' /\ Agree'
<1>1. /\ mem' = mem /\ snap' = snap /\ asker' = asker
      /\ file' = file /\ prompts' = prompts /\ clobbered' = clobbered
  BY DEF DeadlinePasses, askers, ghosts
<1>2. Memories'
  BY <1>1 DEF Memories
<1>3. Agree'
  BY <1>1 DEF Agree, Unasked, Unshown, Open, ToBeShown, HasLane, Alone, Lone, Home, Intact
<1> QED
  BY <1>2, <1>3

LEMMA HydrateStep ==
    ASSUME OneHydrate, TypeOK, Memories, Agree, NEW b \in Bridge, Hydrate(b)
    PROVE  Memories' /\ Agree'
<1>1. PICK m : m = mem[b]
  OBVIOUS
<1>2. /\ m.hydrates < MaxHydrates
      /\ file' = file /\ snap' = snap /\ asker' = asker /\ prompts' = prompts
      /\ clobbered' = clobbered
      /\ \E shown, queue, A, order, n :
           HydrateParts(b, m, shown, queue, A, order, n) /\ mem' = [mem EXCEPT ![b] = n]
  BY <1>1, Hydration DEF askers, ghosts
<1>3. PICK shown, queue, A, order, n :
        HydrateParts(b, m, shown, queue, A, order, n) /\ mem' = [mem EXCEPT ![b] = n]
  BY <1>2
<1>4. m \in Memory /\ Sound(b, m) /\ m.hydrates = 0
  <2>1. m \in Memory /\ Sound(b, m)
    BY <1>1 DEF TypeOK, Memories
  <2>2. m.hydrates \in 0..1 /\ m.hydrates < 1
    BY <1>2, <2>1, Members DEF OneHydrate
  <2> QED
    BY <2>1, <2>2
<1>5. Presents[b] \subseteq Own(b)
  BY ClarifyAssumption DEF Own
<1>6. PICK drained : drained = Drained(m, b, A)
  OBVIOUS
<1>7. Hydrated(b, m, n, queue, drained, order)
  <2>1. PICK S : S = Callers(A, drained)
    OBVIOUS
  <2>2. /\ Lists(m, b, shown, queue) /\ A = Adopt(m, b, shown, queue)
        /\ order \in Rows(S) /\ n = DrainLanes(A, drained, order)
    BY <1>3, <1>6, <2>1 DEF HydrateParts
  <2>3. AdoptedBy(b, m, shown, queue, A)
    BY <1>2, <1>4, <2>2, AdoptIs
  <2>4. A \in Memory /\ CanDrain(A, drained) /\ S \in SUBSET drained
    BY <1>6, <2>1, <2>3 DEF AdoptedBy, CanDrain, Drained, Callers, Adopted
  <2>5. DrainedTo(A, drained, S, order, n)
    BY <2>2, <2>4, DrainIs
  <2>6. /\ drained = {l \in Lane : /\ Adopted(m, b, l) # {}
                                   /\ A.occupant[l] = None /\ A.waiting[l] # <<>>}
        /\ S = {l \in drained : Head(A.waiting[l]) \in A.pending}
    BY <1>6, <2>1 DEF Drained, Callers
  <2>7. file \in [Question -> Row]
    BY DEF TypeOK
  <2> QED
    BY <1>4, <2>2, <2>3, <2>5, <2>6, <2>7, Hydrating
<1>8. n \in Memory /\ Sound(b, n) /\ n.hydrates = 1 /\ Wakes(b, m, n)
  BY <1>4, <1>5, <1>7, SoundHydrated
<1>9. Memories'
  BY <1>3, <1>8, MemoriesKept
<1>10. ASSUME NEW q \in Question
       PROVE  Unasked(q)' /\ Unshown(q)' /\ Open(q)'
  <2>1. Unasked(q) /\ Unshown(q) /\ Open(q)
    BY DEF Agree
  <2>2. Unasked(q)'
    <3>1. CASE asker[q] = "unasked"
      <4>1. file[q].at = "absent"
        BY <2>1, <3>1 DEF Unasked, Absent
      <4> QED
        BY <1>1, <1>2, <1>3, <1>8, <2>1, <3>1, <4>1, UnaskedKept DEF Wakes
    <3>2. CASE asker[q] # "unasked"
      BY <1>2, <3>2 DEF Unasked
    <3> QED
      BY <3>1, <3>2
  <2>3. ASSUME ToBeShown(q), NEW c \in Bridge
        PROVE  /\ Has(mem'[c], "add", q) => Has(mem[c], "add", q)
               /\ ToShow(mem'[c], q) => ToShow(mem[c], q) \/ file[q].at = "queued"
    <3>1. CASE c = b
      <4>1. mem'[c] = n
        BY <1>3, <3>1, Others
      <4> QED
        BY <1>8, <4>1 DEF Wakes, ToShow
    <3>2. CASE c # b
      BY <1>3, <3>2, Others
    <3> QED
      BY <3>1, <3>2
  <2>4. Unshown(q)'
    <3>1. ASSUME ToBeShown(q)
          PROVE  ToBeShown(q)'
      BY <1>2, <2>3, <3>1 DEF ToBeShown
    <3> QED
      BY <1>2, <2>1, <3>1 DEF Unshown
  <2>5. Alone(q) => Alone(q)'
    BY <1>2, AloneKept
  <2>6. ASSUME Apart, HasLane(q), Alone(q)
        PROVE  HasLane(q)'
    <3>1. CASE AskedOn[q] = b
      <4>1. Home(q)' = n
        BY <1>3, <3>1, Others
      <4>2. ASSUME file[q].at = "shown"
            PROVE  n.occupant[LaneOf[q]] = q
        <5>1. q \in Own(b) /\ q \in Presents[b]
          BY <3>1, ClarifyAssumption DEF Own
        <5>2. PICK p : p = n.occupant[LaneOf[q]]
          OBVIOUS
        <5>3. p \in Own(b) /\ file[p].at = "shown" /\ LaneOf[p] = LaneOf[q]
          BY <1>8, <4>2, <5>1, <5>2 DEF Wakes
        <5>4. p \in Question /\ AskedOn[p] = b
          BY <2>6, <5>3 DEF Own, Apart
        <5> QED
          BY <2>6, <3>1, <4>2, <5>2, <5>3, <5>4 DEF Alone, Lone
      <4> QED
        BY <1>2, <1>8, <4>1, <4>2 DEF HasLane, Wakes
    <3>2. CASE AskedOn[q] # b
      <4>1. Home(q)' = Home(q)
        BY <1>3, <3>2, Others
      <4> QED
        BY <1>2, <2>6, <4>1 DEF HasLane
    <3> QED
      BY <3>1, <3>2
  <2>7. Open(q)'
    BY <1>2, <2>1, <2>5, <2>6 DEF Open, Intact
  <2> QED
    BY <2>2, <2>4, <2>7
<1> QED
  BY <1>9, <1>10 DEF Agree

-----------------------------------------------------------------------------
(* The theorems.                                                           *)

LEMMA IInvInit ==
    ASSUME Init
    PROVE  IInv
<1>1. TypeOK
  BY TypesInit DEF TypesOK
<1>2. PICK n : n = Empty(TRUE)
  OBVIOUS
<1>3. \A b \in Bridge : mem[b] = n
  BY <1>2 DEF Init
<1>4. \A b \in Bridge : Sound(b, mem[b])
  BY <1>2, <1>3, Emptying
<1>5. ASSUME NEW q \in Question
      PROVE  Unasked(q) /\ Unshown(q) /\ Open(q)
  <2>1. /\ file[q] = Absent /\ file[q].at = "absent"
        /\ \A c \in Bridge : snap[c] = NoSnap /\ prompts[q][c] = 0
    BY DEF Init, Blank, Absent
  <2>2. ASSUME NEW c \in Bridge
        PROVE  /\ ~Knows(mem[c], q) /\ ~Queued(mem[c], q) /\ mem[c].armed = {}
               /\ \A k : ~Has(mem[c], k, q)
    BY <1>2, <1>3, Emptying
  <2>3. Home(q).armed = {} /\ ~Queued(Home(q), q) /\ \A k : ~Has(Home(q), k, q)
    BY <2>2, LaneOfType DEF Home
  <2>4. Unasked(q)
    BY <2>1, <2>2 DEF Unasked
  <2>5. Unshown(q)
    BY <2>1, <2>2 DEF Unshown, ToBeShown, ToShow
  <2>6. Open(q)
    BY <2>1, <2>3 DEF Open, HasLane, Alone
  <2> QED
    BY <2>4, <2>5, <2>6
<1> QED
  BY <1>1, <1>4, <1>5 DEF IInv, Memories, Agree

LEMMA IInvStep ==
    ASSUME OneHydrate, TypesOK, IInv, [Next]_vars
    PROVE  Memories' /\ Agree'
<1>0. TypeOK /\ Memories /\ Agree
  BY DEF IInv
<1>1. CASE UNCHANGED vars
  <2>1. /\ mem' = mem /\ snap' = snap /\ asker' = asker
        /\ file' = file /\ prompts' = prompts /\ clobbered' = clobbered
    BY <1>1 DEF vars, askers, ghosts
  <2>2. Memories'
    BY <1>0, <2>1 DEF Memories
  <2>3. Agree'
    BY <1>0, <2>1 DEF Agree, Unasked, Unshown, Open, ToBeShown, HasLane, Alone, Lone, Home, Intact
  <2> QED
    BY <2>2, <2>3
<1>2. ASSUME NEW b \in Bridge, StoreStep(b) PROVE Memories' /\ Agree'
  BY <1>0, <1>2, StoreSteps
<1>3. ASSUME NEW b \in Bridge, Hydrate(b) PROVE Memories' /\ Agree'
  BY <1>0, <1>3, HydrateStep
<1>4. ASSUME NEW b \in Bridge, Crash(b) PROVE Memories' /\ Agree'
  BY <1>0, <1>4, CrashStep
<1>5. ASSUME NEW b \in Bridge, Restart(b) PROVE Memories' /\ Agree'
  BY <1>0, <1>5, RestartStep
<1>6. ASSUME NEW q \in Question, Ask(q) PROVE Memories' /\ Agree'
  BY <1>0, <1>6, AskStep
<1>7. ASSUME NEW q \in Question, Abort(q) PROVE Memories' /\ Agree'
  BY <1>0, <1>7, AbortStep
<1>8. ASSUME NEW q \in Question, DeadlinePasses(q) PROVE Memories' /\ Agree'
  BY <1>0, <1>8, DeadlineStep
<1>9. ASSUME NEW b \in Bridge, NEW q \in Question, FireTimeout(b, q)
      PROVE  Memories' /\ Agree'
  BY <1>0, <1>9, FireTimeoutStep
<1>10. ASSUME NEW b \in Bridge, NEW q \in Question, PollForAnswers(b, q)
       PROVE  Memories' /\ Agree'
  BY <1>0, <1>10, PollStep
<1>11. ASSUME NEW b \in Bridge, NEW q \in Question, Sweep(b, q)
       PROVE  Memories' /\ Agree'
  BY <1>0, <1>11, SweepStep
<1>12. ASSUME NEW b \in Bridge, NEW q \in Question, NEW r \in Reply, SendReply(b, q, r)
       PROVE  Memories' /\ Agree'
  BY <1>0, <1>12, SendReplyStep
<1> QED
  BY <1>1, <1>2, <1>3, <1>4, <1>5, <1>6, <1>7, <1>8, <1>9, <1>10, <1>11, <1>12 DEF Next

\* Each bridge's map, lanes, timers and writes fit each other, and what they say of a
\* question agrees with its row in the file, through every await of the bridge and every
\* crash (ClarifyBridge and FileClarifyStore).  Bridges may share surfaces; Open, which
\* speaks of lanes, says nothing of them then.
THEOREM BridgesSound ==
    ASSUME OneHydrate
    PROVE  Spec => []IInv
<1>1. Init => TypesOK /\ IInv
  BY TypesInit, IInvInit
<1>2. TypesOK /\ IInv /\ [Next]_vars => TypesOK' /\ IInv'
  <2> SUFFICES ASSUME TypesOK, IInv, [Next]_vars
               PROVE  TypesOK' /\ IInv'
    OBVIOUS
  <2>1. TypesOK'
    BY TypesStep
  <2>2. Memories' /\ Agree'
    BY IInvStep
  <2> QED
    BY <2>1, <2>2 DEF IInv, TypesOK
<1> QED
  BY <1>1, <1>2, PTL DEF Spec

\* request() presents a question only when its lane is free, and frees the lane only
\* after the row is gone: two questions of a lane never have timers at once, through
\* hydration, aborts that race the queue, and writes that race everything else.  Where two
\* bridges present one surface, as with two bots on one platform, it is not so.
THEOREM LaneCorrect ==
    ASSUME OneHydrate, Apart
    PROVE  Spec => []LaneAsksOne
<1>1. IInv => LaneAsksOne
  <2> SUFFICES ASSUME IInv, NEW b \in Bridge, NEW q \in mem[b].armed, NEW r \in mem[b].armed,
                      LaneOf[q] = LaneOf[r], Intact(LaneOf[q])
               PROVE  q = r
    BY DEF LaneAsksOne
  <2>1. q \in Own(b) /\ r \in Own(b)
    BY DEF IInv, Memories, Sound, OwnLanes
  <2>2. /\ q \in Question /\ Home(q) = mem[b]
        /\ r \in Question /\ Home(r) = mem[b]
    BY <2>1 DEF Own, Apart, Home
  <2>3. HasLane(q) /\ HasLane(r)
    BY <2>2 DEF IInv, Agree, Open
  <2> QED
    BY <2>2, <2>3 DEF HasLane
<1> QED
  BY <1>1, BridgesSound, PTL

\* presentNow and hydrate show a question that is queued, and what was shown is never
\* queued again: a bridge that hydrates once in a life shows nothing twice, not after a
\* restart either, and nothing of a surface that it does not present.  Bridges may share
\* surfaces; then each of them may show the question once (OneBotAsks).
THEOREM PromptCorrect ==
    ASSUME OneHydrate
    PROVE  Spec => []PromptedOnce
<1>1. IInv => PromptedOnce
  BY DEF IInv, Agree, Unshown, ToBeShown, PromptedOnce
<1> QED
  BY <1>1, BridgesSound, PTL
=============================================================================
