------------------------------ MODULE TurnLanes ------------------------------
(***************************************************************************)
(* The lanes of one gateway and the permits its turns share: the lane map  *)
(* with its eviction of idle chats, SessionLane, TurnSemaphore, and the    *)
(* path of a message from handleMessage through enqueueTurn to the end of  *)
(* its turn.  GatewayTurns follows one lane and its spool; this module     *)
(* follows several, without the spool.                                     *)
(*                                                                         *)
(* A message is in its hook from the moment it fetched its lane object to  *)
(* the moment it is offered to it: the claiming hook and the commands      *)
(* before it are awaited there.                                            *)
(***************************************************************************)
EXTENDS Naturals, Sequences, FiniteSets, SequencesExt

CONSTANTS
    Chat, Message, ChatOf,
    Lane,          \* lane objects; one is always unused
    None,
    MaxPermits,    \* maxConcurrentSessions
    MaxChats,      \* lanes kept in the map
    MaxLaneQueue,  \* turns of a lane beyond which a saturated gateway says busy
    MaxStops       \* bound on /stop commands

ASSUME TurnLanesAssumption ==
    /\ ChatOf \in [Message -> Chat]
    /\ None \notin Lane /\ None \notin Message
    /\ {MaxPermits, MaxChats, MaxLaneQueue} \subseteq Nat \ {0}
    /\ MaxStops \in Nat

VARIABLES
    lanes,         \* the map from a chat to its lane
    older,         \* its order: <<d, e>> when d was used before e
    queue, cur,    \* each lane object: its backlog and its running task
    pc, laneOf,    \* each message and the lane object it fetched
    aborted,       \* messages whose signal has fired
    permits, waiters,
    sink, active,  \* activeSinks and activeTurns of a chat
    astray,        \* chats whose lane left the map while a message held it
    stops

laneVars == <<queue, cur>>
permitVars == <<permits, waiters>>
turnVars == <<sink, active>>
mapVars == <<lanes, older>>
vars == <<mapVars, laneVars, pc, laneOf, aborted, permitVars, turnVars, astray, stops>>

Held == {"granted", "running", "tail"}
AtFront == Held \cup {"front", "waiting", "leaving"}
Ended == {"over", "refused", "dropped", "busy", "absorbed"}
Stages == {"new", "hook", "queued"} \cup AtFront \cup Ended

\* Every variable has its type; a lane works on the message at its front.
TypeOK ==
    /\ lanes \in [Chat -> Lane \cup {None}] /\ older \subseteq Chat \X Chat
    /\ queue \in [Lane -> Seq(Message)]
    /\ cur \in [Lane -> Message \cup {None}]
    /\ pc \in [Message -> Stages]
    /\ laneOf \in [Message -> Lane \cup {None}]
    /\ \A m \in Message : pc[m] \in AtFront <=> \E l \in Lane : cur[l] = m
    /\ aborted \subseteq Message
    /\ permits \in 0..MaxPermits /\ waiters \in Seq(Message)
    /\ {sink, active} \subseteq [Chat -> Message \cup {None}]
    /\ astray \subseteq Chat /\ stops \in 0..MaxStops

Init ==
    /\ lanes = [c \in Chat |-> None] /\ older = {}
    /\ queue = [l \in Lane |-> <<>>] /\ cur = [l \in Lane |-> None]
    /\ pc = [m \in Message |-> "new"] /\ laneOf = [m \in Message |-> None]
    /\ aborted = {}
    /\ permits = MaxPermits /\ waiters = <<>>
    /\ sink = [c \in Chat |-> None] /\ active = [c \in Chat |-> None]
    /\ astray = {} /\ stops = 0

-----------------------------------------------------------------------------
(* The lane map.                                                           *)

LaneLength(l) == Len(queue[l]) + (IF cur[l] = None THEN 0 ELSE 1)

Mapped == {c \in Chat : lanes[c] # None}
Unused(l) ==
    /\ \A c \in Chat : lanes[c] # l
    /\ LaneLength(l) = 0
    /\ \A m \in Message : laneOf[m] = l => pc[m] # "hook"

\* The lane of c becomes the most recently used.
Touched(c) == {p \in older : c \notin {p[1], p[2]}} \cup {<<d, c>> : d \in Mapped \ {c}}

\* A chat eviction may take: nothing queued or running, no turn in flight.
EvictAny(d) == TRUE
Idle(d) == (lanes[d] = None \/ LaneLength(lanes[d]) = 0) /\ active[d] = None

\* evictIdleChats takes idle chats from the oldest on until the map fits, the lane
\* just created for c included.
Evicted(c) ==
    LET idle == {d \in Mapped \cup {c} : Idle(d)}
        size == Cardinality(Mapped \cup {c})
    IN  {d \in idle : MaxChats + Cardinality({e \in idle : <<e, d>> \in Touched(c)}) < size}

\* getOrCreateLane: the lane of c is l, a new one if it has none.
FetchesLane(c, l) ==
    \/ /\ lanes[c] = l
       /\ older' = Touched(c) /\ UNCHANGED <<lanes, astray>>
    \/ /\ lanes[c] = None
       /\ Unused(l) /\ l = CHOOSE k \in Lane : Unused(k)
       /\ LET gone == Evicted(c)
              map == [lanes EXCEPT ![c] = l] IN
          /\ lanes' = [d \in Chat |-> IF d \in gone THEN None ELSE map[d]]
          /\ older' = {p \in Touched(c) : {p[1], p[2]} \cap gone = {}}
          /\ astray' = astray \cup {d \in gone :
                \E m \in Message : laneOf'[m] = map[d] /\ pc'[m] = "hook"}

-----------------------------------------------------------------------------
(* SessionLane and TurnSemaphore.                                          *)

\* drain takes the next task when the running one is over.
KeepsLast(l) ==
    IF queue[l] = <<>>
    THEN UNCHANGED laneVars
    ELSE cur' = [cur EXCEPT ![l] = Head(queue[l])] /\ queue' = [queue EXCEPT ![l] = Tail(@)]
Advances(l) ==
    IF queue[l] = <<>>
    THEN cur' = [cur EXCEPT ![l] = None] /\ UNCHANGED queue
    ELSE cur' = [cur EXCEPT ![l] = Head(queue[l])] /\ queue' = [queue EXCEPT ![l] = Tail(@)]

\* The stages after m ends at lane l as `end`.
EndsAs(m, l, end) ==
    [x \in Message |->
        IF x = m THEN end
        ELSE IF queue[l] # <<>> /\ x = Head(queue[l]) THEN "front" ELSE pc[x]]

\* lane.enqueue: an idle lane starts at once.
Enqueue(m) ==
    LET l == laneOf[m] IN
    IF cur[l] = None
    THEN /\ cur' = [cur EXCEPT ![l] = m] /\ UNCHANGED queue
         /\ pc' = [pc EXCEPT ![m] = "front"]
    ELSE /\ queue' = [queue EXCEPT ![l] = Append(@, m)] /\ UNCHANGED cur
         /\ pc' = [pc EXCEPT ![m] = "queued"]

\* release: the permit goes to the next waiter, or back to the pool.
ReleaseToPool == permits' = permits + 1 /\ UNCHANGED waiters
HandsPermitOn ==
    IF waiters = <<>> THEN permits' = permits + 1 /\ UNCHANGED waiters
    ELSE waiters' = Tail(waiters) /\ UNCHANGED permits

Granted(stages) ==
    IF waiters # <<>> /\ waiters' # waiters
    THEN [stages EXCEPT ![Head(waiters)] = "granted"] ELSE stages

-----------------------------------------------------------------------------
(* The path of a message.                                                  *)

Arrive(m) ==
    /\ pc[m] = "new"
    /\ pc' = [pc EXCEPT ![m] = "hook"]
    /\ \E l \in Lane : laneOf' = [laneOf EXCEPT ![m] = l] /\ FetchesLane(ChatOf[m], l)
    /\ UNCHANGED <<laneVars, aborted, permitVars, turnVars, stops>>

\* A running turn takes the message as a steer, unless its sink is full: then the
\* message is queued, however long the queue is.
Steer(m) ==
    /\ pc[m] = "hook" /\ sink[ChatOf[m]] # None
    /\ \/ pc' = [pc EXCEPT ![m] = "absorbed"] /\ UNCHANGED laneVars
       \/ Enqueue(m)
    /\ UNCHANGED <<mapVars, laneOf, aborted, permitVars, turnVars, astray, stops>>

Saturated == permits = 0

Offer(m) ==
    /\ pc[m] = "hook" /\ sink[ChatOf[m]] = None
    /\ IF Saturated /\ LaneLength(laneOf[m]) >= MaxLaneQueue
       THEN pc' = [pc EXCEPT ![m] = "busy"] /\ UNCHANGED laneVars
       ELSE Enqueue(m)
    /\ UNCHANGED <<mapVars, laneOf, aborted, permitVars, turnVars, astray, stops>>

\* The message was a command, or a hook claimed it.
Consume(m) ==
    /\ pc[m] = "hook" /\ pc' = [pc EXCEPT ![m] = "over"]
    /\ UNCHANGED <<mapVars, laneVars, laneOf, aborted, permitVars, turnVars, astray, stops>>

\* The bot's daily cap is reached.
OverCap(m) ==
    /\ pc[m] = "front" /\ pc' = [pc EXCEPT ![m] = "leaving"]
    /\ UNCHANGED <<mapVars, laneVars, laneOf, aborted, permitVars, turnVars, astray, stops>>

Acquire(m) ==
    /\ pc[m] = "front"
    /\ \/ /\ m \in aborted
          /\ pc' = [pc EXCEPT ![m] = "leaving"] /\ UNCHANGED permitVars
       \/ /\ m \notin aborted /\ permits > 0
          /\ permits' = permits - 1
          /\ pc' = [pc EXCEPT ![m] = "granted"] /\ UNCHANGED waiters
       \/ /\ m \notin aborted /\ permits = 0
          /\ waiters' = Append(waiters, m)
          /\ pc' = [pc EXCEPT ![m] = "waiting"] /\ UNCHANGED permits
    /\ UNCHANGED <<mapVars, laneVars, laneOf, aborted, turnVars, astray, stops>>

\* runTurn registers the turn and its sink under the chat.
BeginTurn(m) ==
    /\ pc[m] = "granted" /\ pc' = [pc EXCEPT ![m] = "running"]
    /\ sink' = [sink EXCEPT ![ChatOf[m]] = m]
    /\ active' = [active EXCEPT ![ChatOf[m]] = m]
    /\ UNCHANGED <<mapVars, laneVars, laneOf, aborted, permitVars, astray, stops>>

\* The loop is over and its sink is sealed; the turn still holds lane and permit.
SealSink(m) ==
    /\ pc[m] = "running" /\ pc' = [pc EXCEPT ![m] = "tail"]
    /\ sink' = [sink EXCEPT ![ChatOf[m]] = None]
    /\ UNCHANGED <<mapVars, laneVars, laneOf, aborted, permitVars, active, astray, stops>>

\* The end of a turn, normal or thrown: unregister, release, next task.
EndTurn(m) ==
    /\ pc[m] \in {"running", "tail"}
    /\ sink' = [sink EXCEPT ![ChatOf[m]] = None]
    /\ active' = [active EXCEPT ![ChatOf[m]] = None]
    /\ HandsPermitOn
    /\ Advances(laneOf[m])
    /\ pc' = Granted(EndsAs(m, laneOf[m], "over"))
    /\ UNCHANGED <<mapVars, laneOf, aborted, astray, stops>>

\* A turn without a permit leaves its lane.
LeaveLane(m) ==
    /\ pc[m] = "leaving"
    /\ Advances(laneOf[m])
    /\ pc' = EndsAs(m, laneOf[m], "refused")
    /\ UNCHANGED <<mapVars, laneOf, aborted, permitVars, turnVars, astray, stops>>

KeepsWaiters(l) == UNCHANGED waiters
RemovesWaiter(l) ==
    \/ cur[l] \notin ToSet(waiters) /\ UNCHANGED waiters
    \/ \E i \in DOMAIN waiters : waiters[i] = cur[l] /\ waiters' = RemoveAt(waiters, i)

\* /stop: abort the running task of the chat's lane and drop what is queued.  A task
\* that waits for a permit gives up its place.
Stop(c) ==
    /\ stops < MaxStops /\ stops' = stops + 1
    /\ \E l \in Lane :
         /\ lanes[c] \in {l, None}
         /\ aborted' = IF cur[l] = None THEN aborted ELSE aborted \cup {cur[l]}
         /\ RemovesWaiter(l)
         /\ pc' = [m \in Message |->
                     IF m \in ToSet(queue[l]) THEN "dropped"
                     ELSE IF m = cur[l] /\ pc[m] = "waiting" THEN "leaving" ELSE pc[m]]
         /\ queue' = [queue EXCEPT ![l] = <<>>]
         /\ UNCHANGED laneOf /\ FetchesLane(c, l)
    /\ UNCHANGED <<cur, permits, turnVars>>

-----------------------------------------------------------------------------

Handle(m) ==
    \/ Steer(m) \/ Offer(m) \/ Consume(m) \/ Acquire(m) \/ OverCap(m)
    \/ BeginTurn(m) \/ LeaveLane(m)
Turn(m) == SealSink(m) \/ EndTurn(m)

Next ==
    \/ \E m \in Message : Arrive(m) \/ Handle(m) \/ Turn(m)
    \/ \E c \in Chat : Stop(c)

Spec == Init /\ [][Next]_vars

\* Hooks return and turns end.
Fairness == \A m \in Message : WF_vars(Handle(m)) /\ WF_vars(Turn(m))

FairSpec == Spec /\ Fairness

-----------------------------------------------------------------------------
(* What the gateway promises.                                              *)

\* "Every acquire that resolves true is paired with exactly one release": no permit is
\* lost or made up whatever is aborted when, none lies idle while a turn waits, and
\* only live turns wait, each once, so that a release never goes to a dead waiter.
PermitsAccounted ==
    /\ permits + Cardinality({m \in Message : pc[m] \in Held}) = MaxPermits
    /\ permits > 0 => waiters = <<>>
    /\ ToSet(waiters) = {m \in Message : pc[m] = "waiting"}
    /\ Len(waiters) = Cardinality(ToSet(waiters))

Working(c) == {m \in Message : ChatOf[m] = c /\ pc[m] \in AtFront}

\* Two turns of one chat are never at work side by side, unless the chat's lane was evicted
\* while a message of the chat held it.
OneTurnBarringEviction == \A c \in Chat : c \in astray \/ Cardinality(Working(c)) <= 1

\* Not kept, see the README: SessionLane "serialises concurrent messages for the same
\* chat", and "Active in-flight lanes are never evicted".
OneTurnPerChat == \A c \in Chat : Cardinality(Working(c) \cap {m \in Message : pc[m] \in Held}) <= 1

\* A message that arrived comes to an end: no lost permit, no dead waiter and no
\* abort leaves it in a lane for ever.
EventuallyEnds == \A m \in Message : pc[m] = "hook" ~> pc[m] \in Ended

=============================================================================
