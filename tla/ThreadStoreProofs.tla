--------------------------- MODULE ThreadStoreProofs ---------------------------
(***************************************************************************)
(* What ThreadStore keeps for every number of sessions, scopes, messages   *)
(* and deliveries, in this order: its types; one holder per owned scope;   *)
(* the ties between messages and the deliveries that carry them; drafts,   *)
(* places and answers; that it implements Handout; that every move of a    *)
(* message is one msgstate draws; that a claim spares a fresh session; and *)
(* that a takeover brings something of what it takes.                      *)
(***************************************************************************)
EXTENDS ThreadStore, FiniteSetTheorems, TLAPS

Messages   == [MessageIds -> MessageRow]
Deliveries == [DeliveryIds -> DeliveryRow]

\* What a change of owner leaves behind has the tables' types.
LEMMA RequeuedType ==
  ASSUME messages \in Messages, NEW scope, NEW session
  PROVE  Requeued(scope, session) \in Messages
<1>1. ASSUME NEW m \in MessageIds
      PROVE  [messages[m] EXCEPT !.state = "sent", !.line = FALSE] \in MessageRow
  <2>1. messages[m] \in MessageRow /\ "sent" \in LifecycleStates
    BY DEF Messages, LifecycleStates
  <2> QED
    BY <2>1 DEF MessageRow
<1> QED
  BY <1>1 DEF Requeued, Messages

LEMMA MovedAwayType ==
  ASSUME deliveries \in Deliveries, NEW scope, NEW session
  PROVE  MovedAway(scope, session) \in Deliveries
<1>1. ASSUME NEW d \in DeliveryIds
      PROVE  [deliveries[d] EXCEPT !.state = "moved"] \in DeliveryRow
  <2>1. deliveries[d] \in DeliveryRow
    BY DEF Deliveries
  <2> QED
    BY <2>1 DEF DeliveryRow
<1> QED
  BY <1>1 DEF MovedAway, Deliveries

LEMMA OwnedType ==
  ASSUME scopes \in [Scopes -> ScopeRow], now \in 0..MaxNow,
         NEW scope \in Scopes, NEW session \in Sessions
  PROVE  Owned(scope, session) \in [Scopes -> ScopeRow]
  BY DEF Owned, ScopeRow

\* The scope of a typed message is a scope.
LEMMA MessageScopeType ==
  ASSUME NEW ms \in Messages, NEW m \in MessageIds
  PROVE  MessageScope(ms, m) \in Scopes
<1>1. ms[m].thread \in Threads
  BY DEF Messages, MessageRow
<1> QED
  BY <1>1, ThreadScopeAssumption DEF MessageScope

\* Handing out and taking back keep the tables' types, from whatever tables
\* a takeover has made.
LEMMA ClaimFromType ==
  ASSUME NEW ms \in Messages, NEW ds \in Deliveries, now \in 0..MaxNow,
         NEW from, NEW session \in Sessions, NEW present,
         ClaimFrom(ms, ds, from, session, present)
  PROVE  messages' \in Messages /\ deliveries' \in Deliveries
<1>1. CASE TakeBack(ms, ds, from, session, present)
  <2>1. PICK d \in DeliveryIds :
          /\ ds[d].token < MaxClaims
          /\ deliveries' = [ds EXCEPT ![d].session = session, ![d].token = @ + 1,
                                      ![d].touchedAt = now, ![d].held = FALSE]
          /\ messages' = ms
    BY <1>1 DEF TakeBack, Retakable
  <2>2. ds[d] \in DeliveryRow
    BY DEF Deliveries
  <2>3. ds[d].token + 1 \in 0..MaxClaims
    <3>1. ds[d].token \in 0..MaxClaims
      BY <2>2 DEF DeliveryRow
    <3> QED
      BY <3>1, <2>1, BoundsAssumption
  <2>4. deliveries' = [ds EXCEPT ![d] = [ds[d] EXCEPT !.session = session,
                         !.token = ds[d].token + 1, !.touchedAt = now, !.held = FALSE]]
    BY <2>1, <2>2 DEF Deliveries, DeliveryRow
  <2>5. [ds[d] EXCEPT !.session = session, !.token = ds[d].token + 1,
                      !.touchedAt = now, !.held = FALSE] \in DeliveryRow
    BY <2>2, <2>3 DEF DeliveryRow
  <2> QED
    BY <2>1, <2>4, <2>5 DEF Deliveries
<1>2. CASE HandOut(ms, ds, from, session)
  <2>1. PICK first \in MessageIds, d \in DeliveryIds :
          /\ deliveries' = [ds EXCEPT ![d] =
               [state |-> "inflight", scope |-> MessageScope(ms, first),
                batch |-> ms[first].batch, session |-> session, token |-> 1,
                held |-> FALSE, shown |-> FALSE, touchedAt |-> now]]
          /\ messages' = [m \in MessageIds |->
               IF m \in WholeSend(ms, ds, first) THEN [ms[m] EXCEPT !.delivery = d] ELSE ms[m]]
    BY <1>2 DEF HandOut, FirstInLine, Waiting
  <2>2. ms[first].batch \in 0..MaxBatches
    BY DEF Messages, MessageRow
  <2>3. MessageScope(ms, first) \in Scopes
    BY MessageScopeType
  <2>4. 1 \in 0..MaxClaims
    BY BoundsAssumption
  <2>5. [state |-> "inflight", scope |-> MessageScope(ms, first),
         batch |-> ms[first].batch, session |-> session, token |-> 1,
         held |-> FALSE, shown |-> FALSE, touchedAt |-> now] \in DeliveryRow
    BY <2>2, <2>3, <2>4 DEF DeliveryRow
  <2>6. deliveries' \in Deliveries
    BY <2>1, <2>5 DEF Deliveries
  <2>7. d \in 0..MaxDeliveries
    BY BoundsAssumption DEF DeliveryIds
  <2>8. ASSUME NEW m \in MessageIds PROVE [ms[m] EXCEPT !.delivery = d] \in MessageRow
    <3>1. ms[m] \in MessageRow
      BY DEF Messages
    <3> QED
      BY <3>1, <2>7 DEF MessageRow
  <2>9. messages' \in Messages
    BY <2>1, <2>8 DEF Messages
  <2> QED
    BY <2>6, <2>9
<1> QED
  BY <1>1, <1>2 DEF ClaimFrom

--------------------------------------------------------------------------------
(* Type correctness.                                                          *)

\* The empty tables are tables.
LEMMA InitType == Init => TypeOK
<1> SUFFICES ASSUME Init PROVE TypeOK
  OBVIOUS
<1>1. SomeThread \in Threads /\ ThreadScope[SomeThread] \in Scopes
  BY ThreadScopeAssumption DEF SomeThread
<1>2. /\ 0 \in 0..MaxNow /\ 0 \in 0..MaxBatches /\ 0 \in 0..MaxMessages
      /\ 0 \in 0..MaxDeliveries /\ 0 \in 0..MaxClaims
  BY BoundsAssumption
<1>3. scopes \in [Scopes -> ScopeRow]
  BY <1>2 DEF Init, ScopeRow
<1>4. batches \in [BatchIds -> BatchRow]
  BY <1>1 DEF Init, BatchRow
<1>5. messages \in [MessageIds -> MessageRow]
  BY <1>1, <1>2 DEF Init, MessageRow
<1>6. deliveries \in [DeliveryIds -> DeliveryRow]
  BY <1>1, <1>2 DEF Init, DeliveryRow
<1> QED
  BY <1>2, <1>3, <1>4, <1>5, <1>6 DEF Init, TypeOK

\* Writing and sending keep the types.
LEMMA WritesType == TypeOK /\ Writes => TypeOK'
<1> SUFFICES ASSUME TypeOK, Writes PROVE TypeOK'
  OBVIOUS
<1>0. ASSUME NEW m \in MessageIds, NEW t \in Threads, NEW b \in BatchIds,
             NEW p \in 1..MaxMessages, NEW state \in {"draft", "sent"}, NEW q \in 0..MaxNow,
             Insert(m, t, b, p, state, q)
      PROVE  messages' \in [MessageIds -> MessageRow]
  <2>1. b \in 0..MaxBatches /\ p \in 0..MaxMessages /\ 0 \in 0..MaxDeliveries
    BY BoundsAssumption DEF BatchIds
  <2>2. [state |-> state, thread |-> t, batch |-> b, pos |-> p, delivery |-> 0,
         queuedAt |-> q, line |-> FALSE, replies |-> 0] \in MessageRow
    BY <2>1 DEF MessageRow, LifecycleStates
  <2> QED
    BY <1>0, <2>2 DEF Insert, TypeOK
<1>1. ASSUME NEW t \in Threads, Draft(t) PROVE TypeOK'
  <2>1. PICK b \in BatchIds, m \in MessageIds :
          /\ \/ UNCHANGED batches
             \/ batches' = [batches EXCEPT ![b] = [state |-> "draft", scope |-> ThreadScope[t]]]
          /\ \E p \in 1..MaxMessages : Insert(m, t, b, p, "draft", 0)
          /\ UNCHANGED <<now, scopes, deliveries>>
    BY <1>1 DEF Draft
  <2>2. 0 \in 0..MaxNow
    BY BoundsAssumption
  <2>3. messages' \in [MessageIds -> MessageRow]
    BY <1>0, <2>1, <2>2
  <2>4. batches' \in [BatchIds -> BatchRow]
    BY <2>1, ThreadScopeAssumption DEF TypeOK, BatchRow
  <2> QED
    BY <2>1, <2>3, <2>4 DEF TypeOK
<1>2. ASSUME NEW t \in Threads, Post(t) PROVE TypeOK'
  <2>1. PICK b \in BatchIds, m \in MessageIds :
          /\ batches' = [batches EXCEPT ![b] = [state |-> "sent", scope |-> ThreadScope[t]]]
          /\ Insert(m, t, b, 1, "sent", now)
          /\ UNCHANGED <<now, scopes, deliveries>>
    BY <1>2 DEF Post
  <2>2. 1 \in 1..MaxMessages
    BY BoundsAssumption DEF MessageIds
  <2>3. messages' \in [MessageIds -> MessageRow]
    BY <1>0, <2>1, <2>2 DEF TypeOK
  <2>4. batches' \in [BatchIds -> BatchRow]
    BY <2>1, ThreadScopeAssumption DEF TypeOK, BatchRow
  <2> QED
    BY <2>1, <2>3, <2>4 DEF TypeOK
<1>3. ASSUME NEW m \in MessageIds, RemoveDraft(m) PROVE TypeOK'
  <2>1. messages[m] \in MessageRow /\ 0 \in 0..MaxBatches
    BY BoundsAssumption DEF TypeOK
  <2>2. messages' = [messages EXCEPT ![m] = [messages[m] EXCEPT !.state = "removed", !.batch = 0]]
    BY <1>3, <2>1 DEF RemoveDraft, TypeOK, MessageRow
  <2>3. [messages[m] EXCEPT !.state = "removed", !.batch = 0] \in MessageRow
    BY <2>1 DEF MessageRow
  <2> QED
    BY <1>3, <2>2, <2>3 DEF RemoveDraft, TypeOK
<1>4. ASSUME NEW b \in BatchIds, ReorderBatch(b) PROVE TypeOK'
  <2>1. Drafts(b) \subseteq 1..MaxMessages
    BY DEF Drafts, BatchMessages, MessageIds
  <2>2. Cardinality(Drafts(b)) \in 0..MaxMessages
    <3>1. IsFiniteSet(1..MaxMessages) /\ Cardinality(1..MaxMessages) = MaxMessages
      BY FS_Interval, BoundsAssumption
    <3>2. IsFiniteSet(Drafts(b)) /\ Cardinality(Drafts(b)) <= MaxMessages
      BY <2>1, <3>1, FS_Subset
    <3> QED
      BY <3>2, FS_CardinalityType, BoundsAssumption
  <2>3. PICK order \in [Drafts(b) -> 1..Cardinality(Drafts(b))] :
          messages' = [m \in MessageIds |->
            IF m \in Drafts(b) THEN [messages[m] EXCEPT !.pos = order[m]] ELSE messages[m]]
    BY <1>4 DEF ReorderBatch
  <2>4. ASSUME NEW m \in Drafts(b)
        PROVE  [messages[m] EXCEPT !.pos = order[m]] \in MessageRow
    <3>1. order[m] \in 0..MaxMessages
      BY <2>2, <2>3, BoundsAssumption
    <3>2. messages[m] \in MessageRow
      BY <2>1 DEF TypeOK, MessageIds
    <3> QED
      BY <3>1, <3>2 DEF MessageRow
  <2>5. messages' \in [MessageIds -> MessageRow]
    BY <2>3, <2>4 DEF TypeOK
  <2> QED
    BY <1>4, <2>5 DEF ReorderBatch, TypeOK
<1>5. ASSUME NEW b \in BatchIds, SendBatch(b) PROVE TypeOK'
  <2>1. ASSUME NEW m \in MessageIds
        PROVE  [messages[m] EXCEPT !.state = "sent", !.queuedAt = now] \in MessageRow
    <3>1. messages[m] \in MessageRow /\ now \in 0..MaxNow
      BY DEF TypeOK
    <3> QED
      BY <3>1 DEF MessageRow, LifecycleStates
  <2>2. messages' \in [MessageIds -> MessageRow]
    BY <1>5, <2>1 DEF SendBatch, TypeOK
  <2>3. batches' \in [BatchIds -> BatchRow]
    BY <1>5 DEF SendBatch, MarkSent, TypeOK, BatchRow
  <2> QED
    BY <1>5, <2>2, <2>3 DEF SendBatch, TypeOK
<1> QED
  BY <1>1, <1>2, <1>3, <1>4, <1>5 DEF Writes

\* Claims keep the types.
LEMMA ClaimsType == TypeOK /\ Claims => TypeOK'
<1> SUFFICES ASSUME TypeOK, NEW session \in Sessions, NEW may \in SUBSET Scopes,
                    NEW present \in SUBSET Sessions, Claim(session, may, present)
             PROVE  TypeOK'
  BY DEF Claims
<1>1. messages \in Messages /\ deliveries \in Deliveries
  BY DEF TypeOK, Messages, Deliveries
<1>2. ASSUME messages' \in Messages, deliveries' \in Deliveries,
             scopes' \in [Scopes -> ScopeRow], UNCHANGED <<now, batches>>
      PROVE  TypeOK'
  BY <1>2 DEF TypeOK, Messages, Deliveries
<1>3. CASE ClaimOwn(session, may, present)
  BY <1>1, <1>2, <1>3, ClaimFromType DEF ClaimOwn, TypeOK
<1>4. CASE ClaimTakeover(session, may, present)
  <2>1. PICK m \in MessageIds :
          LET scope == MessageScope(messages, m)
              ms == Requeued(scope, session)
              ds == MovedAway(scope, session)
              own == OwnScopes(may, session) \cup {scope}
          IN /\ scopes' = Owned(scope, session)
             /\ \/ ClaimFrom(ms, ds, own, session, present)
                \/ messages' = ms /\ deliveries' = ds
    BY <1>4 DEF ClaimTakeover, FirstInLine, TakeoverMessages
  <2> DEFINE scope == MessageScope(messages, m)
             ms == Requeued(scope, session)
             ds == MovedAway(scope, session)
  <2>2. scope \in Scopes
    BY <1>1, MessageScopeType
  <2>3. ms \in Messages /\ ds \in Deliveries
    BY <1>1, RequeuedType, MovedAwayType
  <2>4. scopes' \in [Scopes -> ScopeRow]
    BY <2>1, <2>2, OwnedType DEF TypeOK
  <2>5. messages' \in Messages /\ deliveries' \in Deliveries
    <3> HIDE DEF ms, ds
    <3> QED
      BY <2>1, <2>3, ClaimFromType DEF TypeOK, ms, ds
  <2> QED
    BY <1>2, <1>4, <2>4, <2>5 DEF ClaimTakeover
<1>5. CASE ClaimFree(session, may, present)
  BY <1>1, <1>2, <1>5, ClaimFromType DEF ClaimFree, TypeOK
<1> QED
  BY <1>3, <1>4, <1>5 DEF Claim

\* A message's move to another lifecycle state keeps its row's type.
LEMMA MoveType ==
  ASSUME TypeOK, NEW m \in MessageIds, NEW state \in LifecycleStates
  PROVE  [messages[m] EXCEPT !.state = state] \in MessageRow
<1>1. messages[m] \in MessageRow
  BY DEF TypeOK
<1> QED
  BY <1>1 DEF MessageRow

\* As does a move that also takes the message's line away.
LEMMA MoveUnlinedType ==
  ASSUME TypeOK, NEW m \in MessageIds, NEW state \in LifecycleStates
  PROVE  [messages[m] EXCEPT !.state = state, !.line = FALSE] \in MessageRow
<1>1. messages[m] \in MessageRow
  BY DEF TypeOK
<1> QED
  BY <1>1 DEF MessageRow

\* A delivery's move to another state keeps its row's type.
LEMMA EndType ==
  ASSUME TypeOK, NEW d \in DeliveryIds,
         NEW state \in {"done", "released", "moved", "interrupted"}
  PROVE  [deliveries[d] EXCEPT !.state = state] \in DeliveryRow
<1>1. deliveries[d] \in DeliveryRow
  BY DEF TypeOK
<1> QED
  BY <1>1 DEF DeliveryRow

\* Landing keeps a delivery's type.
LEMMA ShownType ==
  ASSUME TypeOK, NEW d \in DeliveryIds
  PROVE  ShownNow(deliveries[d]) \in DeliveryRow
<1>1. deliveries[d] \in DeliveryRow /\ now \in 0..MaxNow
  BY DEF TypeOK
<1> QED
  BY <1>1 DEF DeliveryRow, ShownNow

\* The harness's reports keep the types.
LEMMA ReportsType == TypeOK /\ Reports => TypeOK'
<1> SUFFICES ASSUME TypeOK, NEW session \in Sessions,
                    \/ \E d \in DeliveryIds, token \in 1..MaxClaims :
                         Held(session, d, token) \/ Landed(session, d, token)
                    \/ TurnEnded(session)
                    \/ \E named \in SUBSET DeliveryIds : TurnEndedFor(session, named)
             PROVE  TypeOK'
  BY DEF Reports
<1>a. "with_agent" \in LifecycleStates /\ "no_reply" \in LifecycleStates
  BY DEF LifecycleStates
<1>1. ASSUME NEW d \in DeliveryIds, NEW token, Held(session, d, token) PROVE TypeOK'
  <2>1. deliveries[d] \in DeliveryRow
    BY DEF TypeOK
  <2>2. [deliveries[d] EXCEPT !.held = TRUE] \in DeliveryRow
    BY <2>1 DEF DeliveryRow
  <2>3. deliveries' \in [DeliveryIds -> DeliveryRow]
    BY <1>1, <2>2 DEF Held, TypeOK
  <2> QED
    BY <1>1, <2>3 DEF Held, TypeOK
<1>2. ASSUME NEW d \in DeliveryIds, NEW token, Landed(session, d, token) PROVE TypeOK'
  <2>1. messages' \in [MessageIds -> MessageRow]
    BY <1>2, <1>a, MoveType DEF Landed, MoveMessages, TypeOK
  <2>2. deliveries' \in [DeliveryIds -> DeliveryRow]
    BY <1>2, ShownType DEF Landed, TypeOK
  <2> QED
    BY <1>2, <2>1, <2>2 DEF Landed, TypeOK
<1>3. ASSUME TurnEnded(session) PROVE TypeOK'
  <2>1. messages' \in [MessageIds -> MessageRow]
    BY <1>3, <1>a, MoveType DEF TurnEnded, MoveMessages, TypeOK
  <2>2. deliveries' \in [DeliveryIds -> DeliveryRow]
    BY <1>3, EndType DEF TurnEnded, TypeOK
  <2> QED
    BY <1>3, <2>1, <2>2 DEF TurnEnded, TypeOK
<1>4. ASSUME NEW named \in SUBSET DeliveryIds, TurnEndedFor(session, named) PROVE TypeOK'
  <2>1. messages' \in [MessageIds -> MessageRow]
    BY <1>4, <1>a, MoveType DEF TurnEndedFor, TypeOK
  <2>2. ASSUME NEW d \in DeliveryIds
        PROVE  [ShownNow(deliveries[d]) EXCEPT !.state = "done"] \in DeliveryRow
    BY ShownType DEF DeliveryRow
  <2>3. deliveries' \in [DeliveryIds -> DeliveryRow]
    BY <1>4, <2>2 DEF TurnEndedFor, TypeOK
  <2> QED
    BY <1>4, <2>1, <2>3 DEF TurnEndedFor, TypeOK
<1> QED
  BY <1>1, <1>2, <1>3, <1>4

\* Replies keep the types.
LEMMA RepliesType == TypeOK /\ Replies => TypeOK'
<1> SUFFICES ASSUME TypeOK, NEW session \in Sessions, NEW ids \in SUBSET MessageIds,
                    NEW to \in {"working", "answered", "declined", "failed"},
                    NEW text \in BOOLEAN, Reply(session, ids, to, text)
             PROVE  TypeOK'
  BY AcknowledgementsAssumption DEF Replies
<1> DEFINE moves == {m \in ids : ~Repeated(m, to)}
           landing == Landing(moves)
           touched == {messages[m].delivery : m \in {n \in moves : messages[n].state # "no_reply"}}
           threads == {messages[m].thread : m \in moves}
<1>1. PICK answers \in [threads -> moves] :
        messages' = [m \in MessageIds |->
          IF m \in moves
          THEN [messages[m] EXCEPT
                  !.state = to, !.line = (text /\ to = "working"),
                  !.replies = @ + IF /\ text /\ Final(to)
                                     /\ answers[messages[m].thread] = m
                                  THEN 1 ELSE 0]
          ELSE IF messages[m].delivery \in landing /\ messages[m].state = "sent"
          THEN [messages[m] EXCEPT !.state = "with_agent"]
          ELSE messages[m]]
  BY DEF Reply
<1>2. ASSUME NEW m \in MessageIds, NEW n \in {0, 1}, NEW line \in BOOLEAN
      PROVE  [messages[m] EXCEPT !.state = to, !.line = line,
                                 !.replies = messages[m].replies + n] \in MessageRow
  <2>1. messages[m] \in MessageRow /\ to \in LifecycleStates
    BY DEF TypeOK, LifecycleStates
  <2>2. messages[m].replies + n \in Nat
    <3>1. messages[m].replies \in Nat
      BY <2>1 DEF MessageRow
    <3> QED
      BY <3>1
  <2> QED
    BY <2>1, <2>2 DEF MessageRow
<1>3. ASSUME NEW m \in MessageIds PROVE messages'[m] \in MessageRow
  <2>1. CASE m \in moves
    <3> DEFINE n == IF text /\ Final(to) /\ answers[messages[m].thread] = m THEN 1 ELSE 0
               line == (text /\ to = "working")
    <3>1. n \in {0, 1} /\ line \in BOOLEAN
      OBVIOUS
    <3>2. messages'[m] = [messages[m] EXCEPT !.state = to, !.line = line,
                                             !.replies = messages[m].replies + n]
      BY <1>1, <2>1
    <3> HIDE DEF n, line
    <3>3. [messages[m] EXCEPT !.state = to, !.line = line,
                              !.replies = messages[m].replies + n] \in MessageRow
      BY <1>2, <3>1
    <3> QED
      BY <3>2, <3>3
  <2>2. CASE m \notin moves
    <3>1. "with_agent" \in LifecycleStates
      BY DEF LifecycleStates
    <3> QED
      BY <1>1, <2>2, <3>1, MoveType DEF TypeOK
  <2> QED
    BY <2>1, <2>2
<1>4. messages' \in [MessageIds -> MessageRow]
  BY <1>1, <1>3
<1>5. ASSUME NEW d \in DeliveryIds PROVE deliveries'[d] \in DeliveryRow
  <2> DEFINE held == deliveries[d].held /\ d \notin landing
             state == IF /\ deliveries[d].state = "inflight"
                         /\ \A m \in Carried(d) : messages'[m].state \notin Unsettled
                      THEN "done" ELSE deliveries[d].state
  <2>1. deliveries[d] \in DeliveryRow /\ now \in 0..MaxNow
    BY DEF TypeOK
  <2>2. \/ deliveries'[d] = deliveries[d]
        \/ deliveries'[d] = [deliveries[d] EXCEPT !.touchedAt = now, !.shown = TRUE,
                                                  !.held = held, !.state = state]
    BY DEF Reply
  <2>3. held \in BOOLEAN /\ state \in {"none", "inflight", "done", "released", "moved", "interrupted"}
    BY <2>1 DEF DeliveryRow
  <2> HIDE DEF held, state
  <2> QED
    BY <2>1, <2>2, <2>3 DEF DeliveryRow
<1>6. deliveries' \in [DeliveryIds -> DeliveryRow]
  BY <1>5 DEF Reply
<1> QED
  BY <1>4, <1>6 DEF Reply, TypeOK

\* Recovery keeps the types.
LEMMA RecoveryType == TypeOK /\ Recovery => TypeOK'
<1> SUFFICES ASSUME TypeOK, Recovery PROVE TypeOK'
  OBVIOUS
<1>a. "sent" \in LifecycleStates /\ "no_reply" \in LifecycleStates
  BY DEF LifecycleStates
<1>b. messages \in Messages /\ deliveries \in Deliveries
  BY DEF TypeOK, Messages, Deliveries
<1>1. ASSUME NEW scope \in Scopes, NEW session \in Sessions, SetOwner(scope, session)
      PROVE  TypeOK'
  BY <1>1, <1>b, OwnedType, RequeuedType, MovedAwayType
     DEF SetOwner, TypeOK, Messages, Deliveries
<1>2. ASSUME NEW d \in DeliveryIds, NEW session \in Sessions, MoveDelivery(d, session)
      PROVE  TypeOK'
  <2> DEFINE scope == deliveries[d].scope
  <2>1. scope \in Scopes
    BY DEF TypeOK, DeliveryRow
  <2>2. scopes' \in [Scopes -> ScopeRow] /\ messages' \in Messages
    BY <1>2, <1>b, <2>1, OwnedType, RequeuedType DEF MoveDelivery, TypeOK
  <2>3. MovedAway(scope, session) \in Deliveries
    BY <1>b, MovedAwayType
  <2>4. deliveries' \in Deliveries
    BY <1>2, <2>3, EndType DEF MoveDelivery, Deliveries
  <2> QED
    BY <1>2, <2>2, <2>4 DEF MoveDelivery, TypeOK, Messages, Deliveries
<1>3. ASSUME NEW d \in DeliveryIds, Release(d) PROVE TypeOK'
  <2>1. messages' \in [MessageIds -> MessageRow]
    BY <1>3, <1>a, MoveType DEF Release, TypeOK
  <2>2. deliveries' \in [DeliveryIds -> DeliveryRow]
    <3>1. [deliveries[d] EXCEPT !.state = "released"] \in DeliveryRow
      BY EndType
    <3> QED
      BY <1>3, <3>1 DEF Release, TypeOK
  <2> QED
    BY <1>3, <2>1, <2>2 DEF Release, TypeOK
<1>4. ASSUME Interrupt PROVE TypeOK'
  <2>1. messages' \in [MessageIds -> MessageRow]
    BY <1>4, <1>a, MoveUnlinedType DEF Interrupt, TypeOK
  <2>2. deliveries' \in [DeliveryIds -> DeliveryRow]
    BY <1>4, EndType DEF Interrupt, TypeOK
  <2> QED
    BY <1>4, <2>1, <2>2 DEF Interrupt, TypeOK
<1>5. ASSUME NEW ids \in SUBSET MessageIds, Resend(ids) PROVE TypeOK'
  <2>1. ASSUME NEW m \in MessageIds
        PROVE  [messages[m] EXCEPT !.state = "sent", !.delivery = 0,
                                   !.queuedAt = now, !.line = FALSE] \in MessageRow
    <3>1. messages[m] \in MessageRow /\ now \in 0..MaxNow /\ 0 \in 0..MaxDeliveries
      BY BoundsAssumption DEF TypeOK
    <3> QED
      BY <3>1, <1>a DEF MessageRow
  <2>2. messages' \in [MessageIds -> MessageRow]
    BY <1>5, <2>1 DEF Resend, TypeOK
  <2> QED
    BY <1>5, <2>2 DEF Resend, TypeOK
<1> QED
  BY <1>1, <1>2, <1>3, <1>4, <1>5 DEF Recovery

\* Every step keeps the types.
LEMMA NextType == TypeOK /\ [Next]_vars => TypeOK'
<1>1. TypeOK /\ Tick => TypeOK'
  BY BoundsAssumption DEF TypeOK, Tick
<1>2. TypeOK /\ UNCHANGED vars => TypeOK'
  BY DEF TypeOK, vars
<1> QED
  BY <1>1, <1>2, WritesType, ClaimsType, ReportsType, RepliesType, RecoveryType DEF Next

\* Whatever the callers interleave, the tables hold rows of their kind.
THEOREM TypeCorrect == Spec => []TypeOK
<1> QED
  BY InitType, NextType, PTL DEF Spec

--------------------------------------------------------------------------------
(* One holder per owned scope.                                                *)

\* OwnerHolds of given tables: a takeover's tables are not yet the variables.
HoldsIn(sc, ds) ==
  \A d \in DeliveryIds :
    ds[d].state = "inflight" /\ sc[ds[d].scope].owner # NoOwner
      => ds[d].session = sc[ds[d].scope].owner

\* After a change of owner, the new owner holds all that is in flight.
LEMMA OwnedHolds ==
  ASSUME TypeOK, OwnerHolds, NEW scope \in Scopes, NEW session
  PROVE  HoldsIn(Owned(scope, session), MovedAway(scope, session))
<1> SUFFICES ASSUME NEW d \in DeliveryIds,
                    MovedAway(scope, session)[d].state = "inflight",
                    Owned(scope, session)[MovedAway(scope, session)[d].scope].owner # NoOwner
             PROVE  MovedAway(scope, session)[d].session
                      = Owned(scope, session)[MovedAway(scope, session)[d].scope].owner
  BY DEF HoldsIn
<1>1. deliveries[d] \in DeliveryRow
  BY DEF TypeOK
<1>2. /\ MovedAway(scope, session)[d] = deliveries[d]
      /\ deliveries[d].scope = scope => deliveries[d].session = session
  BY <1>1 DEF MovedAway, DeliveryRow
<1>3. deliveries[d].scope \in Scopes
  BY <1>1 DEF DeliveryRow
<1>4. \A s \in Scopes :
        Owned(scope, session)[s] = IF s = scope THEN [owner |-> session, ownedAt |-> now]
                                                ELSE scopes[s]
  BY DEF Owned, TypeOK
<1>5. CASE deliveries[d].scope = scope
  BY <1>2, <1>3, <1>4, <1>5
<1>6. CASE deliveries[d].scope # scope
  BY <1>2, <1>3, <1>4, <1>6 DEF OwnerHolds, InFlight
<1> QED
  BY <1>5, <1>6

\* A claim from scopes that are the session's or nobody's keeps the rule.
LEMMA ClaimFromHolds ==
  ASSUME NEW sc \in [Scopes -> ScopeRow], NEW ms \in Messages, NEW ds \in Deliveries,
         NEW from \in SUBSET Scopes, NEW session \in Sessions, NEW present,
         HoldsIn(sc, ds), \A s \in from : sc[s].owner \in {NoOwner, session},
         ClaimFrom(ms, ds, from, session, present)
  PROVE  HoldsIn(sc, deliveries')
<1>1. PICK d \in DeliveryIds :
        /\ \A e \in DeliveryIds : e # d => deliveries'[e] = ds[e]
        /\ deliveries'[d].session = session
        /\ deliveries'[d].scope \in from
  <2>1. CASE TakeBack(ms, ds, from, session, present)
    <3>1. PICK d \in DeliveryIds :
            /\ ds[d].scope \in from
            /\ deliveries' = [ds EXCEPT ![d].session = session, ![d].token = @ + 1,
                                        ![d].touchedAt = now, ![d].held = FALSE]
      BY <2>1 DEF TakeBack, Retakable
    <3>2. deliveries'[d].session = session /\ deliveries'[d].scope = ds[d].scope
      BY <3>1 DEF Deliveries, DeliveryRow
    <3>3. \A e \in DeliveryIds : e # d => deliveries'[e] = ds[e]
      BY <3>1 DEF Deliveries
    <3> QED
      BY <3>1, <3>2, <3>3
  <2>2. CASE HandOut(ms, ds, from, session)
    <3>1. PICK first \in MessageIds, d \in DeliveryIds :
            /\ MessageScope(ms, first) \in from
            /\ deliveries' = [ds EXCEPT ![d] =
                 [state |-> "inflight", scope |-> MessageScope(ms, first),
                  batch |-> ms[first].batch, session |-> session, token |-> 1,
                  held |-> FALSE, shown |-> FALSE, touchedAt |-> now]]
      BY <2>2 DEF HandOut, FirstInLine, Waiting
    <3>2. /\ deliveries'[d].session = session
          /\ deliveries'[d].scope = MessageScope(ms, first)
      BY <3>1 DEF Deliveries
    <3>3. \A e \in DeliveryIds : e # d => deliveries'[e] = ds[e]
      BY <3>1 DEF Deliveries
    <3> QED
      BY <3>1, <3>2, <3>3
  <2> QED
    BY <2>1, <2>2 DEF ClaimFrom
<1> SUFFICES ASSUME NEW e \in DeliveryIds, deliveries'[e].state = "inflight",
                    sc[deliveries'[e].scope].owner # NoOwner
             PROVE  deliveries'[e].session = sc[deliveries'[e].scope].owner
  BY DEF HoldsIn
<1>2. CASE e = d
  BY <1>1, <1>2
<1>3. CASE e # d
  BY <1>1, <1>3 DEF HoldsIn
<1> QED
  BY <1>2, <1>3

\* A step that gives no delivery to anyone and names no owner keeps the rule.
LEMMA QuietHolds ==
  ASSUME TypeOK, OwnerHolds, scopes' = scopes,
         \A d \in DeliveryIds :
           deliveries'[d].state = "inflight" =>
             /\ deliveries[d].state = "inflight"
             /\ deliveries'[d].scope = deliveries[d].scope
             /\ deliveries'[d].session = deliveries[d].session
  PROVE  OwnerHolds'
BY DEF OwnerHolds, InFlight

\* Claims keep the rule, the takeover of a gone owner's scope included.
LEMMA ClaimsHold == TypeOK /\ OwnerHolds /\ Claims => OwnerHolds'
<1> SUFFICES ASSUME TypeOK, OwnerHolds, NEW session \in Sessions, NEW may \in SUBSET Scopes,
                    NEW present \in SUBSET Sessions, Claim(session, may, present)
             PROVE  OwnerHolds'
  BY DEF Claims
<1>1. /\ messages \in Messages /\ deliveries \in Deliveries
      /\ scopes \in [Scopes -> ScopeRow]
  BY DEF TypeOK, Messages, Deliveries
<1>2. HoldsIn(scopes, deliveries) /\ (HoldsIn(scopes', deliveries') => OwnerHolds')
  BY DEF HoldsIn, OwnerHolds, InFlight
<1>3. CASE ClaimOwn(session, may, present)
  <2>1. /\ OwnScopes(may, session) \in SUBSET Scopes
        /\ \A s \in OwnScopes(may, session) : scopes[s].owner \in {NoOwner, session}
    BY DEF OwnScopes
  <2>2. HoldsIn(scopes, deliveries')
    BY <1>1, <1>2, <1>3, <2>1, ClaimFromHolds DEF ClaimOwn
  <2> QED
    BY <1>2, <1>3, <2>2 DEF ClaimOwn
<1>4. CASE ClaimTakeover(session, may, present)
  <2>1. PICK m \in MessageIds :
          LET scope == MessageScope(messages, m)
              ms == Requeued(scope, session)
              ds == MovedAway(scope, session)
              own == OwnScopes(may, session) \cup {scope}
          IN /\ scopes' = Owned(scope, session)
             /\ \/ ClaimFrom(ms, ds, own, session, present)
                \/ messages' = ms /\ deliveries' = ds
    BY <1>4 DEF ClaimTakeover, FirstInLine, TakeoverMessages
  <2> DEFINE scope == MessageScope(messages, m)
             ms == Requeued(scope, session)
             ds == MovedAway(scope, session)
             own == OwnScopes(may, session) \cup {scope}
  <2>2. scope \in Scopes
    BY <1>1, MessageScopeType
  <2>3. ms \in Messages /\ ds \in Deliveries
    BY <1>1, RequeuedType, MovedAwayType
  <2>4. scopes' = Owned(scope, session) /\ Owned(scope, session) \in [Scopes -> ScopeRow]
    BY <1>1, <2>1, <2>2, OwnedType DEF TypeOK
  <2>5. own \in SUBSET Scopes
    BY <2>2 DEF OwnScopes
  <2>6. \A s \in own : Owned(scope, session)[s].owner \in {NoOwner, session}
    BY <1>1, <2>2, <2>5 DEF OwnScopes, Owned
  <2>7. HoldsIn(Owned(scope, session), ds)
    BY <2>2, OwnedHolds
  <2>8. ClaimFrom(ms, ds, own, session, present) \/ deliveries' = ds
    BY <2>1
  <2> HIDE DEF scope, ms, ds, own
  <2>9. HoldsIn(Owned(scope, session), deliveries')
    BY <2>3, <2>4, <2>5, <2>6, <2>7, <2>8, ClaimFromHolds
  <2> QED
    BY <1>2, <2>4, <2>9
<1>5. CASE ClaimFree(session, may, present)
  <2>1. /\ FreeScopes(may) \in SUBSET Scopes
        /\ \A s \in FreeScopes(may) : scopes[s].owner \in {NoOwner, session}
    BY DEF FreeScopes
  <2>2. HoldsIn(scopes, deliveries')
    BY <1>1, <1>2, <1>5, <2>1, ClaimFromHolds DEF ClaimFree
  <2> QED
    BY <1>2, <1>5, <2>2 DEF ClaimFree
<1> QED
  BY <1>3, <1>4, <1>5 DEF Claim

\* Owners named by hand and the other recoveries keep the rule.
LEMMA RecoveryHolds == TypeOK /\ OwnerHolds /\ Recovery => OwnerHolds'
<1> SUFFICES ASSUME TypeOK, OwnerHolds, Recovery PROVE OwnerHolds'
  OBVIOUS
<1>0. HoldsIn(scopes', deliveries') => OwnerHolds'
  BY DEF HoldsIn, OwnerHolds, InFlight
<1>1. ASSUME NEW scope \in Scopes, NEW session \in Sessions, SetOwner(scope, session)
      PROVE  OwnerHolds'
  BY <1>0, <1>1, OwnedHolds DEF SetOwner
<1>2. ASSUME NEW d \in DeliveryIds, NEW session \in Sessions, MoveDelivery(d, session)
      PROVE  OwnerHolds'
  <2> DEFINE scope == deliveries[d].scope
  <2>1. scope \in Scopes
    BY DEF TypeOK, DeliveryRow
  <2>2. HoldsIn(Owned(scope, session), MovedAway(scope, session))
    BY <2>1, OwnedHolds
  <2>3. \A e \in DeliveryIds : deliveries'[e].state = "inflight" =>
          deliveries'[e] = MovedAway(scope, session)[e]
    <3>1. ASSUME NEW e \in DeliveryIds, deliveries'[e].state = "inflight",
                 e = d, deliveries[d].state = "interrupted"
          PROVE  FALSE
      <4>1. deliveries[d] \in DeliveryRow
        BY DEF TypeOK
      <4>2. deliveries'[e] = [deliveries[d] EXCEPT !.state = "moved"]
        BY <1>2, <3>1 DEF MoveDelivery
      <4> QED
        BY <3>1, <4>1, <4>2 DEF DeliveryRow
    <3> QED
      BY <1>2, <3>1 DEF MoveDelivery
  <2>4. scopes' = Owned(scope, session)
    BY <1>2 DEF MoveDelivery
  <2> QED
    BY <1>0, <2>2, <2>3, <2>4 DEF HoldsIn
<1>3. ASSUME NEW d \in DeliveryIds, Release(d) PROVE OwnerHolds'
  <2>1. deliveries' = [deliveries EXCEPT ![d] = [deliveries[d] EXCEPT !.state = "released"]]
    BY <1>3 DEF Release
  <2>2. deliveries[d] \in DeliveryRow
    BY DEF TypeOK
  <2>3. \A e \in DeliveryIds : deliveries'[e].state = "inflight" => deliveries'[e] = deliveries[e]
    BY <2>1, <2>2 DEF TypeOK, DeliveryRow
  <2> QED
    BY <1>3, <2>3, QuietHolds DEF Release
<1>4. ASSUME Interrupt PROVE OwnerHolds'
  <2>1. \A d \in DeliveryIds : deliveries'[d].state = "inflight" => deliveries'[d] = deliveries[d]
    <3>1. ASSUME NEW d \in DeliveryIds, deliveries'[d].state = "inflight"
          PROVE  deliveries'[d] = deliveries[d]
      <4>1. deliveries[d] \in DeliveryRow
        BY DEF TypeOK
      <4> QED
        BY <1>4, <3>1, <4>1 DEF Interrupt, DeliveryRow
    <3> QED
      BY <3>1
  <2> QED
    BY <1>4, <2>1, QuietHolds DEF Interrupt
<1>5. ASSUME NEW ids \in SUBSET MessageIds, Resend(ids) PROVE OwnerHolds'
  BY <1>5, QuietHolds DEF Resend
<1> QED
  BY <1>1, <1>2, <1>3, <1>4, <1>5 DEF Recovery

\* A report that holds or shows a delivery leaves whose it is and its state.
LEMMA HeldRow ==
  ASSUME NEW row \in DeliveryRow
  PROVE  LET held == [row EXCEPT !.held = TRUE]
         IN /\ held.scope = row.scope /\ held.batch = row.batch /\ held.session = row.session
            /\ held.state = row.state /\ held.shown = row.shown
  BY DEF DeliveryRow

LEMMA ShownRow ==
  ASSUME NEW row \in DeliveryRow
  PROVE  /\ ShownNow(row).scope = row.scope /\ ShownNow(row).session = row.session
         /\ ShownNow(row).state = row.state
  BY DEF ShownNow, DeliveryRow

\* Reports and replies end deliveries; they give none to anyone.
LEMMA ReportsHold == TypeOK /\ OwnerHolds /\ (Reports \/ Replies) => OwnerHolds'
<1> SUFFICES ASSUME TypeOK, OwnerHolds, Reports \/ Replies PROVE OwnerHolds'
  OBVIOUS
<1>1. ASSUME scopes' = scopes,
             \A d \in DeliveryIds :
               /\ deliveries'[d].scope = deliveries[d].scope
               /\ deliveries'[d].session = deliveries[d].session
               /\ deliveries'[d].state \in {deliveries[d].state, "done"}
      PROVE  OwnerHolds'
  BY <1>1, QuietHolds
<1>2. \A d \in DeliveryIds : deliveries[d] \in DeliveryRow
  BY DEF TypeOK
<1>3. ASSUME NEW session \in Sessions, NEW d \in DeliveryIds, NEW token,
             Held(session, d, token) \/ Landed(session, d, token)
      PROVE  OwnerHolds'
  <2>1. \/ deliveries' = [deliveries EXCEPT ![d] = [deliveries[d] EXCEPT !.held = TRUE]]
        \/ deliveries' = [deliveries EXCEPT ![d] = ShownNow(deliveries[d])]
    BY <1>3 DEF Held, Landed
  <2>2. \A e \in DeliveryIds :
          /\ deliveries'[e].scope = deliveries[e].scope
          /\ deliveries'[e].session = deliveries[e].session
          /\ deliveries'[e].state = deliveries[e].state
    <3> TAKE e \in DeliveryIds
    <3>1. \/ deliveries'[e] = deliveries[e]
          \/ deliveries'[e] = [deliveries[e] EXCEPT !.held = TRUE]
          \/ deliveries'[e] = ShownNow(deliveries[e])
      BY <2>1 DEF TypeOK
    <3>2. deliveries[e] \in DeliveryRow
      BY <1>2
    <3>3. CASE deliveries'[e] = [deliveries[e] EXCEPT !.held = TRUE]
      BY <3>2, <3>3, HeldRow
    <3>4. CASE deliveries'[e] = ShownNow(deliveries[e])
      BY <3>2, <3>4, ShownRow
    <3> QED
      BY <3>1, <3>3, <3>4
  <2> QED
    BY <1>1, <1>3, <2>2 DEF Held, Landed
<1>4. ASSUME NEW session \in Sessions, TurnEnded(session) PROVE OwnerHolds'
  BY <1>1, <1>2, <1>4 DEF TurnEnded, DeliveryRow
<1>5. ASSUME NEW session \in Sessions, NEW named \in SUBSET DeliveryIds,
             TurnEndedFor(session, named)
      PROVE  OwnerHolds'
  BY <1>1, <1>2, <1>5 DEF TurnEndedFor, ShownNow, DeliveryRow
<1>6. ASSUME NEW session \in Sessions, NEW ids \in SUBSET MessageIds, NEW to, NEW text,
             Reply(session, ids, to, text)
      PROVE  OwnerHolds'
  <2>1. ASSUME NEW d \in DeliveryIds
        PROVE  /\ deliveries'[d].scope = deliveries[d].scope
               /\ deliveries'[d].session = deliveries[d].session
               /\ deliveries'[d].state \in {deliveries[d].state, "done"}
    <3> DEFINE landing == Landing({m \in ids : ~Repeated(m, to)})
               held == deliveries[d].held /\ d \notin landing
               state == IF /\ deliveries[d].state = "inflight"
                           /\ \A m \in Carried(d) : messages'[m].state \notin Unsettled
                        THEN "done" ELSE deliveries[d].state
    <3>1. \/ deliveries'[d] = deliveries[d]
          \/ deliveries'[d] = [deliveries[d] EXCEPT !.touchedAt = now, !.shown = TRUE,
                                                    !.held = held, !.state = state]
      BY <1>6 DEF Reply
    <3>2. state \in {deliveries[d].state, "done"}
      OBVIOUS
    <3> HIDE DEF held, state
    <3> QED
      BY <1>2, <3>1, <3>2 DEF DeliveryRow
  <2> QED
    BY <1>1, <1>6, <2>1 DEF Reply
<1> QED
  BY <1>3, <1>4, <1>5, <1>6 DEF Reports, Replies

\* Every step keeps the rule.
LEMMA NextHolds == TypeOK /\ OwnerHolds /\ [Next]_vars => OwnerHolds'
<1>1. TypeOK /\ OwnerHolds /\ (Writes \/ Tick \/ UNCHANGED vars) => OwnerHolds'
  <2> SUFFICES ASSUME TypeOK, OwnerHolds, Writes \/ Tick \/ UNCHANGED vars
               PROVE  UNCHANGED <<scopes, deliveries>>
    BY QuietHolds
  <2> QED
    BY DEF Writes, Draft, Post, RemoveDraft, ReorderBatch, SendBatch, Tick, vars
<1> QED
  BY <1>1, ClaimsHold, ReportsHold, RecoveryHolds DEF Next

\* Whatever a Claim's snapshot says, and however takeovers, late reports and
\* recoveries interleave: while a scope has an owner, every delivery in flight
\* from it is the owner's.
THEOREM OneHolder == Spec => []OwnerHolds
<1>1. Init => OwnerHolds
  BY DEF Init, OwnerHolds, InFlight
<1> QED
  BY <1>1, TypeCorrect, NextHolds, PTL DEF Spec
--------------------------------------------------------------------------------
(* What ties messages to deliveries.  None of these is inductive alone: a   *)
(* report trusts that what reached the agent reached it whole, a takeover   *)
(* that a message and its delivery are of one scope, and a new delivery     *)
(* that nothing names it yet.                                               *)

Open == {"with_agent", "working"}

\* OpenIsCarried of given tables.
OpenTied(ms, ds) ==
  \A m \in MessageIds : ms[m].state \in Open =>
    /\ ms[m].delivery # 0
    /\ ds[ms[m].delivery].state = "inflight" /\ ds[ms[m].delivery].shown = TRUE

\* ShownIsWhole of given tables.
SentTied(ms, ds) ==
  \A m \in MessageIds :
    (ms[m].state = "sent" /\ ms[m].delivery # 0 /\ ds[ms[m].delivery].state = "inflight")
      => ds[ms[m].delivery].shown = FALSE

\* What a message names as its delivery was handed out, of its Send and scope;
\* what was never sent names none.
CarriedTied(ms, ds) ==
  \A m \in MessageIds :
    /\ ms[m].delivery # 0 =>
         /\ ds[ms[m].delivery].state # "none"
         /\ ds[ms[m].delivery].batch = ms[m].batch
         /\ ds[ms[m].delivery].scope = MessageScope(ms, m)
    /\ ms[m].state \in {"none", "removed", "draft"} => ms[m].delivery = 0

\* A message's batch is there, and of its scope.
BatchTied(bs, ms) ==
  \A m \in MessageIds :
    /\ ms[m].batch # 0 =>
         bs[ms[m].batch].state # "none" /\ bs[ms[m].batch].scope = MessageScope(ms, m)
    /\ ms[m].state \notin {"none", "removed"} => ms[m].batch # 0

\* InFlightHasOpen of given tables.
FlightTied(ms, ds) ==
  \A d \in DeliveryIds : ds[d].state = "inflight" =>
    \E m \in MessageIds : ms[m].delivery = d /\ ms[m].state \in Unsettled

Tied(bs, ms, ds) ==
  /\ OpenTied(ms, ds) /\ SentTied(ms, ds) /\ CarriedTied(ms, ds)
  /\ BatchTied(bs, ms) /\ FlightTied(ms, ds)

\* A delivery that is named is one of the table's.
LEMMA DeliveryIdOf ==
  ASSUME NEW ms \in Messages, NEW m \in MessageIds, ms[m].delivery # 0
  PROVE  ms[m].delivery \in DeliveryIds
<1>1. ms[m].delivery \in 0..MaxDeliveries
  BY DEF Messages, MessageRow
<1> QED
  BY <1>1, BoundsAssumption DEF DeliveryIds

\* A step that moves states only: who carries what, and where, is kept.
SameMessages(ms, ms2) ==
  \A m \in MessageIds :
    /\ ms2[m].thread = ms[m].thread /\ ms2[m].batch = ms[m].batch
    /\ ms2[m].delivery = ms[m].delivery
    /\ \/ ms2[m].state = ms[m].state
       \/ ms[m].state \in LifecycleStates /\ ms2[m].state \in LifecycleStates

SameDeliveries(ds, ds2) ==
  \A d \in DeliveryIds :
    /\ ds2[d].scope = ds[d].scope /\ ds2[d].batch = ds[d].batch
    /\ ds[d].state # "none" => ds2[d].state # "none"

LEMMA FrameTied ==
  ASSUME NEW bs, NEW ms \in Messages, NEW ms2, NEW ds, NEW ds2,
         CarriedTied(ms, ds), BatchTied(bs, ms),
         SameMessages(ms, ms2), SameDeliveries(ds, ds2)
  PROVE  CarriedTied(ms2, ds2) /\ BatchTied(bs, ms2)
<1>1. {"none", "removed", "draft"} \cap LifecycleStates = {}
  BY DEF LifecycleStates
<1>2. CarriedTied(ms2, ds2)
  BY <1>1, DeliveryIdOf DEF CarriedTied, MessageScope, SameMessages, SameDeliveries
<1>3. BatchTied(bs, ms2)
  BY <1>1 DEF BatchTied, MessageScope, SameMessages
<1> QED
  BY <1>2, <1>3

LEMMA UnsettledAre ==
  /\ "sent" \in Unsettled /\ Open \subseteq Unsettled /\ "no_reply" \notin Unsettled
  /\ "sent" \notin Open /\ "no_reply" \notin Open
  /\ \A st \in Unsettled : st = "sent" \/ st \in Open
  /\ Unsettled \subseteq LifecycleStates /\ "no_reply" \in LifecycleStates
  /\ "sent" \in LifecycleStates /\ "no_reply" # "sent"
  BY DEF Unsettled, Open, LifecycleStates

LEMMA InitTied == Init => Tied(batches, messages, deliveries)
  BY DEF Init, Tied, OpenTied, SentTied, CarriedTied, BatchTied, FlightTied, Open

\* A change of owner: an open message whose delivery is moved is of the same
\* scope, and waits again.
LEMMA OwnerTied ==
  ASSUME TypeOK, Tied(batches, messages, deliveries), NEW scope \in Scopes, NEW session
  PROVE  Tied(batches, Requeued(scope, session), MovedAway(scope, session))
<1> DEFINE ms == Requeued(scope, session)
           ds == MovedAway(scope, session)
           taken(m) == /\ messages[m].state \in Unsettled \cup {"no_reply"}
                       /\ MessageScope(messages, m) = scope
                       /\ CarriedByOther(messages, deliveries, m, session)
           moved(d) == /\ deliveries[d].state = "inflight"
                       /\ deliveries[d].scope = scope
                       /\ deliveries[d].session # session
<1>0. messages \in Messages /\ \A m \in MessageIds : messages[m] \in MessageRow
  BY DEF TypeOK, Messages
<1>1. ASSUME NEW m \in MessageIds
      PROVE  /\ ms[m].thread = messages[m].thread /\ ms[m].batch = messages[m].batch
             /\ ms[m].delivery = messages[m].delivery
             /\ taken(m) => ms[m].state = "sent"
             /\ ~taken(m) => ms[m].state = messages[m].state
  BY <1>0 DEF Requeued, MessageRow
<1>2. ASSUME NEW d \in DeliveryIds
      PROVE  /\ ds[d].scope = deliveries[d].scope /\ ds[d].batch = deliveries[d].batch
             /\ ds[d].shown = deliveries[d].shown
             /\ moved(d) => ds[d].state = "moved"
             /\ ~moved(d) => ds[d].state = deliveries[d].state
  BY DEF MovedAway, TypeOK, DeliveryRow
<1>3. ASSUME NEW m \in MessageIds, messages[m].delivery # 0
      PROVE  /\ messages[m].delivery \in DeliveryIds
             /\ messages[m].state \in Unsettled /\ moved(messages[m].delivery) => taken(m)
             /\ taken(m) => ds[messages[m].delivery].state # "inflight"
  <2>1. messages[m].delivery \in DeliveryIds
    BY <1>0, <1>3, DeliveryIdOf
  <2>2. deliveries[messages[m].delivery].scope = MessageScope(messages, m)
    BY <1>3 DEF Tied, CarriedTied
  <2> QED
    BY <1>2, <1>3, <2>1, <2>2 DEF CarriedByOther
<1> HIDE DEF ms, ds, taken, moved
<1>4. OpenTied(ms, ds)
  BY <1>1, <1>2, <1>3, UnsettledAre DEF Tied, OpenTied
<1>5. SentTied(ms, ds)
  BY <1>1, <1>2, <1>3 DEF Tied, SentTied
<1>6. FlightTied(ms, ds)
  <2>1. ASSUME NEW d \in DeliveryIds, ds[d].state = "inflight"
        PROVE  \E m \in MessageIds : ms[m].delivery = d /\ ms[m].state \in Unsettled
    <3>1. deliveries[d].state = "inflight"
      BY <1>2, <2>1
    <3>2. PICK m \in MessageIds : messages[m].delivery = d /\ messages[m].state \in Unsettled
      BY <3>1 DEF Tied, FlightTied
    <3> QED
      BY <1>1, <3>2, UnsettledAre
  <2> QED
    BY <2>1 DEF FlightTied
<1>7. \A m \in MessageIds : taken(m) => messages[m].state \in LifecycleStates
  BY UnsettledAre DEF taken
<1>8. CarriedTied(ms, ds) /\ BatchTied(batches, ms)
  <2>1. CarriedTied(messages, deliveries) /\ BatchTied(batches, messages)
    BY DEF Tied
  <2>2. SameMessages(messages, ms)
    BY <1>1, <1>7, UnsettledAre DEF SameMessages
  <2>3. SameDeliveries(deliveries, ds)
    BY <1>2 DEF SameDeliveries
  <2> QED
    BY <1>0, <2>1, <2>2, <2>3, FrameTied
<1> QED
  BY <1>4, <1>5, <1>6, <1>8 DEF Tied, ms, ds

\* A claim of given tables: what is taken back keeps what it carries; a new
\* delivery carries what waited of one Send, and nothing named it before.
LEMMA ClaimFromTied ==
  ASSUME NEW bs, NEW ms \in Messages, NEW ds \in Deliveries, Tied(bs, ms, ds),
         NEW from, NEW session, NEW present, ClaimFrom(ms, ds, from, session, present)
  PROVE  Tied(bs, messages', deliveries')
<1>0. /\ OpenTied(ms, ds) /\ SentTied(ms, ds) /\ CarriedTied(ms, ds)
      /\ BatchTied(bs, ms) /\ FlightTied(ms, ds)
  BY DEF Tied
<1>1. CASE TakeBack(ms, ds, from, session, present)
  <2>1. PICK d \in DeliveryIds :
          /\ deliveries' = [ds EXCEPT ![d].session = session, ![d].token = @ + 1,
                                      ![d].touchedAt = now, ![d].held = FALSE]
          /\ messages' = ms
    BY <1>1 DEF TakeBack, Retakable
  <2>2. ds[d] \in DeliveryRow /\ ds \in [DeliveryIds -> DeliveryRow]
    BY DEF Deliveries
  <2>3. \A e \in DeliveryIds : e # d => deliveries'[e] = ds[e]
    BY <2>1, <2>2
  <2>4. \A e \in DeliveryIds :
          /\ deliveries'[e].scope = ds[e].scope /\ deliveries'[e].batch = ds[e].batch
          /\ deliveries'[e].state = ds[e].state /\ deliveries'[e].shown = ds[e].shown
    <3>1. /\ deliveries'[d].scope = ds[d].scope /\ deliveries'[d].batch = ds[d].batch
          /\ deliveries'[d].state = ds[d].state /\ deliveries'[d].shown = ds[d].shown
      BY <2>1, <2>2 DEF DeliveryRow
    <3> QED
      BY <2>3, <3>1
  <2>5. CarriedTied(messages', deliveries') /\ BatchTied(bs, messages')
    <3>1. SameMessages(ms, messages') /\ SameDeliveries(ds, deliveries')
      BY <2>1, <2>4 DEF SameMessages, SameDeliveries
    <3> QED
      BY <1>0, <3>1, FrameTied
  <2>6. OpenTied(messages', deliveries') /\ SentTied(messages', deliveries')
    <3>1. \A m \in MessageIds : ms[m].delivery # 0 => ms[m].delivery \in DeliveryIds
      BY DeliveryIdOf
    <3>2. OpenTied(ms, deliveries')
      BY <1>0, <2>4, <3>1 DEF OpenTied
    <3>3. SentTied(ms, deliveries')
      BY <1>0, <2>4, <3>1 DEF SentTied
    <3> QED
      BY <2>1, <3>2, <3>3
  <2>7. FlightTied(messages', deliveries')
    BY <1>0, <2>1, <2>4 DEF FlightTied
  <2> QED
    BY <2>5, <2>6, <2>7 DEF Tied
<1>2. CASE HandOut(ms, ds, from, session)
  <2>1. PICK first \in MessageIds, d \in DeliveryIds :
          /\ Queued(ms, ds, first)
          /\ ds[d].state = "none"
          /\ deliveries' = [ds EXCEPT ![d] =
               [state |-> "inflight", scope |-> MessageScope(ms, first),
                batch |-> ms[first].batch, session |-> session, token |-> 1,
                held |-> FALSE, shown |-> FALSE, touchedAt |-> now]]
          /\ messages' = [m \in MessageIds |->
               IF m \in WholeSend(ms, ds, first) THEN [ms[m] EXCEPT !.delivery = d] ELSE ms[m]]
    BY <1>2 DEF HandOut, FirstInLine, Waiting, FreshId
  <2> DEFINE send(m) == Queued(ms, ds, m) /\ ms[m].batch = ms[first].batch
  <2>2. /\ deliveries'[d].state = "inflight" /\ deliveries'[d].scope = MessageScope(ms, first)
        /\ deliveries'[d].batch = ms[first].batch /\ deliveries'[d].shown = FALSE
        /\ \A e \in DeliveryIds : e # d => deliveries'[e] = ds[e]
    BY <2>1 DEF Deliveries
  <2>3. ASSUME NEW m \in MessageIds
        PROVE  /\ messages'[m].state = ms[m].state /\ messages'[m].batch = ms[m].batch
               /\ messages'[m].thread = ms[m].thread
               /\ send(m) => messages'[m].delivery = d
               /\ ~send(m) => messages'[m].delivery = ms[m].delivery
    <3>1. ms[m] \in MessageRow
      BY DEF Messages
    <3>2. send(m) <=> m \in WholeSend(ms, ds, first)
      BY DEF WholeSend
    <3> QED
      BY <2>1, <3>1, <3>2 DEF MessageRow
  <2>4. \A m \in MessageIds : ms[m].delivery # d
    BY <1>0, <2>1 DEF CarriedTied, DeliveryIds
  <2>5. \A m \in MessageIds : send(m) =>
          /\ ms[m].state = "sent"
          /\ ms[m].delivery # 0 => ds[ms[m].delivery].state # "inflight"
    BY DEF Queued
  <2>6. \A m \in MessageIds : send(m) => MessageScope(ms, m) = MessageScope(ms, first)
    <3>1. ASSUME NEW m \in MessageIds, send(m)
          PROVE  MessageScope(ms, m) = MessageScope(ms, first)
      <4>1. ms[m].batch # 0 /\ ms[first].batch = ms[m].batch
        BY <1>0, <2>5, <3>1 DEF BatchTied
      <4> QED
        BY <1>0, <4>1 DEF BatchTied
    <3> QED
      BY <3>1
  <2>7. send(first)
    BY <2>1
  <2>8. \A m \in MessageIds : MessageScope(messages', m) = MessageScope(ms, m)
    BY <2>3 DEF MessageScope
  <2>9. d # 0
    BY DEF DeliveryIds
  <2> HIDE DEF send
  <2>10. CarriedTied(messages', deliveries')
    <3>1. ASSUME NEW m \in MessageIds, messages'[m].delivery # 0
          PROVE  /\ deliveries'[messages'[m].delivery].state # "none"
                 /\ deliveries'[messages'[m].delivery].batch = messages'[m].batch
                 /\ deliveries'[messages'[m].delivery].scope = MessageScope(messages', m)
      <4>1. CASE send(m)
        <5>1. ms[m].batch = ms[first].batch
          BY <4>1 DEF send
        <5> QED
          BY <2>2, <2>3, <2>6, <2>8, <4>1, <5>1
      <4>2. CASE ~send(m)
        <5>1. ms[m].delivery # 0 /\ ms[m].delivery # d /\ ms[m].delivery \in DeliveryIds
          BY <2>3, <2>4, <3>1, <4>2, DeliveryIdOf
        <5> QED
          BY <1>0, <2>2, <2>3, <2>8, <4>2, <5>1 DEF CarriedTied
      <4> QED
        BY <4>1, <4>2
    <3>2. ASSUME NEW m \in MessageIds, messages'[m].state \in {"none", "removed", "draft"}
          PROVE  messages'[m].delivery = 0
      BY <1>0, <2>3, <2>5, <3>2 DEF CarriedTied
    <3> QED
      BY <3>1, <3>2 DEF CarriedTied
  <2>11. BatchTied(bs, messages')
    BY <1>0, <2>3, <2>8 DEF BatchTied
  <2>12. OpenTied(messages', deliveries')
    <3>1. ASSUME NEW m \in MessageIds, messages'[m].state \in Open
          PROVE  /\ messages'[m].delivery # 0
                 /\ deliveries'[messages'[m].delivery].state = "inflight"
                 /\ deliveries'[messages'[m].delivery].shown = TRUE
      <4>1. ms[m].state \in Open /\ messages'[m].delivery = ms[m].delivery
        BY <2>3, <2>5, <3>1, UnsettledAre
      <4>2. ms[m].delivery # 0 /\ ms[m].delivery # d /\ ms[m].delivery \in DeliveryIds
        BY <1>0, <2>4, <4>1, DeliveryIdOf DEF OpenTied
      <4> QED
        BY <1>0, <2>2, <4>1, <4>2 DEF OpenTied
    <3> QED
      BY <3>1 DEF OpenTied
  <2>13. SentTied(messages', deliveries')
    <3>1. ASSUME NEW m \in MessageIds, messages'[m].state = "sent", messages'[m].delivery # 0,
                 deliveries'[messages'[m].delivery].state = "inflight"
          PROVE  deliveries'[messages'[m].delivery].shown = FALSE
      <4>1. CASE send(m)
        BY <2>2, <2>3, <4>1
      <4>2. CASE ~send(m)
        <5>1. ms[m].delivery # 0 /\ ms[m].delivery # d /\ ms[m].delivery \in DeliveryIds
          BY <2>3, <2>4, <3>1, <4>2, DeliveryIdOf
        <5> QED
          BY <1>0, <2>2, <2>3, <3>1, <4>2, <5>1 DEF SentTied
      <4> QED
        BY <4>1, <4>2
    <3> QED
      BY <3>1 DEF SentTied
  <2>14. FlightTied(messages', deliveries')
    <3>1. ASSUME NEW e \in DeliveryIds, deliveries'[e].state = "inflight"
          PROVE  \E m \in MessageIds : messages'[m].delivery = e /\ messages'[m].state \in Unsettled
      <4>1. CASE e = d
        BY <2>3, <2>5, <2>7, <4>1, UnsettledAre
      <4>2. CASE e # d
        <5>1. ds[e].state = "inflight"
          BY <2>2, <3>1, <4>2
        <5>2. PICK m \in MessageIds : ms[m].delivery = e /\ ms[m].state \in Unsettled
          BY <1>0, <5>1 DEF FlightTied
        <5>3. ~send(m)
          BY <2>5, <5>1, <5>2 DEF DeliveryIds
        <5> QED
          BY <2>3, <5>2, <5>3
      <4> QED
        BY <4>1, <4>2
    <3> QED
      BY <3>1 DEF FlightTied
  <2> QED
    BY <2>10, <2>11, <2>12, <2>13, <2>14 DEF Tied
<1> QED
  BY <1>1, <1>2 DEF ClaimFrom

\* Claims, a takeover's change of owner first.
LEMMA ClaimsTied ==
  TypeOK /\ Tied(batches, messages, deliveries) /\ Claims
    => Tied(batches', messages', deliveries')
<1> SUFFICES ASSUME TypeOK, Tied(batches, messages, deliveries),
                    NEW session \in Sessions, NEW may \in SUBSET Scopes,
                    NEW present \in SUBSET Sessions, Claim(session, may, present)
             PROVE  Tied(batches', messages', deliveries')
  BY DEF Claims
<1>1. messages \in Messages /\ deliveries \in Deliveries
  BY DEF TypeOK, Messages, Deliveries
<1>2. batches' = batches
  BY DEF Claim, ClaimOwn, ClaimTakeover, ClaimFree
<1>3. CASE ClaimOwn(session, may, present)
  BY <1>1, <1>2, <1>3, ClaimFromTied DEF ClaimOwn
<1>4. CASE ClaimTakeover(session, may, present)
  <2>1. PICK m \in MessageIds :
          LET scope == MessageScope(messages, m)
              ms == Requeued(scope, session)
              ds == MovedAway(scope, session)
              own == OwnScopes(may, session) \cup {scope}
          IN \/ ClaimFrom(ms, ds, own, session, present)
             \/ messages' = ms /\ deliveries' = ds
    BY <1>4 DEF ClaimTakeover, FirstInLine, TakeoverMessages
  <2> DEFINE scope == MessageScope(messages, m)
             ms == Requeued(scope, session)
             ds == MovedAway(scope, session)
             own == OwnScopes(may, session) \cup {scope}
  <2>2. scope \in Scopes
    BY <1>1, MessageScopeType
  <2>3. ms \in Messages /\ ds \in Deliveries
    BY <1>1, RequeuedType, MovedAwayType
  <2>4. Tied(batches, ms, ds)
    BY <2>2, OwnerTied
  <2>5. ClaimFrom(ms, ds, own, session, present) \/ (messages' = ms /\ deliveries' = ds)
    BY <2>1
  <2> HIDE DEF scope, ms, ds, own
  <2> QED
    BY <1>2, <2>3, <2>4, <2>5, ClaimFromTied
<1>5. CASE ClaimFree(session, may, present)
  BY <1>1, <1>2, <1>5, ClaimFromTied DEF ClaimFree
<1> QED
  BY <1>3, <1>4, <1>5 DEF Claim

\* Writing and sending touch only rows that no delivery carries.
LEMMA WritesTied ==
  TypeOK /\ Tied(batches, messages, deliveries) /\ Writes
    => Tied(batches', messages', deliveries')
<1> SUFFICES ASSUME TypeOK, Tied(batches, messages, deliveries), Writes
             PROVE  Tied(batches', messages', deliveries')
  OBVIOUS
<1>0. /\ OpenTied(messages, deliveries) /\ SentTied(messages, deliveries)
      /\ CarriedTied(messages, deliveries)
      /\ BatchTied(batches, messages) /\ FlightTied(messages, deliveries)
  BY DEF Tied
<1>1. /\ messages \in [MessageIds -> MessageRow] /\ batches \in [BatchIds -> BatchRow]
      /\ \A m \in MessageIds : messages[m] \in MessageRow
      /\ \A b \in BatchIds : batches[b] \in BatchRow
  BY DEF TypeOK
<1>2. /\ "sent" \in Unsettled /\ "sent" \notin Open /\ "draft" \notin Open
      /\ "removed" \notin Open /\ "none" \notin Unsettled /\ "draft" \notin Unsettled
  BY DEF Unsettled, Open
\* Rows change that carry nothing, and carry nothing then.
<1>3. ASSUME deliveries' = deliveries,
             \A m \in MessageIds :
               \/ messages'[m] = messages[m]
               \/ /\ messages[m].state \in {"none", "draft"}
                  /\ messages'[m].state \in {"draft", "removed", "sent"}
                  /\ messages'[m].delivery = 0
      PROVE  /\ OpenTied(messages', deliveries') /\ SentTied(messages', deliveries')
             /\ CarriedTied(messages', deliveries') /\ FlightTied(messages', deliveries')
  <2>1. OpenTied(messages', deliveries')
    BY <1>0, <1>2, <1>3 DEF OpenTied
  <2>2. SentTied(messages', deliveries')
    BY <1>0, <1>3 DEF SentTied
  <2>3. CarriedTied(messages', deliveries')
    BY <1>0, <1>3 DEF CarriedTied, MessageScope
  <2>4. FlightTied(messages', deliveries')
    <3>1. ASSUME NEW d \in DeliveryIds, deliveries'[d].state = "inflight"
          PROVE  \E m \in MessageIds : messages'[m].delivery = d /\ messages'[m].state \in Unsettled
      <4>1. PICK m \in MessageIds : messages[m].delivery = d /\ messages[m].state \in Unsettled
        BY <1>0, <1>3, <3>1 DEF FlightTied
      <4>2. messages'[m] = messages[m]
        BY <1>2, <1>3, <4>1
      <4> QED
        BY <4>1, <4>2
    <3> QED
      BY <3>1 DEF FlightTied
  <2> QED
    BY <2>1, <2>2, <2>3, <2>4
\* A new row joins a batch of its scope; a fresh batch had no message.
<1>4. ASSUME NEW t \in Threads, NEW b \in BatchIds, NEW m \in MessageIds,
             messages[m].state = "none", messages'[m].state \in {"draft", "sent"},
             messages'[m].thread = t, messages'[m].batch = b, messages'[m].delivery = 0,
             \A n \in MessageIds : n # m => messages'[n] = messages[n],
             deliveries' = deliveries,
             batches'[b].state # "none", batches'[b].scope = ThreadScope[t],
             \A c \in BatchIds : batches[c].state # "none" => batches'[c] = batches[c]
      PROVE  Tied(batches', messages', deliveries')
  <2>2. /\ OpenTied(messages', deliveries') /\ SentTied(messages', deliveries')
        /\ CarriedTied(messages', deliveries') /\ FlightTied(messages', deliveries')
    BY <1>3, <1>4
  <2>4. b # 0 /\ \A n \in MessageIds : messages[n].batch # 0 => messages[n].batch \in BatchIds
    BY <1>1, BoundsAssumption DEF BatchIds, MessageRow
  <2>5. BatchTied(batches', messages')
    <3>1. ASSUME NEW n \in MessageIds
          PROVE  /\ messages'[n].batch # 0 =>
                      /\ batches'[messages'[n].batch].state # "none"
                      /\ batches'[messages'[n].batch].scope = MessageScope(messages', n)
                 /\ messages'[n].state \notin {"none", "removed"} => messages'[n].batch # 0
      <4>1. CASE n = m
        BY <1>4, <2>4, <4>1 DEF MessageScope
      <4>2. CASE n # m
        BY <1>0, <1>4, <2>4, <4>2 DEF MessageScope, BatchTied
      <4> QED
        BY <4>1, <4>2
    <3> QED
      BY <3>1 DEF BatchTied
  <2> QED
    BY <2>2, <2>5 DEF Tied
<1>5. ASSUME NEW t \in Threads, Draft(t) PROVE Tied(batches', messages', deliveries')
  <2>1. PICK b \in BatchIds, m \in MessageIds, p \in 1..MaxMessages :
          /\ messages[m].state = "none" /\ Insert(m, t, b, p, "draft", 0)
          /\ deliveries' = deliveries
          /\ \/ batches[b] = [state |-> "draft", scope |-> ThreadScope[t]] /\ batches' = batches
             \/ /\ batches[b].state = "none"
                /\ batches' = [batches EXCEPT ![b] = [state |-> "draft", scope |-> ThreadScope[t]]]
    BY <1>5 DEF Draft, FreshId
  <2>2. /\ messages'[m].state = "draft" /\ messages'[m].thread = t /\ messages'[m].batch = b
        /\ messages'[m].delivery = 0
        /\ \A n \in MessageIds : n # m => messages'[n] = messages[n]
    BY <1>1, <2>1 DEF Insert
  <2>3. /\ batches'[b].state # "none" /\ batches'[b].scope = ThreadScope[t]
        /\ \A c \in BatchIds : batches[c].state # "none" => batches'[c] = batches[c]
    BY <1>1, <2>1
  <2> QED
    BY <1>4, <2>1, <2>2, <2>3
<1>6. ASSUME NEW t \in Threads, Post(t) PROVE Tied(batches', messages', deliveries')
  <2>1. PICK b \in BatchIds, m \in MessageIds :
          /\ messages[m].state = "none" /\ Insert(m, t, b, 1, "sent", now)
          /\ deliveries' = deliveries /\ batches[b].state = "none"
          /\ batches' = [batches EXCEPT ![b] = [state |-> "sent", scope |-> ThreadScope[t]]]
    BY <1>6 DEF Post, FreshId
  <2>2. /\ messages'[m].state = "sent" /\ messages'[m].thread = t /\ messages'[m].batch = b
        /\ messages'[m].delivery = 0
        /\ \A n \in MessageIds : n # m => messages'[n] = messages[n]
    BY <1>1, <2>1 DEF Insert
  <2>3. /\ batches'[b].state # "none" /\ batches'[b].scope = ThreadScope[t]
        /\ \A c \in BatchIds : batches[c].state # "none" => batches'[c] = batches[c]
    BY <1>1, <2>1
  <2> QED
    BY <1>4, <2>1, <2>2, <2>3
<1>7. ASSUME NEW m \in MessageIds, RemoveDraft(m) PROVE Tied(batches', messages', deliveries')
  <2>1. /\ messages[m].state = "draft" /\ messages'[m].state = "removed"
        /\ messages'[m].batch = 0 /\ messages'[m].delivery = messages[m].delivery
        /\ \A n \in MessageIds : n # m => messages'[n] = messages[n]
        /\ deliveries' = deliveries /\ batches' = batches
    BY <1>1, <1>7 DEF RemoveDraft, MessageRow
  <2>2. messages[m].delivery = 0
    BY <1>0, <2>1 DEF CarriedTied
  <2>3. /\ OpenTied(messages', deliveries') /\ SentTied(messages', deliveries')
        /\ CarriedTied(messages', deliveries') /\ FlightTied(messages', deliveries')
    BY <1>3, <2>1, <2>2
  <2>4. BatchTied(batches', messages')
    BY <1>0, <2>1 DEF BatchTied, MessageScope
  <2> QED
    BY <2>3, <2>4 DEF Tied
<1>8. ASSUME NEW b \in BatchIds, ReorderBatch(b) PROVE Tied(batches', messages', deliveries')
  <2>1. deliveries' = deliveries /\ batches' = batches
    BY <1>8 DEF ReorderBatch
  <2>2. \A m \in MessageIds :
          /\ messages'[m].state = messages[m].state /\ messages'[m].batch = messages[m].batch
          /\ messages'[m].thread = messages[m].thread
          /\ messages'[m].delivery = messages[m].delivery
    BY <1>1, <1>8 DEF ReorderBatch, MessageRow
  <2>3. OpenTied(messages', deliveries') /\ SentTied(messages', deliveries')
    BY <1>0, <2>1, <2>2 DEF OpenTied, SentTied
  <2>4. CarriedTied(messages', deliveries') /\ BatchTied(batches', messages')
    BY <1>0, <2>1, <2>2 DEF CarriedTied, BatchTied, MessageScope
  <2>5. FlightTied(messages', deliveries')
    BY <1>0, <2>1, <2>2 DEF FlightTied
  <2> QED
    BY <2>3, <2>4, <2>5 DEF Tied
<1>9. ASSUME NEW b \in BatchIds, SendBatch(b) PROVE Tied(batches', messages', deliveries')
  <2>1. /\ deliveries' = deliveries
        /\ \A c \in BatchIds : /\ batches'[c].scope = batches[c].scope
                               /\ batches[c].state # "none" => batches'[c].state # "none"
    BY <1>1, <1>9 DEF SendBatch, MarkSent, BatchRow
  <2>2. \A m \in MessageIds :
          /\ messages'[m].batch = messages[m].batch /\ messages'[m].thread = messages[m].thread
          /\ messages'[m].delivery = messages[m].delivery
          /\ \/ messages'[m] = messages[m]
             \/ messages[m].state = "draft" /\ messages'[m].state = "sent"
    BY <1>1, <1>9 DEF SendBatch, Drafts, BatchMessages, MessageRow
  <2>3. /\ OpenTied(messages', deliveries') /\ SentTied(messages', deliveries')
        /\ CarriedTied(messages', deliveries') /\ FlightTied(messages', deliveries')
    <3>1. \A m \in MessageIds : messages[m].state = "draft" => messages[m].delivery = 0
      BY <1>0 DEF CarriedTied
    <3> QED
      BY <1>3, <2>1, <2>2, <3>1
  <2>4. \A n \in MessageIds : messages[n].batch # 0 => messages[n].batch \in BatchIds
    BY <1>1, BoundsAssumption DEF BatchIds, MessageRow
  <2>5. BatchTied(batches', messages')
    BY <1>0, <2>1, <2>2, <2>4 DEF BatchTied, MessageScope
  <2> QED
    BY <2>3, <2>5 DEF Tied
<1> QED
  BY <1>5, <1>6, <1>7, <1>8, <1>9 DEF Writes

\* Reports: what lands lands whole, and a turn ends only what landed whole.
LEMMA ReportsTied ==
  TypeOK /\ Tied(batches, messages, deliveries) /\ Reports
    => Tied(batches', messages', deliveries')
<1> SUFFICES ASSUME TypeOK, Tied(batches, messages, deliveries), NEW session \in Sessions,
                    \/ \E d \in DeliveryIds, token \in 1..MaxClaims :
                         Held(session, d, token) \/ Landed(session, d, token)
                    \/ TurnEnded(session)
                    \/ \E named \in SUBSET DeliveryIds : TurnEndedFor(session, named)
             PROVE  Tied(batches', messages', deliveries')
  BY DEF Reports
<1>0. /\ OpenTied(messages, deliveries) /\ SentTied(messages, deliveries)
      /\ CarriedTied(messages, deliveries)
      /\ BatchTied(batches, messages) /\ FlightTied(messages, deliveries)
  BY DEF Tied
<1>1. /\ messages \in [MessageIds -> MessageRow] /\ deliveries \in [DeliveryIds -> DeliveryRow]
      /\ \A m \in MessageIds : messages[m] \in MessageRow
      /\ \A d \in DeliveryIds : deliveries[d] \in DeliveryRow
      /\ messages \in Messages
  BY DEF TypeOK, Messages
<1>2. \A m \in MessageIds : messages[m].delivery # 0 => messages[m].delivery \in DeliveryIds
  BY <1>1, DeliveryIdOf
<1>3. 0 \notin DeliveryIds
  BY DEF DeliveryIds
<1>4. /\ Unsettled = {"sent"} \cup Open /\ Open = {"with_agent", "working"}
      /\ \A st \in Unsettled : st \in LifecycleStates
      /\ "no_reply" \in LifecycleStates
  BY DEF Unsettled, Open, LifecycleStates
\* Moves within the lifecycle of what is carried as before.
<1>5. ASSUME SameMessages(messages, messages'), SameDeliveries(deliveries, deliveries'),
             batches' = batches,
             OpenTied(messages', deliveries'), SentTied(messages', deliveries'),
             FlightTied(messages', deliveries')
      PROVE  Tied(batches', messages', deliveries')
  BY <1>0, <1>1, <1>5, FrameTied DEF Tied
<1>6. ASSUME NEW d \in DeliveryIds, NEW token, Held(session, d, token)
      PROVE  Tied(batches', messages', deliveries')
  <2>1. /\ messages' = messages /\ batches' = batches
        /\ deliveries' = [deliveries EXCEPT ![d] = [deliveries[d] EXCEPT !.held = TRUE]]
    BY <1>6 DEF Held
  <2>2. \A e \in DeliveryIds :
          /\ deliveries'[e].scope = deliveries[e].scope /\ deliveries'[e].batch = deliveries[e].batch
          /\ deliveries'[e].state = deliveries[e].state /\ deliveries'[e].shown = deliveries[e].shown
    <3>1. ASSUME NEW e \in DeliveryIds
          PROVE  \/ deliveries'[e] = deliveries[e]
                 \/ deliveries'[e] = [deliveries[e] EXCEPT !.held = TRUE]
      BY <1>1, <2>1
    <3> QED
      BY <1>1, <3>1, HeldRow
  <2>3. SameMessages(messages, messages') /\ SameDeliveries(deliveries, deliveries')
    BY <2>1, <2>2 DEF SameMessages, SameDeliveries
  <2>4. OpenTied(messages', deliveries')
    BY <1>0, <1>2, <2>1, <2>2 DEF OpenTied
  <2>5. SentTied(messages', deliveries')
    BY <1>0, <1>2, <2>1, <2>2 DEF SentTied
  <2>6. FlightTied(messages', deliveries')
    BY <1>0, <2>1, <2>2 DEF FlightTied
  <2> QED
    BY <1>5, <2>1, <2>3, <2>4, <2>5, <2>6
<1>7. ASSUME NEW d \in DeliveryIds, NEW token, Landed(session, d, token)
      PROVE  Tied(batches', messages', deliveries')
  <2>1. /\ deliveries[d].state = "inflight" /\ batches' = batches
        /\ messages' = MoveMessages(Carried(d), "with_agent")
        /\ deliveries' = [deliveries EXCEPT ![d] = ShownNow(deliveries[d])]
    BY <1>7 DEF Landed, TokenDelivery
  <2>2. ASSUME NEW m \in MessageIds
        PROVE  /\ messages'[m].thread = messages[m].thread
               /\ messages'[m].batch = messages[m].batch
               /\ messages'[m].delivery = messages[m].delivery
               /\ (messages[m].state = "sent" /\ messages[m].delivery = d)
                    => messages'[m].state = "with_agent"
               /\ ~(messages[m].state = "sent" /\ messages[m].delivery = d)
                    => messages'[m].state = messages[m].state
    <3>1. Allowed(messages[m].state, "with_agent") <=> messages[m].state = "sent"
      BY DEF Allowed, NextStates
    <3> QED
      BY <1>1, <2>1, <3>1 DEF MoveMessages, Carried, MessageRow
  <2>3. /\ deliveries'[d].scope = deliveries[d].scope /\ deliveries'[d].batch = deliveries[d].batch
        /\ deliveries'[d].state = "inflight" /\ deliveries'[d].shown = TRUE
        /\ \A e \in DeliveryIds : e # d => deliveries'[e] = deliveries[e]
    BY <1>1, <2>1 DEF ShownNow, DeliveryRow
  <2>4. SameMessages(messages, messages') /\ SameDeliveries(deliveries, deliveries')
    BY <1>4, <2>1, <2>2, <2>3 DEF SameMessages, SameDeliveries
  <2>5. OpenTied(messages', deliveries')
    BY <1>0, <1>2, <1>3, <2>2, <2>3 DEF OpenTied
  <2>6. SentTied(messages', deliveries')
    BY <1>0, <1>2, <2>2, <2>3 DEF SentTied
  <2>7. FlightTied(messages', deliveries')
    <3>1. \A e \in DeliveryIds : deliveries'[e].state = "inflight" => deliveries[e].state = "inflight"
      BY <2>1, <2>3
    <3>2. \A m \in MessageIds : messages[m].state \in Unsettled => messages'[m].state \in Unsettled
      BY <1>4, <2>2
    <3> QED
      BY <1>0, <2>2, <3>1, <3>2 DEF FlightTied
  <2> QED
    BY <1>5, <2>1, <2>4, <2>5, <2>6, <2>7
\* A turn's end: whole deliveries leave flight, and nothing open is left in them.
<1> DEFINE Ends(ended) ==
             /\ 0 \notin ended
             /\ \A d \in DeliveryIds :
                  /\ d \in ended => deliveries'[d].state # "inflight"
                  /\ d \notin ended => deliveries'[d] = deliveries[d]
             /\ \A m \in MessageIds :
                  /\ messages[m].delivery \notin ended => messages'[m] = messages[m]
                  /\ messages[m].delivery \in ended => messages'[m].state \notin Open
<1>8. ASSUME NEW ended, Ends(ended), batches' = batches,
             SameMessages(messages, messages'), SameDeliveries(deliveries, deliveries')
      PROVE  Tied(batches', messages', deliveries')
  <2>1. OpenTied(messages', deliveries')
    BY <1>0, <1>2, <1>8 DEF OpenTied
  <2>2. SentTied(messages', deliveries')
    <3>1. ASSUME NEW m \in MessageIds, messages'[m].state = "sent", messages'[m].delivery # 0,
                 deliveries'[messages'[m].delivery].state = "inflight"
          PROVE  deliveries'[messages'[m].delivery].shown = FALSE
      <4>1. messages'[m].delivery = messages[m].delivery /\ messages[m].delivery \in DeliveryIds
        BY <1>2, <1>8, <3>1 DEF SameMessages
      <4>2. messages[m].delivery \notin ended
        BY <1>8, <3>1, <4>1
      <4> QED
        BY <1>0, <1>8, <3>1, <4>1, <4>2 DEF SentTied
    <3> QED
      BY <3>1 DEF SentTied
  <2>3. FlightTied(messages', deliveries')
    BY <1>0, <1>8 DEF FlightTied
  <2> QED
    BY <1>5, <1>8, <2>1, <2>2, <2>3
<1> HIDE DEF Ends
<1>9. ASSUME TurnEnded(session) PROVE Tied(batches', messages', deliveries')
  <2> DEFINE ended == {d \in DeliveryIds : /\ deliveries[d].session = session
                                           /\ deliveries[d].state = "inflight"
                                           /\ deliveries[d].shown}
  <2>1. /\ batches' = batches
        /\ messages' = MoveMessages({m \in MessageIds : messages[m].delivery \in ended}, "no_reply")
        /\ deliveries' = [d \in DeliveryIds |->
             IF d \in ended THEN [deliveries[d] EXCEPT !.state = "done"] ELSE deliveries[d]]
    BY <1>9 DEF TurnEnded
  <2>2. 0 \notin ended /\ \A d \in ended : deliveries[d].state = "inflight" /\ deliveries[d].shown
    BY <1>3
  <2>3. \A m \in MessageIds : messages[m].delivery \in ended => messages[m].state # "sent"
    <3>1. ASSUME NEW m \in MessageIds, messages[m].delivery \in ended, messages[m].state = "sent"
          PROVE  FALSE
      <4>1. deliveries[messages[m].delivery].shown = FALSE
        BY <1>0, <2>2, <3>1 DEF SentTied
      <4> QED
        BY <2>2, <3>1, <4>1
    <3> QED
      BY <3>1
  <2>4. SameDeliveries(deliveries, deliveries')
        /\ \A d \in DeliveryIds : /\ d \in ended => deliveries'[d].state # "inflight"
                                 /\ d \notin ended => deliveries'[d] = deliveries[d]
    <3> HIDE DEF ended
    <3> QED
      BY <1>1, <2>1 DEF SameDeliveries, DeliveryRow
  <2>5. SameMessages(messages, messages')
        /\ \A m \in MessageIds :
             /\ messages[m].delivery \notin ended => messages'[m] = messages[m]
             /\ messages[m].delivery \in ended => messages'[m].state \notin Open
    <3>1. \A st \in Open : Allowed(st, "no_reply")
      BY <1>4 DEF Allowed, NextStates
    <3>2. \A st : Allowed(st, "no_reply") => st \in LifecycleStates
      BY DEF Allowed, NextStates, LifecycleStates
    <3>3. \A m \in MessageIds :
            /\ messages'[m] = IF /\ messages[m].delivery \in ended
                                 /\ Allowed(messages[m].state, "no_reply")
                              THEN [messages[m] EXCEPT !.state = "no_reply"] ELSE messages[m]
      <4> HIDE DEF ended
      <4> QED
        BY <2>1 DEF MoveMessages
    <3> HIDE DEF ended
    <3>4. "no_reply" \notin Open
      BY <1>4
    <3>5. \A m \in MessageIds :
            /\ messages'[m].thread = messages[m].thread /\ messages'[m].batch = messages[m].batch
            /\ messages'[m].delivery = messages[m].delivery
            /\ messages'[m].state = IF /\ messages[m].delivery \in ended
                                       /\ Allowed(messages[m].state, "no_reply")
                                    THEN "no_reply" ELSE messages[m].state
      BY <1>1, <3>3 DEF MessageRow
    <3> QED
      BY <1>4, <3>1, <3>2, <3>3, <3>4, <3>5 DEF SameMessages
  <2>6. Ends(ended) /\ batches' = batches
    <3> HIDE DEF ended
    <3> QED
      BY <2>1, <2>2, <2>4, <2>5 DEF Ends
  <2> HIDE DEF ended
  <2> QED
    BY <1>8, <2>4, <2>5, <2>6
<1>10. ASSUME NEW named \in SUBSET DeliveryIds, TurnEndedFor(session, named)
       PROVE  Tied(batches', messages', deliveries')
  <2> DEFINE ended == {d \in named : /\ deliveries[d].session = session
                                     /\ deliveries[d].state = "inflight"}
  <2>1. /\ batches' = batches
        /\ messages' = [m \in MessageIds |->
             IF messages[m].delivery \in ended /\ messages[m].state \in Unsettled
             THEN [messages[m] EXCEPT !.state = "no_reply"] ELSE messages[m]]
        /\ deliveries' = [d \in DeliveryIds |->
             IF d \in ended THEN [ShownNow(deliveries[d]) EXCEPT !.state = "done"]
                            ELSE deliveries[d]]
    BY <1>10 DEF TurnEndedFor
  <2>2. 0 \notin ended
    BY <1>3
  <2> HIDE DEF ended
  <2>3. SameDeliveries(deliveries, deliveries')
        /\ \A d \in DeliveryIds : /\ d \in ended => deliveries'[d].state # "inflight"
                                 /\ d \notin ended => deliveries'[d] = deliveries[d]
    BY <1>1, <2>1 DEF SameDeliveries, DeliveryRow, ShownNow
  <2>4. SameMessages(messages, messages')
        /\ \A m \in MessageIds :
             /\ messages[m].delivery \notin ended => messages'[m] = messages[m]
             /\ messages[m].delivery \in ended => messages'[m].state \notin Open
    BY <1>1, <1>4, <2>1 DEF SameMessages, MessageRow
  <2>5. Ends(ended) /\ batches' = batches
    BY <2>1, <2>2, <2>3, <2>4 DEF Ends
  <2> QED
    BY <1>8, <2>3, <2>4, <2>5
<1> QED
  BY <1>6, <1>7, <1>9, <1>10

\* What a reply moves is carried, and unsettled unless its turn ended without it.
LEMMA ReplyableIs ==
  ASSUME NEW session, NEW m, NEW to \in {"working", "answered", "declined", "failed"},
         Replyable(session, m, to), ~Repeated(m, to)
  PROVE  /\ messages[m].delivery # 0
         /\ messages[m].state \in LifecycleStates
         /\ messages[m].state = "sent" => deliveries[messages[m].delivery].state = "inflight"
         /\ messages[m].state \in Unsettled
            \/ (messages[m].state = "no_reply" /\ to # "working")
<1>1. /\ messages[m].delivery # 0 /\ messages[m].state \in LifecycleStates
      /\ messages[m].state = "sent" => deliveries[messages[m].delivery].state = "inflight"
  BY DEF Replyable, CarriedBy
<1>2. CASE messages[m].state = to
  <2>1. to = "working"
    BY <1>2 DEF Repeated, Final
  <2> QED
    BY <1>1, <1>2, <2>1 DEF Unsettled
<1>3. CASE Acknowledge(messages[m].state, to)
  <2>1. /\ messages[m].state \notin {"answered", "declined", "failed"}
        /\ messages[m].state = "no_reply" => to # "working"
    BY <1>3 DEF Acknowledge, Allowed, NextStates
  <2> QED
    BY <1>1, <2>1 DEF LifecycleStates, Unsettled
<1> QED
  BY <1>2, <1>3 DEF Replyable

\* A reply brings what is still sent of its deliveries to the agent, and ends
\* the deliveries it leaves nothing unsettled in.
LEMMA ReplyTied ==
  ASSUME TypeOK, Tied(batches, messages, deliveries), NEW session,
         NEW ids \in SUBSET MessageIds, NEW to \in {"working", "answered", "declined", "failed"},
         NEW text, Reply(session, ids, to, text)
  PROVE  Tied(batches', messages', deliveries')
<1> DEFINE moves == {m \in ids : ~Repeated(m, to)}
           landing == Landing(moves)
           touched == {messages[m].delivery : m \in {n \in moves : messages[n].state # "no_reply"}}
           over(d) == /\ deliveries[d].state = "inflight"
                      /\ \A m \in Carried(d) : messages'[m].state \notin Unsettled
<1>0. /\ OpenTied(messages, deliveries) /\ SentTied(messages, deliveries)
      /\ CarriedTied(messages, deliveries)
      /\ BatchTied(batches, messages) /\ FlightTied(messages, deliveries)
  BY DEF Tied
<1>1. /\ messages \in Messages
      /\ \A m \in MessageIds : messages[m] \in MessageRow
      /\ \A d \in DeliveryIds : deliveries[d] \in DeliveryRow
      /\ \A m \in MessageIds : messages[m].delivery # 0 => messages[m].delivery \in DeliveryIds
  BY DeliveryIdOf DEF TypeOK, Messages
<1>2. batches' = batches
  BY DEF Reply
<1>3. /\ Unsettled = {"sent"} \cup Open /\ Open = {"with_agent", "working"}
      /\ to # "sent" /\ to # "with_agent" /\ to \in LifecycleStates
      /\ "with_agent" \in LifecycleStates /\ "sent" \in LifecycleStates
  BY DEF Unsettled, Open, LifecycleStates
<1>4. ASSUME NEW m \in moves
      PROVE  /\ m \in MessageIds /\ messages[m].delivery # 0
             /\ messages[m].state \in LifecycleStates
             /\ messages[m].state = "sent" => deliveries[messages[m].delivery].state = "inflight"
             /\ messages[m].state \in Unsettled
                \/ (messages[m].state = "no_reply" /\ to # "working")
  <2>1. Replyable(session, m, to) /\ ~Repeated(m, to) /\ m \in MessageIds
    BY <1>4 DEF Reply
  <2> QED
    BY <2>1, ReplyableIs
<1>5. ASSUME NEW m \in MessageIds
      PROVE  /\ messages'[m].thread = messages[m].thread
             /\ messages'[m].batch = messages[m].batch
             /\ messages'[m].delivery = messages[m].delivery
             /\ m \in moves => messages'[m].state = to
             /\ (m \notin moves /\ messages[m].delivery \in landing /\ messages[m].state = "sent")
                  => messages'[m].state = "with_agent"
             /\ (m \notin moves /\ ~(messages[m].delivery \in landing /\ messages[m].state = "sent"))
                  => messages'[m].state = messages[m].state
  <2> DEFINE threads == {messages[n].thread : n \in moves}
  <2>1. PICK answers \in [threads -> moves] :
          messages' = [n \in MessageIds |->
               IF n \in moves
               THEN [messages[n] EXCEPT
                       !.state = to, !.line = (text /\ to = "working"),
                       !.replies = @ + IF /\ text /\ Final(to)
                                          /\ answers[messages[n].thread] = n
                                       THEN 1 ELSE 0]
               ELSE IF messages[n].delivery \in landing /\ messages[n].state = "sent"
               THEN [messages[n] EXCEPT !.state = "with_agent"]
               ELSE messages[n]]
    BY DEF Reply
  <2> DEFINE line == text /\ to = "working"
             more == IF /\ text /\ Final(to) /\ answers[messages[m].thread] = m THEN 1 ELSE 0
  <2>2. /\ m \in moves => messages'[m] = [messages[m] EXCEPT
                             !.state = to, !.line = line, !.replies = @ + more]
        /\ (m \notin moves /\ messages[m].delivery \in landing /\ messages[m].state = "sent")
             => messages'[m] = [messages[m] EXCEPT !.state = "with_agent"]
        /\ (m \notin moves /\ ~(messages[m].delivery \in landing /\ messages[m].state = "sent"))
             => messages'[m] = messages[m]
    <3> HIDE DEF moves, landing
    <3> QED
      BY <2>1
  <2> HIDE DEF moves, landing, line, more
  <2> QED
    BY <1>1, <2>2 DEF MessageRow
<1>6. ASSUME NEW d \in DeliveryIds
      PROVE  /\ deliveries'[d].scope = deliveries[d].scope
             /\ deliveries'[d].batch = deliveries[d].batch
             /\ d \notin touched => deliveries'[d] = deliveries[d]
             /\ d \in touched =>
                  /\ deliveries'[d].shown = TRUE
                  /\ over(d) => deliveries'[d].state = "done"
                  /\ ~over(d) => deliveries'[d].state = deliveries[d].state
  <2> DEFINE held == deliveries[d].held /\ d \notin landing
  <2>1. /\ d \notin touched => deliveries'[d] = deliveries[d]
        /\ d \in touched => deliveries'[d] =
             [deliveries[d] EXCEPT !.touchedAt = now, !.shown = TRUE, !.held = held,
                                   !.state = IF over(d) THEN "done" ELSE @]
    BY DEF Reply
  <2> HIDE DEF held, over, touched
  <2> QED
    BY <1>1, <2>1 DEF DeliveryRow
\* Who is landed or touched.
<1>7. /\ \A d \in landing : d \in touched /\ d \in DeliveryIds /\ deliveries[d].state = "inflight"
      /\ \A m \in moves : messages[m].state # "no_reply" => messages[m].delivery \in touched
      /\ \A m \in moves : messages[m].state = "sent" => messages[m].delivery \in landing
      /\ 0 \notin touched
  <2>1. "sent" # "no_reply"
    OBVIOUS
  <2> QED
    BY <1>1, <1>4, <2>1 DEF Landing
<1>8. ASSUME NEW d \in touched
      PROVE  \E n \in moves : messages[n].delivery = d /\ messages[n].state \in Unsettled
  <2>1. PICK n \in moves : messages[n].delivery = d /\ messages[n].state # "no_reply"
    OBVIOUS
  <2> QED
    BY <1>4, <2>1
<1>9. \A m \in MessageIds : m \in Carried(messages[m].delivery)
  BY DEF Carried
<1> HIDE DEF moves, landing, touched, over
<1>10. CarriedTied(messages', deliveries') /\ BatchTied(batches', messages')
  <2>1. SameMessages(messages, messages')
    <3>1. ASSUME NEW m \in MessageIds
          PROVE  \/ messages'[m].state = messages[m].state
                 \/ messages[m].state \in LifecycleStates /\ messages'[m].state \in LifecycleStates
      BY <1>3, <1>4, <1>5
    <3> QED
      BY <1>5, <3>1 DEF SameMessages
  <2>2. SameDeliveries(deliveries, deliveries')
    BY <1>6 DEF SameDeliveries
  <2> QED
    BY <1>0, <1>1, <1>2, <2>1, <2>2, FrameTied
\* A delivery with something left unsettled does not end.
<1>11. ASSUME NEW m \in MessageIds, messages[m].delivery \in DeliveryIds,
              messages'[m].state \in Unsettled, messages[m].delivery \in touched
       PROVE  deliveries'[messages[m].delivery].state = deliveries[messages[m].delivery].state
  BY <1>6, <1>9, <1>11 DEF over
<1>12. OpenTied(messages', deliveries')
  <2>1. ASSUME NEW m \in MessageIds, messages'[m].state \in Open
        PROVE  /\ messages[m].delivery # 0
               /\ deliveries'[messages[m].delivery].state = "inflight"
               /\ deliveries'[messages[m].delivery].shown = TRUE
    <3>1. messages'[m].state \in Unsettled
      BY <1>3, <2>1
    <3>2. CASE m \in moves
      <4>1. messages[m].state \in Unsettled /\ messages[m].delivery # 0
        BY <1>3, <1>4, <1>5, <2>1, <3>2
      <4>2. messages[m].delivery \in touched /\ messages[m].delivery \in DeliveryIds
        BY <1>1, <1>3, <1>7, <3>2, <4>1
      <4>3. deliveries[messages[m].delivery].state = "inflight"
        BY <1>0, <1>3, <1>4, <3>2, <4>1 DEF OpenTied
      <4> QED
        BY <1>6, <1>11, <3>1, <4>1, <4>2, <4>3
    <3>3. CASE m \notin moves /\ messages[m].delivery \in landing /\ messages[m].state = "sent"
      <4>1. /\ messages[m].delivery \in touched /\ messages[m].delivery \in DeliveryIds
            /\ deliveries[messages[m].delivery].state = "inflight"
        BY <1>7, <3>3
      <4> QED
        BY <1>6, <1>7, <1>11, <3>1, <4>1
    <3>4. CASE m \notin moves /\ ~(messages[m].delivery \in landing /\ messages[m].state = "sent")
      <4>1. messages[m].state \in Open
        BY <1>5, <2>1, <3>4
      <4>2. /\ messages[m].delivery # 0 /\ deliveries[messages[m].delivery].state = "inflight"
            /\ deliveries[messages[m].delivery].shown = TRUE
            /\ messages[m].delivery \in DeliveryIds
        BY <1>0, <1>1, <4>1 DEF OpenTied
      <4> QED
        BY <1>6, <1>11, <3>1, <4>2
    <3> QED
      BY <3>2, <3>3, <3>4
  <2> QED
    BY <1>5, <2>1 DEF OpenTied
<1>13. SentTied(messages', deliveries')
  <2>1. ASSUME NEW m \in MessageIds, messages'[m].state = "sent", messages[m].delivery # 0,
               deliveries'[messages[m].delivery].state = "inflight"
        PROVE  deliveries'[messages[m].delivery].shown = FALSE
    <3>1. /\ messages[m].state = "sent" /\ messages[m].delivery \notin landing
          /\ messages[m].delivery \in DeliveryIds
      BY <1>1, <1>3, <1>5, <2>1
    <3>2. deliveries[messages[m].delivery].state = "inflight"
      BY <1>6, <2>1, <3>1
    <3>3. deliveries[messages[m].delivery].shown = FALSE
      BY <1>0, <2>1, <3>1, <3>2 DEF SentTied
    <3>4. messages[m].delivery \notin touched
      <4>1. ASSUME messages[m].delivery \in touched PROVE FALSE
        <5>1. PICK n \in moves : /\ messages[n].delivery = messages[m].delivery
                                 /\ messages[n].state \in Unsettled
          BY <1>8, <4>1
        <5>2. messages[n].state \in Open
          BY <1>3, <1>7, <3>1, <5>1
        <5> QED
          BY <1>0, <1>4, <3>3, <5>1, <5>2 DEF OpenTied
      <4> QED
        BY <4>1
    <3> QED
      BY <1>6, <3>1, <3>3, <3>4
  <2> QED
    BY <1>5, <2>1 DEF SentTied
<1>14. FlightTied(messages', deliveries')
  <2>1. ASSUME NEW d \in DeliveryIds, deliveries'[d].state = "inflight"
        PROVE  \E m \in MessageIds : messages'[m].delivery = d /\ messages'[m].state \in Unsettled
    <3>1. deliveries[d].state = "inflight"
      BY <1>6, <2>1
    <3>2. CASE d \in touched
      <4>1. ~(\A m \in Carried(d) : messages'[m].state \notin Unsettled)
        BY <1>6, <2>1, <3>1, <3>2 DEF over
      <4> QED
        BY <1>5, <4>1 DEF Carried
    <3>3. CASE d \notin touched
      <4>1. PICK m \in MessageIds : messages[m].delivery = d /\ messages[m].state \in Unsettled
        BY <1>0, <3>1 DEF FlightTied
      <4>2. m \notin moves
        BY <1>3, <1>7, <3>3, <4>1
      <4> QED
        BY <1>3, <1>5, <1>7, <3>3, <4>1, <4>2
    <3> QED
      BY <3>2, <3>3
  <2> QED
    BY <2>1 DEF FlightTied
<1> QED
  BY <1>2, <1>10, <1>12, <1>13, <1>14 DEF Tied

\* Recovery: what leaves flight leaves nothing open behind.
LEMMA RecoveryTied ==
  TypeOK /\ Tied(batches, messages, deliveries) /\ Recovery
    => Tied(batches', messages', deliveries')
<1> SUFFICES ASSUME TypeOK, Tied(batches, messages, deliveries), Recovery
             PROVE  Tied(batches', messages', deliveries')
  OBVIOUS
<1>0. /\ OpenTied(messages, deliveries) /\ SentTied(messages, deliveries)
      /\ CarriedTied(messages, deliveries)
      /\ BatchTied(batches, messages) /\ FlightTied(messages, deliveries)
  BY DEF Tied
<1>1. /\ messages \in Messages
      /\ \A m \in MessageIds : messages[m] \in MessageRow
      /\ \A d \in DeliveryIds : deliveries[d] \in DeliveryRow
      /\ deliveries \in [DeliveryIds -> DeliveryRow]
      /\ \A m \in MessageIds : messages[m].delivery # 0 => messages[m].delivery \in DeliveryIds
  BY DeliveryIdOf DEF TypeOK, Messages
<1>2. 0 \notin DeliveryIds
  BY DEF DeliveryIds
<1>3. /\ Unsettled = {"sent"} \cup Open /\ Open = {"with_agent", "working"}
      /\ \A st \in Unsettled : st \in LifecycleStates
      /\ "no_reply" \in LifecycleStates /\ "sent" \in LifecycleStates
  BY DEF Unsettled, Open, LifecycleStates
\* The deliveries of left end by hand, with everything unsettled in them.
<1> DEFINE Leaves(left, to) ==
      /\ batches' = batches /\ 0 \notin left /\ to \in {"no_reply", "sent"}
      /\ \A d \in DeliveryIds :
           /\ deliveries'[d].scope = deliveries[d].scope
           /\ deliveries'[d].batch = deliveries[d].batch
           /\ d \in left => deliveries'[d].state \notin {"none", "inflight"}
           /\ d \notin left => deliveries'[d] = deliveries[d]
      /\ \A m \in MessageIds :
           /\ messages'[m].thread = messages[m].thread
           /\ messages'[m].batch = messages[m].batch
           /\ messages'[m].delivery = messages[m].delivery
           /\ (messages[m].delivery \in left /\ messages[m].state \in Unsettled)
                => messages'[m].state = to
           /\ ~(messages[m].delivery \in left /\ messages[m].state \in Unsettled)
                => messages'[m].state = messages[m].state
<1>4. ASSUME NEW left, NEW to, Leaves(left, to)
      PROVE  Tied(batches', messages', deliveries')
  <2>1. SameMessages(messages, messages') /\ SameDeliveries(deliveries, deliveries')
    BY <1>3, <1>4 DEF SameMessages, SameDeliveries
  <2>2. CarriedTied(messages', deliveries') /\ BatchTied(batches', messages')
    BY <1>0, <1>1, <1>4, <2>1, FrameTied
  <2>3. \A m \in MessageIds : messages'[m].state \in Open =>
          /\ messages[m].state \in Open /\ messages[m].delivery \notin left
    BY <1>3, <1>4
  <2>4. OpenTied(messages', deliveries')
    <3>1. ASSUME NEW m \in MessageIds, messages'[m].state \in Open
          PROVE  /\ messages'[m].delivery # 0
                 /\ deliveries'[messages'[m].delivery].state = "inflight"
                 /\ deliveries'[messages'[m].delivery].shown = TRUE
      <4>1. /\ messages[m].state \in Open /\ messages[m].delivery \notin left
            /\ messages'[m].delivery = messages[m].delivery
        BY <1>4, <2>3, <3>1
      <4>2. messages[m].delivery # 0 /\ messages[m].delivery \in DeliveryIds
        BY <1>0, <1>1, <4>1 DEF OpenTied
      <4> QED
        BY <1>0, <1>4, <4>1, <4>2 DEF OpenTied
    <3> QED
      BY <3>1 DEF OpenTied
  <2>5. SentTied(messages', deliveries')
    <3>1. ASSUME NEW m \in MessageIds, messages'[m].state = "sent", messages'[m].delivery # 0,
                 deliveries'[messages'[m].delivery].state = "inflight"
          PROVE  deliveries'[messages'[m].delivery].shown = FALSE
      <4>1. /\ messages'[m].delivery = messages[m].delivery
            /\ messages[m].delivery \in DeliveryIds
        BY <1>1, <1>4, <3>1
      <4>2. /\ messages[m].delivery \notin left
            /\ deliveries'[messages[m].delivery] = deliveries[messages[m].delivery]
        BY <1>4, <3>1, <4>1
      <4>3. messages[m].state = "sent"
        BY <1>4, <3>1, <4>2
      <4> QED
        BY <1>0, <3>1, <4>1, <4>2, <4>3 DEF SentTied
    <3> QED
      BY <3>1 DEF SentTied
  <2>6. FlightTied(messages', deliveries')
    <3>1. ASSUME NEW d \in DeliveryIds, deliveries'[d].state = "inflight"
          PROVE  \E m \in MessageIds : messages'[m].delivery = d /\ messages'[m].state \in Unsettled
      <4>1. d \notin left /\ deliveries[d].state = "inflight"
        BY <1>4, <3>1
      <4>2. PICK m \in MessageIds : messages[m].delivery = d /\ messages[m].state \in Unsettled
        BY <1>0, <4>1 DEF FlightTied
      <4> QED
        BY <1>4, <4>1, <4>2
    <3> QED
      BY <3>1 DEF FlightTied
  <2> QED
    BY <2>2, <2>4, <2>5, <2>6 DEF Tied
<1>5. ASSUME NEW scope \in Scopes, NEW session \in Sessions, SetOwner(scope, session)
      PROVE  Tied(batches', messages', deliveries')
  BY <1>5, OwnerTied DEF SetOwner
<1>6. ASSUME NEW d \in DeliveryIds, NEW session \in Sessions, MoveDelivery(d, session)
      PROVE  Tied(batches', messages', deliveries')
  <2> DEFINE scope == deliveries[d].scope
             ds == MovedAway(scope, session)
  <2>1. /\ batches' = batches /\ messages' = Requeued(scope, session)
        /\ deliveries[d].state \in {"inflight", "interrupted"}
        /\ deliveries' = [e \in DeliveryIds |->
             IF e = d /\ deliveries[d].state = "interrupted"
             THEN [deliveries[d] EXCEPT !.state = "moved"] ELSE ds[e]]
    BY <1>6 DEF MoveDelivery
  <2>2. scope \in Scopes
    BY <1>1 DEF DeliveryRow
  <2>3. Tied(batches, messages', ds)
    BY <2>1, <2>2, OwnerTied
  <2>4. CASE deliveries[d].state = "interrupted"
    <3>1. ds[d] = deliveries[d]
      BY <2>4 DEF MovedAway
    <3> HIDE DEF ds, scope
    <3>2. /\ deliveries'[d].scope = ds[d].scope /\ deliveries'[d].batch = ds[d].batch
          /\ deliveries'[d].state = "moved" /\ ds[d].state = "interrupted"
          /\ \A e \in DeliveryIds : e # d => deliveries'[e] = ds[e]
      BY <1>1, <2>1, <2>4, <3>1 DEF DeliveryRow
    <3>3. messages' \in Messages
      BY <1>1, <2>1, RequeuedType
    <3>4. \A m \in MessageIds : messages'[m].delivery # 0 => messages'[m].delivery \in DeliveryIds
      BY <3>3, DeliveryIdOf
    <3>5. /\ OpenTied(messages', ds) /\ SentTied(messages', ds) /\ CarriedTied(messages', ds)
          /\ BatchTied(batches, messages') /\ FlightTied(messages', ds)
      BY <2>3 DEF Tied
    <3>6. OpenTied(messages', deliveries')
      BY <3>2, <3>4, <3>5 DEF OpenTied
    <3>7. SentTied(messages', deliveries')
      BY <3>2, <3>4, <3>5 DEF SentTied
    <3>8. CarriedTied(messages', deliveries')
      BY <3>2, <3>4, <3>5 DEF CarriedTied
    <3>9. FlightTied(messages', deliveries')
      BY <3>2, <3>5 DEF FlightTied
    <3> QED
      BY <2>1, <3>5, <3>6, <3>7, <3>8, <3>9 DEF Tied
  <2>5. CASE deliveries[d].state # "interrupted"
    <3>1. deliveries' = ds
      BY <2>1, <2>5 DEF MovedAway
    <3> QED
      BY <2>1, <2>3, <3>1
  <2> QED
    BY <2>4, <2>5
<1>7. ASSUME NEW d \in DeliveryIds, Release(d)
      PROVE  Tied(batches', messages', deliveries')
  <2>1. /\ batches' = batches
        /\ deliveries' = [deliveries EXCEPT ![d] = [deliveries[d] EXCEPT !.state = "released"]]
        /\ messages' = [m \in MessageIds |->
             IF messages[m].delivery = d /\ messages[m].state \in Unsettled
             THEN [messages[m] EXCEPT !.state = "no_reply"] ELSE messages[m]]
    BY <1>7 DEF Release, OpenIn
  <2>2. \A e \in DeliveryIds :
          /\ deliveries'[e].scope = deliveries[e].scope
          /\ deliveries'[e].batch = deliveries[e].batch
          /\ e \in {d} => deliveries'[e].state \notin {"none", "inflight"}
          /\ e \notin {d} => deliveries'[e] = deliveries[e]
    BY <1>1, <2>1 DEF DeliveryRow
  <2>3. Leaves({d}, "no_reply")
    BY <1>1, <1>2, <2>1, <2>2 DEF MessageRow
  <2> HIDE DEF Leaves
  <2> QED
    BY <1>4, <2>3
<1>8. ASSUME Interrupt PROVE Tied(batches', messages', deliveries')
  <2> DEFINE left == {d \in DeliveryIds : deliveries[d].state = "inflight"}
  <2>1. /\ batches' = batches
        /\ deliveries' = [d \in DeliveryIds |->
             IF d \in left THEN [deliveries[d] EXCEPT !.state = "interrupted"] ELSE deliveries[d]]
        /\ messages' = [m \in MessageIds |->
             IF messages[m].delivery \in left /\ messages[m].state \in Unsettled
             THEN [messages[m] EXCEPT !.state = "sent", !.line = FALSE] ELSE messages[m]]
    BY <1>8 DEF Interrupt
  <2>2. 0 \notin left
    BY <1>2
  <2> HIDE DEF left
  <2>3. \A e \in DeliveryIds :
          /\ deliveries'[e].scope = deliveries[e].scope
          /\ deliveries'[e].batch = deliveries[e].batch
          /\ e \in left => deliveries'[e].state \notin {"none", "inflight"}
          /\ e \notin left => deliveries'[e] = deliveries[e]
    BY <1>1, <2>1 DEF DeliveryRow
  <2>4. \A m \in MessageIds :
          /\ messages'[m].thread = messages[m].thread
          /\ messages'[m].batch = messages[m].batch
          /\ messages'[m].delivery = messages[m].delivery
          /\ (messages[m].delivery \in left /\ messages[m].state \in Unsettled)
               => messages'[m].state = "sent"
          /\ ~(messages[m].delivery \in left /\ messages[m].state \in Unsettled)
               => messages'[m].state = messages[m].state
    BY <1>1, <2>1 DEF MessageRow
  <2>5. Leaves(left, "sent")
    BY <2>1, <2>2, <2>3, <2>4
  <2> HIDE DEF Leaves
  <2> QED
    BY <1>4, <2>5
\* What is sent again left its delivery unanswered: nothing open leaves one.
<1>9. ASSUME NEW ids \in SUBSET MessageIds, Resend(ids)
      PROVE  Tied(batches', messages', deliveries')
  <2> DEFINE again == {m \in ids : Allowed(messages[m].state, "sent")}
  <2>1. /\ batches' = batches /\ deliveries' = deliveries
        /\ messages' = [m \in MessageIds |->
             IF m \in again
             THEN [messages[m] EXCEPT !.state = "sent", !.delivery = 0,
                                      !.queuedAt = now, !.line = FALSE]
             ELSE messages[m]]
    BY <1>9 DEF Resend
  <2>2. \A m \in again : messages[m].state = "no_reply" /\ m \in MessageIds
    BY DEF Allowed, NextStates
  <2> HIDE DEF again
  <2>3. \A m \in MessageIds :
          /\ messages'[m].thread = messages[m].thread /\ messages'[m].batch = messages[m].batch
          /\ m \in again => messages'[m].state = "sent" /\ messages'[m].delivery = 0
          /\ m \notin again => messages'[m] = messages[m]
    BY <1>1, <2>1 DEF MessageRow
  <2>4. OpenTied(messages', deliveries')
    <3>1. \A m \in MessageIds : messages'[m].state \in Open => messages'[m] = messages[m]
      BY <1>3, <2>3
    <3> QED
      BY <1>0, <2>1, <3>1 DEF OpenTied
  <2>5. SentTied(messages', deliveries')
    BY <1>0, <2>1, <2>3 DEF SentTied
  <2>6. CarriedTied(messages', deliveries') /\ BatchTied(batches', messages')
    <3>1. CarriedTied(messages', deliveries')
      <4>1. \A m \in MessageIds :
              messages'[m].delivery # 0 \/ messages'[m].state # "sent" => messages'[m] = messages[m]
        BY <2>3
      <4>2. deliveries' = deliveries /\ CarriedTied(messages, deliveries)
        BY <1>0, <2>1
      <4> QED
        BY <4>1, <4>2 DEF CarriedTied, MessageScope
    <3>2. BatchTied(batches', messages')
      <4>1. \A m \in MessageIds :
              messages'[m].state \notin {"none", "removed"}
                => messages[m].state \notin {"none", "removed"}
        BY <2>2, <2>3
      <4>2. ASSUME NEW m \in MessageIds
            PROVE  /\ messages'[m].batch = messages[m].batch
                   /\ MessageScope(messages', m) = MessageScope(messages, m)
        BY <2>3 DEF MessageScope
      <4>3. batches' = batches
        BY <2>1
      <4> QED
        BY <1>0, <4>1, <4>2, <4>3 DEF BatchTied
    <3> QED
      BY <3>1, <3>2
  <2>7. FlightTied(messages', deliveries')
    <3>1. ASSUME NEW d \in DeliveryIds, deliveries'[d].state = "inflight"
          PROVE  \E m \in MessageIds : messages'[m].delivery = d /\ messages'[m].state \in Unsettled
      <4>1. PICK m \in MessageIds : messages[m].delivery = d /\ messages[m].state \in Unsettled
        BY <1>0, <2>1, <3>1 DEF FlightTied
      <4>2. m \notin again
        BY <1>3, <2>2, <4>1
      <4> QED
        BY <2>3, <4>1, <4>2
    <3> QED
      BY <3>1 DEF FlightTied
  <2> QED
    BY <2>4, <2>5, <2>6, <2>7 DEF Tied
<1> QED
  BY <1>5, <1>6, <1>7, <1>8, <1>9 DEF Recovery

\* Every step keeps the ties.
LEMMA NextTied ==
  TypeOK /\ Tied(batches, messages, deliveries) /\ [Next]_vars
    => Tied(batches', messages', deliveries')
<1>1. TypeOK /\ Tied(batches, messages, deliveries) /\ Replies
        => Tied(batches', messages', deliveries')
  <2> SUFFICES ASSUME TypeOK, Tied(batches, messages, deliveries),
                      NEW session \in Sessions, NEW ids \in SUBSET MessageIds,
                      NEW ack \in Acknowledgements, Reply(session, ids, ack[1], ack[2])
               PROVE  Tied(batches', messages', deliveries')
    BY DEF Replies
  <2>1. ack[1] \in {"working", "answered", "declined", "failed"}
    BY AcknowledgementsAssumption
  <2> QED
    BY <2>1, ReplyTied
<1>2. Tied(batches, messages, deliveries) /\ (Tick \/ UNCHANGED vars)
        => Tied(batches', messages', deliveries')
  BY DEF Tick, vars
<1> QED
  BY <1>1, <1>2, WritesTied, ClaimsTied, ReportsTied, RecoveryTied DEF Next

AllTied == TypeOK /\ Tied(batches, messages, deliveries)

LEMMA TiesHold == Spec => []AllTied
<1>1. Init => AllTied
  BY InitType, InitTied DEF AllTied
<1>2. AllTied /\ [Next]_vars => AllTied'
  <2>1. Tied(batches', messages', deliveries') <=> Tied(batches, messages, deliveries)'
    OBVIOUS
  <2> QED
    BY <2>1, NextType, NextTied DEF AllTied
<1> QED
  BY <1>1, <1>2, PTL DEF Spec

\* A message the page calls "with the agent" or "working" is in a delivery
\* still in flight that reached its session, whatever reports, replies,
\* takeovers and recoveries interleave.
THEOREM OpenCarried == Spec => []OpenIsCarried
<1>1. AllTied => OpenIsCarried
  BY DEF AllTied, Tied, OpenTied, OpenIsCarried, InFlight, Open
<1> QED
  BY <1>1, TiesHold, PTL

\* A delivery in flight that reached the agent has no message still "sent",
\* so a turn's end never gives half a Send out a second time.
THEOREM ShownWhole == Spec => []ShownIsWhole
<1>1. AllTied => ShownIsWhole
  BY DEF AllTied, Tied, SentTied, ShownIsWhole, InFlight
<1> QED
  BY <1>1, TiesHold, PTL

\* A delivery in flight always carries something unsettled: a reply, a Resend
\* or a takeover never leaves one that nobody will close.
THEOREM FlightOpen == Spec => []InFlightHasOpen
<1>1. AllTied => InFlightHasOpen
  BY DEF AllTied, Tied, FlightTied, InFlightHasOpen, InFlight, OpenIn
<1> QED
  BY <1>1, TiesHold, PTL

\* What a delivery carries is of its own Send and its own scope.
THEOREM SendCarried == Spec => []CarriesItsSend
<1>1. AllTied => CarriesItsSend
  <2> SUFFICES ASSUME AllTied, NEW m \in MessageIds, messages[m].delivery # 0
               PROVE  /\ deliveries[messages[m].delivery].batch = messages[m].batch
                      /\ deliveries[messages[m].delivery].scope = MessageScope(messages, m)
                      /\ batches[messages[m].batch].scope
                           = deliveries[messages[m].delivery].scope
    BY DEF CarriesItsSend
  <2>1. CarriedTied(messages, deliveries) /\ BatchTied(batches, messages)
    BY DEF AllTied, Tied
  <2>2. messages[m].state \notin {"none", "removed"}
    BY <2>1 DEF CarriedTied
  <2> QED
    BY <2>1, <2>2 DEF CarriedTied, BatchTied
<1> QED
  BY <1>1, TiesHold, PTL
--------------------------------------------------------------------------------
(* Sends, places and answers.  A batch's own row tells whether its messages *)
(* are drafts, a new batch has none, and a settled message is not moved.    *)

\* A batch is a draft exactly while its messages are, and a scope has one.
BatchWaits(bs, ms) ==
  /\ \A m \in MessageIds : ms[m].batch # 0 =>
       (ms[m].state = "draft" <=> bs[ms[m].batch].state = "draft")
  /\ \A b, c \in BatchIds : bs[b] = bs[c] /\ bs[b].state = "draft" => b = c

\* PlacesDiffer of given messages.
PlacesApart(ms) ==
  \A m, n \in MessageIds :
    m # n /\ ms[m].batch # 0 /\ ms[m].batch = ms[n].batch => ms[m].pos # ms[n].pos

\* AnsweredOnce of given messages.
OneAnswer(ms) ==
  \A m \in MessageIds : /\ ms[m].replies \in {0, 1}
                        /\ ms[m].replies = 1 => Final(ms[m].state)

\* A message in its place: no draft sent or drafted, no settled one moved.
Kept(ms, ms2) ==
  \A m \in MessageIds :
    /\ ms2[m].batch = ms[m].batch /\ ms2[m].pos = ms[m].pos
    /\ ms2[m].replies = ms[m].replies
    /\ ms2[m].state = "draft" <=> ms[m].state = "draft"
    /\ Final(ms[m].state) => ms2[m].state = ms[m].state

LEMMA KeptKeeps ==
  ASSUME NEW bs, NEW ms, NEW ms2, Kept(ms, ms2)
  PROVE  /\ BatchWaits(bs, ms) => BatchWaits(bs, ms2)
         /\ PlacesApart(ms) => PlacesApart(ms2)
         /\ OneAnswer(ms) => OneAnswer(ms2)
<1>1. BatchWaits(bs, ms) => BatchWaits(bs, ms2)
  BY DEF Kept, BatchWaits
<1>2. PlacesApart(ms) => PlacesApart(ms2)
  BY DEF Kept, PlacesApart
<1>3. OneAnswer(ms) => OneAnswer(ms2)
  BY DEF Kept, OneAnswer
<1> QED
  BY <1>1, <1>2, <1>3

\* What may leave its state without a reply is neither a draft nor settled.
LEMMA MovableAre ==
  /\ \A st \in Unsettled \cup {"no_reply"} : st # "draft" /\ ~Final(st)
  /\ \A st : Allowed(st, "with_agent") \/ Allowed(st, "no_reply") \/ Allowed(st, "sent")
       => st # "draft" /\ ~Final(st)
  BY DEF Unsettled, Final, Allowed, NextStates

LEMMA RequeuedKept ==
  ASSUME TypeOK, NEW scope, NEW session
  PROVE  Kept(messages, Requeued(scope, session))
<1> SUFFICES ASSUME NEW m \in MessageIds
             PROVE  LET ms == Requeued(scope, session)
                    IN /\ ms[m].batch = messages[m].batch /\ ms[m].pos = messages[m].pos
                       /\ ms[m].replies = messages[m].replies
                       /\ ms[m].state = "draft" <=> messages[m].state = "draft"
                       /\ Final(messages[m].state) => ms[m].state = messages[m].state
  BY DEF Kept
<1>1. messages[m] \in MessageRow
  BY DEF TypeOK
<1>2. CASE Requeued(scope, session)[m] = messages[m]
  BY <1>2
<1>3. CASE /\ messages[m].state \in Unsettled \cup {"no_reply"}
           /\ Requeued(scope, session)[m] = [messages[m] EXCEPT !.state = "sent", !.line = FALSE]
  <2>1. messages[m].state # "draft" /\ ~Final(messages[m].state)
    BY <1>3, MovableAre
  <2> QED
    BY <1>1, <1>3, <2>1 DEF MessageRow
<1> QED
  BY <1>2, <1>3 DEF Requeued

LEMMA ClaimFromKept ==
  ASSUME NEW ms \in Messages, NEW ds, NEW from, NEW session, NEW present,
         ClaimFrom(ms, ds, from, session, present)
  PROVE  Kept(ms, messages')
<1>1. CASE TakeBack(ms, ds, from, session, present)
  BY <1>1 DEF TakeBack, Kept
<1>2. CASE HandOut(ms, ds, from, session)
  <2>1. PICK first, d : messages' = [m \in MessageIds |->
          IF m \in WholeSend(ms, ds, first) THEN [ms[m] EXCEPT !.delivery = d] ELSE ms[m]]
    BY <1>2 DEF HandOut
  <2>2. \A m \in MessageIds : ms[m] \in MessageRow
    BY DEF Messages
  <2> QED
    BY <2>1, <2>2 DEF Kept, MessageRow
<1> QED
  BY <1>1, <1>2 DEF ClaimFrom

LEMMA KeptTwice ==
  ASSUME NEW ms, NEW ms2, NEW ms3, Kept(ms, ms2), Kept(ms2, ms3)
  PROVE  Kept(ms, ms3)
BY DEF Kept

LEMMA ClaimsKept == TypeOK /\ Claims => Kept(messages, messages') /\ batches' = batches
<1> SUFFICES ASSUME TypeOK, NEW session \in Sessions, NEW may \in SUBSET Scopes,
                    NEW present \in SUBSET Sessions, Claim(session, may, present)
             PROVE  Kept(messages, messages') /\ batches' = batches
  BY DEF Claims
<1>1. messages \in Messages
  BY DEF TypeOK, Messages
<1>2. batches' = batches
  BY DEF Claim, ClaimOwn, ClaimTakeover, ClaimFree
<1>3. CASE ClaimOwn(session, may, present) \/ ClaimFree(session, may, present)
  BY <1>1, <1>2, <1>3, ClaimFromKept DEF ClaimOwn, ClaimFree
<1>4. CASE ClaimTakeover(session, may, present)
  <2>1. PICK scope, own :
          \/ ClaimFrom(Requeued(scope, session), MovedAway(scope, session), own, session, present)
          \/ messages' = Requeued(scope, session)
    BY <1>4 DEF ClaimTakeover
  <2>2. Requeued(scope, session) \in Messages /\ Kept(messages, Requeued(scope, session))
    BY <1>1, RequeuedType, RequeuedKept
  <2>3. CASE messages' = Requeued(scope, session)
    BY <1>2, <2>2, <2>3
  <2>4. CASE ClaimFrom(Requeued(scope, session), MovedAway(scope, session), own, session, present)
    <3>1. Kept(Requeued(scope, session), messages')
      BY <2>2, <2>4, ClaimFromKept
    <3> QED
      BY <1>2, <2>2, <3>1, KeptTwice
  <2> QED
    BY <2>1, <2>3, <2>4
<1> QED
  BY <1>3, <1>4 DEF Claim

\* Every other move of a row by a report or a recovery.
LEMMA RowKept ==
  ASSUME TypeOK,
         \A m \in MessageIds :
           \/ messages'[m] = messages[m]
           \/ /\ messages[m].state # "draft" /\ ~Final(messages[m].state)
              /\ \E st \in {"sent", "with_agent", "no_reply"} :
                   \/ messages'[m] = [messages[m] EXCEPT !.state = st]
                   \/ messages'[m] = [messages[m] EXCEPT !.state = st, !.line = FALSE]
                   \/ messages'[m] = [messages[m] EXCEPT !.state = st, !.delivery = 0,
                                                     !.queuedAt = now, !.line = FALSE]
  PROVE  Kept(messages, messages')
<1>1. ASSUME NEW m \in MessageIds
      PROVE  /\ messages'[m].batch = messages[m].batch /\ messages'[m].pos = messages[m].pos
             /\ messages'[m].replies = messages[m].replies
             /\ messages'[m].state = "draft" <=> messages[m].state = "draft"
             /\ Final(messages[m].state) => messages'[m].state = messages[m].state
  <2>1. messages[m] \in MessageRow
    BY DEF TypeOK
  <2>2. CASE messages'[m] = messages[m]
    BY <2>2
  <2>3. CASE messages'[m] # messages[m]
    <3>1. messages[m].state # "draft" /\ ~Final(messages[m].state)
      BY <2>3
    <3>2. PICK st \in {"sent", "with_agent", "no_reply"} :
                   \/ messages'[m] = [messages[m] EXCEPT !.state = st]
                   \/ messages'[m] = [messages[m] EXCEPT !.state = st, !.line = FALSE]
                   \/ messages'[m] = [messages[m] EXCEPT !.state = st, !.delivery = 0,
                                                     !.queuedAt = now, !.line = FALSE]
      BY <2>3
    <3>3. /\ messages'[m].batch = messages[m].batch /\ messages'[m].pos = messages[m].pos
          /\ messages'[m].replies = messages[m].replies /\ messages'[m].state = st
      BY <2>1, <3>2 DEF MessageRow
    <3> QED
      BY <3>1, <3>3
  <2> QED
    BY <2>2, <2>3
<1> QED
  BY <1>1 DEF Kept

LEMMA ReportsKept == TypeOK /\ Reports => Kept(messages, messages') /\ batches' = batches
<1> SUFFICES ASSUME TypeOK, NEW session \in Sessions,
                    \/ \E d \in DeliveryIds, token \in 1..MaxClaims :
                         Held(session, d, token) \/ Landed(session, d, token)
                    \/ TurnEnded(session)
                    \/ \E named \in SUBSET DeliveryIds : TurnEndedFor(session, named)
             PROVE  Kept(messages, messages') /\ batches' = batches
  BY DEF Reports
<1>1. ASSUME NEW M, NEW to \in {"with_agent", "no_reply"}, messages' = MoveMessages(M, to)
      PROVE  Kept(messages, messages')
  <2>1. ASSUME NEW m \in MessageIds
        PROVE  \/ messages'[m] = messages[m]
               \/ /\ messages[m].state # "draft" /\ ~Final(messages[m].state)
                  /\ messages'[m] = [messages[m] EXCEPT !.state = to]
    BY <1>1, MovableAre DEF MoveMessages
  <2> QED
    BY <2>1, RowKept
<1>2. ASSUME NEW d, NEW token, Held(session, d, token)
      PROVE  Kept(messages, messages') /\ batches' = batches
  BY <1>2 DEF Held, Kept
<1>3. ASSUME NEW d, NEW token, Landed(session, d, token)
      PROVE  Kept(messages, messages') /\ batches' = batches
  BY <1>1, <1>3 DEF Landed
<1>4. ASSUME TurnEnded(session) PROVE Kept(messages, messages') /\ batches' = batches
  BY <1>1, <1>4 DEF TurnEnded
<1>5. ASSUME NEW named, TurnEndedFor(session, named)
      PROVE  Kept(messages, messages') /\ batches' = batches
  <2>1. ASSUME NEW m \in MessageIds
        PROVE  \/ messages'[m] = messages[m]
               \/ /\ messages[m].state \in Unsettled
                  /\ messages'[m] = [messages[m] EXCEPT !.state = "no_reply"]
    BY <1>5 DEF TurnEndedFor
  <2> QED
    BY <1>5, <2>1, MovableAre, RowKept DEF TurnEndedFor
<1> QED
  BY <1>2, <1>3, <1>4, <1>5

LEMMA RecoveryKept == TypeOK /\ Recovery => Kept(messages, messages') /\ batches' = batches
<1> SUFFICES ASSUME TypeOK, Recovery PROVE Kept(messages, messages') /\ batches' = batches
  OBVIOUS
<1>1. ASSUME NEW scope, NEW session, SetOwner(scope, session)
      PROVE  Kept(messages, messages') /\ batches' = batches
  BY <1>1, RequeuedKept DEF SetOwner
<1>2. ASSUME NEW d, NEW session, MoveDelivery(d, session)
      PROVE  Kept(messages, messages') /\ batches' = batches
  BY <1>2, RequeuedKept DEF MoveDelivery
<1>3. ASSUME NEW d, Release(d) PROVE Kept(messages, messages') /\ batches' = batches
  <2>1. ASSUME NEW m \in MessageIds
        PROVE  \/ messages'[m] = messages[m]
               \/ /\ messages[m].state \in Unsettled
                  /\ messages'[m] = [messages[m] EXCEPT !.state = "no_reply"]
    BY <1>3 DEF Release, OpenIn
  <2> QED
    BY <1>3, <2>1, MovableAre, RowKept DEF Release
<1>4. ASSUME Interrupt PROVE Kept(messages, messages') /\ batches' = batches
  <2>1. ASSUME NEW m \in MessageIds
        PROVE  \/ messages'[m] = messages[m]
               \/ /\ messages[m].state \in Unsettled
                  /\ messages'[m] = [messages[m] EXCEPT !.state = "sent", !.line = FALSE]
    BY <1>4 DEF Interrupt
  <2> QED
    BY <1>4, <2>1, MovableAre, RowKept DEF Interrupt
<1>5. ASSUME NEW ids, Resend(ids) PROVE Kept(messages, messages') /\ batches' = batches
  <2>1. ASSUME NEW m \in MessageIds
        PROVE  \/ messages'[m] = messages[m]
               \/ /\ Allowed(messages[m].state, "sent")
                  /\ messages'[m] = [messages[m] EXCEPT !.state = "sent", !.delivery = 0,
                                                    !.queuedAt = now, !.line = FALSE]
    BY <1>5 DEF Resend
  <2> QED
    BY <1>5, <2>1, MovableAre, RowKept DEF Resend
<1> QED
  BY <1>1, <1>2, <1>3, <1>4, <1>5 DEF Recovery

\* What writing keeps needs only that a new batch is named by nothing yet.
AllApart == BatchWaits(batches, messages) /\ PlacesApart(messages) /\ OneAnswer(messages)

LEMMA WritesApart == AllTied /\ AllApart /\ Writes => AllApart'
<1> SUFFICES ASSUME TypeOK, BatchTied(batches, messages), AllApart, Writes
             PROVE  /\ BatchWaits(batches', messages') /\ PlacesApart(messages')
                    /\ OneAnswer(messages')
  BY DEF AllTied, AllApart, Tied
<1>0. BatchWaits(batches, messages) /\ PlacesApart(messages) /\ OneAnswer(messages)
  BY DEF AllApart
<1>1. /\ messages \in [MessageIds -> MessageRow] /\ batches \in [BatchIds -> BatchRow]
      /\ \A m \in MessageIds : messages[m] \in MessageRow
      /\ \A b \in BatchIds : batches[b] \in BatchRow
      /\ \A m \in MessageIds : messages[m].batch # 0 => messages[m].batch \in BatchIds
      /\ 0 \notin BatchIds
  BY BoundsAssumption DEF TypeOK, MessageRow, BatchIds
<1>2. ~Final("draft") /\ ~Final("removed") /\ ~Final("sent")
  BY DEF Final
\* A row joins b: the scope's draft batch, or one no message was of.
<1>3. ASSUME NEW b \in BatchIds, NEW m \in MessageIds, NEW st \in {"draft", "sent"},
             messages'[m].state = st, messages'[m].batch = b, messages'[m].replies = 0,
             \A n \in MessageIds : n # m => messages'[n] = messages[n],
             \A n \in MessageIds : messages[n].batch = b => messages[n].pos # messages'[m].pos,
             batches'[b].state = st,
             \A c \in BatchIds : c # b => batches'[c] = batches[c],
             \/ batches' = batches
             \/ batches[b].state = "none" /\ st = "sent"
             \/ batches[b].state = "none" /\ \A c \in BatchIds : batches[c] # batches'[b]
      PROVE  /\ BatchWaits(batches', messages') /\ PlacesApart(messages')
             /\ OneAnswer(messages')
  <2>1. \A n \in MessageIds : (messages[n].batch = b /\ batches[b].state = "none") => FALSE
    BY <1>1 DEF BatchTied
  <2>2. \A n \in MessageIds : messages'[n].batch # 0 =>
          (messages'[n].state = "draft" <=> batches'[messages'[n].batch].state = "draft")
    <3>1. ASSUME NEW n \in MessageIds, messages'[n].batch # 0
          PROVE  messages'[n].state = "draft" <=> batches'[messages'[n].batch].state = "draft"
      <4>1. CASE n = m
        BY <1>3, <4>1
      <4>2. CASE n # m
        <5>1. messages'[n] = messages[n] /\ messages[n].batch \in BatchIds
          BY <1>1, <1>3, <3>1, <4>2
        <5>2. batches'[messages[n].batch] = batches[messages[n].batch]
          BY <1>3, <2>1, <5>1
        <5> QED
          BY <1>0, <3>1, <5>1, <5>2 DEF BatchWaits
      <4> QED
        BY <4>1, <4>2
    <3> QED
      BY <3>1
  <2>3. \A c, e \in BatchIds : batches'[c] = batches'[e] /\ batches'[c].state = "draft" => c = e
    <3>1. \A c, e \in BatchIds : batches[c] = batches[e] /\ batches[c].state = "draft" => c = e
      BY <1>0 DEF BatchWaits
    <3>2. CASE batches' = batches
      BY <3>1, <3>2
    <3>3. CASE batches[b].state = "none" /\ st = "sent"
      BY <1>3, <3>1, <3>3
    <3>4. CASE batches[b].state = "none" /\ \A c \in BatchIds : batches[c] # batches'[b]
      BY <1>3, <3>1, <3>4
    <3> QED
      BY <1>3, <3>2, <3>3, <3>4
  <2>4. BatchWaits(batches', messages')
    BY <2>2, <2>3 DEF BatchWaits
  <2>5. PlacesApart(messages')
    BY <1>0, <1>3 DEF PlacesApart
  <2>6. OneAnswer(messages')
    <3>1. ASSUME NEW n \in MessageIds
          PROVE  messages'[n].replies \in {0, 1} /\ (messages'[n].replies = 1 => Final(messages'[n].state))
      <4>1. CASE n = m
        BY <1>3, <4>1
      <4>2. CASE n # m
        BY <1>0, <1>3, <4>2 DEF OneAnswer
      <4> QED
        BY <4>1, <4>2
    <3> QED
      BY <3>1 DEF OneAnswer
  <2> QED
    BY <2>4, <2>5, <2>6
<1>4. ASSUME NEW t \in Threads, Draft(t)
      PROVE  /\ BatchWaits(batches', messages') /\ PlacesApart(messages')
             /\ OneAnswer(messages')
  <2>1. PICK b \in BatchIds, m \in MessageIds, p \in 1..MaxMessages :
          /\ NextPos(b, p) /\ Insert(m, t, b, p, "draft", 0)
          /\ \/ batches[b] = [state |-> "draft", scope |-> ThreadScope[t]] /\ batches' = batches
             \/ /\ \A c \in BatchIds : batches[c] # [state |-> "draft", scope |-> ThreadScope[t]]
                /\ batches[b].state = "none"
                /\ batches' = [batches EXCEPT ![b] = [state |-> "draft", scope |-> ThreadScope[t]]]
    BY <1>4 DEF Draft, FreshId
  <2>2. /\ messages'[m].state = "draft" /\ messages'[m].batch = b /\ messages'[m].replies = 0
        /\ messages'[m].pos = p
        /\ \A n \in MessageIds : n # m => messages'[n] = messages[n]
    BY <1>1, <2>1 DEF Insert
  <2>3. \A n \in MessageIds : messages[n].batch = b => messages[n].pos # messages'[m].pos
    <3>1. ASSUME NEW n \in MessageIds, messages[n].batch = b PROVE messages[n].pos # p
      <4>1. messages[n].pos < p
        BY <2>1, <3>1 DEF NextPos, BatchMessages
      <4>2. messages[n].pos \in 0..MaxMessages
        BY <1>1 DEF MessageRow
      <4> QED
        BY <4>1, <4>2, BoundsAssumption
    <3> QED
      BY <2>2, <3>1
  <2>4. /\ batches'[b].state = "draft" /\ \A c \in BatchIds : c # b => batches'[c] = batches[c]
        /\ \/ batches' = batches
           \/ batches[b].state = "none" /\ \A c \in BatchIds : batches[c] # batches'[b]
    BY <1>1, <2>1
  <2> QED
    BY <1>3, <2>2, <2>3, <2>4
<1>5. ASSUME NEW t \in Threads, Post(t)
      PROVE  /\ BatchWaits(batches', messages') /\ PlacesApart(messages')
             /\ OneAnswer(messages')
  <2>1. PICK b \in BatchIds, m \in MessageIds :
          /\ Insert(m, t, b, 1, "sent", now) /\ batches[b].state = "none"
          /\ batches' = [batches EXCEPT ![b] = [state |-> "sent", scope |-> ThreadScope[t]]]
    BY <1>5 DEF Post, FreshId
  <2>2. /\ messages'[m].state = "sent" /\ messages'[m].batch = b /\ messages'[m].replies = 0
        /\ \A n \in MessageIds : n # m => messages'[n] = messages[n]
    BY <1>1, <2>1 DEF Insert
  <2>3. \A n \in MessageIds : messages[n].batch # b
    BY <1>1, <2>1 DEF BatchTied
  <2>4. batches'[b].state = "sent" /\ \A c \in BatchIds : c # b => batches'[c] = batches[c]
    BY <1>1, <2>1
  <2> QED
    BY <1>3, <2>1, <2>2, <2>3, <2>4
<1>6. ASSUME NEW m \in MessageIds, RemoveDraft(m)
      PROVE  /\ BatchWaits(batches', messages') /\ PlacesApart(messages')
             /\ OneAnswer(messages')
  <2>1. /\ messages[m].state = "draft" /\ messages'[m].state = "removed"
        /\ messages'[m].batch = 0 /\ messages'[m].replies = messages[m].replies
        /\ \A n \in MessageIds : n # m => messages'[n] = messages[n]
        /\ batches' = batches
    BY <1>1, <1>6 DEF RemoveDraft, MessageRow
  <2>2. BatchWaits(batches', messages')
    BY <1>0, <2>1 DEF BatchWaits
  <2>3. PlacesApart(messages')
    BY <1>0, <2>1 DEF PlacesApart
  <2>4. OneAnswer(messages')
    BY <1>0, <1>2, <2>1 DEF OneAnswer
  <2> QED
    BY <2>2, <2>3, <2>4
\* Only drafts are reordered, and the whole of their batch is drafts.
<1>7. ASSUME NEW b \in BatchIds, ReorderBatch(b)
      PROVE  /\ BatchWaits(batches', messages') /\ PlacesApart(messages')
             /\ OneAnswer(messages')
  <2>1. PICK order \in [Drafts(b) -> 1..Cardinality(Drafts(b))] :
          /\ \A m, n \in Drafts(b) : order[m] = order[n] => m = n
          /\ messages' = [m \in MessageIds |->
               IF m \in Drafts(b) THEN [messages[m] EXCEPT !.pos = order[m]] ELSE messages[m]]
    BY <1>7 DEF ReorderBatch
  <2>2. \A m \in MessageIds :
          /\ messages'[m].state = messages[m].state /\ messages'[m].batch = messages[m].batch
          /\ messages'[m].replies = messages[m].replies
          /\ m \in Drafts(b) => messages'[m].pos = order[m]
          /\ m \notin Drafts(b) => messages'[m].pos = messages[m].pos
    BY <1>1, <2>1 DEF MessageRow
  <2>3. batches' = batches /\ Drafts(b) # {}
    BY <1>7 DEF ReorderBatch
  <2>4. \A m \in MessageIds : messages[m].batch = b => m \in Drafts(b)
    <3>1. PICK n \in MessageIds : messages[n].batch = b /\ messages[n].state = "draft"
      BY <2>3 DEF Drafts, BatchMessages
    <3>2. b # 0
      BY <1>1
    <3>3. batches[b].state = "draft"
      BY <1>0, <3>1, <3>2 DEF BatchWaits
    <3> QED
      BY <1>0, <3>2, <3>3 DEF BatchWaits, Drafts, BatchMessages
  <2>5. \A m \in Drafts(b) : m \in MessageIds /\ messages[m].batch = b
    BY DEF Drafts, BatchMessages
  <2>6. PlacesApart(messages')
    <3>1. ASSUME NEW m \in MessageIds, NEW n \in MessageIds, m # n, messages'[m].batch # 0,
                 messages'[m].batch = messages'[n].batch
          PROVE  messages'[m].pos # messages'[n].pos
      <4>1. messages[m].batch # 0 /\ messages[m].batch = messages[n].batch
        BY <2>2, <3>1
      <4>2. CASE messages[m].batch = b
        BY <2>1, <2>2, <2>4, <3>1, <4>1, <4>2
      <4>3. CASE messages[m].batch # b
        BY <1>0, <2>2, <2>5, <3>1, <4>1, <4>3 DEF PlacesApart
      <4> QED
        BY <4>2, <4>3
    <3> QED
      BY <3>1 DEF PlacesApart
  <2>7. BatchWaits(batches', messages')
    BY <1>0, <2>2, <2>3 DEF BatchWaits
  <2>8. OneAnswer(messages')
    BY <1>0, <2>2 DEF OneAnswer
  <2> QED
    BY <2>6, <2>7, <2>8
<1>8. ASSUME NEW b \in BatchIds, SendBatch(b)
      PROVE  /\ BatchWaits(batches', messages') /\ PlacesApart(messages')
             /\ OneAnswer(messages')
  <2>1. /\ batches'[b].state = "sent"
        /\ \A c \in BatchIds : c # b => batches'[c] = batches[c]
    BY <1>1, <1>8 DEF SendBatch, MarkSent, BatchRow
  <2>2. \A m \in MessageIds :
          /\ messages'[m].batch = messages[m].batch /\ messages'[m].pos = messages[m].pos
          /\ messages'[m].replies = messages[m].replies
          /\ (messages[m].state = "draft" /\ messages[m].batch = b) => messages'[m].state = "sent"
          /\ ~(messages[m].state = "draft" /\ messages[m].batch = b)
               => messages'[m].state = messages[m].state
    BY <1>1, <1>8 DEF SendBatch, Drafts, BatchMessages, MessageRow
  <2>3. BatchWaits(batches', messages')
    <3>1. \A c, e \in BatchIds : batches'[c] = batches'[e] /\ batches'[c].state = "draft" => c = e
      BY <1>0, <2>1 DEF BatchWaits
    <3>2. ASSUME NEW m \in MessageIds, messages'[m].batch # 0
          PROVE  messages'[m].state = "draft" <=> batches'[messages'[m].batch].state = "draft"
      <4>1. messages[m].batch \in BatchIds /\ messages[m].batch # 0
        BY <1>1, <2>2, <3>2
      <4>2. CASE messages[m].batch = b
        BY <2>1, <2>2, <4>2
      <4>3. CASE messages[m].batch # b
        BY <1>0, <2>1, <2>2, <4>1, <4>3 DEF BatchWaits
      <4> QED
        BY <4>2, <4>3
    <3> QED
      BY <3>1, <3>2 DEF BatchWaits
  <2>4. PlacesApart(messages')
    BY <1>0, <2>2 DEF PlacesApart
  <2>5. OneAnswer(messages')
    BY <1>0, <1>2, <2>2 DEF OneAnswer
  <2> QED
    BY <2>3, <2>4, <2>5
<1> QED
  BY <1>4, <1>5, <1>6, <1>7, <1>8 DEF Writes

\* A reply answers only what is not settled, so what no row answers yet.
LEMMA RepliesApart == TypeOK /\ AllApart /\ Replies => AllApart'
<1> SUFFICES ASSUME TypeOK, AllApart, NEW session \in Sessions, NEW ids \in SUBSET MessageIds,
                    NEW ack \in Acknowledgements, Reply(session, ids, ack[1], ack[2])
             PROVE  AllApart'
  BY DEF Replies
<1>0. /\ BatchWaits(batches, messages) /\ PlacesApart(messages) /\ OneAnswer(messages)
      /\ \A m \in MessageIds : messages[m] \in MessageRow
  BY DEF AllApart, TypeOK
<1> DEFINE to == ack[1]
           text == ack[2]
           moves == {m \in ids : ~Repeated(m, to)}
           landing == Landing(moves)
           threads == {messages[n].thread : n \in moves}
<1>1. to \in {"working", "answered", "declined", "failed"} /\ batches' = batches
  BY AcknowledgementsAssumption DEF Reply
<1>2. PICK answers \in [threads -> moves] :
        messages' = [n \in MessageIds |->
               IF n \in moves
               THEN [messages[n] EXCEPT
                       !.state = to, !.line = (text /\ to = "working"),
                       !.replies = @ + IF /\ text /\ Final(to)
                                          /\ answers[messages[n].thread] = n
                                       THEN 1 ELSE 0]
               ELSE IF messages[n].delivery \in landing /\ messages[n].state = "sent"
               THEN [messages[n] EXCEPT !.state = "with_agent"]
               ELSE messages[n]]
  BY DEF Reply
<1>3. ASSUME NEW m \in moves
      PROVE  messages[m].state # "draft" /\ ~Final(messages[m].state)
  <2>1. Replyable(session, m, to) /\ ~Repeated(m, to)
    BY <1>3 DEF Reply
  <2> HIDE DEF to
  <2>2. messages[m].state \in Unsettled \cup {"no_reply"}
    BY <1>1, <2>1, ReplyableIs
  <2> QED
    BY <2>2, MovableAre
<1> HIDE DEF to, text, moves, landing, threads
<1>4. ASSUME NEW m \in MessageIds
      PROVE  /\ messages'[m].batch = messages[m].batch /\ messages'[m].pos = messages[m].pos
             /\ messages'[m].state = "draft" <=> messages[m].state = "draft"
             /\ messages'[m].replies \in {0, 1}
             /\ messages'[m].replies = 1 => Final(messages'[m].state)
  <2> DEFINE line == text /\ to = "working"
             answered == text /\ Final(to) /\ answers[messages[m].thread] = m
             more == IF answered THEN 1 ELSE 0
  <2>1. CASE m \in moves
    <3>1. messages'[m] = [messages[m] EXCEPT !.state = to, !.line = line, !.replies = @ + more]
      BY <1>2, <2>1
    <3>2. /\ more \in {0, 1} /\ (more = 1 => Final(to))
          /\ messages[m].replies = 0 /\ messages[m].state # "draft"
      BY <1>0, <1>3, <2>1 DEF OneAnswer
    <3> HIDE DEF line, more
    <3>3. /\ messages'[m].batch = messages[m].batch /\ messages'[m].pos = messages[m].pos
          /\ messages'[m].state = to /\ messages'[m].replies = 0 + more
      BY <1>0, <3>1, <3>2 DEF MessageRow
    <3>4. 0 + more = more
      BY <3>2
    <3>5. to # "draft"
      BY <1>1
    <3> QED
      BY <3>2, <3>3, <3>4, <3>5
  <2>2. CASE m \notin moves /\ messages[m].state = "sent"
    <3>1. \/ messages'[m] = messages[m]
          \/ messages'[m] = [messages[m] EXCEPT !.state = "with_agent"]
      BY <1>2, <2>2
    <3>2. messages[m].replies = 0
      BY <1>0, <2>2 DEF OneAnswer, Final
    <3> QED
      BY <1>0, <2>2, <3>1, <3>2 DEF MessageRow
  <2>3. CASE m \notin moves /\ messages[m].state # "sent"
    BY <1>0, <1>2, <2>3 DEF OneAnswer
  <2> QED
    BY <2>1, <2>2, <2>3
<1>5. BatchWaits(batches', messages')
  BY <1>0, <1>1, <1>4 DEF BatchWaits
<1>6. PlacesApart(messages') /\ OneAnswer(messages')
  BY <1>0, <1>4 DEF PlacesApart, OneAnswer
<1> QED
  BY <1>5, <1>6 DEF AllApart

LEMMA ApartHolds == Spec => []AllApart
<1>1. Init => AllApart
  BY DEF Init, AllApart, BatchWaits, PlacesApart, OneAnswer
<1>2. AllTied /\ AllApart /\ [Next]_vars => AllApart'
  <2>1. TypeOK /\ AllApart /\ (Claims \/ Reports \/ Recovery) => AllApart'
    BY ClaimsKept, ReportsKept, RecoveryKept, KeptKeeps DEF AllApart
  <2>2. AllApart /\ (Tick \/ UNCHANGED vars) => AllApart'
    BY DEF Tick, vars, AllApart
  <2> QED
    BY <2>1, <2>2, WritesApart, RepliesApart DEF Next, AllTied
<1> QED
  BY <1>1, <1>2, TiesHold, PTL DEF Spec

\* A Send never grows after it went out, and a scope fills one draft batch.
THEOREM DraftsHeld == Spec => []DraftsWait
<1>1. AllTied /\ AllApart => DraftsWait
  <2> SUFFICES ASSUME AllTied, AllApart PROVE DraftsWait
    OBVIOUS
  <2>1. BatchWaits(batches, messages) /\ BatchTied(batches, messages)
    BY DEF AllTied, AllApart, Tied
  <2>2. \A m, n \in MessageIds :
          messages[m].state = "draft" /\ messages[n].batch = messages[m].batch
            => messages[n].state = "draft"
    BY <2>1 DEF BatchWaits, BatchTied
  <2> QED
    BY <2>1, <2>2 DEF DraftsWait, BatchWaits
<1> QED
  BY <1>1, TiesHold, ApartHolds, PTL

\* No two messages of a Send share a place, through drafts removed, reordered
\* and added again.
THEOREM PlacesStayApart == Spec => []PlacesDiffer
<1>1. AllApart => PlacesDiffer
  BY DEF AllApart, PlacesApart, PlacesDiffer
<1> QED
  BY <1>1, ApartHolds, PTL

\* At most one row answers a message, however often the agent repeats its
\* reply and whatever requeues lie between.
THEOREM OneAnswerEach == Spec => []AnsweredOnce
<1>1. AllApart => AnsweredOnce
  <2> SUFFICES ASSUME AllApart, NEW m \in MessageIds
               PROVE  /\ messages[m].replies <= 1
                      /\ messages[m].replies = 1 => Final(messages[m].state)
    BY DEF AnsweredOnce
  <2>1. messages[m].replies \in {0, 1} /\ (messages[m].replies = 1 => Final(messages[m].state))
    BY DEF AllApart, OneAnswer
  <2> QED
    BY <2>1
<1> QED
  BY <1>1, ApartHolds, PTL
--------------------------------------------------------------------------------
(* ThreadStore implements Handout.  Besides the ties, the mapping needs that *)
(* who answered or left a message stays named on it, and that a delivery     *)
(* nobody has seen land carries only messages still sent.                    *)

Had(ms, ds) ==
  \A m \in MessageIds :
    /\ ms[m].delivery = 0 => ms[m].state \in {"none", "draft", "removed", "sent"}
    /\ (/\ ms[m].delivery # 0 /\ ds[ms[m].delivery].state = "inflight"
        /\ ds[ms[m].delivery].shown = FALSE) => ms[m].state = "sent"

\* StageOf and HolderOf of given tables.
StageIn(ms, ds, m) ==
  LET st == ms[m].state
  IN CASE st \in {"none", "draft"} -> "unsent"
       [] st = "removed" -> "gone"
       [] st = "sent" -> IF Queued(ms, ds, m) THEN "waiting" ELSE "given"
       [] st \in {"with_agent", "working"} -> "reached"
       [] st = "no_reply" -> "unanswered"
       [] OTHER -> "settled"

HolderIn(ms, ds, m) ==
  IF StageIn(ms, ds, m) \in {"unsent", "gone", "waiting"} THEN NoOwner
  ELSE ds[ms[m].delivery].session

\* m is in a delivery in flight.
Flying(ms, ds, m) == ms[m].delivery # 0 /\ ds[ms[m].delivery].state = "inflight"

LEMMA StagesAre ==
  ASSUME NEW ms, NEW ds, NEW m
  PROVE  /\ ms[m].state \in {"none", "draft"} =>
              StageIn(ms, ds, m) = "unsent" /\ HolderIn(ms, ds, m) = NoOwner
         /\ ms[m].state = "removed" =>
              StageIn(ms, ds, m) = "gone" /\ HolderIn(ms, ds, m) = NoOwner
         /\ (ms[m].state = "sent" /\ ~Flying(ms, ds, m)) =>
              StageIn(ms, ds, m) = "waiting" /\ HolderIn(ms, ds, m) = NoOwner
         /\ (ms[m].state = "sent" /\ Flying(ms, ds, m)) =>
              /\ StageIn(ms, ds, m) = "given"
              /\ HolderIn(ms, ds, m) = ds[ms[m].delivery].session
         /\ ms[m].state \in {"with_agent", "working"} =>
              /\ StageIn(ms, ds, m) = "reached"
              /\ HolderIn(ms, ds, m) = ds[ms[m].delivery].session
         /\ ms[m].state = "no_reply" =>
              /\ StageIn(ms, ds, m) = "unanswered"
              /\ HolderIn(ms, ds, m) = ds[ms[m].delivery].session
         /\ ms[m].state \in {"answered", "declined", "failed"} =>
              /\ StageIn(ms, ds, m) = "settled"
              /\ HolderIn(ms, ds, m) = ds[ms[m].delivery].session
BY DEF StageIn, HolderIn, Queued, Flying

\* The moves of Handout, between given tables.
Stays(ms, ds, ms2, ds2, m) ==
  /\ StageIn(ms2, ds2, m) = StageIn(ms, ds, m)
  /\ HolderIn(ms2, ds2, m) = HolderIn(ms, ds, m)
GoesBack(ms, ds, ms2, ds2, m) ==
  /\ StageIn(ms, ds, m) \in {"given", "reached", "unanswered"}
  /\ StageIn(ms2, ds2, m) = "waiting" /\ HolderIn(ms2, ds2, m) = NoOwner
IsGiven(s, ms, ds, ms2, ds2, m) ==
  /\ \/ StageIn(ms, ds, m) \in {"waiting", "given"}
     \/ StageIn(ms, ds, m) \in {"reached", "unanswered"} /\ HolderIn(ms, ds, m) # s
  /\ StageIn(ms2, ds2, m) = "given" /\ HolderIn(ms2, ds2, m) = s
IsReported(s, ms, ds, ms2, ds2, m) ==
  /\ HolderIn(ms, ds, m) = s /\ HolderIn(ms2, ds2, m) = s
  /\ \/ /\ StageIn(ms, ds, m) \in {"given", "reached"}
        /\ StageIn(ms2, ds2, m) \in {"reached", "unanswered"}
     \/ /\ StageIn(ms, ds, m) \in {"given", "reached", "unanswered"}
        /\ StageIn(ms2, ds2, m) = "settled"
IsGivenUp(ms, ds, ms2, ds2, m) ==
  /\ StageIn(ms, ds, m) \in {"given", "reached"} /\ StageIn(ms2, ds2, m) = "unanswered"
  /\ HolderIn(ms2, ds2, m) = HolderIn(ms, ds, m)
IsSent(ms, ds, ms2, ds2, m) ==
  /\ StageIn(ms, ds, m) = "unsent" /\ StageIn(ms2, ds2, m) \in {"waiting", "gone"}
  /\ HolderIn(ms2, ds2, m) = NoOwner

\* A message left alone stays, if its delivery keeps its session and, while the
\* message waits to land, stays in flight.
LEMMA LeftAlone ==
  ASSUME NEW ms, NEW ds, NEW ms2, NEW ds2, NEW m,
         ms2[m].state = ms[m].state, ms2[m].delivery = ms[m].delivery,
         ms[m].delivery = 0 => ms[m].state \in {"none", "draft", "removed", "sent"},
         ms[m].delivery # 0 => ds2[ms[m].delivery].session = ds[ms[m].delivery].session,
         (ms[m].state = "sent" /\ ms[m].delivery # 0) =>
           (ds2[ms[m].delivery].state = "inflight" <=> ds[ms[m].delivery].state = "inflight")
  PROVE  Stays(ms, ds, ms2, ds2, m)
<1>1. StageIn(ms2, ds2, m) = StageIn(ms, ds, m)
  BY DEF StageIn, Queued
<1>2. ms[m].delivery = 0 => StageIn(ms, ds, m) \in {"unsent", "gone", "waiting"}
  BY DEF StageIn, Queued
<1>3. HolderIn(ms2, ds2, m) = HolderIn(ms, ds, m)
  BY <1>1, <1>2 DEF HolderIn
<1> QED
  BY <1>1, <1>3 DEF Stays

\* What a change of owner does to the rows.
Taken(scope, session, m) ==
  /\ messages[m].state \in Unsettled \cup {"no_reply"}
  /\ MessageScope(messages, m) = scope
  /\ CarriedByOther(messages, deliveries, m, session)

LEMMA OwnerMoves ==
  ASSUME TypeOK, Tied(batches, messages, deliveries), NEW scope, NEW session
  PROVE  /\ \A m \in MessageIds :
              /\ Requeued(scope, session)[m].delivery = messages[m].delivery
              /\ Taken(scope, session, m) => Requeued(scope, session)[m].state = "sent"
              /\ ~Taken(scope, session, m) =>
                   Requeued(scope, session)[m].state = messages[m].state
         /\ \A d \in DeliveryIds :
              /\ MovedAway(scope, session)[d].session = deliveries[d].session
              /\ MovedAway(scope, session)[d].shown = deliveries[d].shown
              /\ MovedAway(scope, session)[d].state \in {deliveries[d].state, "moved"}
              /\ MovedAway(scope, session)[d].state # deliveries[d].state =>
                   /\ deliveries[d].state = "inflight" /\ deliveries[d].scope = scope
                   /\ deliveries[d].session # session
         /\ \A m \in MessageIds : Taken(scope, session, m) =>
              /\ messages[m].delivery # 0
              /\ deliveries[messages[m].delivery].session # session
              /\ MovedAway(scope, session)[messages[m].delivery].state # "inflight"
<1>0. /\ \A m \in MessageIds : messages[m] \in MessageRow
      /\ \A d \in DeliveryIds : deliveries[d] \in DeliveryRow
      /\ messages \in Messages
  BY DEF TypeOK, Messages
<1>1. ASSUME NEW m \in MessageIds
      PROVE  /\ Requeued(scope, session)[m].delivery = messages[m].delivery
             /\ Taken(scope, session, m) => Requeued(scope, session)[m].state = "sent"
             /\ ~Taken(scope, session, m) =>
                  Requeued(scope, session)[m].state = messages[m].state
  BY <1>0 DEF Requeued, MessageRow, Taken
<1>2. ASSUME NEW d \in DeliveryIds
      PROVE  /\ MovedAway(scope, session)[d].session = deliveries[d].session
             /\ MovedAway(scope, session)[d].shown = deliveries[d].shown
             /\ (/\ deliveries[d].state = "inflight" /\ deliveries[d].scope = scope
                 /\ deliveries[d].session # session)
                  => MovedAway(scope, session)[d].state = "moved"
             /\ ~(/\ deliveries[d].state = "inflight" /\ deliveries[d].scope = scope
                  /\ deliveries[d].session # session)
                  => MovedAway(scope, session)[d].state = deliveries[d].state
  BY <1>0 DEF MovedAway, DeliveryRow
<1>3. ASSUME NEW m \in MessageIds, Taken(scope, session, m)
      PROVE  /\ messages[m].delivery # 0
             /\ deliveries[messages[m].delivery].session # session
             /\ MovedAway(scope, session)[messages[m].delivery].state # "inflight"
  <2>1. /\ messages[m].delivery # 0 /\ MessageScope(messages, m) = scope
        /\ deliveries[messages[m].delivery].session # session
    BY <1>3 DEF Taken, CarriedByOther
  <2>2. messages[m].delivery \in DeliveryIds
    BY <1>0, <2>1, DeliveryIdOf
  <2>3. deliveries[messages[m].delivery].scope = scope
    BY <2>1 DEF Tied, CarriedTied
  <2> QED
    BY <1>2, <2>1, <2>2, <2>3
<1> QED
  BY <1>1, <1>2, <1>3

\* A change of owner: what another session has goes back, the rest stays.
LEMMA OwnerBack ==
  ASSUME TypeOK, Tied(batches, messages, deliveries), Had(messages, deliveries),
         NEW scope, NEW session, NEW m \in MessageIds
  PROVE  LET ms == Requeued(scope, session)
             ds == MovedAway(scope, session)
         IN \/ Stays(messages, deliveries, ms, ds, m)
            \/ /\ GoesBack(messages, deliveries, ms, ds, m)
               /\ HolderIn(messages, deliveries, m) # session
<1> DEFINE ms == Requeued(scope, session)
           ds == MovedAway(scope, session)
<1>0. messages \in Messages
  BY DEF TypeOK, Messages
<1>1. CASE Taken(scope, session, m)
  <2>1. /\ ms[m].state = "sent" /\ ms[m].delivery = messages[m].delivery
        /\ messages[m].delivery # 0 /\ deliveries[messages[m].delivery].session # session
        /\ ds[messages[m].delivery].state # "inflight"
    BY <1>1, OwnerMoves
  <2> HIDE DEF ms, ds
  <2>2. StageIn(ms, ds, m) = "waiting" /\ HolderIn(ms, ds, m) = NoOwner
    BY <2>1, StagesAre DEF Flying
  <2>3. messages[m].state \in {"sent", "with_agent", "working", "no_reply"}
    BY <1>1 DEF Taken, Unsettled
  <2>4. CASE messages[m].state = "sent" /\ ~Flying(messages, deliveries, m)
    <3>1. /\ StageIn(messages, deliveries, m) = "waiting"
          /\ HolderIn(messages, deliveries, m) = NoOwner
      BY <2>4, StagesAre
    <3> QED
      BY <2>2, <3>1 DEF Stays, ms, ds
  <2>5. CASE messages[m].state # "sent" \/ Flying(messages, deliveries, m)
    <3>1. /\ StageIn(messages, deliveries, m) \in {"given", "reached", "unanswered"}
          /\ HolderIn(messages, deliveries, m) = deliveries[messages[m].delivery].session
      BY <2>3, <2>5, StagesAre
    <3> QED
      BY <2>1, <2>2, <3>1 DEF GoesBack, ms, ds
  <2> QED
    BY <2>4, <2>5
<1>2. CASE ~Taken(scope, session, m)
  <2>1. ms[m].state = messages[m].state /\ ms[m].delivery = messages[m].delivery
    BY <1>2, OwnerMoves
  <2>2. messages[m].delivery # 0 =>
          ds[messages[m].delivery].session = deliveries[messages[m].delivery].session
    BY <1>0, DeliveryIdOf, OwnerMoves
  <2>3. (messages[m].state = "sent" /\ messages[m].delivery # 0) =>
          (ds[messages[m].delivery].state = "inflight"
             <=> deliveries[messages[m].delivery].state = "inflight")
    <3>1. SUFFICES ASSUME messages[m].state = "sent", messages[m].delivery # 0
                   PROVE  ds[messages[m].delivery].state = deliveries[messages[m].delivery].state
      OBVIOUS
    <3>2. messages[m].delivery \in DeliveryIds
      BY <1>0, <3>1, DeliveryIdOf
    <3>3. deliveries[messages[m].delivery].scope = MessageScope(messages, m)
      BY <3>1 DEF Tied, CarriedTied
    <3>4. messages[m].state \in Unsettled
      BY <3>1 DEF Unsettled
    <3>5. ~(/\ deliveries[messages[m].delivery].scope = scope
            /\ deliveries[messages[m].delivery].session # session)
      BY <1>2, <3>1, <3>3, <3>4 DEF Taken, CarriedByOther
    <3> QED
      BY <3>2, <3>5, OwnerMoves
  <2>4. messages[m].delivery = 0 => messages[m].state \in {"none", "draft", "removed", "sent"}
    BY DEF Had
  <2> HIDE DEF ms, ds
  <2>5. Stays(messages, deliveries, ms, ds, m)
    BY <2>1, <2>2, <2>3, <2>4, LeftAlone
  <2> QED
    BY <2>5 DEF ms, ds
<1> QED
  BY <1>1, <1>2

LEMMA OwnerHad ==
  ASSUME TypeOK, Tied(batches, messages, deliveries), Had(messages, deliveries),
         NEW scope, NEW session
  PROVE  Had(Requeued(scope, session), MovedAway(scope, session))
<1> DEFINE ms == Requeued(scope, session)
           ds == MovedAway(scope, session)
<1>0. messages \in Messages
  BY DEF TypeOK, Messages
<1> SUFFICES ASSUME NEW m \in MessageIds
             PROVE  /\ ms[m].delivery = 0 => ms[m].state \in {"none", "draft", "removed", "sent"}
                    /\ (/\ ms[m].delivery # 0 /\ ds[ms[m].delivery].state = "inflight"
                        /\ ds[ms[m].delivery].shown = FALSE) => ms[m].state = "sent"
  BY DEF Had
<1>1. /\ ms[m].delivery = messages[m].delivery
      /\ ms[m].state = "sent" \/ ms[m].state = messages[m].state
  BY OwnerMoves
<1>2. messages[m].delivery # 0 =>
        /\ ds[messages[m].delivery].shown = deliveries[messages[m].delivery].shown
        /\ ds[messages[m].delivery].state = "inflight"
             => deliveries[messages[m].delivery].state = "inflight"
  BY <1>0, DeliveryIdOf, OwnerMoves
<1> HIDE DEF ms, ds
<1> QED
  BY <1>1, <1>2 DEF Had

\* A claim of given tables gives session what it hands out or takes back.
LEMMA ClaimFromGives ==
  ASSUME NEW ms \in Messages, NEW ds \in Deliveries, NEW bs, Tied(bs, ms, ds), Had(ms, ds),
         NEW from, NEW session, NEW present, ClaimFrom(ms, ds, from, session, present)
  PROVE  /\ Had(messages', deliveries')
         /\ \A m \in MessageIds :
              \/ Stays(ms, ds, messages', deliveries', m)
              \/ /\ StageIn(ms, ds, m) \in {"waiting", "given"}
                 /\ StageIn(messages', deliveries', m) = "given"
                 /\ HolderIn(messages', deliveries', m) = session
<1>1. \A m \in MessageIds : ms[m].delivery # 0 => ms[m].delivery \in DeliveryIds
  BY DeliveryIdOf
<1>2. CASE TakeBack(ms, ds, from, session, present)
  <2>1. PICK d \in DeliveryIds :
          /\ ds[d].state = "inflight" /\ ~ds[d].shown
          /\ deliveries' = [ds EXCEPT ![d].session = session, ![d].token = @ + 1,
                                      ![d].touchedAt = now, ![d].held = FALSE]
          /\ messages' = ms
    BY <1>2 DEF TakeBack, Retakable
  <2>2. ds[d] \in DeliveryRow /\ ds \in [DeliveryIds -> DeliveryRow]
    BY DEF Deliveries
  <2>3. ds[d].shown = FALSE
    BY <2>1, <2>2 DEF DeliveryRow
  <2>4. /\ \A e \in DeliveryIds : e # d => deliveries'[e] = ds[e]
        /\ deliveries'[d].state = ds[d].state /\ deliveries'[d].shown = ds[d].shown
        /\ deliveries'[d].session = session
    BY <2>1, <2>2 DEF DeliveryRow
  <2>5. Had(messages', deliveries')
    <3>1. \A m \in MessageIds : ms[m].delivery # 0 =>
            /\ deliveries'[ms[m].delivery].state = ds[ms[m].delivery].state
            /\ deliveries'[ms[m].delivery].shown = ds[ms[m].delivery].shown
      BY <1>1, <2>4
    <3>2. messages' = ms
      BY <2>1
    <3> QED
      BY <3>1, <3>2 DEF Had
  <2>6. ASSUME NEW m \in MessageIds, ms[m].delivery = d
        PROVE  /\ StageIn(ms, ds, m) \in {"waiting", "given"}
               /\ StageIn(messages', deliveries', m) = "given"
               /\ HolderIn(messages', deliveries', m) = session
    <3>1. d # 0
      BY DEF DeliveryIds
    <3>2. ms[m].state = "sent"
      BY <2>1, <2>3, <2>6, <3>1 DEF Had
    <3>3. Flying(ms, ds, m) /\ Flying(messages', deliveries', m)
      BY <2>1, <2>4, <2>6, <3>1 DEF Flying
    <3>4. StageIn(ms, ds, m) = "given"
      BY <3>2, <3>3, StagesAre
    <3>5. messages'[m].state = "sent" /\ deliveries'[messages'[m].delivery].session = session
      BY <2>1, <2>4, <2>6, <3>2
    <3> QED
      BY <3>3, <3>4, <3>5, StagesAre
  <2>7. ASSUME NEW m \in MessageIds, ms[m].delivery # d
        PROVE  Stays(ms, ds, messages', deliveries', m)
    <3>1. ms[m].delivery # 0 => deliveries'[ms[m].delivery] = ds[ms[m].delivery]
      BY <1>1, <2>4, <2>7
    <3>2. ms[m].delivery = 0 => ms[m].state \in {"none", "draft", "removed", "sent"}
      BY DEF Had
    <3>3. messages' = ms
      BY <2>1
    <3> QED
      BY <3>1, <3>2, <3>3, LeftAlone
  <2> QED
    BY <2>5, <2>6, <2>7
<1>3. CASE HandOut(ms, ds, from, session)
  <2>1. PICK first \in MessageIds, d \in DeliveryIds :
          /\ ds[d].state = "none"
          /\ deliveries' = [ds EXCEPT ![d] =
               [state |-> "inflight", scope |-> MessageScope(ms, first),
                batch |-> ms[first].batch, session |-> session, token |-> 1,
                held |-> FALSE, shown |-> FALSE, touchedAt |-> now]]
          /\ messages' = [m \in MessageIds |->
               IF m \in WholeSend(ms, ds, first) THEN [ms[m] EXCEPT !.delivery = d] ELSE ms[m]]
    BY <1>3 DEF HandOut, FirstInLine, Waiting, FreshId
  <2>2. /\ \A e \in DeliveryIds : e # d => deliveries'[e] = ds[e]
        /\ deliveries'[d].state = "inflight" /\ deliveries'[d].session = session
    BY <2>1 DEF Deliveries
  <2>3. ASSUME NEW m \in MessageIds
        PROVE  /\ messages'[m].state = ms[m].state
               /\ m \in WholeSend(ms, ds, first) =>
                    messages'[m].delivery = d /\ Queued(ms, ds, m)
               /\ m \notin WholeSend(ms, ds, first) => messages'[m].delivery = ms[m].delivery
    <3>1. ms[m] \in MessageRow
      BY DEF Messages
    <3> QED
      BY <2>1, <3>1 DEF MessageRow, WholeSend
  <2>4. \A m \in MessageIds : ms[m].delivery # d
    BY <2>1 DEF Tied, CarriedTied, DeliveryIds
  <2>5. d # 0
    BY DEF DeliveryIds
  <2>6. ASSUME NEW m \in MessageIds, m \in WholeSend(ms, ds, first)
        PROVE  /\ messages'[m].state = "sent" /\ messages'[m].delivery = d
               /\ StageIn(ms, ds, m) \in {"waiting", "given"}
               /\ StageIn(messages', deliveries', m) = "given"
               /\ HolderIn(messages', deliveries', m) = session
    <3>1. ms[m].state = "sent" /\ messages'[m].delivery = d /\ messages'[m].state = "sent"
      BY <2>3, <2>6 DEF Queued
    <3> QED
      BY <2>2, <2>5, <3>1, StagesAre DEF Flying
  <2>7. ASSUME NEW m \in MessageIds, m \notin WholeSend(ms, ds, first)
        PROVE  /\ messages'[m].state = ms[m].state /\ messages'[m].delivery = ms[m].delivery
               /\ ms[m].delivery # 0 => deliveries'[ms[m].delivery] = ds[ms[m].delivery]
               /\ Stays(ms, ds, messages', deliveries', m)
    <3>1. /\ messages'[m].state = ms[m].state /\ messages'[m].delivery = ms[m].delivery
          /\ ms[m].delivery # 0 => deliveries'[ms[m].delivery] = ds[ms[m].delivery]
      BY <1>1, <2>2, <2>3, <2>4, <2>7
    <3>2. ms[m].delivery = 0 => ms[m].state \in {"none", "draft", "removed", "sent"}
      BY DEF Had
    <3> QED
      BY <3>1, <3>2, LeftAlone
  <2>8. Had(messages', deliveries')
    <3>1. ASSUME NEW m \in MessageIds
          PROVE  /\ messages'[m].delivery = 0
                      => messages'[m].state \in {"none", "draft", "removed", "sent"}
                 /\ (/\ messages'[m].delivery # 0
                     /\ deliveries'[messages'[m].delivery].state = "inflight"
                     /\ deliveries'[messages'[m].delivery].shown = FALSE)
                      => messages'[m].state = "sent"
      <4>1. CASE m \in WholeSend(ms, ds, first)
        BY <2>5, <2>6, <4>1
      <4>2. CASE m \notin WholeSend(ms, ds, first)
        BY <2>7, <4>2 DEF Had
      <4> QED
        BY <4>1, <4>2
    <3> QED
      BY <3>1 DEF Had
  <2> QED
    BY <2>6, <2>7, <2>8
<1> QED
  BY <1>2, <1>3 DEF ClaimFrom

\* A Claim gives session what it claims; a takeover first sends back what others
\* have.
LEMMA ClaimsGive ==
  ASSUME AllTied, Had(messages, deliveries), NEW session \in Sessions,
         NEW may \in SUBSET Scopes, NEW present \in SUBSET Sessions,
         Claim(session, may, present)
  PROVE  /\ Had(messages', deliveries')
         /\ \A m \in MessageIds :
              \/ Stays(messages, deliveries, messages', deliveries', m)
              \/ IsGiven(session, messages, deliveries, messages', deliveries', m)
              \/ GoesBack(messages, deliveries, messages', deliveries', m)
<1>0. /\ TypeOK /\ Tied(batches, messages, deliveries)
      /\ messages \in Messages /\ deliveries \in Deliveries
  BY DEF AllTied, TypeOK, Messages, Deliveries
<1>1. CASE ClaimOwn(session, may, present) \/ ClaimFree(session, may, present)
  <2>1. PICK from : ClaimFrom(messages, deliveries, from, session, present)
    BY <1>1 DEF ClaimOwn, ClaimFree
  <2> QED
    BY <1>0, <2>1, ClaimFromGives DEF IsGiven
<1>2. CASE ClaimTakeover(session, may, present)
  <2>1. PICK n \in MessageIds :
          LET scope == MessageScope(messages, n)
              ms == Requeued(scope, session)
              ds == MovedAway(scope, session)
              own == OwnScopes(may, session) \cup {scope}
          IN \/ ClaimFrom(ms, ds, own, session, present)
             \/ messages' = ms /\ deliveries' = ds
    BY <1>2 DEF ClaimTakeover, FirstInLine, TakeoverMessages
  <2> DEFINE scope == MessageScope(messages, n)
             ms == Requeued(scope, session)
             ds == MovedAway(scope, session)
             own == OwnScopes(may, session) \cup {scope}
  <2>2. scope \in Scopes
    BY <1>0, MessageScopeType
  <2>3. ms \in Messages /\ ds \in Deliveries /\ Had(ms, ds) /\ Tied(batches, ms, ds)
    BY <1>0, <2>2, RequeuedType, MovedAwayType, OwnerHad, OwnerTied
  <2>4. \A m \in MessageIds :
          \/ Stays(messages, deliveries, ms, ds, m)
          \/ /\ GoesBack(messages, deliveries, ms, ds, m)
             /\ HolderIn(messages, deliveries, m) # session
    BY <1>0, OwnerBack
  <2>5. ClaimFrom(ms, ds, own, session, present) \/ (messages' = ms /\ deliveries' = ds)
    BY <2>1
  <2> HIDE DEF scope, ms, ds, own
  <2>6. CASE messages' = ms /\ deliveries' = ds
    BY <2>3, <2>4, <2>6
  <2>7. CASE ClaimFrom(ms, ds, own, session, present)
    <3>1. /\ Had(messages', deliveries')
          /\ \A m \in MessageIds :
               \/ Stays(ms, ds, messages', deliveries', m)
               \/ /\ StageIn(ms, ds, m) \in {"waiting", "given"}
                  /\ StageIn(messages', deliveries', m) = "given"
                  /\ HolderIn(messages', deliveries', m) = session
      BY <2>3, <2>7, ClaimFromGives
    <3>2. ASSUME NEW m \in MessageIds
          PROVE  \/ Stays(messages, deliveries, messages', deliveries', m)
                 \/ IsGiven(session, messages, deliveries, messages', deliveries', m)
                 \/ GoesBack(messages, deliveries, messages', deliveries', m)
      BY <2>4, <3>1 DEF Stays, GoesBack, IsGiven
    <3> QED
      BY <3>1, <3>2
  <2> QED
    BY <2>5, <2>6, <2>7
<1> QED
  BY <1>1, <1>2 DEF Claim

\* Writing sends or throws away what was unsent, and touches nothing else.
LEMMA WritesSend ==
  ASSUME AllTied, Had(messages, deliveries), Writes
  PROVE  /\ Had(messages', deliveries')
         /\ \A m \in MessageIds :
              \/ Stays(messages, deliveries, messages', deliveries', m)
              \/ IsSent(messages, deliveries, messages', deliveries', m)
<1>0. /\ messages \in [MessageIds -> MessageRow]
      /\ \A m \in MessageIds : messages[m] \in MessageRow
      /\ \A m \in MessageIds : messages[m].state = "draft" => messages[m].delivery = 0
  BY DEF AllTied, TypeOK, Tied, CarriedTied
<1>1. /\ deliveries' = deliveries
      /\ \A m \in MessageIds :
           \/ /\ messages'[m].state = messages[m].state
              /\ messages'[m].delivery = messages[m].delivery
           \/ /\ messages[m].state \in {"none", "draft"}
              /\ messages'[m].state \in {"draft", "sent", "removed"}
              /\ messages'[m].delivery = 0
  <2>1. ASSUME NEW t, Draft(t) \/ Post(t)
        PROVE  deliveries' = deliveries /\ \E n \in MessageIds, st \in {"draft", "sent"} :
                 /\ messages[n].state = "none"
                 /\ messages'[n].state = st /\ messages'[n].delivery = 0
                 /\ \A m \in MessageIds : m # n => messages'[m] = messages[m]
    <3>1. CASE Draft(t)
      <4>1. PICK b \in BatchIds, n \in MessageIds, p \in 1..MaxMessages :
              messages[n].state = "none" /\ Insert(n, t, b, p, "draft", 0)
        BY <3>1 DEF Draft, FreshId
      <4>2. /\ messages'[n].state = "draft" /\ messages'[n].delivery = 0
            /\ \A m \in MessageIds : m # n => messages'[m] = messages[m]
        BY <1>0, <4>1 DEF Insert
      <4> QED
        BY <3>1, <4>1, <4>2 DEF Draft
    <3>2. CASE Post(t)
      <4>1. PICK b \in BatchIds, n \in MessageIds :
              messages[n].state = "none" /\ Insert(n, t, b, 1, "sent", now)
        BY <3>2 DEF Post, FreshId
      <4>2. /\ messages'[n].state = "sent" /\ messages'[n].delivery = 0
            /\ \A m \in MessageIds : m # n => messages'[m] = messages[m]
        BY <1>0, <4>1 DEF Insert
      <4> QED
        BY <3>2, <4>1, <4>2 DEF Post
    <3> QED
      BY <2>1, <3>1, <3>2
  <2>2. ASSUME NEW n \in MessageIds, RemoveDraft(n)
        PROVE  /\ deliveries' = deliveries /\ messages[n].state = "draft"
               /\ messages'[n].state = "removed" /\ messages'[n].delivery = 0
               /\ \A m \in MessageIds : m # n => messages'[m] = messages[m]
    BY <1>0, <2>2 DEF RemoveDraft, MessageRow
  <2>3. ASSUME NEW b, ReorderBatch(b)
        PROVE  /\ deliveries' = deliveries
               /\ \A m \in MessageIds : /\ messages'[m].state = messages[m].state
                                       /\ messages'[m].delivery = messages[m].delivery
    BY <1>0, <2>3 DEF ReorderBatch, MessageRow
  <2>4. ASSUME NEW b, SendBatch(b)
        PROVE  /\ deliveries' = deliveries
               /\ \A m \in MessageIds :
                    \/ messages'[m] = messages[m]
                    \/ /\ messages[m].state = "draft" /\ messages'[m].state = "sent"
                       /\ messages'[m].delivery = messages[m].delivery
    BY <1>0, <2>4 DEF SendBatch, Drafts, BatchMessages, MessageRow
  <2>5. CASE \E t \in Threads : Draft(t) \/ Post(t)
    BY <2>1, <2>5
  <2>6. CASE \E m \in MessageIds : RemoveDraft(m)
    BY <2>2, <2>6
  <2>7. CASE \E b \in BatchIds : ReorderBatch(b) \/ SendBatch(b)
    BY <1>0, <2>3, <2>4, <2>7
  <2> QED
    BY <2>5, <2>6, <2>7 DEF Writes
<1>2. Had(messages', deliveries')
  BY <1>1 DEF Had
<1>3. ASSUME NEW m \in MessageIds
      PROVE  \/ Stays(messages, deliveries, messages', deliveries', m)
             \/ IsSent(messages, deliveries, messages', deliveries', m)
  <2>1. CASE /\ messages'[m].state = messages[m].state
             /\ messages'[m].delivery = messages[m].delivery
    <3>1. messages[m].delivery = 0 => messages[m].state \in {"none", "draft", "removed", "sent"}
      BY DEF Had
    <3>2. deliveries' = deliveries
      BY <1>1
    <3> QED
      BY <2>1, <3>1, <3>2, LeftAlone
  <2>2. CASE /\ messages[m].state \in {"none", "draft"}
             /\ messages'[m].state \in {"draft", "sent", "removed"}
             /\ messages'[m].delivery = 0
    <3>1. ~Flying(messages', deliveries', m)
      BY <2>2 DEF Flying
    <3>2. StageIn(messages, deliveries, m) = "unsent" /\ HolderIn(messages, deliveries, m) = NoOwner
      BY <2>2, StagesAre
    <3>3. /\ StageIn(messages', deliveries', m) \in {"unsent", "waiting", "gone"}
          /\ HolderIn(messages', deliveries', m) = NoOwner
      BY <2>2, <3>1, StagesAre
    <3> QED
      BY <3>2, <3>3 DEF Stays, IsSent
  <2> QED
    BY <1>1, <2>1, <2>2
<1> QED
  BY <1>2, <1>3

\* What the harness reports is about what the session holds.
LEMMA ReportsTell ==
  ASSUME AllTied, Had(messages, deliveries), NEW session \in Sessions,
         \/ \E d \in DeliveryIds, token \in 1..MaxClaims :
              Held(session, d, token) \/ Landed(session, d, token)
         \/ TurnEnded(session)
         \/ \E named \in SUBSET DeliveryIds : TurnEndedFor(session, named)
  PROVE  /\ Had(messages', deliveries')
         /\ \A m \in MessageIds :
              \/ Stays(messages, deliveries, messages', deliveries', m)
              \/ IsReported(session, messages, deliveries, messages', deliveries', m)
<1>0. /\ messages \in [MessageIds -> MessageRow] /\ deliveries \in [DeliveryIds -> DeliveryRow]
      /\ \A m \in MessageIds : messages[m] \in MessageRow
      /\ \A d \in DeliveryIds : deliveries[d] \in DeliveryRow
      /\ \A m \in MessageIds : messages[m].delivery # 0 => messages[m].delivery \in DeliveryIds
      /\ SentTied(messages, deliveries)
  BY DeliveryIdOf DEF AllTied, TypeOK, Tied, Messages
<1>1. 0 \notin DeliveryIds /\ Unsettled = {"sent", "with_agent", "working"}
  BY DEF DeliveryIds, Unsettled
\* told: the deliveries that land or end, all in flight with session.
<1> DEFINE Tells(told) ==
      /\ \A d \in told : d \in DeliveryIds /\ deliveries[d].session = session
                         /\ deliveries[d].state = "inflight"
      /\ \A d \in DeliveryIds :
           /\ deliveries'[d].session = deliveries[d].session
           /\ d \notin told => /\ deliveries'[d].state = deliveries[d].state
                              /\ deliveries'[d].shown = deliveries[d].shown
           /\ d \in told => deliveries'[d].state # "inflight" \/ deliveries'[d].shown = TRUE
      /\ \A m \in MessageIds :
           /\ messages'[m].delivery = messages[m].delivery
           /\ \/ /\ messages[m].delivery \in told /\ messages[m].state \in Unsettled
                 /\ messages'[m].state \in {"with_agent", "no_reply"}
              \/ /\ messages'[m].state = messages[m].state
                 /\ messages[m].delivery \in told => messages[m].state # "sent"
<1>2. ASSUME NEW told, Tells(told)
      PROVE  /\ Had(messages', deliveries')
             /\ \A m \in MessageIds :
                  \/ Stays(messages, deliveries, messages', deliveries', m)
                  \/ IsReported(session, messages, deliveries, messages', deliveries', m)
  <2>1. 0 \notin told
    BY <1>1, <1>2
  <2>2. Had(messages', deliveries')
    <3>1. ASSUME NEW m \in MessageIds
          PROVE  /\ messages'[m].delivery = 0
                      => messages'[m].state \in {"none", "draft", "removed", "sent"}
                 /\ (/\ messages'[m].delivery # 0
                     /\ deliveries'[messages'[m].delivery].state = "inflight"
                     /\ deliveries'[messages'[m].delivery].shown = FALSE)
                      => messages'[m].state = "sent"
      <4>1. CASE messages[m].delivery \in told
        BY <1>2, <2>1, <4>1
      <4>2. CASE messages[m].delivery \notin told
        <5>1. messages'[m].state = messages[m].state /\ messages'[m].delivery = messages[m].delivery
          BY <1>2, <4>2
        <5>2. messages[m].delivery # 0 =>
                /\ deliveries'[messages[m].delivery].state = deliveries[messages[m].delivery].state
                /\ deliveries'[messages[m].delivery].shown = deliveries[messages[m].delivery].shown
          BY <1>0, <1>2, <4>2
        <5> QED
          BY <5>1, <5>2 DEF Had
      <4> QED
        BY <4>1, <4>2
    <3> QED
      BY <3>1 DEF Had
  <2>3. ASSUME NEW m \in MessageIds, messages[m].delivery \in told,
               messages[m].state \in Unsettled,
               messages'[m].state \in {"with_agent", "no_reply"}
        PROVE  IsReported(session, messages, deliveries, messages', deliveries', m)
    <3>1. /\ messages[m].delivery \in DeliveryIds /\ messages[m].delivery # 0
          /\ deliveries[messages[m].delivery].session = session
          /\ deliveries[messages[m].delivery].state = "inflight"
          /\ messages'[m].delivery = messages[m].delivery
          /\ deliveries'[messages[m].delivery].session = session
      BY <1>2, <2>1, <2>3
    <3>2. /\ StageIn(messages, deliveries, m) \in {"given", "reached"}
          /\ HolderIn(messages, deliveries, m) = session
      BY <1>1, <2>3, <3>1, StagesAre DEF Flying
    <3>3. /\ StageIn(messages', deliveries', m) \in {"reached", "unanswered"}
          /\ HolderIn(messages', deliveries', m) = session
      BY <2>3, <3>1, StagesAre
    <3> QED
      BY <3>2, <3>3 DEF IsReported
  <2>4. ASSUME NEW m \in MessageIds, messages'[m].state = messages[m].state,
               messages[m].delivery \in told => messages[m].state # "sent"
        PROVE  Stays(messages, deliveries, messages', deliveries', m)
    <3>1. messages[m].delivery = 0 => messages[m].state \in {"none", "draft", "removed", "sent"}
      BY DEF Had
    <3>2. /\ messages'[m].delivery = messages[m].delivery
          /\ messages[m].delivery # 0 =>
               deliveries'[messages[m].delivery].session = deliveries[messages[m].delivery].session
          /\ (messages[m].state = "sent" /\ messages[m].delivery # 0) =>
               deliveries'[messages[m].delivery].state = deliveries[messages[m].delivery].state
      BY <1>0, <1>2, <2>4
    <3> QED
      BY <2>4, <3>1, <3>2, LeftAlone
  <2> QED
    BY <1>2, <2>2, <2>3, <2>4
<1>3. ASSUME NEW d \in DeliveryIds, NEW token, Held(session, d, token) PROVE Tells({})
  <2>1. /\ messages' = messages
        /\ deliveries' = [deliveries EXCEPT ![d] = [deliveries[d] EXCEPT !.held = TRUE]]
    BY <1>3 DEF Held
  <2>2. \A e \in DeliveryIds :
          /\ deliveries'[e].session = deliveries[e].session
          /\ deliveries'[e].state = deliveries[e].state /\ deliveries'[e].shown = deliveries[e].shown
    <3>1. ASSUME NEW e \in DeliveryIds
          PROVE  \/ deliveries'[e] = deliveries[e]
                 \/ deliveries'[e] = [deliveries[e] EXCEPT !.held = TRUE]
      BY <1>0, <2>1
    <3> QED
      BY <1>0, <3>1, HeldRow
  <2> QED
    BY <2>1, <2>2
<1>4. ASSUME NEW d \in DeliveryIds, NEW token, Landed(session, d, token) PROVE Tells({d})
  <2>1. /\ deliveries[d].state = "inflight" /\ deliveries[d].session = session
        /\ messages' = MoveMessages(Carried(d), "with_agent")
        /\ deliveries' = [deliveries EXCEPT ![d] = ShownNow(deliveries[d])]
    BY <1>4 DEF Landed, TokenDelivery
  <2>2. \A m \in MessageIds :
          /\ messages'[m].delivery = messages[m].delivery
          /\ (messages[m].state = "sent" /\ messages[m].delivery = d)
               => messages'[m].state = "with_agent"
          /\ ~(messages[m].state = "sent" /\ messages[m].delivery = d)
               => messages'[m].state = messages[m].state
    <3>1. \A st : Allowed(st, "with_agent") <=> st = "sent"
      BY DEF Allowed, NextStates
    <3> QED
      BY <1>0, <2>1, <3>1 DEF MoveMessages, Carried, MessageRow
  <2>3. /\ deliveries'[d].session = deliveries[d].session /\ deliveries'[d].shown = TRUE
        /\ \A e \in DeliveryIds : e # d => deliveries'[e] = deliveries[e]
    BY <1>0, <2>1 DEF ShownNow, DeliveryRow
  <2> QED
    BY <1>1, <2>1, <2>2, <2>3
<1>5. ASSUME TurnEnded(session) PROVE \E told : Tells(told)
  <2> DEFINE ended == {d \in DeliveryIds : /\ deliveries[d].session = session
                                           /\ deliveries[d].state = "inflight"
                                           /\ deliveries[d].shown}
  <2>1. /\ messages' = MoveMessages({m \in MessageIds : messages[m].delivery \in ended}, "no_reply")
        /\ deliveries' = [d \in DeliveryIds |->
             IF d \in ended THEN [deliveries[d] EXCEPT !.state = "done"] ELSE deliveries[d]]
    BY <1>5 DEF TurnEnded
  <2>2. \A d \in ended : /\ d \in DeliveryIds /\ deliveries[d].session = session
                          /\ deliveries[d].state = "inflight" /\ deliveries[d].shown
    OBVIOUS
  <2>3. \A m \in MessageIds : messages[m].delivery \in ended => messages[m].state # "sent"
    <3>1. ASSUME NEW m \in MessageIds, messages[m].delivery \in ended, messages[m].state = "sent"
          PROVE  FALSE
      <4>1. messages[m].delivery # 0
        BY <1>1, <2>2, <3>1
      <4>2. deliveries[messages[m].delivery].shown = FALSE
        BY <1>0, <2>2, <3>1, <4>1 DEF SentTied
      <4> QED
        BY <2>2, <3>1, <4>2
    <3> QED
      BY <3>1
  <2> HIDE DEF ended
  <2>4. \A d \in DeliveryIds :
          /\ deliveries'[d].session = deliveries[d].session
          /\ d \in ended => deliveries'[d].state # "inflight"
          /\ d \notin ended => deliveries'[d] = deliveries[d]
    BY <1>0, <2>1 DEF DeliveryRow
  <2>5. \A st : Allowed(st, "no_reply") => st \in {"with_agent", "working"}
    BY DEF Allowed, NextStates
  <2>6. \A m \in MessageIds :
          \/ messages'[m] = messages[m]
          \/ /\ messages[m].delivery \in ended /\ messages[m].state \in Unsettled
             /\ messages'[m].state = "no_reply" /\ messages'[m].delivery = messages[m].delivery
    BY <1>0, <1>1, <2>1, <2>5 DEF MoveMessages, MessageRow
  <2>7. Tells(ended)
    BY <2>2, <2>3, <2>4, <2>6
  <2> QED
    BY <2>7
<1>6. ASSUME NEW named \in SUBSET DeliveryIds, TurnEndedFor(session, named)
      PROVE  \E told : Tells(told)
  <2> DEFINE ended == {d \in named : /\ deliveries[d].session = session
                                     /\ deliveries[d].state = "inflight"}
  <2>1. /\ messages' = [m \in MessageIds |->
             IF messages[m].delivery \in ended /\ messages[m].state \in Unsettled
             THEN [messages[m] EXCEPT !.state = "no_reply"] ELSE messages[m]]
        /\ deliveries' = [d \in DeliveryIds |->
             IF d \in ended THEN [ShownNow(deliveries[d]) EXCEPT !.state = "done"]
                            ELSE deliveries[d]]
    BY <1>6 DEF TurnEndedFor
  <2>2. \A d \in ended : /\ d \in DeliveryIds /\ deliveries[d].session = session
                          /\ deliveries[d].state = "inflight"
    OBVIOUS
  <2> HIDE DEF ended
  <2>3. \A d \in DeliveryIds :
          /\ deliveries'[d].session = deliveries[d].session
          /\ d \in ended => deliveries'[d].state # "inflight"
          /\ d \notin ended => deliveries'[d] = deliveries[d]
    BY <1>0, <2>1 DEF DeliveryRow, ShownNow
  <2>4. \A m \in MessageIds :
          \/ messages'[m] = messages[m] /\ ~(messages[m].delivery \in ended /\ messages[m].state \in Unsettled)
          \/ /\ messages[m].delivery \in ended /\ messages[m].state \in Unsettled
             /\ messages'[m].state = "no_reply" /\ messages'[m].delivery = messages[m].delivery
    BY <1>0, <2>1 DEF MessageRow
  <2>5. Tells(ended)
    BY <1>1, <2>2, <2>3, <2>4
  <2> QED
    BY <2>5
<1> HIDE DEF Tells
<1> QED
  BY <1>2, <1>3, <1>4, <1>5, <1>6

\* The rows a reply leaves.
LEMMA ReplyMessages ==
  ASSUME TypeOK, NEW session, NEW ids \in SUBSET MessageIds, NEW to, NEW text,
         Reply(session, ids, to, text), NEW m \in MessageIds,
         to \in {"working", "answered", "declined", "failed"}
  PROVE  LET moves == {n \in ids : ~Repeated(n, to)}
             landing == Landing(moves)
         IN /\ messages'[m].thread = messages[m].thread
            /\ messages'[m].batch = messages[m].batch
            /\ messages'[m].delivery = messages[m].delivery
            /\ m \in moves => messages'[m].state = to
            /\ (m \notin moves /\ messages[m].delivery \in landing /\ messages[m].state = "sent")
                 => messages'[m].state = "with_agent"
            /\ (m \notin moves /\ ~(messages[m].delivery \in landing /\ messages[m].state = "sent"))
                 => messages'[m].state = messages[m].state
<1> DEFINE moves == {n \in ids : ~Repeated(n, to)}
           landing == Landing(moves)
           threads == {messages[n].thread : n \in moves}
<1>1. PICK answers \in [threads -> moves] :
        messages' = [n \in MessageIds |->
             IF n \in moves
             THEN [messages[n] EXCEPT
                     !.state = to, !.line = (text /\ to = "working"),
                     !.replies = @ + IF /\ text /\ Final(to)
                                        /\ answers[messages[n].thread] = n
                                     THEN 1 ELSE 0]
             ELSE IF messages[n].delivery \in landing /\ messages[n].state = "sent"
             THEN [messages[n] EXCEPT !.state = "with_agent"]
             ELSE messages[n]]
  BY DEF Reply
<1> DEFINE line == text /\ to = "working"
           more == IF /\ text /\ Final(to) /\ answers[messages[m].thread] = m THEN 1 ELSE 0
<1>2. /\ m \in moves => messages'[m] = [messages[m] EXCEPT
                           !.state = to, !.line = line, !.replies = @ + more]
      /\ (m \notin moves /\ messages[m].delivery \in landing /\ messages[m].state = "sent")
           => messages'[m] = [messages[m] EXCEPT !.state = "with_agent"]
      /\ (m \notin moves /\ ~(messages[m].delivery \in landing /\ messages[m].state = "sent"))
           => messages'[m] = messages[m]
  <2> HIDE DEF moves, landing
  <2> QED
    BY <1>1
<1>3. messages[m] \in MessageRow
  BY DEF TypeOK
<1> HIDE DEF moves, landing, line, more
<1>4. /\ messages'[m].thread = messages[m].thread
      /\ messages'[m].batch = messages[m].batch
      /\ messages'[m].delivery = messages[m].delivery
      /\ m \in moves => messages'[m].state = to
      /\ (m \notin moves /\ messages[m].delivery \in landing /\ messages[m].state = "sent")
           => messages'[m].state = "with_agent"
      /\ (m \notin moves /\ ~(messages[m].delivery \in landing /\ messages[m].state = "sent"))
           => messages'[m].state = messages[m].state
  BY <1>2, <1>3 DEF MessageRow
<1> QED
  BY <1>4 DEF moves, landing

\* A reply settles, or brings to the agent, only what its session has.
LEMMA ReplyTells ==
  ASSUME AllTied, Had(messages, deliveries), NEW session, NEW ids \in SUBSET MessageIds,
         NEW to \in {"working", "answered", "declined", "failed"}, NEW text,
         Reply(session, ids, to, text)
  PROVE  /\ Had(messages', deliveries')
         /\ \A m \in MessageIds :
              \/ Stays(messages, deliveries, messages', deliveries', m)
              \/ IsReported(session, messages, deliveries, messages', deliveries', m)
<1> DEFINE moves == {m \in ids : ~Repeated(m, to)}
           landing == Landing(moves)
           touched == {messages[m].delivery : m \in {n \in moves : messages[n].state # "no_reply"}}
           over(d) == /\ deliveries[d].state = "inflight"
                      /\ \A m \in Carried(d) : messages'[m].state \notin Unsettled
<1>0. /\ TypeOK /\ Tied(batches, messages, deliveries) /\ CarriedTied(messages, deliveries)
      /\ \A m \in MessageIds : messages[m] \in MessageRow
      /\ \A d \in DeliveryIds : deliveries[d] \in DeliveryRow
      /\ \A m \in MessageIds : messages[m].delivery # 0 => messages[m].delivery \in DeliveryIds
  BY DeliveryIdOf DEF AllTied, TypeOK, Tied, Messages
<1>1. 0 \notin DeliveryIds /\ Unsettled = {"sent", "with_agent", "working"}
  BY DEF DeliveryIds, Unsettled
<1>2. ASSUME NEW m \in moves
      PROVE  /\ m \in MessageIds /\ messages[m].delivery # 0
             /\ deliveries[messages[m].delivery].session = session
             /\ messages[m].state = "sent" => deliveries[messages[m].delivery].state = "inflight"
             /\ messages[m].state \in Unsettled
                \/ (messages[m].state = "no_reply" /\ to # "working")
  <2>1. Replyable(session, m, to) /\ ~Repeated(m, to) /\ m \in MessageIds
    BY <1>2 DEF Reply
  <2> QED
    BY <2>1, ReplyableIs DEF Replyable, CarriedBy
<1>3. ASSUME NEW m \in MessageIds
      PROVE  /\ messages'[m].delivery = messages[m].delivery
             /\ m \in moves => messages'[m].state = to
             /\ (m \notin moves /\ messages[m].delivery \in landing /\ messages[m].state = "sent")
                  => messages'[m].state = "with_agent"
             /\ (m \notin moves /\ ~(messages[m].delivery \in landing /\ messages[m].state = "sent"))
                  => messages'[m].state = messages[m].state
  BY <1>0, ReplyMessages
<1>4. ASSUME NEW d \in DeliveryIds
      PROVE  /\ deliveries'[d].session = deliveries[d].session
             /\ d \notin touched => deliveries'[d] = deliveries[d]
             /\ d \in touched => deliveries'[d].shown = TRUE
             /\ over(d) => deliveries'[d].state \in {"inflight", "done"}
             /\ ~over(d) => deliveries'[d].state = deliveries[d].state
  <2> DEFINE held == deliveries[d].held /\ d \notin landing
  <2>1. /\ d \notin touched => deliveries'[d] = deliveries[d]
        /\ d \in touched => deliveries'[d] =
             [deliveries[d] EXCEPT !.touchedAt = now, !.shown = TRUE, !.held = held,
                                   !.state = IF over(d) THEN "done" ELSE @]
    BY DEF Reply
  <2>2. over(d) => deliveries[d].state = "inflight"
    OBVIOUS
  <2> HIDE DEF held, over, touched
  <2> QED
    BY <1>0, <2>1, <2>2 DEF DeliveryRow
<1>5. /\ \A d \in landing : /\ d \in touched /\ d \in DeliveryIds
                            /\ deliveries[d].state = "inflight" /\ deliveries[d].session = session
      /\ \A m \in moves : messages[m].state # "no_reply" => messages[m].delivery \in touched
      /\ \A m \in moves : messages[m].state = "sent" => messages[m].delivery \in landing
  <2>1. "sent" # "no_reply"
    OBVIOUS
  <2> QED
    BY <1>0, <1>2, <2>1 DEF Landing
<1>6. \A m \in MessageIds : messages'[m].state \in Unsettled => ~over(messages[m].delivery)
  BY DEF Carried
<1> HIDE DEF moves, landing, touched, over
<1>7. ASSUME NEW m \in MessageIds
      PROVE  /\ messages'[m].delivery = 0
                   => messages'[m].state \in {"none", "draft", "removed", "sent"}
             /\ (/\ messages'[m].delivery # 0
                 /\ deliveries'[messages'[m].delivery].state = "inflight"
                 /\ deliveries'[messages'[m].delivery].shown = FALSE)
                  => messages'[m].state = "sent"
  <2>1. CASE messages'[m].state = messages[m].state
    <3>1. messages[m].delivery = 0 => messages[m].state \in {"none", "draft", "removed", "sent"}
      BY DEF Had
    <3>2. ASSUME messages[m].delivery # 0, deliveries'[messages[m].delivery].state = "inflight",
                 deliveries'[messages[m].delivery].shown = FALSE
          PROVE  messages[m].state = "sent"
      <4>1. messages[m].delivery \notin touched /\ messages[m].delivery \in DeliveryIds
        BY <1>0, <1>4, <3>2
      <4>2. deliveries'[messages[m].delivery] = deliveries[messages[m].delivery]
        BY <1>4, <4>1
      <4> QED
        BY <3>2, <4>2 DEF Had
    <3> QED
      BY <1>3, <2>1, <3>1, <3>2
  <2>2. CASE m \in moves /\ messages[m].state = "no_reply"
    <3>1. messages[m].delivery \in DeliveryIds /\ messages[m].delivery # 0
      BY <1>0, <1>2, <2>2
    <3>2. ASSUME deliveries'[messages[m].delivery].state = "inflight",
                 deliveries'[messages[m].delivery].shown = FALSE
          PROVE  FALSE
      <4>1. messages[m].delivery \notin touched
        BY <1>4, <3>1, <3>2
      <4>2. deliveries'[messages[m].delivery] = deliveries[messages[m].delivery]
        BY <1>4, <3>1, <4>1
      <4> QED
        BY <2>2, <3>1, <3>2, <4>2 DEF Had
    <3> QED
      BY <1>3, <3>1, <3>2
  <2>3. CASE messages[m].delivery \in touched /\ messages[m].delivery # 0
    <3>1. messages[m].delivery \in DeliveryIds
      BY <1>0, <2>3
    <3> QED
      BY <1>3, <1>4, <2>3, <3>1
  <2>4. \/ messages'[m].state = messages[m].state
        \/ m \in moves /\ messages[m].state = "no_reply"
        \/ messages[m].delivery \in touched /\ messages[m].delivery # 0
    BY <1>1, <1>2, <1>3, <1>5
  <2> QED
    BY <2>1, <2>2, <2>3, <2>4
<1>8. ASSUME NEW m \in MessageIds, m \in moves
      PROVE  \/ Stays(messages, deliveries, messages', deliveries', m)
             \/ IsReported(session, messages, deliveries, messages', deliveries', m)
  <2>1. /\ messages[m].delivery \in DeliveryIds /\ messages[m].delivery # 0
        /\ deliveries[messages[m].delivery].session = session
        /\ deliveries'[messages[m].delivery].session = session
        /\ messages'[m].delivery = messages[m].delivery /\ messages'[m].state = to
    <3>1. /\ messages[m].delivery # 0 /\ deliveries[messages[m].delivery].session = session
      BY <1>2, <1>8
    <3>2. messages[m].delivery \in DeliveryIds
      BY <1>0, <3>1
    <3>3. deliveries'[messages[m].delivery].session = session
      BY <1>4, <3>1, <3>2
    <3>4. messages'[m].delivery = messages[m].delivery /\ messages'[m].state = to
      BY <1>3, <1>8
    <3> QED
      BY <3>1, <3>2, <3>3, <3>4
  <2>2. messages[m].state = "sent" => Flying(messages, deliveries, m)
    BY <1>2, <1>8, <2>1 DEF Flying
  <2>3. /\ HolderIn(messages, deliveries, m) = session
        /\ StageIn(messages, deliveries, m) \in {"given", "reached", "unanswered"}
        /\ StageIn(messages, deliveries, m) = "unanswered" => to # "working"
    BY <1>1, <1>2, <1>8, <2>1, <2>2, StagesAre
  <2>4. /\ HolderIn(messages', deliveries', m) = session
        /\ to = "working" => StageIn(messages', deliveries', m) = "reached"
        /\ to # "working" => StageIn(messages', deliveries', m) = "settled"
    BY <2>1, StagesAre
  <2> QED
    BY <2>3, <2>4 DEF IsReported
<1>9. ASSUME NEW m \in MessageIds, m \notin moves, messages[m].delivery \in landing,
             messages[m].state = "sent"
      PROVE  IsReported(session, messages, deliveries, messages', deliveries', m)
  <2>1. /\ messages[m].delivery \in DeliveryIds /\ messages[m].delivery # 0
        /\ deliveries[messages[m].delivery].session = session
        /\ deliveries[messages[m].delivery].state = "inflight"
        /\ deliveries'[messages[m].delivery].session = session
        /\ messages'[m].delivery = messages[m].delivery /\ messages'[m].state = "with_agent"
    <3>1. /\ messages[m].delivery \in DeliveryIds /\ messages[m].delivery # 0
          /\ deliveries[messages[m].delivery].session = session
          /\ deliveries[messages[m].delivery].state = "inflight"
      BY <1>1, <1>5, <1>9
    <3>2. deliveries'[messages[m].delivery].session = session
      BY <1>4, <3>1
    <3>3. messages'[m].delivery = messages[m].delivery /\ messages'[m].state = "with_agent"
      BY <1>3, <1>9
    <3> QED
      BY <3>1, <3>2, <3>3
  <2>2. StageIn(messages, deliveries, m) = "given" /\ HolderIn(messages, deliveries, m) = session
    BY <1>9, <2>1, StagesAre DEF Flying
  <2>3. StageIn(messages', deliveries', m) = "reached" /\ HolderIn(messages', deliveries', m) = session
    BY <2>1, StagesAre
  <2> QED
    BY <2>2, <2>3 DEF IsReported
<1>10. ASSUME NEW m \in MessageIds, m \notin moves,
              ~(messages[m].delivery \in landing /\ messages[m].state = "sent")
       PROVE  Stays(messages, deliveries, messages', deliveries', m)
  <2>1. messages'[m].state = messages[m].state /\ messages'[m].delivery = messages[m].delivery
    BY <1>3, <1>10
  <2>2. messages[m].delivery = 0 => messages[m].state \in {"none", "draft", "removed", "sent"}
    BY DEF Had
  <2>3. messages[m].delivery # 0 =>
          deliveries'[messages[m].delivery].session = deliveries[messages[m].delivery].session
    BY <1>0, <1>4
  <2>4. (messages[m].state = "sent" /\ messages[m].delivery # 0) =>
          deliveries'[messages[m].delivery].state = deliveries[messages[m].delivery].state
    BY <1>0, <1>1, <1>4, <1>6, <2>1
  <2> QED
    BY <2>1, <2>2, <2>3, <2>4, LeftAlone
<1>11. Had(messages', deliveries')
  BY <1>7 DEF Had
<1> QED
  BY <1>8, <1>9, <1>10, <1>11

\* Recovery sends messages back, or gives them up.
LEMMA RecoveryBack ==
  ASSUME AllTied, Had(messages, deliveries), Recovery
  PROVE  /\ Had(messages', deliveries')
         /\ \/ \A m \in MessageIds :
                  \/ Stays(messages, deliveries, messages', deliveries', m)
                  \/ GoesBack(messages, deliveries, messages', deliveries', m)
            \/ \A m \in MessageIds :
                  \/ Stays(messages, deliveries, messages', deliveries', m)
                  \/ IsGivenUp(messages, deliveries, messages', deliveries', m)
<1>0. /\ TypeOK /\ Tied(batches, messages, deliveries)
      /\ messages \in [MessageIds -> MessageRow] /\ deliveries \in [DeliveryIds -> DeliveryRow]
      /\ \A m \in MessageIds : messages[m] \in MessageRow
      /\ \A d \in DeliveryIds : deliveries[d] \in DeliveryRow
      /\ \A m \in MessageIds : messages[m].delivery # 0 => messages[m].delivery \in DeliveryIds
  BY DeliveryIdOf DEF AllTied, TypeOK, Messages
<1>1. 0 \notin DeliveryIds /\ Unsettled = {"sent", "with_agent", "working"}
  BY DEF DeliveryIds, Unsettled
<1>2. ASSUME NEW scope, NEW session, SetOwner(scope, session)
      PROVE  /\ Had(messages', deliveries')
             /\ \A m \in MessageIds :
                  \/ Stays(messages, deliveries, messages', deliveries', m)
                  \/ GoesBack(messages, deliveries, messages', deliveries', m)
  BY <1>0, <1>2, OwnerBack, OwnerHad DEF SetOwner
<1>3. ASSUME NEW d \in DeliveryIds, NEW session, MoveDelivery(d, session)
      PROVE  /\ Had(messages', deliveries')
             /\ \A m \in MessageIds :
                  \/ Stays(messages, deliveries, messages', deliveries', m)
                  \/ GoesBack(messages, deliveries, messages', deliveries', m)
  <2> DEFINE scope == deliveries[d].scope
             ds == MovedAway(scope, session)
  <2>1. /\ messages' = Requeued(scope, session)
        /\ deliveries' = [e \in DeliveryIds |->
             IF e = d /\ deliveries[d].state = "interrupted"
             THEN [deliveries[d] EXCEPT !.state = "moved"] ELSE ds[e]]
    BY <1>3 DEF MoveDelivery
  <2>2. /\ Had(messages', ds)
        /\ \A m \in MessageIds :
             \/ Stays(messages, deliveries, messages', ds, m)
             \/ GoesBack(messages, deliveries, messages', ds, m)
    BY <1>0, <2>1, OwnerBack, OwnerHad
  <2>3. \A e \in DeliveryIds :
          /\ deliveries'[e].session = ds[e].session /\ deliveries'[e].shown = ds[e].shown
          /\ deliveries'[e].state = "inflight" <=> ds[e].state = "inflight"
    <3>1. CASE deliveries[d].state = "interrupted"
      <4>1. ds[d] = deliveries[d]
        BY <3>1 DEF MovedAway
      <4> HIDE DEF ds, scope
      <4>2. /\ deliveries'[d] = [deliveries[d] EXCEPT !.state = "moved"]
            /\ \A e \in DeliveryIds : e # d => deliveries'[e] = ds[e]
        BY <2>1, <3>1
      <4>3. /\ deliveries'[d].session = ds[d].session /\ deliveries'[d].shown = ds[d].shown
            /\ deliveries'[d].state = "moved" /\ ds[d].state = "interrupted"
        BY <1>0, <3>1, <4>1, <4>2 DEF DeliveryRow
      <4> QED
        BY <4>2, <4>3
    <3>2. CASE deliveries[d].state # "interrupted"
      <4> HIDE DEF ds, scope
      <4>1. \A e \in DeliveryIds : deliveries'[e] = ds[e]
        BY <2>1, <3>2
      <4> QED
        BY <4>1
    <3> QED
      BY <3>1, <3>2
  <2>4. \A m \in MessageIds : messages'[m].delivery # 0 => messages'[m].delivery \in DeliveryIds
    BY <1>0, <2>1, OwnerMoves
  <2> HIDE DEF ds, scope
  <2>5. Had(messages', deliveries')
    BY <2>2, <2>3, <2>4 DEF Had
  <2>6. ASSUME NEW m \in MessageIds
        PROVE  \/ Stays(messages, deliveries, messages', deliveries', m)
               \/ GoesBack(messages, deliveries, messages', deliveries', m)
    <3>1. messages'[m].delivery = 0 => messages'[m].state \in {"none", "draft", "removed", "sent"}
      BY <2>2 DEF Had
    <3>2. Stays(messages', ds, messages', deliveries', m)
      BY <2>3, <2>4, <3>1, LeftAlone
    <3> QED
      BY <2>2, <3>2 DEF Stays, GoesBack
  <2> QED
    BY <2>5, <2>6
\* The deliveries of left leave flight, with everything unsettled in them.
<1> DEFINE Leaves(left, to) ==
      /\ \A d \in left : d \in DeliveryIds /\ deliveries[d].state = "inflight"
      /\ \A d \in DeliveryIds :
           /\ deliveries'[d].session = deliveries[d].session
           /\ d \in left => deliveries'[d].state # "inflight"
           /\ d \notin left => deliveries'[d] = deliveries[d]
      /\ \A m \in MessageIds :
           /\ messages'[m].delivery = messages[m].delivery
           /\ \/ /\ messages[m].delivery \in left /\ messages[m].state \in Unsettled
                 /\ messages'[m].state = to
              \/ /\ ~(messages[m].delivery \in left /\ messages[m].state \in Unsettled)
                 /\ messages'[m].state = messages[m].state
<1>4. ASSUME NEW left, NEW to \in {"no_reply", "sent"}, Leaves(left, to)
      PROVE  /\ Had(messages', deliveries')
             /\ to = "sent" => \A m \in MessageIds :
                  \/ Stays(messages, deliveries, messages', deliveries', m)
                  \/ GoesBack(messages, deliveries, messages', deliveries', m)
             /\ to = "no_reply" => \A m \in MessageIds :
                  \/ Stays(messages, deliveries, messages', deliveries', m)
                  \/ IsGivenUp(messages, deliveries, messages', deliveries', m)
  <2>1. 0 \notin left
    BY <1>1, <1>4
  <2>2. ASSUME NEW m \in MessageIds
        PROVE  /\ messages'[m].delivery = 0
                    => messages'[m].state \in {"none", "draft", "removed", "sent"}
               /\ (/\ messages'[m].delivery # 0
                   /\ deliveries'[messages'[m].delivery].state = "inflight"
                   /\ deliveries'[messages'[m].delivery].shown = FALSE)
                    => messages'[m].state = "sent"
    <3>1. CASE messages[m].delivery \in left
      BY <1>4, <2>1, <3>1
    <3>2. CASE messages[m].delivery \notin left
      <4>1. messages'[m].state = messages[m].state /\ messages'[m].delivery = messages[m].delivery
        BY <1>4, <3>2
      <4>2. messages[m].delivery # 0 =>
              deliveries'[messages[m].delivery] = deliveries[messages[m].delivery]
        BY <1>0, <1>4, <3>2
      <4> QED
        BY <4>1, <4>2 DEF Had
    <3> QED
      BY <3>1, <3>2
  <2>3. ASSUME NEW m \in MessageIds, messages[m].delivery \in left, messages[m].state \in Unsettled
        PROVE  /\ StageIn(messages, deliveries, m) \in {"given", "reached"}
               /\ HolderIn(messages, deliveries, m) = deliveries[messages[m].delivery].session
               /\ to = "sent" => /\ StageIn(messages', deliveries', m) = "waiting"
                                 /\ HolderIn(messages', deliveries', m) = NoOwner
               /\ to = "no_reply" =>
                    /\ StageIn(messages', deliveries', m) = "unanswered"
                    /\ HolderIn(messages', deliveries', m) = deliveries[messages[m].delivery].session
    <3>1. /\ messages[m].delivery # 0 /\ messages[m].delivery \in DeliveryIds
          /\ deliveries[messages[m].delivery].state = "inflight"
          /\ messages'[m].delivery = messages[m].delivery /\ messages'[m].state = to
          /\ deliveries'[messages[m].delivery].state # "inflight"
          /\ deliveries'[messages[m].delivery].session = deliveries[messages[m].delivery].session
      BY <1>4, <2>1, <2>3
    <3>2. Flying(messages, deliveries, m) /\ ~Flying(messages', deliveries', m)
      BY <3>1 DEF Flying
    <3> QED
      BY <1>1, <2>3, <3>1, <3>2, StagesAre
  <2>4. ASSUME NEW m \in MessageIds,
               ~(messages[m].delivery \in left /\ messages[m].state \in Unsettled)
        PROVE  Stays(messages, deliveries, messages', deliveries', m)
    <3>1. messages'[m].state = messages[m].state /\ messages'[m].delivery = messages[m].delivery
      BY <1>4, <2>4
    <3>2. messages[m].delivery = 0 => messages[m].state \in {"none", "draft", "removed", "sent"}
      BY DEF Had
    <3>3. messages[m].delivery # 0 =>
            deliveries'[messages[m].delivery].session = deliveries[messages[m].delivery].session
      BY <1>0, <1>4
    <3>4. (messages[m].state = "sent" /\ messages[m].delivery # 0) =>
            deliveries'[messages[m].delivery].state = deliveries[messages[m].delivery].state
      BY <1>0, <1>1, <1>4, <2>4
    <3> QED
      BY <3>1, <3>2, <3>3, <3>4, LeftAlone
  <2>5. Had(messages', deliveries')
    BY <2>2 DEF Had
  <2> QED
    BY <2>3, <2>4, <2>5 DEF GoesBack, IsGivenUp
<1>5. ASSUME NEW d \in DeliveryIds, Release(d) PROVE Leaves({d}, "no_reply")
  <2>1. /\ deliveries[d].state = "inflight"
        /\ deliveries' = [deliveries EXCEPT ![d] = [deliveries[d] EXCEPT !.state = "released"]]
        /\ messages' = [m \in MessageIds |->
             IF messages[m].delivery = d /\ messages[m].state \in Unsettled
             THEN [messages[m] EXCEPT !.state = "no_reply"] ELSE messages[m]]
    BY <1>5 DEF Release, OpenIn
  <2>2. \A e \in DeliveryIds :
          /\ deliveries'[e].session = deliveries[e].session
          /\ e \in {d} => deliveries'[e].state # "inflight"
          /\ e \notin {d} => deliveries'[e] = deliveries[e]
    BY <1>0, <2>1 DEF DeliveryRow
  <2>3. \A m \in MessageIds :
           /\ messages'[m].delivery = messages[m].delivery
           /\ \/ /\ messages[m].delivery \in {d} /\ messages[m].state \in Unsettled
                 /\ messages'[m].state = "no_reply"
              \/ /\ ~(messages[m].delivery \in {d} /\ messages[m].state \in Unsettled)
                 /\ messages'[m].state = messages[m].state
    BY <1>0, <2>1 DEF MessageRow
  <2> QED
    BY <2>1, <2>2, <2>3
<1>6. ASSUME Interrupt PROVE \E left : Leaves(left, "sent")
  <2> DEFINE left == {d \in DeliveryIds : deliveries[d].state = "inflight"}
  <2>1. /\ deliveries' = [d \in DeliveryIds |->
             IF d \in left THEN [deliveries[d] EXCEPT !.state = "interrupted"] ELSE deliveries[d]]
        /\ messages' = [m \in MessageIds |->
             IF messages[m].delivery \in left /\ messages[m].state \in Unsettled
             THEN [messages[m] EXCEPT !.state = "sent", !.line = FALSE] ELSE messages[m]]
    BY <1>6 DEF Interrupt
  <2>2. \A d \in left : d \in DeliveryIds /\ deliveries[d].state = "inflight"
    OBVIOUS
  <2> HIDE DEF left
  <2>3. \A e \in DeliveryIds :
          /\ deliveries'[e].session = deliveries[e].session
          /\ e \in left => deliveries'[e].state # "inflight"
          /\ e \notin left => deliveries'[e] = deliveries[e]
    BY <1>0, <2>1 DEF DeliveryRow
  <2>4. \A m \in MessageIds :
           /\ messages'[m].delivery = messages[m].delivery
           /\ \/ /\ messages[m].delivery \in left /\ messages[m].state \in Unsettled
                 /\ messages'[m].state = "sent"
              \/ /\ ~(messages[m].delivery \in left /\ messages[m].state \in Unsettled)
                 /\ messages'[m].state = messages[m].state
    BY <1>0, <2>1 DEF MessageRow
  <2>5. Leaves(left, "sent")
    BY <2>2, <2>3, <2>4
  <2> QED
    BY <2>5
<1> HIDE DEF Leaves
<1>7. ASSUME NEW ids \in SUBSET MessageIds, Resend(ids)
      PROVE  /\ Had(messages', deliveries')
             /\ \A m \in MessageIds :
                  \/ Stays(messages, deliveries, messages', deliveries', m)
                  \/ GoesBack(messages, deliveries, messages', deliveries', m)
  <2>1. /\ deliveries' = deliveries
        /\ \A m \in MessageIds :
             \/ messages'[m] = messages[m]
             \/ /\ messages[m].state = "no_reply"
                /\ messages'[m].state = "sent" /\ messages'[m].delivery = 0
    <3>1. \A st : Allowed(st, "sent") => st = "no_reply"
      BY DEF Allowed, NextStates
    <3> QED
      BY <1>0, <1>7, <3>1 DEF Resend, MessageRow
  <2>2. Had(messages', deliveries')
    BY <2>1 DEF Had
  <2>3. ASSUME NEW m \in MessageIds
        PROVE  \/ Stays(messages, deliveries, messages', deliveries', m)
               \/ GoesBack(messages, deliveries, messages', deliveries', m)
    <3>1. CASE messages'[m] = messages[m]
      <4>1. messages[m].delivery = 0 => messages[m].state \in {"none", "draft", "removed", "sent"}
        BY DEF Had
      <4> QED
        BY <2>1, <3>1, <4>1, LeftAlone
    <3>2. CASE /\ messages[m].state = "no_reply"
               /\ messages'[m].state = "sent" /\ messages'[m].delivery = 0
      <4>1. ~Flying(messages', deliveries', m)
        BY <3>2 DEF Flying
      <4> QED
        BY <3>2, <4>1, StagesAre DEF GoesBack
    <3> QED
      BY <2>1, <3>1, <3>2
  <2> QED
    BY <2>2, <2>3
<1>8. CASE \E d \in DeliveryIds : Release(d)
  BY <1>4, <1>5, <1>8
<1>9. CASE Interrupt
  BY <1>4, <1>6, <1>9
<1> QED
  BY <1>2, <1>3, <1>7, <1>8, <1>9 DEF Recovery

\* The mapping, as Handout reads it, is the stages and holders of the tables.
LEMMA Mapped ==
  ASSUME NEW m \in MessageIds
  PROVE  /\ StageOf(m) = StageIn(messages, deliveries, m)
         /\ HolderOf(m) = HolderIn(messages, deliveries, m)
         /\ StageOf(m)' = StageIn(messages', deliveries', m)
         /\ HolderOf(m)' = HolderIn(messages', deliveries', m)
BY DEF StageOf, HolderOf, StageIn, HolderIn, Queued

LEMMA MovesMapped ==
  ASSUME NEW m \in MessageIds
  PROVE  /\ Stays(messages, deliveries, messages', deliveries', m) => Promised!Same(m)
         /\ GoesBack(messages, deliveries, messages', deliveries', m) => Promised!Back(m)
         /\ IsSent(messages, deliveries, messages', deliveries', m) => Promised!Sent(m)
         /\ IsGivenUp(messages, deliveries, messages', deliveries', m) => Promised!GivenUp(m)
         /\ \A s \in Sessions :
              /\ IsGiven(s, messages, deliveries, messages', deliveries', m)
                   => Promised!GivenTo(s, m)
              /\ IsReported(s, messages, deliveries, messages', deliveries', m)
                   => Promised!ReportedBy(s, m)
<1>1. /\ [n \in MessageIds |-> StageOf(n)][m] = StageIn(messages, deliveries, m)
      /\ [n \in MessageIds |-> HolderOf(n)][m] = HolderIn(messages, deliveries, m)
      /\ [n \in MessageIds |-> StageOf(n)]'[m] = StageIn(messages', deliveries', m)
      /\ [n \in MessageIds |-> HolderOf(n)]'[m] = HolderIn(messages', deliveries', m)
  BY Mapped
<1>2. Stays(messages, deliveries, messages', deliveries', m) => Promised!Same(m)
  BY <1>1 DEF Stays, Promised!Same, Promised!To
<1>3. GoesBack(messages, deliveries, messages', deliveries', m) => Promised!Back(m)
  BY <1>1 DEF GoesBack, Promised!Back, Promised!To
<1>4. IsSent(messages, deliveries, messages', deliveries', m) => Promised!Sent(m)
  BY <1>1 DEF IsSent, Promised!Sent, Promised!To
<1>5. IsGivenUp(messages, deliveries, messages', deliveries', m) => Promised!GivenUp(m)
  BY <1>1 DEF IsGivenUp, Promised!GivenUp, Promised!To
<1>6. ASSUME NEW s \in Sessions, IsGiven(s, messages, deliveries, messages', deliveries', m)
      PROVE  Promised!GivenTo(s, m)
  BY <1>1, <1>6 DEF IsGiven, Promised!GivenTo, Promised!To
<1>7. ASSUME NEW s \in Sessions, IsReported(s, messages, deliveries, messages', deliveries', m)
      PROVE  Promised!ReportedBy(s, m)
  BY <1>1, <1>7 DEF IsReported, Promised!ReportedBy, Promised!To
<1> QED
  BY <1>2, <1>3, <1>4, <1>5, <1>6, <1>7

AllHad == AllTied /\ Had(messages, deliveries)

LEMMA RowsMapped == AllHad => Promised!Rows
<1> SUFFICES ASSUME AllHad PROVE Promised!Rows
  OBVIOUS
<1>1. ASSUME NEW m \in MessageIds
      PROVE  /\ StageOf(m) \in {"unsent", "gone", "waiting", "given", "reached", "unanswered", "settled"}
             /\ HolderOf(m) \in Sessions \cup {NoOwner}
  <2>1. StageIn(messages, deliveries, m)
          \in {"unsent", "gone", "waiting", "given", "reached", "unanswered", "settled"}
    BY DEF StageIn
  <2>2. CASE messages[m].delivery = 0
    <3>1. messages[m].state \in {"none", "draft", "removed", "sent"}
      BY <2>2 DEF AllHad, Had
    <3> QED
      BY <2>1, <2>2, <3>1, Mapped, StagesAre DEF Flying
  <2>3. CASE messages[m].delivery # 0
    <3>1. messages[m].delivery \in DeliveryIds
      BY <2>3, DeliveryIdOf DEF AllHad, AllTied, TypeOK, Messages
    <3>2. deliveries[messages[m].delivery].session \in Sessions \cup {NoOwner}
      BY <3>1 DEF AllHad, AllTied, TypeOK, DeliveryRow
    <3> QED
      BY <2>1, <3>2, Mapped DEF HolderIn
  <2> QED
    BY <2>2, <2>3
<1> QED
  BY <1>1 DEF Promised!Rows, Promised!Stages

\* Every step keeps a message's stage and its delivery together.
LEMMA StepHad == AllHad /\ [Next]_vars => Had(messages', deliveries')
<1> SUFFICES ASSUME AllTied, Had(messages, deliveries), [Next]_vars
             PROVE  Had(messages', deliveries')
  BY DEF AllHad
<1>1. CASE Writes
  BY <1>1, WritesSend
<1>2. CASE Claims
  <2>1. PICK session \in Sessions, may \in SUBSET Scopes, present \in SUBSET Sessions :
          Claim(session, may, present)
    BY <1>2 DEF Claims
  <2> QED
    BY <2>1, ClaimsGive
<1>3. CASE Reports
  <2>1. PICK session \in Sessions :
          \/ \E d \in DeliveryIds, token \in 1..MaxClaims :
               Held(session, d, token) \/ Landed(session, d, token)
          \/ TurnEnded(session)
          \/ \E named \in SUBSET DeliveryIds : TurnEndedFor(session, named)
    BY <1>3 DEF Reports
  <2> QED
    BY <2>1, ReportsTell
<1>4. CASE Replies
  <2>1. PICK session \in Sessions, ids \in SUBSET MessageIds, ack \in Acknowledgements :
          Reply(session, ids, ack[1], ack[2])
    BY <1>4 DEF Replies
  <2>2. ack[1] \in {"working", "answered", "declined", "failed"}
    BY AcknowledgementsAssumption
  <2> QED
    BY <2>1, <2>2, ReplyTells
<1>5. CASE Recovery
  BY <1>5, RecoveryBack
<1>6. CASE Tick \/ UNCHANGED vars
  BY <1>6 DEF Tick, vars
<1> QED
  BY <1>1, <1>2, <1>3, <1>4, <1>5, <1>6 DEF Next

LEMMA HadHolds == Spec => []AllHad
<1>1. Init => Had(messages, deliveries)
  BY DEF Init, Had
<1>2. Had(messages, deliveries) /\ AllTied /\ [Next]_vars => Had(messages, deliveries)'
  BY StepHad DEF AllHad
<1>3. AllTied /\ Had(messages, deliveries) => AllHad
  BY DEF AllHad
<1> QED
  BY <1>1, <1>2, <1>3, TiesHold, PTL DEF Spec

\* Every step of the store is a step of Handout.
LEMMA StepPromised ==
  AllHad /\ Promised!Rows' /\ [Next]_vars
    => [Promised!Next]_(Promised!vars)
<1> SUFFICES ASSUME AllTied, Had(messages, deliveries), Promised!Rows', [Next]_vars
             PROVE  [Promised!Next]_(Promised!vars)
  BY DEF AllHad
<1>1. CASE Writes
  BY <1>1, WritesSend, MovesMapped DEF Promised!Next, Promised!Write
<1>2. CASE Claims
  <2>1. PICK session \in Sessions, may \in SUBSET Scopes, present \in SUBSET Sessions :
          Claim(session, may, present)
    BY <1>2 DEF Claims
  <2>2. \A m \in MessageIds :
             \/ Stays(messages, deliveries, messages', deliveries', m)
             \/ IsGiven(session, messages, deliveries, messages', deliveries', m)
             \/ GoesBack(messages, deliveries, messages', deliveries', m)
    BY <2>1, ClaimsGive
  <2>3. \A m \in MessageIds :
          Promised!Same(m) \/ Promised!GivenTo(session, m) \/ Promised!Back(m)
    BY <2>2, MovesMapped
  <2>4. Promised!Give(session)
    BY <2>3 DEF Promised!Give
  <2> QED
    BY <2>2, <2>4 DEF Promised!Next
<1>3. CASE Reports
  <2>1. PICK session \in Sessions :
          \/ \E d \in DeliveryIds, token \in 1..MaxClaims :
               Held(session, d, token) \/ Landed(session, d, token)
          \/ TurnEnded(session)
          \/ \E named \in SUBSET DeliveryIds : TurnEndedFor(session, named)
    BY <1>3 DEF Reports
  <2>2. \A m \in MessageIds :
             \/ Stays(messages, deliveries, messages', deliveries', m)
             \/ IsReported(session, messages, deliveries, messages', deliveries', m)
    BY <2>1, ReportsTell
  <2>3. \A m \in MessageIds : Promised!Same(m) \/ Promised!ReportedBy(session, m)
    BY <2>2, MovesMapped
  <2>4. Promised!Report(session)
    BY <2>3 DEF Promised!Report
  <2> QED
    BY <2>2, <2>4 DEF Promised!Next
<1>4. CASE Replies
  <2>1. PICK session \in Sessions, ids \in SUBSET MessageIds, ack \in Acknowledgements :
          Reply(session, ids, ack[1], ack[2])
    BY <1>4 DEF Replies
  <2>2. ack[1] \in {"working", "answered", "declined", "failed"}
    BY AcknowledgementsAssumption
  <2>3. \A m \in MessageIds :
             \/ Stays(messages, deliveries, messages', deliveries', m)
             \/ IsReported(session, messages, deliveries, messages', deliveries', m)
    BY <2>1, <2>2, ReplyTells
  <2>4. \A m \in MessageIds : Promised!Same(m) \/ Promised!ReportedBy(session, m)
    BY <2>3, MovesMapped
  <2>5. Promised!Report(session)
    BY <2>4 DEF Promised!Report
  <2> QED
    BY <2>3, <2>5 DEF Promised!Next
<1>5. CASE Recovery
  BY <1>5, RecoveryBack, MovesMapped DEF Promised!Next, Promised!TakeBack, Promised!GiveUp
<1>6. CASE Tick \/ UNCHANGED vars
  <2>1. messages' = messages /\ deliveries' = deliveries
    BY <1>6 DEF Tick, vars
  <2>2. \A m \in MessageIds : StageOf(m)' = StageOf(m) /\ HolderOf(m)' = HolderOf(m)
    BY <2>1, Mapped
  <2>3. UNCHANGED Promised!vars
    BY <2>2 DEF Promised!vars
  <2> QED
    BY <2>1, <2>3
<1> QED
  BY <1>1, <1>2, <1>3, <1>4, <1>5, <1>6 DEF Next

\* Whatever batches, deliveries, tokens and clocks do, each message lives by
\* Handout: one session has it, only its word moves the message on or settles
\* it, and nothing settled is given out again.
THEOREM StoreImplementsHandout == Spec => ImplementsHandout
<1>1. Init => Promised!Init
  <2> SUFFICES ASSUME Init PROVE Promised!Init
    OBVIOUS
  <2>1. \A m \in MessageIds : messages[m].state = "none"
    BY DEF Init
  <2>2. \A m \in MessageIds : StageOf(m) = "unsent" /\ HolderOf(m) = NoOwner
    BY <2>1, Mapped, StagesAre
  <2> QED
    BY <2>2 DEF Promised!Init
<1>2. AllHad' => Promised!Rows'
  BY RowsMapped, PTL
<1>3. AllHad /\ AllHad' /\ [Next]_vars => [Promised!Next]_(Promised!vars)
  BY <1>2, StepPromised
<1> QED
  BY <1>1, <1>3, HadHolds, PTL DEF Spec, ImplementsHandout, Promised!Spec
--------------------------------------------------------------------------------
(* Moves and claims: what one step may do to a row.                         *)

\* No state changes but as msgstate draws or the package comment lists.
DrawnTo(ms) ==
  \A m \in MessageIds :
    ms[m].state # messages[m].state => Drawn(messages[m].state, ms[m].state)

\* The moves made outside the lifecycle's own table.
LEMMA DrawnAre ==
  /\ \A st \in Unsettled \cup {"no_reply"} : st = "sent" \/ Drawn(st, "sent")
  /\ \A st \in Unsettled : Drawn(st, "no_reply")
  /\ \A from, to : Allowed(from, to) \/ Acknowledge(from, to) => Drawn(from, to)
  /\ \A from \in {"none", "draft"} : \A to \in {"draft", "sent", "removed"} : Drawn(from, to)
  BY DEF Drawn, Allowed, NextStates, Unsettled

MessageStates == LifecycleStates \cup {"none", "draft", "removed"}

\* Each row is left, or its state is moved as drawn and other columns with it.
LEMMA RowsDrawn ==
  ASSUME TypeOK, NEW ms,
         \A m \in MessageIds :
           \/ ms[m] = messages[m]
           \/ \E st \in MessageStates :
                /\ st = messages[m].state \/ Drawn(messages[m].state, st)
                /\ \/ ms[m] = [messages[m] EXCEPT !.state = st]
                   \/ ms[m] = [messages[m] EXCEPT !.state = st, !.line = FALSE]
                   \/ ms[m] = [messages[m] EXCEPT !.state = st, !.batch = 0]
                   \/ ms[m] = [messages[m] EXCEPT !.state = st, !.queuedAt = now]
                   \/ ms[m] = [messages[m] EXCEPT !.state = st, !.delivery = 0,
                                                  !.queuedAt = now, !.line = FALSE]
  PROVE  DrawnTo(ms)
<1> SUFFICES ASSUME NEW m \in MessageIds, ms[m].state # messages[m].state
             PROVE  Drawn(messages[m].state, ms[m].state)
  BY DEF DrawnTo
<1>1. messages[m] \in MessageRow
  BY DEF TypeOK
<1>2. PICK st \in MessageStates :
        /\ st = messages[m].state \/ Drawn(messages[m].state, st)
        /\ \/ ms[m] = [messages[m] EXCEPT !.state = st]
           \/ ms[m] = [messages[m] EXCEPT !.state = st, !.line = FALSE]
           \/ ms[m] = [messages[m] EXCEPT !.state = st, !.batch = 0]
           \/ ms[m] = [messages[m] EXCEPT !.state = st, !.queuedAt = now]
           \/ ms[m] = [messages[m] EXCEPT !.state = st, !.delivery = 0,
                                          !.queuedAt = now, !.line = FALSE]
  OBVIOUS
<1>3. ms[m].state = st
  BY <1>1, <1>2 DEF MessageRow
<1> QED
  BY <1>2, <1>3

LEMMA RequeuedDrawn ==
  ASSUME TypeOK, NEW scope, NEW session PROVE DrawnTo(Requeued(scope, session))
<1>1. ASSUME NEW m \in MessageIds
      PROVE  LET ms == Requeued(scope, session)
             IN \/ ms[m] = messages[m]
                \/ /\ messages[m].state = "sent" \/ Drawn(messages[m].state, "sent")
                   /\ ms[m] = [messages[m] EXCEPT !.state = "sent", !.line = FALSE]
  BY DrawnAre DEF Requeued
<1>2. "sent" \in MessageStates
  BY DEF MessageStates, LifecycleStates
<1> QED
  BY <1>1, <1>2, RowsDrawn

\* Handing out moves no message.
LEMMA ClaimFromStays ==
  ASSUME NEW ms \in Messages, NEW ds, NEW from, NEW session, NEW present,
         ClaimFrom(ms, ds, from, session, present)
  PROVE  \A m \in MessageIds : messages'[m].state = ms[m].state
<1>1. CASE TakeBack(ms, ds, from, session, present)
  BY <1>1 DEF TakeBack
<1>2. CASE HandOut(ms, ds, from, session)
  <2>1. PICK first, d : messages' = [m \in MessageIds |->
          IF m \in WholeSend(ms, ds, first) THEN [ms[m] EXCEPT !.delivery = d] ELSE ms[m]]
    BY <1>2 DEF HandOut
  <2>2. \A m \in MessageIds : ms[m] \in MessageRow
    BY DEF Messages
  <2> QED
    BY <2>1, <2>2 DEF MessageRow
<1> QED
  BY <1>1, <1>2 DEF ClaimFrom

LEMMA ClaimsDrawn == TypeOK /\ Claims => DrawnTo(messages')
<1> SUFFICES ASSUME TypeOK, NEW session \in Sessions, NEW may \in SUBSET Scopes,
                    NEW present \in SUBSET Sessions, Claim(session, may, present)
             PROVE  DrawnTo(messages')
  BY DEF Claims
<1>1. messages \in Messages
  BY DEF TypeOK, Messages
<1>2. CASE ClaimOwn(session, may, present) \/ ClaimFree(session, may, present)
  BY <1>1, <1>2, ClaimFromStays DEF ClaimOwn, ClaimFree, DrawnTo
<1>3. CASE ClaimTakeover(session, may, present)
  <2>1. PICK scope, own :
          \/ ClaimFrom(Requeued(scope, session), MovedAway(scope, session), own, session, present)
          \/ messages' = Requeued(scope, session)
    BY <1>3 DEF ClaimTakeover
  <2>2. Requeued(scope, session) \in Messages /\ DrawnTo(Requeued(scope, session))
    BY <1>1, RequeuedType, RequeuedDrawn
  <2>3. \A m \in MessageIds : messages'[m].state = Requeued(scope, session)[m].state
    BY <2>1, <2>2, ClaimFromStays
  <2> QED
    BY <2>2, <2>3 DEF DrawnTo
<1> QED
  BY <1>2, <1>3 DEF Claim

LEMMA WritesDrawn == TypeOK /\ Writes => DrawnTo(messages')
<1> SUFFICES ASSUME TypeOK, Writes PROVE DrawnTo(messages')
  OBVIOUS
<1>1. {"none", "draft", "sent", "removed"} \subseteq MessageStates
  BY DEF MessageStates, LifecycleStates
<1>2. ASSUME NEW m \in MessageIds, FreshId(messages, m), NEW t, NEW b, NEW p,
             NEW st \in {"draft", "sent"}, NEW at, Insert(m, t, b, p, st, at)
      PROVE  DrawnTo(messages')
  <2>1. messages[m].state = "none" /\ messages'[m].state = st
        /\ \A n \in MessageIds : n # m => messages'[n] = messages[n]
    BY <1>2 DEF FreshId, Insert, TypeOK
  <2> QED
    BY <2>1, DrawnAre DEF DrawnTo
<1>3. ASSUME NEW t \in Threads, Draft(t) \/ Post(t) PROVE DrawnTo(messages')
  <2>2. CASE Draft(t)
    <3>1. PICK b \in BatchIds, m \in MessageIds :
            /\ FreshId(messages, m)
            /\ \E p \in 1..MaxMessages : NextPos(b, p) /\ Insert(m, t, b, p, "draft", 0)
      BY <2>2 DEF Draft
    <3> QED
      BY <1>2, <3>1
  <2>3. CASE Post(t)
    <3>1. PICK b \in BatchIds, m \in MessageIds :
            FreshId(messages, m) /\ Insert(m, t, b, 1, "sent", now)
      BY <2>3 DEF Post
    <3> QED
      BY <1>2, <3>1
  <2> QED
    BY <1>3, <2>2, <2>3
<1>4. ASSUME NEW m \in MessageIds, RemoveDraft(m) PROVE DrawnTo(messages')
  <2>1. messages[m].state = "draft" /\ Drawn(messages[m].state, "removed")
    BY <1>4, DrawnAre DEF RemoveDraft
  <2>2. \A n \in MessageIds :
          \/ messages'[n] = messages[n]
          \/ n = m /\ messages'[n] = [messages[n] EXCEPT !.state = "removed", !.batch = 0]
    BY <1>4 DEF RemoveDraft, TypeOK
  <2> QED
    BY <1>1, <2>1, <2>2, RowsDrawn
<1>5. ASSUME NEW b \in BatchIds, ReorderBatch(b) PROVE DrawnTo(messages')
  <2>1. PICK order : messages' = [m \in MessageIds |->
          IF m \in Drafts(b) THEN [messages[m] EXCEPT !.pos = order[m]] ELSE messages[m]]
    BY <1>5 DEF ReorderBatch
  <2>2. \A m \in MessageIds : messages'[m].state = messages[m].state
    BY <2>1 DEF TypeOK, MessageRow
  <2> QED
    BY <2>2 DEF DrawnTo
<1>6. ASSUME NEW b \in BatchIds, SendBatch(b) PROVE DrawnTo(messages')
  <2>1. \A m \in MessageIds :
          \/ messages'[m] = messages[m]
          \/ /\ Drawn(messages[m].state, "sent")
             /\ messages'[m] = [messages[m] EXCEPT !.state = "sent", !.queuedAt = now]
    BY <1>6, DrawnAre DEF SendBatch, Drafts
  <2> QED
    BY <1>1, <2>1, RowsDrawn
<1> QED
  BY <1>3, <1>4, <1>5, <1>6 DEF Writes

LEMMA ReportsDrawn == TypeOK /\ Reports => DrawnTo(messages')
<1> SUFFICES ASSUME TypeOK, NEW session \in Sessions,
                    \/ \E d \in DeliveryIds, token \in 1..MaxClaims :
                         Held(session, d, token) \/ Landed(session, d, token)
                    \/ TurnEnded(session)
                    \/ \E named \in SUBSET DeliveryIds : TurnEndedFor(session, named)
             PROVE  DrawnTo(messages')
  BY DEF Reports
<1>1. {"with_agent", "no_reply"} \subseteq MessageStates
  BY DEF MessageStates, LifecycleStates
<1>2. ASSUME NEW M, NEW to \in {"with_agent", "no_reply"}, messages' = MoveMessages(M, to)
      PROVE  DrawnTo(messages')
  <2>1. \A m \in MessageIds :
          \/ messages'[m] = messages[m]
          \/ /\ Drawn(messages[m].state, to)
             /\ messages'[m] = [messages[m] EXCEPT !.state = to]
    BY <1>2, DrawnAre DEF MoveMessages
  <2> QED
    BY <1>1, <2>1, RowsDrawn
<1>3. ASSUME NEW named, TurnEndedFor(session, named) PROVE DrawnTo(messages')
  <2>1. \A m \in MessageIds :
          \/ messages'[m] = messages[m]
          \/ /\ Drawn(messages[m].state, "no_reply")
             /\ messages'[m] = [messages[m] EXCEPT !.state = "no_reply"]
    BY <1>3, DrawnAre DEF TurnEndedFor
  <2> QED
    BY <1>1, <2>1, RowsDrawn
<1>4. ASSUME NEW d, NEW token, Held(session, d, token) PROVE DrawnTo(messages')
  BY <1>4 DEF Held, DrawnTo
<1> QED
  BY <1>2, <1>3, <1>4 DEF Landed, TurnEnded

LEMMA ReplyDrawn ==
  ASSUME TypeOK, NEW session, NEW ids \in SUBSET MessageIds,
         NEW to \in {"working", "answered", "declined", "failed"}, NEW text,
         Reply(session, ids, to, text)
  PROVE  DrawnTo(messages')
<1> DEFINE moves == {n \in ids : ~Repeated(n, to)}
           landing == Landing(moves)
<1>1. ASSUME NEW m \in MessageIds
      PROVE  /\ messages'[m].thread = messages[m].thread
             /\ messages'[m].batch = messages[m].batch
             /\ messages'[m].delivery = messages[m].delivery
             /\ m \in moves => messages'[m].state = to
             /\ (m \notin moves /\ messages[m].delivery \in landing /\ messages[m].state = "sent")
                  => messages'[m].state = "with_agent"
             /\ (m \notin moves /\ ~(messages[m].delivery \in landing /\ messages[m].state = "sent"))
                  => messages'[m].state = messages[m].state
  BY ReplyMessages
<1>2. ASSUME NEW m \in MessageIds, messages'[m].state # messages[m].state
      PROVE  Drawn(messages[m].state, messages'[m].state)
  <2>1. CASE m \in moves
    <3>1. Replyable(session, m, to)
      BY <2>1 DEF Reply
    <3>2. messages'[m].state = to
      BY <1>1, <2>1
    <3>3. Acknowledge(messages[m].state, to)
      BY <1>2, <3>1, <3>2 DEF Replyable
    <3> QED
      BY <3>2, <3>3, DrawnAre
  <2>2. CASE m \notin moves
    <3>1. messages[m].state = "sent" /\ messages'[m].state = "with_agent"
      BY <1>1, <1>2, <2>2
    <3>2. Allowed("sent", "with_agent")
      BY DEF Allowed, NextStates
    <3> QED
      BY <3>1, <3>2, DrawnAre
  <2> QED
    BY <2>1, <2>2
<1> QED
  BY <1>2 DEF DrawnTo

LEMMA RepliesDrawn == TypeOK /\ Replies => DrawnTo(messages')
<1> SUFFICES ASSUME TypeOK, NEW session \in Sessions, NEW ids \in SUBSET MessageIds,
                    NEW ack \in Acknowledgements, Reply(session, ids, ack[1], ack[2])
             PROVE  DrawnTo(messages')
  BY DEF Replies
<1>1. ack[1] \in {"working", "answered", "declined", "failed"}
  BY AcknowledgementsAssumption
<1> QED
  BY <1>1, ReplyDrawn

LEMMA RecoveryDrawn == TypeOK /\ Recovery => DrawnTo(messages')
<1> SUFFICES ASSUME TypeOK, Recovery PROVE DrawnTo(messages')
  OBVIOUS
<1>1. {"sent", "no_reply"} \subseteq MessageStates
  BY DEF MessageStates, LifecycleStates
<1>2. ASSUME NEW scope, NEW session, SetOwner(scope, session) PROVE DrawnTo(messages')
  BY <1>2, RequeuedDrawn DEF SetOwner
<1>3. ASSUME NEW d, NEW session, MoveDelivery(d, session) PROVE DrawnTo(messages')
  BY <1>3, RequeuedDrawn DEF MoveDelivery
<1>4. ASSUME NEW d, Release(d) PROVE DrawnTo(messages')
  <2>1. \A m \in MessageIds :
          \/ messages'[m] = messages[m]
          \/ /\ Drawn(messages[m].state, "no_reply")
             /\ messages'[m] = [messages[m] EXCEPT !.state = "no_reply"]
    BY <1>4, DrawnAre DEF Release, OpenIn
  <2> QED
    BY <1>1, <2>1, RowsDrawn
<1>5. ASSUME Interrupt PROVE DrawnTo(messages')
  <2>1. \A m \in MessageIds :
          \/ messages'[m] = messages[m]
          \/ /\ messages[m].state = "sent" \/ Drawn(messages[m].state, "sent")
             /\ messages'[m] = [messages[m] EXCEPT !.state = "sent", !.line = FALSE]
    BY <1>5, DrawnAre DEF Interrupt
  <2> QED
    BY <1>1, <2>1, RowsDrawn
<1>6. ASSUME NEW ids, Resend(ids) PROVE DrawnTo(messages')
  <2>1. \A m \in MessageIds :
          \/ messages'[m] = messages[m]
          \/ /\ Drawn(messages[m].state, "sent")
             /\ messages'[m] = [messages[m] EXCEPT !.state = "sent", !.delivery = 0,
                                                   !.queuedAt = now, !.line = FALSE]
    BY <1>6, DrawnAre DEF Resend
  <2> QED
    BY <1>1, <2>1, RowsDrawn
<1> QED
  BY <1>2, <1>3, <1>4, <1>5, <1>6 DEF Recovery

\* No report, reply, claim or recovery, however late, takes a message anywhere
\* but where msgstate's table or the package comment lets it go: what is settled
\* stays so, and a working message is never again only with_agent.
THEOREM MovesDrawn == Spec => MovesAreDrawn
<1>1. TypeOK /\ [Next]_vars => DrawnTo(messages') \/ UNCHANGED vars
  <2>1. Tick => DrawnTo(messages')
    BY DEF Tick, DrawnTo
  <2> QED
    BY <2>1, ClaimsDrawn, WritesDrawn, ReportsDrawn, RepliesDrawn, RecoveryDrawn DEF Next
<1>2. TypeOK /\ [Next]_vars =>
        [\A m \in MessageIds :
           messages'[m].state # messages[m].state
             => Drawn(messages[m].state, messages'[m].state)]_vars
  BY <1>1 DEF DrawnTo
<1> QED
  BY <1>2, TypeCorrect, PTL DEF Spec, MovesAreDrawn

--------------------------------------------------------------------------------
(* What a claim may take.                                                   *)

\* The given deliveries are as these, wherever a fresh session holds one.
FreshKept(from, to) ==
  \A d \in DeliveryIds :
    from[d].state = "inflight" /\ ~Stale(from[d].touchedAt) => to[d] = from[d]

\* A claim touches one delivery: one its session has left, or an unused one.
LEMMA ClaimFromSpares ==
  ASSUME NEW ms, NEW ds \in Deliveries, NEW from, NEW session, NEW present,
         ClaimFrom(ms, ds, from, session, present)
  PROVE  FreshKept(ds, deliveries')
<1>1. CASE TakeBack(ms, ds, from, session, present)
  <2>1. PICK d \in DeliveryIds :
          /\ Stale(ds[d].touchedAt)
          /\ deliveries' = [ds EXCEPT ![d].session = session, ![d].token = @ + 1,
                                      ![d].touchedAt = now, ![d].held = FALSE]
    BY <1>1 DEF TakeBack, Retakable
  <2>2. \A e \in DeliveryIds : e # d => deliveries'[e] = ds[e]
    BY <2>1 DEF Deliveries
  <2> QED
    BY <2>1, <2>2 DEF FreshKept
<1>2. CASE HandOut(ms, ds, from, session)
  <2>1. PICK first \in MessageIds, d \in DeliveryIds :
          /\ FreshId(ds, d)
          /\ deliveries' = [ds EXCEPT ![d] =
               [state |-> "inflight", scope |-> MessageScope(ms, first),
                batch |-> ms[first].batch, session |-> session, token |-> 1,
                held |-> FALSE, shown |-> FALSE, touchedAt |-> now]]
    BY <1>2 DEF HandOut, FirstInLine, Waiting
  <2>2. ds[d].state # "inflight"
    BY <2>1 DEF FreshId
  <2>3. \A e \in DeliveryIds : e # d => deliveries'[e] = ds[e]
    BY <2>1 DEF Deliveries
  <2> QED
    BY <2>2, <2>3 DEF FreshKept
<1> QED
  BY <1>1, <1>2 DEF ClaimFrom

\* A gone owner is the holder of all that is in flight from its scope, and has
\* touched none of it since: a takeover moves away nothing fresh.
LEMMA TakeoverSpares ==
  ASSUME TypeOK, OwnerHolds, NEW scope \in Scopes, NEW session, NEW present,
         OwnerGone(scope, session, present)
  PROVE  FreshKept(deliveries, MovedAway(scope, session))
<1> SUFFICES ASSUME NEW d \in DeliveryIds, deliveries[d].state = "inflight",
                    ~Stale(deliveries[d].touchedAt)
             PROVE  MovedAway(scope, session)[d] = deliveries[d]
  BY DEF FreshKept
<1>1. ASSUME deliveries[d].scope = scope PROVE FALSE
  <2>1. scopes[scope].owner # NoOwner
    BY DEF OwnerGone
  <2>2. deliveries[d].session = scopes[scope].owner
    BY <1>1, <2>1 DEF OwnerHolds, InFlight
  <2> QED
    BY <1>1, <2>2 DEF OwnerGone
<1> QED
  BY <1>1 DEF MovedAway

\* What ClaimSparesTheFresh says of a step that hands something out.
Spared ==
  /\ FreshKept(deliveries, deliveries')
  /\ \A s \in Scopes :
       scopes[s].owner # NoOwner /\ ~Stale(scopes[s].ownedAt) => scopes'[s] = scopes[s]

LEMMA ClaimsSpare == TypeOK /\ OwnerHolds /\ Claims => Spared
<1> SUFFICES ASSUME TypeOK, OwnerHolds, NEW session \in Sessions, NEW may \in SUBSET Scopes,
                    NEW present \in SUBSET Sessions, Claim(session, may, present)
             PROVE  Spared
  BY DEF Claims
<1>1. messages \in Messages /\ deliveries \in Deliveries
  BY DEF TypeOK, Messages, Deliveries
<1>2. CASE ClaimOwn(session, may, present) \/ ClaimFree(session, may, present)
  <2>1. scopes' = scopes
    BY <1>2 DEF ClaimOwn, ClaimFree
  <2>2. FreshKept(deliveries, deliveries')
    BY <1>1, <1>2, ClaimFromSpares DEF ClaimOwn, ClaimFree
  <2> QED
    BY <2>1, <2>2 DEF Spared
<1>3. CASE ClaimTakeover(session, may, present)
  <2>1. PICK m \in MessageIds :
          LET scope == MessageScope(messages, m)
              ms == Requeued(scope, session)
              ds == MovedAway(scope, session)
          IN /\ OwnerGone(scope, session, present)
             /\ scopes' = Owned(scope, session)
             /\ \/ ClaimFrom(ms, ds, OwnScopes(may, session) \cup {scope}, session, present)
                \/ deliveries' = ds
    BY <1>3 DEF ClaimTakeover, FirstInLine, TakeoverMessages
  <2> DEFINE scope == MessageScope(messages, m)
             ms == Requeued(scope, session)
             ds == MovedAway(scope, session)
             own == OwnScopes(may, session) \cup {scope}
  <2>2. scope \in Scopes
    BY <1>1, MessageScopeType
  <2>3. ds \in Deliveries
    BY <1>1, MovedAwayType
  <2>4. FreshKept(deliveries, ds)
    BY <2>1, <2>2, TakeoverSpares
  <2>5. ClaimFrom(ms, ds, own, session, present) \/ deliveries' = ds
    BY <2>1
  <2>6. Stale(scopes[scope].ownedAt) /\ scopes' = Owned(scope, session)
    BY <2>1 DEF OwnerGone
  <2>7. \A s \in Scopes : s # scope => scopes'[s] = scopes[s]
    BY <2>6 DEF Owned, TypeOK
  <2> HIDE DEF scope, ms, ds, own
  <2>8. FreshKept(ds, deliveries')
    BY <2>3, <2>5, ClaimFromSpares DEF FreshKept
  <2>9. FreshKept(deliveries, deliveries')
    BY <2>4, <2>8 DEF FreshKept
  <2> QED
    BY <2>6, <2>7, <2>9 DEF Spared
<1> QED
  BY <1>2, <1>3 DEF Claim

\* Only a claim gives a token, and no delivery becomes unused again.
RowStays(from, to) == to.token = from.token /\ (to.state = "none" => from.state = "none")

LEMMA TokensKept ==
  TypeOK /\ (Writes \/ Reports \/ Replies \/ Recovery \/ Tick)
    => \A d \in DeliveryIds : RowStays(deliveries[d], deliveries'[d])
<1> SUFFICES ASSUME TypeOK, NEW d \in DeliveryIds PROVE
       (Writes \/ Reports \/ Replies \/ Recovery \/ Tick)
         => RowStays(deliveries[d], deliveries'[d])
  OBVIOUS
<1>1. deliveries[d] \in DeliveryRow /\ deliveries \in [DeliveryIds -> DeliveryRow]
  BY DEF TypeOK
<1>2. ASSUME Writes \/ Tick PROVE deliveries' = deliveries
  BY <1>2 DEF Writes, Draft, Post, RemoveDraft, ReorderBatch, SendBatch, Tick
<1>3. ASSUME Reports PROVE RowStays(deliveries[d], deliveries'[d])
  <2>1. PICK session \in Sessions :
          \/ \E e \in DeliveryIds, token \in 1..MaxClaims :
               Held(session, e, token) \/ Landed(session, e, token)
          \/ TurnEnded(session)
          \/ \E named \in SUBSET DeliveryIds : TurnEndedFor(session, named)
    BY <1>3 DEF Reports
  <2>2. ASSUME NEW e \in DeliveryIds, NEW token, Held(session, e, token)
        PROVE  RowStays(deliveries[d], deliveries'[d])
    BY <1>1, <2>2 DEF Held, DeliveryRow, RowStays
  <2>3. ASSUME NEW e \in DeliveryIds, NEW token, Landed(session, e, token)
        PROVE  RowStays(deliveries[d], deliveries'[d])
    BY <1>1, <2>3 DEF Landed, ShownNow, DeliveryRow, RowStays
  <2>4. ASSUME TurnEnded(session) PROVE RowStays(deliveries[d], deliveries'[d])
    BY <1>1, <2>4 DEF TurnEnded, DeliveryRow, RowStays
  <2>5. ASSUME NEW named, TurnEndedFor(session, named)
        PROVE  RowStays(deliveries[d], deliveries'[d])
    BY <1>1, <2>5 DEF TurnEndedFor, ShownNow, DeliveryRow, RowStays
  <2> QED
    BY <2>1, <2>2, <2>3, <2>4, <2>5
<1>4. ASSUME NEW session, NEW ids, NEW to, NEW text, Reply(session, ids, to, text)
      PROVE  RowStays(deliveries[d], deliveries'[d])
  <2> DEFINE moves == {m \in ids : ~Repeated(m, to)}
             landing == Landing(moves)
             touched == {messages[m].delivery : m \in {n \in moves : messages[n].state # "no_reply"}}
             held == deliveries[d].held /\ d \notin landing
             over == /\ deliveries[d].state = "inflight"
                     /\ \A m \in Carried(d) : messages'[m].state \notin Unsettled
  <2>1. /\ d \notin touched => deliveries'[d] = deliveries[d]
        /\ d \in touched => deliveries'[d] =
             [deliveries[d] EXCEPT !.touchedAt = now, !.shown = TRUE, !.held = held,
                                   !.state = IF over THEN "done" ELSE @]
    BY <1>4 DEF Reply
  <2> HIDE DEF held, over, touched
  <2> QED
    BY <1>1, <2>1 DEF DeliveryRow, RowStays
<1>5. ASSUME Recovery PROVE RowStays(deliveries[d], deliveries'[d])
  <2>1. ASSUME NEW scope, NEW session
        PROVE  RowStays(deliveries[d], MovedAway(scope, session)[d])
    BY <1>1 DEF MovedAway, DeliveryRow, RowStays
  <2>2. ASSUME NEW scope, NEW session, SetOwner(scope, session)
        PROVE  RowStays(deliveries[d], deliveries'[d])
    BY <2>1, <2>2 DEF SetOwner
  <2>3. ASSUME NEW e \in DeliveryIds, NEW session, MoveDelivery(e, session)
        PROVE  RowStays(deliveries[d], deliveries'[d])
    BY <1>1, <2>1, <2>3 DEF MoveDelivery, DeliveryRow, RowStays
  <2>4. ASSUME NEW e \in DeliveryIds, Release(e) PROVE RowStays(deliveries[d], deliveries'[d])
    BY <1>1, <2>4 DEF Release, DeliveryRow, RowStays
  <2>5. ASSUME Interrupt PROVE RowStays(deliveries[d], deliveries'[d])
    BY <1>1, <2>5 DEF Interrupt, DeliveryRow, RowStays
  <2>6. ASSUME NEW ids, Resend(ids) PROVE RowStays(deliveries[d], deliveries'[d])
    BY <2>6 DEF Resend, RowStays
  <2> QED
    BY <1>5, <2>2, <2>3, <2>4, <2>5, <2>6 DEF Recovery
<1> QED
  BY <1>2, <1>3, <1>4, <1>5 DEF Replies, RowStays

\* Whatever snapshot a Claim was made with, a session heard of within
\* PresenceTTL loses nothing to it: no delivery in flight and no scope.
THEOREM FreshSpared == Spec => ClaimSparesTheFresh
<1>1. TypeOK /\ OwnerHolds /\ [Next]_vars =>
        [(\E d \in DeliveryIds : HandedOut(d)) => Spared]_vars
  <2>1. Next => Claims \/ (Writes \/ Reports \/ Replies \/ Recovery \/ Tick)
    BY DEF Next
  <2> QED
    BY <2>1, ClaimsSpare, TokensKept DEF HandedOut, RowStays
<1>2. TypeOK /\ OwnerHolds /\ [Next]_vars =>
        [(\E d \in DeliveryIds : HandedOut(d)) =>
           /\ \A d \in DeliveryIds :
                InFlight(d) /\ ~Stale(deliveries[d].touchedAt)
                  => deliveries'[d] = deliveries[d]
           /\ \A s \in Scopes :
                scopes[s].owner # NoOwner /\ ~Stale(scopes[s].ownedAt)
                  => scopes'[s] = scopes[s]]_vars
  BY <1>1 DEF Spared, FreshKept, InFlight
<1> QED
  BY <1>2, TypeCorrect, OneHolder, PTL DEF Spec, ClaimSparesTheFresh
--------------------------------------------------------------------------------
(* What a takeover brings.                                                  *)

\* A delivery not yet handed out has no token.
Untold(ds) == \A d \in DeliveryIds : ds[d].state = "none" => ds[d].token = 0

LEMMA ClaimFromTells ==
  ASSUME NEW ms, NEW ds \in Deliveries, Untold(ds), NEW from, NEW session, NEW present,
         ClaimFrom(ms, ds, from, session, present)
  PROVE  Untold(deliveries')
<1>1. CASE TakeBack(ms, ds, from, session, present)
  <2>1. PICK d \in DeliveryIds :
          /\ ds[d].state = "inflight"
          /\ deliveries' = [ds EXCEPT ![d].session = session, ![d].token = @ + 1,
                                      ![d].touchedAt = now, ![d].held = FALSE]
    BY <1>1 DEF TakeBack, Retakable
  <2>2. /\ \A e \in DeliveryIds : e # d => deliveries'[e] = ds[e]
        /\ deliveries'[d].state = "inflight"
    BY <2>1 DEF Deliveries, DeliveryRow
  <2> QED
    BY <2>2 DEF Untold
<1>2. CASE HandOut(ms, ds, from, session)
  <2>1. PICK first \in MessageIds, d \in DeliveryIds :
          deliveries' = [ds EXCEPT ![d] =
            [state |-> "inflight", scope |-> MessageScope(ms, first),
             batch |-> ms[first].batch, session |-> session, token |-> 1,
             held |-> FALSE, shown |-> FALSE, touchedAt |-> now]]
    BY <1>2 DEF HandOut, FirstInLine, Waiting
  <2>2. /\ \A e \in DeliveryIds : e # d => deliveries'[e] = ds[e]
        /\ deliveries'[d].state = "inflight"
    BY <2>1 DEF Deliveries
  <2> QED
    BY <2>2 DEF Untold
<1> QED
  BY <1>1, <1>2 DEF ClaimFrom

LEMMA ClaimsTell == TypeOK /\ Untold(deliveries) /\ Claims => Untold(deliveries')
<1> SUFFICES ASSUME TypeOK, Untold(deliveries), NEW session \in Sessions,
                    NEW may \in SUBSET Scopes, NEW present \in SUBSET Sessions,
                    Claim(session, may, present)
             PROVE  Untold(deliveries')
  BY DEF Claims
<1>1. messages \in Messages /\ deliveries \in Deliveries
  BY DEF TypeOK, Messages, Deliveries
<1>2. CASE ClaimOwn(session, may, present) \/ ClaimFree(session, may, present)
  BY <1>1, <1>2, ClaimFromTells DEF ClaimOwn, ClaimFree
<1>3. CASE ClaimTakeover(session, may, present)
  <2>1. PICK m \in MessageIds :
          LET scope == MessageScope(messages, m)
              ms == Requeued(scope, session)
              ds == MovedAway(scope, session)
          IN \/ ClaimFrom(ms, ds, OwnScopes(may, session) \cup {scope}, session, present)
             \/ deliveries' = ds
    BY <1>3 DEF ClaimTakeover, FirstInLine, TakeoverMessages
  <2> DEFINE scope == MessageScope(messages, m)
             ms == Requeued(scope, session)
             ds == MovedAway(scope, session)
             own == OwnScopes(may, session) \cup {scope}
  <2>2. ds \in Deliveries
    BY <1>1, MovedAwayType
  <2>3. Untold(ds)
    BY <1>1 DEF Untold, MovedAway, Deliveries, DeliveryRow
  <2>4. ClaimFrom(ms, ds, own, session, present) \/ deliveries' = ds
    BY <2>1
  <2> HIDE DEF scope, ms, ds, own
  <2> QED
    BY <2>2, <2>3, <2>4, ClaimFromTells
<1> QED
  BY <1>2, <1>3 DEF Claim

LEMMA UntoldHolds == Spec => []Untold(deliveries)
<1>1. Init => Untold(deliveries)
  BY DEF Init, Untold
<1>2. TypeOK /\ Untold(deliveries) /\ [Next]_vars => Untold(deliveries')
  <2>1. CASE Claims
    BY <2>1, ClaimsTell
  <2>2. CASE Writes \/ Reports \/ Replies \/ Recovery \/ Tick
    BY <2>2, TokensKept DEF Untold, RowStays
  <2>3. CASE UNCHANGED vars
    BY <2>3 DEF vars
  <2> QED
    BY <2>1, <2>2, <2>3 DEF Next
<1>3. Untold(deliveries') <=> Untold(deliveries)'
  OBVIOUS
<1> QED
  BY <1>1, <1>2, <1>3, TypeCorrect, PTL DEF Spec

\* After a change of owner, what the new owner could take back or wait for in the
\* scopes it had it could before.
LEMMA ElsewhereNothing ==
  ASSUME AllTied, OwnerHolds, NEW scope \in Scopes, NEW session, NEW present,
         NEW owned \in SUBSET Scopes, scopes[scope].owner \notin {NoOwner, session},
         Nothing(messages, deliveries, owned, present)
  PROVE  LET ms == Requeued(scope, session)
             ds == MovedAway(scope, session)
         IN /\ Retakable(ds, owned \cup {scope}, present) = {}
            /\ \A m \in Waiting(ms, ds, owned \cup {scope}) : MessageScope(ms, m) = scope
<1> DEFINE ms == Requeued(scope, session)
           ds == MovedAway(scope, session)
<1>0. /\ messages \in Messages /\ deliveries \in Deliveries
      /\ CarriedTied(messages, deliveries)
  BY DEF AllTied, TypeOK, Messages, Deliveries, Tied
<1>1. \A d \in DeliveryIds : deliveries[d].scope # scope => ds[d] = deliveries[d]
  BY DEF MovedAway
<1>2. \A m \in MessageIds :
        /\ MessageScope(ms, m) = MessageScope(messages, m)
        /\ MessageScope(messages, m) # scope => ms[m] = messages[m]
  BY <1>0 DEF Requeued, MessageScope, Messages, MessageRow
<1>3. ASSUME NEW d \in DeliveryIds, deliveries[d].scope = scope
      PROVE  ds[d].state # "inflight"
  <2>1. CASE deliveries[d].state = "inflight"
    <3>1. deliveries[d].session # session
      BY <1>3, <2>1 DEF OwnerHolds, InFlight
    <3>2. ds[d] = [deliveries[d] EXCEPT !.state = "moved"]
      BY <1>3, <2>1, <3>1 DEF MovedAway
    <3> QED
      BY <1>0, <3>2 DEF Deliveries, DeliveryRow
  <2>2. CASE deliveries[d].state # "inflight"
    BY <2>2 DEF MovedAway
  <2> QED
    BY <2>1, <2>2
<1> HIDE DEF ms, ds
<1>4. ASSUME NEW d \in Retakable(ds, owned \cup {scope}, present) PROVE FALSE
  <2>1. d \in DeliveryIds /\ deliveries[d].scope # scope
    BY <1>3, <1>4 DEF Retakable
  <2>2. ds[d] = deliveries[d]
    BY <1>1, <2>1
  <2>3. d \in Retakable(deliveries, owned, present)
    BY <1>4, <2>1, <2>2 DEF Retakable
  <2> QED
    BY <2>3 DEF Nothing
<1>5. ASSUME NEW m \in Waiting(ms, ds, owned \cup {scope}), MessageScope(ms, m) # scope
      PROVE  FALSE
  <2>1. /\ m \in MessageIds /\ MessageScope(messages, m) # scope
        /\ ms[m] = messages[m] /\ MessageScope(messages, m) \in owned
    BY <1>2, <1>5 DEF Waiting
  <2>2. ASSUME messages[m].delivery # 0
        PROVE  ds[messages[m].delivery] = deliveries[messages[m].delivery]
    <3>1. deliveries[messages[m].delivery].scope # scope
      BY <1>0, <2>1, <2>2 DEF CarriedTied
    <3>2. messages[m].delivery \in DeliveryIds
      BY <1>0, <2>1, <2>2, DeliveryIdOf
    <3> QED
      BY <1>1, <3>1, <3>2
  <2>3. Queued(messages, deliveries, m)
    BY <1>5, <2>1, <2>2 DEF Waiting, Queued
  <2> QED
    BY <2>1, <2>3 DEF Nothing, Waiting
<1> QED
  BY <1>4, <1>5 DEF ms, ds

\* The message by which a scope is taken over waits, once it is.
LEMMA TakenWaits ==
  ASSUME AllTied, NEW session, NEW may, NEW present,
         NEW m \in TakeoverMessages(may, session, present)
  PROVE  LET scope == MessageScope(messages, m)
         IN m \in Waiting(Requeued(scope, session), MovedAway(scope, session), {scope})
<1> DEFINE scope == MessageScope(messages, m)
           ms == Requeued(scope, session)
           ds == MovedAway(scope, session)
<1>0. /\ messages \in Messages /\ m \in MessageIds /\ TypeOK
      /\ Tied(batches, messages, deliveries)
  BY DEF AllTied, TypeOK, Messages, TakeoverMessages
<1>1. MessageScope(ms, m) = scope
  BY <1>0 DEF Requeued, MessageScope, Messages, MessageRow
<1>2. ms[m].delivery = messages[m].delivery
  BY <1>0, OwnerMoves
<1>3. CASE Taken(scope, session, m)
  <2>1. ms[m].state = "sent" /\ ds[messages[m].delivery].state # "inflight"
    BY <1>0, <1>3, OwnerMoves
  <2> QED
    BY <1>0, <1>1, <1>2, <2>1 DEF Waiting, Queued
<1>4. CASE ~Taken(scope, session, m)
  <2>1. Queued(messages, deliveries, m)
    BY <1>4 DEF TakeoverMessages, Taken
  <2>2. ms[m].state = "sent"
    BY <1>0, <1>4, <2>1, OwnerMoves DEF Queued
  <2>3. messages[m].delivery # 0 => ds[messages[m].delivery].state # "inflight"
    BY <1>0, <2>1, DeliveryIdOf, OwnerMoves DEF Queued
  <2> QED
    BY <1>0, <1>1, <1>2, <2>2, <2>3 DEF Waiting, Queued
<1> QED
  BY <1>3, <1>4

LEMMA TakeoverTakes ==
  ASSUME AllTied, OwnerHolds, Untold(deliveries), NEW session, NEW may \in SUBSET Scopes,
         NEW present, ClaimTakeover(session, may, present)
  PROVE  \E scope \in Scopes :
           /\ scopes' = Owned(scope, session)
           /\ \E d \in DeliveryIds : /\ HandedOut(d) /\ deliveries'[d].session = session
                                     /\ deliveries'[d].scope = scope
<1>1. PICK m \in TakeoverMessages(may, session, present) :
        LET scope == MessageScope(messages, m)
            ms == Requeued(scope, session)
            ds == MovedAway(scope, session)
            own == OwnScopes(may, session) \cup {scope}
        IN /\ scopes' = Owned(scope, session)
           /\ ClaimFrom(ms, ds, own, session, present) \/ Nothing(ms, ds, own, present)
  BY DEF ClaimTakeover, FirstInLine
<1> DEFINE scope == MessageScope(messages, m)
           ms == Requeued(scope, session)
           ds == MovedAway(scope, session)
           owned == OwnScopes(may, session)
<1>2. /\ messages \in Messages /\ deliveries \in Deliveries /\ m \in MessageIds
      /\ scopes[scope].owner \notin {NoOwner, session}
  BY DEF AllTied, TypeOK, Messages, Deliveries, TakeoverMessages, OwnerGone
<1>3. /\ scope \in Scopes /\ ds \in Deliveries
      /\ owned \in SUBSET Scopes /\ Nothing(messages, deliveries, owned, present)
  BY <1>2, MessageScopeType, MovedAwayType DEF OwnScopes, ClaimTakeover
<1>4. /\ Retakable(ds, owned \cup {scope}, present) = {}
      /\ \A n \in Waiting(ms, ds, owned \cup {scope}) : MessageScope(ms, n) = scope
  BY <1>2, <1>3, ElsewhereNothing
<1>5. m \in Waiting(ms, ds, owned \cup {scope})
  BY TakenWaits DEF Waiting
<1>6. ClaimFrom(ms, ds, owned \cup {scope}, session, present)
      \/ Nothing(ms, ds, owned \cup {scope}, present)
  BY <1>1
<1>7. \A d \in DeliveryIds : ds[d].state = "none" => deliveries[d].token = 0
  BY <1>2 DEF Untold, MovedAway, Deliveries, DeliveryRow
<1>8. scopes' = Owned(scope, session)
  BY <1>1
<1> HIDE DEF scope, ms, ds, owned
<1>9. HandOut(ms, ds, owned \cup {scope}, session)
  BY <1>4, <1>5, <1>6 DEF ClaimFrom, TakeBack, Nothing
<1>10. PICK first \in Waiting(ms, ds, owned \cup {scope}), d \in DeliveryIds :
         /\ FreshId(ds, d)
         /\ deliveries' = [ds EXCEPT ![d] =
              [state |-> "inflight", scope |-> MessageScope(ms, first),
               batch |-> ms[first].batch, session |-> session, token |-> 1,
               held |-> FALSE, shown |-> FALSE, touchedAt |-> now]]
  BY <1>9 DEF HandOut, FirstInLine
<1>11. /\ deliveries'[d].token = 1 /\ deliveries'[d].session = session
       /\ deliveries'[d].scope = scope
  BY <1>3, <1>4, <1>10 DEF Deliveries
<1>12. deliveries[d].token = 0
  BY <1>7, <1>10 DEF FreshId
<1>13. HandedOut(d)
  BY <1>11, <1>12 DEF HandedOut
<1> QED
  BY <1>3, <1>8, <1>11, <1>13

\* A session that takes a scope over is handed something of it in the same Claim: no
\* owner loses a scope to one that then has nothing to do in it (ClaimTx).
THEOREM TakeoversBring == Spec => TakeoverBrings
<1>1. AllTied /\ OwnerHolds /\ Untold(deliveries) => BringsSomething
  <2> SUFFICES ASSUME AllTied, OwnerHolds, Untold(deliveries), NEW s \in Scopes,
                      scopes[s].owner # scopes'[s].owner,
                      NEW may \in SUBSET Scopes, NEW present \in SUBSET Sessions,
                      ClaimTakeover(scopes'[s].owner, may, present)
               PROVE  \E d \in DeliveryIds :
                        /\ HandedOut(d) /\ deliveries'[d].session = scopes'[s].owner
                        /\ deliveries'[d].scope = s
    BY DEF BringsSomething
  <2>1. PICK scope \in Scopes :
          /\ scopes' = Owned(scope, scopes'[s].owner)
          /\ \E d \in DeliveryIds : /\ HandedOut(d) /\ deliveries'[d].session = scopes'[s].owner
                                    /\ deliveries'[d].scope = scope
    BY TakeoverTakes
  <2>2. scope = s
    BY <2>1 DEF Owned, AllTied, TypeOK
  <2> QED
    BY <2>1, <2>2
<1> QED
  BY <1>1, TiesHold, OneHolder, UntoldHolds, PTL DEF TakeoverBrings

--------------------------------------------------------------------------------
(* The store implements Tenure: a token is good for one claim.              *)

\* How far the claim of token t has come, by its delivery's row.
ViewIn(row, t) ==
  IF row.token < t THEN "none"
  ELSE IF row.token > t THEN "taken"
  ELSE IF row.state = "inflight"
       THEN IF row.shown THEN "landed" ELSE IF row.held THEN "held" ELSE "given"
  ELSE IF row.state = "done" THEN "ended" ELSE "taken"

ClaimerIn(row, t) ==
  IF ViewIn(row, t) \in {"given", "held", "landed"} THEN row.session ELSE NoOwner

\* What a step makes of a delivery's row: nothing that a claim depends on, ...
Unmoved(from, to) ==
  /\ to.token = from.token
  /\ \/ /\ to.session = from.session /\ to.state = from.state
        /\ to.held = from.held /\ to.shown = from.shown
     \/ /\ from.state # "inflight" /\ to.state # "inflight"
        /\ from.state = "done" <=> to.state = "done"
\* ... its end by another's hand, ...
EndsAway(from, to) ==
  /\ to.token = from.token /\ from.state = "inflight"
  /\ to.state \notin {"inflight", "done"}
\* ... a claim of it, ...
ClaimedNow(s, from, to) ==
  /\ to.token = from.token + 1 /\ to.session = s
  /\ to.state = "inflight" /\ ~to.held /\ ~to.shown
  /\ from.state = "inflight" \/ (from.state = "none" /\ from.token = 0)
\* ... or its session's own word.
Spoken(s, from, to) ==
  /\ to.token = from.token /\ from.session = s /\ to.session = s
  /\ from.state = "inflight" /\ to.state \in {"inflight", "done"}
  /\ to.state = "inflight" => to.shown

LEMMA TokensAre ==
  ASSUME NEW c \in Tokens
  PROVE  c[1] \in DeliveryIds /\ c[2] \in 1..MaxClaims /\ c[2] \in Nat /\ c = <<c[1], c[2]>>
BY BoundsAssumption DEF Tokens

LEMMA TokenNumbers ==
  ASSUME TypeOK, NEW d \in DeliveryIds
  PROVE  /\ deliveries[d] \in DeliveryRow
         /\ deliveries[d].token \in 0..MaxClaims /\ deliveries[d].token \in Nat
<1>1. deliveries[d] \in DeliveryRow
  BY DEF TypeOK
<1>2. deliveries[d].token \in 0..MaxClaims
  BY <1>1 DEF DeliveryRow
<1> QED
  BY <1>1, <1>2, BoundsAssumption

\* The mapping, by rows.
LEMMA ViewsAre ==
  ASSUME NEW c \in Tokens
  PROVE  /\ ViewOf(c) = ViewIn(deliveries[c[1]], c[2])
         /\ ClaimerOf(c) = ClaimerIn(deliveries[c[1]], c[2])
         /\ ViewOf(c)' = ViewIn(deliveries'[c[1]], c[2])
         /\ ClaimerOf(c)' = ClaimerIn(deliveries'[c[1]], c[2])
<1>1. ViewOf(c) = ViewIn(deliveries[c[1]], c[2])
  BY DEF ViewOf, ViewIn
<1>2. ViewOf(c)' = ViewIn(deliveries'[c[1]], c[2])
  BY DEF ViewOf, ViewIn
<1> QED
  BY <1>1, <1>2 DEF ClaimerOf, ClaimerIn

LEMMA ViewsMapped ==
  ASSUME NEW c \in Tokens
  PROVE  /\ [x \in Tokens |-> ViewOf(x)][c] = ViewIn(deliveries[c[1]], c[2])
         /\ [x \in Tokens |-> ClaimerOf(x)][c] = ClaimerIn(deliveries[c[1]], c[2])
         /\ [x \in Tokens |-> ViewOf(x)]'[c] = ViewIn(deliveries'[c[1]], c[2])
         /\ [x \in Tokens |-> ClaimerOf(x)]'[c] = ClaimerIn(deliveries'[c[1]], c[2])
BY ViewsAre

\* A claim's move follows from its row's.
LEMMA RowsTell ==
  ASSUME NEW from, NEW to, from.token \in Nat, to.token \in Nat, NEW t \in Nat, NEW s,
         from.shown \in BOOLEAN, from.held \in BOOLEAN, to.shown \in BOOLEAN, to.held \in BOOLEAN
  PROVE  LET same == ViewIn(to, t) = ViewIn(from, t) /\ ClaimerIn(to, t) = ClaimerIn(from, t)
             away == /\ ViewIn(from, t) \in {"given", "held", "landed"}
                     /\ ViewIn(to, t) = "taken" /\ ClaimerIn(to, t) = NoOwner
         IN /\ Unmoved(from, to) => same
            /\ EndsAway(from, to) => same \/ away
            /\ ClaimedNow(s, from, to) =>
                 IF t = to.token
                 THEN /\ ViewIn(from, t) = "none"
                      /\ ViewIn(to, t) = "given" /\ ClaimerIn(to, t) = s
                 ELSE t # 0 => same \/ away
            /\ Spoken(s, from, to) =>
                 \/ same
                 \/ /\ ViewIn(from, t) \in {"given", "held", "landed"} /\ ClaimerIn(from, t) = s
                    /\ \/ ViewIn(to, t) = "landed" /\ ClaimerIn(to, t) = s
                       \/ ViewIn(to, t) = "ended" /\ ClaimerIn(to, t) = NoOwner
<1> DEFINE same == ViewIn(to, t) = ViewIn(from, t) /\ ClaimerIn(to, t) = ClaimerIn(from, t)
           away == /\ ViewIn(from, t) \in {"given", "held", "landed"}
                   /\ ViewIn(to, t) = "taken" /\ ClaimerIn(to, t) = NoOwner
<1>1. Unmoved(from, to) => same
  BY DEF Unmoved, ViewIn, ClaimerIn
<1>2. EndsAway(from, to) => same \/ away
  BY DEF EndsAway, ViewIn, ClaimerIn
<1>3. ASSUME ClaimedNow(s, from, to), t = to.token
      PROVE  ViewIn(from, t) = "none" /\ ViewIn(to, t) = "given" /\ ClaimerIn(to, t) = s
  BY <1>3 DEF ClaimedNow, ViewIn, ClaimerIn
<1>4. ASSUME ClaimedNow(s, from, to), t # to.token, t # 0
      PROVE  same \/ away
  <2>1. CASE t > to.token
    BY <1>4, <2>1 DEF ClaimedNow, ViewIn, ClaimerIn
  <2>2. CASE t < from.token
    BY <1>4, <2>2 DEF ClaimedNow, ViewIn, ClaimerIn
  <2>3. CASE t = from.token
    BY <1>4, <2>3 DEF ClaimedNow, ViewIn, ClaimerIn
  <2> QED
    BY <1>4, <2>1, <2>2, <2>3 DEF ClaimedNow
<1>5. ASSUME Spoken(s, from, to)
      PROVE  \/ same
             \/ /\ ViewIn(from, t) \in {"given", "held", "landed"} /\ ClaimerIn(from, t) = s
                /\ \/ ViewIn(to, t) = "landed" /\ ClaimerIn(to, t) = s
                   \/ ViewIn(to, t) = "ended" /\ ClaimerIn(to, t) = NoOwner
  BY <1>5 DEF Spoken, ViewIn, ClaimerIn
<1> HIDE DEF same, away
<1> QED
  BY <1>1, <1>2, <1>3, <1>4, <1>5 DEF same, away

LEMMA ClaimsTold ==
  ASSUME TypeOK, TypeOK', NEW c \in Tokens, NEW s
  PROVE  LET from == deliveries[c[1]]
             to == deliveries'[c[1]]
         IN /\ Unmoved(from, to) => Fenced!Same(c)
            /\ EndsAway(from, to) => Fenced!Same(c) \/ Fenced!TakenAway(c)
            /\ ClaimedNow(s, from, to) =>
                 IF c[2] = to.token
                 THEN /\ [x \in Tokens |-> ViewOf(x)][c] = "none" /\ Fenced!To(c, "given", s)
                 ELSE Fenced!Same(c) \/ Fenced!TakenAway(c)
            /\ Spoken(s, from, to) => Fenced!Same(c) \/ Fenced!Answered(s, c)
<1> DEFINE from == deliveries[c[1]]
           to == deliveries'[c[1]]
           v == [x \in Tokens |-> ViewOf(x)]
           h == [x \in Tokens |-> ClaimerOf(x)]
           same == ViewIn(to, c[2]) = ViewIn(from, c[2]) /\ ClaimerIn(to, c[2]) = ClaimerIn(from, c[2])
           away == /\ ViewIn(from, c[2]) \in {"given", "held", "landed"}
                   /\ ViewIn(to, c[2]) = "taken" /\ ClaimerIn(to, c[2]) = NoOwner
<1>1. from.token \in Nat /\ to.token \in Nat /\ c[2] \in Nat /\ c[2] # 0
  BY TokensAre, TokenNumbers, BoundsAssumption DEF TypeOK, DeliveryRow
<1>2. /\ from.shown \in BOOLEAN /\ from.held \in BOOLEAN
      /\ to.shown \in BOOLEAN /\ to.held \in BOOLEAN
  BY TokensAre DEF TypeOK, DeliveryRow
<1>3. /\ v[c] = ViewIn(from, c[2]) /\ h[c] = ClaimerIn(from, c[2])
      /\ v'[c] = ViewIn(to, c[2]) /\ h'[c] = ClaimerIn(to, c[2])
  BY ViewsMapped
<1>4. same => Fenced!Same(c)
  BY <1>3 DEF Fenced!Same, Fenced!To
<1>5. away => Fenced!TakenAway(c)
  BY <1>3 DEF Fenced!TakenAway, Fenced!To, Fenced!Open
<1>6. /\ Unmoved(from, to) => same
      /\ EndsAway(from, to) => same \/ away
      /\ ClaimedNow(s, from, to) =>
           IF c[2] = to.token
           THEN /\ ViewIn(from, c[2]) = "none"
                /\ ViewIn(to, c[2]) = "given" /\ ClaimerIn(to, c[2]) = s
           ELSE same \/ away
      /\ Spoken(s, from, to) =>
           \/ same
           \/ /\ ViewIn(from, c[2]) \in {"given", "held", "landed"} /\ ClaimerIn(from, c[2]) = s
              /\ \/ ViewIn(to, c[2]) = "landed" /\ ClaimerIn(to, c[2]) = s
                 \/ ViewIn(to, c[2]) = "ended" /\ ClaimerIn(to, c[2]) = NoOwner
  <2> HIDE DEF from, to
  <2> QED
    BY <1>1, <1>2, RowsTell
<1> HIDE DEF same, away
<1>7. Spoken(s, from, to) => Fenced!Same(c) \/ Fenced!Answered(s, c)
  BY <1>3, <1>4, <1>6 DEF Fenced!Answered, Fenced!To, Fenced!Open
<1>8. ClaimedNow(s, from, to) /\ c[2] = to.token => v[c] = "none" /\ Fenced!To(c, "given", s)
  BY <1>3, <1>6 DEF Fenced!To
<1> QED
  BY <1>4, <1>5, <1>6, <1>7, <1>8

\* A claim takes one delivery and leaves the others as they are.
LEMMA ClaimFromClaims ==
  ASSUME NEW ms, NEW ds \in Deliveries, Untold(ds), NEW from, NEW session, NEW present,
         ClaimFrom(ms, ds, from, session, present)
  PROVE  \E d \in DeliveryIds :
           /\ ClaimedNow(session, ds[d], deliveries'[d])
           /\ \A e \in DeliveryIds : e # d => deliveries'[e] = ds[e]
<1>1. CASE TakeBack(ms, ds, from, session, present)
  <2>1. PICK d \in DeliveryIds :
          /\ ds[d].state = "inflight" /\ ~ds[d].shown
          /\ deliveries' = [ds EXCEPT ![d].session = session, ![d].token = @ + 1,
                                      ![d].touchedAt = now, ![d].held = FALSE]
    BY <1>1 DEF TakeBack, Retakable
  <2>2. \A e \in DeliveryIds : e # d => deliveries'[e] = ds[e]
    BY <2>1 DEF Deliveries
  <2>3. ds[d] \in DeliveryRow
    BY DEF Deliveries
  <2>4. deliveries'[d] = [ds[d] EXCEPT !.session = session, !.token = @ + 1,
                                       !.touchedAt = now, !.held = FALSE]
    BY <2>1 DEF Deliveries
  <2>5. /\ deliveries'[d].token = ds[d].token + 1 /\ deliveries'[d].session = session
        /\ deliveries'[d].state = ds[d].state /\ deliveries'[d].held = FALSE
        /\ deliveries'[d].shown = ds[d].shown
    BY <2>3, <2>4 DEF DeliveryRow
  <2>6. ClaimedNow(session, ds[d], deliveries'[d])
    BY <2>1, <2>5 DEF ClaimedNow
  <2> QED
    BY <2>2, <2>6
<1>2. CASE HandOut(ms, ds, from, session)
  <2>1. PICK first \in MessageIds, d \in DeliveryIds :
          /\ FreshId(ds, d)
          /\ deliveries' = [ds EXCEPT ![d] =
               [state |-> "inflight", scope |-> MessageScope(ms, first),
                batch |-> ms[first].batch, session |-> session, token |-> 1,
                held |-> FALSE, shown |-> FALSE, touchedAt |-> now]]
    BY <1>2 DEF HandOut, FirstInLine, Waiting
  <2>2. ds[d].state = "none" /\ ds[d].token = 0
    BY <2>1 DEF FreshId, Untold
  <2>3. \A e \in DeliveryIds : e # d => deliveries'[e] = ds[e]
    BY <2>1 DEF Deliveries
  <2>4. ClaimedNow(session, ds[d], deliveries'[d])
    BY <2>1, <2>2 DEF ClaimedNow, Deliveries
  <2> QED
    BY <2>3, <2>4
<1> QED
  BY <1>1, <1>2 DEF ClaimFrom

\* A takeover ends what others have in its scope.
LEMMA MovedEndsAway ==
  ASSUME TypeOK, NEW scope, NEW session, NEW d \in DeliveryIds
  PROVE  \/ MovedAway(scope, session)[d] = deliveries[d]
         \/ /\ EndsAway(deliveries[d], MovedAway(scope, session)[d])
            /\ MovedAway(scope, session)[d].state = "moved"
BY TokenNumbers DEF MovedAway, EndsAway, DeliveryRow

Left(d) == deliveries'[d] = deliveries[d] \/ EndsAway(deliveries[d], deliveries'[d])

LEMMA ClaimsClaim ==
  ASSUME TypeOK, Untold(deliveries), NEW session \in Sessions,
         NEW may \in SUBSET Scopes, NEW present \in SUBSET Sessions,
         Claim(session, may, present)
  PROVE  \/ \A d \in DeliveryIds : Left(d)
         \/ \E d \in DeliveryIds : /\ ClaimedNow(session, deliveries[d], deliveries'[d])
                                   /\ \A e \in DeliveryIds : e # d => Left(e)
<1>1. messages \in Messages /\ deliveries \in Deliveries
  BY DEF TypeOK, Messages, Deliveries
<1>2. CASE ClaimOwn(session, may, present) \/ ClaimFree(session, may, present)
  <2>1. PICK d \in DeliveryIds :
           /\ ClaimedNow(session, deliveries[d], deliveries'[d])
           /\ \A e \in DeliveryIds : e # d => deliveries'[e] = deliveries[e]
    BY <1>1, <1>2, ClaimFromClaims DEF ClaimOwn, ClaimFree
  <2> QED
    BY <2>1 DEF Left
<1>3. CASE ClaimTakeover(session, may, present)
  <2>1. PICK m \in MessageIds :
          LET scope == MessageScope(messages, m)
              ms == Requeued(scope, session)
              ds == MovedAway(scope, session)
          IN \/ ClaimFrom(ms, ds, OwnScopes(may, session) \cup {scope}, session, present)
             \/ deliveries' = ds
    BY <1>3 DEF ClaimTakeover, FirstInLine, TakeoverMessages
  <2> DEFINE scope == MessageScope(messages, m)
             ms == Requeued(scope, session)
             ds == MovedAway(scope, session)
             own == OwnScopes(may, session) \cup {scope}
  <2>2. ds \in Deliveries
    BY <1>1, MovedAwayType
  <2>3. Untold(ds)
    BY <1>1 DEF Untold, MovedAway, Deliveries, DeliveryRow
  <2>4. \A d \in DeliveryIds :
          ds[d] = deliveries[d] \/ (EndsAway(deliveries[d], ds[d]) /\ ds[d].state = "moved")
    BY MovedEndsAway
  <2>5. ClaimFrom(ms, ds, own, session, present) \/ deliveries' = ds
    BY <2>1
  <2> HIDE DEF scope, ms, ds, own
  <2>6. CASE deliveries' = ds
    BY <2>4, <2>6 DEF Left
  <2>7. CASE ClaimFrom(ms, ds, own, session, present)
    <3>1. PICK d \in DeliveryIds :
             /\ ClaimedNow(session, ds[d], deliveries'[d])
             /\ \A e \in DeliveryIds : e # d => deliveries'[e] = ds[e]
      BY <2>2, <2>3, <2>7, ClaimFromClaims
    <3>2. ds[d] = deliveries[d]
      BY <2>4, <3>1 DEF ClaimedNow
    <3> QED
      BY <2>4, <3>1, <3>2 DEF Left
  <2> QED
    BY <2>5, <2>6, <2>7
<1> QED
  BY <1>2, <1>3 DEF Claim

\* A claim gives one token, its delivery's next.
LEMMA ClaimsFenced ==
  ASSUME TypeOK, TypeOK', Untold(deliveries), Fenced!Rows', Claims
  PROVE  Fenced!Next
<1>1. PICK session \in Sessions, may \in SUBSET Scopes, present \in SUBSET Sessions :
        Claim(session, may, present)
  BY DEF Claims
<1>2. ASSUME NEW c \in Tokens, Left(c[1])
      PROVE  Fenced!Same(c) \/ Fenced!TakenAway(c)
  <2>1. Unmoved(deliveries[c[1]], deliveries'[c[1]]) \/ EndsAway(deliveries[c[1]], deliveries'[c[1]])
    BY <1>2 DEF Left, Unmoved
  <2> QED
    BY <1>1, <2>1, ClaimsTold
<1>3. CASE \A d \in DeliveryIds : Left(d)
  <2>1. \A c \in Tokens : Fenced!Same(c) \/ Fenced!TakenAway(c)
    BY <1>2, <1>3, TokensAre
  <2> QED
    BY <2>1 DEF Fenced!Next, Fenced!TakeAway
<1>4. CASE \E d \in DeliveryIds : /\ ClaimedNow(session, deliveries[d], deliveries'[d])
                                  /\ \A e \in DeliveryIds : e # d => Left(e)
  <2>1. PICK d \in DeliveryIds : /\ ClaimedNow(session, deliveries[d], deliveries'[d])
                                 /\ \A e \in DeliveryIds : e # d => Left(e)
    BY <1>4
  <2> DEFINE c == <<d, deliveries'[d].token>>
  <2>2. deliveries[d].token \in Nat /\ deliveries'[d].token \in 0..MaxClaims
    BY TokenNumbers DEF TypeOK, DeliveryRow
  <2>3. deliveries'[d].token \in 1..MaxClaims
    BY <2>1, <2>2, BoundsAssumption DEF ClaimedNow
  <2>4. c \in Tokens /\ c[1] = d /\ c[2] = deliveries'[d].token
    BY <2>3 DEF Tokens
  <2>5. [x \in Tokens |-> ViewOf(x)][c] = "none" /\ Fenced!To(c, "given", session)
    <3> HIDE DEF c
    <3> QED
      BY <2>1, <2>4, ClaimsTold
  <2>6. ASSUME NEW o \in Tokens, o # c PROVE Fenced!Same(o) \/ Fenced!TakenAway(o)
    <3>1. CASE o[1] = d
      <4>1. o[2] # deliveries'[o[1]].token
        BY <2>6, <3>1, TokensAre
      <4> QED
        BY <2>1, <3>1, <4>1, ClaimsTold
    <3>2. CASE o[1] # d
      BY <1>2, <2>1, <3>2, TokensAre
    <3> QED
      BY <3>1, <3>2
  <2>7. Fenced!Give(session)
    BY <2>4, <2>5, <2>6 DEF Fenced!Give
  <2> QED
    BY <2>7 DEF Fenced!Next
<1> QED
  BY <1>1, <1>3, <1>4, ClaimsClaim

\* Recovery only takes away.
LEMMA RecoveryLeaves ==
  ASSUME TypeOK, Recovery, NEW d \in DeliveryIds
  PROVE  \/ Unmoved(deliveries[d], deliveries'[d])
         \/ EndsAway(deliveries[d], deliveries'[d])
<1>1. deliveries[d] \in DeliveryRow /\ deliveries \in [DeliveryIds -> DeliveryRow]
  BY DEF TypeOK
<1>2. ASSUME NEW to, to = deliveries[d] \/ (EndsAway(deliveries[d], to) /\ to.state = "moved")
      PROVE  Unmoved(deliveries[d], to) \/ EndsAway(deliveries[d], to)
  BY <1>2 DEF Unmoved
<1>3. ASSUME NEW scope, NEW session, SetOwner(scope, session)
      PROVE  Unmoved(deliveries[d], deliveries'[d]) \/ EndsAway(deliveries[d], deliveries'[d])
  BY <1>2, <1>3, MovedEndsAway DEF SetOwner
<1>4. ASSUME NEW e \in DeliveryIds, NEW session, MoveDelivery(e, session)
      PROVE  Unmoved(deliveries[d], deliveries'[d]) \/ EndsAway(deliveries[d], deliveries'[d])
  <2>1. CASE d = e /\ deliveries[e].state = "interrupted"
    <3>1. deliveries'[d] = [deliveries[d] EXCEPT !.state = "moved"]
      BY <1>4, <2>1 DEF MoveDelivery
    <3> QED
      BY <1>1, <2>1, <3>1 DEF Unmoved, DeliveryRow
  <2>2. CASE ~(d = e /\ deliveries[e].state = "interrupted")
    <3>1. deliveries'[d] = MovedAway(deliveries[e].scope, session)[d]
      BY <1>4, <2>2 DEF MoveDelivery
    <3> QED
      BY <1>2, <3>1, MovedEndsAway
  <2> QED
    BY <2>1, <2>2
<1>5. ASSUME NEW e \in DeliveryIds, Release(e)
      PROVE  Unmoved(deliveries[d], deliveries'[d]) \/ EndsAway(deliveries[d], deliveries'[d])
  BY <1>1, <1>5 DEF Release, DeliveryRow, Unmoved, EndsAway
<1>6. ASSUME Interrupt
      PROVE  Unmoved(deliveries[d], deliveries'[d]) \/ EndsAway(deliveries[d], deliveries'[d])
  BY <1>1, <1>6 DEF Interrupt, DeliveryRow, Unmoved, EndsAway
<1>7. ASSUME NEW ids, Resend(ids) PROVE Unmoved(deliveries[d], deliveries'[d])
  BY <1>7 DEF Resend, Unmoved
<1> QED
  BY <1>3, <1>4, <1>5, <1>6, <1>7 DEF Recovery

\* A reply, or a turn end that names its deliveries, speaks of the session's own.
LEMMA AnswersSpeak ==
  ASSUME TypeOK, NEW s, NEW d \in DeliveryIds,
         \/ \E named : TurnEndedFor(s, named)
         \/ \E ids \in SUBSET MessageIds : \E to, text : Reply(s, ids, to, text)
  PROVE  Unmoved(deliveries[d], deliveries'[d]) \/ Spoken(s, deliveries[d], deliveries'[d])
<1>1. deliveries[d] \in DeliveryRow /\ deliveries \in [DeliveryIds -> DeliveryRow]
  BY DEF TypeOK
<1>2. ASSUME NEW named, TurnEndedFor(s, named)
      PROVE  Unmoved(deliveries[d], deliveries'[d]) \/ Spoken(s, deliveries[d], deliveries'[d])
  BY <1>1, <1>2 DEF TurnEndedFor, ShownNow, DeliveryRow, Unmoved, Spoken
<1>3. ASSUME NEW ids \in SUBSET MessageIds, NEW to, NEW text, Reply(s, ids, to, text)
      PROVE  Unmoved(deliveries[d], deliveries'[d]) \/ Spoken(s, deliveries[d], deliveries'[d])
  <2> DEFINE moves == {m \in ids : ~Repeated(m, to)}
             landing == Landing(moves)
             touched == {messages[m].delivery : m \in {n \in moves : messages[n].state # "no_reply"}}
             held == deliveries[d].held /\ d \notin landing
             over == /\ deliveries[d].state = "inflight"
                     /\ \A m \in Carried(d) : messages'[m].state \notin Unsettled
  <2>1. /\ d \notin touched => deliveries'[d] = deliveries[d]
        /\ d \in touched => deliveries'[d] =
             [deliveries[d] EXCEPT !.touchedAt = now, !.shown = TRUE, !.held = held,
                                   !.state = IF over THEN "done" ELSE @]
    BY <1>3 DEF Reply
  <2>2. d \in touched => deliveries[d].session = s
    <3> SUFFICES ASSUME NEW m \in moves, d = messages[m].delivery PROVE deliveries[d].session = s
      OBVIOUS
    <3>1. Replyable(s, m, to)
      BY <1>3 DEF Reply
    <3> QED
      BY <3>1 DEF Replyable, CarriedBy
  <2>3. over => deliveries[d].state = "inflight"
    OBVIOUS
  <2> HIDE DEF held, over, touched
  <2> QED
    BY <1>1, <2>1, <2>2, <2>3 DEF DeliveryRow, Unmoved, Spoken
<1> QED
  BY <1>2, <1>3

LEMMA RowsFenced == TypeOK => Fenced!Rows
<1> SUFFICES ASSUME TypeOK, NEW c \in Tokens
             PROVE  /\ ViewOf(c) \in {"given", "held", "landed", "none", "ended", "taken"}
                    /\ ClaimerOf(c) \in Sessions \cup {NoOwner}
  BY DEF Fenced!Rows, Fenced!Views, Fenced!Open
<1>1. deliveries[c[1]].session \in Sessions \cup {NoOwner}
  BY TokensAre, TokenNumbers DEF DeliveryRow
<1> QED
  BY <1>1, ViewsAre DEF ViewIn, ClaimerIn

\* A delivery that token names is a claim that is open, and its session's.
LEMMA TokenOpens ==
  ASSUME NEW c \in Tokens, NEW s \in Sessions, TokenDelivery(s, c[1], c[2])
  PROVE  /\ ClaimerIn(deliveries[c[1]], c[2]) = s
         /\ ViewIn(deliveries[c[1]], c[2]) =
              IF deliveries[c[1]].shown THEN "landed"
              ELSE IF deliveries[c[1]].held THEN "held" ELSE "given"
BY TokensAre DEF TokenDelivery, ViewIn, ClaimerIn

\* What a report changes of one row it changes of one claim.
LEMMA OneTold ==
  ASSUME TypeOK, TypeOK', NEW c \in Tokens, NEW s \in Sessions, TokenDelivery(s, c[1], c[2]),
         \A d \in DeliveryIds : d # c[1] => deliveries'[d] = deliveries[d],
         LET to == deliveries'[c[1]]
         IN /\ to.token = deliveries[c[1]].token /\ to.session = s /\ to.state = "inflight"
  PROVE  LET v == [x \in Tokens |-> ViewOf(x)]
             h == [x \in Tokens |-> ClaimerOf(x)]
         IN /\ h[c] = s /\ h' = h
            /\ v' = [v EXCEPT ![c] = ViewIn(deliveries'[c[1]], c[2])]
<1> DEFINE v == [x \in Tokens |-> ViewOf(x)]
           h == [x \in Tokens |-> ClaimerOf(x)]
<1>1. ViewIn(deliveries'[c[1]], c[2]) \in {"given", "held", "landed"}
      /\ ClaimerIn(deliveries'[c[1]], c[2]) = s
  BY TokensAre DEF TokenDelivery, ViewIn, ClaimerIn
<1>2. ASSUME NEW o \in Tokens, o # c
      PROVE  /\ ViewIn(deliveries'[o[1]], o[2]) = ViewIn(deliveries[o[1]], o[2])
             /\ ClaimerIn(deliveries'[o[1]], o[2]) = ClaimerIn(deliveries[o[1]], o[2])
  <2>1. CASE o[1] # c[1]
    BY <2>1, TokensAre
  <2>2. CASE o[1] = c[1]
    <3>1. o[2] # deliveries[o[1]].token /\ o[2] # deliveries'[o[1]].token
      BY <1>2, <2>2, TokensAre DEF TokenDelivery
    <3>2. deliveries[o[1]].token \in Nat /\ o[2] \in Nat
      BY TokensAre, TokenNumbers
    <3> QED
      BY <2>2, <3>1, <3>2 DEF ViewIn, ClaimerIn
  <2> QED
    BY <2>1, <2>2
<1>3. h[c] = s
  BY TokenOpens, ViewsMapped
<1>4. \A o \in Tokens : h'[o] = h[o]
  BY <1>1, <1>2, <1>3, ViewsMapped
<1>5. \A o \in Tokens :
        v'[o] = IF o = c THEN ViewIn(deliveries'[c[1]], c[2]) ELSE v[o]
  BY <1>2, ViewsMapped
<1>6. h' = h
  BY <1>4
<1>7. v' = [v EXCEPT ![c] = ViewIn(deliveries'[c[1]], c[2])]
  BY <1>5
<1> QED
  BY <1>3, <1>6, <1>7

\* Held and Landed move the claim their token names, if it is their session's.
LEMMA HeldFenced ==
  ASSUME TypeOK, TypeOK', NEW c \in Tokens, NEW s \in Sessions, Held(s, c[1], c[2])
  PROVE  Fenced!Held(s, c)
<1> DEFINE v == [x \in Tokens |-> ViewOf(x)]
           h == [x \in Tokens |-> ClaimerOf(x)]
           from == deliveries[c[1]]
           to == deliveries'[c[1]]
<1>1. c[1] \in DeliveryIds /\ from \in DeliveryRow
  BY TokensAre, TokenNumbers
<1>2. /\ to = [from EXCEPT !.held = TRUE]
      /\ \A d \in DeliveryIds : d # c[1] => deliveries'[d] = deliveries[d]
  BY <1>1 DEF Held, TypeOK
<1>3. /\ to.token = from.token /\ to.session = from.session /\ to.state = from.state
      /\ to.shown = from.shown /\ to.held = TRUE
  BY <1>1, <1>2 DEF DeliveryRow
<1>4. TokenDelivery(s, c[1], c[2]) /\ ~from.shown /\ ~from.held
  BY DEF Held
<1>5. to.session = s /\ to.state = "inflight" /\ to.token = c[2]
  BY <1>3, <1>4 DEF TokenDelivery
<1>6. h[c] = s /\ h' = h /\ v' = [v EXCEPT ![c] = ViewIn(to, c[2])]
  <2> HIDE DEF v, h
  <2> QED
    BY <1>2, <1>3, <1>4, <1>5, OneTold DEF v, h
<1>7. ViewIn(to, c[2]) = "held"
  BY <1>3, <1>4, <1>5, TokensAre DEF ViewIn
<1>8. v[c] = "given"
  BY <1>4, TokenOpens, ViewsMapped
<1> QED
  BY <1>6, <1>7, <1>8 DEF Fenced!Held

LEMMA LandedFenced ==
  ASSUME TypeOK, TypeOK', NEW c \in Tokens, NEW s \in Sessions, Landed(s, c[1], c[2])
  PROVE  Fenced!Landed(s, c)
<1> DEFINE v == [x \in Tokens |-> ViewOf(x)]
           h == [x \in Tokens |-> ClaimerOf(x)]
           from == deliveries[c[1]]
           to == deliveries'[c[1]]
<1>1. c[1] \in DeliveryIds /\ from \in DeliveryRow
  BY TokensAre, TokenNumbers
<1>2. /\ to = ShownNow(from)
      /\ \A d \in DeliveryIds : d # c[1] => deliveries'[d] = deliveries[d]
  BY <1>1 DEF Landed, TypeOK
<1>3. /\ to.token = from.token /\ to.session = from.session /\ to.state = from.state
      /\ to.shown = TRUE
  BY <1>1, <1>2 DEF DeliveryRow, ShownNow
<1>4. TokenDelivery(s, c[1], c[2])
  BY DEF Landed
<1>5. to.session = s /\ to.state = "inflight" /\ to.token = c[2]
  BY <1>3, <1>4 DEF TokenDelivery
<1>6. h[c] = s /\ h' = h /\ v' = [v EXCEPT ![c] = ViewIn(to, c[2])]
  <2> HIDE DEF v, h
  <2> QED
    BY <1>2, <1>3, <1>4, <1>5, OneTold DEF v, h
<1>7. ViewIn(to, c[2]) = "landed"
  BY <1>3, <1>5, TokensAre DEF ViewIn
<1>8. v[c] \in {"given", "held", "landed"}
  BY <1>4, TokenOpens, ViewsMapped
<1>9. v' = [v EXCEPT ![c] = IF @ \in {"given", "held"} THEN "landed" ELSE @]
  BY <1>6, <1>7, <1>8
<1> QED
  BY <1>6, <1>9 DEF Fenced!Landed

\* A turn's end ends all that landed with the session and nothing else.
LEMMA EndFenced ==
  ASSUME TypeOK, TypeOK', NEW s \in Sessions, TurnEnded(s)
  PROVE  Fenced!TurnEnded(s)
<1> DEFINE v == [x \in Tokens |-> ViewOf(x)]
           h == [x \in Tokens |-> ClaimerOf(x)]
<1>1. ASSUME NEW c \in Tokens
      PROVE  /\ v'[c] = IF c \in Fenced!Ending(s) THEN "ended" ELSE v[c]
             /\ h'[c] = IF c \in Fenced!Ending(s) THEN NoOwner ELSE h[c]
  <2> DEFINE from == deliveries[c[1]]
             to == deliveries'[c[1]]
             ends == from.session = s /\ from.state = "inflight" /\ from.shown
  <2>1. c[1] \in DeliveryIds /\ from \in DeliveryRow /\ c[2] \in Nat /\ from.token \in Nat
    BY TokensAre, TokenNumbers
  <2>2. to = IF ends THEN [from EXCEPT !.state = "done"] ELSE from
    BY <2>1 DEF TurnEnded
  <2>3. /\ v[c] = ViewIn(from, c[2]) /\ h[c] = ClaimerIn(from, c[2])
        /\ v'[c] = ViewIn(to, c[2]) /\ h'[c] = ClaimerIn(to, c[2])
    BY ViewsMapped
  <2>4. c \in Fenced!Ending(s) <=> ClaimerIn(from, c[2]) = s /\ ViewIn(from, c[2]) = "landed"
    BY <2>3 DEF Fenced!Ending
  <2>5. c \in Fenced!Ending(s) <=> ends /\ from.token = c[2]
    BY <2>1, <2>4, SessionsAssumption DEF ViewIn, ClaimerIn
  <2>6. CASE c \in Fenced!Ending(s)
    <3>1. to = [from EXCEPT !.state = "done"]
      BY <2>2, <2>5, <2>6
    <3>2. to.state = "done" /\ to.token = c[2]
      BY <2>1, <2>5, <2>6, <3>1 DEF DeliveryRow
    <3>3. ViewIn(to, c[2]) = "ended" /\ ClaimerIn(to, c[2]) = NoOwner
      BY <2>1, <3>2 DEF ViewIn, ClaimerIn
    <3> QED
      BY <2>3, <2>6, <3>3
  <2>7. CASE c \notin Fenced!Ending(s)
    <3>1. CASE ~ends
      BY <2>2, <2>3, <2>7, <3>1
    <3>2. CASE ends
      <4>1. from.token # c[2]
        BY <2>5, <2>7, <3>2
      <4>2. to.token = from.token
        BY <2>1, <2>2 DEF DeliveryRow
      <4>3. ViewIn(to, c[2]) = ViewIn(from, c[2]) /\ ClaimerIn(to, c[2]) = ClaimerIn(from, c[2])
        BY <2>1, <4>1, <4>2 DEF ViewIn, ClaimerIn
      <4> QED
        BY <2>3, <2>7, <4>3
    <3> QED
      BY <3>1, <3>2
  <2> QED
    BY <2>6, <2>7
<1>2. /\ v' = [c \in Tokens |-> IF c \in Fenced!Ending(s) THEN "ended" ELSE v[c]]
      /\ h' = [c \in Tokens |-> IF c \in Fenced!Ending(s) THEN NoOwner ELSE h[c]]
  BY <1>1
<1> QED
  BY <1>2 DEF Fenced!TurnEnded

LEMMA StepFenced ==
  ASSUME TypeOK, TypeOK', Untold(deliveries), [Next]_vars
  PROVE  [Fenced!Next]_(Fenced!vars)
<1>1. Fenced!Rows'
  BY RowsFenced, PTL
<1>2. ASSUME NEW s \in Sessions, \A d \in DeliveryIds :
               Unmoved(deliveries[d], deliveries'[d]) \/ Spoken(s, deliveries[d], deliveries'[d])
      PROVE  Fenced!Next
  <2>1. \A c \in Tokens : Fenced!Same(c) \/ Fenced!Answered(s, c)
    BY <1>2, ClaimsTold, TokensAre
  <2> QED
    BY <1>1, <2>1 DEF Fenced!Next, Fenced!Answer
<1>3. CASE Claims
  BY <1>1, <1>3, ClaimsFenced
<1>4. CASE Reports
  <2>1. PICK s \in Sessions :
          \/ \E d \in DeliveryIds, token \in 1..MaxClaims :
               Held(s, d, token) \/ Landed(s, d, token)
          \/ TurnEnded(s)
          \/ \E named \in SUBSET DeliveryIds : TurnEndedFor(s, named)
    BY <1>4 DEF Reports
  <2>2. ASSUME NEW d \in DeliveryIds, NEW token \in 1..MaxClaims,
               Held(s, d, token) \/ Landed(s, d, token)
        PROVE  Fenced!Next
    <3> DEFINE c == <<d, token>>
    <3>1. c \in Tokens /\ c[1] = d /\ c[2] = token
      BY DEF Tokens
    <3> HIDE DEF c
    <3> QED
      BY <2>2, <3>1, HeldFenced, LandedFenced DEF Fenced!Next
  <2>3. CASE TurnEnded(s)
    BY <2>3, EndFenced DEF Fenced!Next
  <2>4. CASE \E named \in SUBSET DeliveryIds : TurnEndedFor(s, named)
    BY <1>2, <2>4, AnswersSpeak
  <2> QED
    BY <2>1, <2>2, <2>3, <2>4
<1>5. CASE Replies
  <2>1. PICK s \in Sessions, ids \in SUBSET MessageIds, ack \in Acknowledgements :
          Reply(s, ids, ack[1], ack[2])
    BY <1>5 DEF Replies
  <2> QED
    BY <1>2, <2>1, AnswersSpeak
<1>6. CASE Recovery
  <2>1. \A c \in Tokens : Fenced!Same(c) \/ Fenced!TakenAway(c)
    <3> TAKE c \in Tokens
    <3>1. \/ Unmoved(deliveries[c[1]], deliveries'[c[1]])
          \/ EndsAway(deliveries[c[1]], deliveries'[c[1]])
      BY <1>6, TokensAre, RecoveryLeaves
    <3> QED
      BY <3>1, ClaimsTold
  <2> QED
    BY <1>1, <2>1 DEF Fenced!Next, Fenced!TakeAway
<1>7. CASE Writes \/ Tick \/ UNCHANGED vars
  <2>1. deliveries' = deliveries
    BY <1>7 DEF Writes, Draft, Post, RemoveDraft, ReorderBatch, SendBatch, Tick, vars
  <2>2. \A c \in Tokens : ViewOf(c)' = ViewOf(c) /\ ClaimerOf(c)' = ClaimerOf(c)
    BY <2>1, ViewsAre
  <2> QED
    BY <2>2 DEF Fenced!vars
<1> QED
  BY <1>3, <1>4, <1>5, <1>6, <1>7 DEF Next

\* A token is good for one claim of one session and for as long as it lasts, and
\* each report does what the harness side takes it to do, neither more nor less.
THEOREM StoreImplementsTenure == Spec => ImplementsTenure
<1>1. Init => Fenced!Init
  <2> SUFFICES ASSUME Init PROVE Fenced!Init
    OBVIOUS
  <2>1. \A c \in Tokens : deliveries[c[1]].token = 0
    BY TokensAre DEF Init
  <2>2. \A c \in Tokens : ViewOf(c) = "none" /\ ClaimerOf(c) = NoOwner
    BY <2>1, TokensAre, ViewsAre DEF ViewIn, ClaimerIn
  <2> QED
    BY <2>2 DEF Fenced!Init
<1>2. TypeOK /\ TypeOK' /\ Untold(deliveries) /\ [Next]_vars => [Fenced!Next]_(Fenced!vars)
  BY StepFenced
<1>3. TypeOK /\ TypeOK' /\ [Next]_vars => [ToldAsNamed]_vars
  BY HeldFenced, LandedFenced, EndFenced DEF ToldAsNamed
<1> QED
  BY <1>1, <1>2, <1>3, TypeCorrect, UntoldHolds, PTL DEF Spec, ImplementsTenure, Fenced!Spec
===============================================================================
