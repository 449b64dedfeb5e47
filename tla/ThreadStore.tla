------------------------------ MODULE ThreadStore ------------------------------
(***************************************************************************)
(* threadstore: the conversation store between a tool's page and the agent *)
(* sessions.  Every exported operation is one SQLite transaction whose     *)
(* first statement writes, so it is one action here; the callers (page     *)
(* handlers, channel polls, harness hooks, recovery) interleave freely and *)
(* may call with arguments that have gone stale.                           *)
(*                                                                         *)
(* Kept: every state a row moves through, who carries what, the queue's    *)
(* order and every comparison with the clock.  Left out: text, meta and    *)
(* the timestamps nothing branches on (sent_at, finished_at, settled_at).  *)
(* Rows outside the lifecycle (Note, the agent's replies) are only counted *)
(* on the message they answer.  Threads are given: Thread only inserts a   *)
(* row that nothing ever changes.                                          *)
(***************************************************************************)
EXTENDS Integers, FiniteSets, MsgState

CONSTANTS
  Sessions,       \* ids of the agent sessions
  NoOwner,        \* the scope owner ''
  Scopes, Threads,
  ThreadScope,    \* the scope of each thread
  MaxMessages,    \* bound: message rows ever inserted
  MaxBatches,     \* bound: Sends
  MaxDeliveries,  \* bound: deliveries
  MaxClaims,      \* bound: times one delivery is handed out (its tokens)
  MaxNow,         \* bound: the clock
  PresenceTTL,    \* how long a session not in `present' is still believed in
  Acknowledgements \* the replies tried: <<state asked for, is there text>>

ASSUME SessionsAssumption == NoOwner \notin Sessions
ASSUME ThreadScopeAssumption == Threads # {} /\ ThreadScope \in [Threads -> Scopes]
ASSUME BoundsAssumption ==
  /\ MaxMessages \in Nat /\ MaxBatches \in Nat /\ MaxDeliveries \in Nat
  /\ MaxClaims \in Nat \ {0} /\ MaxNow \in Nat /\ PresenceTTL \in Nat
ASSUME AcknowledgementsAssumption ==
  Acknowledgements \subseteq {"working", "answered", "declined", "failed"} \X BOOLEAN

MessageIds  == 1..MaxMessages
BatchIds    == 1..MaxBatches
DeliveryIds == 1..MaxDeliveries

VARIABLES
  now,         \* Store.Now
  scopes,      \* thread_scopes
  batches,     \* thread_batches
  messages,    \* thread_messages in the lifecycle, and the drafts
  deliveries   \* thread_deliveries

vars == <<now, scopes, batches, messages, deliveries>>

--------------------------------------------------------------------------------
(* The tables. "none" is an id no INSERT has used, "removed" a deleted row; *)
(* batch 0 and delivery 0 are NULL.                                         *)

UnsettledButWorking == {"sent", "with_agent"}   \* mutant: forgets working
Unsettled == {"sent", "with_agent", "working"}

ScopeRow == [owner : Sessions \cup {NoOwner}, ownedAt : 0..MaxNow]
BatchRow == [state : {"none", "draft", "sent"}, scope : Scopes]
MessageRow ==
  [state : LifecycleStates \cup {"none", "draft", "removed"},
   thread : Threads, batch : 0..MaxBatches, pos : 0..MaxMessages,
   delivery : 0..MaxDeliveries, queuedAt : 0..MaxNow,
   line : BOOLEAN,    \* has a line under it
   replies : Nat]     \* rows whose reply_to names it
DeliveryRow ==
  [state : {"none", "inflight", "done", "released", "moved", "interrupted"},
   scope : Scopes, batch : 0..MaxBatches,
   session : Sessions \cup {NoOwner},
   token : 0..MaxClaims,   \* which of its claims: a token is never reused
   held : BOOLEAN, shown : BOOLEAN,
   touchedAt : 0..MaxNow]

SomeThread == CHOOSE t \in Threads : TRUE   \* for the columns of unused ids

Init ==
  /\ now = 0
  /\ scopes = [s \in Scopes |-> [owner |-> NoOwner, ownedAt |-> 0]]
  /\ batches = [b \in BatchIds |-> [state |-> "none", scope |-> ThreadScope[SomeThread]]]
  /\ messages = [m \in MessageIds |->
       [state |-> "none", thread |-> SomeThread, batch |-> 0, pos |-> 0, delivery |-> 0,
        queuedAt |-> 0, line |-> FALSE, replies |-> 0]]
  /\ deliveries = [d \in DeliveryIds |->
       [state |-> "none", scope |-> ThreadScope[SomeThread], batch |-> 0,
        session |-> NoOwner, token |-> 0, held |-> FALSE, shown |-> FALSE,
        touchedAt |-> 0]]

\* i is the id AUTOINCREMENT gives the next row of table: ids are never reused.
FreshId(table, i) ==
  /\ table[i].state = "none"
  /\ \A j \in DOMAIN table : j < i => table[j].state # "none"

MessageScope(ms, m) == ThreadScope[ms[m].thread]

\* Mutant: forgets that a delivery in flight may carry m already.
SentAtAll(ms, ds, m) == ms[m].state = "sent"

\* m waits for a delivery: sent, and carried by none in flight (`queued').
Queued(ms, ds, m) ==
  /\ ms[m].state = "sent"
  /\ ms[m].delivery # 0 => ds[ms[m].delivery].state # "inflight"

\* The delivery m was last carried by is session's.
CarriedBy(ms, ds, m, session) ==
  ms[m].delivery # 0 /\ ds[ms[m].delivery].session = session

CarriedByOther(ms, ds, m, session) ==
  ms[m].delivery # 0 /\ ds[ms[m].delivery].session # session

\* ORDER BY queued_at, batch_id: m is no later in line than n.
NoLater(ms, m, n) ==
  \/ ms[m].queuedAt < ms[n].queuedAt
  \/ ms[m].queuedAt = ms[n].queuedAt /\ ms[m].batch <= ms[n].batch

FirstInLine(ms, M) == {m \in M : \A n \in M : NoLater(ms, m, n)}

--------------------------------------------------------------------------------
(* Writing and sending (batch.go, store.go).                                *)

BatchMessages(b) == {m \in MessageIds : messages[m].batch = b}
Drafts(b) == {m \in BatchMessages(b) : messages[m].state = "draft"}

\* Mutant: count(*) + 1, which a removed draft makes repeat a place.
CountPos(b, p) == p \in 1..MaxMessages /\ p = Cardinality(BatchMessages(b)) + 1

\* COALESCE(MAX(batch_pos), 0) + 1
NextPos(b, p) ==
  /\ p \in 1..MaxMessages
  /\ \A m \in BatchMessages(b) : messages[m].pos < p
  /\ p = 1 \/ \E m \in BatchMessages(b) : messages[m].pos = p - 1

Insert(m, t, b, p, state, queuedAt) ==
  messages' = [messages EXCEPT ![m] =
    [state |-> state, thread |-> t, batch |-> b, pos |-> p, delivery |-> 0,
     queuedAt |-> queuedAt, line |-> FALSE, replies |-> 0]]

\* Draft: into the scope's draft batch, started when there is none.
Draft(t) ==
  \E b \in BatchIds, m \in MessageIds :
    /\ FreshId(messages, m)
    /\ \/ /\ batches[b] = [state |-> "draft", scope |-> ThreadScope[t]]
          /\ UNCHANGED batches
       \/ /\ \A c \in BatchIds : batches[c] # [state |-> "draft", scope |-> ThreadScope[t]]
          /\ FreshId(batches, b)
          /\ batches' = [batches EXCEPT ![b] = [state |-> "draft", scope |-> ThreadScope[t]]]
    /\ \E p \in 1..MaxMessages : NextPos(b, p) /\ Insert(m, t, b, p, "draft", 0)
    /\ UNCHANGED <<now, scopes, deliveries>>

\* RemoveDraft: DELETE ... WHERE state = 'draft'.
RemoveDraft(m) ==
  /\ messages[m].state = "draft"
  /\ messages' = [messages EXCEPT ![m].state = "removed", ![m].batch = 0]
  /\ UNCHANGED <<now, scopes, batches, deliveries>>

\* ReorderBatch: order lists the batch's drafts, each once.
ReorderBatch(b) ==
  /\ Drafts(b) # {}
  /\ \E order \in [Drafts(b) -> 1..Cardinality(Drafts(b))] :
       /\ \A m, n \in Drafts(b) : order[m] = order[n] => m = n
       /\ messages' = [m \in MessageIds |->
            IF m \in Drafts(b) THEN [messages[m] EXCEPT !.pos = order[m]] ELSE messages[m]]
  /\ UNCHANGED <<now, scopes, batches, deliveries>>

StillDraft(b) == batches   \* mutant: forgets the batch's own row
MarkSent(b) == [batches EXCEPT ![b].state = "sent"]

\* SendBatch: the whole batch joins the line with one queue time.
SendBatch(b) ==
  /\ Drafts(b) # {}
  /\ messages' = [m \in MessageIds |->
       IF m \in Drafts(b) THEN [messages[m] EXCEPT !.state = "sent", !.queuedAt = now]
                          ELSE messages[m]]
  /\ batches' = MarkSent(b)
  /\ UNCHANGED <<now, scopes, deliveries>>

\* Post: a Send of one, queued at once, beside any draft batch.
Post(t) ==
  \E b \in BatchIds, m \in MessageIds :
    /\ FreshId(messages, m)
    /\ FreshId(batches, b)
    /\ batches' = [batches EXCEPT ![b] = [state |-> "sent", scope |-> ThreadScope[t]]]
    /\ Insert(m, t, b, 1, "sent", now)
    /\ UNCHANGED <<now, scopes, deliveries>>

--------------------------------------------------------------------------------
(* Owners and claims (delivery.go).                                         *)

\* SetOwnerTx, as the three tables it leaves behind.
Owned(scope, session) ==
  [scopes EXCEPT ![scope] = [owner |-> session, ownedAt |-> now]]

\* Mutant: lets the old session finish what already reached it.
MovedAwayUnlanded(scope, session) ==
  [d \in DeliveryIds |->
    IF /\ deliveries[d].state = "inflight" /\ ~deliveries[d].shown
       /\ deliveries[d].scope = scope
       /\ deliveries[d].session # session
    THEN [deliveries[d] EXCEPT !.state = "moved"]
    ELSE deliveries[d]]

\* Deliveries in flight with another session end as moved.
MovedAway(scope, session) ==
  [d \in DeliveryIds |->
    IF /\ deliveries[d].state = "inflight"
       /\ deliveries[d].scope = scope
       /\ deliveries[d].session # session
    THEN [deliveries[d] EXCEPT !.state = "moved"]
    ELSE deliveries[d]]

\* Mutant: brings only what is open, not what was left unanswered.
RequeuedOpen(scope, session) ==
  [m \in MessageIds |->
    IF /\ messages[m].state \in Unsettled
       /\ MessageScope(messages, m) = scope
       /\ CarriedByOther(messages, deliveries, m, session)
    THEN [messages[m] EXCEPT !.state = "sent", !.line = FALSE]
    ELSE messages[m]]

\* What another session holds or left unanswered is queued again, its place
\* in line and the delivery that last carried it kept.
Requeued(scope, session) ==
  [m \in MessageIds |->
    IF /\ messages[m].state \in Unsettled \cup {"no_reply"}
       /\ MessageScope(messages, m) = scope
       /\ CarriedByOther(messages, deliveries, m, session)
    THEN [messages[m] EXCEPT !.state = "sent", !.line = FALSE]
    ELSE messages[m]]

SetOwner(scope, session) ==
  /\ scopes' = Owned(scope, session)
  /\ deliveries' = MovedAway(scope, session)
  /\ messages' = Requeued(scope, session)
  /\ UNCHANGED <<now, batches>>

\* A claim of these scopes at time t sees as stale what was touched at or
\* before t - PresenceTTL.
Stale(t) == t <= now - PresenceTTL

\* claimFrom's first query: unlanded deliveries in flight whose claimer has gone.
Retakable(ds, from, present) ==
  {d \in DeliveryIds :
     /\ ds[d].state = "inflight" /\ ~ds[d].shown /\ Stale(ds[d].touchedAt)
     /\ ds[d].session \notin present
     /\ ds[d].scope \in from}

\* claimFrom's second query: what waits in these scopes.
Waiting(ms, ds, from) ==
  {m \in MessageIds : Queued(ms, ds, m) /\ MessageScope(ms, m) \in from}

\* Take back the lowest such delivery: new claimer, new token, not held.
TakeBack(ms, ds, from, session, present) ==
  \E d \in Retakable(ds, from, present) :
    /\ \A e \in Retakable(ds, from, present) : d <= e
    /\ ds[d].token < MaxClaims
    /\ deliveries' = [ds EXCEPT ![d].session = session, ![d].token = @ + 1,
                                ![d].touchedAt = now, ![d].held = FALSE]
    /\ messages' = ms

\* Mutant: empties the scope's whole line into one delivery.
WholeLine(ms, ds, first) ==
  {m \in MessageIds : Queued(ms, ds, m) /\ MessageScope(ms, m) = MessageScope(ms, first)}

\* The queued messages of first's Send.
WholeSend(ms, ds, first) ==
  {m \in MessageIds : Queued(ms, ds, m) /\ ms[m].batch = ms[first].batch}

\* Hand out the oldest Send waiting, whole: a new delivery carries every
\* queued message of its batch.
HandOut(ms, ds, from, session) ==
  \E first \in FirstInLine(ms, Waiting(ms, ds, from)), d \in DeliveryIds :
    /\ FreshId(ds, d)
    /\ deliveries' = [ds EXCEPT ![d] =
         [state |-> "inflight", scope |-> MessageScope(ms, first),
          batch |-> ms[first].batch, session |-> session, token |-> 1,
          held |-> FALSE, shown |-> FALSE, touchedAt |-> now]]
    /\ messages' = [m \in MessageIds |->
         IF m \in WholeSend(ms, ds, first) THEN [ms[m] EXCEPT !.delivery = d] ELSE ms[m]]

Nothing(ms, ds, from, present) ==
  Retakable(ds, from, present) = {} /\ Waiting(ms, ds, from) = {}

ClaimFrom(ms, ds, from, session, present) ==
  \/ TakeBack(ms, ds, from, session, present)
  \/ Retakable(ds, from, present) = {} /\ HandOut(ms, ds, from, session)

OwnScopes(may, session) == {s \in may : scopes[s].owner = session}
FreeScopes(may) == {s \in may : scopes[s].owner = NoOwner}

\* Mutant: believes the snapshot as soon as the ownership is old enough.
AbsentOwner(s, session, present) ==
  /\ scopes[s].owner \notin {NoOwner, session} \cup present
  /\ Stale(scopes[s].ownedAt)

\* s has an owner, gone: not in the snapshot, owner for long enough, and no
\* delivery in flight it has touched since.
OwnerGone(s, session, present) ==
  /\ scopes[s].owner \notin {NoOwner, session} \cup present
  /\ Stale(scopes[s].ownedAt)
  /\ \A d \in DeliveryIds :
       (/\ deliveries[d].scope = s /\ deliveries[d].session = scopes[s].owner
        /\ deliveries[d].state = "inflight")
       => Stale(deliveries[d].touchedAt)

\* The messages by which a gone owner's scope may be taken over.
TakeoverMessages(may, session, present) ==
  {m \in MessageIds :
     /\ MessageScope(messages, m) \in may
     /\ OwnerGone(MessageScope(messages, m), session, present)
     /\ \/ Queued(messages, deliveries, m)
        \/ /\ messages[m].state \in Unsettled \cup {"no_reply"}
           /\ CarriedByOther(messages, deliveries, m, session)}

\* Claim, first: from the scopes session owns.
ClaimOwn(session, may, present) ==
  /\ ClaimFrom(messages, deliveries, OwnScopes(may, session), session, present)
  /\ UNCHANGED <<now, scopes, batches>>

\* Claim, second: take over the gone owner's scope whose message is first in
\* line, and claim from what session then owns.
ClaimTakeover(session, may, present) ==
  /\ Nothing(messages, deliveries, OwnScopes(may, session), present)
  /\ \E m \in FirstInLine(messages, TakeoverMessages(may, session, present)) :
       LET scope == MessageScope(messages, m)
           ms == Requeued(scope, session)
           ds == MovedAway(scope, session)
           own == OwnScopes(may, session) \cup {scope}
       IN /\ scopes' = Owned(scope, session)
          /\ \/ ClaimFrom(ms, ds, own, session, present)
             \/ /\ Nothing(ms, ds, own, present)
                /\ messages' = ms /\ deliveries' = ds
  /\ UNCHANGED <<now, batches>>

\* Claim, last: from the scopes nobody owns.
ClaimFree(session, may, present) ==
  /\ Nothing(messages, deliveries, OwnScopes(may, session), present)
  /\ TakeoverMessages(may, session, present) = {}
  /\ ClaimFrom(messages, deliveries, FreeScopes(may), session, present)
  /\ UNCHANGED <<now, scopes, batches>>

\* Claim: `present' is the caller's snapshot, as old and as wrong as may be.
Claim(session, may, present) ==
  \/ ClaimOwn(session, may, present)
  \/ ClaimTakeover(session, may, present)
  \/ ClaimFree(session, may, present)

--------------------------------------------------------------------------------
(* The harness's reports and the agent's replies (delivery.go).             *)

\* Mutant: an earlier token will do.
AnyToken(session, d, token) ==
  /\ deliveries[d].state = "inflight" /\ deliveries[d].session = session
  /\ token <= deliveries[d].token

\* tokenDelivery: session's delivery in flight that token names.
TokenDelivery(session, d, token) ==
  /\ deliveries[d].state = "inflight"
  /\ deliveries[d].session = session
  /\ deliveries[d].token = token

\* Held: the agent is mid-turn; only before it lands.
Held(session, d, token) ==
  /\ TokenDelivery(session, d, token)
  /\ ~deliveries[d].shown /\ ~deliveries[d].held
  /\ deliveries' = [deliveries EXCEPT ![d].held = TRUE]
  /\ UNCHANGED <<now, scopes, batches, messages>>

\* Mutant: stamps when the touch will expire, not when it was.
ShownUntil(row) ==
  [row EXCEPT !.held = FALSE, !.touchedAt = now + PresenceTTL, !.shown = TRUE]

\* landed's row: no longer held, touched, and shown for good.
ShownNow(row) == [row EXCEPT !.held = FALSE, !.touchedAt = now, !.shown = TRUE]

\* move: what msgstate refuses is skipped.
MoveMessages(M, to) ==
  [m \in MessageIds |->
    IF m \in M /\ Allowed(messages[m].state, to)
    THEN [messages[m] EXCEPT !.state = to] ELSE messages[m]]

Carried(d) == {m \in MessageIds : messages[m].delivery = d}

\* Landed: the delivery's sent messages are with the agent.
Landed(session, d, token) ==
  /\ TokenDelivery(session, d, token)
  /\ messages' = MoveMessages(Carried(d), "with_agent")
  /\ deliveries' = [deliveries EXCEPT ![d] = ShownNow(@)]
  /\ UNCHANGED <<now, scopes, batches>>

\* TurnEnded: what landed with session ends, unanswered where unsettled.
TurnEnded(session) ==
  LET ended == {d \in DeliveryIds : /\ deliveries[d].session = session
                                    /\ deliveries[d].state = "inflight"
                                    /\ deliveries[d].shown}
  IN /\ ended # {}
     /\ messages' = MoveMessages({m \in MessageIds : messages[m].delivery \in ended},
                                 "no_reply")
     /\ deliveries' = [d \in DeliveryIds |->
          IF d \in ended THEN [deliveries[d] EXCEPT !.state = "done"] ELSE deliveries[d]]
     /\ UNCHANGED <<now, scopes, batches>>

\* TurnEndedFor: each named delivery still in flight for session lands, then
\* ends; sent goes through with_agent to no_reply.
TurnEndedFor(session, named) ==
  LET ended == {d \in named : /\ deliveries[d].session = session
                              /\ deliveries[d].state = "inflight"}
  IN /\ ended # {}
     /\ messages' = [m \in MessageIds |->
          IF messages[m].delivery \in ended /\ messages[m].state \in Unsettled
          THEN [messages[m] EXCEPT !.state = "no_reply"] ELSE messages[m]]
     /\ deliveries' = [d \in DeliveryIds |->
          IF d \in ended THEN [ShownNow(deliveries[d]) EXCEPT !.state = "done"]
                         ELSE deliveries[d]]
     /\ UNCHANGED <<now, scopes, batches>>

\* Mutant: no such case, so a repeated reply is written again.
NeverRepeated(m, to) == FALSE

\* Already in the settled state asked for: left as it is.
Repeated(m, to) == messages[m].state = to /\ Final(to)

\* Mutant: asks who holds the message, not msgstate.
ReplyableByHolder(session, m, to) ==
  /\ messages[m].state \in LifecycleStates
  /\ CarriedBy(messages, deliveries, m, session)
  /\ messages[m].state = "sent" => deliveries[messages[m].delivery].state = "inflight"

\* Reply's check of one id; one failure refuses the whole call.
Replyable(session, m, to) ==
  /\ messages[m].state \in LifecycleStates
  /\ CarriedBy(messages, deliveries, m, session)
  /\ messages[m].state = "sent" => deliveries[messages[m].delivery].state = "inflight"
  /\ messages[m].state = to \/ Acknowledge(messages[m].state, to)

OnlyNamed(moves) == {}   \* mutant: lands none but the messages named

\* The deliveries a reply to a message still sent brings to the agent.
Landing(moves) == {messages[m].delivery : m \in {n \in moves : messages[n].state = "sent"}}

\* Reply to ids; text says whether the agent wrote any.  answers picks the
\* message of each thread that the reply row answers: the first id named.
Reply(session, ids, to, text) ==
  LET moves == {m \in ids : ~Repeated(m, to)}
      landing == Landing(moves)
      touched == {messages[m].delivery : m \in {n \in moves : messages[n].state # "no_reply"}}
      threads == {messages[m].thread : m \in moves}
  IN /\ moves # {}
     /\ \A m \in ids : Replyable(session, m, to)
     /\ \E answers \in [threads -> moves] :
          /\ \A t \in threads : messages[answers[t]].thread = t
          /\ messages' = [m \in MessageIds |->
               IF m \in moves
               THEN [messages[m] EXCEPT
                       !.state = to, !.line = (text /\ to = "working"),
                       !.replies = @ + IF /\ text /\ Final(to)
                                          /\ answers[messages[m].thread] = m
                                       THEN 1 ELSE 0]
               ELSE IF messages[m].delivery \in landing /\ messages[m].state = "sent"
               THEN [messages[m] EXCEPT !.state = "with_agent"]
               ELSE messages[m]]
     /\ deliveries' = [d \in DeliveryIds |->
          IF d \notin touched THEN deliveries[d]
          ELSE [deliveries[d] EXCEPT
                  !.touchedAt = now, !.shown = TRUE,
                  !.held = @ /\ d \notin landing,
                  !.state = IF /\ @ = "inflight"
                               /\ \A m \in Carried(d) : messages'[m].state \notin Unsettled
                            THEN "done" ELSE @]]
     /\ UNCHANGED <<now, scopes, batches>>

--------------------------------------------------------------------------------
(* Recovery (recovery.go) and the clock.                                    *)

OpenIn(d, m) == messages[m].delivery = d /\ messages[m].state \in Unsettled

\* Release: Court ends a delivery by hand, whether or not it landed.
Release(d) ==
  /\ deliveries[d].state = "inflight"
  /\ deliveries' = [deliveries EXCEPT ![d].state = "released"]
  /\ messages' = [m \in MessageIds |->
       IF OpenIn(d, m) THEN [messages[m] EXCEPT !.state = "no_reply"] ELSE messages[m]]
  /\ UNCHANGED <<now, scopes, batches>>

\* MoveDelivery: its scope moves to session; an interrupted one may move too.
MoveDelivery(d, session) ==
  LET scope == deliveries[d].scope
  IN /\ deliveries[d].state \in {"inflight", "interrupted"}
     /\ scopes' = Owned(scope, session)
     /\ messages' = Requeued(scope, session)
     /\ deliveries' = [e \in DeliveryIds |->
          IF e = d /\ deliveries[d].state = "interrupted"
          THEN [deliveries[d] EXCEPT !.state = "moved"]
          ELSE MovedAway(scope, session)[e]]
     /\ UNCHANGED <<now, batches>>

\* Interrupt: a new serve ends what the last one left in flight; the messages
\* wait again, in their place in line, each naming the delivery it was in.
Interrupt ==
  LET left == {d \in DeliveryIds : deliveries[d].state = "inflight"}
  IN /\ left # {}
     /\ deliveries' = [d \in DeliveryIds |->
          IF d \in left THEN [deliveries[d] EXCEPT !.state = "interrupted"] ELSE deliveries[d]]
     /\ messages' = [m \in MessageIds |->
          IF messages[m].delivery \in left /\ messages[m].state \in Unsettled
          THEN [messages[m] EXCEPT !.state = "sent", !.line = FALSE] ELSE messages[m]]
     /\ UNCHANGED <<now, scopes, batches>>

\* Resend: what msgstate lets go back to sent joins the end of the line, in
\* its own Send, carried by nothing.
Resend(ids) ==
  LET again == {m \in ids : Allowed(messages[m].state, "sent")}
  IN /\ again # {}
     /\ messages' = [m \in MessageIds |->
          IF m \in again
          THEN [messages[m] EXCEPT !.state = "sent", !.delivery = 0,
                                   !.queuedAt = now, !.line = FALSE]
          ELSE messages[m]]
     /\ UNCHANGED <<now, scopes, batches, deliveries>>

Tick ==
  /\ now < MaxNow
  /\ now' = now + 1
  /\ UNCHANGED <<scopes, batches, messages, deliveries>>

--------------------------------------------------------------------------------

Writes ==
  \/ \E t \in Threads : Draft(t) \/ Post(t)
  \/ \E m \in MessageIds : RemoveDraft(m)
  \/ \E b \in BatchIds : ReorderBatch(b) \/ SendBatch(b)

Claims ==
  \E session \in Sessions, may \in SUBSET Scopes, present \in SUBSET Sessions :
    Claim(session, may, present)

Reports ==
  \E session \in Sessions :
    \/ \E d \in DeliveryIds, token \in 1..MaxClaims :
         Held(session, d, token) \/ Landed(session, d, token)
    \/ TurnEnded(session)
    \/ \E named \in SUBSET DeliveryIds : TurnEndedFor(session, named)

Replies ==
  \E session \in Sessions, ids \in SUBSET MessageIds, ack \in Acknowledgements :
    Reply(session, ids, ack[1], ack[2])

Recovery ==
  \/ \E scope \in Scopes, session \in Sessions : SetOwner(scope, session)
  \/ \E d \in DeliveryIds, session \in Sessions : MoveDelivery(d, session)
  \/ \E d \in DeliveryIds : Release(d)
  \/ Interrupt
  \/ \E ids \in SUBSET MessageIds : Resend(ids)

Next == Writes \/ Claims \/ Reports \/ Replies \/ Recovery \/ Tick

Spec == Init /\ [][Next]_vars

--------------------------------------------------------------------------------
(* What must hold.                                                          *)

\* The tables stay tables: every column holds a value of its kind.
TypeOK ==
  /\ now \in 0..MaxNow
  /\ scopes \in [Scopes -> ScopeRow]
  /\ batches \in [BatchIds -> BatchRow]
  /\ messages \in [MessageIds -> MessageRow]
  /\ deliveries \in [DeliveryIds -> DeliveryRow]

InFlight(d) == deliveries[d].state = "inflight"

\* A message the page calls "with the agent" or "working" is in a delivery
\* still in flight that really reached its session: whatever reports, replies,
\* takeovers and recoveries interleave, no message is left claiming an agent
\* that no turn end and no reply will ever settle (landed, endTurn, Reply).
OpenIsCarried ==
  \A m \in MessageIds :
    messages[m].state \in {"with_agent", "working"} =>
      /\ messages[m].delivery # 0
      /\ InFlight(messages[m].delivery)
      /\ deliveries[messages[m].delivery].shown

\* A delivery in flight that reached the agent has no message still "sent":
\* it reached it as one event, whether the landed report, a reply to one of
\* its messages or a turn-end hook came first.  (TurnEnded would skip such a
\* message, and the ended delivery would give it out a second time.)
ShownIsWhole ==
  \A m \in MessageIds :
    (/\ messages[m].state = "sent" /\ messages[m].delivery # 0
     /\ InFlight(messages[m].delivery))
    => ~deliveries[messages[m].delivery].shown

\* A delivery in flight always has something unsettled in it, so it can still
\* end by the agent's replies, and a session's InFlight list is never padded
\* with deliveries nobody will close (Reply's last UPDATE; Resend and SetOwner
\* take messages away from deliveries).
InFlightHasOpen ==
  \A d \in DeliveryIds : InFlight(d) => \E m \in MessageIds : OpenIn(d, m)

\* One holder per scope: while a scope has an owner, every delivery in flight
\* from it is the owner's.  A takeover, by hand or by a Claim with any
\* snapshot, moves the owner and everything unanswered together.
OwnerHolds ==
  \A d \in DeliveryIds :
    InFlight(d) /\ scopes[deliveries[d].scope].owner # NoOwner
      => deliveries[d].session = scopes[deliveries[d].scope].owner

\* What a delivery carries is from its own Send and its own scope, so a scope's
\* takeover (which picks messages by thread and deliveries by scope) never
\* separates a message from its delivery.
CarriesItsSend ==
  \A m \in MessageIds :
    LET d == messages[m].delivery
    IN d # 0 => /\ deliveries[d].batch = messages[m].batch
                /\ deliveries[d].scope = MessageScope(messages, m)
                /\ batches[messages[m].batch].scope = deliveries[d].scope

\* The order Court gave a Send is a strict order: no two messages of a batch
\* share a place, through drafts removed, reordered and added again.
PlacesDiffer ==
  \A m, n \in MessageIds :
    m # n /\ messages[m].batch # 0 /\ messages[m].batch = messages[n].batch
      => messages[m].pos # messages[n].pos

\* A Send never grows after it went out: what shares a batch with a draft is
\* a draft, and a scope fills one draft batch at a time.
DraftsWait ==
  /\ \A m, n \in MessageIds :
       messages[m].state = "draft" /\ messages[n].batch = messages[m].batch
         => messages[n].state = "draft"
  /\ \A b, c \in BatchIds :
       batches[b] = batches[c] /\ batches[b].state = "draft" => b = c

\* However often the agent repeats a reply, and whatever requeues lie between,
\* a message is answered by at most one row, and only once it is settled.
AnsweredOnce ==
  \A m \in MessageIds :
    /\ messages[m].replies <= 1
    /\ messages[m].replies = 1 => Final(messages[m].state)

Drawn(from, to) ==
  \/ Allowed(from, to) \/ Acknowledge(from, to)
  \/ from \in {"none", "draft"} /\ to \in {"draft", "sent", "removed"}
  \/ from \in {"with_agent", "working"} /\ to = "sent"
  \/ from = "sent" /\ to = "no_reply"

\* Every move of a message is one msgstate draws or one the package comment
\* lists: in particular a settled message stays settled, and no late report
\* takes a working message back to with_agent.
MovesAreDrawn ==
  [][\A m \in MessageIds :
       messages'[m].state # messages[m].state
         => Drawn(messages[m].state, messages'[m].state)]_vars

\* This step handed out delivery d.
HandedOut(d) == deliveries'[d].token # deliveries[d].token

\* A Claim with a snapshot as wrong as may be takes nothing from a session
\* heard of within PresenceTTL: not a delivery it touched, in the takeover of
\* a scope either, and not a scope it has just become owner of.
ClaimSparesTheFresh ==
  [][(\E d \in DeliveryIds : HandedOut(d)) =>
       /\ \A d \in DeliveryIds :
            InFlight(d) /\ ~Stale(deliveries[d].touchedAt)
              => deliveries'[d] = deliveries[d]
       /\ \A s \in Scopes :
            scopes[s].owner # NoOwner /\ ~Stale(scopes[s].ownedAt)
              => scopes'[s] = scopes[s]]_vars

\* A Claim that takes a scope over brings something from it: an owner never
\* loses its scope to a session that then has nothing to do in it.
BringsSomething ==
  \A s \in Scopes :
    LET to == scopes'[s].owner
    IN scopes[s].owner \notin {NoOwner, to} /\ to # NoOwner =>
         \A may \in SUBSET Scopes, present \in SUBSET Sessions :
           ClaimTakeover(to, may, present) =>
             \E d \in DeliveryIds :
               HandedOut(d) /\ deliveries'[d].session = to /\ deliveries'[d].scope = s

TakeoverBrings == [][BringsSomething]_vars

\* How far message m has come, and who has it.
StageOf(m) ==
  LET st == messages[m].state
  IN CASE st \in {"none", "draft"} -> "unsent"
       [] st = "removed" -> "gone"
       [] st = "sent" -> IF Queued(messages, deliveries, m) THEN "waiting" ELSE "given"
       [] st \in {"with_agent", "working"} -> "reached"
       [] st = "no_reply" -> "unanswered"
       [] OTHER -> "settled"

HolderOf(m) ==
  IF StageOf(m) \in {"unsent", "gone", "waiting"} THEN NoOwner
  ELSE deliveries[messages[m].delivery].session

Promised == INSTANCE Handout WITH
  Messages <- MessageIds, Nobody <- NoOwner,
  stage <- [m \in MessageIds |-> StageOf(m)],
  holder <- [m \in MessageIds |-> HolderOf(m)]

\* Whatever claims with stale snapshots, reports in any order, repeated replies
\* and recoveries do to batches and deliveries, each message lives by Handout:
\* one session has it, only that session's word moves it on or settles it, and
\* nothing settled is given out again.
ImplementsHandout == Promised!Spec

\* The tokens a delivery is handed out under, one for each of its claims, and
\* how far each has come (its row tells only of the last).
Tokens == DeliveryIds \X (1..MaxClaims)

ViewOf(c) ==
  LET row == deliveries[c[1]]
  IN IF row.token < c[2] THEN "none"
     ELSE IF row.token > c[2] THEN "taken"
     ELSE IF row.state = "inflight"
          THEN IF row.shown THEN "landed" ELSE IF row.held THEN "held" ELSE "given"
     ELSE IF row.state = "done" THEN "ended" ELSE "taken"

ClaimerOf(c) ==
  IF ViewOf(c) \in {"given", "held", "landed"} THEN deliveries[c[1]].session ELSE NoOwner

Fenced == INSTANCE Tenure WITH
  Claims <- Tokens, Nobody <- NoOwner,
  view <- [c \in Tokens |-> ViewOf(c)],
  holder <- [c \in Tokens |-> ClaimerOf(c)]

\* The reports do what Tenure's of the same name do, neither more nor less.
ToldAsNamed ==
  \A s \in Sessions :
    /\ TurnEnded(s) => Fenced!TurnEnded(s)
    /\ \A c \in Tokens : /\ Held(s, c[1], c[2]) => Fenced!Held(s, c)
                         /\ Landed(s, c[1], c[2]) => Fenced!Landed(s, c)

\* A token is good for one claim of one session and for as long as it lasts:
\* through deliveries taken back, moved, released and interrupted, no late
\* report, no repeated one and none of another's moves a claim, and each report
\* does exactly what the harness side (Reports) takes it to do.
ImplementsTenure == Fenced!Spec /\ [][ToldAsNamed]_vars

\* store.go on Message.Line: "the agent's one line on what it is doing, while
\* the message is working; "" otherwise".
LineOnlyWhileWorking == \A m \in MessageIds : messages[m].line => messages[m].state = "working"
===============================================================================
