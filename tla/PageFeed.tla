------------------------------- MODULE PageFeed -------------------------------
(***************************************************************************)
(* A page and its serve's event log: pageserve/events.go (the in-memory    *)
(* log, GET /api/events and GET /api/poll) and localweb's live.js (the     *)
(* stream, the polls while it is down, the check-ins of a hidden tab).     *)
(*                                                                         *)
(* A cursor is <<boot, n>>, as on the wire.  The log's events carry no     *)
(* data, and live.js's epoch is kept as what it is compared for: whether a *)
(* poll in flight was sent in the current one.  Poll and Stream let go of  *)
(* the log between resume and after, and so they are two steps each; only  *)
(* the latest() behind a reset is read with the resume that failed, which  *)
(* is all one: a cursor the log cannot go on from stays so.  Heartbeats,   *)
(* show and stale events and the tab list are left out.                    *)
(***************************************************************************)
EXTENDS Integers, Sequences

CONSTANTS
  Keep,        \* keepEvents: events the log retains
  MaxEvents,   \* bound: events one serve emits
  MaxBoots,    \* bound: serves that ever run, one after the other
  MaxPolls,    \* bound: polls in flight
  MaxTroubles  \* bound: times the network breaks a connection or the tab is
               \* hidden or shown, together

ASSUME BoundsAssumption ==
  /\ Keep \in Nat \ {0} /\ MaxEvents \in Nat /\ MaxBoots \in Nat \ {0}
  /\ MaxPolls \in Nat \ {0} /\ MaxTroubles \in Nat

Boots  == 1..MaxBoots
Counts == 0..MaxEvents
Cursor == Boots \X Counts
Events == Boots \X (1..MaxEvents)
Slots  == 1..MaxPolls

VARIABLES
  boot, up,    \* the serve: its boot id, and whether it runs
  made,        \* events each boot emitted (Events.next)
  tokenGood,   \* the serve takes the page's token
  link,        \* the stream's connection, as serve sees it
  es,          \* the page's stream: es, esOpen
  cursor, timer, hidden, status, stopped,   \* live.js's other variables
  polls,       \* its polls in flight
  times,       \* times onEvent ran for each event (counted up to 2)
  told,        \* the cursor of the last reset onEvent got
  jumped,      \* history: events passed by taking the reset of a poll
  crossed,     \* history: a poll was taken that was asked for from elsewhere
  troubles

serve == <<boot, up, made, tokenGood>>
page == <<es, cursor, timer, hidden, status, stopped>>
heard == <<times, told, jumped, crossed>>
vars == <<boot, up, made, tokenGood, link, es, cursor, timer, hidden, status,
          stopped, polls, times, told, jumped, crossed, troubles>>

Larger(a, b) == IF a > b THEN a ELSE b

\* c is no later than d: in an earlier boot, or no further in the same one.
NoLater(c, d) == c[1] < d[1] \/ (c[1] = d[1] /\ c[2] <= d[2])

\* The events after c, as far as d, of d's boot.
Between(n, d) == {<<d[1], k>> : k \in (n + 1)..d[2]}

--------------------------------------------------------------------------------
(* The page's state.  A frame is a cursor and whether it is a reset.        *)

Frame == [at : Cursor, reset : BOOLEAN]

\* at: asked (the request is on its way), serving, closed (after it was
\* answered, so frames may still arrive), ended (without an answer).
Link == [at : {"asked", "serving", "closed", "ended"}, since : Cursor, boot : Boots,
         sent : Counts, upto : Counts, frames : Seq(Frame)]

\* answer: admitted (the log can go on from its cursor, but is not read yet).
Poll == [answer : {"none", "waiting", "admitted", "events", "reset", "refused", "lost"},
         fresh : BOOLEAN, since : Cursor, after : Counts, cursor : Cursor]

NoPoll == [answer |-> "none", fresh |-> FALSE, since |-> <<1, 0>>, after |-> 0,
           cursor |-> <<1, 0>>]

\* A request for the stream from cursor c (withQuery's since).
Asking(c) == [at |-> "asked", since |-> c, boot |-> 1, sent |-> 0, upto |-> 0,
              frames |-> <<>>]
Unlinked == [Asking(<<1, 0>>) EXCEPT !.at = "ended"]

Init ==
  /\ boot = 1 /\ up = TRUE /\ made = [b \in Boots |-> 0] /\ tokenGood = TRUE
  /\ hidden \in BOOLEAN
  /\ cursor = <<1, 0>>
  /\ IF hidden THEN es = "none" /\ link = Unlinked
               ELSE es = "connecting" /\ link = Asking(cursor)
  /\ timer = hidden
  /\ status = "" /\ stopped = FALSE
  /\ polls = [s \in Slots |-> NoPoll]
  /\ times = [e \in Events |-> 0] /\ told = <<1, 0>>
  /\ jumped = {} /\ crossed = FALSE
  /\ troubles = 0

--------------------------------------------------------------------------------
(* The serve.                                                               *)

LatestNext == <<boot, made[boot] + 1>>   \* mutant: the cursor of the event to come
Latest == <<boot, made[boot]>>

ResumeAnyBoot(c) == made[boot] - Keep <= c[2]   \* mutant: takes any boot's cursor

\* The log can go on from c: of this boot, and nothing since is trimmed.
Resume(c) == c[1] = boot /\ c[2] <= made[boot] /\ made[boot] - Keep <= c[2]

Emit ==
  /\ up /\ made[boot] < MaxEvents
  /\ made' = [made EXCEPT ![boot] = @ + 1]
  /\ UNCHANGED <<boot, up, tokenGood, link, page, polls, heard, troubles>>

\* Stream's header and, for a cursor it cannot go on from, the reset.
AcceptStream ==
  /\ up /\ link.at = "asked" /\ tokenGood
  /\ IF Resume(link.since)
     THEN link' = [link EXCEPT !.at = "serving", !.boot = boot,
                     !.sent = link.since[2], !.upto = link.since[2]]
     ELSE link' = [link EXCEPT !.at = "serving", !.boot = boot,
                     !.sent = made[boot], !.upto = made[boot],
                     !.frames = <<[at |-> Latest, reset |-> TRUE]>>]
  /\ UNCHANGED <<serve, page, polls, heard, troubles>>

\* The request for a stream fails: no serve, or not its token.
RefuseStream ==
  /\ link.at = "asked" /\ ~(up /\ tokenGood)
  /\ link' = [link EXCEPT !.at = "ended"]
  /\ UNCHANGED <<serve, page, polls, heard, troubles>>

\* Stream's loop: it takes what is after its cursor, as far as still retained.
ReadLog ==
  /\ up /\ link.at = "serving" /\ link.sent = link.upto /\ link.upto < made[boot]
  /\ link' = [link EXCEPT !.sent = Larger(@, made[boot] - Keep), !.upto = made[boot]]
  /\ UNCHANGED <<serve, page, polls, heard, troubles>>

\* Stream writes one frame of what it took.
WriteFrame ==
  /\ up /\ link.at = "serving" /\ link.sent < link.upto
  /\ link' = [link EXCEPT !.sent = @ + 1,
                !.frames = Append(@, [at |-> <<boot, link.sent + 1>>, reset |-> FALSE])]
  /\ UNCHANGED <<serve, page, polls, heard, troubles>>

\* Poll: the token is looked at, then the cursor (resume).
ResumePoll(s) ==
  /\ up /\ polls[s].answer = "waiting"
  /\ \/ /\ ~tokenGood
        /\ polls' = [polls EXCEPT ![s].answer = "refused"]
     \/ /\ tokenGood /\ ~Resume(polls[s].since)
        /\ polls' = [polls EXCEPT ![s].answer = "reset", ![s].cursor = Latest,
                       ![s].after = made[boot]]
     \/ /\ tokenGood /\ Resume(polls[s].since)
        /\ polls' = [polls EXCEPT ![s].answer = "admitted"]
  /\ UNCHANGED <<serve, link, page, heard, troubles>>

\* Poll's answer: what is after the cursor, as far as it is still retained.
AnswerPoll(s) ==
  /\ up /\ polls[s].answer = "admitted"
  /\ polls' = [polls EXCEPT ![s].answer = "events", ![s].cursor = Latest,
                 ![s].after = Larger(polls[s].since[2], made[boot] - Keep)]
  /\ UNCHANGED <<serve, link, page, heard, troubles>>

\* What ends with the serve or the network: requests without an answer.
Cut == [s \in Slots |-> IF polls[s].answer \in {"waiting", "admitted"}
                        THEN [polls[s] EXCEPT !.answer = "lost"] ELSE polls[s]]

\* And the stream.
CutLink == [link EXCEPT !.at = CASE @ = "asked" -> "ended" [] @ = "serving" -> "closed"
                                 [] OTHER -> @]

\* The serve stops or dies; its streams end.
Stop ==
  /\ up /\ up' = FALSE
  /\ link' = CutLink
  /\ polls' = Cut
  /\ UNCHANGED <<boot, made, tokenGood, page, heard, troubles>>

\* Another serve starts, with an empty log; mostly it finds the token kept.
Start ==
  /\ ~up /\ boot < MaxBoots
  /\ up' = TRUE /\ boot' = boot + 1
  /\ \E kept \in BOOLEAN : tokenGood' = (tokenGood /\ kept)
  /\ UNCHANGED <<made, link, page, polls, heard, troubles>>

\* The network drops the stream, or the requests waiting for an answer; a
\* reader too slow for WriteTimeout loses its stream too.
Lose ==
  /\ troubles < MaxTroubles /\ troubles' = troubles + 1
  /\ \/ /\ CutLink # link /\ link' = CutLink
        /\ UNCHANGED polls
     \/ /\ Cut # polls /\ polls' = Cut
        /\ UNCHANGED link
  /\ UNCHANGED <<serve, page, heard>>

--------------------------------------------------------------------------------
(* The page (live.js).                                                      *)

\* deliver, for a set of events.
Deliver(E) ==
  times' = [e \in Events |-> IF e \in E /\ times[e] < 2 THEN times[e] + 1 ELSE times[e]]

\* epoch++: polls in flight are no longer fresh.
NewEpoch == [s \in Slots |-> [polls[s] EXCEPT !.fresh = FALSE]]

SetStatus(s) == status' = IF stopped THEN status ELSE s

ScheduleShown == timer' = (~stopped /\ ~hidden)   \* mutant: not for a hidden tab
Schedule == timer' = ~stopped
CancelPoll == timer' = FALSE

OnOpen ==
  /\ es = "connecting" /\ link.at \in {"serving", "closed"}
  /\ es' = "open"
  /\ polls' = NewEpoch
  /\ CancelPoll
  /\ SetStatus("live")
  /\ UNCHANGED <<serve, link, cursor, hidden, stopped, heard, troubles>>

\* onmessage: an event, or the reset a page answers by loading again.
OnMessage ==
  /\ es = "open" /\ link.frames # <<>>
  /\ LET frame == Head(link.frames)
     IN /\ cursor' = frame.at
        /\ IF frame.reset THEN told' = frame.at /\ UNCHANGED times
                          ELSE Deliver({frame.at}) /\ UNCHANGED told
  /\ UNCHANGED <<jumped, crossed>>
  /\ link' = [link EXCEPT !.frames = Tail(@)]
  /\ UNCHANGED <<serve, es, timer, hidden, status, stopped, polls, troubles>>

\* onerror: what was still on its way is lost with the stream.
OnError ==
  /\ es # "none" /\ link.at \in {"closed", "ended"} /\ ~hidden
  /\ es' = "none" /\ link' = Unlinked
  /\ IF status = "down" THEN UNCHANGED status ELSE SetStatus("polling")
  /\ Schedule
  /\ UNCHANGED <<serve, cursor, hidden, stopped, polls, heard, troubles>>

\* The timer runs poll: the request goes out in the first free slot.
SendPoll(s) ==
  /\ timer /\ timer' = FALSE
  /\ polls[s] = NoPoll /\ \A r \in 1..(s - 1) : polls[r] # NoPoll
  /\ polls' = [polls EXCEPT ![s] = [NoPoll EXCEPT !.answer = "waiting", !.fresh = TRUE,
                                                 !.since = cursor]]
  /\ UNCHANGED <<serve, link, es, cursor, hidden, status, stopped, heard, troubles>>

Emitted == {e \in Events : e[2] <= made[e[1]]}

\* Events as far as c that onEvent never got.
Unheard(c) == {e \in Emitted : times[e] = 0 /\ NoLater(e, c)}

\* The tests a poll makes of itself once it is answered.
Ignored(s) == stopped \/ ~polls[s].fresh \/ es = "open"

\* An answer nobody wants any more.
DropPoll(s) ==
  /\ polls[s].answer \in {"events", "reset"} /\ Ignored(s)
  /\ polls' = [polls EXCEPT ![s] = NoPoll]
  /\ UNCHANGED <<serve, link, page, heard, troubles>>

KeepsConnecting == es = "none"    \* mutant: a stream still connecting stays
Reconnects == es # "open"         \* poll replaces a stream still connecting

\* poll with its answer: the events, then the cursor; a shown page then opens
\* a stream from there.  `reset' in the answer is not looked at.
TakePoll(s) ==
  /\ polls[s].answer \in {"events", "reset"} /\ ~Ignored(s)
  /\ Deliver(Between(polls[s].after, polls[s].cursor))
  /\ jumped' = IF polls[s].answer = "reset" THEN jumped \cup Unheard(polls[s].cursor)
                                            ELSE jumped
  /\ crossed' = (crossed \/ polls[s].since # cursor)
  /\ cursor' = polls[s].cursor
  /\ polls' = [polls EXCEPT ![s] = NoPoll]
  /\ Schedule
  /\ IF hidden
     THEN UNCHANGED <<es, link, status>>
     ELSE /\ SetStatus("polling")
          /\ IF Reconnects THEN es' = "connecting" /\ link' = Asking(polls[s].cursor)
                           ELSE UNCHANGED <<es, link>>
  /\ UNCHANGED <<serve, hidden, stopped, told, troubles>>

StaleFailure(s) == ~stopped         \* mutant: whatever its epoch
CountedFailure(s) == ~stopped /\ polls[s].fresh

\* poll without an answer.
FailPoll(s) ==
  /\ polls[s].answer = "lost" \/ (polls[s].answer = "waiting" /\ ~up)
  /\ polls' = [polls EXCEPT ![s] = NoPoll]
  /\ IF CountedFailure(s)
     THEN /\ Schedule
          /\ IF hidden THEN UNCHANGED status ELSE SetStatus("down")
     ELSE UNCHANGED <<timer, status>>
  /\ UNCHANGED <<serve, link, es, cursor, hidden, stopped, heard, troubles>>

\* A 401: the page stops for good (halt), whatever the poll's epoch.
RefusedPoll(s) ==
  /\ polls[s].answer = "refused"
  /\ polls' = [polls EXCEPT ![s] = NoPoll]
  /\ IF stopped THEN UNCHANGED <<page, link>>
     ELSE /\ SetStatus("stale")
          /\ stopped' = TRUE
          /\ CancelPoll /\ es' = "none" /\ link' = Unlinked
          /\ UNCHANGED <<cursor, hidden>>
  /\ UNCHANGED <<serve, heard, troubles>>

\* onVisibility: either way a poll in flight is dropped.
Hide ==
  /\ ~hidden /\ ~stopped /\ troubles < MaxTroubles
  /\ hidden' = TRUE /\ troubles' = troubles + 1
  /\ polls' = NewEpoch
  /\ es' = "none" /\ link' = Unlinked
  /\ Schedule
  /\ UNCHANGED <<serve, cursor, status, stopped, heard>>

Show ==
  /\ hidden /\ ~stopped /\ troubles < MaxTroubles
  /\ hidden' = FALSE /\ troubles' = troubles + 1
  /\ polls' = NewEpoch
  /\ CancelPoll
  /\ IF es = "none" THEN es' = "connecting" /\ link' = Asking(cursor)
                    ELSE UNCHANGED <<es, link>>
  /\ UNCHANGED <<serve, cursor, status, stopped, heard>>

Polling == \E s \in Slots :
  \/ SendPoll(s) \/ ResumePoll(s) \/ AnswerPoll(s)
  \/ DropPoll(s) \/ TakePoll(s) \/ FailPoll(s) \/ RefusedPoll(s)
Streaming == \/ AcceptStream \/ RefuseStream \/ ReadLog \/ WriteFrame
             \/ OnOpen \/ OnMessage \/ OnError
Around == Emit \/ Stop \/ Start \/ Lose \/ Hide \/ Show

Next == Streaming \/ Polling \/ Around

Spec == Init /\ [][Next]_vars

\* A serve that runs goes on serving, a browser runs its callbacks and timers,
\* and a request in flight gets its answer or fails.  No serve has to start
\* again, and nothing outside has to happen.
Fairness ==
  /\ WF_vars(AcceptStream) /\ WF_vars(RefuseStream) /\ WF_vars(ReadLog)
  /\ WF_vars(WriteFrame) /\ WF_vars(OnOpen) /\ WF_vars(OnMessage) /\ WF_vars(OnError)
  /\ \A s \in Slots :
       /\ WF_vars(SendPoll(s)) /\ WF_vars(ResumePoll(s)) /\ WF_vars(AnswerPoll(s))
       /\ WF_vars(DropPoll(s)) /\ WF_vars(TakePoll(s)) /\ WF_vars(FailPoll(s))
       /\ WF_vars(RefusedPoll(s))

FairSpec == Spec /\ Fairness

--------------------------------------------------------------------------------
(* Properties.                                                              *)

\* The state of the feed has its types.
TypeOK ==
  /\ boot \in Boots /\ up \in BOOLEAN /\ made \in [Boots -> Counts]
  /\ tokenGood \in BOOLEAN
  /\ link \in Link
  /\ es \in {"none", "connecting", "open"}
  /\ cursor \in Cursor /\ timer \in BOOLEAN /\ hidden \in BOOLEAN
  /\ status \in {"", "live", "polling", "down", "stale"} /\ stopped \in BOOLEAN
  /\ polls \in [Slots -> Poll]
  /\ times \in [Events -> 0..2] /\ told \in Cursor
  /\ jumped \subseteq Events /\ crossed \in BOOLEAN
  /\ troubles \in 0..MaxTroubles

\* While its stream is open a page says "live": no poll that was in flight when
\* the stream opened, answered late or failing late, paints it as polling or
\* down (the epoch in live.js).
OpenIsLive == es = "open" => status = "live"

\* Until it stops for good a page has something that will wake it: a stream
\* (shown), the timer, or a poll that will schedule the next.  No interleaving
\* of errors, polls and the tab being hidden and shown leaves it deaf.
NeverDeaf ==
  ~stopped => \/ es # "none" /\ ~hidden
              \/ timer
              \/ \E s \in Slots : polls[s].fresh

\* Events behind the page's cursor that onEvent never got, and no reset after
\* them told it to load again: it will never learn of these.
Gap == {e \in Unheard(cursor) : ~NoLater(e, told)}

\* events.go on Events: "a page that outlives a serve restart is told to reload
\* instead of missing what happened in between".
NoSilentGap == Gap = {}

\* An event the log no longer retains.
Trimmed(e) == e[2] <= made[e[1]] - Keep

\* Whatever is lost, restarted or hidden, and with any number of polls and
\* streams replacing each other, an event behind the page's cursor was given to
\* it unless a reset passed it or the log has trimmed it since: no reconnect
\* and no change between stream and polls skips an event that is still there.
GapsAreKnown == \A e \in Gap : e \in jumped \/ Trimmed(e)

\* events.go on resume: ok is false, and the client told to reload, for a cursor
\* "older than the oldest retained event"; so only a reset passes an event.
OnlyResetsSkip == Gap \subseteq jumped

\* Every event onEvent gets is later than all it got before: nothing comes
\* twice and nothing out of order, through polls dropped, streams replaced
\* while they connect, and cursors that go back and forth.
OnwardOnly ==
  [][\A e, f \in Events : times'[e] > times[e] /\ times[f] > 0
                            => NoLater(f, e) /\ f # e]_vars

\* The page always catches up: with a serve that stays up, it has every event
\* behind its cursor and its cursor at the end of the log again and again,
\* or it has stopped because its token is gone.
CatchesUp == []<>(stopped \/ ~up \/ cursor = Latest)

\* What the page is promised, whatever the transport does: one event after the
\* other, each once and only what was emitted; and it jumps, told or not, only
\* where it could not go on, or over events trimmed while it was answered.  This
\* until it takes the second of two polls that were in flight together.
Promised == INSTANCE Feed
ImplementsFeed == Promised!Spec
===============================================================================
