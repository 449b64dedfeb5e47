---------------------------- MODULE PageFeedProofs ----------------------------
(***************************************************************************)
(* What a page keeps whatever the serve, the network and the browser do,   *)
(* for every number of events, serves, polls and turns: its types, an open *)
(* stream shown as live, and something left to wake a page not stopped.    *)
(* And what it is given: it misses no event but those a reset passed or    *)
(* the log has trimmed; and, until it takes an answer it asked for from    *)
(* another place, it is given what Feed promises, which is implemented.    *)
(***************************************************************************)
EXTENDS PageFeed, TLAPS

--------------------------------------------------------------------------------
(* Types.                                                                   *)

LEMMA InitType == Init => TypeOK
<1> SUFFICES ASSUME Init PROVE TypeOK
  OBVIOUS
<1>1. 1 \in Boots /\ 0 \in Counts
  BY BoundsAssumption DEF Boots, Counts
<1>2. <<1, 0>> \in Cursor
  BY <1>1 DEF Cursor
<1>3. NoPoll \in Poll
  BY <1>1, <1>2 DEF NoPoll, Poll
<1>a. <<>> \in Seq(Frame)
  OBVIOUS
<1>b. Asking(<<1, 0>>) \in Link
  BY <1>1, <1>2, <1>a DEF Asking, Link
<1>4. Unlinked \in Link /\ Asking(<<1, 0>>) \in Link
  BY <1>b DEF Unlinked, Link
<1>5. es \in {"none", "connecting", "open"} /\ link \in Link
  BY <1>4 DEF Init
<1>c. /\ troubles = 0 /\ times = [e \in Events |-> 0]
      /\ jumped \subseteq Events /\ crossed \in BOOLEAN
  BY DEF Init
<1>6. troubles \in 0..MaxTroubles
  BY <1>c, BoundsAssumption
<1>7. /\ boot \in Boots /\ made \in [Boots -> Counts] /\ cursor \in Cursor /\ told \in Cursor
      /\ polls \in [Slots -> Poll]
  BY <1>1, <1>2, <1>3 DEF Init
<1>8. times \in [Events -> 0..2]
  BY <1>c
<1>9. /\ up \in BOOLEAN /\ tokenGood \in BOOLEAN /\ timer \in BOOLEAN /\ hidden \in BOOLEAN
      /\ status \in {"", "live", "polling", "down", "stale"} /\ stopped \in BOOLEAN
  BY DEF Init
<1> QED
  BY <1>5, <1>6, <1>7, <1>8, <1>9, <1>c DEF TypeOK

\* What is left of the polls in flight has their type.
LEMMA PollsType ==
  ASSUME polls \in [Slots -> Poll]
  PROVE  /\ NewEpoch \in [Slots -> Poll]
         /\ Cut \in [Slots -> Poll]
         /\ \A s \in Slots : [polls EXCEPT ![s] = NoPoll] \in [Slots -> Poll]
<1>1. \A s \in Slots : [polls[s] EXCEPT !.fresh = FALSE] \in Poll
  BY DEF Poll
<1>2. \A s \in Slots : [polls[s] EXCEPT !.answer = "lost"] \in Poll
  BY DEF Poll
<1>3. NoPoll \in Poll
  <2>1. 1 \in Boots /\ 0 \in Counts
    BY BoundsAssumption DEF Boots, Counts
  <2> QED
    BY <2>1 DEF NoPoll, Poll, Cursor
<1> QED
  BY <1>1, <1>2, <1>3 DEF NewEpoch, Cut

LEMMA LinkType ==
  ASSUME link \in Link, NEW c \in Cursor
  PROVE  Unlinked \in Link /\ Asking(c) \in Link /\ CutLink \in Link
<1>1. 1 \in Boots /\ 0 \in Counts
  BY BoundsAssumption DEF Boots, Counts
<1>2. <<1, 0>> \in Cursor
  BY <1>1 DEF Cursor
<1>3. Asking(c) \in Link /\ Asking(<<1, 0>>) \in Link
  BY <1>1, <1>2 DEF Asking, Link
<1>4. Unlinked \in Link
  BY <1>3 DEF Unlinked, Link
<1>5. CutLink \in Link
  BY DEF CutLink, Link
<1> QED
  BY <1>3, <1>4, <1>5

LEMMA DeliverType ==
  ASSUME times \in [Events -> 0..2], NEW E, Deliver(E)
  PROVE  times' \in [Events -> 0..2]
  BY DEF Deliver

LEMMA LatestType ==
  ASSUME TypeOK
  PROVE  Latest \in Cursor /\ made[boot] \in Counts
  BY DEF TypeOK, Latest, Cursor

LEMMA HeadTailType ==
  ASSUME NEW S, NEW q \in Seq(S), q # <<>>
  PROVE  Head(q) \in S /\ Tail(q) \in Seq(S)
  OBVIOUS

LEMMA StreamingType ==
  ASSUME TypeOK, Streaming
  PROVE  TypeOK'
<1>0. /\ Latest \in Cursor /\ made[boot] \in Counts
      /\ MaxEvents \in Nat /\ Keep \in Nat
  BY LatestType, BoundsAssumption
<1>a. /\ link \in Link /\ boot \in Boots /\ polls \in [Slots -> Poll]
      /\ times \in [Events -> 0..2] /\ cursor \in Cursor
  BY DEF TypeOK
<1>b. /\ link.sent \in Counts /\ link.upto \in Counts /\ link.frames \in Seq(Frame)
      /\ link.since \in Cursor
  BY <1>a DEF Link
<1>1. CASE AcceptStream
  <2>1. link.since[2] \in Counts
    BY <1>b DEF Cursor
  <2>a. [at |-> Latest, reset |-> TRUE] \in Frame
    BY <1>0 DEF Frame
  <2>2. <<[at |-> Latest, reset |-> TRUE]>> \in Seq(Frame)
    BY <2>a
  <2>3. link' \in Link
    BY <1>0, <1>a, <1>1, <2>1, <2>2 DEF AcceptStream, Link
  <2> QED
    BY <1>1, <2>3 DEF AcceptStream, serve, page, heard, TypeOK
<1>2. CASE RefuseStream
  <2>1. link' \in Link
    BY <1>a, <1>2 DEF RefuseStream, Link
  <2> QED
    BY <1>2, <2>1 DEF RefuseStream, serve, page, heard, TypeOK
<1>3. CASE ReadLog
  <2>2. Larger(link.sent, made[boot] - Keep) \in Counts
    BY <1>0, <1>b DEF Larger, Counts
  <2>3. link' \in Link
    BY <1>0, <1>a, <1>3, <2>2 DEF ReadLog, Link
  <2> QED
    BY <1>3, <2>3 DEF ReadLog, serve, page, heard, TypeOK
<1>4. CASE WriteFrame
  <2>1. link.sent < link.upto
    BY <1>4 DEF WriteFrame
  <2>2. link.sent + 1 \in Counts
    BY <1>0, <1>b, <2>1 DEF Counts
  <2>3. [at |-> <<boot, link.sent + 1>>, reset |-> FALSE] \in Frame
    BY <1>a, <2>2 DEF Frame, Cursor
  <2>4. Append(link.frames, [at |-> <<boot, link.sent + 1>>, reset |-> FALSE]) \in Seq(Frame)
    BY <1>b, <2>3
  <2>5. link' \in Link
    BY <1>a, <1>4, <2>2, <2>4 DEF WriteFrame, Link
  <2> QED
    BY <1>4, <2>5 DEF WriteFrame, serve, page, heard, TypeOK
<1>5. CASE OnOpen
  <2>1. polls' \in [Slots -> Poll]
    BY <1>a, <1>5, PollsType DEF OnOpen
  <2> QED
    BY <1>5, <2>1 DEF OnOpen, CancelPoll, SetStatus, serve, heard, TypeOK
<1>6. CASE OnMessage
  <2>1. link.frames # <<>>
    BY <1>6 DEF OnMessage
  <2>2. Head(link.frames) \in Frame /\ Tail(link.frames) \in Seq(Frame)
    BY <1>b, <2>1, HeadTailType
  <2>3. cursor' \in Cursor /\ told' \in Cursor
    BY <1>6, <2>2 DEF OnMessage, Frame, TypeOK
  <2>4. times' \in [Events -> 0..2]
    BY <1>a, <1>6, DeliverType DEF OnMessage
  <2>5. link' \in Link
    BY <1>a, <1>6, <2>2 DEF OnMessage, Link
  <2> QED
    BY <1>6, <2>3, <2>4, <2>5 DEF OnMessage, serve, TypeOK
<1>7. CASE OnError
  <2>1. link' \in Link
    BY <1>a, <1>7, LinkType DEF OnError
  <2> QED
    BY <1>7, <2>1 DEF OnError, Schedule, SetStatus, serve, heard, TypeOK
<1> QED
  BY <1>1, <1>2, <1>3, <1>4, <1>5, <1>6, <1>7 DEF Streaming

LEMMA PollingType ==
  ASSUME TypeOK, Polling
  PROVE  TypeOK'
<1>0. PICK s \in Slots : \/ SendPoll(s) \/ ResumePoll(s) \/ AnswerPoll(s)
                         \/ DropPoll(s) \/ TakePoll(s) \/ FailPoll(s) \/ RefusedPoll(s)
  BY DEF Polling
<1>c. polls \in [Slots -> Poll] /\ cursor \in Cursor /\ link \in Link /\ times \in [Events -> 0..2]
  BY DEF TypeOK
<1>a. polls[s] \in Poll /\ polls[s].since \in Cursor /\ polls[s].cursor \in Cursor
  BY <1>c DEF Poll
<1>b. [polls EXCEPT ![s] = NoPoll] \in [Slots -> Poll]
  BY <1>c, PollsType
<1>1. CASE SendPoll(s)
  <2>1. [NoPoll EXCEPT !.answer = "waiting", !.fresh = TRUE, !.since = cursor] \in Poll
    <3>1. 1 \in Boots /\ 0 \in Counts
      BY BoundsAssumption DEF Boots, Counts
    <3> QED
      BY <1>c, <3>1 DEF NoPoll, Poll, Cursor
  <2>2. polls' \in [Slots -> Poll]
    BY <1>c, <1>1, <2>1 DEF SendPoll
  <2> QED
    BY <1>1, <2>2 DEF SendPoll, serve, heard, TypeOK
<1>2. CASE ResumePoll(s)
  <2>1. Latest \in Cursor /\ made[boot] \in Counts
    BY LatestType
  <2>2. polls' \in [Slots -> Poll]
    <3>1. CASE polls' = [polls EXCEPT ![s].answer = "refused"]
      BY <1>a, <1>c, <3>1 DEF Poll
    <3>2. CASE polls' = [polls EXCEPT ![s].answer = "reset", ![s].cursor = Latest,
                           ![s].after = made[boot]]
      BY <1>a, <1>c, <2>1, <3>2 DEF Poll
    <3>3. CASE polls' = [polls EXCEPT ![s].answer = "admitted"]
      BY <1>a, <1>c, <3>3 DEF Poll
    <3> QED
      BY <1>2, <3>1, <3>2, <3>3 DEF ResumePoll
  <2> QED
    BY <1>2, <2>2 DEF ResumePoll, serve, page, heard, TypeOK
<1>7. CASE AnswerPoll(s)
  <2>1. Latest \in Cursor /\ made[boot] \in Counts /\ polls[s].since[2] \in Counts
    BY <1>a, LatestType DEF Cursor
  <2>2. Larger(polls[s].since[2], made[boot] - Keep) \in Counts
    BY <2>1, BoundsAssumption DEF Larger, Counts
  <2>3. polls' \in [Slots -> Poll]
    BY <1>a, <1>c, <1>7, <2>1, <2>2 DEF AnswerPoll, Poll
  <2> QED
    BY <1>7, <2>3 DEF AnswerPoll, serve, page, heard, TypeOK
<1>3. CASE DropPoll(s)
  BY <1>3, <1>b DEF DropPoll, serve, page, heard, TypeOK
<1>4. CASE TakePoll(s)
  <2>1. times' \in [Events -> 0..2]
    BY <1>c, <1>4, DeliverType DEF TakePoll
  <2>2. link' \in Link
    BY <1>c, <1>4, <1>a, LinkType DEF TakePoll
  <2>3. jumped' \subseteq Events /\ crossed' \in BOOLEAN
    BY <1>4 DEF TakePoll, Unheard, Emitted, TypeOK
  <2> QED
    BY <1>4, <1>a, <1>b, <2>1, <2>2, <2>3 DEF TakePoll, Schedule, SetStatus, serve, TypeOK
<1>5. CASE FailPoll(s)
  BY <1>5, <1>b DEF FailPoll, Schedule, SetStatus, serve, heard, TypeOK
<1>6. CASE RefusedPoll(s)
  <2>1. link' \in Link
    BY <1>c, <1>6, LinkType DEF RefusedPoll
  <2> QED
    BY <1>6, <1>b, <2>1 DEF RefusedPoll, CancelPoll, SetStatus, serve, page, heard, TypeOK
<1> QED
  BY <1>0, <1>1, <1>2, <1>3, <1>4, <1>5, <1>6, <1>7

LEMMA AroundType ==
  ASSUME TypeOK, Around
  PROVE  TypeOK'
<1>a. /\ boot \in Boots /\ made \in [Boots -> Counts] /\ polls \in [Slots -> Poll]
      /\ link \in Link /\ cursor \in Cursor
  BY DEF TypeOK
<1>b. troubles \in 0..MaxTroubles
  BY DEF TypeOK
<1>1. CASE Emit
  <2>1. made[boot] < MaxEvents /\ made[boot] \in Counts
    BY <1>a, <1>1 DEF Emit
  <2>2. made[boot] + 1 \in Counts
    BY <2>1, BoundsAssumption DEF Counts
  <2>3. made' \in [Boots -> Counts]
    BY <1>a, <1>1, <2>2 DEF Emit
  <2> QED
    BY <1>1, <2>3 DEF Emit, page, heard, TypeOK
<1>2. CASE Stop
  <2>1. polls' \in [Slots -> Poll] /\ link' \in Link
    BY <1>a, <1>2, PollsType, LinkType DEF Stop
  <2> QED
    BY <1>2, <2>1 DEF Stop, page, heard, TypeOK
<1>3. CASE Start
  <2>1. boot < MaxBoots /\ boot' = boot + 1
    BY <1>3 DEF Start
  <2>2. boot' \in Boots
    BY <1>a, <2>1, BoundsAssumption DEF Boots
  <2> QED
    BY <1>3, <2>2 DEF Start, page, heard, TypeOK
<1>4. CASE Lose
  <2>1. troubles < MaxTroubles /\ troubles' = troubles + 1
    BY <1>4 DEF Lose
  <2>2. troubles' \in 0..MaxTroubles
    BY <1>b, <2>1, BoundsAssumption
  <2>3. polls' \in [Slots -> Poll] /\ link' \in Link
    BY <1>a, <1>4, PollsType, LinkType DEF Lose
  <2> QED
    BY <1>4, <2>2, <2>3 DEF Lose, serve, page, heard, TypeOK
<1>5. CASE Hide \/ Show
  <2>1. troubles < MaxTroubles /\ troubles' = troubles + 1
    BY <1>5 DEF Hide, Show
  <2>2. troubles' \in 0..MaxTroubles
    BY <1>b, <2>1, BoundsAssumption
  <2>3. polls' \in [Slots -> Poll] /\ link' \in Link
    BY <1>a, <1>5, PollsType, LinkType DEF Hide, Show
  <2> QED
    BY <1>5, <2>2, <2>3 DEF Hide, Show, Schedule, CancelPoll, serve, heard, TypeOK
<1> QED
  BY <1>1, <1>2, <1>3, <1>4, <1>5 DEF Around

LEMMA NextType == TypeOK /\ [Next]_vars => TypeOK'
<1> SUFFICES ASSUME TypeOK, [Next]_vars PROVE TypeOK'
  OBVIOUS
<1>1. CASE Next
  BY <1>1, StreamingType, PollingType, AroundType DEF Next
<1>2. CASE UNCHANGED vars
  BY <1>2 DEF vars, TypeOK
<1> QED
  BY <1>1, <1>2

\* The feed's state has its types, for any number of events, serves, polls,
\* losses and turns of the tab.
THEOREM TypeCorrect == Spec => []TypeOK
<1> QED
  BY InitType, NextType, PTL DEF Spec

--------------------------------------------------------------------------------
(* The page.  An open stream has no timer beside it and no poll the page     *)
(* would listen to; a page that stopped has neither stream nor timer; a      *)
(* hidden page has no stream.  None of the three holds on its own.           *)

OpenIsSettled  == es = "open" => ~timer /\ \A s \in Slots : ~polls[s].fresh
StoppedIsQuiet == stopped => es = "none" /\ ~timer
HiddenIsShut   == hidden => es = "none"

PageInv == OpenIsLive /\ NeverDeaf /\ OpenIsSettled /\ StoppedIsQuiet /\ HiddenIsShut

LEMMA InitPage == Init => PageInv
<1> SUFFICES ASSUME Init PROVE PageInv
  OBVIOUS
<1>1. stopped = FALSE /\ timer = hidden
  BY DEF Init
<1>2. (hidden => es = "none") /\ (~hidden => es = "connecting")
  BY DEF Init
<1> QED
  BY <1>1, <1>2, Zenon
     DEF PageInv, OpenIsLive, NeverDeaf, OpenIsSettled, StoppedIsQuiet, HiddenIsShut

\* No poll is fresh in a new epoch, and cutting a poll off leaves it fresh or not.
LEMMA Freshness ==
  ASSUME polls \in [Slots -> Poll]
  PROVE  \A s \in Slots : ~NewEpoch[s].fresh /\ Cut[s].fresh = polls[s].fresh
  BY DEF NewEpoch, Cut, Poll

LEMMA StreamingPage ==
  ASSUME TypeOK, PageInv, Streaming
  PROVE  PageInv'
<1> USE DEF PageInv, OpenIsLive, NeverDeaf, OpenIsSettled, StoppedIsQuiet, HiddenIsShut
<1>0. polls \in [Slots -> Poll]
  BY DEF TypeOK
<1>1. CASE AcceptStream \/ RefuseStream \/ ReadLog \/ WriteFrame
  BY <1>1 DEF AcceptStream, RefuseStream, ReadLog, WriteFrame, page
<1>2. CASE OnOpen
  <2>1. ~stopped /\ ~hidden
    BY <1>2 DEF OnOpen
  <2>2. \A s \in Slots : ~polls'[s].fresh
    BY <1>0, <1>2, Freshness DEF OnOpen
  <2> QED
    BY <1>2, <2>1, <2>2 DEF OnOpen, CancelPoll, SetStatus
<1>3. CASE OnMessage
  BY <1>3 DEF OnMessage
<1>4. CASE OnError
  BY <1>4 DEF OnError, Schedule
<1> QED
  BY <1>1, <1>2, <1>3, <1>4 DEF Streaming

LEMMA PollingPage ==
  ASSUME TypeOK, PageInv, Polling
  PROVE  PageInv'
<1> USE DEF PageInv, OpenIsLive, NeverDeaf, OpenIsSettled, StoppedIsQuiet, HiddenIsShut
<1>0. PICK s \in Slots : \/ SendPoll(s) \/ ResumePoll(s) \/ AnswerPoll(s)
                         \/ DropPoll(s) \/ TakePoll(s) \/ FailPoll(s) \/ RefusedPoll(s)
  BY DEF Polling
<1>a. polls \in [Slots -> Poll]
  BY DEF TypeOK
<1>b. \A r \in Slots : r # s => [polls EXCEPT ![s] = NoPoll][r] = polls[r]
  BY <1>a
<1>c. ~[polls EXCEPT ![s] = NoPoll][s].fresh
  BY <1>a DEF NoPoll
<1>1. CASE SendPoll(s)
  <2>1. polls'[s].fresh
    BY <1>1, <1>a DEF SendPoll, NoPoll
  <2>2. es # "open"
    BY <1>1 DEF SendPoll
  <2> QED
    BY <1>1, <2>1, <2>2 DEF SendPoll
<1>2. CASE ResumePoll(s) \/ AnswerPoll(s)
  <2>1. \A r \in Slots : polls'[r].fresh = polls[r].fresh
    BY <1>2, <1>a DEF ResumePoll, AnswerPoll, Poll
  <2> QED
    BY <1>2, <2>1 DEF ResumePoll, AnswerPoll, page
<1>3. CASE DropPoll(s)
  <2>1. es = "open" \/ ~polls[s].fresh \/ stopped
    BY <1>3 DEF DropPoll, Ignored
  <2>2. \A r \in Slots : polls'[r].fresh => r # s /\ polls[r].fresh
    BY <1>3, <1>b, <1>c DEF DropPoll
  <2>3. \A r \in Slots : r # s /\ polls[r].fresh => polls'[r].fresh
    BY <1>3, <1>b DEF DropPoll
  <2> QED
    BY <1>3, <2>1, <2>2, <2>3 DEF DropPoll, page
<1>4. CASE TakePoll(s)
  <2>1. ~stopped /\ es # "open"
    BY <1>4 DEF TakePoll, Ignored
  <2> QED
    BY <1>4, <2>1 DEF TakePoll, Schedule
<1>5. CASE FailPoll(s)
  <2>1. \A r \in Slots : polls'[r].fresh => r # s /\ polls[r].fresh
    BY <1>5, <1>b, <1>c DEF FailPoll
  <2>2. \A r \in Slots : r # s /\ polls[r].fresh => polls'[r].fresh
    BY <1>5, <1>b DEF FailPoll
  <2>3. CASE CountedFailure(s)
    <3>1. es # "open" /\ ~stopped
      BY <2>3 DEF CountedFailure
    <3> QED
      BY <1>5, <2>3, <3>1 DEF FailPoll, Schedule
  <2>4. CASE ~CountedFailure(s)
    <3>1. stopped \/ ~polls[s].fresh
      BY <2>4 DEF CountedFailure
    <3> QED
      BY <1>5, <2>1, <2>2, <2>4, <3>1 DEF FailPoll
  <2> QED
    BY <2>3, <2>4
<1>6. CASE RefusedPoll(s)
  <2>1. CASE stopped
    BY <1>6, <2>1 DEF RefusedPoll, page
  <2>2. CASE ~stopped
    BY <1>6, <2>2 DEF RefusedPoll, CancelPoll
  <2> QED
    BY <2>1, <2>2
<1> QED
  BY <1>0, <1>1, <1>2, <1>3, <1>4, <1>5, <1>6

LEMMA AroundPage ==
  ASSUME TypeOK, PageInv, Around
  PROVE  PageInv'
<1> USE DEF PageInv, OpenIsLive, NeverDeaf, OpenIsSettled, StoppedIsQuiet, HiddenIsShut
<1>0. polls \in [Slots -> Poll]
  BY DEF TypeOK
<1>1. CASE Emit \/ Start
  BY <1>1 DEF Emit, Start, page
<1>2. CASE Stop \/ Lose
  <2>1. \A s \in Slots : polls'[s].fresh = polls[s].fresh
    BY <1>0, <1>2, Freshness DEF Stop, Lose
  <2> QED
    BY <1>2, <2>1 DEF Stop, Lose, page
<1>3. CASE Hide
  BY <1>3 DEF Hide, Schedule
<1>4. CASE Show
  BY <1>4 DEF Show, CancelPoll
<1> QED
  BY <1>1, <1>2, <1>3, <1>4 DEF Around

LEMMA NextPage == TypeOK /\ PageInv /\ [Next]_vars => PageInv'
<1> SUFFICES ASSUME TypeOK, PageInv, [Next]_vars PROVE PageInv'
  OBVIOUS
<1>1. CASE Next
  BY <1>1, StreamingPage, PollingPage, AroundPage DEF Next
<1>2. CASE UNCHANGED vars
  BY <1>2 DEF vars, PageInv, OpenIsLive, NeverDeaf, OpenIsSettled, StoppedIsQuiet,
             HiddenIsShut
<1> QED
  BY <1>1, <1>2

\* While its stream is open a page says "live", however many polls are in
\* flight and whenever they are answered, fail or are refused.
THEOREM OpenLive == Spec => []OpenIsLive
<1>1. PageInv => OpenIsLive
  BY DEF PageInv
<1> QED
  BY <1>1, InitPage, NextPage, TypeCorrect, PTL DEF Spec

\* A page that has not stopped always has a stream, its timer or a poll it
\* will listen to, so no interleaving leaves it deaf.
THEOREM NotDeaf == Spec => []NeverDeaf
<1>1. PageInv => NeverDeaf
  BY DEF PageInv
<1> QED
  BY <1>1, InitPage, NextPage, TypeCorrect, PTL DEF Spec

--------------------------------------------------------------------------------
(* What the page hears.  The frames of its stream lead on from its cursor,   *)
(* one event after another or over what the log has trimmed, or by a reset   *)
(* at the log's end; the stream's loop goes on where the last of them ends.  *)
(* A poll the page would listen to is answered from where it was asked for.  *)
(* No cursor is past the log; and while no answer was taken that was asked   *)
(* for from elsewhere, nothing the page heard is past its cursor, and no     *)
(* poll was asked for from further on.                                       *)

\* The cursor before the page's next frame, and after each it has yet to read.
Mark(i) == IF i = 0 THEN cursor ELSE link.frames[i].at

\* An event follows what came before it: at once, unless what is between them
\* is trimmed from the logs.
Follows(c, d, logs) ==
  d[1] = c[1] /\ c[2] < d[2] /\ (d[2] = c[2] + 1 \/ d[2] - 1 <= logs[c[1]] - Keep)
LeadsOn(i) ==
  IF link.frames[i].reset THEN NoLater(Mark(i - 1), Mark(i))
                          ELSE Follows(Mark(i - 1), Mark(i), made)

FramesOK ==
  /\ \A i \in 1..Len(link.frames) : LeadsOn(i) /\ NoLater(Mark(i), Latest)
  /\ link.at = "asked" => link.since = cursor
  /\ link.at = "asked" => link.frames = <<>>
LoopOK ==
  link.at = "serving" =>
    LET last == Mark(Len(link.frames))
    IN /\ last[1] = boot /\ last[2] <= link.sent
       /\ last[2] = link.sent \/ link.sent <= made[boot] - Keep
ServingOK ==
  link.at = "serving" => /\ up /\ link.boot = boot
                         /\ link.sent <= link.upto /\ link.upto <= made[boot]

Answered(s) == polls[s].answer \in {"events", "reset"}
AnswerOK(s) ==
  /\ NoLater(polls[s].since, Latest)
  /\ polls[s].answer = "admitted" => up /\ polls[s].since[1] = boot
  /\ Answered(s) =>
       NoLater(polls[s].since, polls[s].cursor) /\ NoLater(polls[s].cursor, Latest)
  /\ polls[s].answer = "events" =>
       /\ polls[s].cursor[1] = polls[s].since[1]
       /\ polls[s].since[2] <= polls[s].after /\ polls[s].after <= polls[s].cursor[2]
       /\ \/ polls[s].after = polls[s].since[2]
          \/ polls[s].after <= made[polls[s].since[1]] - Keep
  /\ polls[s].answer = "reset" => polls[s].after = polls[s].cursor[2]

HeardOK == \A e \in Events : times[e] > 0 => NoLater(e, cursor)
AskedOK == \A s \in Slots : polls[s].fresh => NoLater(polls[s].since, cursor)

FeedInv ==
  /\ es # "none" => FramesOK /\ LoopOK
  /\ ServingOK /\ NoLater(cursor, Latest)
  /\ \A s \in Slots : polls[s].fresh => AnswerOK(s)
  /\ ~crossed => HeardOK /\ AskedOK

LEMMA CursorsAre ==
  /\ \A c \in Cursor : c[1] \in Nat /\ c[2] \in Nat /\ c = <<c[1], c[2]>>
  /\ \A e \in Events : e \in Cursor /\ e[2] >= 1
<1>1. Boots \subseteq Nat /\ Counts \subseteq Nat /\ 1..MaxEvents \subseteq Counts
  BY BoundsAssumption DEF Boots, Counts
<1>2. ASSUME NEW c \in Cursor PROVE c[1] \in Nat /\ c[2] \in Nat /\ c = <<c[1], c[2]>>
  <2>1. PICK b \in Boots, n \in Counts : c = <<b, n>>
    BY DEF Cursor
  <2>2. b \in Nat /\ n \in Nat
    BY <1>1
  <2>3. c[1] = b /\ c[2] = n
    BY <2>1
  <2> QED
    BY <2>1, <2>2, <2>3
<1>3. ASSUME NEW e \in Events PROVE e \in Cursor /\ e[2] >= 1
  <2>1. e \in Cursor /\ e[2] \in 1..MaxEvents
    BY <1>1 DEF Cursor, Events
  <2> QED
    BY <2>1
<1> QED
  BY <1>2, <1>3

\* The kinds of the log's and the link's numbers.
LEMMA NumbersAre ==
  ASSUME TypeOK
  PROVE  /\ made[boot] \in Nat /\ boot \in Nat /\ boot \in Boots /\ Keep \in Nat \ {0}
         /\ link \in Link /\ link.frames \in Seq(Frame) /\ link.since \in Cursor
         /\ link.sent \in Nat /\ link.upto \in Nat
<1>1. Boots \subseteq Nat /\ Counts \subseteq Nat /\ Keep \in Nat \ {0}
  BY BoundsAssumption DEF Boots, Counts
<1>2. link \in Link /\ boot \in Boots /\ made[boot] \in Counts
  BY LatestType DEF TypeOK
<1>3. /\ link.frames \in Seq(Frame) /\ link.since \in Cursor
      /\ link.sent \in Counts /\ link.upto \in Counts
  BY <1>2 DEF Link
<1> QED
  BY <1>1, <1>2, <1>3

LEMMA NoLaterIsOrder ==
  /\ \A c \in Cursor : NoLater(c, c)
  /\ \A c, d, e \in Cursor : NoLater(c, d) /\ NoLater(d, e) => NoLater(c, e)
<1>1. ASSUME NEW c \in Cursor, NEW d \in Cursor, NEW e \in Cursor,
             NoLater(c, d), NoLater(d, e)
      PROVE  NoLater(c, e)
  BY <1>1, CursorsAre DEF NoLater
<1>2. ASSUME NEW c \in Cursor PROVE NoLater(c, c)
  BY CursorsAre DEF NoLater
<1> QED
  BY <1>1, <1>2

\* The frames on their way to the page are frames.
LEMMA MarksAre ==
  ASSUME TypeOK
  PROVE  /\ Len(link.frames) \in Nat
         /\ \A i \in 1..Len(link.frames) : link.frames[i] \in Frame /\ Mark(i) \in Cursor
         /\ Mark(0) = cursor /\ cursor \in Cursor /\ Mark(Len(link.frames)) \in Cursor
<1>1. link.frames \in Seq(Frame) /\ cursor \in Cursor
  BY DEF TypeOK, Link
<1>2. Len(link.frames) \in Nat
        /\ \A i \in 1..Len(link.frames) : link.frames[i] \in Frame
  BY <1>1
<1>3. ASSUME NEW i \in 1..Len(link.frames) PROVE Mark(i) \in Cursor
  BY <1>2 DEF Mark, Frame
<1>4. Mark(0) = cursor
  BY DEF Mark
<1>5. Mark(Len(link.frames)) \in Cursor
  BY <1>1, <1>2, <1>3, <1>4
<1> QED
  BY <1>1, <1>2, <1>3, <1>4, <1>5

\* The log only grows, or another serve begins one.
LogGrows ==
  /\ \A c \in Cursor : NoLater(c, Latest) => NoLater(c, Latest')
  /\ \A b \in Boots : made[b] \in Nat /\ made'[b] \in Nat /\ made[b] <= made'[b]

LEMMA LogStays ==
  ASSUME TypeOK, boot' = boot, made' = made \/ made' = [made EXCEPT ![boot] = @ + 1]
  PROVE  LogGrows
<1>1. made[boot] \in Nat /\ \A b \in Boots : made[b] \in Nat
  <2>1. Counts \subseteq Nat
    BY BoundsAssumption DEF Counts
  <2> QED
    BY <2>1 DEF TypeOK
<1>2. made'[boot] = made[boot] \/ made'[boot] = made[boot] + 1
  BY DEF TypeOK
<1>3. \A b \in Boots : made'[b] = made[b] \/ made'[b] = made[b] + 1
  BY DEF TypeOK
<1>4. \A c \in Cursor : NoLater(c, Latest) => NoLater(c, Latest')
  BY <1>1, <1>2, CursorsAre DEF NoLater, Latest
<1>5. \A b \in Boots : made'[b] \in Nat /\ made[b] <= made'[b]
  BY <1>1, <1>3
<1> QED
  BY <1>1, <1>4, <1>5 DEF LogGrows

\* What is trimmed stays so.
LEMMA FollowsStays ==
  ASSUME LogGrows, NEW c \in Cursor, NEW d \in Cursor, Follows(c, d, made)
  PROVE  Follows(c, d, made')
<1>1. c[1] \in Boots /\ c[2] \in Nat /\ d[2] \in Nat
  BY CursorsAre DEF Cursor
<1>2. made[c[1]] \in Nat /\ made'[c[1]] \in Nat /\ made[c[1]] <= made'[c[1]]
  BY <1>1 DEF LogGrows
<1> QED
  BY <1>1, <1>2, BoundsAssumption DEF Follows

\* Neither the frames nor what they lead on from change.
LEMMA FramesStay ==
  ASSUME TypeOK, FramesOK, LogGrows, cursor' = cursor, link'.frames = link.frames,
         link'.at = "asked" => link.at = "asked" /\ link'.since = link.since
  PROVE  FramesOK'
<1>1. ASSUME NEW i \in 1..Len(link.frames)
      PROVE  LeadsOn(i)' /\ NoLater(Mark(i), Latest)'
  <2>1. /\ LeadsOn(i) /\ NoLater(Mark(i), Latest)
        /\ Mark(i) \in Cursor /\ Mark(i - 1) \in Cursor
    <3>1. i - 1 = 0 \/ i - 1 \in 1..Len(link.frames)
      BY MarksAre
    <3> QED
      BY <3>1, MarksAre DEF FramesOK
  <2>2. Mark(i)' = Mark(i) /\ Mark(i - 1)' = Mark(i - 1)
    BY DEF Mark
  <2>3. NoLater(Mark(i)', Latest')
    BY <2>1, <2>2 DEF LogGrows
  <2>4. LeadsOn(i)'
    <3>1. CASE link.frames[i].reset
      BY <2>1, <2>2, <3>1 DEF LeadsOn, NoLater
    <3>2. CASE ~link.frames[i].reset
      <4>1. Follows(Mark(i - 1), Mark(i), made')
        BY <2>1, <3>2, FollowsStays DEF LeadsOn
      <4>2. Follows(Mark(i - 1)', Mark(i)', made')
        BY <2>2, <4>1
      <4> QED
        BY <3>2, <4>2 DEF LeadsOn, Follows
    <3> QED
      BY <3>1, <3>2
  <2> QED
    BY <2>3, <2>4 DEF NoLater
<1> QED
  BY <1>1 DEF FramesOK

\* Nor does the loop's place change.
LEMMA LoopStays ==
  ASSUME TypeOK, LoopOK, LogGrows, cursor' = cursor, link'.frames = link.frames,
         link'.at = "serving" => link'.sent = link.sent /\ link.at = "serving" /\ boot' = boot
  PROVE  LoopOK'
<1> SUFFICES ASSUME link'.at = "serving" PROVE LoopOK'
  BY DEF LoopOK
<1> DEFINE last == Mark(Len(link.frames))
<1>1. last' = last
  BY DEF Mark
<1>2. /\ last[1] = boot /\ last[2] <= link.sent
      /\ last[2] = link.sent \/ link.sent <= made[boot] - Keep
  BY DEF LoopOK
<1>3. /\ made[boot] \in Nat /\ made'[boot] \in Nat /\ made[boot] <= made'[boot]
      /\ link.sent \in Nat /\ Keep \in Nat
  BY NumbersAre DEF LogGrows
<1> HIDE DEF last
<1>4. last[2] = link.sent \/ link.sent <= made'[boot'] - Keep
  BY <1>2, <1>3
<1>5. /\ last'[1] = boot' /\ last'[2] <= link'.sent
      /\ last'[2] = link'.sent \/ link'.sent <= made'[boot'] - Keep
  BY <1>1, <1>2, <1>4
<1> QED
  BY <1>5 DEF LoopOK, last

\* An answer is as good as it was.
LEMMA AnswerStays ==
  ASSUME TypeOK, LogGrows, NEW s \in Slots, AnswerOK(s), polls'[s] = polls[s],
         polls'[s].answer = "admitted" => up' = up /\ boot' = boot
  PROVE  AnswerOK(s)'
<1>1. polls[s].since \in Cursor /\ polls[s].cursor \in Cursor /\ polls[s].after \in Counts
  BY DEF TypeOK, Poll
<1>2. polls[s].since[1] \in Boots /\ polls[s].after \in Nat /\ Keep \in Nat
  BY <1>1, BoundsAssumption DEF Cursor, Counts
<1>3. /\ made[polls[s].since[1]] \in Nat /\ made'[polls[s].since[1]] \in Nat
      /\ made[polls[s].since[1]] <= made'[polls[s].since[1]]
  BY <1>2 DEF LogGrows
<1>4. polls[s].after <= made[polls[s].since[1]] - Keep
        => polls[s].after <= made'[polls[s].since[1]] - Keep
  BY <1>2, <1>3
<1>5. /\ NoLater(polls[s].since, Latest')
      /\ Answered(s) => NoLater(polls[s].cursor, Latest')
  BY <1>1 DEF AnswerOK, LogGrows
<1> QED
  BY <1>4, <1>5 DEF AnswerOK, Answered, NoLater

\* No new poll is fresh, and those that stay so are as they were or unanswered.
FewerPolls ==
  \A s \in Slots : polls'[s].fresh =>
    /\ polls[s].fresh
    /\ \/ /\ polls'[s] = polls[s]
          /\ polls'[s].answer = "admitted" => up' = up /\ boot' = boot
       \/ /\ polls'[s].since = polls[s].since
          /\ polls'[s].answer \notin {"admitted", "events", "reset"}

LEMMA PollsStay ==
  ASSUME TypeOK, FeedInv, LogGrows, cursor' = cursor, FewerPolls
  PROVE  /\ \A s \in Slots : polls'[s].fresh => AnswerOK(s)'
         /\ AskedOK => AskedOK'
<1>1. ASSUME NEW s \in Slots, polls'[s].fresh PROVE AnswerOK(s)'
  <2>1. polls[s].fresh /\ AnswerOK(s) /\ polls[s].since \in Cursor
    BY <1>1 DEF FeedInv, FewerPolls, TypeOK, Poll
  <2>2. CASE polls'[s] = polls[s] /\ (polls'[s].answer = "admitted" => up' = up /\ boot' = boot)
    BY <2>1, <2>2, AnswerStays
  <2>3. CASE /\ polls'[s].since = polls[s].since
             /\ polls'[s].answer \notin {"admitted", "events", "reset"}
    <3>1. NoLater(polls[s].since, Latest')
      BY <2>1 DEF AnswerOK, LogGrows
    <3> QED
      BY <2>3, <3>1 DEF AnswerOK, Answered, NoLater
  <2> QED
    BY <1>1, <2>2, <2>3 DEF FewerPolls
<1>2. ASSUME AskedOK, NEW s \in Slots, polls'[s].fresh PROVE NoLater(polls'[s].since, cursor')
  <2>1. polls[s].fresh /\ polls'[s].since = polls[s].since
    BY <1>2 DEF FewerPolls
  <2> QED
    BY <1>2, <2>1 DEF AskedOK
<1>3. AskedOK => AskedOK'
  BY <1>2 DEF AskedOK, NoLater
<1> QED
  BY <1>1, <1>3

LEMMA InitFeed == Init => FeedInv
<1> SUFFICES ASSUME Init PROVE FeedInv
  OBVIOUS
<1>1. TypeOK
  BY InitType
<1>a. made[boot] \in Nat
  BY <1>1, LatestType, BoundsAssumption DEF Counts
<1>b. cursor = <<1, 0>> /\ boot = 1
  BY DEF Init
<1>2. cursor[1] = 1 /\ cursor[2] = 0 /\ boot = 1 /\ made[boot] \in Nat
  BY <1>a, <1>b
<1>3. NoLater(cursor, Latest)
  BY <1>2 DEF NoLater, Latest
<1>4. link.at # "serving" /\ (es # "none" => link.frames = <<>> /\ link.since = cursor)
  <2>1. CASE hidden
    BY <2>1 DEF Init, Unlinked, Asking
  <2>2. CASE ~hidden
    <3>1. link = Asking(cursor)
      BY <2>2 DEF Init
    <3>2. link.at = "asked" /\ link.since = cursor /\ link.frames = <<>>
      BY <3>1 DEF Asking
    <3> QED
      BY <3>2
  <2> QED
    BY <2>1, <2>2
<1>5. \A s \in Slots : ~polls[s].fresh
  BY DEF Init, NoPoll
<1>6. \A e \in Events : times[e] = 0
  BY DEF Init
<1> QED
  BY <1>3, <1>4, <1>5, <1>6
     DEF FeedInv, FramesOK, LoopOK, ServingOK, HeardOK, AskedOK

\* A step that leaves the page's cursor and what it heard alone.
LEMMA FeedStays ==
  ASSUME TypeOK, FeedInv, LogGrows, FewerPolls, ServingOK',
         UNCHANGED <<cursor, times, crossed>>, es' # "none" => FramesOK' /\ LoopOK'
  PROVE  FeedInv'
<1>1. (\A s \in Slots : polls'[s].fresh => AnswerOK(s)') /\ (AskedOK => AskedOK')
  BY PollsStay
<1>2. HeardOK => HeardOK'
  BY DEF HeardOK, NoLater
<1>3. NoLater(cursor, Latest)'
  <2>1. cursor \in Cursor /\ NoLater(cursor, Latest)
    BY DEF TypeOK, FeedInv
  <2>2. NoLater(cursor, Latest')
    BY <2>1 DEF LogGrows
  <2> QED
    BY <2>2 DEF NoLater
<1> QED
  BY <1>1, <1>2, <1>3 DEF FeedInv

\* Polls left alone by a serve that goes on.
LEMMA SamePolls == ASSUME UNCHANGED <<polls, up, boot>> PROVE FewerPolls
BY DEF FewerPolls

\* Polls cut off from their serve are as fresh as they were, and unanswered.
LEMMA CutStays ==
  ASSUME TypeOK, NEW s \in Slots
  PROVE  /\ Cut[s].fresh = polls[s].fresh
         /\ \/ Cut[s] = polls[s] /\ polls[s].answer \notin {"waiting", "admitted"}
            \/ Cut[s].since = polls[s].since /\ Cut[s].answer = "lost"
  BY DEF Cut, TypeOK, Poll

LEMMA CutLinkStays ==
  ASSUME TypeOK
  PROVE  /\ CutLink.frames = link.frames /\ CutLink.since = link.since
         /\ CutLink.at \notin {"asked", "serving"}
<1>1. link \in Link
  BY DEF TypeOK
<1> QED
  BY <1>1 DEF CutLink, Link

LEMMA ServeFeeds ==
  ASSUME TypeOK, FeedInv, Emit \/ Stop \/ Start \/ Lose
  PROVE  FeedInv'
<1>0. /\ boot \in Nat /\ made[boot] \in Nat /\ link.upto \in Nat /\ link.sent \in Nat
      /\ made \in [Boots -> Counts] /\ boot \in Boots
  BY NumbersAre DEF TypeOK
<1>a. es # "none" => FramesOK /\ LoopOK
  BY DEF FeedInv
<1>1. CASE Emit
  <2>1. boot' = boot /\ made' = [made EXCEPT ![boot] = @ + 1] /\ link' = link /\ up' = up
        /\ UNCHANGED <<cursor, times, crossed, es, polls>>
    BY <1>1 DEF Emit, page, heard
  <2>2. LogGrows /\ FewerPolls
    BY <2>1, LogStays, SamePolls
  <2>3. made'[boot'] = made[boot] + 1
    BY <1>0, <2>1
  <2>5. ServingOK'
    <3> SUFFICES ASSUME link.at = "serving"
                 PROVE  /\ up /\ link.boot = boot /\ link.sent <= link.upto
                        /\ link.upto <= made[boot] + 1
      BY <2>1, <2>3 DEF ServingOK
    <3>1. up /\ link.boot = boot /\ link.sent <= link.upto /\ link.upto <= made[boot]
      BY DEF FeedInv, ServingOK
    <3> QED
      BY <1>0, <3>1
  <2>6. es' # "none" => FramesOK' /\ LoopOK'
    BY <1>a, <2>1, <2>2, FramesStay, LoopStays
  <2> QED
    BY <2>1, <2>2, <2>5, <2>6, FeedStays
<1>2. CASE Stop \/ Lose
  <2>1. /\ UNCHANGED <<boot, made, cursor, times, crossed, es>>
        /\ (link' = link /\ up' = up) \/ link' = CutLink
        /\ (polls' = polls /\ up' = up) \/ polls' = Cut
    BY <1>2 DEF Stop, Lose, serve, page, heard
  <2>2. LogGrows
    BY <2>1, LogStays
  <2>3. /\ link'.frames = link.frames /\ link'.since = link.since
        /\ link'.at \in {"asked", "serving"} => link' = link /\ up' = up
    BY <2>1, CutLinkStays
  <2>4. ServingOK'
    BY <2>1, <2>3 DEF FeedInv, ServingOK
  <2>5. es' # "none" => FramesOK' /\ LoopOK'
    BY <1>a, <2>1, <2>2, <2>3, FramesStay, LoopStays
  <2>6. FewerPolls
    BY <2>1, CutStays DEF FewerPolls
  <2> QED
    BY <2>1, <2>2, <2>4, <2>5, <2>6, FeedStays
<1>3. CASE Start
  <2>1. /\ ~up /\ boot' = boot + 1
        /\ UNCHANGED <<made, link, cursor, times, crossed, es, polls>>
    BY <1>3 DEF Start, page, heard
  <2>2. LogGrows
    <3>1. \A c \in Cursor : NoLater(c, Latest) => NoLater(c, Latest')
      BY <1>0, <2>1, CursorsAre DEF NoLater, Latest
    <3>2. Counts \subseteq Nat
      BY BoundsAssumption DEF Counts
    <3>3. \A b \in Boots : made[b] \in Nat
      BY <1>0, <3>2
    <3>4. \A b \in Boots : made'[b] \in Nat /\ made[b] <= made'[b]
      BY <2>1, <3>3
    <3> QED
      BY <3>1, <3>3, <3>4 DEF LogGrows
  <2>3. link.at # "serving"
    BY <2>1 DEF FeedInv, ServingOK
  <2>4. es' # "none" => FramesOK' /\ LoopOK'
    BY <1>a, <2>1, <2>2, <2>3, FramesStay DEF LoopOK
  <2>5. FewerPolls
    BY <2>1 DEF FewerPolls, FeedInv, AnswerOK
  <2> QED
    BY <2>1, <2>2, <2>3, <2>4, <2>5, FeedStays DEF ServingOK
<1> QED
  BY <1>1, <1>2, <1>3

LEMMA StreamFeeds ==
  ASSUME TypeOK, FeedInv, AcceptStream \/ RefuseStream \/ ReadLog \/ WriteFrame
  PROVE  FeedInv'
<1>0. /\ made[boot] \in Nat /\ Keep \in Nat \ {0}
      /\ link.upto \in Nat /\ link.sent \in Nat /\ link.since \in Cursor /\ link \in Link
      /\ link.frames \in Seq(Frame)
  BY NumbersAre
<1>a. es # "none" => FramesOK /\ LoopOK
  BY DEF FeedInv
<1>b. UNCHANGED <<boot, made, up, cursor, times, crossed, es, polls>>
  BY DEF AcceptStream, RefuseStream, ReadLog, WriteFrame, serve, page, heard
<1>c. LogGrows /\ FewerPolls
  BY <1>b, LogStays, SamePolls
<1>1. CASE RefuseStream
  <2>1. link'.at = "ended" /\ link'.frames = link.frames
    BY <1>0, <1>1 DEF RefuseStream, Link
  <2>2. es' # "none" => FramesOK' /\ LoopOK'
    BY <1>a, <1>b, <1>c, <2>1, FramesStay DEF LoopOK
  <2> QED
    BY <1>b, <1>c, <2>1, <2>2, FeedStays DEF ServingOK
<1>2. CASE AcceptStream /\ Resume(link.since)
  <2>1. /\ link.at = "asked" /\ up /\ link'.at = "serving" /\ link'.boot = boot
        /\ link'.sent = link.since[2] /\ link'.upto = link.since[2]
        /\ link'.frames = link.frames
    BY <1>0, <1>2 DEF AcceptStream, Link
  <2>2. link.since[1] = boot /\ link.since[2] <= made[boot] /\ made[boot] - Keep <= link.since[2]
    BY <1>2 DEF Resume
  <2>3. ServingOK'
    BY <1>0, <1>b, <2>1, <2>2, CursorsAre DEF ServingOK
  <2>4. es # "none" => link.frames = <<>> /\ cursor = link.since
    BY <1>a, <2>1 DEF FramesOK
  <2>5. es' # "none" => FramesOK'
    BY <1>a, <1>b, <1>c, <2>1, FramesStay
  <2>6. es' # "none" => LoopOK'
    <3> SUFFICES ASSUME es # "none" PROVE LoopOK'
      BY <1>b
    <3>1. Mark(Len(link.frames))' = cursor
      BY <1>b, <2>1, <2>4 DEF Mark
    <3>2. cursor[2] \in Nat
      BY CursorsAre DEF TypeOK
    <3>3. cursor[2] <= cursor[2]
      BY <3>2
    <3> QED
      BY <1>b, <2>1, <2>2, <2>4, <3>1, <3>3 DEF LoopOK
  <2> QED
    BY <1>b, <1>c, <2>3, <2>5, <2>6, FeedStays
<1>3. CASE AcceptStream /\ ~Resume(link.since)
  <2> DEFINE first == [at |-> Latest, reset |-> TRUE]
  <2>1. /\ up /\ link'.at = "serving" /\ link'.boot = boot
        /\ link'.sent = made[boot] /\ link'.upto = made[boot] /\ link'.frames = <<first>>
    BY <1>0, <1>3 DEF AcceptStream, Link
  <2>2. first.at = Latest /\ first.reset = TRUE
    OBVIOUS
  <2> HIDE DEF first
  <2>3. Len(link'.frames) = 1 /\ link'.frames[1] = first
    BY <2>1
  <2>4. Mark(0)' = cursor /\ Mark(1)' = Latest /\ Latest' = Latest
    BY <1>b, <2>2, <2>3 DEF Mark, Latest
  <2>5. LeadsOn(1)' /\ NoLater(Mark(1), Latest)'
    <3>1. NoLater(cursor, Latest) /\ NoLater(Latest, Latest)
      BY LatestType, NoLaterIsOrder DEF FeedInv
    <3>2. link'.frames[1].reset
      BY <2>2, <2>3
    <3>3. NoLater(Mark(0)', Mark(1)') /\ NoLater(Mark(1)', Latest')
      BY <2>4, <3>1
    <3> QED
      BY <3>2, <3>3 DEF LeadsOn, NoLater
  <2>6. FramesOK'
    <3>1. \A i \in 1..Len(link'.frames) : i = 1
      BY <2>3
    <3> QED
      BY <2>1, <2>5, <3>1 DEF FramesOK
  <2>7. LoopOK'
    <3>1. Latest[1] = boot /\ Latest[2] = made[boot]
      BY DEF Latest
    <3> QED
      BY <1>0, <1>b, <2>1, <2>3, <2>4, <3>1 DEF LoopOK
  <2>8. ServingOK'
    BY <1>0, <1>b, <2>1 DEF ServingOK
  <2> QED
    BY <1>b, <1>c, <2>6, <2>7, <2>8, FeedStays
<1>4. CASE ReadLog
  <2>1. /\ link.at = "serving" /\ link.sent = link.upto /\ link.upto < made[boot]
        /\ link'.at = "serving" /\ link'.boot = link.boot /\ link'.frames = link.frames
        /\ link'.sent = Larger(link.sent, made[boot] - Keep) /\ link'.upto = made[boot]
    BY <1>0, <1>4 DEF ReadLog, Link
  <2>2. up /\ link.boot = boot
    BY <2>1 DEF FeedInv, ServingOK
  <2>3. /\ link.sent <= link'.sent /\ link'.sent <= made[boot]
        /\ link'.sent = link.sent \/ link'.sent = made[boot] - Keep
        /\ link'.sent \in Nat
    BY <1>0, <2>1, <2>2 DEF Larger
  <2>4. ServingOK'
    BY <1>0, <1>b, <2>1, <2>2, <2>3 DEF ServingOK
  <2>5. es' # "none" => FramesOK'
    BY <1>a, <1>b, <1>c, <2>1, FramesStay
  <2>6. es' # "none" => LoopOK'
    <3> SUFFICES ASSUME es # "none" PROVE LoopOK'
      BY <1>b
    <3> DEFINE last == Mark(Len(link.frames))
    <3>1. last' = last
      BY <1>b, <2>1 DEF Mark
    <3>2. /\ last[1] = boot /\ last[2] <= link.sent
          /\ last[2] = link.sent \/ link.sent <= made[boot] - Keep
      BY <1>a, <2>1 DEF LoopOK
    <3>3. last \in Cursor
      BY MarksAre
    <3> HIDE DEF last
    <3>4. last[2] <= link'.sent
      <4>1. last[2] \in Nat
        BY <3>3, CursorsAre
      <4> QED
        BY <1>0, <2>3, <3>2, <4>1
    <3>5. last[2] = link'.sent \/ link'.sent <= made[boot] - Keep
      BY <1>0, <2>3, <3>2
    <3>6. /\ last'[1] = boot' /\ last'[2] <= link'.sent
          /\ last'[2] = link'.sent \/ link'.sent <= made'[boot'] - Keep
      BY <1>b, <3>1, <3>2, <3>4, <3>5
    <3> QED
      BY <3>6 DEF LoopOK, last
  <2> QED
    BY <1>b, <1>c, <2>4, <2>5, <2>6, FeedStays
<1>5. CASE WriteFrame
  <2> DEFINE next == [at |-> <<boot, link.sent + 1>>, reset |-> FALSE]
  <2>1. /\ link.at = "serving" /\ link.sent < link.upto
        /\ link'.at = "serving" /\ link'.boot = link.boot /\ link'.upto = link.upto
        /\ link'.sent = link.sent + 1 /\ link'.frames = Append(link.frames, next)
    BY <1>0, <1>5 DEF WriteFrame, Link
  <2>n. PICK n \in Nat : n = Len(link.frames)
    BY <1>0
  <2>2. up /\ link.boot = boot /\ link.upto <= made[boot]
    BY <2>1 DEF FeedInv, ServingOK
  <2>3. ServingOK'
    BY <1>0, <1>b, <2>1, <2>2 DEF ServingOK
  <2>4. next.at = <<boot, link.sent + 1>> /\ next.reset = FALSE
    OBVIOUS
  <2> HIDE DEF next
  <2>5. /\ n \in Nat /\ Len(link'.frames) = n + 1 /\ link'.frames[n + 1] = next
        /\ \A i \in 1..n : link'.frames[i] = link.frames[i]
    BY <1>0, <2>1, <2>n
  <2>6. /\ Mark(n + 1)' = <<boot, link.sent + 1>> /\ \A i \in 0..n : Mark(i)' = Mark(i)
    <3>1. n + 1 # 0 /\ \A i \in 0..n : i = 0 \/ i \in 1..n
      BY <2>5
    <3> QED
      BY <1>b, <2>4, <2>5, <3>1 DEF Mark
  <2>7. ASSUME es # "none" PROVE FramesOK' /\ LoopOK'
    <3>1. FramesOK /\ LoopOK
      BY <1>a, <2>7
    <3>2. ASSUME NEW i \in 1..n PROVE LeadsOn(i)' /\ NoLater(Mark(i), Latest)'
      <4>1. LeadsOn(i) /\ NoLater(Mark(i), Latest)
        BY <2>n, <3>1, <3>2 DEF FramesOK
      <4>2. Mark(i)' = Mark(i) /\ Mark(i - 1)' = Mark(i - 1) /\ Latest' = Latest
        BY <1>b, <2>5, <2>6, <3>2 DEF Latest
      <4>3. link'.frames[i] = link.frames[i]
        BY <2>5, <3>2
      <4> QED
        BY <1>b, <4>1, <4>2, <4>3 DEF LeadsOn, NoLater, Follows
    <3>3. LeadsOn(n + 1)' /\ NoLater(Mark(n + 1), Latest)'
      <4>1. /\ Mark(n)[1] = boot /\ Mark(n)[2] <= link.sent
            /\ Mark(n)[2] = link.sent \/ link.sent <= made[boot] - Keep
        BY <2>1, <2>n, <3>1 DEF LoopOK
      <4>2. Mark(n)' = Mark(n) /\ Mark(n)[2] \in Nat
        BY <2>n, <2>5, <2>6, MarksAre, CursorsAre
      <4>3. Follows(Mark(n), <<boot, link.sent + 1>>, made')
        BY <1>0, <1>b, <4>1, <4>2 DEF Follows
      <4>4. LeadsOn(n + 1)'
        <5>1. n + 1 - 1 = n
          BY <2>5
        <5>2. Follows(Mark(n)', Mark(n + 1)', made')
          BY <2>6, <4>2, <4>3
        <5>3. ~link'.frames[n + 1].reset
          BY <2>4, <2>5
        <5> QED
          BY <5>1, <5>2, <5>3 DEF LeadsOn, Follows
      <4>5. NoLater(<<boot, link.sent + 1>>, Latest')
        BY <1>0, <1>b, <2>1, <2>2 DEF NoLater, Latest
      <4>6. NoLater(Mark(n + 1)', Latest')
        BY <2>6, <4>5
      <4> QED
        BY <4>4, <4>6 DEF NoLater
    <3>4. \A i \in 1..(n + 1) : i = n + 1 \/ i \in 1..n
      BY <2>5
    <3>5. FramesOK'
      BY <2>1, <2>5, <3>2, <3>3, <3>4 DEF FramesOK
    <3>6. LoopOK'
      <4>1. /\ Mark(Len(link.frames))'[1] = boot /\ Mark(Len(link.frames))'[2] = link.sent + 1
        BY <2>5, <2>6
      <4> QED
        BY <1>0, <1>b, <2>1, <4>1 DEF LoopOK
    <3> QED
      BY <3>5, <3>6
  <2> QED
    BY <1>b, <1>c, <2>3, <2>7, FeedStays
<1> QED
  BY <1>1, <1>2, <1>3, <1>4, <1>5

\* A stream asked for from the cursor, or none.
LEMMA AskedFeeds ==
  ASSUME NEW c, link' = Asking(c), cursor' = c PROVE FramesOK' /\ LoopOK' /\ ServingOK'
<1>1. link'.at = "asked" /\ link'.since = c /\ link'.frames = <<>>
  BY DEF Asking
<1>2. 1..Len(link'.frames) = {}
  BY <1>1
<1> QED
  BY <1>1, <1>2 DEF FramesOK, LoopOK, ServingOK

LEMMA UnlinkedFeeds == ASSUME link' = Unlinked PROVE ServingOK'
<1>1. link'.at = "ended"
  BY DEF Unlinked, Asking
<1> QED
  BY <1>1 DEF ServingOK

\* The page's steps that take no event.
LEMMA PageFeeds ==
  ASSUME TypeOK, FeedInv, OnOpen \/ OnError \/ Hide \/ Show
  PROVE  FeedInv'
<1>a. es # "none" => FramesOK /\ LoopOK
  BY DEF FeedInv
<1>b. UNCHANGED <<boot, made, up, cursor, times, crossed>>
  BY DEF OnOpen, OnError, Hide, Show, serve, heard
<1>c. LogGrows
  BY <1>b, LogStays
<1>d. \A s \in Slots : ~NewEpoch[s].fresh
  BY Freshness DEF TypeOK
<1>e. polls' = NewEpoch \/ polls' = polls => FewerPolls
  BY <1>b, <1>d DEF FewerPolls
<1>1. CASE OnOpen
  <2>1. es # "none" /\ link' = link /\ polls' = NewEpoch
    BY <1>1 DEF OnOpen
  <2>2. ServingOK'
    BY <1>b, <2>1 DEF FeedInv, ServingOK
  <2>3. FramesOK' /\ LoopOK'
    BY <1>a, <1>b, <1>c, <2>1, FramesStay, LoopStays
  <2> QED
    BY <1>b, <1>c, <1>e, <2>1, <2>2, <2>3, FeedStays
<1>2. CASE OnError
  <2>1. es' = "none" /\ link' = Unlinked /\ polls' = polls
    BY <1>2 DEF OnError
  <2> QED
    BY <1>b, <1>c, <1>e, <2>1, UnlinkedFeeds, FeedStays
<1>3. CASE Hide
  <2>1. es' = "none" /\ link' = Unlinked /\ polls' = NewEpoch
    BY <1>3 DEF Hide
  <2> QED
    BY <1>b, <1>c, <1>e, <2>1, UnlinkedFeeds, FeedStays
<1>4. CASE Show
  <2>1. polls' = NewEpoch
    BY <1>4 DEF Show
  <2>2. CASE es = "none"
    <3>1. link' = Asking(cursor)
      BY <1>4, <2>2 DEF Show
    <3>2. FramesOK' /\ LoopOK' /\ ServingOK'
      BY <1>b, <3>1, AskedFeeds
    <3> QED
      BY <1>b, <1>c, <1>e, <2>1, <3>2, FeedStays
  <2>3. CASE es # "none"
    <3>1. link' = link
      BY <1>4, <2>3 DEF Show
    <3>2. ServingOK'
      BY <1>b, <3>1 DEF FeedInv, ServingOK
    <3>3. FramesOK' /\ LoopOK'
      BY <1>a, <1>b, <1>c, <2>3, <3>1, FramesStay, LoopStays
    <3> QED
      BY <1>b, <1>c, <1>e, <2>1, <3>2, <3>3, FeedStays
  <2> QED
    BY <2>2, <2>3
<1> QED
  BY <1>1, <1>2, <1>3, <1>4

\* A poll that is gone.
LEMMA PollGone ==
  ASSUME TypeOK, NEW s \in Slots, polls' = [polls EXCEPT ![s] = NoPoll]
  PROVE  \A r \in Slots : polls'[r].fresh => r # s /\ polls[r].fresh /\ polls'[r] = polls[r]
<1>1. polls \in [Slots -> Poll] /\ NoPoll.fresh = FALSE
  BY DEF TypeOK, NoPoll
<1>2. \A r \in Slots : polls'[r] = IF r = s THEN NoPoll ELSE polls[r]
  BY <1>1
<1> QED
  BY <1>1, <1>2

LEMMA PollsFeed ==
  ASSUME TypeOK, FeedInv, NEW s \in Slots, DropPoll(s) \/ FailPoll(s) \/ RefusedPoll(s)
  PROVE  FeedInv'
<1>a. es # "none" => FramesOK /\ LoopOK
  BY DEF FeedInv
<1>1. /\ UNCHANGED <<boot, made, up, cursor, times, crossed>>
      /\ polls' = [polls EXCEPT ![s] = NoPoll]
      /\ (link' = link /\ es' = es) \/ (link' = Unlinked /\ es' = "none")
  BY DEF DropPoll, FailPoll, RefusedPoll, serve, page, heard
<1>2. LogGrows
  BY <1>1, LogStays
<1>3. ServingOK'
  <2>1. CASE link' = link
    BY <1>1, <2>1 DEF FeedInv, ServingOK
  <2> QED
    BY <1>1, <2>1, UnlinkedFeeds
<1>4. es' # "none" => FramesOK' /\ LoopOK'
  BY <1>a, <1>1, <1>2, FramesStay, LoopStays
<1>5. FewerPolls
  BY <1>1, PollGone DEF FewerPolls
<1> QED
  BY <1>1, <1>2, <1>3, <1>4, <1>5, FeedStays

LEMMA SendFeeds ==
  ASSUME TypeOK, FeedInv, NEW s \in Slots, SendPoll(s)
  PROVE  FeedInv'
<1>a. es # "none" => FramesOK /\ LoopOK
  BY DEF FeedInv
<1>1. /\ UNCHANGED <<boot, made, up, cursor, times, crossed, link, es>>
      /\ polls' = [polls EXCEPT ![s] = [NoPoll EXCEPT !.answer = "waiting", !.fresh = TRUE,
                                                      !.since = cursor]]
  BY DEF SendPoll, serve, heard
<1>2. LogGrows
  BY <1>1, LogStays
<1>3. ServingOK'
  BY <1>1 DEF FeedInv, ServingOK
<1>4. es' # "none" => FramesOK' /\ LoopOK'
  BY <1>a, <1>1, <1>2, FramesStay, LoopStays
<1>5. /\ polls'[s].since = cursor /\ polls'[s].answer = "waiting"
      /\ \A r \in Slots : r # s => polls'[r] = polls[r]
  <2>1. polls \in [Slots -> Poll]
    BY DEF TypeOK
  <2>2. polls'[s] = [NoPoll EXCEPT !.answer = "waiting", !.fresh = TRUE, !.since = cursor]
    BY <1>1, <2>1
  <2> QED
    BY <1>1, <2>1, <2>2 DEF NoPoll
<1>6. cursor \in Cursor /\ NoLater(cursor, cursor) /\ NoLater(cursor, Latest)
  BY NoLaterIsOrder DEF TypeOK, FeedInv
<1>7. ASSUME NEW r \in Slots, polls'[r].fresh PROVE AnswerOK(r)'
  <2>1. CASE r = s
    BY <1>1, <1>5, <1>6, <2>1 DEF AnswerOK, Answered, NoLater, Latest
  <2>2. CASE r # s
    BY <1>1, <1>2, <1>5, <1>7, <2>2, AnswerStays DEF FeedInv
  <2> QED
    BY <2>1, <2>2
<1>8. AskedOK => AskedOK'
  <2> SUFFICES ASSUME AskedOK, NEW r \in Slots, polls'[r].fresh
               PROVE  NoLater(polls'[r].since, cursor')
    BY DEF AskedOK, NoLater
  <2> QED
    BY <1>1, <1>5, <1>6 DEF AskedOK
<1>9. (HeardOK => HeardOK') /\ NoLater(cursor, Latest)'
  BY <1>1 DEF FeedInv, HeardOK, NoLater, Latest
<1> QED
  BY <1>1, <1>3, <1>4, <1>7, <1>8, <1>9 DEF FeedInv

\* A request's answer is good, admitted, reset or with events.
LEMMA ServedPoll ==
  ASSUME TypeOK, FeedInv, NEW s \in Slots, ResumePoll(s) \/ AnswerPoll(s)
  PROVE  /\ polls'[s].fresh = polls[s].fresh /\ polls'[s].since = polls[s].since
         /\ \A r \in Slots : r # s => polls'[r] = polls[r]
         /\ polls[s].fresh => AnswerOK(s)'
<1>1. /\ polls \in [Slots -> Poll] /\ polls[s] \in Poll /\ polls[s].since \in Cursor
      /\ UNCHANGED <<boot, made, up>> /\ up
  BY DEF TypeOK, Poll, ResumePoll, AnswerPoll, serve
<1>2. /\ \A r \in Slots : r # s => polls'[r] = polls[r]
      /\ polls'[s].fresh = polls[s].fresh /\ polls'[s].since = polls[s].since
  BY <1>1 DEF ResumePoll, AnswerPoll, Poll
<1>3. /\ polls[s].since[1] \in Nat /\ polls[s].since[2] \in Nat /\ made[boot] \in Nat
      /\ Keep \in Nat \ {0} /\ Latest \in Cursor /\ NoLater(Latest, Latest)
      /\ Latest[1] = boot /\ Latest[2] = made[boot] /\ Latest' = Latest
  BY <1>1, NumbersAre, CursorsAre, LatestType, NoLaterIsOrder DEF Latest
<1>4. ASSUME polls[s].fresh PROVE AnswerOK(s)'
  <2>1. AnswerOK(s) /\ NoLater(polls[s].since, Latest)
    BY <1>4 DEF FeedInv, AnswerOK
  <2>2. CASE ResumePoll(s) /\ polls'[s].answer = "refused"
    BY <1>2, <1>3, <2>1, <2>2 DEF AnswerOK, Answered, NoLater
  <2>3. CASE ResumePoll(s) /\ polls'[s].answer = "admitted"
    <3>1. Resume(polls[s].since)
      BY <1>1, <2>3 DEF ResumePoll, Poll
    <3> QED
      BY <1>1, <1>2, <1>3, <2>1, <2>3, <3>1 DEF AnswerOK, Answered, NoLater, Resume
  <2>4. CASE ResumePoll(s) /\ polls'[s].answer = "reset"
    <3>1. polls'[s].cursor = Latest /\ polls'[s].after = made[boot]
      BY <1>1, <2>4 DEF ResumePoll, Poll
    <3> QED
      BY <1>2, <1>3, <2>1, <2>4, <3>1 DEF AnswerOK, Answered, NoLater
  <2>5. CASE AnswerPoll(s)
    <3>1. /\ polls'[s].answer = "events" /\ polls'[s].cursor = Latest
          /\ polls'[s].after = Larger(polls[s].since[2], made[boot] - Keep)
          /\ polls[s].since[1] = boot
      BY <1>1, <2>1, <2>5 DEF AnswerPoll, Poll, AnswerOK
    <3>2. polls[s].since[2] <= made[boot]
      BY <1>3, <2>1, <3>1 DEF NoLater
    <3>3. /\ polls[s].since[2] <= polls'[s].after /\ polls'[s].after <= made[boot]
          /\ polls'[s].after = polls[s].since[2] \/ polls'[s].after <= made[boot] - Keep
      BY <1>3, <3>1, <3>2 DEF Larger
    <3> QED
      BY <1>1, <1>2, <1>3, <2>1, <3>1, <3>3 DEF AnswerOK, Answered, NoLater
  <2> QED
    <3>1. ResumePoll(s) => polls'[s].answer \in {"refused", "admitted", "reset"}
      BY <1>1 DEF ResumePoll, Poll
    <3> QED
      BY <2>2, <2>3, <2>4, <2>5, <3>1
<1> QED
  BY <1>2, <1>4

LEMMA AnswerFeeds ==
  ASSUME TypeOK, FeedInv, NEW s \in Slots, ResumePoll(s) \/ AnswerPoll(s)
  PROVE  FeedInv'
<1>a. es # "none" => FramesOK /\ LoopOK
  BY DEF FeedInv
<1>1. UNCHANGED <<boot, made, up, cursor, times, crossed, link, es>>
  BY DEF ResumePoll, AnswerPoll, serve, page, heard
<1>2. LogGrows
  BY <1>1, LogStays
<1>3. ServingOK'
  BY <1>1 DEF FeedInv, ServingOK
<1>4. es' # "none" => FramesOK' /\ LoopOK'
  BY <1>a, <1>1, <1>2, FramesStay, LoopStays
<1>5. ASSUME NEW r \in Slots, polls'[r].fresh PROVE AnswerOK(r)'
  <2>1. CASE r = s
    BY <1>5, <2>1, ServedPoll
  <2>2. CASE r # s
    <3>1. polls'[r] = polls[r]
      BY <2>2, ServedPoll
    <3> QED
      BY <1>1, <1>2, <1>5, <3>1, AnswerStays DEF FeedInv
  <2> QED
    BY <2>1, <2>2
<1>6. \A r \in Slots : polls'[r].fresh = polls[r].fresh /\ polls'[r].since = polls[r].since
  BY ServedPoll
<1>7. AskedOK => AskedOK'
  BY <1>1, <1>6 DEF AskedOK, NoLater
<1>8. (HeardOK => HeardOK') /\ NoLater(cursor, Latest)'
  BY <1>1 DEF FeedInv, HeardOK, NoLater, Latest
<1> QED
  BY <1>1, <1>3, <1>4, <1>5, <1>7, <1>8 DEF FeedInv

\* What onmessage hands on: the next event there is for the page, or a reset.
LEMMA NextFrame ==
  ASSUME TypeOK, FeedInv, OnMessage
  PROVE  \E frame \in Frame :
           /\ link.frames # <<>> /\ frame = link.frames[1] /\ cursor' = frame.at
           /\ link'.frames = Tail(link.frames) /\ link'.at = link.at /\ link'.boot = link.boot
           /\ link'.sent = link.sent /\ link'.upto = link.upto
           /\ NoLater(cursor, frame.at) /\ NoLater(frame.at, Latest)
           /\ \/ frame.reset /\ told' = frame.at /\ times' = times
              \/ /\ ~frame.reset /\ told' = told /\ Deliver({frame.at})
                 /\ Follows(cursor, frame.at, made)
<1>1. es = "open" /\ link.frames # <<>> /\ link \in Link /\ link.frames \in Seq(Frame)
  BY NumbersAre DEF OnMessage
<1>2. Head(link.frames) = link.frames[1] /\ 1 \in 1..Len(link.frames)
  BY <1>1
<1> DEFINE frame == link.frames[1]
<1>3. frame \in Frame /\ frame.at \in Cursor
  <2>1. frame \in Frame
    BY <1>2, MarksAre
  <2> QED
    BY <2>1 DEF Frame
<1>4. LeadsOn(1) /\ NoLater(Mark(1), Latest) /\ Mark(1) = frame.at /\ Mark(0) = cursor
  BY <1>1, <1>2 DEF FeedInv, FramesOK, Mark
<1>5. /\ cursor' = frame.at /\ link' = [link EXCEPT !.frames = Tail(link.frames)]
      /\ \/ frame.reset /\ told' = frame.at /\ times' = times
         \/ ~frame.reset /\ told' = told /\ Deliver({frame.at})
  BY <1>2 DEF OnMessage
<1>6. /\ link'.frames = Tail(link.frames) /\ link'.at = link.at /\ link'.boot = link.boot
      /\ link'.sent = link.sent /\ link'.upto = link.upto
  BY <1>1, <1>5 DEF Link
<1>7. IF frame.reset THEN NoLater(cursor, frame.at) ELSE Follows(cursor, frame.at, made)
  BY <1>4 DEF LeadsOn
<1>8. NoLater(cursor, frame.at)
  <2>1. cursor[2] \in Nat /\ frame.at[2] \in Nat
    BY <1>3, MarksAre, CursorsAre
  <2>2. ASSUME Follows(cursor, frame.at, made) PROVE NoLater(cursor, frame.at)
    BY <2>1, <2>2 DEF Follows, NoLater
  <2> QED
    BY <1>7, <2>2
<1> QED
  BY <1>1, <1>3, <1>4, <1>5, <1>6, <1>7, <1>8

\* Only what is delivered is heard.
LEMMA HeardMore ==
  ASSUME TypeOK, NEW E, Deliver(E), NEW e \in Events
  PROVE  /\ times'[e] > times[e] => e \in E
         /\ times'[e] > 0 => times[e] > 0 \/ e \in E
         /\ times'[e] = 0 => times[e] = 0 /\ e \notin E
<1>1. times'[e] = IF e \in E /\ times[e] < 2 THEN times[e] + 1 ELSE times[e]
  BY DEF Deliver
<1>2. times[e] \in 0..2
  BY DEF TypeOK
<1> QED
  BY <1>1, <1>2

LEMMA HeardNow ==
  ASSUME TypeOK, NEW E, Deliver(E), NEW e \in Events, e \in E
  PROVE  times'[e] > 0
<1>1. times[e] \in 0..2
  BY DEF TypeOK
<1>2. times'[e] = IF times[e] < 2 THEN times[e] + 1 ELSE times[e]
  BY DEF Deliver
<1> QED
  BY <1>1, <1>2

\* The cursor moves on past all that is delivered.
LEMMA HeardFeeds ==
  ASSUME TypeOK, HeardOK, NEW E, Deliver(E) \/ times' = times, cursor' \in Cursor,
         NoLater(cursor, cursor'), \A e \in Events \cap E : NoLater(e, cursor')
  PROVE  HeardOK'
<1>1. ASSUME NEW e \in Events, times'[e] > 0 PROVE NoLater(e, cursor')
  <2>1. times[e] > 0 \/ e \in E
    BY <1>1, HeardMore
  <2>2. e \in Cursor /\ cursor \in Cursor
    BY CursorsAre DEF TypeOK
  <2>3. times[e] > 0 => NoLater(e, cursor)
    BY DEF HeardOK
  <2> QED
    BY <2>1, <2>2, <2>3, NoLaterIsOrder
<1> QED
  BY <1>1 DEF HeardOK, NoLater

LEMMA MessageFeeds ==
  ASSUME TypeOK, PageInv, FeedInv, OnMessage
  PROVE  FeedInv'
<1>1. /\ es = "open" /\ UNCHANGED <<boot, made, up, es, polls, crossed>>
  BY DEF OnMessage, serve
<1>2. FramesOK /\ LoopOK /\ ServingOK /\ \A s \in Slots : ~polls[s].fresh
  BY <1>1 DEF FeedInv, PageInv, OpenIsSettled
<1>3. PICK frame \in Frame :
        /\ link.frames # <<>> /\ frame = link.frames[1] /\ cursor' = frame.at
        /\ link'.frames = Tail(link.frames) /\ link'.at = link.at /\ link'.boot = link.boot
        /\ link'.sent = link.sent /\ link'.upto = link.upto
        /\ NoLater(cursor, frame.at) /\ NoLater(frame.at, Latest)
        /\ times' = times \/ Deliver({frame.at})
  BY NextFrame
<1>4. PICK n \in Nat : /\ Len(link.frames) = n + 1 /\ Len(link'.frames) = n
                       /\ \A i \in 1..n : link'.frames[i] = link.frames[i + 1]
  <2>1. link.frames \in Seq(Frame)
    BY NumbersAre
  <2>2. Len(link.frames) \in Nat /\ Len(link.frames) # 0
    BY <1>3, <2>1
  <2>3. Len(link.frames) - 1 \in Nat
    BY <2>2
  <2>4. Len(Tail(link.frames)) = Len(link.frames) - 1
        /\ \A i \in 1..(Len(link.frames) - 1) : Tail(link.frames)[i] = link.frames[i + 1]
    BY <1>3, <2>1
  <2>5. Len(link.frames) = (Len(link.frames) - 1) + 1
    BY <2>2
  <2> QED
    BY <1>3, <2>3, <2>4, <2>5, Zenon
<1>5. \A i \in 0..n : Mark(i)' = Mark(i + 1)
  <2>1. \A i \in 0..n : i + 1 # 0 /\ (i = 0 \/ i \in 1..n)
    BY <1>4
  <2> QED
    BY <1>3, <1>4, <2>1 DEF Mark
<1>6. Latest' = Latest
  BY <1>1 DEF Latest
<1>7. FramesOK'
  <2>1. ASSUME NEW i \in 1..n PROVE LeadsOn(i)' /\ NoLater(Mark(i), Latest)'
    <3>1. i + 1 \in 1..Len(link.frames) /\ i + 1 - 1 = i /\ i - 1 \in 0..n /\ i \in 0..n
          /\ i - 1 + 1 = i
      BY <1>4
    <3>2. LeadsOn(i + 1) /\ NoLater(Mark(i + 1), Latest)
      BY <1>2, <3>1 DEF FramesOK
    <3>3. Mark(i)' = Mark(i + 1) /\ Mark(i - 1)' = Mark(i)
      BY <1>5, <3>1
    <3> QED
      BY <1>1, <1>4, <1>6, <3>1, <3>2, <3>3 DEF LeadsOn, NoLater, Follows
  <2>2. link'.at # "asked"
    BY <1>2, <1>3 DEF FramesOK
  <2> QED
    BY <1>4, <2>1, <2>2 DEF FramesOK
<1>8. LoopOK'
  <2>1. Mark(n)' = Mark(n + 1)
    BY <1>4, <1>5
  <2> QED
    BY <1>1, <1>2, <1>3, <1>4, <2>1 DEF LoopOK
<1>9. ServingOK'
  BY <1>1, <1>2, <1>3 DEF ServingOK
<1>10. HeardOK => HeardOK'
  <2>1. cursor' \in Cursor
    BY <1>3 DEF Frame
  <2>2. \A e \in Events \cap {frame.at} : NoLater(e, cursor')
    BY <1>3, <2>1, NoLaterIsOrder
  <2> QED
    BY <1>3, <2>1, <2>2, HeardFeeds
<1>11. NoLater(cursor, Latest)'
  BY <1>3, <1>6 DEF NoLater
<1>12. AskedOK' /\ \A s \in Slots : polls'[s].fresh => AnswerOK(s)'
  BY <1>1, <1>2 DEF AskedOK
<1> QED
  BY <1>1, <1>7, <1>8, <1>9, <1>10, <1>11, <1>12 DEF FeedInv

\* What a poll hands on: the events after where it was asked for that are not
\* trimmed, or none.
LEMMA PollsEvents ==
  ASSUME TypeOK, FeedInv, NEW s \in Slots, TakePoll(s)
  PROVE  /\ polls[s].fresh /\ polls[s].cursor \in Cursor /\ polls[s].since \in Cursor
         /\ polls[s].after \in Nat
         /\ NoLater(polls[s].since, polls[s].cursor) /\ NoLater(polls[s].cursor, Latest)
         /\ \/ /\ polls[s].answer = "reset"
               /\ Between(polls[s].after, polls[s].cursor) = {}
            \/ /\ polls[s].answer = "events" /\ polls[s].cursor[1] = polls[s].since[1]
               /\ polls[s].since[2] <= polls[s].after /\ polls[s].after <= polls[s].cursor[2]
               /\ \/ polls[s].after = polls[s].since[2]
                  \/ polls[s].after <= made[polls[s].since[1]] - Keep
<1>1. polls[s].fresh /\ Answered(s)
  BY DEF TakePoll, Ignored, Answered
<1>2. AnswerOK(s) /\ polls[s].cursor \in Cursor /\ polls[s].since \in Cursor
      /\ polls[s].after \in Counts
  BY <1>1 DEF FeedInv, TypeOK, Poll
<1>3. polls[s].after \in Nat
  BY <1>2, BoundsAssumption DEF Counts
<1>4. polls[s].answer = "reset" => Between(polls[s].after, polls[s].cursor) = {}
  <2>1. polls[s].cursor[2] \in Nat
    BY <1>2, CursorsAre
  <2>2. \A k \in Nat : (k + 1)..k = {}
    OBVIOUS
  <2> QED
    BY <1>2, <2>1, <2>2 DEF AnswerOK, Between
<1> QED
  BY <1>1, <1>2, <1>3, <1>4 DEF AnswerOK, Answered

LEMMA TakeFeeds ==
  ASSUME TypeOK, PageInv, FeedInv, NEW s \in Slots, TakePoll(s)
  PROVE  FeedInv'
<1>1. /\ UNCHANGED <<boot, made, up>> /\ cursor' = polls[s].cursor
      /\ polls' = [polls EXCEPT ![s] = NoPoll] /\ es # "open"
      /\ Deliver(Between(polls[s].after, polls[s].cursor))
      /\ crossed' = (crossed \/ polls[s].since # cursor)
  BY DEF TakePoll, Ignored, serve
<1>2. /\ polls[s].fresh /\ cursor' \in Cursor /\ cursor \in Cursor
      /\ NoLater(polls[s].since, cursor') /\ NoLater(cursor', Latest)
  BY <1>1, PollsEvents DEF TypeOK
<1>3. IF hidden THEN es' = es /\ link' = link
                ELSE es' = "connecting" /\ link' = Asking(cursor')
  BY <1>1 DEF TakePoll, Reconnects
<1>4. ServingOK' /\ (es' # "none" => FramesOK' /\ LoopOK')
  <2>1. CASE hidden
    <3>1. es' = "none" /\ link' = link
      BY <1>3, <2>1 DEF PageInv, HiddenIsShut
    <3> QED
      BY <1>1, <3>1 DEF FeedInv, ServingOK
  <2>2. CASE ~hidden
    BY <1>3, <2>2, AskedFeeds
  <2> QED
    BY <2>1, <2>2
<1>5. ASSUME NEW r \in Slots, polls'[r].fresh PROVE polls[r].fresh /\ polls'[r] = polls[r]
  BY <1>1, <1>5, PollGone
<1>6. ASSUME NEW r \in Slots, polls'[r].fresh PROVE AnswerOK(r)'
  <2>1. LogGrows
    BY <1>1, LogStays
  <2> QED
    BY <1>1, <1>5, <1>6, <2>1, AnswerStays DEF FeedInv
<1>7. ASSUME ~crossed' PROVE HeardOK' /\ AskedOK'
  <2>1. ~crossed /\ polls[s].since = cursor /\ HeardOK /\ AskedOK
    BY <1>1, <1>7 DEF FeedInv
  <2>2. NoLater(cursor, cursor')
    BY <1>2, <2>1
  <2>3. \A e \in Between(polls[s].after, polls[s].cursor) : e \in Events => NoLater(e, cursor')
    <3> SUFFICES ASSUME NEW k \in (polls[s].after + 1)..polls[s].cursor[2]
                 PROVE  NoLater(<<polls[s].cursor[1], k>>, cursor')
      BY DEF Between
    <3>1. k <= cursor'[2]
      BY <1>1
    <3> QED
      BY <1>1, <3>1 DEF NoLater
  <2>4. HeardOK'
    BY <1>1, <1>2, <2>1, <2>2, <2>3, HeardFeeds
  <2>5. ASSUME NEW r \in Slots, polls'[r].fresh PROVE NoLater(polls'[r].since, cursor')
    <3>1. NoLater(polls[r].since, cursor) /\ polls[r].since \in Cursor
      BY <1>5, <2>1, <2>5 DEF AskedOK, TypeOK, Poll
    <3>2. NoLater(polls[r].since, cursor')
      BY <1>2, <2>2, <3>1, NoLaterIsOrder
    <3> QED
      BY <1>5, <2>5, <3>2
  <2> QED
    BY <2>4, <2>5 DEF AskedOK, NoLater
<1>8. NoLater(cursor, Latest)'
  BY <1>1, <1>2 DEF NoLater, Latest
<1> QED
  BY <1>4, <1>6, <1>7, <1>8 DEF FeedInv

LEMMA NextFeed ==
  ASSUME TypeOK, PageInv, FeedInv, [Next]_vars
  PROVE  FeedInv'
<1>1. CASE Streaming
  BY <1>1, StreamFeeds, PageFeeds, MessageFeeds DEF Streaming
<1>2. CASE Polling
  BY <1>2, SendFeeds, AnswerFeeds, PollsFeed, TakeFeeds DEF Polling
<1>3. CASE Around
  BY <1>3, ServeFeeds, PageFeeds DEF Around
<1>4. CASE UNCHANGED vars
  BY <1>4 DEF vars, FeedInv, FramesOK, LoopOK, ServingOK, HeardOK, AskedOK, AnswerOK, Answered,
              LeadsOn, Mark, Follows, NoLater, Latest
<1> QED
  BY <1>1, <1>2, <1>3, <1>4 DEF Next

LEMMA FeedHolds == Spec => [](TypeOK /\ PageInv /\ FeedInv)
<1>1. Init => TypeOK /\ PageInv /\ FeedInv
  BY InitType, InitPage, InitFeed
<1>2. (TypeOK /\ PageInv /\ FeedInv) /\ [Next]_vars => (TypeOK /\ PageInv /\ FeedInv)'
  BY NextType, NextPage, NextFeed
<1> QED
  BY <1>1, <1>2, PTL DEF Spec

\* What a step delivers comes from the next frame or from a poll.
LEMMA WhoDelivers ==
  ASSUME TypeOK, [Next]_vars
  PROVE  \/ UNCHANGED <<times, cursor, told, jumped, crossed>>
         \/ OnMessage
         \/ \E s \in Slots : TakePoll(s)
<1>1. CASE Streaming
  BY <1>1 DEF Streaming, AcceptStream, RefuseStream, ReadLog, WriteFrame, OnOpen, OnError, page,
              heard
<1>2. CASE Polling
  BY <1>2 DEF Polling, SendPoll, ResumePoll, AnswerPoll, DropPoll, FailPoll, RefusedPoll, page,
              heard
<1>3. CASE Around
  BY <1>3 DEF Around, Emit, Stop, Start, Lose, Hide, Show, page, heard
<1>4. CASE UNCHANGED vars
  BY <1>4 DEF vars
<1> QED
  BY <1>1, <1>2, <1>3, <1>4 DEF Next

--------------------------------------------------------------------------------
(* Where the page is sent on.  Beside FeedInv: every place on its way to the *)
(* page is one its log came to, and a reset on its way is past what the log  *)
(* could still go on to from where it was asked for.                         *)

Real(c) == c[2] <= made[c[1]]
Past(c, d) == d[1] > c[1] \/ (d[1] = c[1] /\ d[2] > c[2] + Keep)

PlacesOK ==
  /\ Real(cursor)
  /\ \A i \in 1..Len(link.frames) : Real(link.frames[i].at)
  /\ \A s \in Slots : polls[s].answer \in {"events", "reset"} => Real(polls[s].cursor)
ResetsOK ==
  /\ es # "none" =>
       \A i \in 1..Len(link.frames) :
         link.frames[i].reset => i = 1 /\ Past(cursor, link.frames[i].at)
  /\ \A s \in Slots :
       polls[s].fresh /\ polls[s].answer = "reset" => Past(polls[s].since, polls[s].cursor)

JumpInv == PlacesOK /\ ResetsOK

LEMMA InitJump == Init => JumpInv
<1> SUFFICES ASSUME Init PROVE JumpInv
  OBVIOUS
<1>1. made = [b \in Boots |-> 0] /\ cursor = <<1, 0>>
  BY DEF Init
<1>a. 1 \in Boots
  BY BoundsAssumption DEF Boots
<1>2. Real(cursor)
  BY <1>1, <1>a DEF Real
<1>3. link.frames = <<>>
  <2>1. CASE hidden
    BY <2>1 DEF Init, Unlinked, Asking
  <2>2. CASE ~hidden
    <3>1. link = Asking(cursor)
      BY <2>2 DEF Init
    <3> QED
      BY <3>1 DEF Asking
  <2> QED
    BY <2>1, <2>2
<1>4. \A s \in Slots : polls[s].answer = "none"
  BY DEF Init, NoPoll
<1> QED
  BY <1>2, <1>3, <1>4 DEF JumpInv, PlacesOK, ResetsOK

\* A log keeps what it came to.
LEMMA RealStays ==
  ASSUME TypeOK, made' = made \/ made' = [made EXCEPT ![boot] = @ + 1],
         NEW c \in Cursor, Real(c)
  PROVE  c[2] <= made'[c[1]]
<1>1. c[1] \in Boots /\ c[2] \in Nat /\ made[boot] \in Nat /\ made[c[1]] \in Counts
  BY NumbersAre, CursorsAre DEF Cursor, TypeOK
<1>2. made[c[1]] \in Nat
  BY <1>1, BoundsAssumption DEF Counts
<1>3. made'[c[1]] = made[c[1]] \/ made'[c[1]] = made[c[1]] + 1
  BY <1>1 DEF TypeOK
<1> QED
  BY <1>1, <1>2, <1>3 DEF Real

LEMMA MadeGrows ==
  ASSUME TypeOK, [Next]_vars
  PROVE  made' = made \/ made' = [made EXCEPT ![boot] = @ + 1]
BY DEF Next, Streaming, AcceptStream, RefuseStream, ReadLog, WriteFrame, OnOpen, OnMessage,
       OnError, Polling, SendPoll, ResumePoll, AnswerPoll, DropPoll, TakePoll, FailPoll,
       RefusedPoll, Around, Emit, Stop, Start, Lose, Hide, Show, serve, vars

LEMMA LatestIsReal == ASSUME TypeOK PROVE Real(Latest)
BY NumbersAre DEF Real, Latest

\* A step that puts no new place on its way to the page.
Brings ==
  /\ cursor' = cursor
  /\ link'.frames = link.frames \/ link'.frames = <<>>
  /\ es' # "none" => es # "none" \/ link'.frames = <<>>
  /\ \A s \in Slots :
       polls'[s].answer \in {"events", "reset"} =>
         /\ polls'[s].answer = polls[s].answer /\ polls'[s].cursor = polls[s].cursor
         /\ polls'[s].since = polls[s].since
         /\ polls'[s].fresh => polls[s].fresh

LEMMA JumpStays ==
  ASSUME TypeOK, JumpInv, made' = made \/ made' = [made EXCEPT ![boot] = @ + 1], Brings
  PROVE  JumpInv'
<1>1. \A c \in Cursor : Real(c) => c[2] <= made'[c[1]]
  BY RealStays
<1>2. cursor \in Cursor /\ \A i \in 1..Len(link.frames) : link.frames[i].at \in Cursor
  BY MarksAre DEF Frame
<1>3. \A s \in Slots : polls[s].cursor \in Cursor
  BY DEF TypeOK, Poll
<1>4. cursor'[2] <= made'[cursor'[1]]
  BY <1>1, <1>2 DEF JumpInv, PlacesOK, Brings
<1>5. \A i \in 1..Len(link'.frames) : i \in 1..Len(link.frames) /\ link'.frames[i] = link.frames[i]
  BY DEF Brings
<1>6. \A i \in 1..Len(link'.frames) : link'.frames[i].at[2] <= made'[link'.frames[i].at[1]]
  BY <1>1, <1>2, <1>5 DEF JumpInv, PlacesOK
<1>7. \A s \in Slots : polls'[s].answer \in {"events", "reset"}
                         => polls'[s].cursor[2] <= made'[polls'[s].cursor[1]]
  BY <1>1, <1>3 DEF JumpInv, PlacesOK, Brings
<1>8. PlacesOK'
  BY <1>4, <1>6, <1>7 DEF PlacesOK, Real
<1>9. ASSUME es' # "none", NEW i \in 1..Len(link'.frames), link'.frames[i].reset
      PROVE  i = 1 /\ Past(cursor', link'.frames[i].at)
  <2>1. link'.frames = link.frames /\ es # "none"
    BY <1>9 DEF Brings
  <2> QED
    BY <1>9, <2>1 DEF JumpInv, ResetsOK, Brings
<1>10. \A s \in Slots : polls'[s].fresh /\ polls'[s].answer = "reset"
                          => Past(polls'[s].since, polls'[s].cursor)
  BY DEF JumpInv, ResetsOK, Brings
<1>11. ResetsOK'
  BY <1>9, <1>10 DEF ResetsOK, Past
<1> QED
  BY <1>8, <1>11 DEF JumpInv

\* The steps that put none there.
LEMMA StreamBrings ==
  ASSUME TypeOK, \/ AcceptStream /\ Resume(link.since)
                 \/ RefuseStream \/ ReadLog \/ OnOpen \/ OnError
  PROVE  Brings
<1>1. link \in Link
  BY DEF TypeOK
<1>2. cursor' = cursor /\ (link'.frames = link.frames \/ link' = Unlinked)
  BY <1>1 DEF AcceptStream, RefuseStream, ReadLog, OnOpen, OnError, page, Link
<1>3. es' # "none" => es # "none"
  BY DEF AcceptStream, RefuseStream, ReadLog, OnOpen, OnError, page
<1>4. polls' = polls \/ polls' = NewEpoch
  BY DEF AcceptStream, RefuseStream, ReadLog, OnOpen, OnError
<1>5. \A s \in Slots : /\ polls'[s].answer = polls[s].answer /\ polls'[s].cursor = polls[s].cursor
                       /\ polls'[s].since = polls[s].since
                       /\ polls'[s].fresh => polls[s].fresh
  <2>1. polls \in [Slots -> Poll]
    BY DEF TypeOK
  <2>2. CASE polls' = polls
    BY <2>2
  <2>3. CASE polls' = NewEpoch
    BY <2>1, <2>3 DEF NewEpoch, Poll
  <2> QED
    BY <1>4, <2>2, <2>3
<1> QED
  BY <1>2, <1>3, <1>5 DEF Brings, Unlinked, Asking

LEMMA PollBrings ==
  ASSUME TypeOK, NEW s \in Slots, SendPoll(s) \/ DropPoll(s) \/ FailPoll(s) \/ RefusedPoll(s)
  PROVE  Brings
<1>1. cursor' = cursor /\ (link' = link \/ link' = Unlinked) /\ (es' # "none" => es # "none")
  BY DEF SendPoll, DropPoll, FailPoll, RefusedPoll, page
<1>2. polls \in [Slots -> Poll]
  BY DEF TypeOK
<1>3. \A r \in Slots : polls'[r] = polls[r] \/ polls'[r].answer \notin {"events", "reset"}
  <2>1. CASE SendPoll(s)
    BY <1>2, <2>1 DEF SendPoll, NoPoll
  <2>2. CASE ~SendPoll(s)
    <3>1. polls' = [polls EXCEPT ![s] = NoPoll]
      BY <2>2 DEF DropPoll, FailPoll, RefusedPoll
    <3>2. \A r \in Slots : polls'[r] = IF r = s THEN NoPoll ELSE polls[r]
      BY <1>2, <3>1
    <3> QED
      BY <3>2 DEF NoPoll
  <2> QED
    BY <2>1, <2>2
<1> QED
  BY <1>1, <1>3 DEF Brings, Unlinked, Asking

LEMMA AroundBrings ==
  ASSUME TypeOK, Around
  PROVE  Brings
<1>1. link \in Link /\ polls \in [Slots -> Poll]
  BY DEF TypeOK
<1>2. cursor' = cursor
  BY DEF Around, Emit, Stop, Start, Lose, Hide, Show, page
<1>3. \/ link'.frames = link.frames /\ (es' # "none" => es # "none")
      \/ link' = Unlinked \/ link' = Asking(cursor)
  BY <1>1 DEF Around, Emit, Stop, Start, Lose, Hide, Show, page, CutLink, Link
<1>4. polls' = polls \/ polls' = NewEpoch \/ polls' = Cut
  BY DEF Around, Emit, Stop, Start, Lose, Hide, Show
<1>5. \A s \in Slots : polls'[s].answer \in {"events", "reset"} =>
        /\ polls'[s].answer = polls[s].answer /\ polls'[s].cursor = polls[s].cursor
        /\ polls'[s].since = polls[s].since
        /\ polls'[s].fresh => polls[s].fresh
  <2>1. CASE polls' = NewEpoch \/ polls' = polls
    BY <1>1, <2>1 DEF NewEpoch, Poll
  <2>2. CASE polls' = Cut
    BY <1>1, <2>2 DEF Cut, Poll
  <2> QED
    BY <1>4, <2>1, <2>2
<1> QED
  BY <1>2, <1>3, <1>5 DEF Brings, Unlinked, Asking

\* A reset is for a cursor the log cannot go on from.
LEMMA ResetIsPast ==
  ASSUME TypeOK, NEW c \in Cursor, NoLater(c, Latest), ~Resume(c)
  PROVE  Past(c, Latest)
BY NumbersAre, CursorsAre DEF Past, Latest, NoLater, Resume

LEMMA AcceptJumps ==
  ASSUME TypeOK, FeedInv, JumpInv, AcceptStream, ~Resume(link.since)
  PROVE  JumpInv'
<1>1. /\ UNCHANGED <<boot, made, cursor, es, polls>>
      /\ link'.frames = <<[at |-> Latest, reset |-> TRUE]>>
  BY NumbersAre DEF AcceptStream, serve, page, Link
<1>2. /\ Len(link'.frames) = 1
      /\ \A i \in 1..Len(link'.frames) : i = 1 /\ link'.frames[i].at = Latest
  BY <1>1
<1>3. PlacesOK'
  BY <1>1, <1>2, LatestIsReal DEF JumpInv, PlacesOK, Real
<1>4. es # "none" => Past(cursor, Latest)
  <2> SUFFICES ASSUME es # "none" PROVE Past(cursor, Latest)
    OBVIOUS
  <2>1. link.since = cursor /\ NoLater(cursor, Latest) /\ cursor \in Cursor
    BY DEF FeedInv, FramesOK, AcceptStream, TypeOK
  <2> QED
    BY <2>1, ResetIsPast
<1>5. ResetsOK'
  BY <1>1, <1>2, <1>4 DEF JumpInv, ResetsOK, Past
<1> QED
  BY <1>3, <1>5 DEF JumpInv

LEMMA WriteJumps ==
  ASSUME TypeOK, FeedInv, JumpInv, WriteFrame
  PROVE  JumpInv'
<1> DEFINE f == [at |-> <<boot, link.sent + 1>>, reset |-> FALSE]
<1>1. /\ UNCHANGED <<boot, made, cursor, es, polls>> /\ link.at = "serving"
      /\ link'.frames = Append(link.frames, f) /\ link.frames \in Seq(Frame)
      /\ link.sent < link.upto
  BY NumbersAre DEF WriteFrame, serve, page, Link
<1>2. Real(f.at)
  BY <1>1, NumbersAre DEF FeedInv, ServingOK, Real
<1>3. \A i \in 1..Len(link'.frames) : \/ link'.frames[i] = f
                                      \/ i \in 1..Len(link.frames) /\ link'.frames[i] = link.frames[i]
  BY <1>1
<1>4. f.reset = FALSE
  OBVIOUS
<1> HIDE DEF f
<1>5. PlacesOK'
  BY <1>1, <1>2, <1>3 DEF JumpInv, PlacesOK, Real
<1>6. ResetsOK'
  BY <1>1, <1>3, <1>4 DEF JumpInv, ResetsOK, Past
<1> QED
  BY <1>5, <1>6 DEF JumpInv

LEMMA MessageJumps ==
  ASSUME TypeOK, PageInv, FeedInv, JumpInv, OnMessage
  PROVE  JumpInv'
<1>1. /\ UNCHANGED <<boot, made, es, polls>> /\ es = "open"
      /\ link.frames # <<>> /\ link.frames \in Seq(Frame)
      /\ cursor' = link.frames[1].at /\ link'.frames = Tail(link.frames)
  <2>1. link.frames # <<>> /\ cursor' = link.frames[1].at /\ link'.frames = Tail(link.frames)
    BY NextFrame
  <2> QED
    BY <2>1, NumbersAre DEF OnMessage, serve
<1>2. \A i \in 1..Len(link'.frames) : /\ i + 1 \in 1..Len(link.frames) /\ i + 1 # 1
                                      /\ link'.frames[i] = link.frames[i + 1]
  BY <1>1
<1>3. 1 \in 1..Len(link.frames)
  BY <1>1
<1>4. PlacesOK'
  BY <1>1, <1>2, <1>3 DEF JumpInv, PlacesOK, Real
<1>5. \A i \in 1..Len(link'.frames) : ~link'.frames[i].reset
  BY <1>1, <1>2 DEF JumpInv, ResetsOK
<1>6. \A s \in Slots : ~polls'[s].fresh
  BY <1>1 DEF PageInv, OpenIsSettled
<1> QED
  BY <1>4, <1>5, <1>6 DEF JumpInv, ResetsOK

LEMMA AnswerJumps ==
  ASSUME TypeOK, FeedInv, JumpInv, NEW s \in Slots, ResumePoll(s) \/ AnswerPoll(s)
  PROVE  JumpInv'
<1>1. /\ UNCHANGED <<boot, made, cursor, es, link>> /\ polls \in [Slots -> Poll]
  BY DEF ResumePoll, AnswerPoll, serve, page, TypeOK
<1>2. /\ polls'[s].fresh = polls[s].fresh /\ polls'[s].since = polls[s].since
      /\ \A r \in Slots \ {s} : polls'[r] = polls[r]
  BY ServedPoll
<1>3. /\ polls'[s].answer \in {"events", "reset"} => polls'[s].cursor = Latest
      /\ polls'[s].answer = "reset" => ~Resume(polls[s].since)
  BY <1>1 DEF ResumePoll, AnswerPoll, Poll
<1>4. PlacesOK'
  BY <1>1, <1>2, <1>3, LatestIsReal DEF JumpInv, PlacesOK, Real
<1>5. ASSUME polls'[s].fresh, polls'[s].answer = "reset" PROVE Past(polls[s].since, Latest)
  <2>1. polls[s].since \in Cursor /\ NoLater(polls[s].since, Latest)
    BY <1>1, <1>2, <1>5 DEF FeedInv, AnswerOK, Poll
  <2> QED
    BY <1>3, <1>5, <2>1, ResetIsPast
<1>6. ResetsOK'
  BY <1>1, <1>2, <1>3, <1>5 DEF JumpInv, ResetsOK, Past
<1> QED
  BY <1>4, <1>6 DEF JumpInv

LEMMA TakeJumps ==
  ASSUME TypeOK, PageInv, FeedInv, JumpInv, NEW s \in Slots, TakePoll(s)
  PROVE  JumpInv'
<1>1. /\ UNCHANGED <<boot, made>> /\ cursor' = polls[s].cursor
      /\ polls' = [polls EXCEPT ![s] = NoPoll]
      /\ polls[s].answer \in {"events", "reset"} /\ polls[s].fresh
      /\ IF hidden THEN es' = es /\ link' = link
                   ELSE es' = "connecting" /\ link' = Asking(cursor')
  BY DEF TakePoll, Ignored, serve, Reconnects
<1>2. hidden => es' = "none"
  BY <1>1 DEF PageInv, HiddenIsShut
<1>3. link'.frames = link.frames \/ link'.frames = <<>>
  BY <1>1 DEF Asking
<1>4. es' # "none" => link'.frames = <<>>
  BY <1>1, <1>2 DEF Asking
<1>5. \A r \in Slots : polls'[r].answer = "none" \/ polls'[r] = polls[r]
  BY <1>1 DEF TypeOK, NoPoll
<1>6. \A r \in Slots : polls'[r].fresh /\ polls'[r].answer = "reset"
                         => Past(polls'[r].since, polls'[r].cursor)
  BY <1>5 DEF JumpInv, ResetsOK
<1>7. PlacesOK'
  BY <1>1, <1>3, <1>5 DEF JumpInv, PlacesOK, Real
<1>8. ResetsOK'
  BY <1>4, <1>6 DEF ResetsOK, Past
<1> QED
  BY <1>7, <1>8 DEF JumpInv

LEMMA NextJump ==
  ASSUME TypeOK, PageInv, FeedInv, JumpInv, [Next]_vars
  PROVE  JumpInv'
<1>1. CASE Brings
  BY <1>1, JumpStays, MadeGrows
<1>2. CASE Streaming
  BY <1>1, <1>2, StreamBrings, AcceptJumps, WriteJumps, MessageJumps DEF Streaming
<1>3. CASE Polling
  BY <1>1, <1>3, PollBrings, AnswerJumps, TakeJumps DEF Polling
<1>4. CASE Around
  BY <1>1, <1>4, AroundBrings
<1>5. CASE UNCHANGED vars
  BY <1>5 DEF vars, JumpInv, PlacesOK, ResetsOK, Real, Past
<1> QED
  BY <1>2, <1>3, <1>4, <1>5 DEF Next

LEMMA JumpHolds == Spec => [](TypeOK /\ PageInv /\ FeedInv /\ JumpInv)
<1>1. TypeOK /\ PageInv /\ FeedInv /\ JumpInv /\ [Next]_vars => JumpInv'
  BY NextJump
<1> QED
  BY <1>1, InitJump, FeedHolds, PTL DEF Spec

--------------------------------------------------------------------------------
(* What the page misses.  Of every event as far as its cursor, and as far as *)
(* where a poll it would listen to was asked for, it is known what became:   *)
(* given, passed by a reset or trimmed.  (The second because that poll's     *)
(* answer starts there, wherever the cursor is by then.)                     *)

Known(e) == times[e] > 0 \/ NoLater(e, told) \/ e \in jumped \/ Trimmed(e)
Covered(c) == \A e \in Emitted : NoLater(e, c) => Known(e)

TellsOK ==
  /\ NoLater(told, Latest)
  /\ es # "none" => \A i \in 1..Len(link.frames) :
                      link.frames[i].reset => NoLater(told, link.frames[i].at)

KnownInv ==
  /\ Covered(cursor) /\ TellsOK
  /\ \A s \in Slots : polls[s].fresh => Covered(polls[s].since)

LEMMA InitKnown == Init => KnownInv
<1> SUFFICES ASSUME Init PROVE KnownInv
  OBVIOUS
<1>1. Emitted = {}
  <2>1. \A e \in Events : e[1] \in Boots /\ e[2] >= 1
    BY CursorsAre DEF Cursor
  <2>2. \A e \in Events : made[e[1]] = 0
    BY <2>1 DEF Init
  <2>3. ASSUME NEW e \in Emitted PROVE FALSE
    <3>1. e \in Events /\ e[2] <= made[e[1]]
      BY DEF Emitted
    <3>2. e[2] \in Nat /\ e[2] >= 1 /\ made[e[1]] = 0
      BY <2>1, <2>2, <3>1, CursorsAre
    <3> QED
      BY <3>1, <3>2
  <2> QED
    BY <2>3
<1>2. NoLater(told, Latest)
  <2>1. told = cursor /\ NoLater(cursor, Latest)
    BY InitFeed DEF Init, FeedInv
  <2> QED
    BY <2>1
<1>3. link.frames = <<>>
  <2>1. link = Unlinked \/ link = Asking(cursor)
    BY DEF Init
  <2> QED
    BY <2>1 DEF Unlinked, Asking
<1> QED
  BY <1>1, <1>2, <1>3 DEF KnownInv, TellsOK, Covered

LEMMA LogsGrow ==
  ASSUME TypeOK, [Next]_vars
  PROVE  LogGrows
<1>1. CASE Start
  <2>1. boot' = boot + 1 /\ made' = made
    BY <1>1 DEF Start
  <2>2. Counts \subseteq Nat
    BY BoundsAssumption DEF Counts
  <2>3. \A b \in Boots : made[b] \in Nat
    BY <2>2 DEF TypeOK
  <2>4. \A b \in Boots : made'[b] \in Nat /\ made[b] <= made'[b]
    BY <2>1, <2>3
  <2>5. \A c \in Cursor : NoLater(c, Latest) => NoLater(c, Latest')
    BY <2>1, NumbersAre, CursorsAre DEF NoLater, Latest
  <2> QED
    BY <2>3, <2>4, <2>5 DEF LogGrows
<1>2. CASE ~Start
  <2>1. boot' = boot
    BY <1>2 DEF Next, Streaming, AcceptStream, RefuseStream, ReadLog, WriteFrame, OnOpen,
       OnMessage, OnError, Polling, SendPoll, ResumePoll, AnswerPoll, DropPoll, TakePoll, FailPoll,
       RefusedPoll, Around, Emit, Stop, Lose, Hide, Show, serve, vars
  <2> QED
    BY <2>1, MadeGrows, LogStays
<1> QED
  BY <1>1, <1>2

\* A frame or a poll tells the page of a later place than any before it.
LEMMA ToldGrows ==
  ASSUME TypeOK, FeedInv, JumpInv, KnownInv, [Next]_vars
  PROVE  told' = told \/ (NoLater(told, told') /\ OnMessage /\ told' = cursor')
<1>1. CASE OnMessage
  <2>1. PICK frame \in Frame :
          /\ link.frames # <<>> /\ frame = link.frames[1] /\ cursor' = frame.at
          /\ (frame.reset /\ told' = frame.at) \/ told' = told
    BY <1>1, NextFrame
  <2>2. 1 \in 1..Len(link.frames) /\ es = "open"
    <3>1. link.frames \in Seq(Frame) /\ Len(link.frames) \in Nat /\ Len(link.frames) # 0
      BY <2>1, NumbersAre
    <3> QED
      BY <1>1, <3>1 DEF OnMessage
  <2>3. frame.reset => NoLater(told, frame.at)
    BY <2>1, <2>2 DEF KnownInv, TellsOK
  <2> QED
    BY <1>1, <2>1, <2>3
<1>2. CASE ~OnMessage
  BY <1>2, WhoDelivers DEF TakePoll
<1> QED
  BY <1>1, <1>2

\* What became of an event stays known.
LEMMA KnownStays ==
  ASSUME TypeOK, TypeOK', FeedInv, JumpInv, KnownInv, [Next]_vars, NEW e \in Events, Known(e)
  PROVE  Known(e)'
<1>1. times[e] > 0 => times'[e] > 0
  <2>1. times[e] \in 0..2
    BY DEF TypeOK
  <2>2. times' = times \/ \E E : Deliver(E)
    <3>1. CASE OnMessage
      BY <3>1 DEF OnMessage
    <3>2. ASSUME NEW s \in Slots, TakePoll(s) PROVE \E E : Deliver(E)
      BY <3>2 DEF TakePoll
    <3> QED
      BY <3>1, <3>2, WhoDelivers
  <2> QED
    BY <2>1, <2>2 DEF Deliver
<1>2. NoLater(e, told) => NoLater(e, told')
  <2>1. e \in Cursor /\ told \in Cursor /\ told' \in Cursor
    BY CursorsAre DEF TypeOK
  <2>2. told' = told \/ NoLater(told, told')
    BY ToldGrows
  <2> QED
    BY <2>1, <2>2, NoLaterIsOrder
<1>3. e \in jumped => e \in jumped'
  <2>1. ASSUME NEW s \in Slots, TakePoll(s) PROVE jumped \subseteq jumped'
    BY <2>1 DEF TakePoll
  <2>2. OnMessage => jumped' = jumped
    BY DEF OnMessage
  <2> QED
    BY <2>1, <2>2, WhoDelivers
<1>4. Trimmed(e) => Trimmed(e)'
  <2>1. e[1] \in Boots /\ e[2] \in Nat /\ Keep \in Nat
    BY CursorsAre, BoundsAssumption DEF Cursor
  <2>2. made[e[1]] \in Nat /\ made'[e[1]] \in Nat /\ made[e[1]] <= made'[e[1]]
    BY <2>1, LogsGrow DEF LogGrows
  <2> QED
    BY <2>1, <2>2 DEF Trimmed
<1> QED
  BY <1>1, <1>2, <1>3, <1>4 DEF Known, NoLater

\* A new event is past every place the log had come to.
LEMMA CoveredStays ==
  ASSUME TypeOK, TypeOK', FeedInv, JumpInv, KnownInv, [Next]_vars,
         NEW c \in Cursor, NoLater(c, Latest), Covered(c), NEW e \in Emitted', NoLater(e, c)
  PROVE  Known(e)'
<1>1. e \in Events /\ e[2] <= made'[e[1]] /\ e \in Cursor /\ e[1] \in Boots /\ e[2] \in Nat
  BY CursorsAre DEF Emitted, Cursor
<1>2. e[2] <= made[e[1]]
  <2>1. CASE made' = made
    BY <1>1, <2>1
  <2>2. CASE made' = [made EXCEPT ![boot] = @ + 1]
    <3>1. CASE e[1] # boot
      BY <1>1, <2>2, <3>1 DEF TypeOK
    <3>2. CASE e[1] = boot
      <4>1. NoLater(e, Latest)
        BY <1>1, LatestType, NoLaterIsOrder
      <4> QED
        BY <3>2, <4>1, NumbersAre DEF NoLater, Latest
    <3> QED
      BY <3>1, <3>2
  <2> QED
    BY <2>1, <2>2, MadeGrows
<1>3. e \in Emitted
  BY <1>1, <1>2 DEF Emitted
<1> QED
  BY <1>1, <1>3, KnownStays DEF Covered

\* Where the cursor goes, what became of the events before it is known.
LEMMA CursorCovered ==
  ASSUME TypeOK, TypeOK', PageInv, FeedInv, JumpInv, KnownInv, [Next]_vars
  PROVE  Covered(cursor)'
<1> SUFFICES ASSUME NEW e \in Emitted', NoLater(e, cursor') PROVE Known(e)'
  BY DEF Covered, NoLater
<1>1. e \in Events /\ e \in Cursor /\ e[2] <= made'[e[1]]
  BY CursorsAre DEF Emitted
<1>2. cursor \in Cursor /\ NoLater(cursor, Latest) /\ Covered(cursor)
  BY DEF TypeOK, FeedInv, KnownInv
<1>3. NoLater(e, cursor) => Known(e)'
  BY <1>2, CoveredStays
<1>4. CASE OnMessage
  <2>1. PICK frame \in Frame :
          /\ cursor' = frame.at
          /\ \/ told' = frame.at
             \/ Deliver({frame.at}) /\ Follows(cursor, frame.at, made)
    BY <1>4, NextFrame
  <2>2. CASE told' = frame.at
    BY <2>1, <2>2 DEF Known, NoLater
  <2>3. CASE Deliver({frame.at}) /\ Follows(cursor, frame.at, made)
    <3>1. frame.at \in Cursor
      BY DEF Frame
    <3>2. /\ e[1] \in Nat /\ e[2] \in Nat /\ cursor[1] \in Nat /\ cursor[2] \in Nat
          /\ frame.at[2] \in Nat /\ e = <<e[1], e[2]>> /\ frame.at = <<frame.at[1], frame.at[2]>>
      BY <1>1, <1>2, <3>1, CursorsAre
    <3>3. CASE e = frame.at
      <4>1. times'[e] > 0
        BY <1>1, <2>3, <3>3, HeardNow
      <4> QED
        BY <4>1 DEF Known
    <3>4. CASE e # frame.at /\ ~NoLater(e, cursor)
      <4>1. e[1] = cursor[1] /\ e[2] > cursor[2] /\ e[2] < frame.at[2]
        BY <2>1, <2>3, <3>2, <3>4 DEF Follows, NoLater
      <4>2. frame.at[2] - 1 <= made[e[1]] - Keep
        BY <2>3, <3>2, <4>1 DEF Follows
      <4>3. made' = made
        BY <1>4 DEF OnMessage, serve
      <4>4. made[e[1]] \in Nat /\ Keep \in Nat
        BY <1>1, LogsGrow, BoundsAssumption DEF LogGrows, Cursor
      <4>5. Trimmed(e)'
        BY <3>2, <4>1, <4>2, <4>3, <4>4 DEF Trimmed
      <4> QED
        BY <4>5 DEF Known
    <3> QED
      BY <1>3, <3>3, <3>4
  <2> QED
    BY <2>1, <2>2, <2>3
<1>5. ASSUME NEW s \in Slots, TakePoll(s) PROVE Known(e)'
  <2> DEFINE p == polls[s]
  <2>1. /\ cursor' = p.cursor /\ made' = made /\ Deliver(Between(p.after, p.cursor))
        /\ p.answer = "reset" => jumped' = jumped \cup Unheard(p.cursor)
    BY <1>5 DEF TakePoll, serve
  <2>2. /\ p.fresh /\ p.cursor \in Cursor /\ p.since \in Cursor /\ p.after \in Nat
        /\ \/ p.answer = "reset"
           \/ /\ p.answer = "events" /\ p.cursor[1] = p.since[1]
              /\ p.since[2] <= p.after /\ p.after <= p.cursor[2]
              /\ p.after = p.since[2] \/ p.after <= made[p.since[1]] - Keep
    BY <1>5, PollsEvents
  <2>3. NoLater(p.since, Latest) /\ Covered(p.since)
    BY <2>2 DEF FeedInv, AnswerOK, KnownInv
  <2> HIDE DEF p
  <2>4. CASE p.answer = "reset"
    <3>1. e \in Emitted
      BY <1>1, <2>1 DEF Emitted
    <3>2. CASE times[e] = 0
      BY <2>1, <2>4, <3>1, <3>2 DEF Unheard, Known
    <3>3. CASE times[e] # 0
      <4>a. times[e] \in 0..2
        BY <1>1 DEF TypeOK
      <4>1. times[e] > 0
        BY <3>3, <4>a
      <4> QED
        BY <1>1, <4>1, KnownStays DEF Known
    <3> QED
      BY <3>2, <3>3
  <2>5. CASE p.answer = "events"
    <3>1. CASE NoLater(e, p.since)
      BY <2>2, <2>3, <3>1, CoveredStays
    <3>2. CASE ~NoLater(e, p.since)
      <4>1. /\ e[1] \in Nat /\ e[2] \in Nat /\ p.since[1] \in Nat /\ p.since[2] \in Nat
            /\ p.cursor[2] \in Nat /\ e = <<e[1], e[2]>>
        BY <1>1, <2>2, CursorsAre
      <4>2. e[1] = p.cursor[1] /\ e[1] = p.since[1] /\ p.since[2] < e[2] /\ e[2] <= p.cursor[2]
        BY <2>1, <2>2, <2>5, <3>2, <4>1 DEF NoLater
      <4>3. CASE p.after < e[2]
        <5>1. e[2] \in (p.after + 1)..p.cursor[2]
          BY <2>2, <4>1, <4>2, <4>3
        <5>2. e \in Between(p.after, p.cursor)
          BY <4>1, <4>2, <5>1 DEF Between
        <5>3. times'[e] > 0
          BY <1>1, <2>1, <5>2, HeardNow
        <5> QED
          BY <5>3 DEF Known
      <4>4. CASE e[2] <= p.after
        <5>1. p.after <= made[e[1]] - Keep
          BY <2>2, <2>5, <4>1, <4>2, <4>4
        <5>2. made[e[1]] \in Nat /\ Keep \in Nat
          BY <1>1, LogsGrow, BoundsAssumption DEF LogGrows, Cursor
        <5>3. Trimmed(e)'
          BY <2>1, <2>2, <4>1, <4>4, <5>1, <5>2 DEF Trimmed
        <5> QED
          BY <5>3 DEF Known
      <4> QED
        BY <2>2, <4>1, <4>3, <4>4
    <3> QED
      BY <3>1, <3>2
  <2> QED
    BY <2>2, <2>4, <2>5
<1>6. CASE cursor' = cursor
  BY <1>3, <1>6 DEF NoLater
<1> QED
  BY <1>4, <1>5, <1>6, WhoDelivers

\* A poll that is fresh was so before, or goes out from the cursor.
LEMMA PollsFrom ==
  ASSUME TypeOK, [Next]_vars, NEW s \in Slots, polls'[s].fresh
  PROVE  (polls[s].fresh /\ polls'[s].since = polls[s].since)
           \/ (polls'[s].since = cursor /\ cursor' = cursor)
<1>0. polls \in [Slots -> Poll]
  BY DEF TypeOK
<1>1. CASE Streaming \/ Around \/ UNCHANGED vars
  <2>1. polls' = polls \/ polls' = NewEpoch \/ polls' = Cut
    BY <1>1 DEF Streaming, AcceptStream, RefuseStream, ReadLog, WriteFrame, OnOpen, OnMessage,
                OnError, Around, Emit, Stop, Start, Lose, Hide, Show, vars
  <2>2. polls' # NewEpoch
    BY <1>0, Freshness
  <2> QED
    BY <2>1, <2>2, CutStays
<1>2. CASE Polling
  <2>1. PICK r \in Slots : \/ SendPoll(r) \/ ResumePoll(r) \/ AnswerPoll(r)
                           \/ DropPoll(r) \/ TakePoll(r) \/ FailPoll(r) \/ RefusedPoll(r)
    BY <1>2 DEF Polling
  <2>2. CASE SendPoll(r)
    <3>1. polls'[r].since = cursor
      BY <1>0, <2>2 DEF SendPoll, NoPoll
    <3>2. s # r => polls'[s] = polls[s]
      BY <1>0, <2>2 DEF SendPoll
    <3> QED
      BY <2>2, <3>1, <3>2 DEF SendPoll
  <2>3. CASE ResumePoll(r) \/ AnswerPoll(r)
    BY <1>0, <2>3 DEF ResumePoll, AnswerPoll, Poll
  <2>4. CASE DropPoll(r) \/ TakePoll(r) \/ FailPoll(r) \/ RefusedPoll(r)
    <3>1. polls' = [polls EXCEPT ![r] = NoPoll]
      BY <2>4 DEF DropPoll, TakePoll, FailPoll, RefusedPoll
    <3> QED
      BY <3>1, PollGone
  <2> QED
    BY <2>1, <2>2, <2>3, <2>4
<1> QED
  BY <1>1, <1>2 DEF Next

\* No frame, however long it waits, tells the page of an earlier place.
LEMMA TellsStay ==
  ASSUME TypeOK, TypeOK', PageInv, FeedInv, JumpInv, KnownInv, [Next]_vars
  PROVE  TellsOK'
<1>0. /\ told \in Cursor /\ told' \in Cursor /\ cursor' \in Cursor
      /\ NoLater(told, Latest) /\ NoLater(cursor', Latest')
      /\ told' = told \/ told' = cursor'
  BY NextFeed, ToldGrows DEF TypeOK, KnownInv, TellsOK, FeedInv, NoLater
<1>1. NoLater(told', Latest')
  BY <1>0, LogsGrow DEF LogGrows
<1>2. ASSUME es' # "none", NEW i \in 1..Len(link'.frames), link'.frames[i].reset
      PROVE  NoLater(told', link'.frames[i].at)
  <2>a. es # "none" => \A k \in 1..Len(link.frames) :
                         link.frames[k].reset => NoLater(told, link.frames[k].at)
    BY DEF KnownInv, TellsOK
  <2>1. CASE OnMessage
    <3>1. link.frames \in Seq(Frame) /\ link.frames # <<>> /\ link'.frames = Tail(link.frames)
      <4>1. link.frames # <<>> /\ link'.frames = Tail(link.frames)
        BY <2>1, NextFrame
      <4> QED
        BY <4>1, NumbersAre
    <3>2. i + 1 \in 1..Len(link.frames) /\ i + 1 # 1 /\ link'.frames[i] = link.frames[i + 1]
      BY <3>1
    <3>3. es # "none"
      BY <2>1 DEF OnMessage
    <3> QED
      BY <1>2, <3>2, <3>3 DEF JumpInv, ResetsOK
  <2>2. CASE AcceptStream /\ ~Resume(link.since)
    <3>1. link'.frames = <<[at |-> Latest, reset |-> TRUE]>> /\ told' = told
      BY <2>2, NumbersAre DEF AcceptStream, heard, Link
    <3>2. link'.frames[i].at = Latest
      BY <3>1
    <3> QED
      BY <1>0, <3>1, <3>2 DEF NoLater
  <2>3. CASE WriteFrame
    <3> DEFINE f == [at |-> <<boot, link.sent + 1>>, reset |-> FALSE]
    <3>1. /\ link.frames \in Seq(Frame) /\ link'.frames = Append(link.frames, f)
          /\ told' = told /\ es' = es
      BY <2>3, NumbersAre DEF WriteFrame, heard, page, Link
    <3>2. f.reset = FALSE
      OBVIOUS
    <3> HIDE DEF f
    <3>3. link'.frames[i] = f \/ (i \in 1..Len(link.frames) /\ link'.frames[i] = link.frames[i])
      BY <3>1
    <3> QED
      BY <1>2, <2>a, <3>1, <3>2, <3>3
  <2>4. CASE Brings /\ told' = told
    <3>1. link'.frames = link.frames /\ es # "none"
      BY <1>2, <2>4 DEF Brings
    <3> QED
      BY <1>2, <2>4, <2>a, <3>1
  <2>5. ASSUME NEW s \in Slots, TakePoll(s) PROVE FALSE
    <3>1. IF hidden THEN es' = es /\ link' = link
                    ELSE es' = "connecting" /\ link' = Asking(polls[s].cursor)
      BY <2>5 DEF TakePoll, Ignored, Reconnects
    <3>2. hidden => es' = "none"
      BY <3>1 DEF PageInv, HiddenIsShut
    <3>3. link'.frames = <<>>
      BY <1>2, <3>1, <3>2 DEF Asking
    <3> QED
      BY <1>2, <3>3
  <2>6. CASE Streaming /\ ~OnMessage
    <3>1. told' = told
      BY <2>6 DEF Streaming, AcceptStream, RefuseStream, ReadLog, WriteFrame, OnOpen, OnError, heard
    <3> QED
      BY <2>2, <2>3, <2>4, <2>6, <3>1, StreamBrings DEF Streaming
  <2>7. CASE Polling
    <3>1. PICK s \in Slots : \/ SendPoll(s) \/ ResumePoll(s) \/ AnswerPoll(s)
                             \/ DropPoll(s) \/ TakePoll(s) \/ FailPoll(s) \/ RefusedPoll(s)
      BY <2>7 DEF Polling
    <3>2. CASE ResumePoll(s) \/ AnswerPoll(s)
      BY <1>2, <2>a, <3>2 DEF ResumePoll, AnswerPoll, page, heard
    <3>3. CASE SendPoll(s) \/ DropPoll(s) \/ FailPoll(s) \/ RefusedPoll(s)
      <4>1. told' = told
        BY <3>3 DEF SendPoll, DropPoll, FailPoll, RefusedPoll, heard
      <4> QED
        BY <2>4, <3>3, <4>1, PollBrings
    <3> QED
      BY <2>5, <3>1, <3>2, <3>3
  <2>8. CASE Around
    <3>1. told' = told
      BY <2>8 DEF Around, Emit, Stop, Start, Lose, Hide, Show, heard
    <3> QED
      BY <2>4, <2>8, <3>1, AroundBrings
  <2>9. CASE UNCHANGED vars
    BY <1>2, <2>9, <2>a DEF vars
  <2> QED
    BY <2>1, <2>6, <2>7, <2>8, <2>9 DEF Next
<1> QED
  BY <1>1, <1>2 DEF TellsOK, NoLater

LEMMA NextKnown ==
  ASSUME TypeOK, TypeOK', PageInv, FeedInv, JumpInv, KnownInv, [Next]_vars
  PROVE  KnownInv'
<1>1. ASSUME NEW s \in Slots, polls'[s].fresh PROVE Covered(polls[s].since)'
  <2>1. CASE polls[s].fresh /\ polls'[s].since = polls[s].since
    <3>1. /\ polls[s].since \in Cursor /\ NoLater(polls[s].since, Latest)
          /\ Covered(polls[s].since)
      BY <2>1 DEF TypeOK, Poll, FeedInv, AnswerOK, KnownInv
    <3>2. \A e \in Emitted' : NoLater(e, polls[s].since) => Known(e)'
      BY <3>1, CoveredStays
    <3> QED
      BY <2>1, <3>2 DEF Covered, NoLater
  <2>2. CASE polls'[s].since = cursor /\ cursor' = cursor
    BY <2>2, CursorCovered DEF Covered, NoLater
  <2> QED
    BY <1>1, <2>1, <2>2, PollsFrom
<1> QED
  BY <1>1, CursorCovered, TellsStay DEF KnownInv

\* Whatever is lost, restarted or hidden, and with any number of polls in flight,
\* a page misses no event but what a reset passed or the log has trimmed
\* (events.go's resume and after, live.js's poll and onmessage).
THEOREM GapsKnown == Spec => []GapsAreKnown
<1>1. KnownInv => GapsAreKnown
  BY DEF KnownInv, Covered, Known, GapsAreKnown, Gap, Unheard
<1>2. /\ TypeOK /\ PageInv /\ FeedInv /\ JumpInv /\ KnownInv /\ [Next]_vars
        => KnownInv'
  BY NextType, NextKnown
<1> QED
  BY <1>1, <1>2, InitKnown, JumpHolds, PTL DEF Spec

--------------------------------------------------------------------------------
(* The page's feed implements Feed.                                          *)

LEMMA SameSets == Promised!Cursor = Cursor /\ Promised!Events = Events
BY DEF Promised!Cursor, Promised!Events, Promised!Boots, Cursor, Events, Boots, Counts

\* A page that goes on in its log is given what is next and not trimmed, and for
\* the first time.
LEMMA GoesOn ==
  ASSUME TypeOK, HeardOK, NEW c \in Cursor, NEW m \in Nat, c[1] = cursor[1],
         cursor[2] <= m, m <= c[2], m = cursor[2] \/ m <= made[cursor[1]] - Keep,
         Real(c), cursor' = c, Deliver(Between(m, c)), UNCHANGED <<boot, made, told>>
  PROVE  Promised!Kept
<1> DEFINE n == c[2]
           given == {<<cursor[1], k>> : k \in (m + 1)..n}
<1>1. /\ cursor[1] \in Boots /\ cursor[2] \in Nat /\ n \in 0..MaxEvents /\ n \in Nat
      /\ cursor \in Cursor /\ c = <<cursor[1], n>>
  BY CursorsAre DEF Cursor, TypeOK, Counts
<1>2. given = Between(m, c) /\ m \in 0..MaxEvents
  BY <1>1, BoundsAssumption DEF Between
<1>3. ASSUME NEW e \in given PROVE e \in Events /\ times[e] = 0
  <2>1. PICK k \in (m + 1)..n : e = <<cursor[1], k>>
    OBVIOUS
  <2>2. k \in 1..MaxEvents /\ k > cursor[2]
    BY <1>1, BoundsAssumption
  <2>3. e \in Events
    BY <1>1, <2>1, <2>2 DEF Events
  <2>4. ~NoLater(e, cursor)
    <3>1. e[1] = cursor[1] /\ e[2] = k /\ cursor[1] \in Nat
      BY <1>1, <2>1, CursorsAre
    <3> QED
      BY <1>1, <2>2, <3>1 DEF NoLater
  <2>5. times[e] \in 0..2
    BY <2>3 DEF TypeOK
  <2>6. ~(times[e] > 0)
    BY <2>3, <2>4 DEF HeardOK
  <2> QED
    BY <2>3, <2>5, <2>6
<1> HIDE DEF given, n
<1>4. times' = [e \in Promised!Events |-> IF e \in given THEN 1 ELSE times[e]]
  <2>1. \A e \in Events : (IF e \in given /\ times[e] < 2 THEN times[e] + 1 ELSE times[e])
                            = IF e \in given THEN 1 ELSE times[e]
    BY <1>3
  <2> QED
    BY <1>2, <2>1, SameSets DEF Deliver
<1>5. Promised!Hear(m, n)
  <2>1. m <= n /\ n <= made[cursor[1]] /\ cursor' = <<cursor[1], n>>
    BY <1>1 DEF n, Real
  <2>2. \A e \in given : times[e] = 0
    BY <1>3
  <2> QED
    BY <1>4, <2>1, <2>2 DEF Promised!Hear, Promised!log, given
<1> QED
  BY <1>1, <1>2, <1>5 DEF Promised!Kept

\* A page that jumps could not go on.
LEMMA JumpsBeyond ==
  ASSUME TypeOK, NEW c \in Cursor, NoLater(c, Latest), Real(c), Past(cursor, c)
  PROVE  Promised!Beyond(c)
<1>1. c[1] <= boot
  BY NumbersAre, CursorsAre DEF NoLater, Latest
<1> QED
  BY <1>1 DEF Promised!Beyond, Real, Past

LEMMA MessagePromised ==
  ASSUME TypeOK, FeedInv, JumpInv, ~crossed, OnMessage
  PROVE  Promised!Kept
<1>1. PICK frame \in Frame :
        /\ link.frames # <<>> /\ frame = link.frames[1] /\ cursor' = frame.at
        /\ NoLater(frame.at, Latest)
        /\ \/ frame.reset /\ told' = frame.at /\ times' = times
           \/ /\ ~frame.reset /\ told' = told /\ Deliver({frame.at})
              /\ Follows(cursor, frame.at, made)
  BY NextFrame
<1>2. UNCHANGED <<boot, made>> /\ es = "open" /\ 1 \in 1..Len(link.frames)
      /\ frame.at \in Cursor /\ cursor \in Cursor
  <2>1. link.frames \in Seq(Frame)
    BY NumbersAre
  <2>2. UNCHANGED <<boot, made>> /\ es = "open"
    BY DEF OnMessage, serve
  <2>3. 1 \in 1..Len(link.frames)
    <3>1. Len(link.frames) \in Nat /\ Len(link.frames) # 0
      BY <1>1, <2>1
    <3> QED
      BY <3>1
  <2>4. frame.at \in Cursor /\ cursor \in Cursor
    BY DEF Frame, TypeOK
  <2> QED
    BY <2>2, <2>3, <2>4
<1>3. Real(frame.at)
  BY <1>1, <1>2 DEF JumpInv, PlacesOK
<1>4. CASE frame.reset /\ told' = frame.at /\ times' = times
  <2>1. Past(cursor, frame.at)
    BY <1>1, <1>2, <1>4 DEF JumpInv, ResetsOK
  <2>2. Promised!Beyond(frame.at)
    BY <1>1, <1>2, <1>3, <2>1, JumpsBeyond
  <2> QED
    BY <1>1, <1>2, <1>4, <2>2, SameSets DEF Promised!Kept, Promised!Reset, Promised!log
<1>5. CASE told' = told /\ Deliver({frame.at}) /\ Follows(cursor, frame.at, made)
  <2> DEFINE m == frame.at[2] - 1
  <2>1. /\ frame.at[1] = cursor[1] /\ cursor[2] < frame.at[2]
        /\ frame.at[2] = cursor[2] + 1 \/ m <= made[cursor[1]] - Keep
        /\ cursor[2] \in Nat /\ frame.at[2] \in Nat /\ frame.at = <<frame.at[1], frame.at[2]>>
    BY <1>2, <1>5, CursorsAre DEF Follows
  <2>2. /\ m \in Nat /\ cursor[2] <= m /\ m <= frame.at[2] /\ m + 1 = frame.at[2]
        /\ m = cursor[2] \/ m <= made[cursor[1]] - Keep
    BY <2>1
  <2> HIDE DEF m
  <2>3. Between(m, frame.at) = {frame.at}
    <3>1. (m + 1)..frame.at[2] = {frame.at[2]}
      BY <2>1, <2>2
    <3> QED
      BY <2>1, <3>1 DEF Between
  <2>4. Deliver(Between(m, frame.at)) /\ UNCHANGED <<boot, made, told>>
    BY <1>2, <1>5, <2>3
  <2>5. HeardOK
    BY DEF FeedInv
  <2> QED
    BY <1>1, <1>2, <1>3, <2>1, <2>2, <2>4, <2>5, GoesOn
<1> QED
  BY <1>1, <1>4, <1>5

LEMMA TakePromised ==
  ASSUME TypeOK, FeedInv, JumpInv, NEW s \in Slots, TakePoll(s), ~crossed'
  PROVE  Promised!Kept
<1> DEFINE c == polls[s].cursor
           m == polls[s].after
<1>1. /\ UNCHANGED <<boot, made, told>> /\ cursor' = c
      /\ polls[s].answer \in {"events", "reset"} /\ cursor \in Cursor
      /\ Deliver(Between(m, c)) /\ polls[s].since = cursor /\ ~crossed
  BY DEF TakePoll, serve, TypeOK
<1>2. /\ polls[s].fresh /\ c \in Cursor /\ NoLater(cursor, c) /\ NoLater(c, Latest) /\ m \in Nat
      /\ \/ polls[s].answer = "reset" /\ Between(m, c) = {}
         \/ /\ polls[s].answer = "events" /\ c[1] = cursor[1] /\ cursor[2] <= m /\ m <= c[2]
            /\ m = cursor[2] \/ m <= made[cursor[1]] - Keep
  BY <1>1, PollsEvents
<1>3. Real(c) /\ (polls[s].answer = "reset" => Past(cursor, c))
  BY <1>1, <1>2 DEF JumpInv, PlacesOK, ResetsOK
<1> HIDE DEF c, m
<1>4. CASE polls[s].answer = "reset" /\ Between(m, c) = {}
  <2>1. times' = times
    BY <1>1, <1>4 DEF Deliver, TypeOK
  <2>2. Promised!Beyond(c)
    BY <1>2, <1>3, <1>4, JumpsBeyond
  <2> QED
    BY <1>1, <1>2, <2>1, <2>2, SameSets DEF Promised!Kept, Promised!Miss, Promised!log
<1>5. CASE /\ c[1] = cursor[1] /\ cursor[2] <= m /\ m <= c[2]
           /\ m = cursor[2] \/ m <= made[cursor[1]] - Keep
  <2>1. HeardOK
    BY <1>1 DEF FeedInv
  <2> QED
    BY <1>1, <1>2, <1>3, <1>5, <2>1, GoesOn
<1> QED
  BY <1>2, <1>4, <1>5

\* The other steps are the log's, or the transport's own.
LEMMA OthersPromised ==
  ASSUME TypeOK, [Next]_vars, UNCHANGED <<times, cursor, told, crossed>>
  PROVE  Promised!Kept \/ UNCHANGED Promised!vars
<1>1. CASE Emit
  BY <1>1 DEF Emit, Promised!Kept, Promised!Emit, page, heard
<1>2. CASE Start
  BY <1>2 DEF Start, Promised!Kept, Promised!NewServe, page, heard
<1>3. CASE ~Emit /\ ~Start
  <2>1. UNCHANGED <<boot, made>>
    BY <1>3 DEF Next, Streaming, AcceptStream, RefuseStream, ReadLog, WriteFrame, OnOpen,
       OnMessage, OnError, Polling, SendPoll, ResumePoll, AnswerPoll, DropPoll, TakePoll, FailPoll,
       RefusedPoll, Around, Stop, Lose, Hide, Show, serve, vars
  <2> QED
    BY <2>1 DEF Promised!vars
<1> QED
  BY <1>1, <1>2, <1>3

\* Until a page takes an answer it asked for from another place: through every
\* stream replaced, poll dropped, serve restarted, tab hidden and connection lost
\* it is given the log's events one after the other, each once and none that was
\* not emitted, but for those trimmed while it was answered; and it is told to load
\* again, or jumps without, only from where no log could have gone on (events.go's
\* resume, after and latest; live.js's onmessage and poll).
THEOREM FeedImplemented == Spec => ImplementsFeed
<1>1. Init => Promised!Init
  BY SameSets DEF Init, Promised!Init, Promised!Boots, Boots
<1>2. TypeOK /\ TypeOK' /\ PageInv /\ FeedInv /\ JumpInv /\ [Next]_vars
        => [Promised!Next]_(Promised!vars)
  <2> SUFFICES ASSUME TypeOK, TypeOK', PageInv, FeedInv, JumpInv, [Next]_vars
               PROVE  [Promised!Next]_(Promised!vars)
    OBVIOUS
  <2>1. CASE crossed'
    BY <2>1 DEF Promised!Next
  <2>2. CASE ~crossed'
    <3>1. ~crossed /\ crossed' = crossed
      <4>1. crossed \in BOOLEAN /\ crossed' \in BOOLEAN
        BY DEF TypeOK
      <4>2. crossed' = crossed \/ \E s \in Slots : TakePoll(s)
        BY WhoDelivers DEF OnMessage
      <4>3. ASSUME NEW s \in Slots, TakePoll(s) PROVE ~crossed
        BY <2>2, <4>3 DEF TakePoll
      <4> QED
        BY <2>2, <4>1, <4>2, <4>3
    <3>2. Promised!Kept \/ UNCHANGED Promised!vars
      <4>1. CASE OnMessage
        BY <3>1, <4>1, MessagePromised
      <4>2. ASSUME NEW s \in Slots, TakePoll(s) PROVE Promised!Kept
        BY <2>2, <4>2, TakePromised
      <4>3. CASE UNCHANGED <<times, cursor, told, jumped, crossed>>
        BY <4>3, OthersPromised
      <4> QED
        BY <4>1, <4>2, <4>3, WhoDelivers
    <3> QED
      BY <3>1, <3>2 DEF Promised!Next
  <2> QED
    BY <2>1, <2>2
<1>3. TypeOK /\ [Next]_vars => TypeOK'
  BY NextType
<1> QED
  BY <1>1, <1>2, <1>3, JumpHolds, PTL DEF Spec, ImplementsFeed, Promised!Spec
===============================================================================
