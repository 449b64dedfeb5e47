------------------------------ MODULE AgentsProofs ------------------------------
(***************************************************************************)
(* Proofs about Agents for any number of Sends, turns, serves, starts and  *)
(* failures, and queues of any size.  Both harnesses hand reports over in  *)
(* order, so the argument is the same for both: what is in the line of     *)
(* reports is true of the agent, and no turn end in it comes after a Send  *)
(* that landed in the turn that still runs.  What differs is how a Send    *)
(* gets to the agent, at most once by either.                              *)
(***************************************************************************)
EXTENDS Agents, SequenceTheorems, TLAPS

--------------------------------------------------------------------------------
(* Lines of reports.                                                        *)

\* A report that a Send is in the agent's turn is made once it is.
Honest(tr, r) == r.event = "landed" => tr[r.of] \in {"running", "over"}

\* It tells of a Send in the turn that runs.
OfThisTurn(tr, r) == r.event = "landed" /\ tr[r.of] = "running"

\* It is of one of the three kinds, and of a Send.
SpeaksOf(D, r) == r.event = "turn_ended" \/ (r.event \in {"held", "landed"} /\ r.of \in D)

AllHonest(tr, s) == \A i \in 1..Len(s) : Honest(tr, s[i])
NoneOfThisTurn(tr, s) == \A i \in 1..Len(s) : ~OfThisTurn(tr, s[i])
NoEnd(s) == \A i \in 1..Len(s) : s[i].event # "turn_ended"
EndsFirst(tr, s) ==
  \A i, j \in 1..Len(s) : i < j /\ OfThisTurn(tr, s[i]) => s[j].event # "turn_ended"

LEMMA AppendAt ==
  ASSUME NEW S, NEW s \in Seq(S), NEW x \in S
  PROVE  /\ Append(s, x) \in Seq(S) /\ Len(Append(s, x)) = Len(s) + 1
         /\ \A i \in 1..Len(s) : Append(s, x)[i] = s[i]
         /\ Append(s, x)[Len(s) + 1] = x /\ Len(s) \in Nat
  OBVIOUS

LEMMA TailAt ==
  ASSUME NEW S, NEW s \in Seq(S), s # <<>>
  PROVE  /\ Tail(s) \in Seq(S) /\ Len(Tail(s)) = Len(s) - 1 /\ Len(s) \in Nat \ {0}
         /\ \A i \in 1..(Len(s) - 1) : Tail(s)[i] = s[i + 1]
         /\ Head(s) = s[1] /\ Head(s) \in S
  OBVIOUS

\* One more report at the end of a line.
LEMMA AppendKeeps ==
  ASSUME NEW S, NEW s \in Seq(S), NEW r \in S, NEW tr
  PROVE  LET t == Append(s, r)
         IN /\ AllHonest(tr, s) /\ Honest(tr, r) => AllHonest(tr, t)
            /\ NoneOfThisTurn(tr, s) /\ ~OfThisTurn(tr, r) => NoneOfThisTurn(tr, t)
            /\ NoEnd(s) /\ r.event # "turn_ended" => NoEnd(t)
            /\ EndsFirst(tr, s) /\ (r.event # "turn_ended" \/ NoneOfThisTurn(tr, s))
                 => EndsFirst(tr, t)
<1> DEFINE t == Append(s, r)
<1>1. /\ Len(t) = Len(s) + 1 /\ Len(s) \in Nat /\ t[Len(s) + 1] = r
      /\ \A i \in 1..Len(s) : t[i] = s[i]
  BY AppendAt
<1> HIDE DEF t
<1>2. \A i \in 1..Len(t) : i \in 1..Len(s) \/ i = Len(s) + 1
  BY <1>1
<1>3. \A i, j \in 1..Len(t) : i < j => i \in 1..Len(s)
  BY <1>1
<1>4. AllHonest(tr, s) /\ Honest(tr, r) => AllHonest(tr, t)
  BY <1>1, <1>2 DEF AllHonest
<1>5. NoneOfThisTurn(tr, s) /\ ~OfThisTurn(tr, r) => NoneOfThisTurn(tr, t)
  BY <1>1, <1>2 DEF NoneOfThisTurn
<1>6. NoEnd(s) /\ r.event # "turn_ended" => NoEnd(t)
  BY <1>1, <1>2 DEF NoEnd
<1>7. EndsFirst(tr, s) /\ (r.event # "turn_ended" \/ NoneOfThisTurn(tr, s)) => EndsFirst(tr, t)
  <2> SUFFICES ASSUME EndsFirst(tr, s), r.event # "turn_ended" \/ NoneOfThisTurn(tr, s),
                      NEW i \in 1..Len(t), NEW j \in 1..Len(t), i < j, OfThisTurn(tr, t[i])
               PROVE  t[j].event # "turn_ended"
    BY DEF EndsFirst
  <2>1. i \in 1..Len(s) /\ OfThisTurn(tr, s[i])
    BY <1>1, <1>3
  <2>2. CASE j \in 1..Len(s)
    BY <1>1, <2>1, <2>2 DEF EndsFirst
  <2>3. CASE j = Len(s) + 1
    BY <1>1, <2>1, <2>3 DEF NoneOfThisTurn
  <2> QED
    BY <1>2, <2>2, <2>3
<1> QED
  BY <1>4, <1>5, <1>6, <1>7 DEF t

\* A line without its first report, and what that one was.
LEMMA TailKeeps ==
  ASSUME NEW S, NEW s \in Seq(S), s # <<>>, NEW tr
  PROVE  LET t == Tail(s)
         IN /\ AllHonest(tr, s) => AllHonest(tr, t) /\ Honest(tr, Head(s))
            /\ NoneOfThisTurn(tr, s) => NoneOfThisTurn(tr, t) /\ ~OfThisTurn(tr, Head(s))
            /\ NoEnd(s) => NoEnd(t) /\ Head(s).event # "turn_ended"
            /\ EndsFirst(tr, s) => EndsFirst(tr, t) /\ (OfThisTurn(tr, Head(s)) => NoEnd(t))
<1> DEFINE t == Tail(s)
<1>1. /\ Len(t) = Len(s) - 1 /\ Len(s) \in Nat \ {0}
      /\ \A i \in 1..(Len(s) - 1) : t[i] = s[i + 1]
      /\ Head(s) = s[1]
  BY TailAt
<1> HIDE DEF t
<1>2. 1 \in 1..Len(s) /\ \A i \in 1..Len(t) : i + 1 \in 1..Len(s) /\ t[i] = s[i + 1]
  BY <1>1
<1>3. AllHonest(tr, s) => AllHonest(tr, t) /\ Honest(tr, Head(s))
  BY <1>1, <1>2 DEF AllHonest
<1>4. NoneOfThisTurn(tr, s) => NoneOfThisTurn(tr, t) /\ ~OfThisTurn(tr, Head(s))
  BY <1>1, <1>2 DEF NoneOfThisTurn
<1>5. NoEnd(s) => NoEnd(t) /\ Head(s).event # "turn_ended"
  BY <1>1, <1>2 DEF NoEnd
<1>6. ASSUME EndsFirst(tr, s)
      PROVE  EndsFirst(tr, t) /\ (OfThisTurn(tr, Head(s)) => NoEnd(t))
  <2>1. \A i, j \in 1..Len(t) : i < j => i + 1 < j + 1
    OBVIOUS
  <2>2. \A j \in 1..Len(t) : 1 < j + 1
    BY <1>1
  <2>3. EndsFirst(tr, t)
    BY <1>2, <1>6, <2>1 DEF EndsFirst
  <2>4. OfThisTurn(tr, Head(s)) => NoEnd(t)
    BY <1>1, <1>2, <1>6, <2>2 DEF EndsFirst, NoEnd
  <2> QED
    BY <2>3, <2>4
<1> QED
  BY <1>3, <1>4, <1>5, <1>6 DEF t

\* A line while the agent goes on with what is in no report that it is running.
LEMMA LineStays ==
  ASSUME NEW D, NEW s, NEW tr, NEW tr2,
         \A i \in 1..Len(s) : s[i].event = "landed" => s[i].of \in D,
         \A d \in D : tr[d] \in {"running", "over"} => tr2[d] = tr[d],
         AllHonest(tr, s)
  PROVE  /\ AllHonest(tr2, s)
         /\ NoneOfThisTurn(tr, s) => NoneOfThisTurn(tr2, s)
         /\ EndsFirst(tr, s) => EndsFirst(tr2, s)
<1>1. \A i \in 1..Len(s) :
        Honest(tr2, s[i]) /\ (OfThisTurn(tr2, s[i]) => OfThisTurn(tr, s[i]))
  BY DEF AllHonest, Honest, OfThisTurn
<1> QED
  BY <1>1 DEF AllHonest, NoneOfThisTurn, EndsFirst

\* A line when a turn ends.
LEMMA LineAtEnd ==
  ASSUME NEW D, NEW s, NEW tr, NEW tr2,
         \A i \in 1..Len(s) : s[i].event = "landed" => s[i].of \in D,
         \A d \in D : tr2[d] # "running" /\ (tr[d] \in {"running", "over"} => tr2[d] = "over"),
         AllHonest(tr, s)
  PROVE  AllHonest(tr2, s) /\ NoneOfThisTurn(tr2, s) /\ EndsFirst(tr2, s)
<1>1. \A i \in 1..Len(s) : Honest(tr2, s[i]) /\ ~OfThisTurn(tr2, s[i])
  BY DEF AllHonest, Honest, OfThisTurn
<1> QED
  BY <1>1 DEF AllHonest, NoneOfThisTurn, EndsFirst

--------------------------------------------------------------------------------
(* pi.                                                                      *)

\* Claimed for the session, and not yet with the agent.
OnItsWay(vw, tr, d) == vw[d] \notin {"none", "waiting"} /\ tr[d] = "none"

\* A Send is on its way at one place, and in none once the agent has it.
PiOnce ==
  /\ \A d \in Pi!Sends : view[d] \in {"none", "waiting"} => truth[d] = "none"
  /\ \A i \in 1..Len(out) : OnItsWay(view, truth, out[i])
  /\ \A i, j \in 1..Len(out) : out[i] = out[j] => i = j
  /\ got # 0 => OnItsWay(view, truth, got) /\ \A i \in 1..Len(out) : out[i] # got

\* The server shows a Send as in the turn that runs.
ShownInTurn(D, vw, tr) == \E d \in D : vw[d] = "landed" /\ tr[d] = "running"

\* The line of reports is the one being posted, those queued, and those on the
\* pipe: honest, and every end in it before what landed in this turn.
PiInOrder ==
  /\ AllHonest(truth, stdin) /\ AllHonest(truth, reports) /\ Honest(truth, posting)
  /\ EndsFirst(truth, stdin) /\ EndsFirst(truth, reports)
  /\ NoneOfThisTurn(truth, reports) \/ NoEnd(stdin)
  /\ OfThisTurn(truth, posting) => NoEnd(reports) /\ NoEnd(stdin)
  /\ ShownInTurn(Pi!Sends, view, truth) =>
       NoEnd(reports) /\ NoEnd(stdin) /\ posting.event # "turn_ended"

\* An answer has a Send in it.
PiAnswered == pc = "answered" => got # 0

PiInv == Pi!ChannelTypeOK /\ PiAnswered /\ PiOnce /\ PiInOrder /\ Pi!NeverAhead

LEMMA PiConstants ==
  /\ PiSends \in Nat /\ PiTurns \in Nat /\ MaxServes \in Nat /\ MaxCalls \in Nat
  /\ OutCap \in Nat \ {0} /\ ReportCap \in Nat \ {0}
  BY AgentsAssumption DEF Pi!ChannelConstants, Pi!ReportsConstants

\* What the two kinds of rows on the pipe are.
LEMMA PiRows ==
  /\ \A r \in Pi!ReportRows : SpeaksOf(Pi!Sends, r)
  /\ \A d \in Pi!Sends : /\ Pi!Held(d) \in Pi!ReportRows /\ Pi!Landed(d) \in Pi!ReportRows
                         /\ Pi!Held(d).event = "held" /\ Pi!Landed(d).event = "landed"
                         /\ Pi!Landed(d).of = d
  /\ Pi!TurnEnded \in Pi!ReportRows /\ Pi!TurnEnded.event = "turn_ended"
  /\ Pi!ToolCall.event = "call" /\ Pi!NoReport.event = "none"
  /\ Pi!ToolCall \notin Pi!ReportRows
<1>1. \A r \in Pi!ReportRows : \/ r = Pi!TurnEnded
                             \/ \E d \in Pi!Sends : r = Pi!Landed(d) \/ r = Pi!Held(d)
  BY DEF Pi!ReportRows
<1>2. \A d \in Pi!Sends : /\ Pi!Held(d) \in Pi!ReportRows /\ Pi!Landed(d) \in Pi!ReportRows
  BY DEF Pi!ReportRows
<1>3. Pi!TurnEnded \in Pi!ReportRows
  BY DEF Pi!ReportRows
<1>4. /\ Pi!TurnEnded.event = "turn_ended"
      /\ Pi!ToolCall.event = "call" /\ Pi!NoReport.event = "none"
  BY DEF Pi!TurnEnded, Pi!ToolCall, Pi!NoReport
<1>5. \A d \in Pi!Sends :
        /\ Pi!Held(d).event = "held" /\ Pi!Landed(d).event = "landed"
        /\ Pi!Held(d).of = d /\ Pi!Landed(d).of = d
  BY DEF Pi!Landed, Pi!Held
<1>6. ASSUME NEW r \in Pi!ReportRows PROVE SpeaksOf(Pi!Sends, r)
  <2>1. CASE r = Pi!TurnEnded
    BY <1>4, <2>1 DEF SpeaksOf
  <2>2. ASSUME NEW d \in Pi!Sends, r = Pi!Landed(d) \/ r = Pi!Held(d)
        PROVE  r.event \in {"held", "landed"} /\ r.of \in Pi!Sends
    BY <1>5, <2>2
  <2> QED
    BY <1>1, <2>1, <2>2 DEF SpeaksOf
<1>7. Pi!ToolCall \notin Pi!ReportRows
  BY <1>4, <1>6 DEF SpeaksOf
<1> QED
  BY <1>2, <1>3, <1>4, <1>5, <1>6, <1>7

\* What the server makes of a report.
LEMMA PiToldIs ==
  ASSUME view \in [Pi!Sends -> Pi!Views], NEW r \in Pi!ReportRows
  PROVE  /\ Pi!Told(r) \in [Pi!Sends -> Pi!Views]
         /\ \A d \in Pi!Sends :
              \/ Pi!Told(r)[d] = view[d]
              \/ view[d] = "given" /\ Pi!Told(r)[d] = "held"
              \/ r.event = "landed" /\ r.of = d /\ view[d] \in {"given", "held"}
                 /\ Pi!Told(r)[d] = "landed"
              \/ r.event = "turn_ended" /\ view[d] = "landed" /\ Pi!Told(r)[d] = "ended"
<1>1. r.event \in {"held", "landed", "turn_ended"}
      /\ (r.event # "turn_ended" => r.of \in Pi!Sends)
  BY PiRows DEF SpeaksOf
<1>2. CASE r.event = "held"
  BY <1>1, <1>2 DEF Pi!Told, Pi!Views, Pi!Open
<1>3. CASE r.event = "landed"
  BY <1>1, <1>3 DEF Pi!Told, Pi!Views, Pi!Open
<1>4. CASE r.event = "turn_ended"
  BY <1>1, <1>4 DEF Pi!Told, Pi!Views, Pi!Open
<1> QED
  BY <1>1, <1>2, <1>3, <1>4

\* The loop and serve change nothing but their own, and what a torn poll lost.
PiQuiet ==
  \/ Pi!ServeStarts \/ Pi!ServeEnds \/ Pi!LoopTop \/ Pi!LoopLook \/ Pi!LoopPresence
  \/ Pi!LoopWait \/ Pi!Refuse \/ Pi!PollTimesOut \/ Pi!RestFindsNew \/ Pi!RestOver
  \/ Pi!Answered

\* What is written to the pipe.
LEMMA PiWrites ==
  ASSUME stdin \in Seq(Pi!ReportRows \cup {Pi!ToolCall})
  PROVE  /\ \A d \in Pi!Sends :
              /\ Append(stdin, Pi!Held(d)) \in Seq(Pi!ReportRows \cup {Pi!ToolCall})
              /\ Append(stdin, Pi!Landed(d)) \in Seq(Pi!ReportRows \cup {Pi!ToolCall})
         /\ Append(stdin, Pi!TurnEnded) \in Seq(Pi!ReportRows \cup {Pi!ToolCall})
         /\ Append(stdin, Pi!ToolCall) \in Seq(Pi!ReportRows \cup {Pi!ToolCall})
<1> DEFINE S == Pi!ReportRows \cup {Pi!ToolCall}
<1>1. \A r \in S : Append(stdin, r) \in Seq(S)
  BY AppendAt
<1>2. /\ \A d \in Pi!Sends : Pi!Held(d) \in S /\ Pi!Landed(d) \in S
      /\ Pi!TurnEnded \in S /\ Pi!ToolCall \in S
  BY PiRows
<1> HIDE DEF S
<1>3. /\ \A d \in Pi!Sends : Append(stdin, Pi!Held(d)) \in Seq(S)
                             /\ Append(stdin, Pi!Landed(d)) \in Seq(S)
      /\ Append(stdin, Pi!TurnEnded) \in Seq(S) /\ Append(stdin, Pi!ToolCall) \in Seq(S)
  BY <1>1, <1>2
<1> QED
  BY <1>3 DEF S

\* Each action keeps every variable of its kind.
LEMMA PiTypes ==
  ASSUME Pi!ChannelTypeOK, PiAnswered, Pi!Next PROVE Pi!ChannelTypeOK'
<1> USE PiConstants
<1>1. CASE PiQuiet
  <2>1. /\ UNCHANGED <<reportVars, out, stdin, reports, posting, calls>>
    BY <1>1 DEF PiQuiet, Pi!ServeStarts, Pi!ServeEnds, Pi!LoopTop, Pi!LoopLook, Pi!LoopPresence,
       Pi!LoopWait, Pi!Refuse, Pi!PollTimesOut, Pi!RestFindsNew, Pi!RestOver, Pi!Answered,
       Pi!reportVars, Pi!loopVars, Pi!serveVars, Pi!pipeVars, Pi!Forget, reportVars
  <2>10. CASE Pi!ServeStarts
    BY <2>1, <2>10 DEF Pi!ServeStarts, Pi!Go, Pi!Forget, Pi!loopVars, Pi!pipeVars, Pi!serveVars,
       Pi!ChannelTypeOK, Pi!ReportsTypeOK, reportVars
  <2>11. CASE Pi!ServeEnds
    BY <2>1, <2>11 DEF Pi!ServeEnds, Pi!Go, Pi!Forget, Pi!loopVars, Pi!pipeVars, Pi!serveVars,
       Pi!ChannelTypeOK, Pi!ReportsTypeOK, reportVars
  <2>12. CASE Pi!Answered
    <3>1. calling' \in BOOLEAN
      BY <2>12 DEF Pi!Answered
    <3> QED
      BY <2>1, <2>12, <3>1 DEF Pi!Answered, Pi!Go, Pi!Forget, Pi!loopVars, Pi!pipeVars,
         Pi!serveVars, Pi!ChannelTypeOK, Pi!ReportsTypeOK, reportVars
  <2>13. CASE Pi!LoopTop
    BY <2>1, <2>13 DEF Pi!LoopTop, Pi!Go, Pi!Forget, Pi!loopVars, Pi!pipeVars, Pi!serveVars,
       Pi!ChannelTypeOK, Pi!ReportsTypeOK, reportVars
  <2>14. CASE Pi!LoopLook
    BY <2>1, <2>14 DEF Pi!LoopLook, Pi!Go, Pi!Forget, Pi!loopVars, Pi!pipeVars, Pi!serveVars,
       Pi!ChannelTypeOK, Pi!ReportsTypeOK, reportVars
  <2>15. CASE Pi!LoopWait
    BY <2>1, <2>15 DEF Pi!LoopWait, Pi!Go, Pi!Forget, Pi!loopVars, Pi!pipeVars, Pi!serveVars,
       Pi!ChannelTypeOK, Pi!ReportsTypeOK, reportVars
  <2>16. CASE Pi!Refuse
    <3>1. fresh' \in BOOLEAN
      BY <2>16 DEF Pi!Refuse
    <3> QED
      BY <2>1, <2>16, <3>1 DEF Pi!Refuse, Pi!Go, Pi!Forget, Pi!loopVars, Pi!pipeVars,
         Pi!serveVars, Pi!ChannelTypeOK, Pi!ReportsTypeOK, reportVars
  <2>17. CASE Pi!PollTimesOut
    BY <2>1, <2>17 DEF Pi!PollTimesOut, Pi!Go, Pi!Forget, Pi!loopVars, Pi!pipeVars, Pi!serveVars,
       Pi!ChannelTypeOK, Pi!ReportsTypeOK, reportVars
  <2>18. CASE Pi!RestFindsNew
    <3>1. fresh' \in BOOLEAN
      BY <2>18 DEF Pi!RestFindsNew
    <3> QED
      BY <2>1, <2>18, <3>1 DEF Pi!RestFindsNew, Pi!Go, Pi!Forget, Pi!loopVars, Pi!pipeVars,
         Pi!serveVars, Pi!ChannelTypeOK, Pi!ReportsTypeOK, reportVars
  <2>19. CASE Pi!RestOver
    BY <2>1, <2>19 DEF Pi!RestOver, Pi!Go, Pi!Forget, Pi!loopVars, Pi!pipeVars, Pi!serveVars,
       Pi!ChannelTypeOK, Pi!ReportsTypeOK, reportVars
  <2>5. CASE Pi!LoopPresence
    <3>1. serve # 0 => serve \in Pi!Serves
      BY DEF Pi!ChannelTypeOK, Pi!Serves
    <3>2. known' \subseteq Pi!Serves
      BY <2>5, <3>1 DEF Pi!LoopPresence, Pi!ChannelTypeOK
    <3> QED
      BY <2>1, <2>5, <3>2 DEF Pi!LoopPresence, Pi!Go, Pi!ChannelTypeOK, Pi!ReportsTypeOK,
         Pi!pipeVars, reportVars
  <2> QED
    BY <1>1, <2>5, <2>10, <2>11, <2>12, <2>13, <2>14, <2>15, <2>16, <2>17, <2>18, <2>19
       DEF PiQuiet
<1>2. ASSUME NEW d \in Pi!Sends, Pi!Post(d) \/ Pi!Taken(d) \/ Pi!Answer(d)
      PROVE  Pi!ChannelTypeOK'
  <2>1. view' \in [Pi!Sends -> Pi!Views]
    BY <1>2 DEF Pi!Post, Pi!Taken, Pi!TakenAway, Pi!Answer, Pi!Posted, Pi!ClaimNext, Pi!ChannelTypeOK,
       Pi!ReportsTypeOK, Pi!Views, Pi!Open
  <2>2. pc' \in {"top", "look", "presence", "wait", "waiting", "answered", "rest"}
        /\ got' \in 0..PiSends
    BY <1>2 DEF Pi!Post, Pi!Taken, Pi!Answer, Pi!Go, Pi!ChannelTypeOK, Pi!Sends, Pi!channelVars, Pi!loopVars
  <2> QED
    BY <1>2, <2>1, <2>2 DEF Pi!Post, Pi!Taken, Pi!Answer, Pi!ChannelTypeOK, Pi!ReportsTypeOK,
       Pi!channelVars, Pi!serveVars, Pi!loopVars, Pi!pipeVars
<1>3. CASE Pi!Torn \/ Pi!Discard
  <2>1. /\ UNCHANGED <<view, truth, turn, turns, Pi!serveVars, seen, out, Pi!pipeVars>>
        /\ at' \in 0..MaxServes /\ fresh' \in BOOLEAN /\ polled' = 0 /\ got' = 0
        /\ pc' \in {"top", "rest"}
    BY <1>3, PiConstants DEF Pi!Torn, Pi!Discard, Pi!Go, Pi!Forget, Pi!ChannelTypeOK
  <2>2. lost' \in BOOLEAN
    BY <1>3 DEF Pi!Torn, Pi!Discard
  <2> QED
    BY <2>1, <2>2, PiConstants DEF Pi!ChannelTypeOK, Pi!ReportsTypeOK, Pi!serveVars, Pi!pipeVars
<1>4. CASE Pi!Notify
  <2>1. got \in Pi!Sends
    BY <1>4 DEF Pi!ChannelTypeOK, Pi!Sends, Pi!Notify, PiAnswered
  <2>2. out' \in Seq(Pi!Sends) /\ Len(out') <= OutCap
    BY <1>4, <2>1, PiConstants, AppendAt DEF Pi!Notify, Pi!ChannelTypeOK
  <2> QED
    BY <1>4, <2>2, PiConstants DEF Pi!Notify, Pi!Go, Pi!Forget, Pi!ChannelTypeOK,
       Pi!ReportsTypeOK, Pi!serveVars, Pi!pipeVars, Pi!reportVars
<1>5. CASE Pi!Emit
  <2>1. /\ out' \in Seq(Pi!Sends) /\ Len(out') <= OutCap /\ Head(out) \in Pi!Sends
    BY <1>5, TailAt, PiConstants DEF Pi!Emit, Pi!ChannelTypeOK
  <2>2. stdin' \in Seq(Pi!ReportRows \cup {Pi!ToolCall})
    BY <1>5, <2>1, PiWrites DEF Pi!Emit, Pi!Write, Pi!ChannelTypeOK
  <2>3. truth' \in [Pi!Sends -> Pi!Truths]
    BY <1>5, <2>1 DEF Pi!Emit, Pi!ChannelTypeOK, Pi!ReportsTypeOK, Pi!Truths
  <2> QED
    BY <1>5, <2>1, <2>2, <2>3 DEF Pi!Emit, Pi!ChannelTypeOK, Pi!ReportsTypeOK, Pi!serveVars,
       Pi!loopVars
<1>6. CASE Pi!TurnStarts
  <2>1. stdin' \in Seq(Pi!ReportRows \cup {Pi!ToolCall})
    BY <1>6, PiWrites DEF Pi!TurnStarts, Pi!Queued, Pi!Write, Pi!ChannelTypeOK
  <2>2. truth' \in [Pi!Sends -> Pi!Truths]
    BY <1>6 DEF Pi!TurnStarts, Pi!ChannelTypeOK, Pi!ReportsTypeOK, Pi!Truths
  <2> QED
    BY <1>6, <2>1, <2>2, PiConstants DEF Pi!TurnStarts, Pi!ChannelTypeOK, Pi!ReportsTypeOK,
       Pi!serveVars, Pi!loopVars
<1>7. CASE Pi!TurnEnds \/ Pi!CallsTool
  <2>1. stdin' \in Seq(Pi!ReportRows \cup {Pi!ToolCall})
    BY <1>7, PiWrites DEF Pi!TurnEnds, Pi!CallsTool, Pi!Write, Pi!ChannelTypeOK
  <2>2. truth' \in [Pi!Sends -> Pi!Truths] /\ calls' \in 0..MaxCalls
    BY <1>7, PiConstants DEF Pi!TurnEnds, Pi!CallsTool, Pi!ChannelTypeOK, Pi!ReportsTypeOK,
       Pi!Truths, Pi!reportVars
  <2> QED
    BY <1>7, <2>1, <2>2 DEF Pi!TurnEnds, Pi!CallsTool, Pi!ChannelTypeOK, Pi!ReportsTypeOK,
       Pi!serveVars, Pi!loopVars, Pi!reportVars
<1>8. CASE Pi!ReadReport
  <2>1. /\ Head(stdin) \in Pi!ReportRows
        /\ stdin' \in Seq(Pi!ReportRows \cup {Pi!ToolCall})
    BY <1>8, TailAt DEF Pi!ReadReport, Pi!ChannelTypeOK
  <2>2. reports' \in Seq(Pi!ReportRows) /\ Len(reports') <= ReportCap
    BY <1>8, <2>1, AppendAt, PiConstants DEF Pi!ReadReport, Pi!Queue, Pi!ChannelTypeOK
  <2> QED
    BY <1>8, <2>1, <2>2 DEF Pi!ReadReport, Pi!ChannelTypeOK, Pi!ReportsTypeOK, Pi!serveVars,
       Pi!loopVars
<1>9. CASE Pi!ReadCall
  BY <1>9, TailAt DEF Pi!ReadCall, Pi!ChannelTypeOK, Pi!ReportsTypeOK, Pi!serveVars, Pi!loopVars,
     Pi!reportVars
<1>10. CASE Pi!Take
  BY <1>10, TailAt, PiConstants DEF Pi!Take, Pi!ChannelTypeOK, Pi!ReportsTypeOK, Pi!serveVars,
     Pi!loopVars, Pi!reportVars
<1>11. CASE Pi!PostReport
  <2>1. view' \in [Pi!Sends -> Pi!Views] /\ lost' \in BOOLEAN
    BY <1>11, PiToldIs DEF Pi!PostReport, Pi!ChannelTypeOK, Pi!ReportsTypeOK
  <2> QED
    BY <1>11, <2>1 DEF Pi!PostReport, Pi!ChannelTypeOK, Pi!ReportsTypeOK, Pi!serveVars,
       Pi!loopVars
<1> QED
  BY <1>1, <1>2, <1>3, <1>4, <1>5, <1>6, <1>7, <1>8, <1>9, <1>10, <1>11
     DEF Pi!Next, Pi!Around, Pi!Loop, PiQuiet

\* What the lines hold is of the session's Sends.
LEMMA PiLandedOf ==
  ASSUME Pi!ChannelTypeOK
  PROVE  /\ \A i \in 1..Len(stdin) : stdin[i].event = "landed" => stdin[i].of \in Pi!Sends
         /\ \A i \in 1..Len(reports) : reports[i].event = "landed" => reports[i].of \in Pi!Sends
         /\ posting.event = "landed" => posting.of \in Pi!Sends
<1>1. /\ \A i \in 1..Len(stdin) : stdin[i] \in Pi!ReportRows \cup {Pi!ToolCall}
      /\ \A i \in 1..Len(reports) : reports[i] \in Pi!ReportRows
      /\ posting \in Pi!ReportRows \cup {Pi!NoReport}
  BY DEF Pi!ChannelTypeOK
<1> QED
  BY <1>1, PiRows DEF SpeaksOf

\* What a line written to the pipe does to it.
LEMMA PiWritten ==
  ASSUME Pi!ChannelTypeOK, NEW tr, NEW r \in Pi!ReportRows \cup {Pi!ToolCall}
  PROVE  LET t == Append(stdin, r)
         IN /\ AllHonest(tr, stdin) /\ Honest(tr, r) => AllHonest(tr, t)
            /\ NoneOfThisTurn(tr, stdin) /\ ~OfThisTurn(tr, r) => NoneOfThisTurn(tr, t)
            /\ NoEnd(stdin) /\ r.event # "turn_ended" => NoEnd(t)
            /\ EndsFirst(tr, stdin) /\ (r.event # "turn_ended" \/ NoneOfThisTurn(tr, stdin))
                 => EndsFirst(tr, t)
<1>1. stdin \in Seq(Pi!ReportRows \cup {Pi!ToolCall})
  BY DEF Pi!ChannelTypeOK
<1> QED
  BY <1>1, AppendKeeps

\* What the invariant speaks of besides the queue of Sends.
PiTold == <<view, truth, stdin, reports, posting>>

LEMMA PiSame ==
  ASSUME PiInv, UNCHANGED PiTold, UNCHANGED <<out, got>>
  PROVE  PiOnce' /\ PiInOrder' /\ Pi!NeverAhead'
BY DEF PiInv, PiTold, PiOnce, OnItsWay, PiInOrder, ShownInTurn, Pi!NeverAhead, Pi!Sends,
   AllHonest, Honest, EndsFirst, NoneOfThisTurn, OfThisTurn, NoEnd

\* Only what the reports say, and the agent, move the two ends.
LEMMA PiAround ==
  ASSUME PiInv, UNCHANGED PiTold PROVE PiInOrder' /\ Pi!NeverAhead'
BY DEF PiInv, PiTold, PiInOrder, ShownInTurn, Pi!NeverAhead, Pi!Sends,
   AllHonest, Honest, EndsFirst, NoneOfThisTurn, OfThisTurn, NoEnd

\* A Send posted or claimed: in no report, and at one place.
LEMMA PiClaims ==
  ASSUME PiInv, NEW d \in Pi!Sends, Pi!Post(d) \/ Pi!Answer(d)
  PROVE  PiOnce' /\ PiInOrder' /\ Pi!NeverAhead'
<1>1. /\ UNCHANGED <<truth, out, stdin, reports, posting>>
      /\ view[d] \in {"none", "waiting"}
      /\ \/ view' = [view EXCEPT ![d] = "waiting"] /\ got' = got /\ view[d] = "none"
         \/ view' = [view EXCEPT ![d] = "given"] /\ got' = d
  BY DEF Pi!Post, Pi!Answer, Pi!Posted, Pi!ClaimNext, Pi!channelVars, Pi!serveVars, Pi!loopVars,
     Pi!pipeVars
<1>2. view \in [Pi!Sends -> Pi!Views] /\ out \in Seq(Pi!Sends) /\ got \in 0..PiSends
  BY DEF PiInv, Pi!ChannelTypeOK, Pi!ReportsTypeOK
<1>3. \A e \in Pi!Sends : view'[e] = view[e] \/ (e = d /\ view'[e] \in {"waiting", "given"})
  BY <1>1, <1>2
<1>4. \A i \in 1..Len(out) : out[i] \in Pi!Sends
  BY <1>2
<1>5. \A i \in 1..Len(out) : out[i] # d /\ view'[out[i]] = view[out[i]]
  BY <1>1, <1>3, <1>4 DEF PiInv, PiOnce, OnItsWay
<1>6. truth[d] = "none" /\ d # 0
  BY <1>1 DEF PiInv, PiOnce, Pi!Sends
<1>7. got' # 0 => OnItsWay(view', truth', got') /\ \A i \in 1..Len(out') : out'[i] # got'
  <2>1. CASE got' = d /\ view' = [view EXCEPT ![d] = "given"]
    BY <1>1, <1>2, <1>5, <1>6, <2>1 DEF OnItsWay
  <2>2. CASE got' = got /\ view[d] = "none"
    <3>1. got # 0 => got # d /\ got \in Pi!Sends
      BY <1>2, <2>2 DEF PiInv, PiOnce, OnItsWay, Pi!Sends
    <3> QED
      BY <1>1, <1>3, <2>2, <3>1 DEF PiInv, PiOnce, OnItsWay
  <2> QED
    BY <1>1, <2>1, <2>2
<1>8. PiOnce'
  <2>1. \A e \in Pi!Sends : view'[e] \in {"none", "waiting"} => truth'[e] = "none"
    BY <1>1, <1>3, <1>6 DEF PiInv, PiOnce
  <2>2. \A i \in 1..Len(out') : OnItsWay(view', truth', out'[i])
    BY <1>1, <1>5 DEF PiInv, PiOnce, OnItsWay
  <2> QED
    BY <1>1, <1>7, <2>1, <2>2 DEF PiInv, PiOnce
<1>9. ShownInTurn(Pi!Sends, view', truth') => ShownInTurn(Pi!Sends, view, truth)
  BY <1>1, <1>3 DEF ShownInTurn
<1>10. PiInOrder'
  BY <1>1, <1>9 DEF PiInv, PiInOrder, Pi!Sends
<1>11. Pi!NeverAhead'
  BY <1>1, <1>3 DEF PiInv, Pi!NeverAhead
<1> QED
  BY <1>8, <1>10, <1>11

\* Where a Send is on its way.
LEMMA PiPlaces ==
  ASSUME PiInv
  PROVE  (\A i \in 1..Len(out) : out[i] \in Pi!Sends) /\ (got # 0 => got \in Pi!Sends)
<1>1. \A i \in 1..Len(out) : out[i] \in Pi!Sends
  BY DEF PiInv, Pi!ChannelTypeOK
<1>2. got # 0 => got \in Pi!Sends
  BY PiConstants DEF PiInv, Pi!ChannelTypeOK, Pi!Sends
<1> QED
  BY <1>1, <1>2

\* A claim is taken away: nothing the reports or the agent say changes.
LEMMA PiTakenAway ==
  ASSUME PiInv, NEW d \in Pi!Sends, Pi!Taken(d)
  PROVE  PiOnce' /\ PiInOrder' /\ Pi!NeverAhead'
<1>1. UNCHANGED <<truth, out, got, stdin, reports, posting>>
  BY DEF Pi!Taken, Pi!channelVars, Pi!loopVars, Pi!pipeVars
<1>2. \A e \in Pi!Sends : view'[e] = view[e] \/ (view[e] \in Pi!Open /\ view'[e] = "taken")
  BY DEF Pi!Taken, Pi!TakenAway, PiInv, Pi!ChannelTypeOK, Pi!ReportsTypeOK
<1>3. PiOnce'
  <2>1. \A e \in Pi!Sends : OnItsWay(view, truth, e) => OnItsWay(view', truth', e)
    BY <1>1, <1>2 DEF OnItsWay
  <2>2. \A e \in Pi!Sends : view'[e] \in {"none", "waiting"} => truth'[e] = "none"
    BY <1>1, <1>2 DEF PiInv, PiOnce, Pi!Open
  <2> QED
    BY <1>1, <2>1, <2>2, PiPlaces DEF PiInv, PiOnce
<1>4. ShownInTurn(Pi!Sends, view', truth') => ShownInTurn(Pi!Sends, view, truth)
  BY <1>1, <1>2 DEF ShownInTurn
<1>5. PiInOrder' /\ Pi!NeverAhead'
  BY <1>1, <1>2, <1>4 DEF PiInv, PiInOrder, Pi!NeverAhead
<1> QED
  BY <1>3, <1>5

\* The answer goes to the queue, or is torn or dropped.
LEMMA PiMovesSend ==
  ASSUME PiInv, Pi!Torn \/ Pi!Discard \/ Pi!Notify
  PROVE  PiOnce' /\ PiInOrder' /\ Pi!NeverAhead'
<1>1. UNCHANGED PiTold /\ got' = 0
  BY DEF Pi!Torn, Pi!Discard, Pi!Notify, PiTold, Pi!reportVars, Pi!serveVars, Pi!pipeVars, Pi!Forget
<1>2. CASE Pi!Torn \/ Pi!Discard
  <2>1. out' = out
    BY <1>2 DEF Pi!Torn, Pi!Discard
  <2> QED
    BY <1>1, <2>1, PiAround DEF PiInv, PiTold, PiOnce, OnItsWay, Pi!Sends
<1>3. CASE Pi!Notify
  <2>1. got \in Pi!Sends /\ got # 0
    BY <1>3 DEF PiInv, PiAnswered, Pi!Notify, Pi!ChannelTypeOK, Pi!Sends
  <2>2. out \in Seq(Pi!Sends) /\ out' = Append(out, got)
    BY <1>3 DEF PiInv, Pi!ChannelTypeOK, Pi!Notify
  <2>3. /\ Len(out') = Len(out) + 1 /\ out'[Len(out) + 1] = got /\ Len(out) \in Nat
        /\ \A i \in 1..Len(out) : out'[i] = out[i]
    BY <2>1, <2>2, AppendAt
  <2>4. \A i \in 1..Len(out') : i \in 1..Len(out) \/ i = Len(out) + 1
    BY <2>3
  <2>5. UNCHANGED <<view, truth>>
    BY <1>1 DEF PiTold
  <2>6. \A i \in 1..Len(out') : OnItsWay(view', truth', out'[i])
    BY <2>1, <2>3, <2>4, <2>5 DEF PiInv, PiOnce
  <2>7. \A i, j \in 1..Len(out') : out'[i] = out'[j] => i = j
    BY <2>1, <2>3, <2>4 DEF PiInv, PiOnce
  <2>8. PiOnce'
    BY <1>1, <2>5, <2>6, <2>7 DEF PiInv, PiOnce
  <2> QED
    BY <1>1, <2>8, PiAround
<1> QED
  BY <1>2, <1>3

\* The lines while the agent goes on with what is running.
LEMMA PiLinesStay ==
  ASSUME PiInv, NEW tr, \A d \in Pi!Sends : truth[d] \in {"running", "over"} => tr[d] = truth[d]
  PROVE  /\ AllHonest(tr, stdin) /\ AllHonest(tr, reports) /\ Honest(tr, posting)
         /\ EndsFirst(tr, stdin) /\ EndsFirst(tr, reports)
         /\ NoneOfThisTurn(tr, reports) \/ NoEnd(stdin)
         /\ OfThisTurn(tr, posting) => NoEnd(reports) /\ NoEnd(stdin)
         /\ ShownInTurn(Pi!Sends, view, tr) =>
              NoEnd(reports) /\ NoEnd(stdin) /\ posting.event # "turn_ended"
<1>1. /\ \A i \in 1..Len(stdin) : stdin[i].event = "landed" => stdin[i].of \in Pi!Sends
      /\ \A i \in 1..Len(reports) : reports[i].event = "landed" => reports[i].of \in Pi!Sends
      /\ posting.event = "landed" => posting.of \in Pi!Sends
  BY PiLandedOf DEF PiInv
<1>2. AllHonest(tr, stdin) /\ EndsFirst(tr, stdin)
  BY <1>1, LineStays DEF PiInv, PiInOrder
<1>3. /\ AllHonest(tr, reports) /\ EndsFirst(tr, reports)
      /\ NoneOfThisTurn(truth, reports) => NoneOfThisTurn(tr, reports)
  BY <1>1, LineStays DEF PiInv, PiInOrder
<1>4. Honest(tr, posting) /\ (OfThisTurn(tr, posting) => OfThisTurn(truth, posting))
  BY <1>1 DEF PiInv, PiInOrder, Honest, OfThisTurn
<1>5. ShownInTurn(Pi!Sends, view, tr) => ShownInTurn(Pi!Sends, view, truth)
  BY DEF ShownInTurn, PiInv, Pi!NeverAhead
<1> QED
  BY <1>2, <1>3, <1>4, <1>5 DEF PiInv, PiInOrder

\* The emitter's line reaches pi.
LEMMA PiEmits ==
  ASSUME PiInv, Pi!Emit PROVE PiOnce' /\ PiInOrder' /\ Pi!NeverAhead'
<1> DEFINE d == Head(out)
<1>1. /\ out \in Seq(Pi!Sends) /\ out # <<>> /\ out' = Tail(out)
      /\ truth \in [Pi!Sends -> Pi!Truths]
      /\ truth' = [truth EXCEPT ![d] = "queued"]
      /\ UNCHANGED <<view, got, reports, posting>>
      /\ stdin' = stdin \/ stdin' = Append(stdin, Pi!Held(d))
  BY DEF Pi!Emit, Pi!Write, PiInv, Pi!ChannelTypeOK, Pi!ReportsTypeOK, Pi!loopVars
<1>2. /\ Len(out') = Len(out) - 1 /\ Len(out) \in Nat \ {0} /\ d = out[1] /\ d \in Pi!Sends
      /\ \A i \in 1..(Len(out) - 1) : out'[i] = out[i + 1]
  BY <1>1, TailAt
<1>3. OnItsWay(view, truth, d) /\ (got # 0 => got # d)
  BY <1>2 DEF PiInv, PiOnce
<1>4. \A i \in 1..Len(out') : i + 1 \in 1..Len(out) /\ i + 1 # 1 /\ out'[i] = out[i + 1]
  BY <1>2
<1>5. \A i \in 1..Len(out') : out'[i] # d /\ out'[i] \in Pi!Sends
  <2>1. 1 \in 1..Len(out) /\ \A i \in 1..Len(out) : out[i] \in Pi!Sends
    BY <1>1, <1>2
  <2>2. \A i, j \in 1..Len(out) : out[i] = out[j] => i = j
    BY DEF PiInv, PiOnce
  <2> SUFFICES ASSUME NEW i \in 1..Len(out') PROVE out'[i] # out[1] /\ out'[i] \in Pi!Sends
    BY <1>2
  <2>3. i + 1 \in 1..Len(out) /\ i + 1 # 1 /\ out'[i] = out[i + 1]
    BY <1>4
  <2> QED
    BY <2>1, <2>2, <2>3
<1>6. \A e \in Pi!Sends : e # d => truth'[e] = truth[e]
  BY <1>1
<1>7. truth'[d] = "queued"
  BY <1>1, <1>2
<1> HIDE DEF d
<1>8. PiOnce'
  <2>1. \A e \in Pi!Sends : view'[e] \in {"none", "waiting"} => truth'[e] = "none"
    BY <1>1, <1>3, <1>6 DEF PiInv, PiOnce, OnItsWay
  <2>2. \A i \in 1..Len(out') : OnItsWay(view', truth', out'[i])
    BY <1>1, <1>4, <1>5, <1>6 DEF PiInv, PiOnce, OnItsWay
  <2>3. \A i, j \in 1..Len(out') : out'[i] = out'[j] => i = j
    <3> SUFFICES ASSUME NEW i \in 1..Len(out'), NEW j \in 1..Len(out'), out'[i] = out'[j]
                 PROVE  i = j
      OBVIOUS
    <3>1. i + 1 = j + 1
      BY <1>4 DEF PiInv, PiOnce
    <3> QED
      BY <3>1
  <2>4. got' # 0 => OnItsWay(view', truth', got') /\ \A i \in 1..Len(out') : out'[i] # got'
    <3>1. got \in Pi!Sends \/ got = 0
      BY DEF PiInv, Pi!ChannelTypeOK, Pi!Sends
    <3> QED
      BY <1>1, <1>3, <1>4, <1>6, <3>1 DEF PiInv, PiOnce, OnItsWay
  <2> QED
    BY <2>1, <2>2, <2>3, <2>4 DEF PiOnce
<1>9. \A e \in Pi!Sends : truth[e] \in {"running", "over"} => truth'[e] = truth[e]
  BY <1>3, <1>6 DEF OnItsWay
<1>10. Pi!NeverAhead'
  BY <1>1, <1>9 DEF PiInv, Pi!NeverAhead
<1>11. /\ AllHonest(truth', stdin') /\ EndsFirst(truth', stdin') /\ (NoEnd(stdin) => NoEnd(stdin'))
  <2>1. CASE stdin' = stdin
    BY <1>9, <2>1, PiLinesStay
  <2>2. CASE stdin' = Append(stdin, Pi!Held(d))
    <3>1. Pi!Held(d) \in Pi!ReportRows /\ Pi!Held(d).event = "held"
      BY <1>2, PiRows
    <3>2. Honest(truth', Pi!Held(d))
      BY <3>1 DEF Honest
    <3>3. AllHonest(truth', stdin) /\ EndsFirst(truth', stdin)
      BY <1>9, PiLinesStay
    <3> QED
      BY <2>2, <3>1, <3>2, <3>3, PiWritten DEF PiInv
  <2> QED
    BY <1>1, <2>1, <2>2 DEF d
<1> QED
  BY <1>1, <1>8, <1>9, <1>10, <1>11, PiLinesStay DEF PiInOrder

\* The turn starts, with an event or without.
LEMMA PiTurnStarts ==
  ASSUME PiInv, Pi!TurnStarts PROVE PiOnce' /\ PiInOrder' /\ Pi!NeverAhead'
<1>1. UNCHANGED <<view, out, got, reports, posting>> /\ truth \in [Pi!Sends -> Pi!Truths]
  BY DEF Pi!TurnStarts, Pi!loopVars, PiInv, Pi!ChannelTypeOK, Pi!ReportsTypeOK
<1>2. CASE UNCHANGED <<truth, stdin>>
  BY <1>1, <1>2, PiSame DEF PiTold
<1>3. ASSUME NEW d \in Pi!Sends, truth[d] = "queued", truth' = [truth EXCEPT ![d] = "running"],
             stdin' = Append(stdin, Pi!Landed(d))
      PROVE  PiOnce' /\ PiInOrder' /\ Pi!NeverAhead'
  <2>1. truth'[d] = "running" /\ \A e \in Pi!Sends : e # d => truth'[e] = truth[e]
    BY <1>1, <1>3
  <2>2. \A e \in Pi!Sends : truth[e] \in {"running", "over"} => truth'[e] = truth[e]
    BY <1>3, <2>1
  <2>3. \A e \in Pi!Sends : truth[e] = "none" => truth'[e] = "none"
    BY <1>3, <2>1
  <2>4. PiOnce'
    <3>1. \A e \in Pi!Sends : OnItsWay(view, truth, e) => OnItsWay(view', truth', e)
      BY <1>1, <2>3 DEF OnItsWay
    <3>2. (\A i \in 1..Len(out) : out[i] \in Pi!Sends) /\ (got # 0 => got \in Pi!Sends)
      BY PiPlaces
    <3> QED
      BY <1>1, <2>3, <3>1, <3>2 DEF PiInv, PiOnce
  <2>5. Pi!NeverAhead'
    BY <1>1, <2>2 DEF PiInv, Pi!NeverAhead
  <2>6. /\ Pi!Landed(d) \in Pi!ReportRows /\ Pi!Landed(d).event = "landed"
        /\ Pi!Landed(d).of = d
    BY PiRows
  <2>7. Honest(truth', Pi!Landed(d))
    BY <2>1, <2>6 DEF Honest
  <2>8. AllHonest(truth', stdin) /\ EndsFirst(truth', stdin)
    BY <2>2, PiLinesStay
  <2>9. AllHonest(truth', stdin') /\ EndsFirst(truth', stdin') /\ (NoEnd(stdin) => NoEnd(stdin'))
    BY <1>3, <2>6, <2>7, <2>8, PiWritten DEF PiInv
  <2> QED
    BY <1>1, <2>2, <2>4, <2>5, <2>9, PiLinesStay DEF PiInOrder
<1> QED
  BY <1>2, <1>3 DEF Pi!TurnStarts, Pi!Write, Pi!Queued

\* The turn ends, and with it what landed in it.
LEMMA PiTurnEnds ==
  ASSUME PiInv, Pi!TurnEnds PROVE PiOnce' /\ PiInOrder' /\ Pi!NeverAhead'
<1>1. /\ UNCHANGED <<view, out, got, reports, posting>>
      /\ \A d \in Pi!Sends : truth'[d] = IF truth[d] = "running" THEN "over" ELSE truth[d]
      /\ stdin' = Append(stdin, Pi!TurnEnded)
  BY DEF Pi!TurnEnds, Pi!loopVars, Pi!Write
<1>2. PiOnce'
  <2>1. \A e \in Pi!Sends : OnItsWay(view, truth, e) => OnItsWay(view', truth', e)
    BY <1>1 DEF OnItsWay
  <2>2. (\A i \in 1..Len(out) : out[i] \in Pi!Sends) /\ (got # 0 => got \in Pi!Sends)
    BY PiPlaces
  <2>3. \A e \in Pi!Sends : view'[e] \in {"none", "waiting"} => truth'[e] = "none"
    BY <1>1 DEF PiInv, PiOnce
  <2> QED
    BY <1>1, <2>1, <2>2, <2>3 DEF PiInv, PiOnce
<1>3. Pi!NeverAhead'
  BY <1>1 DEF PiInv, Pi!NeverAhead
<1>4. /\ \A i \in 1..Len(stdin) : stdin[i].event = "landed" => stdin[i].of \in Pi!Sends
      /\ \A i \in 1..Len(reports) : reports[i].event = "landed" => reports[i].of \in Pi!Sends
      /\ posting.event = "landed" => posting.of \in Pi!Sends
  BY PiLandedOf DEF PiInv
<1> DEFINE tr == truth'
<1>20. \A d \in Pi!Sends : tr[d] # "running" /\ (truth[d] \in {"running", "over"} => tr[d] = "over")
  BY <1>1
<1> HIDE DEF tr
<1>5. AllHonest(tr, stdin) /\ NoneOfThisTurn(tr, stdin) /\ EndsFirst(tr, stdin)
  BY <1>20, <1>4, LineAtEnd DEF PiInv, PiInOrder
<1>6. AllHonest(tr, reports) /\ NoneOfThisTurn(tr, reports) /\ EndsFirst(tr, reports)
  BY <1>20, <1>4, LineAtEnd DEF PiInv, PiInOrder
<1> USE DEF tr
<1>7. Honest(truth', posting) /\ ~OfThisTurn(truth', posting)
  BY <1>1, <1>4 DEF PiInv, PiInOrder, Honest, OfThisTurn
<1>8. ~ShownInTurn(Pi!Sends, view', truth')
  BY <1>1 DEF ShownInTurn
<1>9. Pi!TurnEnded \in Pi!ReportRows /\ Honest(truth', Pi!TurnEnded)
  BY PiRows DEF Honest
<1>10. AllHonest(truth', stdin') /\ EndsFirst(truth', stdin')
  BY <1>1, <1>5, <1>9, PiWritten DEF PiInv
<1> QED
  BY <1>1, <1>2, <1>3, <1>6, <1>7, <1>8, <1>10 DEF PiInOrder

\* A tool call on the pipe is no report.
LEMMA PiCalls ==
  ASSUME PiInv, Pi!CallsTool PROVE PiOnce' /\ PiInOrder' /\ Pi!NeverAhead'
<1>1. /\ UNCHANGED <<view, truth, out, got, reports, posting>>
      /\ stdin' = Append(stdin, Pi!ToolCall)
  BY DEF Pi!CallsTool, Pi!loopVars, Pi!Write, Pi!reportVars
<1>2. Honest(truth, Pi!ToolCall) /\ Pi!ToolCall.event # "turn_ended"
  BY PiRows DEF Honest
<1>3. /\ AllHonest(truth, stdin') /\ EndsFirst(truth, stdin')
      /\ (NoEnd(stdin) => NoEnd(stdin'))
  BY <1>1, <1>2, PiWritten DEF PiInv, PiInOrder
<1> QED
  BY <1>1, <1>3 DEF PiInv, PiOnce, PiInOrder, Pi!NeverAhead

\* Run takes a report off the pipe: queued at the end of the line, or dropped.
LEMMA PiReads ==
  ASSUME PiInv, Pi!ReadReport PROVE PiOnce' /\ PiInOrder' /\ Pi!NeverAhead'
<1> DEFINE r == Head(stdin)
<1>1. /\ UNCHANGED <<view, truth, out, got, posting>>
      /\ stdin \in Seq(Pi!ReportRows \cup {Pi!ToolCall}) /\ stdin # <<>> /\ r # Pi!ToolCall
      /\ stdin' = Tail(stdin) /\ reports \in Seq(Pi!ReportRows)
      /\ reports' = reports \/ reports' = Append(reports, r)
  BY DEF Pi!ReadReport, Pi!Queue, Pi!loopVars, PiInv, Pi!ChannelTypeOK
<1>2. r \in Pi!ReportRows
  BY <1>1, TailAt
<1>3. /\ AllHonest(truth, stdin') /\ Honest(truth, r)
      /\ NoEnd(stdin) => NoEnd(stdin') /\ r.event # "turn_ended"
      /\ EndsFirst(truth, stdin') /\ (OfThisTurn(truth, r) => NoEnd(stdin'))
  BY <1>1, TailKeeps DEF PiInv, PiInOrder
<1>4. /\ AllHonest(truth, reports) /\ EndsFirst(truth, reports)
      /\ NoneOfThisTurn(truth, reports) \/ NoEnd(stdin)
  BY DEF PiInv, PiInOrder
<1> HIDE DEF r
<1>5. /\ AllHonest(truth, reports') /\ EndsFirst(truth, reports')
      /\ NoEnd(reports) /\ NoEnd(stdin) => NoEnd(reports')
      /\ NoneOfThisTurn(truth, reports') \/ NoEnd(stdin')
  <2>1. CASE reports' = reports
    BY <1>3, <1>4, <2>1
  <2>2. CASE reports' = Append(reports, r)
    BY <1>1, <1>2, <1>3, <1>4, <2>2, AppendKeeps
  <2> QED
    BY <1>1, <2>1, <2>2
<1>6. PiOnce' /\ Pi!NeverAhead'
  BY <1>1 DEF PiInv, PiOnce, Pi!NeverAhead
<1> QED
  BY <1>1, <1>3, <1>5, <1>6 DEF PiInv, PiInOrder

\* Run takes a tool call off the pipe.
LEMMA PiReadsCall ==
  ASSUME PiInv, Pi!ReadCall PROVE PiOnce' /\ PiInOrder' /\ Pi!NeverAhead'
<1>1. /\ UNCHANGED <<view, truth, out, got, posting, reports>>
      /\ stdin \in Seq(Pi!ReportRows \cup {Pi!ToolCall}) /\ stdin # <<>>
      /\ stdin' = Tail(stdin)
  BY DEF Pi!ReadCall, Pi!loopVars, Pi!reportVars, PiInv, Pi!ChannelTypeOK
<1>2. /\ AllHonest(truth, stdin') /\ EndsFirst(truth, stdin')
      /\ NoEnd(stdin) => NoEnd(stdin')
  BY <1>1, TailKeeps DEF PiInv, PiInOrder
<1>3. PiOnce' /\ Pi!NeverAhead'
  BY <1>1 DEF PiInv, PiOnce, Pi!NeverAhead
<1> QED
  BY <1>1, <1>2, <1>3 DEF PiInv, PiInOrder

\* The poster takes the next report.
LEMMA PiTakes ==
  ASSUME PiInv, Pi!Take PROVE PiOnce' /\ PiInOrder' /\ Pi!NeverAhead'
<1>1. /\ UNCHANGED <<view, truth, out, got, stdin>>
      /\ reports \in Seq(Pi!ReportRows) /\ reports # <<>>
      /\ posting' = Head(reports) /\ reports' = Tail(reports)
  BY DEF Pi!Take, Pi!loopVars, Pi!reportVars, PiInv, Pi!ChannelTypeOK
<1>2. /\ AllHonest(truth, reports') /\ Honest(truth, posting')
      /\ NoneOfThisTurn(truth, reports) =>
           NoneOfThisTurn(truth, reports') /\ ~OfThisTurn(truth, posting')
      /\ NoEnd(reports) => NoEnd(reports') /\ posting'.event # "turn_ended"
      /\ EndsFirst(truth, reports') /\ (OfThisTurn(truth, posting') => NoEnd(reports'))
  BY <1>1, TailKeeps DEF PiInv, PiInOrder
<1>3. PiOnce' /\ Pi!NeverAhead'
  BY <1>1 DEF PiInv, PiOnce, Pi!NeverAhead
<1> QED
  BY <1>1, <1>2, <1>3 DEF PiInv, PiInOrder

\* The poster reports to serve: what it says is so, and an end comes before what
\* landed in the turn that runs.
LEMMA PiPosts ==
  ASSUME PiInv, Pi!PostReport PROVE PiOnce' /\ PiInOrder' /\ Pi!NeverAhead'
<1>1. /\ UNCHANGED <<truth, out, got, stdin, reports>>
      /\ view \in [Pi!Sends -> Pi!Views] /\ posting' = Pi!NoReport
      /\ posting \in Pi!ReportRows
      /\ view' = view \/ view' = Pi!Told(posting)
  BY DEF Pi!PostReport, Pi!loopVars, PiInv, Pi!ChannelTypeOK, Pi!ReportsTypeOK
<1>2. \A d \in Pi!Sends :
        \/ view'[d] = view[d]
        \/ view[d] = "given" /\ view'[d] = "held"
        \/ posting.event = "landed" /\ posting.of = d /\ view[d] \in {"given", "held"}
           /\ view'[d] = "landed"
        \/ posting.event = "turn_ended" /\ view[d] = "landed" /\ view'[d] = "ended"
  BY <1>1, PiToldIs
<1>3. PiOnce'
  <2>1. \A e \in Pi!Sends : OnItsWay(view, truth, e) => OnItsWay(view', truth', e)
    BY <1>1, <1>2 DEF OnItsWay
  <2>2. \A e \in Pi!Sends : view'[e] \in {"none", "waiting"} => truth'[e] = "none"
    BY <1>1, <1>2 DEF PiInv, PiOnce
  <2> QED
    BY <1>1, <2>1, <2>2, PiPlaces DEF PiInv, PiOnce
<1>4. Pi!NeverAhead'
  <2> SUFFICES ASSUME NEW d \in Pi!Sends
               PROVE  /\ view'[d] = "landed" => truth[d] \in {"running", "over"}
                      /\ view'[d] = "ended" => truth[d] = "over"
    BY <1>1 DEF Pi!NeverAhead
  <2>1. /\ view[d] = "landed" => truth[d] \in {"running", "over"}
        /\ view[d] = "ended" => truth[d] = "over"
    BY DEF PiInv, Pi!NeverAhead
  <2>2. posting.event = "landed" /\ posting.of = d => truth[d] \in {"running", "over"}
    BY DEF PiInv, PiInOrder, Honest
  <2>3. posting.event = "turn_ended" /\ view[d] = "landed" => truth[d] # "running"
    BY DEF PiInv, PiInOrder, ShownInTurn
  <2> QED
    BY <1>2, <2>1, <2>2, <2>3
<1>5. ShownInTurn(Pi!Sends, view', truth) => NoEnd(reports) /\ NoEnd(stdin)
  <2> SUFFICES ASSUME NEW d \in Pi!Sends, view'[d] = "landed", truth[d] = "running"
               PROVE  NoEnd(reports) /\ NoEnd(stdin)
    BY DEF ShownInTurn
  <2>1. CASE view[d] = "landed"
    BY <2>1 DEF PiInv, PiInOrder, ShownInTurn
  <2>2. CASE posting.event = "landed" /\ posting.of = d
    BY <2>2 DEF PiInv, PiInOrder, OfThisTurn
  <2> QED
    BY <1>2, <2>1, <2>2
<1>6. /\ Honest(truth, posting') /\ ~OfThisTurn(truth, posting')
      /\ posting'.event # "turn_ended"
  BY <1>1, PiRows DEF Honest, OfThisTurn
<1> QED
  BY <1>1, <1>3, <1>4, <1>5, <1>6 DEF PiInv, PiInOrder

\* An answer has a Send in it, whatever else goes on.
LEMMA PiAnswers ==
  ASSUME PiInv, Pi!Next PROVE PiAnswered'
<1>1. CASE UNCHANGED <<pc, got>>
  BY <1>1 DEF PiInv, PiAnswered
<1>2. CASE pc' # "answered"
  BY <1>2 DEF PiAnswered
<1>3. ASSUME NEW d \in Pi!Sends, Pi!Answer(d) PROVE PiAnswered'
  BY <1>3 DEF Pi!Answer, PiAnswered, Pi!Sends
<1>4. CASE Pi!Loop
  BY <1>2, <1>4 DEF Pi!Loop, Pi!LoopTop, Pi!LoopLook, Pi!LoopPresence, Pi!LoopWait,
     Pi!PollTimesOut, Pi!Torn, Pi!Notify, Pi!RestFindsNew, Pi!RestOver, Pi!Go
<1>5. CASE Pi!Refuse \/ Pi!Discard
  BY <1>2, <1>5 DEF Pi!Refuse, Pi!Discard, Pi!Go
<1>6. CASE Pi!Around \/ Pi!Emit \/ Pi!ReadReport \/ Pi!ReadCall \/ Pi!Answered \/ Pi!Take
           \/ Pi!PostReport
  BY <1>1, <1>6 DEF Pi!Around, Pi!Emit, Pi!ReadReport, Pi!ReadCall, Pi!Answered, Pi!Take,
     Pi!PostReport, Pi!Post, Pi!Taken, Pi!ServeStarts, Pi!ServeEnds, Pi!TurnStarts, Pi!TurnEnds,
     Pi!CallsTool, Pi!loopVars, Pi!channelVars
<1> QED
  BY <1>3, <1>4, <1>5, <1>6 DEF Pi!Next

\* Every step of a pi session keeps the invariant.
LEMMA PiKeeps ==
  ASSUME PiInv, Pi!Next PROVE PiInv'
<1>1. Pi!ChannelTypeOK' /\ PiAnswered'
  BY PiTypes, PiAnswers DEF PiInv
<1>2. ASSUME PiQuiet PROVE PiOnce' /\ PiInOrder' /\ Pi!NeverAhead'
  <2>1. UNCHANGED PiTold /\ UNCHANGED <<out, got>>
    BY <1>2 DEF PiQuiet, Pi!ServeStarts, Pi!ServeEnds, Pi!LoopTop, Pi!LoopLook, Pi!LoopPresence,
       Pi!LoopWait, Pi!Refuse, Pi!PollTimesOut, Pi!RestFindsNew, Pi!RestOver, Pi!Answered,
       Pi!reportVars, Pi!loopVars, Pi!serveVars, Pi!pipeVars, PiTold
  <2> QED
    BY <2>1, PiSame
<1>3. ASSUME NEW d \in Pi!Sends, Pi!Post(d) \/ Pi!Answer(d)
      PROVE  PiOnce' /\ PiInOrder' /\ Pi!NeverAhead'
  BY <1>3, PiClaims
<1>4. ASSUME ~PiQuiet, \A d \in Pi!Sends : ~(Pi!Post(d) \/ Pi!Answer(d))
      PROVE  PiOnce' /\ PiInOrder' /\ Pi!NeverAhead'
  BY <1>4, PiTakenAway, PiMovesSend, PiEmits, PiTurnStarts, PiTurnEnds, PiCalls, PiReads, PiReadsCall,
     PiTakes, PiPosts DEF PiQuiet, Pi!Next, Pi!Around, Pi!Loop
<1> QED
  BY <1>1, <1>2, <1>3, <1>4 DEF PiInv

\* Nothing posted, claimed or reported at the start.
LEMMA PiStarts == Pi!ReportsInit /\ Pi!ChannelInit => PiInv
<1> SUFFICES ASSUME Pi!ReportsInit, Pi!ChannelInit PROVE PiInv
  OBVIOUS
<1>1. /\ \A d \in Pi!Sends : view[d] = "none" /\ truth[d] = "none"
      /\ out = <<>> /\ stdin = <<>> /\ reports = <<>> /\ posting = Pi!NoReport /\ got = 0
      /\ pc = "top"
  BY DEF Pi!ReportsInit, Pi!ChannelInit
<1>2. Len(out) = 0 /\ Len(stdin) = 0 /\ Len(reports) = 0
  BY <1>1
<1>3. Pi!ChannelTypeOK
  <2>1. Pi!ReportsTypeOK
    <3>1. turn \in BOOLEAN /\ lost \in BOOLEAN
      BY DEF Pi!ReportsInit
    <3>2. view \in [Pi!Sends -> Pi!Views] /\ truth \in [Pi!Sends -> Pi!Truths]
      BY DEF Pi!ReportsInit, Pi!Views, Pi!Open, Pi!Truths
    <3>3. turns \in 0..PiTurns
      BY PiConstants DEF Pi!ReportsInit
    <3> QED
      BY <3>1, <3>2, <3>3 DEF Pi!ReportsTypeOK
  <2>2. /\ out \in Seq(Pi!Sends) /\ stdin \in Seq(Pi!ReportRows \cup {Pi!ToolCall})
        /\ reports \in Seq(Pi!ReportRows)
    BY <1>1
  <2>3. /\ serve \in 0..MaxServes /\ made \in 0..MaxServes /\ known \subseteq Pi!Serves
        /\ at \in 0..MaxServes /\ seen \in 0..MaxServes
        /\ polled \in 0..MaxServes /\ got \in 0..PiSends /\ calls \in 0..MaxCalls
    BY PiConstants DEF Pi!ChannelInit
  <2>4. fresh \in BOOLEAN /\ calling \in BOOLEAN
    BY DEF Pi!ChannelInit
  <2> QED
    BY <1>1, <1>2, <2>1, <2>2, <2>3, <2>4, PiConstants DEF Pi!ChannelTypeOK
<1>4. PiOnce /\ PiAnswered /\ Pi!NeverAhead
  BY <1>1, <1>2 DEF PiOnce, PiAnswered, Pi!NeverAhead
<1>5. posting.event = "none"
  BY <1>1, PiRows
<1>6. PiInOrder
  BY <1>1, <1>2, <1>5 DEF PiInOrder, AllHonest, Honest, EndsFirst, NoneOfThisTurn, OfThisTurn,
     NoEnd, ShownInTurn
<1> QED
  BY <1>3, <1>4, <1>6 DEF PiInv

--------------------------------------------------------------------------------
(* Claude Code.                                                             *)

\* A claimed Send is in one process's hand or one watch's lines, and in none once
\* the agent has it.
ClaudeOnce ==
  /\ \A d \in Claude!Sends : view[d] \in {"none", "waiting"} => truth[d] = "none"
  /\ \A g \in Claude!Starts : hand[g] # 0 => OnItsWay(view, truth, hand[g])
  /\ \A g \in Claude!Starts : \A i \in 1..Len(pipe[g]) : OnItsWay(view, truth, pipe[g][i])
  /\ \A g, h \in Claude!Starts : hand[g] # 0 /\ hand[g] = hand[h] => g = h
  /\ \A g, h \in Claude!Starts : \A i \in 1..Len(pipe[h]) : hand[g] # pipe[h][i]
  /\ \A g, h \in Claude!Starts : \A i \in 1..Len(pipe[g]), j \in 1..Len(pipe[h]) :
       pipe[g][i] = pipe[h][j] => g = h /\ i = j

\* A Send the agent has and has not begun is among the prompts or those kept, once.
ClaudeWaits ==
  /\ \A i \in 1..Len(prompts) : truth[prompts[i]] = "queued"
  /\ \A i \in 1..Len(pending) : truth[pending[i]] = "queued"
  /\ \A i, j \in 1..Len(prompts) : prompts[i] = prompts[j] => i = j
  /\ \A i, j \in 1..Len(pending) : pending[i] = pending[j] => i = j
  /\ \A i \in 1..Len(prompts), j \in 1..Len(pending) : prompts[i] # pending[j]

\* The promise chain: honest, and every end in it before what landed in this turn.
ClaudeInOrder ==
  /\ AllHonest(truth, chain) /\ EndsFirst(truth, chain)
  /\ ShownInTurn(Claude!Sends, view, truth) => NoEnd(chain)

ClaudeInv ==
  Claude!PluginTypeOK /\ ClaudeOnce /\ ClaudeWaits /\ ClaudeInOrder /\ Claude!NeverAhead

LEMMA ClaudeConstants ==
  /\ ClaudeSends \in Nat /\ ClaudeTurns \in Nat
  /\ MaxStarts \in Nat /\ MaxCrashes \in Nat /\ MaxDrops \in Nat /\ MaxFailures \in Nat
  BY AgentsAssumption DEF Claude!PluginConstants, Claude!ReportsConstants

LEMMA ClaudeRows ==
  /\ \A r \in Claude!ReportRows : SpeaksOf(Claude!Sends, r)
  /\ \A d \in Claude!Sends :
       /\ Claude!Held(d) \in Claude!ReportRows /\ Claude!Landed(d) \in Claude!ReportRows
       /\ Claude!Held(d).event = "held" /\ Claude!Landed(d).event = "landed"
       /\ Claude!Landed(d).of = d
  /\ Claude!TurnEnded \in Claude!ReportRows /\ Claude!TurnEnded.event = "turn_ended"
<1>1. \A r \in Claude!ReportRows :
        r = Claude!TurnEnded \/ \E d \in Claude!Sends : r = Claude!Landed(d) \/ r = Claude!Held(d)
  BY DEF Claude!ReportRows
<1>2. \A d \in Claude!Sends : Claude!Held(d) \in Claude!ReportRows
                              /\ Claude!Landed(d) \in Claude!ReportRows
  BY DEF Claude!ReportRows
<1>3. Claude!TurnEnded \in Claude!ReportRows
  BY DEF Claude!ReportRows
<1>4. Claude!TurnEnded.event = "turn_ended"
  BY DEF Claude!TurnEnded
<1>5. \A d \in Claude!Sends :
        /\ Claude!Held(d).event = "held" /\ Claude!Landed(d).event = "landed"
        /\ Claude!Held(d).of = d /\ Claude!Landed(d).of = d
  BY DEF Claude!Landed, Claude!Held
<1>6. ASSUME NEW r \in Claude!ReportRows PROVE SpeaksOf(Claude!Sends, r)
  <2>1. CASE r = Claude!TurnEnded
    BY <1>4, <2>1 DEF SpeaksOf
  <2>2. ASSUME NEW d \in Claude!Sends, r = Claude!Landed(d) \/ r = Claude!Held(d)
        PROVE  r.event \in {"held", "landed"} /\ r.of \in Claude!Sends
    BY <1>5, <2>2
  <2> QED
    BY <1>1, <2>1, <2>2 DEF SpeaksOf
<1> QED
  BY <1>2, <1>3, <1>4, <1>5, <1>6

LEMMA ClaudeToldIs ==
  ASSUME view \in [Claude!Sends -> Claude!Views], NEW r \in Claude!ReportRows
  PROVE  /\ Claude!Told(r) \in [Claude!Sends -> Claude!Views]
         /\ \A d \in Claude!Sends :
              \/ Claude!Told(r)[d] = view[d]
              \/ view[d] = "given" /\ Claude!Told(r)[d] = "held"
              \/ r.event = "landed" /\ r.of = d /\ view[d] \in {"given", "held"}
                 /\ Claude!Told(r)[d] = "landed"
              \/ r.event = "turn_ended" /\ view[d] = "landed" /\ Claude!Told(r)[d] = "ended"
<1>1. r.event \in {"held", "landed", "turn_ended"}
      /\ (r.event # "turn_ended" => r.of \in Claude!Sends)
  BY ClaudeRows DEF SpeaksOf
<1>2. CASE r.event = "held"
  BY <1>1, <1>2 DEF Claude!Told, Claude!Views, Claude!Open
<1>3. CASE r.event = "landed"
  BY <1>1, <1>3 DEF Claude!Told, Claude!Views, Claude!Open
<1>4. CASE r.event = "turn_ended"
  BY <1>1, <1>4 DEF Claude!Told, Claude!Views, Claude!Open
<1> QED
  BY <1>1, <1>2, <1>3, <1>4

\* A list of prompts without one of them.
LEMMA WithoutAt ==
  ASSUME NEW S, NEW s \in Seq(S), NEW i \in 1..Len(s)
  PROVE  /\ Claude!Without(s, i) \in Seq(S) /\ Len(Claude!Without(s, i)) = Len(s) - 1
         /\ \A j \in 1..(Len(s) - 1) :
              Claude!Without(s, i)[j] = s[IF j < i THEN j ELSE j + 1]
<1> DEFINE n == Len(s) - 1
           w == [j \in 1..n |-> IF j < i THEN s[j] ELSE s[j + 1]]
<1>1. n \in Nat /\ \A j \in 1..n : j \in 1..Len(s) /\ j + 1 \in 1..Len(s)
  OBVIOUS
<1>2. \A j \in 1..n : w[j] \in S /\ w[j] = s[IF j < i THEN j ELSE j + 1]
  BY <1>1
<1>3. w \in Seq(S) /\ Len(w) = n
  BY <1>1, <1>2
<1> QED
  BY <1>2, <1>3 DEF Claude!Without

LEMMA ConcatAt ==
  ASSUME NEW S, NEW s \in Seq(S), NEW t \in Seq(S)
  PROVE  /\ s \o t \in Seq(S) /\ Len(s \o t) = Len(s) + Len(t)
         /\ Len(s) \in Nat /\ Len(t) \in Nat
         /\ \A i \in 1..(Len(s) + Len(t)) :
              (s \o t)[i] = IF i <= Len(s) THEN s[i] ELSE t[i - Len(s)]
  OBVIOUS

\* The actions that leave the Sends, the prompts and the reports alone.
ClaudeQuiet ==
  \/ Claude!Start
  \/ \E g \in Claude!Starts :
       Claude!SpawnFails(g) \/ Claude!WatchEnds(g) \/ Claude!Restart(g)

ClaudeTold == <<view, truth, chain>>
ClaudeAwaited == <<prompts, pending>>

LEMMA ClaudeQuietly ==
  ASSUME ClaudeInv, ClaudeQuiet
  PROVE  UNCHANGED <<ClaudeTold, ClaudeAwaited, hand, pipe>> /\ Claude!PluginTypeOK'
<1> USE ClaudeConstants
<1>1. UNCHANGED <<view, truth, turn, turns, lost, hand, pipe, prompts, timers, pending, landed,
                  chain, drops, failures>>
  BY DEF ClaudeQuiet, Claude!Start, Claude!SpawnFails, Claude!WatchEnds, Claude!Restart,
     Claude!reportVars, Claude!promptVars
<1>2. CASE Claude!Start
  <2>1. /\ generation + 1 \in Claude!Starts
        /\ generation' \in 0..MaxStarts /\ current' \in 0..MaxStarts
    BY <1>2 DEF Claude!Start, Claude!Starts, ClaudeInv, Claude!PluginTypeOK
  <2>2. watch' \in [Claude!Starts -> {"none", "starting", "reading", "delay", "over"}]
    BY <1>2, <2>1 DEF Claude!Start, ClaudeInv, Claude!PluginTypeOK
  <2>3. child' \in [Claude!Starts -> {"none", "up", "ending", "gone"}]
    BY <1>2 DEF Claude!Start, ClaudeInv, Claude!PluginTypeOK
  <2>4. crashes' = crashes
    BY <1>2 DEF Claude!Start
  <2> QED
    BY <1>1, <2>1, <2>2, <2>3, <2>4 DEF ClaudeInv, Claude!PluginTypeOK, Claude!ReportsTypeOK,
       ClaudeTold, ClaudeAwaited
<1>3. ASSUME NEW g \in Claude!Starts,
             Claude!SpawnFails(g) \/ Claude!WatchEnds(g) \/ Claude!Restart(g)
      PROVE  Claude!PluginTypeOK'
  <2>1. watch' \in [Claude!Starts -> {"none", "starting", "reading", "delay", "over"}]
    BY <1>3 DEF Claude!SpawnFails, Claude!WatchEnds, Claude!Restart, Claude!Becomes, ClaudeInv,
       Claude!PluginTypeOK
  <2>2. crashes' \in 0..MaxCrashes
    BY <1>3 DEF Claude!SpawnFails, Claude!WatchEnds, Claude!Restart, ClaudeInv,
       Claude!PluginTypeOK
  <2>3. UNCHANGED <<generation, current, child>>
    BY <1>3 DEF Claude!SpawnFails, Claude!WatchEnds, Claude!Restart
  <2> QED
    BY <1>1, <2>1, <2>2, <2>3 DEF ClaudeInv, Claude!PluginTypeOK, Claude!ReportsTypeOK
<1> QED
  BY <1>1, <1>2, <1>3 DEF ClaudeQuiet, ClaudeTold, ClaudeAwaited

LEMMA ClaudeSame ==
  ASSUME ClaudeInv, UNCHANGED <<ClaudeTold, ClaudeAwaited, hand, pipe>>
  PROVE  ClaudeOnce' /\ ClaudeWaits' /\ ClaudeInOrder' /\ Claude!NeverAhead'
<1>1. UNCHANGED <<view, truth, chain, prompts, pending, hand, pipe>>
  BY DEF ClaudeTold, ClaudeAwaited
<1> QED
  BY <1>1 DEF ClaudeInv, ClaudeOnce, ClaudeWaits, ClaudeInOrder, Claude!NeverAhead

\* Where the Sends and lines are.
LEMMA ClaudePlaces ==
  ASSUME Claude!PluginTypeOK
  PROVE  /\ \A g \in Claude!Starts : hand[g] # 0 => hand[g] \in Claude!Sends
         /\ \A g \in Claude!Starts : pipe[g] \in Seq(Claude!Sends) /\ Len(pipe[g]) \in Nat
         /\ \A g \in Claude!Starts : \A i \in 1..Len(pipe[g]) : pipe[g][i] \in Claude!Sends
         /\ \A i \in 1..Len(prompts) : prompts[i] \in Claude!Sends
         /\ \A i \in 1..Len(pending) : pending[i] \in Claude!Sends
         /\ \A i \in 1..Len(chain) : chain[i].event = "landed" => chain[i].of \in Claude!Sends
         /\ 0 \notin Claude!Sends
<1>1. \A g \in Claude!Starts : hand[g] # 0 => hand[g] \in Claude!Sends
  BY ClaudeConstants DEF Claude!PluginTypeOK, Claude!Sends
<1>2. \A g \in Claude!Starts : pipe[g] \in Seq(Claude!Sends)
  BY DEF Claude!PluginTypeOK
<1>3. \A g \in Claude!Starts : /\ Len(pipe[g]) \in Nat
                               /\ \A i \in 1..Len(pipe[g]) : pipe[g][i] \in Claude!Sends
  BY <1>2
<1>4. /\ \A i \in 1..Len(prompts) : prompts[i] \in Claude!Sends
      /\ \A i \in 1..Len(pending) : pending[i] \in Claude!Sends
      /\ \A i \in 1..Len(chain) : chain[i] \in Claude!ReportRows
  BY DEF Claude!PluginTypeOK
<1>5. 0 \notin Claude!Sends
  BY DEF Claude!Sends
<1>6. \A i \in 1..Len(chain) : chain[i].event = "landed" => chain[i].of \in Claude!Sends
  BY <1>4, ClaudeRows DEF SpeaksOf
<1> QED
  BY <1>1, <1>2, <1>3, <1>4, <1>5, <1>6

\* The chain while the agent goes on with what is running.
LEMMA ClaudeChainStays ==
  ASSUME ClaudeInv, NEW tr,
         \A d \in Claude!Sends : truth[d] \in {"running", "over"} => tr[d] = truth[d]
  PROVE  /\ AllHonest(tr, chain) /\ EndsFirst(tr, chain)
         /\ ShownInTurn(Claude!Sends, view, tr) => NoEnd(chain)
<1>1. AllHonest(tr, chain) /\ EndsFirst(tr, chain)
  BY ClaudePlaces, LineStays DEF ClaudeInv, ClaudeInOrder
<1>2. ShownInTurn(Claude!Sends, view, tr) => ShownInTurn(Claude!Sends, view, truth)
  BY DEF ShownInTurn, ClaudeInv, Claude!NeverAhead
<1> QED
  BY <1>1, <1>2 DEF ClaudeInv, ClaudeInOrder

\* Each action keeps every variable of its kind.
LEMMA ClaudeTypes ==
  ASSUME Claude!PluginTypeOK, Claude!Next, ~ClaudeQuiet PROVE Claude!PluginTypeOK'
<1> USE ClaudeConstants
<1>1. ASSUME NEW g \in Claude!Starts, Claude!Spawn(g) PROVE Claude!PluginTypeOK'
  <2>1. /\ watch' \in [Claude!Starts -> {"none", "starting", "reading", "delay", "over"}]
        /\ child' \in [Claude!Starts -> {"none", "up", "ending", "gone"}]
    BY <1>1 DEF Claude!Spawn, Claude!Becomes, Claude!PluginTypeOK
  <2>3. pipe' \in [Claude!Starts -> Seq(Claude!Sends)]
    <3>1. << >> \in Seq(Claude!Sends)
      OBVIOUS
    <3> QED
      BY <1>1, <3>1 DEF Claude!Spawn, Claude!PluginTypeOK
  <2>2. current' \in 0..MaxStarts
    BY <1>1 DEF Claude!Spawn, Claude!Starts, Claude!PluginTypeOK
  <2> QED
    BY <1>1, <2>1, <2>2, <2>3 DEF Claude!Spawn, Claude!PluginTypeOK, Claude!ReportsTypeOK,
       Claude!reportVars, Claude!promptVars
<1>2. ASSUME NEW g \in Claude!Starts, NEW d \in Claude!Sends, Claude!Claim(g, d)
      PROVE  Claude!PluginTypeOK'
  <2>1. view' \in [Claude!Sends -> Claude!Views]
    BY <1>2 DEF Claude!Claim, Claude!ClaimNext, Claude!PluginTypeOK, Claude!ReportsTypeOK,
       Claude!Views, Claude!Open
  <2>2. hand' \in [Claude!Starts -> 0..ClaudeSends]
    BY <1>2 DEF Claude!Claim, Claude!Sends, Claude!PluginTypeOK
  <2> QED
    BY <1>2, <2>1, <2>2 DEF Claude!Claim, Claude!PluginTypeOK, Claude!ReportsTypeOK,
       Claude!promptVars
<1>3. ASSUME NEW g \in Claude!Starts, Claude!PrintLine(g) PROVE Claude!PluginTypeOK'
  <2>1. hand[g] \in Claude!Sends /\ pipe[g] \in Seq(Claude!Sends)
    BY <1>3, ClaudePlaces DEF Claude!PrintLine
  <2>2. Append(pipe[g], hand[g]) \in Seq(Claude!Sends)
    BY <2>1, AppendAt
  <2>3. pipe' \in [Claude!Starts -> Seq(Claude!Sends)]
    BY <1>3, <2>2 DEF Claude!PrintLine, Claude!PluginTypeOK
  <2>4. hand' \in [Claude!Starts -> 0..ClaudeSends] /\ lost' \in BOOLEAN
    BY <1>3 DEF Claude!PrintLine, Claude!PluginTypeOK
  <2> QED
    BY <1>3, <2>3, <2>4 DEF Claude!PrintLine, Claude!PluginTypeOK, Claude!ReportsTypeOK,
       Claude!promptVars
<1>4. ASSUME NEW g \in Claude!Starts, Claude!ChildEnds(g) PROVE Claude!PluginTypeOK'
  <2>1. /\ child' \in [Claude!Starts -> {"none", "up", "ending", "gone"}]
        /\ hand' \in [Claude!Starts -> 0..ClaudeSends]
    BY <1>4 DEF Claude!ChildEnds, Claude!PluginTypeOK
  <2>2. crashes' \in 0..MaxCrashes /\ lost' \in BOOLEAN
    BY <1>4 DEF Claude!ChildEnds, Claude!PluginTypeOK
  <2> QED
    BY <1>4, <2>1, <2>2 DEF Claude!ChildEnds, Claude!PluginTypeOK, Claude!ReportsTypeOK,
       Claude!promptVars
<1>5. ASSUME NEW g \in Claude!Starts, Claude!ReadLine(g) PROVE Claude!PluginTypeOK'
  <2>1. /\ pipe[g] \in Seq(Claude!Sends) /\ Head(pipe[g]) \in Claude!Sends
        /\ Tail(pipe[g]) \in Seq(Claude!Sends)
    BY <1>5, ClaudePlaces, TailAt DEF Claude!ReadLine
  <2>2. CASE UNCHANGED <<truth, pipe, prompts, timers>> /\ lost' = TRUE
                /\ Claude!Becomes(g, "reading", "over")
    <3>1. lost' \in BOOLEAN
      BY <2>2
    <3>2. watch' \in [Claude!Starts -> {"none", "starting", "reading", "delay", "over"}]
      BY <2>2 DEF Claude!Becomes, Claude!PluginTypeOK
    <3> QED
      BY <1>5, <2>2, <3>1, <3>2 DEF Claude!ReadLine, Claude!PluginTypeOK, Claude!ReportsTypeOK
  <2>3. CASE /\ pipe' = [pipe EXCEPT ![g] = Tail(@)]
             /\ Claude!Submit(prompts, <<Head(pipe[g])>>)
             /\ truth' = [truth EXCEPT ![Head(pipe[g])] = "queued"]
             /\ UNCHANGED <<watch, lost>>
    <3>1. pipe' \in [Claude!Starts -> Seq(Claude!Sends)]
      BY <2>1, <2>3 DEF Claude!PluginTypeOK
    <3>2. <<Head(pipe[g])>> \in Seq(Claude!Sends)
      BY <2>1
    <3>3. prompts' \in Seq(Claude!Sends) /\ timers' \subseteq Claude!Sends
      BY <2>3, <3>2, ConcatAt DEF Claude!Submit, Claude!PluginTypeOK
    <3>4. truth' \in [Claude!Sends -> Claude!Truths]
      BY <2>1, <2>3 DEF Claude!PluginTypeOK, Claude!ReportsTypeOK, Claude!Truths
    <3> QED
      BY <1>5, <2>3, <3>1, <3>3, <3>4 DEF Claude!ReadLine, Claude!PluginTypeOK,
         Claude!ReportsTypeOK
  <2> QED
    BY <1>5, <2>2, <2>3 DEF Claude!ReadLine
<1>6. ASSUME NEW d \in Claude!Sends, Claude!Post(d) \/ Claude!Taken(d)
      PROVE  Claude!PluginTypeOK'
  <2>1. view' \in [Claude!Sends -> Claude!Views]
    BY <1>6 DEF Claude!Post, Claude!Posted, Claude!Taken, Claude!TakenAway, Claude!PluginTypeOK, Claude!ReportsTypeOK,
       Claude!Views, Claude!Open
  <2> QED
    BY <1>6, <2>1 DEF Claude!Post, Claude!Taken, Claude!PluginTypeOK, Claude!ReportsTypeOK, Claude!pluginVars
<1>7. ASSUME NEW d \in Claude!Sends, Claude!HeldAfter(d) PROVE Claude!PluginTypeOK'
  <2>1. chain' \in Seq(Claude!ReportRows)
    BY <1>7, ClaudeRows, AppendAt DEF Claude!HeldAfter, Claude!PluginTypeOK
  <2> QED
    BY <1>7, <2>1 DEF Claude!HeldAfter, Claude!PluginTypeOK, Claude!ReportsTypeOK,
       Claude!reportVars, Claude!processVars
<1>8. CASE Claude!TurnStarts
  <2>1. turn' \in BOOLEAN /\ turns' \in 0..ClaudeTurns
    BY <1>8 DEF Claude!TurnStarts, Claude!PluginTypeOK, Claude!ReportsTypeOK
  <2>2. CASE UNCHANGED <<truth, prompts, timers, landed, chain>>
    BY <1>8, <2>1, <2>2 DEF Claude!TurnStarts, Claude!PluginTypeOK, Claude!ReportsTypeOK,
       Claude!processVars
  <2>3. CASE /\ prompts # <<>> /\ prompts' = Tail(prompts)
             /\ timers' = timers \ {Head(prompts)}
             /\ truth' = [truth EXCEPT ![Head(prompts)] = "running"]
             /\ landed' = TRUE
             /\ chain' = Append(chain, Claude!Landed(Head(prompts)))
    <3>1. prompts' \in Seq(Claude!Sends) /\ Head(prompts) \in Claude!Sends
      BY <2>3, TailAt DEF Claude!PluginTypeOK
    <3>2. chain' \in Seq(Claude!ReportRows)
      BY <2>3, <3>1, ClaudeRows, AppendAt DEF Claude!PluginTypeOK
    <3>3. truth' \in [Claude!Sends -> Claude!Truths]
      BY <2>3, <3>1 DEF Claude!PluginTypeOK, Claude!ReportsTypeOK, Claude!Truths
    <3>4. landed' \in BOOLEAN /\ timers' \subseteq Claude!Sends
      BY <2>3 DEF Claude!PluginTypeOK
    <3> QED
      BY <1>8, <2>1, <3>1, <3>2, <3>3, <3>4 DEF Claude!TurnStarts, Claude!PluginTypeOK,
         Claude!ReportsTypeOK, Claude!processVars
  <2> QED
    BY <1>8, <2>2, <2>3 DEF Claude!TurnStarts
<1>9. ASSUME NEW i \in DOMAIN prompts, Claude!Drop(i) PROVE Claude!PluginTypeOK'
  <2>1. i \in 1..Len(prompts) /\ prompts \in Seq(Claude!Sends) /\ prompts[i] \in Claude!Sends
    BY <1>9 DEF Claude!PluginTypeOK
  <2>2. /\ prompts' = Claude!Without(prompts, i)
        /\ pending' = Append(pending, prompts[i]) \/ pending' = pending
    BY <1>9 DEF Claude!Drop
  <2>7. drops' \in 0..MaxDrops
    BY <1>9 DEF Claude!Drop, Claude!PluginTypeOK
  <2>8. timers' \subseteq Claude!Sends
    BY <1>9 DEF Claude!Drop, Claude!PluginTypeOK
  <2>6. prompts' \in Seq(Claude!Sends)
    BY <2>1, <2>2, WithoutAt
  <2>3. pending' \in Seq(Claude!Sends)
    <3>1. pending \in Seq(Claude!Sends)
      BY DEF Claude!PluginTypeOK
    <3> QED
      BY <2>1, <2>2, <3>1, AppendAt
  <2>4. truth' \in [Claude!Sends -> Claude!Truths]
    BY <1>9, <2>1 DEF Claude!Drop, Claude!PluginTypeOK, Claude!ReportsTypeOK, Claude!Truths
  <2>5. lost' \in BOOLEAN
    BY <1>9 DEF Claude!Drop, Claude!PluginTypeOK, Claude!ReportsTypeOK
  <2> QED
    BY <1>9, <2>3, <2>4, <2>5, <2>6, <2>7, <2>8 DEF Claude!Drop, Claude!PluginTypeOK,
       Claude!ReportsTypeOK, Claude!processVars
<1>10. CASE Claude!TurnCompletes
  <2>1. turn' \in BOOLEAN /\ landed' \in BOOLEAN
    BY <1>10 DEF Claude!TurnCompletes
  <2>2. prompts' \in Seq(Claude!Sends) /\ timers' \subseteq Claude!Sends
    BY <1>10, ConcatAt, ClaudePlaces DEF Claude!TurnCompletes, Claude!Submit, Claude!PluginTypeOK
  <2>3. pending' \in Seq(Claude!Sends)
    BY <1>10 DEF Claude!TurnCompletes, Claude!Emptied
  <2>4. chain' \in Seq(Claude!ReportRows)
    BY <1>10, ClaudeRows, AppendAt DEF Claude!TurnCompletes, Claude!PluginTypeOK
  <2>5. truth' \in [Claude!Sends -> Claude!Truths]
    BY <1>10 DEF Claude!TurnCompletes, Claude!PluginTypeOK, Claude!ReportsTypeOK, Claude!Truths
  <2> QED
    BY <1>10, <2>1, <2>2, <2>3, <2>4, <2>5 DEF Claude!TurnCompletes, Claude!PluginTypeOK,
       Claude!ReportsTypeOK, Claude!processVars
<1>11. CASE Claude!ReportExits
  <2>1. chain' \in Seq(Claude!ReportRows) /\ Head(chain) \in Claude!ReportRows
    BY <1>11, TailAt DEF Claude!ReportExits, Claude!PluginTypeOK
  <2>2. view' \in [Claude!Sends -> Claude!Views]
    BY <1>11, <2>1, ClaudeToldIs DEF Claude!ReportExits, Claude!PluginTypeOK, Claude!ReportsTypeOK
  <2>3. failures' \in 0..MaxFailures
    BY <1>11 DEF Claude!ReportExits, Claude!PluginTypeOK
  <2>4. lost' = lost \/ lost' = TRUE
    BY <1>11 DEF Claude!ReportExits
  <2>5. lost' \in BOOLEAN
    BY <2>4 DEF Claude!PluginTypeOK, Claude!ReportsTypeOK
  <2> QED
    BY <1>11, <2>1, <2>2, <2>3, <2>5 DEF Claude!ReportExits, Claude!PluginTypeOK,
       Claude!ReportsTypeOK, Claude!processVars
<1> QED
  BY <1>1, <1>2, <1>3, <1>4, <1>5, <1>6, <1>7, <1>8, <1>9, <1>10, <1>11
     DEF Claude!Next, Claude!Watching, ClaudeQuiet

\* No Send comes to a new place, and none at one is begun.
LEMMA ClaudeFewer ==
  ASSUME ClaudeInv,
         \A g \in Claude!Starts : hand'[g] = hand[g] \/ hand'[g] = 0,
         \A g \in Claude!Starts : pipe'[g] = pipe[g] \/ pipe'[g] = << >>,
         \A d \in Claude!Sends : view'[d] \in {"none", "waiting"} => truth'[d] = "none",
         \A d \in Claude!Sends : OnItsWay(view, truth, d) => OnItsWay(view', truth', d)
  PROVE  ClaudeOnce'
<1>1. \A g \in Claude!Starts : hand'[g] # 0 => hand'[g] = hand[g]
  OBVIOUS
<1>2. \A g \in Claude!Starts : \A i \in 1..Len(pipe'[g]) :
        i \in 1..Len(pipe[g]) /\ pipe'[g][i] = pipe[g][i]
  OBVIOUS
<1>3. \A g \in Claude!Starts : hand'[g] # 0 => OnItsWay(view', truth', hand'[g])
  BY <1>1, ClaudePlaces DEF ClaudeInv, ClaudeOnce
<1>4. \A g \in Claude!Starts : \A i \in 1..Len(pipe'[g]) : OnItsWay(view', truth', pipe'[g][i])
  BY <1>2, ClaudePlaces DEF ClaudeInv, ClaudeOnce
<1>5. \A g, h \in Claude!Starts : hand'[g] # 0 /\ hand'[g] = hand'[h] => g = h
  BY <1>1 DEF ClaudeInv, ClaudeOnce
<1>6. \A g, h \in Claude!Starts : \A i \in 1..Len(pipe'[h]) : hand'[g] # pipe'[h][i]
  <2> SUFFICES ASSUME NEW g \in Claude!Starts, NEW h \in Claude!Starts, NEW i \in 1..Len(pipe'[h])
               PROVE  hand'[g] # pipe'[h][i]
    OBVIOUS
  <2>1. pipe'[h][i] = pipe[h][i] /\ i \in 1..Len(pipe[h]) /\ pipe[h][i] # 0
    BY <1>2, ClaudePlaces DEF ClaudeInv
  <2> QED
    BY <1>1, <2>1 DEF ClaudeInv, ClaudeOnce
<1>7. \A g, h \in Claude!Starts : \A i \in 1..Len(pipe'[g]), j \in 1..Len(pipe'[h]) :
        pipe'[g][i] = pipe'[h][j] => g = h /\ i = j
  BY <1>2 DEF ClaudeInv, ClaudeOnce
<1> QED
  BY <1>3, <1>4, <1>5, <1>6, <1>7 DEF ClaudeOnce

\* A watch is started, its process ends, or a Send is posted.
LEMMA ClaudeLoses ==
  ASSUME ClaudeInv, NEW g \in Claude!Starts, Claude!Spawn(g) \/ Claude!ChildEnds(g)
  PROVE  ClaudeOnce' /\ ClaudeWaits' /\ ClaudeInOrder' /\ Claude!NeverAhead'
<1>1. UNCHANGED <<view, truth, chain, prompts, pending>>
  BY DEF Claude!Spawn, Claude!ChildEnds, Claude!reportVars, Claude!promptVars
<1>2. /\ \A h \in Claude!Starts : hand'[h] = hand[h] \/ hand'[h] = 0
      /\ \A h \in Claude!Starts : pipe'[h] = pipe[h] \/ pipe'[h] = << >>
  BY DEF Claude!Spawn, Claude!ChildEnds, ClaudeInv, Claude!PluginTypeOK
<1>3. /\ \A d \in Claude!Sends : view'[d] \in {"none", "waiting"} => truth'[d] = "none"
      /\ \A d \in Claude!Sends : OnItsWay(view, truth, d) => OnItsWay(view', truth', d)
  BY <1>1 DEF ClaudeInv, ClaudeOnce
<1>4. ClaudeOnce'
  BY <1>2, <1>3, ClaudeFewer
<1> QED
  BY <1>1, <1>4 DEF ClaudeInv, ClaudeWaits, ClaudeInOrder, Claude!NeverAhead

\* A Send is posted, or a claim taken away.
LEMMA ClaudePosted ==
  ASSUME ClaudeInv, NEW d \in Claude!Sends, Claude!Post(d) \/ Claude!Taken(d)
  PROVE  ClaudeOnce' /\ ClaudeWaits' /\ ClaudeInOrder' /\ Claude!NeverAhead'
<1>1. UNCHANGED <<truth, chain, prompts, pending, hand, pipe>>
  BY DEF Claude!Post, Claude!Taken, Claude!pluginVars
<1>2. \A e \in Claude!Sends :
        \/ view'[e] = view[e]
        \/ view[e] = "none" /\ view'[e] = "waiting"
        \/ view[e] \in Claude!Open /\ view'[e] = "taken"
  BY DEF Claude!Post, Claude!Posted, Claude!Taken, Claude!TakenAway, ClaudeInv, Claude!PluginTypeOK, Claude!ReportsTypeOK
<1>3. /\ \A e \in Claude!Sends : view'[e] \in {"none", "waiting"} => truth'[e] = "none"
      /\ \A e \in Claude!Sends : OnItsWay(view, truth, e) => OnItsWay(view', truth', e)
  BY <1>1, <1>2 DEF ClaudeInv, ClaudeOnce, OnItsWay, Claude!Open
<1>4. ClaudeOnce'
  BY <1>1, <1>3, ClaudeFewer
<1>5. ShownInTurn(Claude!Sends, view', truth') => ShownInTurn(Claude!Sends, view, truth)
  BY <1>1, <1>2 DEF ShownInTurn
<1>6. ClaudeInOrder' /\ Claude!NeverAhead'
  BY <1>1, <1>2, <1>5 DEF ClaudeInv, ClaudeInOrder, Claude!NeverAhead
<1> QED
  BY <1>1, <1>4, <1>6 DEF ClaudeInv, ClaudeWaits

\* A process claims a Send: the server's to give, so at no other place.
LEMMA ClaudeClaims ==
  ASSUME ClaudeInv, NEW g \in Claude!Starts, NEW d \in Claude!Sends, Claude!Claim(g, d)
  PROVE  ClaudeOnce' /\ ClaudeWaits' /\ ClaudeInOrder' /\ Claude!NeverAhead'
<1>1. /\ UNCHANGED <<truth, chain, prompts, pending, pipe>>
      /\ view[d] = "waiting" /\ view' = [view EXCEPT ![d] = "given"]
      /\ hand[g] = 0 /\ hand' = [hand EXCEPT ![g] = d]
      /\ hand \in [Claude!Starts -> 0..ClaudeSends] /\ view \in [Claude!Sends -> Claude!Views]
  BY DEF Claude!Claim, Claude!ClaimNext, Claude!promptVars, ClaudeInv, Claude!PluginTypeOK,
     Claude!ReportsTypeOK
<1>2. /\ \A e \in Claude!Sends : e # d => view'[e] = view[e]
      /\ view'[d] = "given" /\ truth[d] = "none" /\ d # 0
      /\ hand'[g] = d /\ \A h \in Claude!Starts : h # g => hand'[h] = hand[h]
  BY <1>1, ClaudePlaces DEF ClaudeInv, ClaudeOnce
<1>3. /\ \A h \in Claude!Starts : hand[h] # d
      /\ \A h \in Claude!Starts : \A i \in 1..Len(pipe[h]) : pipe[h][i] # d
  BY <1>1, <1>2 DEF ClaudeInv, ClaudeOnce, OnItsWay
<1>4. ClaudeOnce'
  <2>1. \A e \in Claude!Sends : view'[e] \in {"none", "waiting"} => truth'[e] = "none"
    BY <1>1, <1>2 DEF ClaudeInv, ClaudeOnce
  <2>2. \A h \in Claude!Starts : hand'[h] # 0 => OnItsWay(view', truth', hand'[h])
    BY <1>1, <1>2, <1>3, ClaudePlaces DEF ClaudeInv, ClaudeOnce, OnItsWay
  <2>3. \A h \in Claude!Starts : \A i \in 1..Len(pipe'[h]) : OnItsWay(view', truth', pipe'[h][i])
    BY <1>1, <1>2, <1>3, ClaudePlaces DEF ClaudeInv, ClaudeOnce, OnItsWay
  <2>4. \A h, k \in Claude!Starts : hand'[h] # 0 /\ hand'[h] = hand'[k] => h = k
    BY <1>2, <1>3 DEF ClaudeInv, ClaudeOnce
  <2>5. \A h, k \in Claude!Starts : \A i \in 1..Len(pipe'[k]) : hand'[h] # pipe'[k][i]
    BY <1>1, <1>2, <1>3 DEF ClaudeInv, ClaudeOnce
  <2>6. \A h, k \in Claude!Starts : \A i \in 1..Len(pipe'[h]), j \in 1..Len(pipe'[k]) :
          pipe'[h][i] = pipe'[k][j] => h = k /\ i = j
    <3>1. pipe' = pipe
      BY <1>1
    <3>2. \A h, k \in Claude!Starts : \A i \in 1..Len(pipe[h]), j \in 1..Len(pipe[k]) :
            pipe[h][i] = pipe[k][j] => h = k /\ i = j
      BY DEF ClaudeInv, ClaudeOnce
    <3> QED
      BY <3>1, <3>2
  <2> QED
    BY <2>1, <2>2, <2>3, <2>4, <2>5, <2>6 DEF ClaudeOnce
<1>5. ShownInTurn(Claude!Sends, view', truth') => ShownInTurn(Claude!Sends, view, truth)
  BY <1>1, <1>2 DEF ShownInTurn
<1>6. ClaudeInOrder' /\ Claude!NeverAhead'
  BY <1>1, <1>2, <1>5 DEF ClaudeInv, ClaudeInOrder, Claude!NeverAhead
<1> QED
  BY <1>1, <1>4, <1>6 DEF ClaudeInv, ClaudeWaits

\* A process prints the line of the Send in its hand.
LEMMA ClaudePrints ==
  ASSUME ClaudeInv, NEW g \in Claude!Starts, Claude!PrintLine(g)
  PROVE  ClaudeOnce' /\ ClaudeWaits' /\ ClaudeInOrder' /\ Claude!NeverAhead'
<1> DEFINE d == hand[g]
<1>1. /\ UNCHANGED <<view, truth, chain, prompts, pending>>
      /\ d # 0 /\ hand' = [hand EXCEPT ![g] = 0] /\ pipe' = [pipe EXCEPT ![g] = Append(@, d)]
      /\ hand \in [Claude!Starts -> 0..ClaudeSends] /\ pipe \in [Claude!Starts -> Seq(Claude!Sends)]
  BY DEF Claude!PrintLine, Claude!promptVars, ClaudeInv, Claude!PluginTypeOK
<1>2. d \in Claude!Sends /\ pipe[g] \in Seq(Claude!Sends) /\ Len(pipe[g]) \in Nat
  BY <1>1, ClaudePlaces DEF ClaudeInv
<1>3. /\ hand'[g] = 0 /\ pipe'[g] = Append(pipe[g], d)
      /\ \A h \in Claude!Starts : h # g => hand'[h] = hand[h] /\ pipe'[h] = pipe[h]
  BY <1>1
<1>4. /\ Len(pipe'[g]) = Len(pipe[g]) + 1 /\ pipe'[g][Len(pipe[g]) + 1] = d
      /\ \A i \in 1..Len(pipe[g]) : pipe'[g][i] = pipe[g][i]
  BY <1>2, <1>3, AppendAt
<1>5. ASSUME NEW h \in Claude!Starts, NEW i \in 1..Len(pipe'[h])
      PROVE  \/ i \in 1..Len(pipe[h]) /\ pipe'[h][i] = pipe[h][i]
             \/ h = g /\ i = Len(pipe[g]) + 1 /\ pipe'[h][i] = d
  <2>1. CASE h = g
    BY <1>2, <1>4, <2>1
  <2>2. CASE h # g
    BY <1>3, <2>2
  <2> QED
    BY <2>1, <2>2
<1>6. OnItsWay(view, truth, d) /\ (\A h \in Claude!Starts : hand'[h] # d)
  <2>1. OnItsWay(view, truth, d) /\ \A h \in Claude!Starts : hand[h] = d => h = g
    BY <1>1 DEF ClaudeInv, ClaudeOnce
  <2> QED
    BY <1>1, <1>3, <2>1
<1>7. \A h \in Claude!Starts : \A i \in 1..Len(pipe[h]) : pipe[h][i] # d
  BY DEF ClaudeInv, ClaudeOnce
<1> HIDE DEF d
<1>8. ClaudeOnce'
  <2>1. \A e \in Claude!Sends : view'[e] \in {"none", "waiting"} => truth'[e] = "none"
    BY <1>1 DEF ClaudeInv, ClaudeOnce
  <2>2. \A h \in Claude!Starts : hand'[h] # 0 => OnItsWay(view', truth', hand'[h])
    BY <1>1, <1>3 DEF ClaudeInv, ClaudeOnce
  <2>3. \A h \in Claude!Starts : \A i \in 1..Len(pipe'[h]) : OnItsWay(view', truth', pipe'[h][i])
    <3>1. \A h \in Claude!Starts : \A i \in 1..Len(pipe[h]) : OnItsWay(view, truth, pipe[h][i])
      BY DEF ClaudeInv, ClaudeOnce
    <3> QED
      BY <1>1, <1>5, <1>6, <3>1
  <2>4. \A h, k \in Claude!Starts : hand'[h] # 0 /\ hand'[h] = hand'[k] => h = k
    BY <1>3 DEF ClaudeInv, ClaudeOnce
  <2>5. \A h, k \in Claude!Starts : \A i \in 1..Len(pipe'[k]) : hand'[h] # pipe'[k][i]
    <3> SUFFICES ASSUME NEW h \in Claude!Starts, NEW k \in Claude!Starts, NEW i \in 1..Len(pipe'[k])
                 PROVE  hand'[h] # pipe'[k][i]
      OBVIOUS
    <3>1. CASE i \in 1..Len(pipe[k]) /\ pipe'[k][i] = pipe[k][i]
      <4>1. pipe[k][i] # 0
        BY <3>1, ClaudePlaces DEF ClaudeInv
      <4> QED
        BY <1>3, <3>1, <4>1 DEF ClaudeInv, ClaudeOnce
    <3>2. CASE pipe'[k][i] = d
      BY <1>6, <3>2
    <3> QED
      BY <1>5, <3>1, <3>2
  <2>6. \A h, k \in Claude!Starts : \A i \in 1..Len(pipe'[h]), j \in 1..Len(pipe'[k]) :
          pipe'[h][i] = pipe'[k][j] => h = k /\ i = j
    <3>1. \A h, k \in Claude!Starts : \A i \in 1..Len(pipe[h]), j \in 1..Len(pipe[k]) :
            pipe[h][i] = pipe[k][j] => h = k /\ i = j
      BY DEF ClaudeInv, ClaudeOnce
    <3> SUFFICES ASSUME NEW h \in Claude!Starts, NEW k \in Claude!Starts,
                        NEW i \in 1..Len(pipe'[h]), NEW j \in 1..Len(pipe'[k]),
                        pipe'[h][i] = pipe'[k][j]
                 PROVE  h = k /\ i = j
      OBVIOUS
    <3>2. \/ i \in 1..Len(pipe[h]) /\ pipe'[h][i] = pipe[h][i]
          \/ h = g /\ i = Len(pipe[g]) + 1 /\ pipe'[h][i] = d
      BY <1>5
    <3>3. \/ j \in 1..Len(pipe[k]) /\ pipe'[k][j] = pipe[k][j]
          \/ k = g /\ j = Len(pipe[g]) + 1 /\ pipe'[k][j] = d
      BY <1>5
    <3> QED
      BY <1>7, <3>1, <3>2, <3>3
  <2> QED
    BY <2>1, <2>2, <2>3, <2>4, <2>5, <2>6 DEF ClaudeOnce
<1>9. ClaudeWaits'
  BY <1>1 DEF ClaudeInv, ClaudeWaits
<1>10. ClaudeInOrder' /\ Claude!NeverAhead'
  BY <1>1 DEF ClaudeInv, ClaudeInOrder, Claude!NeverAhead
<1> QED
  BY <1>8, <1>9, <1>10

\* A line is read: not ours any more, or a new prompt.
LEMMA ClaudeReads ==
  ASSUME ClaudeInv, NEW g \in Claude!Starts, Claude!ReadLine(g)
  PROVE  ClaudeOnce' /\ ClaudeWaits' /\ ClaudeInOrder' /\ Claude!NeverAhead'
<1> DEFINE d == Head(pipe[g])
<1>1. /\ UNCHANGED <<view, chain, pending, hand>> /\ pipe[g] # << >>
      /\ truth \in [Claude!Sends -> Claude!Truths] /\ pipe \in [Claude!Starts -> Seq(Claude!Sends)]
      /\ prompts \in Seq(Claude!Sends)
  BY DEF Claude!ReadLine, ClaudeInv, Claude!PluginTypeOK, Claude!ReportsTypeOK
<1>2. CASE UNCHANGED <<truth, pipe, prompts>>
  BY <1>1, <1>2, ClaudeSame DEF ClaudeTold, ClaudeAwaited
<1>3. ASSUME pipe' = [pipe EXCEPT ![g] = Tail(@)], prompts' = prompts \o <<d>>,
             truth' = [truth EXCEPT ![d] = "queued"]
      PROVE  ClaudeOnce' /\ ClaudeWaits' /\ ClaudeInOrder' /\ Claude!NeverAhead'
  <2>1. pipe[g] \in Seq(Claude!Sends)
    BY <1>1
  <2>2. /\ Len(Tail(pipe[g])) = Len(pipe[g]) - 1 /\ Len(pipe[g]) \in Nat \ {0}
        /\ \A i \in 1..(Len(pipe[g]) - 1) : Tail(pipe[g])[i] = pipe[g][i + 1]
        /\ d = pipe[g][1] /\ d \in Claude!Sends
    BY <1>1, <2>1, TailAt
  <2>3. /\ pipe'[g] = Tail(pipe[g])
        /\ \A h \in Claude!Starts : h # g => pipe'[h] = pipe[h]
    BY <1>1, <1>3
  <2>4. truth'[d] = "queued" /\ \A e \in Claude!Sends : e # d => truth'[e] = truth[e]
    BY <1>1, <1>3, <2>2
  <2>5. 1 \in 1..Len(pipe[g])
    BY <2>2
  <2>6. /\ OnItsWay(view, truth, d)
        /\ \A h \in Claude!Starts : hand[h] # d
        /\ \A h \in Claude!Starts : \A i \in 1..Len(pipe[h]) : pipe[h][i] = d => h = g /\ i = 1
    BY <2>2, <2>5 DEF ClaudeInv, ClaudeOnce
  <2> DEFINE was(h, i) == IF h = g THEN i + 1 ELSE i
  <2>7. ASSUME NEW h \in Claude!Starts, NEW i \in 1..Len(pipe'[h])
        PROVE  /\ was(h, i) \in 1..Len(pipe[h]) /\ pipe'[h][i] = pipe[h][was(h, i)]
               /\ (h = g => was(h, i) # 1)
    <3>1. CASE h = g
      <4>1. i \in 1..(Len(pipe[g]) - 1) /\ pipe'[g] = Tail(pipe[g])
        BY <2>2, <2>3, <3>1
      <4>2. i + 1 \in 1..Len(pipe[g]) /\ i + 1 # 1 /\ pipe'[g][i] = pipe[g][i + 1]
        BY <2>2, <4>1
      <4> QED
        BY <3>1, <4>2
    <3>2. CASE h # g
      BY <2>3, <3>2
    <3> QED
      BY <3>1, <3>2
  <2>8. \A h \in Claude!Starts : \A i, j \in 1..Len(pipe'[h]) : was(h, i) = was(h, j) => i = j
    OBVIOUS
  <2> HIDE DEF d, was
  <2>9. \A h \in Claude!Starts : \A i \in 1..Len(pipe'[h]) :
          pipe'[h][i] # d /\ pipe'[h][i] \in Claude!Sends
    BY <2>6, <2>7, ClaudePlaces DEF ClaudeInv
  <2>10. \A e \in Claude!Sends : e # d /\ OnItsWay(view, truth, e) => OnItsWay(view', truth', e)
    BY <1>1, <2>4 DEF OnItsWay
  <2>11. ClaudeOnce'
    <3>1. \A e \in Claude!Sends : view'[e] \in {"none", "waiting"} => truth'[e] = "none"
      BY <1>1, <2>4, <2>6 DEF ClaudeInv, ClaudeOnce, OnItsWay
    <3>2. \A h \in Claude!Starts : hand'[h] # 0 => OnItsWay(view', truth', hand'[h])
      BY <1>1, <2>6, <2>10, ClaudePlaces DEF ClaudeInv, ClaudeOnce
    <3>3. \A h \in Claude!Starts : \A i \in 1..Len(pipe'[h]) : OnItsWay(view', truth', pipe'[h][i])
      BY <2>7, <2>9, <2>10 DEF ClaudeInv, ClaudeOnce
    <3>4. \A h, k \in Claude!Starts : hand'[h] # 0 /\ hand'[h] = hand'[k] => h = k
      BY <1>1 DEF ClaudeInv, ClaudeOnce
    <3>5. \A h, k \in Claude!Starts : \A i \in 1..Len(pipe'[k]) : hand'[h] # pipe'[k][i]
      <4>1. \A h, k \in Claude!Starts : \A i \in 1..Len(pipe[k]) : hand[h] # pipe[k][i]
        BY DEF ClaudeInv, ClaudeOnce
      <4> SUFFICES ASSUME NEW h \in Claude!Starts, NEW k \in Claude!Starts,
                          NEW i \in 1..Len(pipe'[k])
                   PROVE  hand'[h] # pipe'[k][i]
        OBVIOUS
      <4>2. was(k, i) \in 1..Len(pipe[k]) /\ pipe'[k][i] = pipe[k][was(k, i)]
        BY <2>7
      <4>3. hand[h] # pipe[k][was(k, i)]
        BY <4>1, <4>2
      <4> QED
        BY <1>1, <4>2, <4>3
    <3>6. \A h, k \in Claude!Starts : \A i \in 1..Len(pipe'[h]), j \in 1..Len(pipe'[k]) :
            pipe'[h][i] = pipe'[k][j] => h = k /\ i = j
      <4>1. \A h, k \in Claude!Starts : \A i \in 1..Len(pipe[h]), j \in 1..Len(pipe[k]) :
              pipe[h][i] = pipe[k][j] => h = k /\ i = j
        BY DEF ClaudeInv, ClaudeOnce
      <4> SUFFICES ASSUME NEW h \in Claude!Starts, NEW k \in Claude!Starts,
                          NEW i \in 1..Len(pipe'[h]), NEW j \in 1..Len(pipe'[k]),
                          pipe'[h][i] = pipe'[k][j]
                   PROVE  h = k /\ i = j
        OBVIOUS
      <4>2. was(h, i) \in 1..Len(pipe[h]) /\ pipe'[h][i] = pipe[h][was(h, i)]
        BY <2>7
      <4>3. was(k, j) \in 1..Len(pipe[k]) /\ pipe'[k][j] = pipe[k][was(k, j)]
        BY <2>7
      <4>5. \A x \in 1..Len(pipe[h]), y \in 1..Len(pipe[k]) :
              pipe[h][x] = pipe[k][y] => h = k /\ x = y
        BY <4>1
      <4>4. h = k /\ was(h, i) = was(k, j)
        BY <4>2, <4>3, <4>5
      <4> QED
        BY <2>8, <4>4
    <3> QED
      BY <3>1, <3>2, <3>3, <3>4, <3>5, <3>6 DEF ClaudeOnce
  <2>12. /\ Len(prompts') = Len(prompts) + 1 /\ prompts'[Len(prompts) + 1] = d
         /\ Len(prompts) \in Nat /\ \A i \in 1..Len(prompts) : prompts'[i] = prompts[i]
    BY <1>1, <1>3, <2>2
  <2>13. \A i \in 1..Len(prompts') : \/ i \in 1..Len(prompts) /\ prompts'[i] = prompts[i]
                                     \/ i = Len(prompts) + 1 /\ prompts'[i] = d
    BY <2>12
  <2>14. /\ \A i \in 1..Len(prompts) : prompts[i] # d
         /\ \A i \in 1..Len(pending) : pending[i] # d
    BY <2>6 DEF ClaudeInv, ClaudeWaits, OnItsWay
  <2>15. ClaudeWaits'
    <3>1. \A i \in 1..Len(prompts') : truth'[prompts'[i]] = "queued"
      BY <2>4, <2>13, <2>14, ClaudePlaces DEF ClaudeInv, ClaudeWaits
    <3>2. \A i \in 1..Len(pending') : truth'[pending'[i]] = "queued"
      BY <1>1, <2>4, <2>14, ClaudePlaces DEF ClaudeInv, ClaudeWaits
    <3>3. \A i, j \in 1..Len(prompts') : prompts'[i] = prompts'[j] => i = j
      <4>1. \A i, j \in 1..Len(prompts) : prompts[i] = prompts[j] => i = j
        BY DEF ClaudeInv, ClaudeWaits
      <4> QED
        BY <2>13, <2>14, <4>1
    <3>4. \A i \in 1..Len(prompts'), j \in 1..Len(pending') : prompts'[i] # pending'[j]
      <4>1. \A i \in 1..Len(prompts), j \in 1..Len(pending) : prompts[i] # pending[j]
        BY DEF ClaudeInv, ClaudeWaits
      <4> QED
        BY <1>1, <2>13, <2>14, <4>1
    <3>5. \A i, j \in 1..Len(pending') : pending'[i] = pending'[j] => i = j
      BY <1>1 DEF ClaudeInv, ClaudeWaits
    <3> QED
      BY <3>1, <3>2, <3>3, <3>4, <3>5 DEF ClaudeWaits
  <2>16. \A e \in Claude!Sends : truth[e] \in {"running", "over"} => truth'[e] = truth[e]
    BY <2>4, <2>6 DEF OnItsWay
  <2>17. ClaudeInOrder'
    BY <1>1, <2>16, ClaudeChainStays DEF ClaudeInOrder
  <2>18. Claude!NeverAhead'
    BY <1>1, <2>16 DEF ClaudeInv, Claude!NeverAhead
  <2> QED
    BY <2>11, <2>15, <2>17, <2>18
<1> QED
  BY <1>2, <1>3 DEF Claude!ReadLine, Claude!Submit

\* What a report put on the chain does to it.
LEMMA ClaudeChained ==
  ASSUME Claude!PluginTypeOK, NEW tr, NEW r \in Claude!ReportRows
  PROVE  LET t == Append(chain, r)
         IN /\ AllHonest(tr, chain) /\ Honest(tr, r) => AllHonest(tr, t)
            /\ NoEnd(chain) /\ r.event # "turn_ended" => NoEnd(t)
            /\ EndsFirst(tr, chain) /\ (r.event # "turn_ended" \/ NoneOfThisTurn(tr, chain))
                 => EndsFirst(tr, t)
<1>1. chain \in Seq(Claude!ReportRows)
  BY DEF Claude!PluginTypeOK
<1> QED
  BY <1>1, AppendKeeps

\* The timer of a prompt fires.
LEMMA ClaudeHolds ==
  ASSUME ClaudeInv, NEW d \in Claude!Sends, Claude!HeldAfter(d)
  PROVE  ClaudeOnce' /\ ClaudeWaits' /\ ClaudeInOrder' /\ Claude!NeverAhead'
<1>1. /\ UNCHANGED <<view, truth, prompts, pending, hand, pipe>>
      /\ chain' = Append(chain, Claude!Held(d))
  BY DEF Claude!HeldAfter, Claude!reportVars, Claude!processVars
<1>2. ClaudeOnce' /\ ClaudeWaits' /\ Claude!NeverAhead'
  BY <1>1 DEF ClaudeInv, ClaudeOnce, ClaudeWaits, Claude!NeverAhead
<1>3. Claude!Held(d) \in Claude!ReportRows /\ Claude!Held(d).event = "held"
  BY ClaudeRows
<1>4. Honest(truth, Claude!Held(d))
  BY <1>3 DEF Honest
<1>5. AllHonest(truth, chain') /\ EndsFirst(truth, chain') /\ (NoEnd(chain) => NoEnd(chain'))
  BY <1>1, <1>3, <1>4, ClaudeChained DEF ClaudeInv, ClaudeInOrder
<1> QED
  BY <1>1, <1>2, <1>5 DEF ClaudeInv, ClaudeInOrder

\* A turn starts: the first prompt is begun, once.
LEMMA ClaudeTurnStarts ==
  ASSUME ClaudeInv, Claude!TurnStarts
  PROVE  ClaudeOnce' /\ ClaudeWaits' /\ ClaudeInOrder' /\ Claude!NeverAhead'
<1> DEFINE d == Head(prompts)
<1>1. /\ UNCHANGED <<view, pending, hand, pipe>>
      /\ truth \in [Claude!Sends -> Claude!Truths] /\ prompts \in Seq(Claude!Sends)
  BY DEF Claude!TurnStarts, Claude!processVars, ClaudeInv, Claude!PluginTypeOK,
     Claude!ReportsTypeOK
<1>2. CASE UNCHANGED <<truth, prompts, chain>>
  BY <1>1, <1>2, ClaudeSame DEF ClaudeTold, ClaudeAwaited
<1>3. ASSUME prompts # << >>, prompts' = Tail(prompts), truth' = [truth EXCEPT ![d] = "running"],
             chain' = Append(chain, Claude!Landed(d))
      PROVE  ClaudeOnce' /\ ClaudeWaits' /\ ClaudeInOrder' /\ Claude!NeverAhead'
  <2>1. /\ Len(prompts') = Len(prompts) - 1 /\ Len(prompts) \in Nat \ {0}
        /\ \A i \in 1..(Len(prompts) - 1) : prompts'[i] = prompts[i + 1]
        /\ d = prompts[1] /\ d \in Claude!Sends
    BY <1>1, <1>3, TailAt
  <2>2. truth'[d] = "running" /\ \A e \in Claude!Sends : e # d => truth'[e] = truth[e]
    BY <1>1, <1>3, <2>1
  <2>3. /\ 1 \in 1..Len(prompts)
        /\ \A i \in 1..Len(prompts') :
             i + 1 \in 1..Len(prompts) /\ i + 1 # 1 /\ prompts'[i] = prompts[i + 1]
    BY <2>1
  <2>4. /\ truth[d] = "queued"
        /\ \A i \in 1..Len(prompts) : prompts[i] = d => i = 1
        /\ \A i \in 1..Len(pending) : pending[i] # d
    BY <2>1, <2>3 DEF ClaudeInv, ClaudeWaits
  <2>5. Claude!Landed(d) \in Claude!ReportRows /\ Claude!Landed(d).event = "landed"
        /\ Claude!Landed(d).of = d
    BY <2>1, ClaudeRows
  <2> HIDE DEF d
  <2>6. \A i \in 1..Len(prompts') : prompts'[i] # d
    BY <2>3, <2>4
  <2>7. /\ \A e \in Claude!Sends : view'[e] \in {"none", "waiting"} => truth'[e] = "none"
        /\ \A e \in Claude!Sends : OnItsWay(view, truth, e) => OnItsWay(view', truth', e)
    BY <1>1, <2>2, <2>4 DEF ClaudeInv, ClaudeOnce, OnItsWay
  <2>8. ClaudeOnce'
    BY <1>1, <2>7, ClaudeFewer
  <2>9. ClaudeWaits'
    <3>1. \A i \in 1..Len(prompts') : truth'[prompts'[i]] = "queued"
      BY <2>2, <2>3, <2>6, ClaudePlaces DEF ClaudeInv, ClaudeWaits
    <3>2. \A i \in 1..Len(pending') : truth'[pending'[i]] = "queued"
      BY <1>1, <2>2, <2>4, ClaudePlaces DEF ClaudeInv, ClaudeWaits
    <3>3. \A i, j \in 1..Len(prompts') : prompts'[i] = prompts'[j] => i = j
      <4> SUFFICES ASSUME NEW i \in 1..Len(prompts'), NEW j \in 1..Len(prompts'),
                          prompts'[i] = prompts'[j]
                   PROVE  i = j
        OBVIOUS
      <4>1. i + 1 = j + 1
        BY <2>3 DEF ClaudeInv, ClaudeWaits
      <4> QED
        BY <4>1
    <3>4. \A i \in 1..Len(prompts'), j \in 1..Len(pending') : prompts'[i] # pending'[j]
      <4>1. \A i \in 1..Len(prompts), j \in 1..Len(pending) : prompts[i] # pending[j]
        BY DEF ClaudeInv, ClaudeWaits
      <4> QED
        BY <1>1, <2>3, <4>1
    <3>5. \A i, j \in 1..Len(pending') : pending'[i] = pending'[j] => i = j
      BY <1>1 DEF ClaudeInv, ClaudeWaits
    <3> QED
      BY <3>1, <3>2, <3>3, <3>4, <3>5 DEF ClaudeWaits
  <2>10. \A e \in Claude!Sends : truth[e] \in {"running", "over"} => truth'[e] = truth[e]
    BY <2>2, <2>4
  <2>11. Honest(truth', Claude!Landed(d))
    BY <2>2, <2>5 DEF Honest
  <2>12. AllHonest(truth', chain) /\ EndsFirst(truth', chain)
    BY <2>10, ClaudeChainStays
  <2>13. /\ AllHonest(truth', chain') /\ EndsFirst(truth', chain')
         /\ (NoEnd(chain) => NoEnd(chain'))
    BY <1>3, <2>5, <2>11, <2>12, ClaudeChained DEF ClaudeInv
  <2>14. ClaudeInOrder'
    BY <1>1, <2>10, <2>13, ClaudeChainStays DEF ClaudeInOrder
  <2>15. Claude!NeverAhead'
    BY <1>1, <2>10 DEF ClaudeInv, Claude!NeverAhead
  <2> QED
    BY <2>8, <2>9, <2>14, <2>15
<1> QED
  BY <1>2, <1>3 DEF Claude!TurnStarts

\* A prompt is dropped: kept to be submitted again, or given up.
LEMMA ClaudeDrops ==
  ASSUME ClaudeInv, NEW n \in DOMAIN prompts, Claude!Drop(n)
  PROVE  ClaudeOnce' /\ ClaudeWaits' /\ ClaudeInOrder' /\ Claude!NeverAhead'
<1> DEFINE d == prompts[n]
<1>1. /\ UNCHANGED <<view, hand, pipe, chain>> /\ prompts' = Claude!Without(prompts, n)
      /\ truth \in [Claude!Sends -> Claude!Truths]
      /\ prompts \in Seq(Claude!Sends) /\ pending \in Seq(Claude!Sends)
  BY DEF Claude!Drop, Claude!processVars, ClaudeInv, Claude!PluginTypeOK, Claude!ReportsTypeOK
<1>2. n \in 1..Len(prompts) /\ Len(prompts) \in Nat /\ d \in Claude!Sends
  BY <1>1
<1>3. /\ Len(prompts') = Len(prompts) - 1
      /\ \A j \in 1..(Len(prompts) - 1) : prompts'[j] = prompts[IF j < n THEN j ELSE j + 1]
  BY <1>1, <1>2, WithoutAt
<1> DEFINE was(j) == IF j < n THEN j ELSE j + 1
<1>4. \A j \in 1..Len(prompts') : was(j) \in 1..Len(prompts) /\ was(j) # n
                                  /\ prompts'[j] = prompts[was(j)]
  BY <1>2, <1>3
<1>5. \A i, j \in 1..Len(prompts') : was(i) = was(j) => i = j
  BY <1>2, <1>3
<1>6. /\ truth[d] = "queued"
      /\ \A i \in 1..Len(prompts) : prompts[i] = d => i = n
      /\ \A i \in 1..Len(pending) : pending[i] # d
  BY <1>2 DEF ClaudeInv, ClaudeWaits
<1>7. \/ pending' = Append(pending, d) /\ truth' = truth
      \/ truth' = [truth EXCEPT ![d] = "none"] /\ pending' = pending
  BY DEF Claude!Drop
<1>8. \A e \in Claude!Sends : e # d => truth'[e] = truth[e]
  BY <1>1, <1>7
<1>9. truth'[d] \in {"queued", "none"}
  BY <1>1, <1>2, <1>6, <1>7
<1> HIDE DEF d, was
<1>10. \A j \in 1..Len(prompts') : prompts'[j] # d /\ prompts'[j] \in Claude!Sends
  BY <1>4, <1>6, ClaudePlaces DEF ClaudeInv
<1>11. /\ \A e \in Claude!Sends : view'[e] \in {"none", "waiting"} => truth'[e] = "none"
       /\ \A e \in Claude!Sends : OnItsWay(view, truth, e) => OnItsWay(view', truth', e)
  BY <1>1, <1>6, <1>8 DEF ClaudeInv, ClaudeOnce, OnItsWay
<1>12. ClaudeOnce'
  BY <1>1, <1>11, ClaudeFewer
<1>13. \A i, j \in 1..Len(prompts') : prompts'[i] = prompts'[j] => i = j
  <2>1. \A i, j \in 1..Len(prompts) : prompts[i] = prompts[j] => i = j
    BY DEF ClaudeInv, ClaudeWaits
  <2> QED
    BY <1>4, <1>5, <2>1
<1>14. \A i \in 1..Len(prompts') : truth'[prompts'[i]] = "queued"
  BY <1>4, <1>8, <1>10 DEF ClaudeInv, ClaudeWaits
<1>15. \A i \in 1..Len(prompts'), j \in 1..Len(pending) : prompts'[i] # pending[j]
  <2>1. \A i \in 1..Len(prompts), j \in 1..Len(pending) : prompts[i] # pending[j]
    BY DEF ClaudeInv, ClaudeWaits
  <2> QED
    BY <1>4, <2>1
<1>16. /\ \A i \in 1..Len(pending) : truth'[pending[i]] = "queued"
       /\ \A i, j \in 1..Len(pending) : pending[i] = pending[j] => i = j
  BY <1>6, <1>8, ClaudePlaces DEF ClaudeInv, ClaudeWaits
<1>17. ClaudeWaits'
  <2>1. CASE pending' = pending
    BY <1>13, <1>14, <1>15, <1>16, <2>1 DEF ClaudeWaits
  <2>2. CASE pending' = Append(pending, d) /\ truth' = truth
    <3>1. /\ Len(pending') = Len(pending) + 1 /\ Len(pending) \in Nat
          /\ pending'[Len(pending) + 1] = d
          /\ \A i \in 1..Len(pending) : pending'[i] = pending[i]
      BY <1>1, <1>2, <2>2, AppendAt DEF d
    <3>2. \A i \in 1..Len(pending') : \/ i \in 1..Len(pending) /\ pending'[i] = pending[i]
                                      \/ i = Len(pending) + 1 /\ pending'[i] = d
      BY <3>1
    <3>3. \A i \in 1..Len(pending') : truth'[pending'[i]] = "queued"
      BY <1>6, <1>16, <2>2, <3>2
    <3>4. \A i, j \in 1..Len(pending') : pending'[i] = pending'[j] => i = j
      BY <1>6, <1>16, <3>2
    <3>5. \A i \in 1..Len(prompts'), j \in 1..Len(pending') : prompts'[i] # pending'[j]
      BY <1>10, <1>15, <3>2
    <3> QED
      BY <1>13, <1>14, <3>3, <3>4, <3>5 DEF ClaudeWaits
  <2> QED
    BY <1>7, <2>1, <2>2
<1>18. \A e \in Claude!Sends : truth[e] \in {"running", "over"} => truth'[e] = truth[e]
  BY <1>6, <1>8
<1>19. ClaudeInOrder' /\ Claude!NeverAhead'
  <2>1. ClaudeInOrder'
    BY <1>1, <1>18, ClaudeChainStays DEF ClaudeInOrder
  <2>2. Claude!NeverAhead'
    BY <1>1, <1>18 DEF ClaudeInv, Claude!NeverAhead
  <2> QED
    BY <2>1, <2>2
<1> QED
  BY <1>12, <1>17, <1>19

\* The turn completes: what was kept is submitted, once, and the end comes after
\* all that landed.
LEMMA ClaudeCompletes ==
  ASSUME ClaudeInv, Claude!TurnCompletes
  PROVE  ClaudeOnce' /\ ClaudeWaits' /\ ClaudeInOrder' /\ Claude!NeverAhead'
<1>1. /\ UNCHANGED <<view, hand, pipe>> /\ prompts' = prompts \o pending /\ pending' = << >>
      /\ prompts \in Seq(Claude!Sends) /\ pending \in Seq(Claude!Sends)
      /\ \A d \in Claude!Sends : truth'[d] = IF truth[d] = "running" THEN "over" ELSE truth[d]
      /\ chain' = Append(chain, Claude!TurnEnded) \/ chain' = chain
  BY DEF Claude!TurnCompletes, Claude!Submit, Claude!Emptied, Claude!processVars, ClaudeInv,
     Claude!PluginTypeOK
<1>2. /\ \A e \in Claude!Sends : view'[e] \in {"none", "waiting"} => truth'[e] = "none"
      /\ \A e \in Claude!Sends : OnItsWay(view, truth, e) => OnItsWay(view', truth', e)
  BY <1>1 DEF ClaudeInv, ClaudeOnce, OnItsWay
<1>3. ClaudeOnce'
  BY <1>1, <1>2, ClaudeFewer
<1>4. /\ Len(prompts') = Len(prompts) + Len(pending) /\ Len(prompts) \in Nat /\ Len(pending) \in Nat
      /\ \A i \in 1..(Len(prompts) + Len(pending)) :
           prompts'[i] = IF i <= Len(prompts) THEN prompts[i] ELSE pending[i - Len(prompts)]
  BY <1>1, ConcatAt
<1>5. \A i \in 1..Len(prompts') :
        \/ i \in 1..Len(prompts) /\ prompts'[i] = prompts[i]
        \/ i - Len(prompts) \in 1..Len(pending) /\ prompts'[i] = pending[i - Len(prompts)]
  BY <1>4
<1>6. \A e \in Claude!Sends : truth[e] = "queued" => truth'[e] = "queued"
  BY <1>1
<1>7. ClaudeWaits'
  <2>1. Len(pending') = 0
    BY <1>1
  <2>2. \A i \in 1..Len(prompts') : truth'[prompts'[i]] = "queued"
    <3>1. /\ \A i \in 1..Len(prompts) : truth'[prompts[i]] = "queued"
          /\ \A i \in 1..Len(pending) : truth'[pending[i]] = "queued"
      BY <1>6, ClaudePlaces DEF ClaudeInv, ClaudeWaits
    <3> QED
      BY <1>5, <3>1
  <2>3. \A i, j \in 1..Len(prompts') : prompts'[i] = prompts'[j] => i = j
    <3> SUFFICES ASSUME NEW i \in 1..Len(prompts'), NEW j \in 1..Len(prompts'),
                        prompts'[i] = prompts'[j]
                 PROVE  i = j
      OBVIOUS
    <3>1. /\ \A x, y \in 1..Len(prompts) : prompts[x] = prompts[y] => x = y
          /\ \A x, y \in 1..Len(pending) : pending[x] = pending[y] => x = y
          /\ \A x \in 1..Len(prompts), y \in 1..Len(pending) : prompts[x] # pending[y]
      BY DEF ClaudeInv, ClaudeWaits
    <3>2. i = j \/ i - Len(prompts) = j - Len(prompts)
      BY <1>5, <3>1
    <3> QED
      BY <1>4, <3>2
  <2> QED
    BY <2>1, <2>2, <2>3 DEF ClaudeWaits
<1> DEFINE tr == truth'
<1>8. \A d \in Claude!Sends :
        tr[d] # "running" /\ (truth[d] \in {"running", "over"} => tr[d] = "over")
  BY <1>1
<1> HIDE DEF tr
<1>9. AllHonest(tr, chain) /\ NoneOfThisTurn(tr, chain) /\ EndsFirst(tr, chain)
  BY <1>8, ClaudePlaces, LineAtEnd DEF ClaudeInv, ClaudeInOrder
<1>10. Claude!TurnEnded \in Claude!ReportRows /\ Honest(tr, Claude!TurnEnded)
  BY ClaudeRows DEF Honest
<1>11. AllHonest(tr, chain') /\ EndsFirst(tr, chain')
  <2>1. CASE chain' = chain
    BY <1>9, <2>1
  <2>2. CASE chain' = Append(chain, Claude!TurnEnded)
    BY <1>9, <1>10, <2>2, ClaudeChained DEF ClaudeInv
  <2> QED
    BY <1>1, <2>1, <2>2
<1>12. ~ShownInTurn(Claude!Sends, view', tr)
  BY <1>8 DEF ShownInTurn
<1>13. ClaudeInOrder'
  BY <1>11, <1>12 DEF ClaudeInOrder, tr
<1>14. Claude!NeverAhead'
  BY <1>1 DEF ClaudeInv, Claude!NeverAhead
<1> QED
  BY <1>3, <1>7, <1>13, <1>14

\* The next report is taken by the server, or fails.
LEMMA ClaudeReports ==
  ASSUME ClaudeInv, Claude!ReportExits
  PROVE  ClaudeOnce' /\ ClaudeWaits' /\ ClaudeInOrder' /\ Claude!NeverAhead'
<1> DEFINE r == Head(chain)
<1>1. /\ UNCHANGED <<truth, prompts, pending, hand, pipe>>
      /\ view \in [Claude!Sends -> Claude!Views]
      /\ chain \in Seq(Claude!ReportRows) /\ chain # << >> /\ chain' = Tail(chain)
      /\ view' = view \/ view' = Claude!Told(r)
  BY DEF Claude!ReportExits, Claude!processVars, ClaudeInv, Claude!PluginTypeOK,
     Claude!ReportsTypeOK
<1>2. r \in Claude!ReportRows
  BY <1>1, TailAt
<1>3. /\ AllHonest(truth, chain') /\ Honest(truth, r)
      /\ NoEnd(chain) => NoEnd(chain') /\ r.event # "turn_ended"
      /\ EndsFirst(truth, chain') /\ (OfThisTurn(truth, r) => NoEnd(chain'))
  BY <1>1, TailKeeps DEF ClaudeInv, ClaudeInOrder
<1>4. \A d \in Claude!Sends :
        \/ view'[d] = view[d]
        \/ view[d] = "given" /\ view'[d] = "held"
        \/ r.event = "landed" /\ r.of = d /\ view[d] \in {"given", "held"} /\ view'[d] = "landed"
        \/ r.event = "turn_ended" /\ view[d] = "landed" /\ view'[d] = "ended"
  BY <1>1, <1>2, ClaudeToldIs
<1> HIDE DEF r
<1>5. /\ \A e \in Claude!Sends : view'[e] \in {"none", "waiting"} => truth'[e] = "none"
      /\ \A e \in Claude!Sends : OnItsWay(view, truth, e) => OnItsWay(view', truth', e)
  BY <1>1, <1>4 DEF ClaudeInv, ClaudeOnce, OnItsWay
<1>6. ClaudeOnce'
  BY <1>1, <1>5, ClaudeFewer
<1>7. ClaudeWaits'
  BY <1>1 DEF ClaudeInv, ClaudeWaits
<1>8. Claude!NeverAhead'
  <2> SUFFICES ASSUME NEW d \in Claude!Sends
               PROVE  /\ view'[d] = "landed" => truth[d] \in {"running", "over"}
                      /\ view'[d] = "ended" => truth[d] = "over"
    BY <1>1 DEF Claude!NeverAhead
  <2>1. /\ view[d] = "landed" => truth[d] \in {"running", "over"}
        /\ view[d] = "ended" => truth[d] = "over"
    BY DEF ClaudeInv, Claude!NeverAhead
  <2>2. r.event = "landed" /\ r.of = d => truth[d] \in {"running", "over"}
    BY <1>3 DEF Honest
  <2>3. r.event = "turn_ended" /\ view[d] = "landed" => truth[d] # "running"
    BY <1>3 DEF ClaudeInv, ClaudeInOrder, ShownInTurn
  <2> QED
    BY <1>4, <2>1, <2>2, <2>3
<1>9. ShownInTurn(Claude!Sends, view', truth) => NoEnd(chain')
  <2> SUFFICES ASSUME NEW d \in Claude!Sends, view'[d] = "landed", truth[d] = "running"
               PROVE  NoEnd(chain')
    BY DEF ShownInTurn
  <2>1. CASE view[d] = "landed"
    BY <1>3, <2>1 DEF ClaudeInv, ClaudeInOrder, ShownInTurn
  <2>2. CASE r.event = "landed" /\ r.of = d
    BY <1>3, <2>2 DEF OfThisTurn
  <2> QED
    BY <1>4, <2>1, <2>2
<1> QED
  BY <1>1, <1>3, <1>6, <1>7, <1>8, <1>9 DEF ClaudeInOrder

\* Every step of a Claude Code session keeps the invariant.
LEMMA ClaudeKeeps ==
  ASSUME ClaudeInv, Claude!Next PROVE ClaudeInv'
<1>1. CASE ClaudeQuiet
  BY <1>1, ClaudeQuietly, ClaudeSame DEF ClaudeInv
<1>2. CASE ~ClaudeQuiet
  <2>1. Claude!PluginTypeOK'
    BY <1>2, ClaudeTypes DEF ClaudeInv
  <2>2. ClaudeOnce' /\ ClaudeWaits' /\ ClaudeInOrder' /\ Claude!NeverAhead'
    BY <1>2, ClaudeLoses, ClaudePosted, ClaudeClaims, ClaudePrints, ClaudeReads, ClaudeHolds,
       ClaudeTurnStarts, ClaudeDrops, ClaudeCompletes, ClaudeReports
       DEF Claude!Next, Claude!Watching, ClaudeQuiet
  <2> QED
    BY <2>1, <2>2 DEF ClaudeInv
<1> QED
  BY <1>1, <1>2

\* Nothing posted, claimed or reported at the start.
LEMMA ClaudeBegins ==
  ASSUME Claude!ReportsInit, Claude!PluginInit PROVE ClaudeInv
<1>1. /\ \A d \in Claude!Sends : view[d] = "none" /\ truth[d] = "none"
      /\ prompts = << >> /\ pending = << >> /\ chain = << >>
      /\ \A g \in Claude!Starts : hand[g] = 0 /\ pipe[g] = << >>
  BY DEF Claude!ReportsInit, Claude!PluginInit
<1>2. /\ Len(prompts) = 0 /\ Len(pending) = 0 /\ Len(chain) = 0
      /\ \A g \in Claude!Starts : Len(pipe[g]) = 0
  BY <1>1
<1>3. Claude!PluginTypeOK
  <2>1. Claude!ReportsTypeOK
    <3>1. turn \in BOOLEAN /\ lost \in BOOLEAN
      BY DEF Claude!ReportsInit
    <3>2. view \in [Claude!Sends -> Claude!Views] /\ truth \in [Claude!Sends -> Claude!Truths]
      BY DEF Claude!ReportsInit, Claude!Views, Claude!Open, Claude!Truths
    <3>3. turns \in 0..ClaudeTurns
      BY ClaudeConstants DEF Claude!ReportsInit
    <3> QED
      BY <3>1, <3>2, <3>3 DEF Claude!ReportsTypeOK
  <2>2. /\ prompts \in Seq(Claude!Sends) /\ pending \in Seq(Claude!Sends)
        /\ chain \in Seq(Claude!ReportRows)
    BY <1>1
  <2>3. pipe \in [Claude!Starts -> Seq(Claude!Sends)]
    <3>1. << >> \in Seq(Claude!Sends)
      OBVIOUS
    <3> QED
      BY <3>1 DEF Claude!PluginInit
  <2>4. /\ watch \in [Claude!Starts -> {"none", "starting", "reading", "delay", "over"}]
        /\ child \in [Claude!Starts -> {"none", "up", "ending", "gone"}]
    BY DEF Claude!PluginInit
  <2>5. hand \in [Claude!Starts -> 0..ClaudeSends] /\ timers \subseteq Claude!Sends
    BY ClaudeConstants DEF Claude!PluginInit
  <2>6. /\ generation \in 0..MaxStarts /\ current \in 0..MaxStarts
        /\ crashes \in 0..MaxCrashes /\ drops \in 0..MaxDrops /\ failures \in 0..MaxFailures
    BY ClaudeConstants DEF Claude!PluginInit
  <2>7. landed \in BOOLEAN
    BY DEF Claude!PluginInit
  <2> QED
    BY <2>1, <2>2, <2>3, <2>4, <2>5, <2>6, <2>7 DEF Claude!PluginTypeOK
<1>4. ClaudeOnce /\ ClaudeWaits
  BY <1>1, <1>2 DEF ClaudeOnce, ClaudeWaits
<1>5. ClaudeInOrder /\ Claude!NeverAhead
  BY <1>1, <1>2 DEF ClaudeInOrder, AllHonest, EndsFirst, ShownInTurn, Claude!NeverAhead
<1> QED
  BY <1>3, <1>4, <1>5 DEF ClaudeInv

--------------------------------------------------------------------------------
(* A session of either.                                                     *)

IInv ==
  /\ harness \in {"pi", "claude"}
  /\ harness = "pi" => PiInv
  /\ harness = "claude" => ClaudeInv

LEMMA AgentsStart == Init => IInv
<1> SUFFICES ASSUME Init PROVE IInv
  OBVIOUS
<1>1. CASE harness = "pi" /\ Pi!ReportsInit
  BY <1>1, PiStarts DEF Init, IInv
<1>2. CASE harness = "claude" /\ Claude!ReportsInit
  BY <1>2, ClaudeBegins DEF Init, IInv
<1> QED
  BY <1>1, <1>2 DEF Init

LEMMA AgentsKeep == IInv /\ [Next]_vars => IInv'
<1> SUFFICES ASSUME IInv, [Next]_vars PROVE IInv'
  OBVIOUS
<1>1. CASE PiRuns /\ Pi!Next
  BY <1>1, PiKeeps DEF IInv, PiRuns
<1>2. CASE ClaudeRuns /\ Claude!Next
  BY <1>2, ClaudeKeeps DEF IInv, ClaudeRuns
<1>3. CASE UNCHANGED vars
  <2>1. PiInv => PiInv'
    <3> SUFFICES ASSUME PiInv PROVE PiInv'
      OBVIOUS
    <3>1. PiOnce' /\ PiInOrder' /\ Pi!NeverAhead'
      BY <1>3, PiSame DEF vars, reportVars, piVars, PiTold
    <3>2. Pi!ChannelTypeOK' /\ PiAnswered'
      BY <1>3 DEF vars, reportVars, piVars, PiInv, PiAnswered, Pi!ChannelTypeOK, Pi!ReportsTypeOK
    <3> QED
      BY <3>1, <3>2 DEF PiInv
  <2>2. ClaudeInv => ClaudeInv'
    <3> SUFFICES ASSUME ClaudeInv PROVE ClaudeInv'
      OBVIOUS
    <3>1. ClaudeOnce' /\ ClaudeWaits' /\ ClaudeInOrder' /\ Claude!NeverAhead'
      BY <1>3, ClaudeSame DEF vars, reportVars, claudeVars, ClaudeTold, ClaudeAwaited
    <3>2. Claude!PluginTypeOK'
      BY <1>3 DEF vars, reportVars, claudeVars, ClaudeInv, Claude!PluginTypeOK,
         Claude!ReportsTypeOK
    <3> QED
      BY <3>1, <3>2 DEF ClaudeInv
  <2> QED
    BY <1>3, <2>1, <2>2 DEF IInv, vars
<1> QED
  BY <1>1, <1>2, <1>3 DEF Next

\* What holds of a session of either harness, however its process, serve, turns
\* and reports follow one another.
LEMMA AgentsHold == Spec => []IInv
  BY AgentsStart, AgentsKeep, PTL DEF Spec

\* Every variable is of its kind and every queue within its room.
THEOREM AgentsTypes == Spec => []AgentsTypeOK
<1>1. IInv => AgentsTypeOK
  BY DEF IInv, AgentsTypeOK, PiInv, ClaudeInv
<1> QED
  BY <1>1, AgentsHold, PTL

\* The server is never ahead of the agent: a Send shown in the agent's turn is in
\* it, and one ended is over, for both ways to the agent.
THEOREM ServerNeverAhead == Spec => []NeverAhead
<1>1. IInv => NeverAhead
  BY DEF IInv, NeverAhead, PiInv, ClaudeInv
<1> QED
  BY <1>1, AgentsHold, PTL

\* No Send starts two turns of Claude Code or waits for two, however drops, turn
\* ends and restarts of the watch follow one another.
THEOREM EachSendOnce == Spec => []NothingTwice
<1>1. ASSUME ClaudeInv PROVE Claude!NothingTwice
  <2>1. prompts \in Seq(Claude!Sends) /\ pending \in Seq(Claude!Sends)
    BY <1>1 DEF ClaudeInv, Claude!PluginTypeOK
  <2>2. /\ Claude!Coming \in Seq(Claude!Sends)
        /\ Len(Claude!Coming) = Len(prompts) + Len(pending)
        /\ Len(prompts) \in Nat /\ Len(pending) \in Nat
        /\ \A i \in 1..(Len(prompts) + Len(pending)) :
             Claude!Coming[i] = IF i <= Len(prompts) THEN prompts[i] ELSE pending[i - Len(prompts)]
    BY <2>1, ConcatAt DEF Claude!Coming
  <2>3. DOMAIN Claude!Coming = 1..(Len(prompts) + Len(pending))
    BY <2>2
  <2> HIDE DEF Claude!Coming
  <2>4. ASSUME NEW i \in 1..(Len(prompts) + Len(pending))
        PROVE  \/ i \in 1..Len(prompts) /\ Claude!Coming[i] = prompts[i]
               \/ i - Len(prompts) \in 1..Len(pending)
                  /\ Claude!Coming[i] = pending[i - Len(prompts)]
    BY <2>2
  <2>5. /\ \A x, y \in 1..Len(prompts) : prompts[x] = prompts[y] => x = y
        /\ \A x, y \in 1..Len(pending) : pending[x] = pending[y] => x = y
        /\ \A x \in 1..Len(prompts), y \in 1..Len(pending) : prompts[x] # pending[y]
        /\ \A x \in 1..Len(prompts) : truth[prompts[x]] = "queued"
        /\ \A x \in 1..Len(pending) : truth[pending[x]] = "queued"
    BY <1>1 DEF ClaudeInv, ClaudeWaits
  <2>6. \A i \in DOMAIN Claude!Coming : truth[Claude!Coming[i]] = "queued"
    BY <2>3, <2>4, <2>5
  <2>7. ASSUME NEW i \in DOMAIN Claude!Coming, NEW j \in DOMAIN Claude!Coming,
               Claude!Coming[i] = Claude!Coming[j]
        PROVE  i = j
    <3>1. i = j \/ i - Len(prompts) = j - Len(prompts)
      BY <2>3, <2>4, <2>5, <2>7
    <3> QED
      BY <2>2, <2>3, <3>1
  <2> QED
    BY <2>6, <2>7 DEF Claude!NothingTwice
<1>2. IInv => NothingTwice
  BY <1>1 DEF IInv, NothingTwice
<1> QED
  BY <1>2, AgentsHold, PTL

--------------------------------------------------------------------------------
(* Both take the server for what Tenure promises.                           *)

\* How far a claim has come, and whose it is, as the server has it.
Seen(v) == IF v = "waiting" THEN "none" ELSE v
SeenHolder(v) == IF v \in {"given", "held", "landed"} THEN "here" ELSE "nobody"

LEMMA PiMapped ==
  ASSUME NEW d \in Pi!Sends
  PROVE  /\ [e \in Pi!Sends |-> IF view[e] = "waiting" THEN "none" ELSE view[e]][d]
              = Seen(view[d])
         /\ [e \in Pi!Sends |-> IF view[e] \in Pi!Open THEN "here" ELSE "nobody"][d]
              = SeenHolder(view[d])
         /\ [e \in Pi!Sends |-> IF view[e] = "waiting" THEN "none" ELSE view[e]]'[d]
              = Seen(view'[d])
         /\ [e \in Pi!Sends |-> IF view[e] \in Pi!Open THEN "here" ELSE "nobody"]'[d]
              = SeenHolder(view'[d])
BY DEF Seen, SeenHolder, Pi!Open

LEMMA PiServerStill ==
  ASSUME \A d \in Pi!Sends :
           /\ Seen(view'[d]) = Seen(view[d])
           /\ SeenHolder(view'[d]) = SeenHolder(view[d])
  PROVE  UNCHANGED Pi!Server!vars
BY PiMapped DEF Pi!Server!vars, Seen, SeenHolder, Pi!Open

LEMMA PiServerRows ==
  ASSUME view' \in [Pi!Sends -> Pi!Views]
  PROVE  Pi!Server!Rows'
BY DEF Pi!Server!Rows, Pi!Server!Views, Pi!Server!Open, Pi!Views, Pi!Open

LEMMA PiServerGives ==
  ASSUME view \in [Pi!Sends -> Pi!Views], NEW d \in Pi!Sends, Pi!ClaimNext(d)
  PROVE  Pi!Server!Give("here")
<1>1. view[d] = "waiting" /\ view'[d] = "given" /\ \A e \in Pi!Sends \ {d} : view'[e] = view[e]
  BY DEF Pi!ClaimNext
<1>2. Pi!Server!Rows'
  <2>1. view' \in [Pi!Sends -> Pi!Views]
    BY DEF Pi!ClaimNext, Pi!Views, Pi!Open
  <2> QED
    BY <2>1, PiServerRows
<1>3. [e \in Pi!Sends |-> IF view[e] = "waiting" THEN "none" ELSE view[e]][d] = "none"
      /\ Pi!Server!To(d, "given", "here")
  BY <1>1, PiMapped DEF Seen, SeenHolder, Pi!Server!To
<1>4. ASSUME NEW o \in Pi!Sends \ {d} PROVE Pi!Server!Same(o)
  BY <1>1, PiMapped DEF Pi!Server!Same, Pi!Server!To
<1> QED
  BY <1>2, <1>3, <1>4 DEF Pi!Server!Give

LEMMA PiServerTakes ==
  ASSUME view \in [Pi!Sends -> Pi!Views], NEW d \in Pi!Sends, Pi!TakenAway(d)
  PROVE  Pi!Server!TakeAway
<1>1. /\ view[d] \in {"given", "held", "landed"} /\ view'[d] = "taken"
      /\ \A e \in Pi!Sends \ {d} : view'[e] = view[e]
  BY DEF Pi!TakenAway, Pi!Open
<1>2. Pi!Server!Rows'
  <2>1. view' \in [Pi!Sends -> Pi!Views]
    BY DEF Pi!TakenAway, Pi!Views, Pi!Open
  <2> QED
    BY <2>1, PiServerRows
<1>3. Pi!Server!TakenAway(d)
  BY <1>1, PiMapped DEF Seen, SeenHolder, Pi!Server!TakenAway, Pi!Server!To, Pi!Server!Open
<1>4. ASSUME NEW o \in Pi!Sends \ {d} PROVE Pi!Server!Same(o)
  BY <1>1, PiMapped DEF Pi!Server!Same, Pi!Server!To
<1> QED
  BY <1>2, <1>3, <1>4 DEF Pi!Server!TakeAway

\* A report is what Tenure's of the same name is.
LEMMA PiServerHeld ==
  ASSUME view \in [Pi!Sends -> Pi!Views], NEW d \in Pi!Sends, view' = Pi!Told(Pi!Held(d))
  PROVE  IF view[d] \in Pi!Open THEN Pi!Server!Held("here", d) ELSE UNCHANGED Pi!Server!vars
<1>1. view' = [view EXCEPT ![d] = IF @ = "given" THEN "held" ELSE @]
  BY DEF Pi!Told, Pi!Held
<1>2. CASE view[d] \notin Pi!Open
  BY <1>1, <1>2, PiServerStill DEF Pi!Open
<1>3. CASE view[d] \in Pi!Open
  <2> DEFINE v == [e \in Pi!Sends |-> IF view[e] = "waiting" THEN "none" ELSE view[e]]
             h == [e \in Pi!Sends |-> IF view[e] \in Pi!Open THEN "here" ELSE "nobody"]
  <2>1. h[d] = "here" /\ h' = h
    BY <1>1, <1>3 DEF Pi!Open
  <2>2. v' = [v EXCEPT ![d] = IF @ = "given" THEN "held" ELSE @]
    BY <1>1, <1>3 DEF Pi!Open
  <2> QED
    BY <1>3, <2>1, <2>2 DEF Pi!Server!Held
<1> QED
  BY <1>2, <1>3

LEMMA PiServerLanded ==
  ASSUME view \in [Pi!Sends -> Pi!Views], NEW d \in Pi!Sends, view' = Pi!Told(Pi!Landed(d))
  PROVE  IF view[d] \in Pi!Open THEN Pi!Server!Landed("here", d) ELSE UNCHANGED Pi!Server!vars
<1>1. view' = [view EXCEPT ![d] = IF @ \in {"given", "held"} THEN "landed" ELSE @]
  BY DEF Pi!Told, Pi!Landed
<1>2. CASE view[d] \notin Pi!Open
  BY <1>1, <1>2, PiServerStill DEF Pi!Open
<1>3. CASE view[d] \in Pi!Open
  <2> DEFINE v == [e \in Pi!Sends |-> IF view[e] = "waiting" THEN "none" ELSE view[e]]
             h == [e \in Pi!Sends |-> IF view[e] \in Pi!Open THEN "here" ELSE "nobody"]
  <2>1. h[d] = "here" /\ h' = h
    BY <1>1, <1>3 DEF Pi!Open
  <2>2. v' = [v EXCEPT ![d] = IF @ \in {"given", "held"} THEN "landed" ELSE @]
    BY <1>1, <1>3 DEF Pi!Open
  <2> QED
    BY <1>3, <2>1, <2>2 DEF Pi!Server!Landed
<1> QED
  BY <1>2, <1>3

LEMMA PiServerEnds ==
  ASSUME view \in [Pi!Sends -> Pi!Views], view' = Pi!Told(Pi!TurnEnded)
  PROVE  Pi!Server!TurnEnded("here")
<1> DEFINE v == [e \in Pi!Sends |-> IF view[e] = "waiting" THEN "none" ELSE view[e]]
           h == [e \in Pi!Sends |-> IF view[e] \in Pi!Open THEN "here" ELSE "nobody"]
<1>1. view' = [d \in Pi!Sends |-> IF view[d] = "landed" THEN "ended" ELSE view[d]]
  BY DEF Pi!Told, Pi!TurnEnded
<1>2. \A d \in Pi!Sends : d \in Pi!Server!Ending("here") <=> view[d] = "landed"
  BY DEF Pi!Server!Ending, Pi!Open
<1>3. v' = [d \in Pi!Sends |-> IF d \in Pi!Server!Ending("here") THEN "ended" ELSE v[d]]
  BY <1>1, <1>2
<1>4. h' = [d \in Pi!Sends |-> IF d \in Pi!Server!Ending("here") THEN "nobody" ELSE h[d]]
  BY <1>1, <1>2 DEF Pi!Open
<1> QED
  BY <1>3, <1>4 DEF Pi!Server!TurnEnded

LEMMA PiReportsSpeak ==
  ASSUME view \in [Pi!Sends -> Pi!Views], NEW r \in Pi!ReportRows, view' = Pi!Told(r)
  PROVE  Pi!ToldAsNamed(r) /\ [Pi!Server!Next]_(Pi!Server!vars)
<1>1. Pi!ToldAsNamed(r)
  BY PiServerHeld, PiServerLanded, PiServerEnds DEF Pi!ToldAsNamed
<1>2. r = Pi!TurnEnded \/ \E d \in Pi!Sends : r = Pi!Held(d) \/ r = Pi!Landed(d)
  BY DEF Pi!ReportRows
<1> QED
  BY <1>1, <1>2 DEF Pi!ToldAsNamed, Pi!Server!Next

\* What any step on the session's side does to the server, Tenure allows.
LEMMA PiSpeaks ==
  ASSUME Pi!ChannelTypeOK, Pi!Next \/ UNCHANGED view
  PROVE  Pi!ServerSteps
<1>1. view \in [Pi!Sends -> Pi!Views]
  BY DEF Pi!ChannelTypeOK, Pi!ReportsTypeOK
<1>2. \/ UNCHANGED view
      \/ \E d \in Pi!Sends : Pi!Posted(d) \/ Pi!TakenAway(d) \/ Pi!ClaimNext(d)
      \/ posting \in Pi!ReportRows /\ view' = Pi!Told(posting)
  <2>1. CASE Pi!Around
    BY <2>1 DEF Pi!Around, Pi!Post, Pi!Taken, Pi!ServeStarts, Pi!ServeEnds, Pi!TurnStarts,
       Pi!TurnEnds, Pi!CallsTool, Pi!reportVars
  <2>2. CASE Pi!Loop
    BY <2>2 DEF Pi!Loop, Pi!LoopTop, Pi!LoopLook, Pi!LoopPresence, Pi!LoopWait,
       Pi!PollTimesOut, Pi!Torn, Pi!Notify, Pi!RestFindsNew, Pi!RestOver, Pi!reportVars
  <2>3. CASE Pi!Emit \/ Pi!Refuse \/ Pi!Discard \/ Pi!ReadReport \/ Pi!ReadCall \/ Pi!Answered
             \/ Pi!Take
    BY <2>3 DEF Pi!Emit, Pi!Refuse, Pi!Discard, Pi!ReadReport, Pi!ReadCall, Pi!Answered, Pi!Take,
       Pi!reportVars
  <2>4. CASE Pi!PostReport
    BY <2>4 DEF Pi!PostReport, Pi!ChannelTypeOK
  <2>5. ASSUME NEW d \in Pi!Sends, Pi!Answer(d) PROVE Pi!ClaimNext(d)
    BY <2>5 DEF Pi!Answer
  <2> QED
    BY <2>1, <2>2, <2>3, <2>4, <2>5 DEF Pi!Next
<1>3. [Pi!Server!Next]_(Pi!Server!vars)
  <2>1. CASE UNCHANGED view
    BY <2>1, PiServerStill
  <2>2. ASSUME NEW d \in Pi!Sends, Pi!Posted(d) PROVE UNCHANGED Pi!Server!vars
    BY <1>1, <2>2, PiServerStill DEF Pi!Posted, Seen, SeenHolder
  <2>3. ASSUME NEW d \in Pi!Sends, Pi!TakenAway(d) \/ Pi!ClaimNext(d)
        PROVE  Pi!Server!Next
    BY <1>1, <2>3, PiServerTakes, PiServerGives DEF Pi!Server!Next
  <2>4. CASE posting \in Pi!ReportRows /\ view' = Pi!Told(posting)
    BY <1>1, <2>4, PiReportsSpeak
  <2> QED
    BY <1>2, <2>1, <2>2, <2>3, <2>4
<1> QED
  BY <1>1, <1>3, PiReportsSpeak DEF Pi!ServerSteps

LEMMA PiServerStarts ==
  ASSUME Pi!ReportsInit PROVE Pi!Server!Init
BY DEF Pi!ReportsInit, Pi!Server!Init, Pi!Open

LEMMA ClaudeMapped ==
  ASSUME NEW d \in Claude!Sends
  PROVE  /\ [e \in Claude!Sends |-> IF view[e] = "waiting" THEN "none" ELSE view[e]][d]
              = Seen(view[d])
         /\ [e \in Claude!Sends |-> IF view[e] \in Claude!Open THEN "here" ELSE "nobody"][d]
              = SeenHolder(view[d])
         /\ [e \in Claude!Sends |-> IF view[e] = "waiting" THEN "none" ELSE view[e]]'[d]
              = Seen(view'[d])
         /\ [e \in Claude!Sends |-> IF view[e] \in Claude!Open THEN "here" ELSE "nobody"]'[d]
              = SeenHolder(view'[d])
BY DEF Seen, SeenHolder, Claude!Open

LEMMA ClaudeServerStill ==
  ASSUME \A d \in Claude!Sends :
           /\ Seen(view'[d]) = Seen(view[d])
           /\ SeenHolder(view'[d]) = SeenHolder(view[d])
  PROVE  UNCHANGED Claude!Server!vars
BY ClaudeMapped DEF Claude!Server!vars, Seen, SeenHolder, Claude!Open

LEMMA ClaudeServerRows ==
  ASSUME view' \in [Claude!Sends -> Claude!Views]
  PROVE  Claude!Server!Rows'
BY DEF Claude!Server!Rows, Claude!Server!Views, Claude!Server!Open, Claude!Views, Claude!Open

LEMMA ClaudeServerGives ==
  ASSUME view \in [Claude!Sends -> Claude!Views], NEW d \in Claude!Sends, Claude!ClaimNext(d)
  PROVE  Claude!Server!Give("here")
<1>1. view[d] = "waiting" /\ view'[d] = "given" /\ \A e \in Claude!Sends \ {d} : view'[e] = view[e]
  BY DEF Claude!ClaimNext
<1>2. Claude!Server!Rows'
  <2>1. view' \in [Claude!Sends -> Claude!Views]
    BY DEF Claude!ClaimNext, Claude!Views, Claude!Open
  <2> QED
    BY <2>1, ClaudeServerRows
<1>3. [e \in Claude!Sends |-> IF view[e] = "waiting" THEN "none" ELSE view[e]][d] = "none"
      /\ Claude!Server!To(d, "given", "here")
  BY <1>1, ClaudeMapped DEF Seen, SeenHolder, Claude!Server!To
<1>4. ASSUME NEW o \in Claude!Sends \ {d} PROVE Claude!Server!Same(o)
  BY <1>1, ClaudeMapped DEF Claude!Server!Same, Claude!Server!To
<1> QED
  BY <1>2, <1>3, <1>4 DEF Claude!Server!Give

LEMMA ClaudeServerTakes ==
  ASSUME view \in [Claude!Sends -> Claude!Views], NEW d \in Claude!Sends, Claude!TakenAway(d)
  PROVE  Claude!Server!TakeAway
<1>1. /\ view[d] \in {"given", "held", "landed"} /\ view'[d] = "taken"
      /\ \A e \in Claude!Sends \ {d} : view'[e] = view[e]
  BY DEF Claude!TakenAway, Claude!Open
<1>2. Claude!Server!Rows'
  <2>1. view' \in [Claude!Sends -> Claude!Views]
    BY DEF Claude!TakenAway, Claude!Views, Claude!Open
  <2> QED
    BY <2>1, ClaudeServerRows
<1>3. Claude!Server!TakenAway(d)
  BY <1>1, ClaudeMapped DEF Seen, SeenHolder, Claude!Server!TakenAway, Claude!Server!To,
     Claude!Server!Open
<1>4. ASSUME NEW o \in Claude!Sends \ {d} PROVE Claude!Server!Same(o)
  BY <1>1, ClaudeMapped DEF Claude!Server!Same, Claude!Server!To
<1> QED
  BY <1>2, <1>3, <1>4 DEF Claude!Server!TakeAway

LEMMA ClaudeServerHeld ==
  ASSUME view \in [Claude!Sends -> Claude!Views],
         NEW d \in Claude!Sends, view' = Claude!Told(Claude!Held(d))
  PROVE  IF view[d] \in Claude!Open THEN Claude!Server!Held("here", d)
         ELSE UNCHANGED Claude!Server!vars
<1>1. view' = [view EXCEPT ![d] = IF @ = "given" THEN "held" ELSE @]
  BY DEF Claude!Told, Claude!Held
<1>2. CASE view[d] \notin Claude!Open
  BY <1>1, <1>2, ClaudeServerStill DEF Claude!Open
<1>3. CASE view[d] \in Claude!Open
  <2> DEFINE v == [e \in Claude!Sends |-> IF view[e] = "waiting" THEN "none" ELSE view[e]]
             h == [e \in Claude!Sends |-> IF view[e] \in Claude!Open THEN "here" ELSE "nobody"]
  <2>1. h[d] = "here" /\ h' = h
    BY <1>1, <1>3 DEF Claude!Open
  <2>2. v' = [v EXCEPT ![d] = IF @ = "given" THEN "held" ELSE @]
    BY <1>1, <1>3 DEF Claude!Open
  <2> QED
    BY <1>3, <2>1, <2>2 DEF Claude!Server!Held
<1> QED
  BY <1>2, <1>3

LEMMA ClaudeServerLanded ==
  ASSUME view \in [Claude!Sends -> Claude!Views],
         NEW d \in Claude!Sends, view' = Claude!Told(Claude!Landed(d))
  PROVE  IF view[d] \in Claude!Open THEN Claude!Server!Landed("here", d)
         ELSE UNCHANGED Claude!Server!vars
<1>1. view' = [view EXCEPT ![d] = IF @ \in {"given", "held"} THEN "landed" ELSE @]
  BY DEF Claude!Told, Claude!Landed
<1>2. CASE view[d] \notin Claude!Open
  BY <1>1, <1>2, ClaudeServerStill DEF Claude!Open
<1>3. CASE view[d] \in Claude!Open
  <2> DEFINE v == [e \in Claude!Sends |-> IF view[e] = "waiting" THEN "none" ELSE view[e]]
             h == [e \in Claude!Sends |-> IF view[e] \in Claude!Open THEN "here" ELSE "nobody"]
  <2>1. h[d] = "here" /\ h' = h
    BY <1>1, <1>3 DEF Claude!Open
  <2>2. v' = [v EXCEPT ![d] = IF @ \in {"given", "held"} THEN "landed" ELSE @]
    BY <1>1, <1>3 DEF Claude!Open
  <2> QED
    BY <1>3, <2>1, <2>2 DEF Claude!Server!Landed
<1> QED
  BY <1>2, <1>3

LEMMA ClaudeServerEnds ==
  ASSUME view \in [Claude!Sends -> Claude!Views], view' = Claude!Told(Claude!TurnEnded)
  PROVE  Claude!Server!TurnEnded("here")
<1> DEFINE v == [e \in Claude!Sends |-> IF view[e] = "waiting" THEN "none" ELSE view[e]]
           h == [e \in Claude!Sends |-> IF view[e] \in Claude!Open THEN "here" ELSE "nobody"]
<1>1. view' = [d \in Claude!Sends |-> IF view[d] = "landed" THEN "ended" ELSE view[d]]
  BY DEF Claude!Told, Claude!TurnEnded
<1>2. \A d \in Claude!Sends : d \in Claude!Server!Ending("here") <=> view[d] = "landed"
  BY DEF Claude!Server!Ending, Claude!Open
<1>3. v' = [d \in Claude!Sends |-> IF d \in Claude!Server!Ending("here") THEN "ended" ELSE v[d]]
  BY <1>1, <1>2
<1>4. h' = [d \in Claude!Sends |-> IF d \in Claude!Server!Ending("here") THEN "nobody" ELSE h[d]]
  BY <1>1, <1>2 DEF Claude!Open
<1> QED
  BY <1>3, <1>4 DEF Claude!Server!TurnEnded

LEMMA ClaudeReportsSpeak ==
  ASSUME view \in [Claude!Sends -> Claude!Views],
         NEW r \in Claude!ReportRows, view' = Claude!Told(r)
  PROVE  Claude!ToldAsNamed(r) /\ [Claude!Server!Next]_(Claude!Server!vars)
<1>1. Claude!ToldAsNamed(r)
  BY ClaudeServerHeld, ClaudeServerLanded, ClaudeServerEnds DEF Claude!ToldAsNamed
<1>2. r = Claude!TurnEnded \/ \E d \in Claude!Sends : r = Claude!Held(d) \/ r = Claude!Landed(d)
  BY DEF Claude!ReportRows
<1> QED
  BY <1>1, <1>2 DEF Claude!ToldAsNamed, Claude!Server!Next

LEMMA ClaudeServerStarts ==
  ASSUME Claude!ReportsInit PROVE Claude!Server!Init
BY DEF Claude!ReportsInit, Claude!Server!Init, Claude!Open

LEMMA ClaudeSpeaks ==
  ASSUME Claude!PluginTypeOK, Claude!Next \/ UNCHANGED view
  PROVE  Claude!ServerSteps
<1>1. view \in [Claude!Sends -> Claude!Views]
  BY DEF Claude!PluginTypeOK, Claude!ReportsTypeOK
<1>2. \/ UNCHANGED view
      \/ \E d \in Claude!Sends : Claude!Posted(d) \/ Claude!TakenAway(d) \/ Claude!ClaimNext(d)
      \/ \E r \in Claude!ReportRows : view' = Claude!Told(r)
  <2>1. CASE Claude!Start \/ Claude!TurnStarts \/ Claude!TurnCompletes
             \/ \E i \in DOMAIN prompts : Claude!Drop(i)
    BY <2>1 DEF Claude!Start, Claude!TurnStarts, Claude!TurnCompletes, Claude!Drop,
       Claude!reportVars
  <2>2. CASE Claude!ReportExits
    <3>1. chain # << >> /\ chain \in Seq(Claude!ReportRows)
      BY <2>2 DEF Claude!ReportExits, Claude!PluginTypeOK
    <3>2. Head(chain) \in Claude!ReportRows
      BY <3>1, TailAt
    <3> QED
      BY <2>2, <3>2 DEF Claude!ReportExits
  <2>3. ASSUME NEW d \in Claude!Sends, Claude!Post(d) \/ Claude!Taken(d) \/ Claude!HeldAfter(d)
        PROVE  Claude!Posted(d) \/ Claude!TakenAway(d) \/ UNCHANGED view
    BY <2>3 DEF Claude!Post, Claude!Taken, Claude!HeldAfter, Claude!reportVars
  <2>4. ASSUME NEW g \in Claude!Starts,
               Claude!Watching(g) \/ Claude!SpawnFails(g) \/ Claude!ChildEnds(g)
        PROVE  UNCHANGED view
    BY <2>4 DEF Claude!Watching, Claude!Spawn, Claude!ReadLine, Claude!WatchEnds,
       Claude!Restart, Claude!PrintLine, Claude!ChildEnds, Claude!SpawnFails, Claude!reportVars
  <2>5. ASSUME NEW g \in Claude!Starts, NEW d \in Claude!Sends, Claude!Claim(g, d)
        PROVE  Claude!ClaimNext(d)
    BY <2>5 DEF Claude!Claim
  <2> QED
    BY <2>1, <2>2, <2>3, <2>4, <2>5 DEF Claude!Next
<1>3. [Claude!Server!Next]_(Claude!Server!vars)
  <2>1. CASE UNCHANGED view
    BY <2>1, ClaudeServerStill
  <2>2. ASSUME NEW d \in Claude!Sends, Claude!Posted(d) PROVE UNCHANGED Claude!Server!vars
    BY <1>1, <2>2, ClaudeServerStill DEF Claude!Posted, Seen, SeenHolder
  <2>3. ASSUME NEW d \in Claude!Sends, Claude!TakenAway(d) \/ Claude!ClaimNext(d)
        PROVE  Claude!Server!Next
    BY <1>1, <2>3, ClaudeServerTakes, ClaudeServerGives DEF Claude!Server!Next
  <2>4. ASSUME NEW r \in Claude!ReportRows, view' = Claude!Told(r)
        PROVE  [Claude!Server!Next]_(Claude!Server!vars)
    BY <1>1, <2>4, ClaudeReportsSpeak
  <2> QED
    BY <1>2, <2>1, <2>2, <2>3, <2>4
<1> QED
  BY <1>1, <1>3, ClaudeReportsSpeak DEF Claude!ServerSteps

\* Whatever a session of either harness does, and whatever happens to it, the server
\* it is modelled against goes on as Tenure does, and of a report that comes late, or
\* again, or after the Send was taken away, it has Tenure's idea; so has ThreadStore
\* (StoreImplementsTenure).  A reply, Tenure's Answer, is a step of ThreadStore alone:
\* no session here gives one.
THEOREM AgentsSpeakTenure == Spec => SpeaksTenure
<1>1. Init => (harness = "pi" => Pi!Server!Init) /\ (harness = "claude" => Claude!Server!Init)
  BY PiServerStarts, ClaudeServerStarts DEF Init
<1>2. IInv /\ [Next]_vars => [/\ harness = "pi" => Pi!ServerSteps
                              /\ harness = "claude" => Claude!ServerSteps]_vars
  <2> SUFFICES ASSUME IInv, [Next]_vars
               PROVE  /\ harness = "pi" => Pi!ServerSteps
                      /\ harness = "claude" => Claude!ServerSteps
    OBVIOUS
  <2>1. UNCHANGED vars => UNCHANGED view
    BY DEF vars, reportVars
  <2>2. harness = "pi" => Pi!ChannelTypeOK /\ (Pi!Next \/ UNCHANGED view)
    BY <2>1 DEF IInv, PiInv, Next, PiRuns, ClaudeRuns
  <2>3. harness = "claude" => Claude!PluginTypeOK /\ (Claude!Next \/ UNCHANGED view)
    BY <2>1 DEF IInv, ClaudeInv, Next, PiRuns, ClaudeRuns
  <2> QED
    BY <2>2, <2>3, PiSpeaks, ClaudeSpeaks
<1> QED
  BY <1>1, <1>2, AgentsHold, PTL DEF Spec, SpeaksTenure
================================================================================
