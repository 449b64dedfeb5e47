-------------------------------- MODULE Handout --------------------------------
(***************************************************************************)
(* What the thread store promises of each message, without batches,        *)
(* deliveries, tokens or clocks (threadstore's package comment): a sent    *)
(* message waits until it is given to one session; only that session's     *)
(* reports and replies move it on; it may be taken back and given to       *)
(* another until it is settled, and then it stays.  ThreadStore implements *)
(* this.                                                                   *)
(***************************************************************************)
CONSTANTS Messages, Sessions, Nobody

VARIABLES
  stage,    \* how far each message has come
  holder    \* the session that has it

vars == <<stage, holder>>

Stages == {"unsent", "gone", "waiting", "given", "reached", "unanswered", "settled"}

Init ==
  /\ stage = [m \in Messages |-> "unsent"]
  /\ holder = [m \in Messages |-> Nobody]

To(m, st, who) == stage'[m] = st /\ holder'[m] = who
Same(m) == To(m, stage[m], holder[m])

Rows == stage \in [Messages -> Stages] /\ holder \in [Messages -> Sessions \cup {Nobody}]

(* A step moves any number of messages, each the same way.                  *)

\* A message is sent, or thrown away as a draft.
Sent(m) == stage[m] = "unsent" /\ \E st \in {"waiting", "gone"} : To(m, st, Nobody)
Write == Rows' /\ \A m \in Messages : Same(m) \/ Sent(m)

\* s is given what waits, what no agent was seen to have, and what it takes from
\* others; what it leaves of theirs waits.
GivenTo(s, m) ==
  /\ \/ stage[m] \in {"waiting", "given"}
     \/ stage[m] \in {"reached", "unanswered"} /\ holder[m] # s
  /\ To(m, "given", s)
Back(m) == stage[m] \in {"given", "reached", "unanswered"} /\ To(m, "waiting", Nobody)
Give(s) == Rows' /\ \A m \in Messages : Same(m) \/ GivenTo(s, m) \/ Back(m)

\* s says what became of what it holds: it reached the agent, was settled by it,
\* or the turn ended without.
ReportedBy(s, m) ==
  /\ holder[m] = s
  /\ \/ stage[m] \in {"given", "reached"} /\ \E st \in {"reached", "unanswered"} : To(m, st, s)
     \/ stage[m] \in {"given", "reached", "unanswered"} /\ To(m, "settled", s)
Report(s) == Rows' /\ \A m \in Messages : Same(m) \/ ReportedBy(s, m)

\* Court, or the next serve, takes messages back or gives them up.
TakeBack == Rows' /\ \A m \in Messages : Same(m) \/ Back(m)
GivenUp(m) == stage[m] \in {"given", "reached"} /\ To(m, "unanswered", holder[m])
GiveUp == Rows' /\ \A m \in Messages : Same(m) \/ GivenUp(m)

Next == Write \/ TakeBack \/ GiveUp \/ \E s \in Sessions : Give(s) \/ Report(s)

Spec == Init /\ [][Next]_vars
===============================================================================
