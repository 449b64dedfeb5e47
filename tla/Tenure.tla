-------------------------------- MODULE Tenure --------------------------------
(***************************************************************************)
(* What the thread store promises of each token it hands out with a        *)
(* delivery (threadstore/delivery.go): it names one claim of one session;  *)
(* that session's reports and replies move the claim on, everybody else    *)
(* can only take it away, and once it is over no report revives it.        *)
(* ThreadStore implements this for all sessions, and Reports, what one     *)
(* session speaks to, for one: between them it is the contract.            *)
(***************************************************************************)
CONSTANTS Claims, Sessions, Nobody

VARIABLES
  view,     \* how far each claim has come
  holder    \* the session whose it is, while it is open

vars == <<view, holder>>

Open  == {"given", "held", "landed"}
Views == Open \cup {"none", "ended", "taken"}

Init == view = [c \in Claims |-> "none"] /\ holder = [c \in Claims |-> Nobody]

To(c, v, who) == view'[c] = v /\ holder'[c] = who
Same(c) == To(c, view[c], holder[c])

Rows == view \in [Claims -> Views] /\ holder \in [Claims -> Sessions \cup {Nobody}]

\* A claim ends with a takeover, the next claim of its delivery, or recovery.
TakenAway(c) == view[c] \in Open /\ To(c, "taken", Nobody)
TakeAway == Rows' /\ \A c \in Claims : Same(c) \/ TakenAway(c)

\* s claims: one token that was never given, at the cost of others' claims.
Give(s) ==
  Rows' /\ \E c \in Claims :
    /\ view[c] = "none" /\ To(c, "given", s)
    /\ \A o \in Claims \ {c} : Same(o) \/ TakenAway(o)

\* The three reports of s: on a token that is its own, or at its turn's end.
Held(s, c) ==
  /\ holder[c] = s /\ UNCHANGED holder
  /\ view' = [view EXCEPT ![c] = IF @ = "given" THEN "held" ELSE @]

Landed(s, c) ==
  /\ holder[c] = s /\ UNCHANGED holder
  /\ view' = [view EXCEPT ![c] = IF @ \in {"given", "held"} THEN "landed" ELSE @]

Ending(s) == {c \in Claims : holder[c] = s /\ view[c] = "landed"}
TurnEnded(s) ==
  /\ view' = [c \in Claims |-> IF c \in Ending(s) THEN "ended" ELSE view[c]]
  /\ holder' = [c \in Claims |-> IF c \in Ending(s) THEN Nobody ELSE holder[c]]

\* s answers from some of its claims, or names those its turn ended with.
Answered(s, c) ==
  /\ holder[c] = s /\ view[c] \in Open
  /\ To(c, "landed", s) \/ To(c, "ended", Nobody)
Answer(s) == Rows' /\ \A c \in Claims : Same(c) \/ Answered(s, c)

Next ==
  \/ TakeAway
  \/ \E s \in Sessions : \/ Give(s) \/ TurnEnded(s) \/ Answer(s)
                         \/ \E c \in Claims : Held(s, c) \/ Landed(s, c)

Spec == Init /\ [][Next]_vars
===============================================================================
