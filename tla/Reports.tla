------------------------------- MODULE Reports -------------------------------
(***************************************************************************)
(* What a session's Sends are to the tool's server and to the agent, and   *)
(* what the harness's three reports do to them (channelmcp/report.go,      *)
(* threadstore Held, Landed and TurnEnded).  Shared by the two ways a Send *)
(* reaches an agent: Channel (pi) and Plugin (Claude Code).                *)
(*                                                                         *)
(* A Send here is one claim of a delivery for this session.  Another may   *)
(* take it over, or Court take it back: that is in ThreadStore, and what   *)
(* the two have to agree on is Tenure.                                     *)
(***************************************************************************)
EXTENDS Integers, Sequences

CONSTANTS
  MaxSends,   \* bound: Sends posted
  MaxTurns    \* bound: turns the agent runs

ReportsConstants == MaxSends \in Nat /\ MaxTurns \in Nat

Sends == 1..MaxSends

VARIABLES
  view,     \* each Send as the server knows it
  truth,    \* each Send as it is with the agent
  turn,     \* the agent is in a turn
  turns,    \* how many it has begun
  lost      \* history: a claimed Send or a report was given up on

reportVars == <<view, truth, turn, turns, lost>>

Open   == {"given", "held", "landed"}
Views  == Open \cup {"none", "waiting", "ended", "taken"}
Truths == {"none", "queued", "running", "over"}

TurnEnded == [event |-> "turn_ended", of |-> 0]
Landed(d) == [event |-> "landed", of |-> d]
Held(d)   == [event |-> "held", of |-> d]
ReportRows == {TurnEnded} \cup {Landed(d) : d \in Sends} \cup {Held(d) : d \in Sends}

ReportsInit ==
  /\ view = [d \in Sends |-> "none"] /\ truth = [d \in Sends |-> "none"]
  /\ turn = FALSE /\ turns = 0 /\ lost = FALSE

\* Court posts the next Send.
Posted(d) ==
  /\ view[d] = "none" /\ \A e \in Sends : e < d => view[e] # "none"
  /\ view' = [view EXCEPT ![d] = "waiting"]

\* The wait's claim: the oldest Send waiting.
ClaimNext(d) ==
  /\ view[d] = "waiting" /\ \A e \in Sends : e < d => view[e] # "waiting"
  /\ view' = [view EXCEPT ![d] = "given"]

\* Another session's claim, a release or an interrupt ends it: the server takes
\* no report of it any more.
TakenAway(d) ==
  /\ view[d] \in Open /\ view' = [view EXCEPT ![d] = "taken"]

EndsGiven(r) ==   \* mutant: a turn's end ends all the session has
  CASE r.event = "held" ->
         [view EXCEPT ![r.of] = IF @ = "given" THEN "held" ELSE @]
    [] r.event = "landed" ->
         [view EXCEPT ![r.of] = IF @ \in {"given", "held"} THEN "landed" ELSE @]
    [] r.event = "turn_ended" ->
         [d \in Sends |-> IF view[d] \in {"given", "held", "landed"} THEN "ended" ELSE view[d]]
LandsGiven(r) ==   \* mutant: a held Send cannot land
  CASE r.event = "held" ->
         [view EXCEPT ![r.of] = IF @ = "given" THEN "held" ELSE @]
    [] r.event = "landed" ->
         [view EXCEPT ![r.of] = IF @ = "given" THEN "landed" ELSE @]
    [] r.event = "turn_ended" ->
         [d \in Sends |-> IF view[d] = "landed" THEN "ended" ELSE view[d]]

\* The server takes a report: held before it landed, landed once, and a turn
\* end for all that landed and has not ended.
Told(r) ==
  CASE r.event = "held" ->
         [view EXCEPT ![r.of] = IF @ = "given" THEN "held" ELSE @]
    [] r.event = "landed" ->
         [view EXCEPT ![r.of] = IF @ \in {"given", "held"} THEN "landed" ELSE @]
    [] r.event = "turn_ended" ->
         [d \in Sends |-> IF view[d] = "landed" THEN "ended" ELSE view[d]]

Queued == {d \in Sends : truth[d] = "queued"}
Running == {d \in Sends : truth[d] = "running"}

\* Each Send is somewhere at the server and somewhere with the agent.
ReportsTypeOK ==
  /\ view \in [Sends -> Views] /\ truth \in [Sends -> Truths]
  /\ turn \in BOOLEAN /\ turns \in 0..MaxTurns /\ lost \in BOOLEAN

\* The server is never ahead of the agent: it shows a Send as in the agent's
\* turn only once it is, and ends it (its messages unanswered for good) only
\* once that turn is over, whatever is dropped, late or queued on the way.
NeverAhead ==
  \A d \in Sends :
    /\ view[d] = "landed" => truth[d] \in {"running", "over"}
    /\ view[d] = "ended" => truth[d] = "over"

\* What the agent finished the server ends, unless it was taken away or a report
\* given up on: a full queue, no serve to post to, a report command that failed.
EndsAreTold ==
  \A d \in Sends : (truth[d] = "over") ~> (view[d] \in {"ended", "taken"} \/ lost)

\* A Send claimed for this session reaches its agent, unless the answer broke
\* off or the process that had it ended: nothing is left between the claim,
\* the queue and the pipe.
ClaimsArrive == \A d \in Sends : (view[d] = "given") ~> (truth[d] # "none" \/ lost)

--------------------------------------------------------------------------------
(* The server as the agent's side sees it is what Tenure promises.          *)

Server == INSTANCE Tenure WITH
  Claims <- Sends, Sessions <- {"here"}, Nobody <- "nobody",
  view <- [d \in Sends |-> IF view[d] = "waiting" THEN "none" ELSE view[d]],
  holder <- [d \in Sends |-> IF view[d] \in Open THEN "here" ELSE "nobody"]

\* A report does what Tenure's of the same name does, and nothing where its Send
\* is not the session's any more.
ToldAsNamed(r) ==
  /\ r = TurnEnded => Server!TurnEnded("here")
  /\ \A d \in Sends :
       /\ r = Held(d) => IF view[d] \in Open THEN Server!Held("here", d)
                                             ELSE UNCHANGED Server!vars
       /\ r = Landed(d) => IF view[d] \in Open THEN Server!Landed("here", d)
                                               ELSE UNCHANGED Server!vars
ServerSteps ==
  [Server!Next]_(Server!vars) /\ \A r \in ReportRows : view' = Told(r) => ToldAsNamed(r)
===============================================================================
