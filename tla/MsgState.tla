------------------------------- MODULE MsgState -------------------------------
(***************************************************************************)
(* msgstate/msgstate.go: the one lifecycle of a message sent from a page   *)
(* to an agent. It is a table and three predicates over it, so this module *)
(* has no variables: ThreadStore's moves are written with it.              *)
(***************************************************************************)

\* The seven lifecycle states, in the order the source lists them.
LifecycleStates ==
  {"sent", "with_agent", "working", "answered", "declined", "failed", "no_reply"}

\* Settled: the agent answered, declined or failed. no_reply is not final.
Final(s) == s \in {"answered", "declined", "failed"}

\* `next': the states each state may move to; a settled state moves nowhere.
NextStates(s) ==
  CASE s = "sent"       -> {"with_agent"}
    [] s = "with_agent" -> {"working", "answered", "declined", "failed", "no_reply"}
    [] s = "working"    -> {"answered", "declined", "failed", "no_reply"}
    [] s = "no_reply"   -> {"answered", "declined", "failed", "sent"}
    [] OTHER            -> {}

\* May a message in `from' move to `to'?  Asked for the harness's reports.
Allowed(from, to) == to \in NextStates(from)

\* May the agent's acknowledgement move a message in `from' to `to'?  A reply
\* to a message still sent moves it as if through with_agent.
Acknowledge(from, to) ==
  IF from = "sent" THEN Allowed("with_agent", to) /\ to # "no_reply"
                   ELSE Allowed(from, to)
===============================================================================
