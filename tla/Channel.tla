------------------------------- MODULE Channel -------------------------------
(***************************************************************************)
(* pageserve/channel.go with channelmcp/server.go: the channel of a pi     *)
(* session.  One process, four goroutines: the wait loop, the emitter of   *)
(* notifications, Run's reader of the harness's lines (which also runs     *)
(* tool calls, one at a time) and the poster of reports.  serve comes and  *)
(* goes beside it; the loop never starts it, a tool call does.             *)
(*                                                                         *)
(* Each call of Do looks serve up anew, so presence, wait and Find may     *)
(* each meet another serve.  How long rest sleeps is left out, as is the   *)
(* text of events.  The tool is taken to keep presence and to have an      *)
(* OnServe hook; a Spec need not.                                          *)
(***************************************************************************)
EXTENDS Reports

CONSTANTS
  MaxServes,   \* bound: serve processes
  OutCap,      \* room in Server.out
  ReportCap,   \* room in Channel.reports
  MaxCalls     \* bound: tool calls

ChannelConstants ==
  /\ ReportsConstants /\ MaxServes \in Nat /\ MaxCalls \in Nat
  /\ OutCap \in Nat \ {0} /\ ReportCap \in Nat \ {0}

VARIABLES
  serve, made,   \* the serve that runs (0: none), and how many there were
  known,         \* the serves the session is registered with
  pc,            \* where the loop is
  at,            \* the serve it looked up at the top (serveKey)
  seen,          \* the serve it last reached
  fresh,         \* lastPresence is recent
  polled, got,   \* the serve it waits at, and the Send in the answer
  out,           \* Server.out
  stdin,         \* what the harness has written and Run not read
  calling,       \* Run is in a tool call
  reports,       \* Channel.reports
  posting,       \* the report postReports holds
  calls

loopVars == <<pc, at, seen, fresh, polled, got>>
serveVars == <<serve, made, known>>
pipeVars == <<stdin, calling, reports, posting, calls>>
channelVars == <<serveVars, loopVars, out, pipeVars>>
vars == <<reportVars, channelVars>>

Serves == 1..MaxServes

NoReport == [event |-> "none", of |-> 0]
ToolCall == [event |-> "call", of |-> 0]   \* tools/call, on the same pipe

ChannelInit ==
  /\ serve = 0 /\ made = 0 /\ known = {}
  /\ pc = "top" /\ at = 0 /\ seen = 0 /\ fresh = FALSE /\ polled = 0 /\ got = 0
  /\ out = <<>> /\ stdin = <<>> /\ calling = FALSE /\ reports = <<>>
  /\ posting = NoReport /\ calls = 0

Init == ReportsInit /\ ChannelInit

--------------------------------------------------------------------------------
(* Around the channel: Court, serve and the harness.                        *)

Post(d) == Posted(d) /\ UNCHANGED <<truth, turn, turns, lost, channelVars>>
Taken(d) == TakenAway(d) /\ UNCHANGED <<truth, turn, turns, lost, channelVars>>

ServeStarts ==
  /\ serve = 0 /\ made < MaxServes
  /\ serve' = made + 1 /\ made' = made + 1
  /\ UNCHANGED <<reportVars, known, loopVars, out, pipeVars>>

ServeEnds ==
  /\ serve # 0 /\ serve' = 0
  /\ UNCHANGED <<reportVars, made, known, loopVars, out, pipeVars>>

Write(r) == stdin' = Append(stdin, r)

\* The emitter's line reaches pi: it buffers the event, and says so mid-turn.
Emit ==
  /\ out # <<>>
  /\ out' = Tail(out)
  /\ truth' = [truth EXCEPT ![Head(out)] = "queued"]
  /\ IF turn THEN Write(Held(Head(out))) ELSE UNCHANGED stdin
  /\ UNCHANGED <<view, turn, turns, lost, serveVars, loopVars, calling, reports, posting,
                 calls>>

\* pi starts a turn: with an event, or with the user's own words.
TurnStarts ==
  /\ ~turn /\ turns < MaxTurns
  /\ turn' = TRUE /\ turns' = turns + 1
  /\ \/ UNCHANGED <<truth, stdin>>
     \/ \E d \in Queued : /\ \A e \in Queued : d <= e
                          /\ truth' = [truth EXCEPT ![d] = "running"]
                          /\ Write(Landed(d))
  /\ UNCHANGED <<view, lost, serveVars, loopVars, out, calling, reports, posting, calls>>

TurnEnds ==
  /\ turn /\ turn' = FALSE
  /\ truth' = [d \in Sends |-> IF truth[d] = "running" THEN "over" ELSE truth[d]]
  /\ Write(TurnEnded)
  /\ UNCHANGED <<view, turns, lost, serveVars, loopVars, out, calling, reports, posting,
                 calls>>

\* The agent calls one of the tools, in its turn.
CallsTool ==
  /\ turn /\ calls < MaxCalls /\ calls' = calls + 1
  /\ Write(ToolCall)
  /\ UNCHANGED <<reportVars, serveVars, loopVars, out, calling, reports, posting>>

--------------------------------------------------------------------------------
(* loop and rest.                                                           *)

Go(to) == pc' = to
Forget == at' = 0 /\ polled' = 0   \* the iteration's locals

\* at := serveKey(c)
LoopTop ==
  /\ pc = "top" /\ Go("look")
  /\ at' = serve
  /\ UNCHANGED <<reportVars, serveVars, seen, fresh, polled, got, out, pipeVars>>

NewServe(s) == s \notin {0, seen}

\* Find again: a serve not seen before is told of presence anew (OnServe).
LoopLook ==
  /\ pc = "look" /\ Go("presence")
  /\ IF NewServe(serve) THEN seen' = serve /\ fresh' = FALSE ELSE UNCHANGED <<seen, fresh>>
  /\ UNCHANGED <<reportVars, serveVars, at, polled, got, out, pipeVars>>

\* Announce, unless it was done within Presence (which may be over at any
\* time); a call that fails goes to rest.
LoopPresence ==
  /\ pc = "presence"
  /\ \/ fresh /\ Go("wait") /\ UNCHANGED <<known, fresh>>
     \/ serve # 0 /\ known' = known \cup {serve} /\ fresh' = TRUE /\ Go("wait")
     \/ serve = 0 /\ fresh' = FALSE /\ Go("rest") /\ UNCHANGED known
  /\ UNCHANGED <<reportVars, serve, made, at, seen, polled, got, out, pipeVars>>

\* Do: the long poll goes to the serve there is now, or to none.
LoopWait ==
  /\ pc = "wait"
  /\ Go(IF serve = 0 THEN "rest" ELSE "waiting")
  /\ polled' = serve
  /\ UNCHANGED <<reportVars, serveVars, at, seen, fresh, got, out, pipeVars>>

\* serve claims a Send for the poll; the answer is on its way.
Answer(d) ==
  /\ pc = "waiting" /\ serve = polled
  /\ ClaimNext(d) /\ got' = d /\ Go("answered")
  /\ UNCHANGED <<truth, turn, turns, lost, serveVars, at, seen, fresh, polled, out, pipeVars>>

\* serve does not know the session: a StatusError, so presence is due.
Refuse ==
  /\ pc = "waiting" /\ serve = polled /\ polled \notin known
  /\ fresh' = FALSE /\ polled' = 0 /\ Go("rest")
  /\ UNCHANGED <<reportVars, serveVars, at, seen, got, out, pipeVars>>

PollTimesOut ==
  /\ pc = "waiting" /\ Go("top") /\ Forget
  /\ UNCHANGED <<reportVars, serveVars, seen, fresh, got, out, pipeVars>>

\* The connection broke: what it claimed meanwhile, if anything, is gone.
Torn ==
  /\ pc \in {"waiting", "answered"} /\ serve # polled
  /\ got' = 0 /\ polled' = 0 /\ Go("rest")
  /\ lost' = (lost \/ got # 0)
  /\ UNCHANGED <<view, truth, turn, turns, serveVars, at, seen, fresh, out, pipeVars>>

\* Wake reads the answer, Notify queues the event when there is room.
Notify ==
  /\ pc = "answered" /\ Len(out) < OutCap
  /\ out' = Append(out, got) /\ got' = 0 /\ Go("top") /\ Forget
  /\ UNCHANGED <<reportVars, serveVars, seen, fresh, pipeVars>>

\* Wake refuses what it read, or Notify what Wake made of it: logged, and dropped.
Discard ==
  /\ pc = "answered" /\ got' = 0 /\ Go("top") /\ Forget
  /\ lost' = TRUE
  /\ UNCHANGED <<view, truth, turn, turns, serveVars, seen, fresh, out, pipeVars>>

\* rest sees a serve other than the one it failed at: presence is due at once.
RestFindsNew ==
  /\ pc = "rest" /\ serve \notin {0, at}
  /\ fresh' = FALSE /\ Go("top") /\ Forget
  /\ UNCHANGED <<reportVars, serveVars, seen, got, out, pipeVars>>

RestOver ==
  /\ pc = "rest" /\ serve \in {0, at} /\ Go("top") /\ Forget
  /\ UNCHANGED <<reportVars, serveVars, seen, fresh, got, out, pipeVars>>

Loop ==
  \/ LoopTop \/ LoopLook \/ LoopPresence \/ LoopWait
  \/ PollTimesOut \/ Torn \/ Notify \/ RestFindsNew \/ RestOver

--------------------------------------------------------------------------------
(* Reports and tool calls.                                                  *)

Endless(r) == Append(reports, r)   \* mutant: no limit
\* queueReport: a full queue drops the report.
Queue(r) == IF Len(reports) < ReportCap THEN Append(reports, r) ELSE reports

\* Run reads a report and hands it over.
ReadReport ==
  /\ ~calling /\ stdin # <<>> /\ Head(stdin) # ToolCall
  /\ stdin' = Tail(stdin)
  /\ reports' = Queue(Head(stdin))
  /\ lost' = (lost \/ Len(reports) >= ReportCap)
  /\ UNCHANGED <<view, truth, turn, turns, serveVars, loopVars, out, calling, posting, calls>>

\* Run reads a tool call, and reads nothing more until it is answered.
ReadCall ==
  /\ ~calling /\ stdin # <<>> /\ Head(stdin) = ToolCall
  /\ stdin' = Tail(stdin) /\ calling' = TRUE
  /\ UNCHANGED <<reportVars, serveVars, loopVars, out, reports, posting, calls>>

\* Fresh starts serve when none runs; then the tool's own Call.
Answered ==
  /\ calling /\ calling' = FALSE
  /\ IF serve = 0 /\ made < MaxServes
     THEN serve' = made + 1 /\ made' = made + 1
     ELSE UNCHANGED <<serve, made>>
  /\ UNCHANGED <<reportVars, known, loopVars, out, stdin, reports, posting, calls>>

Take ==
  /\ posting = NoReport /\ reports # <<>>
  /\ posting' = Head(reports) /\ reports' = Tail(reports)
  /\ UNCHANGED <<reportVars, serveVars, loopVars, out, stdin, calling, calls>>

\* postReports: to serve, or logged and forgotten.
PostReport ==
  /\ posting # NoReport /\ posting' = NoReport
  /\ IF serve # 0 THEN view' = Told(posting) /\ UNCHANGED lost
                  ELSE lost' = TRUE /\ UNCHANGED view
  /\ UNCHANGED <<truth, turn, turns, serveVars, loopVars, out, stdin, calling, reports, calls>>

--------------------------------------------------------------------------------

Around ==
  \/ \E d \in Sends : Post(d) \/ Taken(d)
  \/ ServeStarts \/ ServeEnds \/ TurnStarts \/ TurnEnds \/ CallsTool

Next ==
  \/ Around \/ Emit \/ Loop \/ (\E d \in Sends : Answer(d)) \/ Refuse \/ Discard
  \/ ReadReport \/ ReadCall \/ Answered \/ Take \/ PostReport

Spec == Init /\ [][Next]_vars

\* The goroutines run, a tool call returns, serve answers.
FairSpec ==
  /\ Spec
  /\ WF_vars(Loop) /\ WF_vars(Emit) /\ WF_vars(ReadReport \/ ReadCall) /\ WF_vars(Answered)
  /\ WF_vars(Take) /\ WF_vars(PostReport)

--------------------------------------------------------------------------------

\* The queues stay within their room, and hold what belongs in them.
ChannelTypeOK ==
  /\ ReportsTypeOK
  /\ serve \in 0..MaxServes /\ made \in 0..MaxServes /\ known \subseteq Serves
  /\ pc \in {"top", "look", "presence", "wait", "waiting", "answered", "rest"}
  /\ at \in 0..MaxServes /\ seen \in 0..MaxServes /\ fresh \in BOOLEAN
  /\ polled \in 0..MaxServes /\ got \in 0..MaxSends
  /\ Len(out) <= OutCap /\ Len(reports) <= ReportCap
  /\ out \in Seq(Sends) /\ stdin \in Seq(ReportRows \cup {ToolCall}) /\ reports \in Seq(ReportRows)
  /\ calling \in BOOLEAN /\ posting \in ReportRows \cup {NoReport} /\ calls \in 0..MaxCalls

\* Once one serve stays, the session is registered with it, though nothing
\* failed and presence was not yet due again: the loop notices a serve it has
\* not met, or its call to the last one breaks.
RegistersWithEachServe ==
  \A n \in Serves : (<>[](serve = n)) => <>(n \in known)
===============================================================================
