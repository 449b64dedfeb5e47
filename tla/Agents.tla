-------------------------------- MODULE Agents --------------------------------
(***************************************************************************)
(* A session of either harness: pi, whose channel is one process on the    *)
(* harness's pipe, or Claude Code, whose mod runs a watch and a command    *)
(* per report.  Both claim Sends from the same server and make the same    *)
(* three reports to it, so both are held to the same promises.             *)
(***************************************************************************)
EXTENDS Integers, Sequences

CONSTANTS
  PiSends, PiTurns, MaxServes, OutCap, ReportCap, MaxCalls,
  ClaudeSends, ClaudeTurns, MaxStarts, MaxCrashes, MaxDrops, MaxFailures

VARIABLES
  harness,
  view, truth, turn, turns, lost,
  serve, made, known, pc, at, seen, fresh, polled, got, out, stdin, calling, reports,
  posting, calls,
  generation, current, watch, child, hand, pipe, prompts, timers, pending, landed,
  chain, crashes, drops, failures

Pi     == INSTANCE Channel WITH MaxSends <- PiSends, MaxTurns <- PiTurns
Claude == INSTANCE Plugin WITH MaxSends <- ClaudeSends, MaxTurns <- ClaudeTurns

ASSUME AgentsAssumption == Pi!ChannelConstants /\ Claude!PluginConstants

reportVars == <<view, truth, turn, turns, lost>>
piVars == <<serve, made, known, pc, at, seen, fresh, polled, got, out, stdin, calling,
            reports, posting, calls>>
claudeVars == <<generation, current, watch, child, hand, pipe, prompts, timers, pending,
                landed, chain, crashes, drops, failures>>
vars == <<harness, reportVars, piVars, claudeVars>>

Init ==
  /\ Pi!ChannelInit /\ Claude!PluginInit
  /\ \/ harness = "pi" /\ Pi!ReportsInit
     \/ harness = "claude" /\ Claude!ReportsInit

PiRuns     == harness = "pi" /\ UNCHANGED <<harness, claudeVars>>
ClaudeRuns == harness = "claude" /\ UNCHANGED <<harness, piVars>>

Next ==
  \/ PiRuns /\ Pi!Next
  \/ ClaudeRuns /\ Claude!Next

Spec == Init /\ [][Next]_vars

\* The fairness of each, where it is the one that runs.
PiFairness ==
  /\ WF_vars(PiRuns /\ Pi!Loop) /\ WF_vars(PiRuns /\ Pi!Emit)
  /\ WF_vars(PiRuns /\ (Pi!ReadReport \/ Pi!ReadCall))
  /\ WF_vars(PiRuns /\ Pi!Answered)
  /\ WF_vars(PiRuns /\ Pi!Take) /\ WF_vars(PiRuns /\ Pi!PostReport)

ClaudeFairness ==
  /\ \A g \in 1..MaxStarts : WF_vars(ClaudeRuns /\ Claude!Watching(g))
  /\ WF_vars(ClaudeRuns /\ Claude!ReportExits)

FairSpec == Spec /\ PiFairness /\ ClaudeFairness

--------------------------------------------------------------------------------
(* What both promise, and what each does.                                   *)

\* Queues within their limits, every variable of its kind.
AgentsTypeOK == IF harness = "pi" THEN Pi!ChannelTypeOK ELSE Claude!PluginTypeOK

\* The server is never ahead of the agent (Reports): no Send shown as in the
\* turn, or ended, before it is, by either harness.
NeverAhead == IF harness = "pi" THEN Pi!NeverAhead ELSE Claude!NeverAhead

\* No Send starts two turns of Claude Code, or waits for two (Plugin).
NothingTwice == harness = "claude" => Claude!NothingTwice

\* What the agent finished the server ends, unless a report was given up on
\* (Reports).
EndsAreTold ==
  (harness = "pi" => Pi!EndsAreTold) /\ (harness = "claude" => Claude!EndsAreTold)

\* A Send claimed for the session reaches its agent, unless the answer broke
\* off or the process that had it ended (Reports).
ClaimsArrive ==
  (harness = "pi" => Pi!ClaimsArrive) /\ (harness = "claude" => Claude!ClaimsArrive)

\* Each serve that stays comes to know the pi session (Channel), and the newest
\* start of a Claude Code session comes to have a watch (Plugin): whatever failed,
\* was replaced or died, the session can be told of a Send again.
ListensAgain ==
  (harness = "pi" => Pi!RegistersWithEachServe) /\ (harness = "claude" => Claude!WatchComesBack)

\* All that either harness's side takes the server to do with its claims, and with
\* its reports, is among what Tenure promises, which ThreadStore implements: a
\* report means to the store what it means to the one that sends it, late, repeated
\* or after the Send was taken away as it may be.  Of Tenure's steps only Answer, a
\* reply, is none of a session's here.
SpeaksTenure ==
  /\ harness = "pi" => Pi!Server!Init
  /\ harness = "claude" => Claude!Server!Init
  /\ [][/\ harness = "pi" => Pi!ServerSteps
        /\ harness = "claude" => Claude!ServerSteps]_vars
===============================================================================
