-------------------------------- MODULE Plugin --------------------------------
(***************************************************************************)
(* claudeplugin/template/register.js: the mod of a Claude Code session.    *)
(* It runs `<tool> watch' (the loop of channel.go, printing each Send with *)
(* channelmcp's Lines), starts a turn with each line and reports back by   *)
(* running `<tool> report'.  The mod is JavaScript: one callback at a time *)
(* between awaits, but session.start may come again (reload, /clear) while *)
(* an earlier watch still runs or is still being started.                  *)
(*                                                                         *)
(* Left out: how long it waits to restart, lines that are no event, the    *)
(* `stop' line of a bridge child, and the log.  Claude Code is external:   *)
(* a submitted prompt starts a turn or is dropped, and a submit resolves   *)
(* as its turn starts.                                                     *)
(***************************************************************************)
EXTENDS Reports

CONSTANTS
  MaxStarts,    \* bound: session.start events
  MaxCrashes,   \* bound: watches that exit or fail to start
  MaxDrops,     \* bound: prompts Claude Code drops
  MaxFailures   \* bound: reports that fail

PluginConstants ==
  /\ ReportsConstants
  /\ \A bound \in {MaxStarts, MaxCrashes, MaxDrops, MaxFailures} : bound \in Nat

Starts == 1..MaxStarts

VARIABLES
  generation, current,  \* as in the mod; current is the start whose child it is
  watch,      \* each start's watch(): where it is
  child,      \* the process it runs
  hand,       \* the Send that process has claimed and not printed
  pipe,       \* its lines not yet read
  prompts,    \* submitted, neither started nor dropped
  timers,     \* those whose HELD_AFTER is not over
  pending, landed,      \* as in the mod
  chain,      \* reports: the promise chain, its head running
  crashes, drops, failures

pluginVars == <<generation, current, watch, child, hand, pipe, prompts, timers, pending,
                landed, chain, crashes, drops, failures>>
vars == <<reportVars, pluginVars>>

processVars == <<generation, current, watch, child, hand, pipe, crashes>>
promptVars == <<prompts, timers, pending, landed, chain, drops>>

PluginInit ==
  /\ generation = 0 /\ current = 0
  /\ watch = [g \in Starts |-> "none"] /\ child = [g \in Starts |-> "none"]
  /\ hand = [g \in Starts |-> 0] /\ pipe = [g \in Starts |-> <<>>]
  /\ prompts = <<>> /\ timers = {} /\ pending = <<>> /\ landed = FALSE /\ chain = <<>>
  /\ crashes = 0 /\ drops = 0 /\ failures = 0

Init == ReportsInit /\ PluginInit

--------------------------------------------------------------------------------
(* start and watch.                                                         *)

Latest(g) == generation = g

\* start: one reader at a time; the old child is told to end.
Start ==
  /\ generation < MaxStarts
  /\ generation' = generation + 1
  /\ current' = 0
  /\ child' = IF current # 0 /\ child[current] = "up"
              THEN [child EXCEPT ![current] = "ending"] ELSE child
  /\ watch' = [watch EXCEPT ![generation + 1] = "starting"]
  /\ UNCHANGED <<reportVars, hand, pipe, crashes, promptVars, failures>>

Becomes(g, from, to) == watch[g] = from /\ watch' = [watch EXCEPT ![g] = to]

\* After the session's id: spawn, unless another start came meanwhile.
Spawn(g) ==
  /\ \/ ~Latest(g) /\ Becomes(g, "starting", "over") /\ UNCHANGED <<child, current, pipe>>
     \/ /\ Latest(g) /\ Becomes(g, "starting", "reading")
        /\ child' = [child EXCEPT ![g] = "up"] /\ current' = g
        /\ pipe' = [pipe EXCEPT ![g] = <<>>]
  /\ UNCHANGED <<reportVars, generation, hand, crashes, promptVars, failures>>

SpawnFails(g) ==
  /\ Latest(g) /\ Becomes(g, "starting", "delay")
  /\ crashes < MaxCrashes /\ crashes' = crashes + 1
  /\ UNCHANGED <<reportVars, generation, current, child, hand, pipe, promptVars, failures>>

\* The watch process: claims a Send, prints its line, ends.
Claim(g, d) ==
  /\ child[g] \in {"up", "ending"} /\ hand[g] = 0
  /\ ClaimNext(d)
  /\ hand' = [hand EXCEPT ![g] = d]
  /\ UNCHANGED <<truth, turn, turns, lost, generation, current, watch, child, pipe, crashes,
                 promptVars, failures>>

PrintLine(g) ==
  /\ child[g] \in {"up", "ending"} /\ hand[g] # 0
  /\ pipe' = [pipe EXCEPT ![g] = Append(@, hand[g])]
  /\ hand' = [hand EXCEPT ![g] = 0]
  /\ lost' = (lost \/ watch[g] = "over")
  /\ UNCHANGED <<view, truth, turn, turns, generation, current, watch, child, crashes,
                 promptVars, failures>>

ChildEnds(g) ==
  /\ \/ child[g] = "ending" /\ UNCHANGED crashes
     \/ child[g] = "up" /\ crashes < MaxCrashes /\ crashes' = crashes + 1
  /\ child' = [child EXCEPT ![g] = "gone"]
  /\ hand' = [hand EXCEPT ![g] = 0]
  /\ lost' = (lost \/ hand[g] # 0)
  /\ UNCHANGED <<view, truth, turn, turns, generation, current, watch, pipe, promptVars,
                 failures>>

Submit(P, ds) == prompts' = P \o ds /\ timers' = timers \cup {ds[i] : i \in DOMAIN ds}

\* The next line: not ours any more, or a prompt (submitPrompt, not awaited).
ReadLine(g) ==
  /\ watch[g] = "reading" /\ pipe[g] # <<>>
  /\ \/ /\ ~Latest(g) /\ Becomes(g, "reading", "over")
        /\ lost' = TRUE
        /\ UNCHANGED <<truth, pipe, prompts, timers>>
     \/ /\ Latest(g)
        /\ pipe' = [pipe EXCEPT ![g] = Tail(@)]
        /\ Submit(prompts, <<Head(pipe[g])>>)
        /\ truth' = [truth EXCEPT ![Head(pipe[g])] = "queued"]
        /\ UNCHANGED <<watch, lost>>
  /\ UNCHANGED <<view, turn, turns, generation, current, child, hand, crashes, pending,
                 landed, chain, drops, failures>>

\* Mutant: its last lines are not waited for.
EndsAtOnce(g) ==
  /\ child[g] = "gone"
  /\ Becomes(g, "reading", IF Latest(g) THEN "delay" ELSE "over")
  /\ UNCHANGED <<reportVars, generation, current, child, hand, pipe, crashes, promptVars,
                 failures>>

\* Mutant: ends for good.
NoRestart(g) ==
  /\ Becomes(g, "delay", "over")
  /\ UNCHANGED <<reportVars, generation, current, child, hand, pipe, crashes, promptVars,
                 failures>>

\* The process is gone and its lines read: restart after a delay, if ours.
WatchEnds(g) ==
  /\ pipe[g] = <<>> /\ child[g] = "gone"
  /\ Becomes(g, "reading", IF Latest(g) THEN "delay" ELSE "over")
  /\ UNCHANGED <<reportVars, generation, current, child, hand, pipe, crashes, promptVars,
                 failures>>

Restart(g) ==
  /\ Becomes(g, "delay", IF Latest(g) THEN "starting" ELSE "over")
  /\ UNCHANGED <<reportVars, generation, current, child, hand, pipe, crashes, promptVars,
                 failures>>

Watching(g) ==
  \/ Spawn(g) \/ ReadLine(g) \/ WatchEnds(g) \/ Restart(g)
  \/ PrintLine(g) \/ (child[g] = "ending" /\ ChildEnds(g))

--------------------------------------------------------------------------------
(* submitPrompt, the reports and turn.complete.                             *)

\* ps without its i-th prompt.
Without(ps, i) == [j \in 1..(Len(ps) - 1) |-> IF j < i THEN ps[j] ELSE ps[j + 1]]

\* The timer: still waiting for the running turn.
HeldAfter(d) ==
  /\ d \in timers
  /\ timers' = timers \ {d}
  /\ chain' = Append(chain, Held(d))
  /\ UNCHANGED <<reportVars, processVars, prompts, pending, landed, drops, failures>>

\* A turn starts with the first prompt, or with the user's own words.
TurnStarts ==
  /\ ~turn /\ turns < MaxTurns
  /\ turn' = TRUE /\ turns' = turns + 1
  /\ UNCHANGED <<view, lost, processVars, pending, drops, failures>>
  /\ \/ UNCHANGED <<truth, prompts, timers, landed, chain>>
     \/ /\ prompts # <<>>
        /\ prompts' = Tail(prompts)
        /\ timers' = timers \ {Head(prompts)}
        /\ truth' = [truth EXCEPT ![Head(prompts)] = "running"]
        /\ landed' = TRUE
        /\ chain' = Append(chain, Landed(Head(prompts)))

\* Claude Code drops a prompt: kept to submit again, or logged.
Drop(i) ==
  /\ drops < MaxDrops /\ drops' = drops + 1
  /\ prompts' = Without(prompts, i) /\ timers' = timers \ {prompts[i]}
  /\ \/ pending' = Append(pending, prompts[i]) /\ UNCHANGED <<truth, lost>>
     \/ truth' = [truth EXCEPT ![prompts[i]] = "none"] /\ lost' = TRUE /\ UNCHANGED pending
  /\ UNCHANGED <<view, turn, turns, processVars, landed, chain, failures>>

Kept == pending   \* mutant: not emptied
Emptied == <<>>

\* turn.complete: report it if a line landed, and submit what was kept.
TurnCompletes ==
  /\ turn /\ turn' = FALSE
  /\ truth' = [d \in Sends |-> IF truth[d] = "running" THEN "over" ELSE truth[d]]
  /\ landed' = FALSE
  /\ chain' = IF landed THEN Append(chain, TurnEnded) ELSE chain
  /\ Submit(prompts, pending) /\ pending' = Emptied
  /\ UNCHANGED <<view, turns, lost, processVars, drops, failures>>

\* `<tool> report' exits; the next one on the chain runs.
ReportExits ==
  /\ chain # <<>>
  /\ chain' = Tail(chain)
  /\ \/ view' = Told(Head(chain)) /\ UNCHANGED <<lost, failures>>
     \/ /\ failures < MaxFailures /\ failures' = failures + 1
        /\ lost' = TRUE /\ UNCHANGED view
  /\ UNCHANGED <<truth, turn, turns, processVars, prompts, timers, pending, landed, drops>>

--------------------------------------------------------------------------------

Post(d) == Posted(d) /\ UNCHANGED <<truth, turn, turns, lost, pluginVars>>
Taken(d) == TakenAway(d) /\ UNCHANGED <<truth, turn, turns, lost, pluginVars>>

Next ==
  \/ Start \/ TurnStarts \/ TurnCompletes \/ ReportExits
  \/ \E d \in Sends : Post(d) \/ Taken(d) \/ HeldAfter(d)
  \/ \E i \in DOMAIN prompts : Drop(i)
  \/ \E g \in Starts : \/ Watching(g) \/ SpawnFails(g) \/ ChildEnds(g)
                       \/ \E d \in Sends : Claim(g, d)

Spec == Init /\ [][Next]_vars

\* Callbacks and timers run, processes run, told to end they end.
FairSpec ==
  /\ Spec
  /\ \A g \in Starts : WF_vars(Watching(g))
  /\ WF_vars(ReportExits)

--------------------------------------------------------------------------------

\* Each start, its process and the mod's own variables of their kind.
PluginTypeOK ==
  /\ ReportsTypeOK
  /\ generation \in 0..MaxStarts /\ current \in 0..MaxStarts
  /\ watch \in [Starts -> {"none", "starting", "reading", "delay", "over"}]
  /\ child \in [Starts -> {"none", "up", "ending", "gone"}]
  /\ hand \in [Starts -> 0..MaxSends] /\ pipe \in [Starts -> Seq(Sends)]
  /\ prompts \in Seq(Sends) /\ pending \in Seq(Sends) /\ timers \subseteq Sends
  /\ landed \in BOOLEAN /\ chain \in Seq(ReportRows)
  /\ crashes \in 0..MaxCrashes /\ drops \in 0..MaxDrops /\ failures \in 0..MaxFailures

\* The prompts to come, those kept and those being submitted together.
Coming == prompts \o pending

\* No Send starts two turns, or waits for two: a prompt dropped and kept is
\* submitted once more, however turn ends and drops follow one another.
NothingTwice ==
  /\ \A i, j \in DOMAIN Coming : Coming[i] = Coming[j] => i = j
  /\ \A i \in DOMAIN Coming : truth[Coming[i]] = "queued"

\* Whatever starts, reloads and exits follow one another, the newest start
\* comes to have a watch running, and its lines read.
WatchComesBack ==
  []<>(generation # 0 => watch[generation] = "reading" /\ child[generation] = "up")
===============================================================================
