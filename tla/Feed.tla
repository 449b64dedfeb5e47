--------------------------------- MODULE Feed ---------------------------------
(***************************************************************************)
(* What a page is promised of its serve's event log (the package comments  *)
(* of pageserve/events.go and localweb's live.js), without streams, polls, *)
(* frames, timers, epochs or a network: its cursor goes on through the log *)
(* it is in, event by event; only if it cannot, because another serve      *)
(* began its own log or this one has trimmed what is next, does it go to a *)
(* later place, and as a rule the page is then told to load again.  All    *)
(* this is promised to a page that asks from where it is: once it takes an *)
(* answer it asked for from another place, no longer.  PageFeed implements *)
(* this.                                                                   *)
(***************************************************************************)
EXTENDS Integers

CONSTANTS Keep, MaxEvents, MaxBoots   \* as in PageFeed

Boots  == 1..MaxBoots
Cursor == Boots \X (0..MaxEvents)
Events == Boots \X (1..MaxEvents)

VARIABLES
  boot,     \* the newest serve
  made,     \* the events each serve's log came to
  cursor,   \* where the page is
  times,    \* how often it was given each event
  told,     \* where it was last told to load again
  crossed   \* whether it took an answer it had not asked for from there

vars == <<boot, made, cursor, times, told, crossed>>
log  == <<boot, made>>

Init ==
  /\ boot = 1 /\ made = [b \in Boots |-> 0] /\ cursor = <<1, 0>>
  /\ times = [e \in Events |-> 0] /\ told = <<1, 0>>
  /\ crossed = FALSE

Emit == made' = [made EXCEPT ![boot] = @ + 1] /\ UNCHANGED <<boot, cursor, times, told>>

NewServe == boot' = boot + 1 /\ UNCHANGED <<made, cursor, times, told>>

\* The page is given what comes after m in its log, as far as n, each event for
\* the first time.  It is all that is next, unless the log has trimmed what is up
\* to m: those events it is not told of.
Hear(m, n) ==
  LET given == {<<cursor[1], k>> : k \in (m + 1)..n}
  IN /\ cursor[2] <= m /\ m <= n /\ n <= made[cursor[1]]
     /\ m = cursor[2] \/ m <= made[cursor[1]] - Keep
     /\ cursor' = <<cursor[1], n>>
     /\ \A e \in given : times[e] = 0
     /\ times' = [e \in Events |-> IF e \in given THEN 1 ELSE times[e]]
     /\ UNCHANGED <<log, told>>

\* A place it can only get to with a gap: another serve's log, or so far on that
\* what is next is trimmed.
Beyond(c) ==
  /\ c[1] <= boot /\ c[2] <= made[c[1]]
  /\ c[1] > cursor[1] \/ (c[1] = cursor[1] /\ c[2] > cursor[2] + Keep)

\* It is told to load again.
Reset(c) == Beyond(c) /\ cursor' = c /\ told' = c /\ UNCHANGED <<log, times>>

\* It is not: the page does not look at the reset in a poll's answer.
Miss(c) == Beyond(c) /\ cursor' = c /\ UNCHANGED <<log, times, told>>

Kept ==
  \/ Emit \/ NewServe
  \/ \E m, n \in 0..MaxEvents : Hear(m, n)
  \/ \E c \in Cursor : Reset(c) \/ Miss(c)

Next ==
  \/ Kept /\ ~crossed /\ UNCHANGED crossed
  \/ crossed'

Spec == Init /\ [][Next]_vars
===============================================================================
