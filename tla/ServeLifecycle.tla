---------------------------- MODULE ServeLifecycle ----------------------------
(***************************************************************************)
(* pageserve's one serve per machine: how a serve starts, is found through *)
(* the entry file, marks itself stale after an install and stops (server.go*)
(* Run, one.go, stale.go), and how the processes around it find, start,    *)
(* replace and stop it (lifecycle.go, client.go).                          *)
(*                                                                         *)
(* Everything is in separate processes that share three lock files and the *)
(* entry file.  Reading the entry, asking whether its process lives and    *)
(* removing it are separate steps, as they are in Running; writing and     *)
(* removing a file are atomic (WriteFileAtomic, os.Remove).  Process ids   *)
(* are not reused.  Left out: the page server itself, the token and the    *)
(* port, and calls the lock file or spawn refuses.                         *)
(***************************************************************************)
EXTENDS Integers, FiniteSets

CONSTANTS
  Clients,      \* processes that call pageserve: channels, commands
  MaxServes,    \* bound: serve processes ever spawned
  MaxCalls,     \* bound: calls the clients make
  MaxInstalls,  \* bound: newer binaries installed
  MaxKills      \* bound: serves killed or told to stop by a signal

ASSUME ClientsAssumption == Clients \cap (0..MaxServes) = {}
ASSUME BoundsAssumption ==
  MaxServes \in Nat /\ MaxCalls \in Nat /\ MaxInstalls \in Nat /\ MaxKills \in Nat

Serves == 1..MaxServes
Pids   == 0..MaxServes      \* 0: nobody

VARIABLES
  entry,      \* live/serve.json; pid 0: there is no such file
  phase,      \* where each serve is in Run
  was,        \* the binary each recorded (binaryWatch.was)
  marked,     \* binaryWatch.stale
  told,       \* Run's context ended before it served
  look,       \* each process's call of Running, if it is in one
  pc, task,   \* each client's call, and where it is in it
  replacing,  \* the serve a call of Fresh means to replace, 0 if none
  serveLock, startLock, freshLock,
  installed, calls, kills,
  robbed      \* history: some Running removed the entry of a living serve

serveVars == <<phase, was, marked, told, serveLock>>
clientVars == <<pc, task, replacing, startLock, freshLock, calls>>
bounds == <<installed, kills>>
vars == <<entry, phase, was, marked, told, look, pc, task, replacing, serveLock, startLock,
          freshLock, installed, calls, kills, robbed>>

NoEntry == [pid |-> 0, stale |-> FALSE]
Idle    == [at |-> "idle", pid |-> 0, stale |-> FALSE]

Phases == {"unborn", "locking", "looking", "setup", "serving", "stopping", "leaving",
           "exited"}
Steps == {"idle", "find", "freshLock", "again", "stop", "post", "gone", "ensure",
          "startLock", "start", "await"}

Init ==
  /\ entry = NoEntry
  /\ phase = [p \in Serves |-> "unborn"]
  /\ was = [p \in Serves |-> 0] /\ marked = [p \in Serves |-> FALSE]
  /\ told = [p \in Serves |-> FALSE]
  /\ look = [x \in Serves \cup Clients |-> Idle]
  /\ pc = [c \in Clients |-> "idle"] /\ task = [c \in Clients |-> "none"]
  /\ replacing = [c \in Clients |-> 0]
  /\ serveLock = 0 /\ startLock = 0 /\ freshLock = 0
  /\ installed = 0 /\ calls = 0 /\ kills = 0
  /\ robbed = FALSE

Alive(p) == phase[p] \notin {"unborn", "exited"}   \* PIDAlive

AnyLock(lock) == TRUE   \* mutant: a lock that does not wait
Free(lock) == lock = 0

StillHeld(lock, holder) == lock   \* mutant: the holder never gives it back
Unlock(lock, holder) == IF lock = holder THEN 0 ELSE lock

--------------------------------------------------------------------------------
(* Running: read the entry, ask for its process, remove the entry.          *)

ReplacedInode(p) == FALSE   \* mutant: compares inodes, and the new file has the old one
Replaced(p) == was[p] # installed

\* A process about to call Running: a starting serve, one whose binary was
\* replaced (binaryWatch.check), or a client at one of its looks.
Looks(x) ==
  IF x \in Serves
  THEN \/ phase[x] = "looking"
       \/ phase[x] = "serving" /\ ~marked[x] /\ Replaced(x)
  ELSE pc[x] \in {"find", "again", "stop", "gone", "ensure", "start", "await"}

ReadEntry(x) ==
  /\ look[x].at = "idle" /\ Looks(x)
  /\ look' = [look EXCEPT ![x] =
       [at |-> IF entry.pid = 0 THEN "missing" ELSE "read",
        pid |-> entry.pid, stale |-> entry.stale]]
  /\ UNCHANGED <<entry, serveVars, clientVars, bounds, robbed>>

CheckAlive(x) ==
  /\ look[x].at = "read"
  /\ look' = [look EXCEPT ![x].at = IF Alive(look[x].pid) THEN "found" ELSE "dead"]
  /\ UNCHANGED <<entry, serveVars, clientVars, bounds, robbed>>

\* os.Remove takes the file that is there now.
RemoveDead(x) ==
  /\ look[x].at = "dead"
  /\ look' = [look EXCEPT ![x].at = "missing"]
  /\ entry' = NoEntry
  /\ robbed' = (robbed \/ (entry.pid # 0 /\ Alive(entry.pid)))
  /\ UNCHANGED <<serveVars, clientVars, bounds>>

Found(x)   == look[x].at = "found"
Missing(x) == look[x].at = "missing"
Looked(x)  == look' = [look EXCEPT ![x] = Idle]

--------------------------------------------------------------------------------
(* A serve (server.go Run).                                                 *)

ServeGoes(p, to) == phase' = [phase EXCEPT ![p] = to]

TakeServeLock(p) ==
  /\ phase[p] = "locking" /\ Free(serveLock)
  /\ ServeGoes(p, "looking") /\ serveLock' = p
  /\ UNCHANGED <<entry, was, marked, told, look, clientVars, bounds, robbed>>

\* "serve is already running"
FindAnother(p) ==
  /\ phase[p] = "looking" /\ Found(p) /\ Looked(p)
  /\ ServeGoes(p, "exited") /\ serveLock' = 0
  /\ UNCHANGED <<entry, was, marked, told, clientVars, bounds, robbed>>

WatchedNext == installed + 1   \* mutant: takes the install to come for its own
Watched == installed

\* It is the one: it records the binary as it is now.
FindNone(p) ==
  /\ phase[p] = "looking" /\ Missing(p) /\ Looked(p)
  /\ ServeGoes(p, "setup")
  /\ was' = [was EXCEPT ![p] = Watched]
  /\ UNCHANGED <<entry, marked, told, serveLock, clientVars, bounds, robbed>>

\* The entry is written, then the lock given back, even by a serve that was
\* told to stop before it got here; or something before fails.
Advertise(p) ==
  /\ phase[p] = "setup"
  /\ serveLock' = 0
  /\ \/ /\ ServeGoes(p, IF told[p] THEN "stopping" ELSE "serving")
        /\ entry' = [pid |-> p, stale |-> FALSE]
     \/ /\ ServeGoes(p, "exited")
        /\ UNCHANGED entry
  /\ UNCHANGED <<was, marked, told, look, clientVars, bounds, robbed>>

Recorded(p) == Found(p) /\ look[p].pid = p

\* binaryWatch.check, once it has looked: only its own entry is marked, and
\* only then is it recorded.  A check begun is waited for.
MarkStale(p) ==
  /\ phase[p] \in {"serving", "stopping"} /\ (Found(p) \/ Missing(p)) /\ Looked(p)
  /\ marked' = [marked EXCEPT ![p] = Recorded(p)]
  /\ entry' = IF Recorded(p) THEN [pid |-> p, stale |-> TRUE] ELSE entry
  /\ UNCHANGED <<phase, was, told, serveLock, clientVars, bounds, robbed>>

\* Withdraw, when the server and the watch have ended: read, then remove.
Withdraw(p) ==
  /\ phase[p] = "stopping" /\ look[p].at = "idle"
  /\ ServeGoes(p, IF entry.pid = p THEN "leaving" ELSE "exited")
  /\ UNCHANGED <<entry, was, marked, told, look, serveLock, clientVars, bounds, robbed>>

Leave(p) ==
  /\ phase[p] = "leaving"
  /\ ServeGoes(p, "exited") /\ entry' = NoEntry
  /\ UNCHANGED <<was, marked, told, look, serveLock, clientVars, bounds, robbed>>

\* Its context ends: a serve that serves stops, another will as it would serve.
Ends(p) ==
  \/ /\ phase[p] \in {"serving", "stopping"} /\ ServeGoes(p, "stopping")
     /\ UNCHANGED told
  \/ /\ phase[p] \in {"locking", "looking", "setup"}
     /\ told' = [told EXCEPT ![p] = TRUE]
     /\ UNCHANGED phase

\* A signal ends Run's context; a kill or a crash leaves the entry behind, and
\* the kernel lets go of the lock.
Signal(p) ==
  /\ Alive(p) /\ kills < MaxKills /\ kills' = kills + 1
  /\ Ends(p)
  /\ UNCHANGED <<entry, was, marked, look, serveLock, clientVars, installed, robbed>>

Kill(p) ==
  /\ Alive(p) /\ kills < MaxKills /\ kills' = kills + 1
  /\ ServeGoes(p, "exited") /\ Looked(p)
  /\ serveLock' = Unlock(serveLock, p)
  /\ UNCHANGED <<entry, was, marked, told, clientVars, installed, robbed>>

Install ==
  /\ installed < MaxInstalls /\ installed' = installed + 1
  /\ UNCHANGED <<entry, serveVars, look, clientVars, kills, robbed>>

--------------------------------------------------------------------------------
(* A client.  A call is Fresh (then whatever it was for), ensure or Stop.   *)

GoesTo(c, step) == pc' = [pc EXCEPT ![c] = step]
GoesOn(c, step) == GoesTo(c, step) /\ UNCHANGED <<task, replacing, startLock, freshLock, calls>>
LooksAgain(c) == UNCHANGED clientVars

\* The call returns, with what it found or with an error; its locks go.
Returns(c) ==
  /\ GoesTo(c, "idle")
  /\ task' = [task EXCEPT ![c] = "none"]
  /\ replacing' = [replacing EXCEPT ![c] = 0]
  /\ startLock' = Unlock(startLock, c)
  /\ freshLock' = Unlock(freshLock, c)
  /\ UNCHANGED calls

aside == <<entry, serveVars, bounds, robbed>>

Call(c) ==
  /\ pc[c] = "idle" /\ calls < MaxCalls /\ calls' = calls + 1
  /\ \E t \in {"fresh", "ensure", "stop"} :
       /\ task' = [task EXCEPT ![c] = t]
       /\ GoesTo(c, CASE t = "fresh" -> "find" [] t = "ensure" -> "ensure" [] OTHER -> "stop")
  /\ UNCHANGED <<look, replacing, startLock, freshLock, aside>>

\* Fresh's first look, without the lock.
FreshFinds(c) ==
  /\ pc[c] = "find" /\ (Found(c) \/ Missing(c)) /\ Looked(c)
  /\ IF Found(c) /\ look[c].stale THEN GoesOn(c, "freshLock") ELSE Returns(c)
  /\ UNCHANGED aside

TakeFreshLock(c) ==
  /\ pc[c] = "freshLock" /\ Free(freshLock) /\ freshLock' = c
  /\ GoesTo(c, "again")
  /\ UNCHANGED <<look, task, replacing, startLock, calls, aside>>

\* Fresh's second look, holding it.
FreshFindsAgain(c) ==
  /\ pc[c] = "again" /\ (Found(c) \/ Missing(c)) /\ Looked(c)
  /\ \/ Missing(c) /\ GoesOn(c, "ensure")
     \/ Found(c) /\ ~look[c].stale /\ Returns(c)
     \/ /\ Found(c) /\ look[c].stale
        /\ replacing' = [replacing EXCEPT ![c] = look[c].pid]
        /\ GoesTo(c, "stop")
        /\ UNCHANGED <<task, startLock, freshLock, calls>>
  /\ UNCHANGED aside

\* Where a call goes on once Stop is done.
Stopped(c) == IF task[c] = "fresh" THEN GoesOn(c, "ensure") ELSE Returns(c)

StopFinds(c) ==
  /\ pc[c] = "stop"
  /\ \/ Missing(c) /\ Looked(c) /\ Stopped(c)
     \/ Found(c) /\ GoesOn(c, "post") /\ UNCHANGED look
  /\ UNCHANGED aside

NoWait == "ensure"     \* mutant: Fresh goes on while the old serve stops
WaitsFor == "gone"

\* POST /api/stop: the serve it found takes it, or, that one gone, another on
\* the kept port with the kept token; else Stop fails.
PostStop(c) ==
  /\ pc[c] = "post" /\ Looked(c)
  /\ \/ /\ \E p \in Serves :
             /\ phase[p] \in {"setup", "serving", "stopping"}
             /\ p = look[c].pid \/ phase[look[c].pid] # "serving"
             /\ Ends(p)
        /\ GoesOn(c, IF task[c] = "fresh" THEN WaitsFor ELSE "gone")
     \/ /\ phase[look[c].pid] # "serving"
        /\ Returns(c) /\ UNCHANGED <<phase, told>>
  /\ UNCHANGED <<entry, was, marked, serveLock, bounds, robbed>>

\* Stop waits for no serve to be found.
StopWaits(c) ==
  /\ pc[c] = "gone" /\ (Found(c) \/ Missing(c)) /\ Looked(c)
  /\ IF Missing(c) THEN Stopped(c) ELSE LooksAgain(c)
  /\ UNCHANGED aside

\* Client.ensure, then Process.Ensure under its lock.
EnsureFinds(c) ==
  /\ pc[c] = "ensure" /\ (Found(c) \/ Missing(c)) /\ Looked(c)
  /\ IF Found(c) THEN Returns(c) ELSE GoesOn(c, "startLock")
  /\ UNCHANGED aside

TakeStartLock(c) ==
  /\ pc[c] = "startLock" /\ Free(startLock) /\ startLock' = c
  /\ GoesTo(c, "start")
  /\ UNCHANGED <<look, task, replacing, freshLock, calls, aside>>

\* Found, or spawned: the child begins at serve.lock.
StartFinds(c) ==
  /\ pc[c] = "start" /\ Looked(c)
  /\ \/ Found(c) /\ Returns(c) /\ UNCHANGED phase
     \/ /\ Missing(c)
        /\ \E p \in Serves :
             /\ phase[p] = "unborn" /\ \A q \in 1..(p - 1) : phase[q] # "unborn"
             /\ ServeGoes(p, "locking")
        /\ GoesOn(c, "await")
  /\ UNCHANGED <<entry, was, marked, told, serveLock, bounds, robbed>>

\* Start waits for any serve's entry.
StartWaits(c) ==
  /\ pc[c] = "await" /\ (Found(c) \/ Missing(c)) /\ Looked(c)
  /\ IF Found(c) THEN Returns(c) ELSE LooksAgain(c)
  /\ UNCHANGED aside

\* Stop's and Start's waits end with an error (Start's at once when its child
\* is gone); a call that could not spawn ends with one too.
GiveUp(c) ==
  /\ \/ pc[c] \in {"gone", "await"}
     \/ pc[c] = "start" /\ Missing(c) /\ \A p \in Serves : phase[p] # "unborn"
  /\ ~(pc[c] = "await" /\ Found(c)) /\ Looked(c) /\ Returns(c)
  /\ UNCHANGED aside

Looking(x) == ReadEntry(x) \/ CheckAlive(x) \/ RemoveDead(x)
Serving(p) == \/ TakeServeLock(p) \/ FindAnother(p) \/ FindNone(p) \/ Advertise(p)
              \/ MarkStale(p) \/ Withdraw(p) \/ Leave(p)
Calling(c) == \/ FreshFinds(c) \/ TakeFreshLock(c) \/ FreshFindsAgain(c) \/ StopFinds(c)
              \/ PostStop(c) \/ StopWaits(c) \/ EnsureFinds(c) \/ TakeStartLock(c)
              \/ StartFinds(c) \/ StartWaits(c)

Next ==
  \/ Install
  \/ \E p \in Serves : Looking(p) \/ Serving(p) \/ Signal(p) \/ Kill(p)
  \/ \E c \in Clients : Call(c) \/ Looking(c) \/ Calling(c) \/ GiveUp(c)

Spec == Init /\ [][Next]_vars

\* A process that can go on does (flock waits its turn), and waits run out.
Fairness ==
  /\ \A p \in Serves : WF_vars(Looking(p) \/ Serving(p))
  /\ \A c \in Clients : WF_vars(Looking(c) \/ Calling(c)) /\ WF_vars(GiveUp(c))

FairSpec == Spec /\ Fairness

--------------------------------------------------------------------------------
(* Properties.                                                              *)

\* The state of the processes and their files has its types.
TypeOK ==
  /\ entry \in [pid : Pids, stale : BOOLEAN]
  /\ phase \in [Serves -> Phases]
  /\ was \in [Serves -> 0..MaxInstalls] /\ marked \in [Serves -> BOOLEAN]
  /\ told \in [Serves -> BOOLEAN]
  /\ look \in [Serves \cup Clients ->
       [at : {"idle", "read", "dead", "found", "missing"}, pid : Pids, stale : BOOLEAN]]
  /\ pc \in [Clients -> Steps] /\ task \in [Clients -> {"none", "fresh", "ensure", "stop"}]
  /\ replacing \in [Clients -> Pids]
  /\ serveLock \in Pids
  /\ startLock \in Clients \cup {0} /\ freshLock \in Clients \cup {0}
  /\ installed \in 0..MaxInstalls /\ calls \in 0..MaxCalls /\ kills \in 0..MaxKills
  /\ robbed \in BOOLEAN

\* A serve that serves is the one in the entry, so there is one of them and
\* every process finds it: through starts at once, replacements, crashes and
\* marks of staleness, this is lost only where Running removes an entry that
\* was rewritten since it read it.
Findable == \A p \in Serves : phase[p] = "serving" => entry.pid = p
FindableUnlessRobbed == ~robbed => Findable

\* Fresh never comes back with the serve it set out to replace, however its
\* stop, other channels' starts and that serve's own end interleave.
FreshRenews ==
  \A c \in Clients :
    replacing[c] # 0 /\ pc[c] \in {"ensure", "start", "await"} /\ Found(c)
      => look[c].pid # replacing[c]

\* An install under a running serve is noticed: its entry is marked, so the
\* next tool call replaces it, unless it stops first (or its entry was taken).
Noticed ==
  \A p \in Serves :
    (phase[p] = "serving" /\ was[p] # installed)
      ~> (marked[p] \/ phase[p] # "serving" \/ robbed)

\* Three locks are taken by several processes, nested and across a wait for a
\* child that takes one too: every call still returns.
CallsReturn == \A c \in Clients : pc[c] # "idle" ~> pc[c] = "idle"

\* server.go in Run: "One serve per machine: ... of serves started at once the
\* first serves and the rest find its entry and exit".
OneServe == Cardinality({p \in Serves : phase[p] = "serving"}) <= 1
===============================================================================
