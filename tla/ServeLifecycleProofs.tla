------------------------- MODULE ServeLifecycleProofs -------------------------
(***************************************************************************)
(* What the serve's locks and entry file promise, for any number of        *)
(* serves, clients, calls, installs and kills: types, a serve that serves  *)
(* is found unless its entry was taken for another's, and a replaced serve *)
(* is never what Fresh returns with.                                       *)
(***************************************************************************)
EXTENDS ServeLifecycle, FiniteSetTheorems, TLAPS

--------------------------------------------------------------------------------
(* Types.                                                                   *)

Look == [at : {"idle", "read", "dead", "found", "missing"}, pid : Pids, stale : BOOLEAN]

LEMMA ServesArePids == Serves \subseteq Pids /\ 0 \in Pids /\ 0 \notin Serves
BY BoundsAssumption DEF Serves, Pids

LEMMA Apart == Serves \cap Clients = {}
BY ClientsAssumption, ServesArePids DEF Serves, Pids

LEMMA IdleType == Idle \in Look
BY ServesArePids DEF Idle, Look

LEMMA InitType == Init => TypeOK
<1> SUFFICES ASSUME Init PROVE TypeOK
  OBVIOUS
<1>1. entry \in [pid : Pids, stale : BOOLEAN] /\ serveLock \in Pids
  BY ServesArePids DEF Init, NoEntry
<1>2. look \in [Serves \cup Clients -> Look]
  BY IdleType DEF Init
<1>3. /\ installed \in 0..MaxInstalls /\ calls \in 0..MaxCalls /\ kills \in 0..MaxKills
      /\ 0 \in 0..MaxInstalls
  BY BoundsAssumption DEF Init
<1>4. /\ phase \in [Serves -> Phases] /\ pc \in [Clients -> Steps]
      /\ was \in [Serves -> 0..MaxInstalls]
      /\ task \in [Clients -> {"none", "fresh", "ensure", "stop"}]
      /\ replacing \in [Clients -> Pids]
  BY <1>3, ServesArePids DEF Init, Phases, Steps
<1>5. /\ startLock \in Clients \cup {0} /\ freshLock \in Clients \cup {0}
      /\ marked \in [Serves -> BOOLEAN] /\ told \in [Serves -> BOOLEAN] /\ robbed \in BOOLEAN
  BY DEF Init
<1> QED
  BY <1>1, <1>2, <1>3, <1>4, <1>5 DEF TypeOK, Look

\* A step of Running has its types.
LEMMA LookingType ==
  ASSUME TypeOK, NEW x \in Serves \cup Clients, Looking(x)
  PROVE  TypeOK'
<1>1. CASE ReadEntry(x)
  <2>1. look' \in [Serves \cup Clients -> Look]
    BY <1>1 DEF ReadEntry, TypeOK, Look
  <2> QED
    BY <1>1, <2>1 DEF ReadEntry, TypeOK, Look, serveVars, clientVars, bounds
<1>2. CASE CheckAlive(x)
  <2>1. look' \in [Serves \cup Clients -> Look]
    BY <1>2 DEF CheckAlive, TypeOK, Look
  <2> QED
    BY <1>2, <2>1 DEF CheckAlive, TypeOK, Look, serveVars, clientVars, bounds
<1>3. CASE RemoveDead(x)
  <2>1. look' \in [Serves \cup Clients -> Look]
    BY <1>3 DEF RemoveDead, TypeOK, Look
  <2>2. entry' \in [pid : Pids, stale : BOOLEAN]
    BY <1>3, ServesArePids DEF RemoveDead, NoEntry
  <2>3. robbed' \in BOOLEAN
    BY <1>3 DEF RemoveDead
  <2> QED
    BY <1>3, <2>1, <2>2, <2>3 DEF RemoveDead, TypeOK, Look, serveVars, clientVars, bounds
<1> QED
  BY <1>1, <1>2, <1>3 DEF Looking

\* A serve's own steps have their types.
LEMMA ServingType ==
  ASSUME TypeOK, NEW p \in Serves, Serving(p)
  PROVE  TypeOK'
<1> USE IdleType, ServesArePids
<1>1. CASE TakeServeLock(p)
  BY <1>1 DEF TakeServeLock, ServeGoes, TypeOK, Phases, clientVars, bounds
<1>2. CASE FindAnother(p)
  <2>1. look' \in [Serves \cup Clients -> Look]
    BY <1>2 DEF FindAnother, Looked, TypeOK, Look
  <2> QED
    BY <1>2, <2>1 DEF FindAnother, ServeGoes, TypeOK, Look, Phases, clientVars, bounds
<1>3. CASE FindNone(p)
  <2>1. look' \in [Serves \cup Clients -> Look]
    BY <1>3 DEF FindNone, Looked, TypeOK, Look
  <2> QED
    BY <1>3, <2>1 DEF FindNone, Watched, ServeGoes, TypeOK, Look, Phases, clientVars, bounds
<1>4. CASE Advertise(p)
  <2>1. phase' \in [Serves -> Phases]
    BY <1>4 DEF Advertise, ServeGoes, TypeOK, Phases
  <2>2. entry' \in [pid : Pids, stale : BOOLEAN]
    <3>1. entry \in [pid : Pids, stale : BOOLEAN]
      BY DEF TypeOK
    <3>2. [pid |-> p, stale |-> FALSE] \in [pid : Pids, stale : BOOLEAN]
      OBVIOUS
    <3> QED
      BY <1>4, <3>1, <3>2 DEF Advertise
  <2> QED
    BY <1>4, <2>1, <2>2 DEF Advertise, TypeOK, clientVars, bounds
<1>5. CASE MarkStale(p)
  <2>1. look' \in [Serves \cup Clients -> Look]
    BY <1>5 DEF MarkStale, Looked, TypeOK, Look
  <2>2. entry' \in [pid : Pids, stale : BOOLEAN]
    BY <1>5 DEF MarkStale, TypeOK
  <2>3. Recorded(p) \in BOOLEAN
    BY DEF Recorded, Found
  <2>4. marked' \in [Serves -> BOOLEAN]
    BY <1>5, <2>3 DEF MarkStale, TypeOK
  <2> QED
    BY <1>5, <2>1, <2>2, <2>4 DEF MarkStale, TypeOK, Look, clientVars, bounds
<1>6. CASE Withdraw(p)
  BY <1>6 DEF Withdraw, ServeGoes, TypeOK, Phases, clientVars, bounds
<1>7. CASE Leave(p)
  BY <1>7 DEF Leave, NoEntry, ServeGoes, TypeOK, Phases, clientVars, bounds
<1> QED
  BY <1>1, <1>2, <1>3, <1>4, <1>5, <1>6, <1>7 DEF Serving

\* So have a signal, a kill and an install.
LEMMA OutsideType ==
  ASSUME TypeOK, Install \/ \E p \in Serves : Signal(p) \/ Kill(p)
  PROVE  TypeOK'
<1> USE BoundsAssumption
<1>1. CASE Install
  <2>1. installed' \in 0..MaxInstalls
    BY <1>1 DEF Install, TypeOK
  <2> QED
    BY <1>1, <2>1 DEF Install, TypeOK, serveVars, clientVars
<1>2. ASSUME NEW p \in Serves, Signal(p) PROVE TypeOK'
  <2>1. kills' \in 0..MaxKills
    BY <1>2 DEF Signal, TypeOK
  <2>2. phase' \in [Serves -> Phases] /\ told' \in [Serves -> BOOLEAN]
    BY <1>2 DEF Signal, Ends, ServeGoes, TypeOK, Phases
  <2> QED
    BY <1>2, <2>1, <2>2 DEF Signal, TypeOK, clientVars
<1>3. ASSUME NEW p \in Serves, Kill(p) PROVE TypeOK'
  <2>1. kills' \in 0..MaxKills
    BY <1>3 DEF Kill, TypeOK
  <2>2. phase' \in [Serves -> Phases] /\ look' \in [Serves \cup Clients -> Look]
    BY <1>3, IdleType DEF Kill, Looked, ServeGoes, TypeOK, Phases, Look
  <2>3. serveLock' \in Pids
    BY <1>3, ServesArePids DEF Kill, Unlock, TypeOK
  <2> QED
    BY <1>3, <2>1, <2>2, <2>3 DEF Kill, TypeOK, Look, clientVars
<1> QED
  BY <1>1, <1>2, <1>3

--------------------------------------------------------------------------------
(* A client's steps, by what they do to the client.                         *)

\* The client's own variables have their types.
ClientTypes ==
  /\ pc \in [Clients -> Steps] /\ task \in [Clients -> {"none", "fresh", "ensure", "stop"}]
  /\ replacing \in [Clients -> Pids]
  /\ startLock \in Clients \cup {0} /\ freshLock \in Clients \cup {0}
  /\ calls \in 0..MaxCalls

LEMMA GoesOnType ==
  ASSUME TypeOK, NEW c \in Clients, NEW step \in Steps, GoesOn(c, step)
  PROVE  ClientTypes'
BY DEF GoesOn, GoesTo, TypeOK, ClientTypes

LEMMA ReturnsType ==
  ASSUME TypeOK, NEW c \in Clients, Returns(c)
  PROVE  ClientTypes'
BY ServesArePids DEF Returns, GoesTo, Unlock, TypeOK, ClientTypes, Steps

LEMMA StoppedType ==
  ASSUME TypeOK, NEW c \in Clients, Stopped(c)
  PROVE  ClientTypes'
<1>1. "ensure" \in Steps
  BY DEF Steps
<1> QED
  BY <1>1, GoesOnType, ReturnsType DEF Stopped

LEMMA LookedType ==
  ASSUME TypeOK, NEW c \in Clients, Looked(c) \/ UNCHANGED look
  PROVE  look' \in [Serves \cup Clients -> Look]
BY IdleType DEF Looked, TypeOK, Look

\* A client's step that touches nothing else but, perhaps, its look and the
\* phase of a serve.
LEMMA AsideType ==
  ASSUME TypeOK, ClientTypes', look' \in [Serves \cup Clients -> Look],
         phase' \in [Serves -> Phases], told' \in [Serves -> BOOLEAN],
         UNCHANGED <<entry, was, marked, serveLock, bounds, robbed>>
  PROVE  TypeOK'
BY DEF TypeOK, ClientTypes, Look, bounds

LEMMA CallingType ==
  ASSUME TypeOK, NEW c \in Clients, Call(c) \/ Calling(c) \/ GiveUp(c)
  PROVE  TypeOK'
<1>0. /\ ClientTypes /\ phase \in [Serves -> Phases] /\ told \in [Serves -> BOOLEAN]
      /\ look \in [Serves \cup Clients -> Look]
  BY DEF TypeOK, ClientTypes, Look
<1> USE GoesOnType, ReturnsType, StoppedType, LookedType, AsideType
<1>1. CASE Call(c)
  <2>1. calls' \in 0..MaxCalls
    BY <1>1, BoundsAssumption DEF Call, TypeOK
  <2>2. PICK t \in {"fresh", "ensure", "stop"} :
          /\ task' = [task EXCEPT ![c] = t]
          /\ GoesTo(c, CASE t = "fresh" -> "find" [] t = "ensure" -> "ensure" [] OTHER -> "stop")
    BY <1>1 DEF Call
  <2>3. task' \in [Clients -> {"none", "fresh", "ensure", "stop"}]
    BY <2>2 DEF TypeOK
  <2>4. pc' \in [Clients -> Steps]
    BY <2>2 DEF GoesTo, TypeOK, Steps
  <2>5. ClientTypes'
    BY <1>1, <2>1, <2>3, <2>4, <1>0 DEF Call, ClientTypes
  <2> QED
    BY <1>1, <2>5, <1>0 DEF Call, aside, serveVars
<1>2. CASE FreshFinds(c)
  <2>1. ClientTypes'
    BY <1>2 DEF FreshFinds, Steps
  <2> QED
    BY <1>2, <2>1, <1>0 DEF FreshFinds, aside, serveVars
<1>3. CASE TakeFreshLock(c)
  <2>1. ClientTypes'
    BY <1>3 DEF TakeFreshLock, GoesTo, TypeOK, ClientTypes, Steps
  <2> QED
    BY <1>3, <2>1, <1>0 DEF TakeFreshLock, aside, serveVars
<1>4. CASE FreshFindsAgain(c)
  <2>1. look[c].pid \in Pids
    BY DEF TypeOK
  <2>2. CASE Missing(c) /\ GoesOn(c, "ensure")
    <3>1. ClientTypes'
      BY <2>2 DEF Steps
    <3> QED
      BY <1>4, <3>1, <1>0 DEF FreshFindsAgain, aside, serveVars
  <2>3. CASE Returns(c)
    BY <1>4, <2>3, <1>0 DEF FreshFindsAgain, aside, serveVars
  <2>4. CASE /\ replacing' = [replacing EXCEPT ![c] = look[c].pid]
             /\ GoesTo(c, "stop")
             /\ UNCHANGED <<task, startLock, freshLock, calls>>
    <3>1. ClientTypes'
      BY <2>1, <2>4, <1>0 DEF GoesTo, ClientTypes, Steps
    <3> QED
      BY <1>4, <3>1, <1>0 DEF FreshFindsAgain, aside, serveVars
  <2> QED
    BY <1>4, <2>2, <2>3, <2>4 DEF FreshFindsAgain
<1>5. CASE StopFinds(c)
  <2>1. ClientTypes' /\ (Looked(c) \/ UNCHANGED look)
    BY <1>5 DEF StopFinds, Steps
  <2> QED
    BY <1>5, <2>1, <1>0 DEF StopFinds, aside, serveVars
<1>6. CASE PostStop(c)
  <2>1. CASE GoesOn(c, IF task[c] = "fresh" THEN WaitsFor ELSE "gone")
             /\ \E p \in Serves : Ends(p)
    <3>1. ClientTypes'
      BY <2>1 DEF WaitsFor, Steps
    <3>2. phase' \in [Serves -> Phases] /\ told' \in [Serves -> BOOLEAN]
      BY <2>1, <1>0 DEF Ends, ServeGoes, Phases
    <3> QED
      BY <1>6, <3>1, <3>2 DEF PostStop
  <2>2. CASE Returns(c) /\ UNCHANGED <<phase, told>>
    BY <1>6, <2>2, <1>0 DEF PostStop
  <2> QED
    BY <1>6, <2>1, <2>2 DEF PostStop
<1>7. CASE StopWaits(c)
  <2>1. ClientTypes'
    BY <1>7, <1>0 DEF StopWaits, LooksAgain, clientVars, ClientTypes
  <2> QED
    BY <1>7, <2>1, <1>0 DEF StopWaits, aside, serveVars
<1>8. CASE EnsureFinds(c)
  <2>1. ClientTypes'
    BY <1>8 DEF EnsureFinds, Steps
  <2> QED
    BY <1>8, <2>1, <1>0 DEF EnsureFinds, aside, serveVars
<1>9. CASE TakeStartLock(c)
  <2>1. ClientTypes'
    BY <1>9 DEF TakeStartLock, GoesTo, TypeOK, ClientTypes, Steps
  <2> QED
    BY <1>9, <2>1, <1>0 DEF TakeStartLock, aside, serveVars
<1>10. CASE StartFinds(c)
  <2>1. CASE Returns(c) /\ UNCHANGED phase
    BY <1>10, <2>1, <1>0 DEF StartFinds
  <2>2. CASE GoesOn(c, "await") /\ \E p \in Serves : ServeGoes(p, "locking")
    <3>1. ClientTypes'
      BY <2>2 DEF Steps
    <3>2. phase' \in [Serves -> Phases]
      BY <2>2, <1>0 DEF ServeGoes, Phases
    <3> QED
      BY <1>10, <3>1, <3>2, <1>0 DEF StartFinds
  <2> QED
    BY <1>10, <2>1, <2>2 DEF StartFinds
<1>11. CASE StartWaits(c)
  <2>1. ClientTypes'
    BY <1>11, <1>0 DEF StartWaits, LooksAgain, clientVars, ClientTypes
  <2> QED
    BY <1>11, <2>1, <1>0 DEF StartWaits, aside, serveVars
<1>12. CASE GiveUp(c)
  BY <1>12, <1>0 DEF GiveUp, aside, serveVars
<1> QED
  BY <1>1, <1>2, <1>3, <1>4, <1>5, <1>6, <1>7, <1>8, <1>9, <1>10, <1>11, <1>12 DEF Calling

LEMMA NextType == TypeOK /\ [Next]_vars => TypeOK'
<1> SUFFICES ASSUME TypeOK, [Next]_vars PROVE TypeOK'
  OBVIOUS
<1>1. CASE UNCHANGED vars
  BY <1>1 DEF vars, TypeOK
<1>2. CASE Next
  BY <1>2, LookingType, ServingType, OutsideType, CallingType DEF Next
<1> QED
  BY <1>1, <1>2

\* The processes and their files keep their types.
THEOREM TypeCorrect == Spec => []TypeOK
<1> QED
  BY InitType, NextType, PTL DEF Spec

--------------------------------------------------------------------------------
(* One serve is found: an invariant of the serve lock and the entry.        *)

\* It wrote the entry and has not withdrawn it.
Advertised(p) == phase[p] \in {"serving", "stopping", "leaving"}

\* From looking for another serve to writing its entry a serve has the lock.
LockHeld == \A p \in Serves : phase[p] \in {"looking", "setup"} => serveLock = p

\* It looks only once it has the lock.
LooksLater == \A p \in Serves : phase[p] \in {"unborn", "locking"} => look[p].at = "idle"

\* The entry is the advertised serve's.
EntryHeld == \A p \in Serves : Advertised(p) => entry.pid = p

\* A serve that found none is right about it until it writes its own entry.
RoomMade ==
  \A p \in Serves :
    phase[p] = "setup" \/ (phase[p] = "looking" /\ Missing(p))
      => \A q \in Serves : ~Advertised(q)

OneInv == /\ LockHeld /\ LooksLater
          /\ ~robbed => EntryHeld /\ RoomMade

LEMMA InitOne == Init => OneInv
BY DEF Init, OneInv, LockHeld, LooksLater, EntryHeld, RoomMade, Advertised, Idle

\* Most of what clients do is aside from it.
LEMMA OneAside ==
  ASSUME OneInv, UNCHANGED <<entry, phase, serveLock, robbed>>,
         \A p \in Serves : look'[p] = look[p]
  PROVE  OneInv'
BY DEF OneInv, LockHeld, LooksLater, EntryHeld, RoomMade, Advertised, Missing

\* Nor does it mind a serve told to stop, or a new one spawned.
LEMMA OneMoves ==
  ASSUME TypeOK, OneInv, UNCHANGED <<entry, serveLock, robbed>>,
         \A p \in Serves : look'[p] = look[p],
         NEW p \in Serves, NEW to \in {"locking", "stopping"}, ServeGoes(p, to),
         phase[p] = (IF to = "locking" THEN "unborn" ELSE phase[p]),
         to = "stopping" => Advertised(p)
  PROVE  OneInv'
<1>1. phase' \in [Serves -> Phases] /\ phase'[p] = to /\ \A q \in Serves \ {p} : phase'[q] = phase[q]
  BY DEF ServeGoes, TypeOK, Phases
<1> QED
  BY <1>1 DEF OneInv, LockHeld, LooksLater, EntryHeld, RoomMade, Advertised, Missing

\* Reading the entry, and removing a dead serve's: if it was a living one's,
\* it was robbed.
LEMMA OneLooking ==
  ASSUME TypeOK, OneInv, NEW x \in Serves \cup Clients, Looking(x)
  PROVE  OneInv'
<1>1. /\ phase' = phase /\ serveLock' = serveLock
      /\ \A p \in Serves : p # x => look'[p] = look[p]
  BY DEF Looking, ReadEntry, CheckAlive, RemoveDead, serveVars, TypeOK
<1>2. LockHeld'
  BY <1>1 DEF OneInv, LockHeld
<1>3. LooksLater'
  BY <1>1 DEF OneInv, LooksLater, Looking, ReadEntry, CheckAlive, RemoveDead, Looks
<1>4. CASE ReadEntry(x)
  <2>1. entry' = entry /\ robbed' = robbed
    BY <1>4 DEF ReadEntry
  <2>2. x \in Serves /\ Missing(x)' => entry.pid = 0
    BY <1>4 DEF ReadEntry, Missing, TypeOK
  <2>3. entry.pid = 0 /\ EntryHeld => \A q \in Serves : ~Advertised(q)
    BY ServesArePids DEF EntryHeld
  <2> QED
    BY <1>1, <1>2, <1>3, <2>1, <2>2, <2>3
       DEF OneInv, EntryHeld, RoomMade, Advertised, Missing
<1>5. CASE CheckAlive(x)
  <2>1. entry' = entry /\ robbed' = robbed /\ (x \in Serves => ~Missing(x)')
    BY <1>5 DEF CheckAlive, Missing, TypeOK
  <2> QED
    BY <1>1, <1>2, <1>3, <2>1 DEF OneInv, EntryHeld, RoomMade, Advertised, Missing
<1>6. CASE RemoveDead(x)
  <2>1. ASSUME ~robbed', EntryHeld, NEW q \in Serves, Advertised(q) PROVE FALSE
    <3>1. entry.pid = q /\ q # 0
      BY <2>1, ServesArePids DEF EntryHeld
    <3>2. Alive(q)
      BY <2>1 DEF Advertised, Alive
    <3> QED
      BY <1>6, <2>1, <3>1, <3>2 DEF RemoveDead
  <2>2. ~robbed' => ~robbed
    BY <1>6 DEF RemoveDead
  <2> QED
    BY <1>1, <1>2, <1>3, <2>1, <2>2 DEF OneInv, EntryHeld, RoomMade, Advertised
<1> QED
  BY <1>4, <1>5, <1>6 DEF Looking

\* A serve's own steps.  Advertise is where EntryHeld needs RoomMade, and
\* where the lock keeps RoomMade for the others.
LEMMA OneServing ==
  ASSUME TypeOK, OneInv, NEW p \in Serves, Serving(p)
  PROVE  OneInv'
<1> USE ServesArePids DEF OneInv, LockHeld, LooksLater, EntryHeld, RoomMade, Advertised
<1>1. /\ phase \in [Serves -> Phases] /\ phase' \in [Serves -> Phases]
      /\ \A x \in Serves : x # p => look'[x] = look[x] /\ phase'[x] = phase[x]
  <2>1. TypeOK'
    BY ServingType
  <2>2. \A x \in Serves : x # p => look'[x] = look[x] /\ phase'[x] = phase[x]
    BY DEF Serving, TakeServeLock, FindAnother, FindNone, Advertise, MarkStale, Withdraw,
           Leave, ServeGoes, Looked, TypeOK
  <2> QED
    BY <2>1, <2>2 DEF TypeOK
<1>2. CASE TakeServeLock(p)
  <2>1. phase'[p] = "looking" /\ look'[p] = look[p] /\ look[p].at = "idle" /\ phase[p] = "locking"
    BY <1>2 DEF TakeServeLock, ServeGoes, TypeOK
  <2> QED
    BY <1>1, <1>2, <2>1 DEF TakeServeLock, Free, Missing
<1>3. CASE FindAnother(p)
  <2>1. phase'[p] = "exited" /\ phase[p] = "looking"
    BY <1>3 DEF FindAnother, ServeGoes, TypeOK
  <2> QED
    BY <1>1, <1>3, <2>1 DEF FindAnother, Missing
<1>4. CASE FindNone(p)
  <2>1. phase'[p] = "setup" /\ phase[p] = "looking" /\ Missing(p)
    BY <1>4 DEF FindNone, ServeGoes, TypeOK
  <2> QED
    BY <1>1, <1>4, <2>1 DEF FindNone, Missing
<1>5. CASE Advertise(p)
  <2>1. phase[p] = "setup" /\ serveLock = p /\ serveLock' = 0 /\ look' = look /\ robbed' = robbed
    BY <1>5 DEF Advertise
  <2>2. \A q \in Serves : q # p => phase[q] \notin {"looking", "setup"}
    BY <2>1
  <2>3. \/ phase'[p] \in {"serving", "stopping"} /\ entry' = [pid |-> p, stale |-> FALSE]
        \/ phase'[p] = "exited" /\ entry' = entry
    BY <1>5 DEF Advertise, ServeGoes, TypeOK
  <2> QED
    BY <1>1, <2>1, <2>2, <2>3 DEF Missing
<1>6. CASE MarkStale(p)
  <2>1. /\ phase' = phase /\ serveLock' = serveLock /\ robbed' = robbed
        /\ phase[p] \in {"serving", "stopping"}
    BY <1>6 DEF MarkStale
  <2>2. entry' = entry \/ entry' = [pid |-> p, stale |-> TRUE]
    BY <1>6 DEF MarkStale
  <2> QED
    BY <1>1, <2>1, <2>2 DEF Missing
<1>7. CASE Withdraw(p)
  <2>1. /\ phase[p] = "stopping" /\ serveLock' = serveLock /\ robbed' = robbed /\ entry' = entry
        /\ look' = look /\ phase'[p] \in {"leaving", "exited"}
    BY <1>7 DEF Withdraw, ServeGoes, TypeOK
  <2> QED
    BY <1>1, <2>1 DEF Missing
<1>8. CASE Leave(p)
  <2>1. /\ phase[p] = "leaving" /\ serveLock' = serveLock /\ robbed' = robbed
        /\ look' = look /\ phase'[p] = "exited"
    BY <1>8 DEF Leave, ServeGoes, TypeOK
  <2>2. ~robbed => \A q \in Serves : q # p => ~Advertised(q)
    BY <2>1
  <2> QED
    BY <1>1, <2>1, <2>2 DEF Missing
<1> QED
  BY <1>2, <1>3, <1>4, <1>5, <1>6, <1>7, <1>8 DEF Serving

\* A serve that dies gives its lock back, and leaves its entry to be removed.
LEMMA OneKill ==
  ASSUME TypeOK, OneInv, NEW p \in Serves, Kill(p)
  PROVE  OneInv'
<1>1. /\ phase'[p] = "exited" /\ entry' = entry /\ robbed' = robbed
      /\ \A x \in Serves : x # p => look'[x] = look[x] /\ phase'[x] = phase[x]
  BY DEF Kill, ServeGoes, Looked, TypeOK
<1>2. serveLock' = serveLock \/ serveLock = p
  BY DEF Kill, Unlock
<1> QED
  BY <1>1, <1>2 DEF OneInv, LockHeld, LooksLater, EntryHeld, RoomMade, Advertised, Missing

LEMMA OneCalling ==
  ASSUME TypeOK, OneInv, NEW c \in Clients, Call(c) \/ Calling(c) \/ GiveUp(c)
  PROVE  OneInv'
<1>1. \A p \in Serves : look'[p] = look[p]
  <2>1. Looked(c) \/ UNCHANGED look
    BY DEF Call, Calling, GiveUp, FreshFinds, TakeFreshLock, FreshFindsAgain, StopFinds,
           PostStop, StopWaits, EnsureFinds, TakeStartLock, StartFinds, StartWaits
  <2> QED
    BY <2>1, Apart DEF Looked, TypeOK
<1>2. UNCHANGED <<entry, serveLock, robbed>>
  BY DEF Call, Calling, GiveUp, FreshFinds, TakeFreshLock, FreshFindsAgain, StopFinds,
         PostStop, StopWaits, EnsureFinds, TakeStartLock, StartFinds, StartWaits, aside,
         serveVars
<1>3. CASE UNCHANGED phase
  BY <1>1, <1>2, <1>3, OneAside
<1>4. CASE PostStop(c) /\ \E p \in Serves : Ends(p)
  <2>1. PICK p \in Serves : Ends(p)
    BY <1>4
  <2>2. CASE phase[p] \in {"serving", "stopping"} /\ ServeGoes(p, "stopping")
    BY <1>1, <1>2, <2>2, OneMoves DEF Advertised
  <2> QED
    BY <2>1, <2>2, <1>3 DEF Ends
<1>5. CASE StartFinds(c) /\ ~UNCHANGED phase
  <2>1. PICK p \in Serves : phase[p] = "unborn" /\ ServeGoes(p, "locking")
    BY <1>5 DEF StartFinds
  <2> QED
    BY <1>1, <1>2, <2>1, OneMoves
<1> QED
  <2>1. UNCHANGED phase \/ StartFinds(c) \/ (PostStop(c) /\ \E p \in Serves : Ends(p))
    BY DEF Call, Calling, GiveUp, FreshFinds, TakeFreshLock, FreshFindsAgain, StopFinds,
           PostStop, StopWaits, EnsureFinds, TakeStartLock, StartFinds, StartWaits, aside,
           serveVars
  <2> QED
    BY <1>3, <1>4, <1>5, <2>1

LEMMA NextOne == TypeOK /\ OneInv /\ [Next]_vars => OneInv'
<1> SUFFICES ASSUME TypeOK, OneInv, [Next]_vars PROVE OneInv'
  OBVIOUS
<1>1. CASE UNCHANGED vars
  BY <1>1, OneAside DEF vars
<1>2. CASE Install
  BY <1>2, OneAside DEF Install, serveVars
<1>3. ASSUME NEW p \in Serves, Signal(p) PROVE OneInv'
  <2>1. UNCHANGED <<entry, look, serveLock, robbed>> /\ Ends(p)
    BY <1>3 DEF Signal
  <2>2. CASE UNCHANGED phase
    BY <2>1, <2>2, OneAside
  <2>3. CASE phase[p] \in {"serving", "stopping"} /\ ServeGoes(p, "stopping")
    BY <2>1, <2>3, OneMoves DEF Advertised
  <2> QED
    BY <2>1, <2>2, <2>3 DEF Ends
<1> QED
  BY <1>1, <1>2, <1>3, OneLooking, OneServing, OneKill, OneCalling DEF Next

\* A serve that serves is the one every process finds, so it is the only one,
\* until some Running removes the entry of a living serve.
THEOREM FoundUnlessRobbed == Spec => []FindableUnlessRobbed
<1>1. OneInv => FindableUnlessRobbed
  BY DEF OneInv, EntryHeld, FindableUnlessRobbed, Findable, Advertised
<1> QED
  BY <1>1, InitType, NextType, InitOne, NextOne, PTL DEF Spec

\* "One serve per machine" (server.go:120) is true of every state before some
\* Running removes the entry of a living serve.
THEOREM OneServeUnlessRobbed == Spec => [](~robbed => OneServe)
<1>1. ASSUME Findable PROVE OneServe
  <2> DEFINE S == {p \in Serves : phase[p] = "serving"}
  <2>1. S \subseteq {entry.pid}
    BY <1>1 DEF Findable
  <2>2. IsFiniteSet({entry.pid}) /\ Cardinality({entry.pid}) = 1
    BY FS_Singleton
  <2>3. IsFiniteSet(S) /\ Cardinality(S) <= Cardinality({entry.pid})
    BY <2>1, <2>2, FS_Subset
  <2> QED
    BY <2>2, <2>3 DEF OneServe
<1> QED
  BY <1>1, FoundUnlessRobbed, PTL DEF FindableUnlessRobbed

--------------------------------------------------------------------------------
(* Fresh renews: a serve Fresh replaces is marked stale, and a marked serve *)
(* never writes an entry again.                                             *)

\* A marked serve has advertised and has looked its last.
MarkedSettled ==
  \A p \in Serves :
    marked[p] => look[p].at = "idle" /\ (Advertised(p) \/ phase[p] = "exited")

\* An entry that says stale is a marked serve's, where it is and where it was seen.
StaleMarked == entry.stale => entry.pid # 0 /\ marked[entry.pid]
SeenMarked ==
  \A x \in Serves \cup Clients : look[x].stale => look[x].pid # 0 /\ marked[look[x].pid]

ReplacedMarked == \A c \in Clients : replacing[c] # 0 => marked[replacing[c]]
NotYet == \A c \in Clients : pc[c] \in {"idle", "find", "freshLock", "again"} => replacing[c] = 0

\* Once Stop has found none, the replaced serve's entry is gone for good.
GoneFor(c) ==
  replacing[c] # 0 =>
    /\ pc[c] \in {"ensure", "startLock", "start", "await"} =>
         /\ entry.pid # replacing[c]
         /\ look[c].at \in {"read", "found"} => look[c].pid # replacing[c]
    /\ pc[c] \in {"stop", "gone"} /\ Missing(c) => entry.pid # replacing[c]

RenewInv == /\ MarkedSettled /\ StaleMarked /\ SeenMarked
            /\ ReplacedMarked /\ NotYet /\ \A c \in Clients : GoneFor(c)

LEMMA InitRenew == Init => RenewInv
<1> SUFFICES ASSUME Init PROVE RenewInv
  OBVIOUS
<1>1. /\ \A p \in Serves : ~marked[p]
      /\ \A x \in Serves \cup Clients : ~look[x].stale
      /\ \A c \in Clients : replacing[c] = 0
      /\ ~entry.stale
  BY DEF Init, Idle, NoEntry
<1> QED
  BY <1>1 DEF RenewInv, MarkedSettled, StaleMarked, SeenMarked, ReplacedMarked, NotYet, GoneFor

LEMMA RenewLooking ==
  ASSUME TypeOK, RenewInv, NEW x \in Serves \cup Clients, Looking(x)
  PROVE  RenewInv'
<1>1. /\ UNCHANGED <<phase, marked, pc, replacing>>
      /\ \A y \in Serves \cup Clients : y # x => look'[y] = look[y]
      /\ entry' = entry \/ entry' = NoEntry
  BY DEF Looking, ReadEntry, CheckAlive, RemoveDead, serveVars, clientVars, TypeOK
<1>2. MarkedSettled'
  <2>1. x \in Serves => ~marked[x]
    BY DEF Looking, ReadEntry, CheckAlive, RemoveDead, Looks, RenewInv, MarkedSettled, Advertised
  <2> QED
    BY <1>1, <2>1 DEF RenewInv, MarkedSettled, Advertised
<1>3. StaleMarked'
  BY <1>1 DEF RenewInv, StaleMarked, NoEntry
<1>4. SeenMarked'
  <2>1. look'[x].stale => look'[x].pid # 0 /\ marked[look'[x].pid]
    <3>1. CASE ReadEntry(x)
      BY <3>1 DEF ReadEntry, TypeOK, RenewInv, StaleMarked
    <3>2. CASE CheckAlive(x)
      BY <3>2 DEF CheckAlive, TypeOK, RenewInv, SeenMarked
    <3>3. CASE RemoveDead(x)
      BY <3>3 DEF RemoveDead, TypeOK, RenewInv, SeenMarked
    <3> QED
      BY <3>1, <3>2, <3>3 DEF Looking
  <2> QED
    BY <1>1, <2>1 DEF RenewInv, SeenMarked
<1>5. ReplacedMarked' /\ NotYet'
  BY <1>1 DEF RenewInv, ReplacedMarked, NotYet
<1>6. ASSUME NEW c \in Clients PROVE GoneFor(c)'
  <2>1. CASE c # x
    BY <1>1, <2>1 DEF RenewInv, GoneFor, Missing, NoEntry
  <2>2. CASE c = x
    <3>1. CASE ReadEntry(x)
      <4>1. look'[c].pid = entry.pid /\ entry' = entry /\ (Missing(c)' => entry.pid = 0)
        BY <2>2, <3>1 DEF ReadEntry, Missing, TypeOK
      <4> QED
        BY <1>1, <4>1 DEF RenewInv, GoneFor
    <3>2. CASE CheckAlive(x)
      <4>1. /\ look[c].at = "read" /\ look'[c].pid = look[c].pid /\ entry' = entry
            /\ ~Missing(c)'
        BY <2>2, <3>2 DEF CheckAlive, Missing, TypeOK
      <4> QED
        BY <1>1, <4>1 DEF RenewInv, GoneFor
    <3>3. CASE RemoveDead(x)
      <4>1. entry' = NoEntry /\ look'[c].at = "missing"
        BY <2>2, <3>3 DEF RemoveDead, TypeOK
      <4> QED
        BY <1>1, <4>1 DEF RenewInv, GoneFor, NoEntry
    <3> QED
      BY <3>1, <3>2, <3>3 DEF Looking
  <2> QED
    BY <2>1, <2>2
<1> QED
  BY <1>2, <1>3, <1>4, <1>5, <1>6 DEF RenewInv

\* A serve writes only its own entry, and not once it is marked; what is
\* marked stays so.
LEMMA RenewServing ==
  ASSUME TypeOK, RenewInv, NEW p \in Serves, Serving(p) \/ Signal(p) \/ Kill(p)
  PROVE  RenewInv'
<1>1. /\ UNCHANGED <<pc, replacing>>
      /\ \A x \in Serves \cup Clients : x # p => look'[x] = look[x]
      /\ \A q \in Serves : q # p => phase'[q] = phase[q] /\ marked'[q] = marked[q]
  BY DEF Serving, TakeServeLock, FindAnother, FindNone, Advertise, MarkStale, Withdraw, Leave,
         Signal, Kill, Ends, ServeGoes, Looked, clientVars, TypeOK
<1>2. look'[p] = look[p] \/ look'[p] = Idle
  BY DEF Serving, TakeServeLock, FindAnother, FindNone, Advertise, MarkStale, Withdraw, Leave,
         Signal, Kill, Looked, TypeOK
<1>3. marked[p] => /\ marked'[p]
                   /\ Advertised(p)' \/ phase'[p] = "exited"
                   /\ entry' = entry \/ entry' = NoEntry
  BY DEF Serving, TakeServeLock, FindAnother, FindNone, Advertise, MarkStale, Withdraw, Leave,
         Signal, Kill, Ends, ServeGoes, TypeOK, RenewInv, MarkedSettled, Advertised, Found,
         Missing
<1>4. marked'[p] /\ ~marked[p] =>
        look'[p].at = "idle" /\ (Advertised(p)' \/ phase'[p] = "exited")
  BY DEF Serving, TakeServeLock, FindAnother, FindNone, Advertise, MarkStale, Withdraw, Leave,
         Signal, Kill, Looked, TypeOK, Advertised, Idle
<1>5. \/ entry' = entry \/ entry' = NoEntry
      \/ entry'.pid = p /\ (entry'.stale => marked'[p])
  BY DEF Serving, TakeServeLock, FindAnother, FindNone, Advertise, MarkStale, Withdraw, Leave,
         Signal, Kill, TypeOK
<1>6. \A q \in Serves : marked[q] => marked'[q]
  BY <1>1, <1>3
<1>7. MarkedSettled'
  BY <1>1, <1>2, <1>3, <1>4 DEF RenewInv, MarkedSettled, Advertised, Idle
<1>8. StaleMarked'
  <2>1. entry.stale => entry.pid \in Serves
    BY DEF RenewInv, StaleMarked, TypeOK, Pids, Serves
  <2> QED
    BY <1>5, <1>6, <2>1, ServesArePids DEF RenewInv, StaleMarked, NoEntry
<1>9. SeenMarked'
  <2>1. \A x \in Serves \cup Clients : look[x].stale => look[x].pid \in Serves
    BY DEF RenewInv, SeenMarked, TypeOK, Pids, Serves
  <2> QED
    BY <1>1, <1>2, <1>6, <2>1 DEF RenewInv, SeenMarked, Idle
<1>10. \A c \in Clients : replacing[c] # 0 => replacing[c] \in Serves /\ marked[replacing[c]]
  BY DEF RenewInv, ReplacedMarked, TypeOK, Pids, Serves
<1>11. ReplacedMarked' /\ NotYet'
  BY <1>1, <1>6, <1>10 DEF RenewInv, ReplacedMarked, NotYet
<1>12. ASSUME NEW c \in Clients PROVE GoneFor(c)'
  <2>1. look'[c] = look[c]
    BY <1>1, Apart
  <2>2. replacing[c] # 0 /\ entry'.pid = replacing[c] => entry' = entry
    BY <1>3, <1>5, <1>10 DEF NoEntry
  <2> QED
    BY <1>1, <2>1, <2>2 DEF RenewInv, GoneFor, Missing
<1> QED
  BY <1>7, <1>8, <1>9, <1>11, <1>12 DEF RenewInv

\* What a client's step leaves alone, and what it has to keep for itself.
LEMMA RenewClient ==
  ASSUME TypeOK, RenewInv, NEW c \in Clients, Call(c) \/ Calling(c) \/ GiveUp(c),
         \A d \in Clients : d # c => pc'[d] = pc[d] /\ replacing'[d] = replacing[d],
         replacing'[c] # 0 => marked[replacing'[c]],
         pc'[c] \in {"idle", "find", "freshLock", "again"} => replacing'[c] = 0,
         GoneFor(c)'
  PROVE  RenewInv'
<1>1. UNCHANGED <<entry, marked>>
  BY DEF Call, Calling, GiveUp, FreshFinds, TakeFreshLock, FreshFindsAgain, StopFinds,
         PostStop, StopWaits, EnsureFinds, TakeStartLock, StartFinds, StartWaits, aside,
         serveVars
<1>2. /\ \A x \in Serves \cup Clients : x # c => look'[x] = look[x]
      /\ look'[c] = look[c] \/ look'[c] = Idle
  <2>1. Looked(c) \/ UNCHANGED look
    BY DEF Call, Calling, GiveUp, FreshFinds, TakeFreshLock, FreshFindsAgain, StopFinds,
           PostStop, StopWaits, EnsureFinds, TakeStartLock, StartFinds, StartWaits
  <2> QED
    BY <2>1 DEF Looked, TypeOK
<1>3. \A p \in Serves : Advertised(p) \/ phase[p] = "exited"
                          => Advertised(p)' \/ phase'[p] = "exited"
  <2>1. \/ UNCHANGED phase
        \/ \E p \in Serves : phase[p] = "unborn" /\ ServeGoes(p, "locking")
        \/ \E p \in Serves : Ends(p)
    BY DEF Call, Calling, GiveUp, FreshFinds, TakeFreshLock, FreshFindsAgain, StopFinds,
           PostStop, StopWaits, EnsureFinds, TakeStartLock, StartFinds, StartWaits, aside,
           serveVars
  <2> QED
    BY <2>1 DEF Ends, ServeGoes, Advertised, TypeOK
<1>4. MarkedSettled'
  BY <1>1, <1>2, <1>3, Apart DEF RenewInv, MarkedSettled
<1>5. StaleMarked'
  BY <1>1 DEF RenewInv, StaleMarked
<1>6. SeenMarked'
  BY <1>1, <1>2 DEF RenewInv, SeenMarked, Idle
<1>7. ReplacedMarked' /\ NotYet'
  BY <1>1 DEF RenewInv, ReplacedMarked, NotYet
<1>8. ASSUME NEW d \in Clients, d # c PROVE GoneFor(d)'
  BY <1>1, <1>2, <1>8 DEF RenewInv, GoneFor, Missing
<1> QED
  BY <1>4, <1>5, <1>6, <1>7, <1>8 DEF RenewInv

\* Where a call goes on to start a serve, the one it replaces is gone.
LEMMA RenewGoesOn ==
  ASSUME TypeOK, RenewInv, NEW c \in Clients, Call(c) \/ Calling(c) \/ GiveUp(c),
         UNCHANGED entry, NEW step \in Steps, GoesOn(c, step),
         Looked(c) \/ UNCHANGED look,
         step = "freshLock" => replacing[c] = 0,
         step \notin {"idle", "find", "again"},
         step \in {"startLock", "start", "await"}
           => pc[c] \in {"ensure", "startLock", "start", "await"},
         step = "ensure" => replacing[c] = 0 \/ (pc[c] \in {"stop", "gone"} /\ Missing(c)),
         step \in {"ensure", "stop", "gone"} => Looked(c)
  PROVE  RenewInv'
<1>1. /\ pc'[c] = step /\ replacing' = replacing
      /\ \A d \in Clients : d # c => pc'[d] = pc[d]
  BY DEF GoesOn, GoesTo, TypeOK
<1>2. look'[c] = look[c] \/ look'[c] = Idle
  BY DEF Looked, TypeOK
<1>3. Looked(c) => look'[c] = Idle
  BY DEF Looked, TypeOK
<1>4. GoneFor(c)'
  BY <1>1, <1>2, <1>3 DEF RenewInv, GoneFor, Missing, Idle, Steps
<1> QED
  BY <1>1, <1>4, RenewClient DEF RenewInv, ReplacedMarked

LEMMA RenewReturns ==
  ASSUME TypeOK, RenewInv, NEW c \in Clients, Call(c) \/ Calling(c) \/ GiveUp(c), Returns(c)
  PROVE  RenewInv'
<1>1. /\ pc'[c] = "idle" /\ replacing'[c] = 0
      /\ \A d \in Clients : d # c => pc'[d] = pc[d] /\ replacing'[d] = replacing[d]
  BY DEF Returns, GoesTo, TypeOK
<1> QED
  BY <1>1, RenewClient DEF GoneFor

LEMMA RenewStopped ==
  ASSUME TypeOK, RenewInv, NEW c \in Clients, StopFinds(c) \/ StopWaits(c), Missing(c),
         Looked(c), Stopped(c), UNCHANGED entry
  PROVE  RenewInv'
<1>1. Calling(c) /\ pc[c] \in {"stop", "gone"}
  BY DEF Calling, StopFinds, StopWaits
<1>2. "ensure" \in Steps
  BY DEF Steps
<1> QED
  BY <1>1, <1>2, RenewReturns, RenewGoesOn DEF Stopped

LEMMA RenewCalling ==
  ASSUME TypeOK, RenewInv, NEW c \in Clients, Call(c) \/ Calling(c) \/ GiveUp(c)
  PROVE  RenewInv'
<1> USE RenewGoesOn, RenewReturns, RenewStopped
<1>0. {"freshLock", "ensure", "post", "gone", "startLock", "await"} \subseteq Steps
  BY DEF Steps
<1>1. UNCHANGED entry
  BY DEF Call, Calling, GiveUp, FreshFinds, TakeFreshLock, FreshFindsAgain, StopFinds,
         PostStop, StopWaits, EnsureFinds, TakeStartLock, StartFinds, StartWaits, aside
<1>2. pc[c] \in {"idle", "find", "freshLock", "again"} => replacing[c] = 0
  BY DEF RenewInv, NotYet
<1>3. CASE Call(c)
  <2>1. replacing' = replacing /\ \A d \in Clients : d # c => pc'[d] = pc[d]
    BY <1>3 DEF Call, GoesTo, TypeOK
  <2>2. replacing[c] = 0
    BY <1>2, <1>3 DEF Call
  <2> QED
    BY <2>1, <2>2, RenewClient DEF GoneFor
<1>4. CASE FreshFinds(c)
  BY <1>0, <1>1, <1>2, <1>4 DEF FreshFinds
<1>5. CASE TakeFreshLock(c)
  <2>1. replacing' = replacing /\ \A d \in Clients : d # c => pc'[d] = pc[d]
    BY <1>5 DEF TakeFreshLock, GoesTo, TypeOK
  <2>2. replacing[c] = 0
    BY <1>2, <1>5 DEF TakeFreshLock
  <2> QED
    BY <2>1, <2>2, RenewClient DEF GoneFor
<1>6. CASE FreshFindsAgain(c)
  <2>1. CASE Missing(c) /\ GoesOn(c, "ensure")
    BY <1>0, <1>1, <1>2, <1>6, <2>1 DEF FreshFindsAgain
  <2>2. CASE Returns(c)
    BY <2>2
  <2>3. CASE /\ Found(c) /\ look[c].stale
             /\ replacing' = [replacing EXCEPT ![c] = look[c].pid]
             /\ GoesTo(c, "stop")
    <3>1. /\ replacing'[c] = look[c].pid /\ pc'[c] = "stop" /\ look'[c] = Idle
          /\ \A d \in Clients : d # c => pc'[d] = pc[d] /\ replacing'[d] = replacing[d]
      BY <1>6, <2>3 DEF FreshFindsAgain, GoesTo, Looked, TypeOK
    <3>2. marked[look[c].pid]
      BY <2>3 DEF RenewInv, SeenMarked
    <3>3. GoneFor(c)'
      BY <3>1 DEF GoneFor, Missing, Idle
    <3> QED
      BY <3>1, <3>2, <3>3, RenewClient
  <2> QED
    BY <1>6, <2>1, <2>2, <2>3 DEF FreshFindsAgain
<1>7. CASE StopFinds(c)
  <2>1. CASE Found(c) /\ GoesOn(c, "post") /\ UNCHANGED look
    BY <1>0, <1>1, <2>1
  <2>2. CASE Missing(c) /\ Looked(c) /\ Stopped(c)
    BY <1>1, <1>7, <2>2
  <2> QED
    BY <1>7, <2>1, <2>2 DEF StopFinds
<1>8. CASE PostStop(c)
  <2>1. CASE GoesOn(c, IF task[c] = "fresh" THEN WaitsFor ELSE "gone")
    <3>1. GoesOn(c, "gone") /\ Looked(c)
      BY <1>8, <2>1 DEF PostStop, WaitsFor
    <3> QED
      BY <1>0, <1>1, <3>1
  <2> QED
    BY <1>8, <2>1 DEF PostStop
<1>9. CASE StopWaits(c)
  <2>1. CASE Missing(c)
    BY <1>1, <1>9, <2>1 DEF StopWaits
  <2>2. CASE ~Missing(c)
    <3>1. UNCHANGED <<pc, replacing>> /\ look'[c] = Idle
      BY <1>9, <2>2 DEF StopWaits, LooksAgain, clientVars, Looked, TypeOK
    <3>2. GoneFor(c)'
      BY <1>9, <3>1 DEF StopWaits, GoneFor, Missing, Idle
    <3> QED
      BY <1>2, <3>1, <3>2, RenewClient DEF RenewInv, ReplacedMarked
  <2> QED
    BY <2>1, <2>2
<1>10. CASE EnsureFinds(c)
  BY <1>0, <1>1, <1>10 DEF EnsureFinds
<1>11. CASE TakeStartLock(c)
  <2>1. /\ replacing' = replacing /\ look' = look /\ pc[c] = "startLock" /\ pc'[c] = "start"
        /\ \A d \in Clients : d # c => pc'[d] = pc[d]
    BY <1>11 DEF TakeStartLock, GoesTo, TypeOK
  <2>2. GoneFor(c)'
    BY <1>1, <2>1 DEF RenewInv, GoneFor
  <2> QED
    BY <2>1, <2>2, RenewClient DEF RenewInv, ReplacedMarked
<1>12. CASE StartFinds(c)
  BY <1>0, <1>1, <1>12 DEF StartFinds
<1>13. CASE StartWaits(c)
  <2>1. CASE Found(c)
    BY <1>13, <2>1 DEF StartWaits
  <2>2. CASE ~Found(c)
    <3>1. UNCHANGED <<pc, replacing>> /\ look'[c] = Idle /\ pc[c] = "await"
      BY <1>13, <2>2 DEF StartWaits, LooksAgain, clientVars, Looked, TypeOK
    <3>2. GoneFor(c)'
      BY <1>1, <3>1 DEF RenewInv, GoneFor, Idle
    <3> QED
      BY <3>1, <3>2, RenewClient DEF RenewInv, ReplacedMarked
  <2> QED
    BY <2>1, <2>2
<1>14. CASE GiveUp(c)
  BY <1>14 DEF GiveUp
<1> QED
  BY <1>3, <1>4, <1>5, <1>6, <1>7, <1>8, <1>9, <1>10, <1>11, <1>12, <1>13, <1>14 DEF Calling

LEMMA NextRenew == TypeOK /\ RenewInv /\ [Next]_vars => RenewInv'
<1> SUFFICES ASSUME TypeOK, RenewInv, [Next]_vars PROVE RenewInv'
  OBVIOUS
<1>1. CASE UNCHANGED vars \/ Install
  <2>1. UNCHANGED <<entry, phase, marked, look, pc, replacing>>
    BY <1>1 DEF vars, Install, serveVars, clientVars
  <2> QED
    BY <2>1 DEF RenewInv, MarkedSettled, Advertised, StaleMarked, SeenMarked, ReplacedMarked,
                NotYet, GoneFor, Missing
<1> QED
  BY <1>1, RenewLooking, RenewServing, RenewCalling DEF Next

\* However stops, starts and the old serve's own end interleave, Fresh does
\* not come back with the serve it replaces.
THEOREM FreshAlwaysRenews == Spec => []FreshRenews
<1>1. RenewInv => FreshRenews
  BY DEF RenewInv, GoneFor, FreshRenews, Found
<1> QED
  BY <1>1, InitType, NextType, InitRenew, NextRenew, PTL DEF Spec
===============================================================================
