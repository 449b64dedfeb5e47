----------------------------- MODULE LiveEntries -----------------------------
(***************************************************************************)
(* pageserve/live.go: the directory in which page servers leave entries    *)
(* and channels leave presence records, and by which a page is claimed by  *)
(* one channel.  Nothing but the files is shared.  Writing, removing and   *)
(* reading one file are atomic (WriteFileAtomic, os.Remove, os.ReadFile);  *)
(* asking whether a process lives and acting on it are separate steps.     *)
(* A lock file is an inode: Remove unlinks it under whoever holds it.      *)
(*                                                                         *)
(* A server's address is its own, so "one entry per URL" is one per        *)
(* server.  Process ids are not reused.  Files Write would refuse          *)
(* (Validate) are left out: this code neither reports nor touches them.    *)
(***************************************************************************)
EXTENDS Integers, FiniteSets

CONSTANTS
  Rooms, Servers, Channels, Sessions,
  SessionOf,     \* the session each channel process serves
  Newer,         \* the servers and channels of a newer build
  Nobody,        \* no owner, no process
  MaxWrites,     \* bound: entries servers write
  MaxLocks,      \* bound: lock files created
  MaxClaims,     \* bound: calls of Claim
  MaxScans,      \* bound: calls of Inspect
  MaxDeaths      \* bound: processes that die, and records withdrawn

\* What a theorem here assumes of them; each instance is checked to meet it.
LiveConstants ==
  /\ SessionOf \in [Channels -> Sessions]
  /\ Nobody \notin Sessions \cup Servers \cup Channels
  /\ Servers \cap Channels = {}
  /\ \A bound \in {MaxWrites, MaxLocks, MaxClaims, MaxScans, MaxDeaths} : bound \in Nat

VARIABLES
  entry,      \* <room>.json
  lockFile,   \* the inode <room>.lock names, 0 if there is none
  lockHeld,   \* who holds each inode's flock
  presence,   \* sessions/<session>.json
  up,         \* the life of each process
  leaving,    \* the rooms each server is in Remove of, their locks gone
  pc,         \* where each channel is in Claim or Inspect
  room, inode, got, asked,   \* Claim: its room, lock, the entry read, the pid asked for
  todo, kept, pages,         \* Inspect: files left, candidates, what it returned
  writes, locks, claims, scans, deaths,
  won,        \* history: the channels Claim told yes, heard of ever since
  unlinked,   \* history: a room's lock was removed under a Claim
  robbed,     \* history: a living channel's record was replaced, or removed unjudged
  steady      \* history: the entries nobody but a Claim touched since a scan began

claiming == <<room, inode, got, asked>>
scanning == <<todo, kept, pages, steady>>
counts   == <<writes, locks, claims, scans, deaths>>
liveVars == <<entry, lockFile, lockHeld, presence, up, leaving, pc, claiming, scanning, counts,
              won, unlinked, robbed>>

NoEntry  == [server |-> Nobody, owner |-> Nobody, at |-> 0, future |-> FALSE]
NoRecord == [channel |-> Nobody, future |-> FALSE]

Inodes == 1..MaxLocks
EntryRow == [server : Servers \cup {Nobody}, owner : Sessions \cup {Nobody},
             at : 0..(MaxWrites + MaxClaims + 1), future : BOOLEAN]
ClaimSteps == {"lock", "ask", "alive", "reap", "write"}
ScanSteps == {"scan", "check", "remove", "listed"}

LiveInit ==
  /\ entry = [r \in Rooms |-> NoEntry]
  /\ lockFile = [r \in Rooms |-> 0]
  /\ lockHeld = [i \in Inodes |-> Nobody]
  /\ presence = [s \in Sessions |-> NoRecord]
  /\ up = [p \in Servers \cup Channels |-> "new"]
  /\ leaving = [s \in Servers |-> {}]
  /\ pc = [c \in Channels |-> "idle"]
  /\ \E r \in Rooms : room = [c \in Channels |-> r]
  /\ inode = [c \in Channels |-> 0]
  /\ got = [c \in Channels |-> NoEntry]
  /\ asked = [c \in Channels |-> Nobody]
  /\ todo = [c \in Channels |-> {}] /\ kept = [c \in Channels |-> {}]
  /\ pages = [c \in Channels |-> {}] /\ steady = [c \in Channels |-> {}]
  /\ writes = 0 /\ locks = 0 /\ claims = 0 /\ scans = 0 /\ deaths = 0
  /\ won = [r \in Rooms |-> {}]
  /\ unlinked = [r \in Rooms |-> FALSE]
  /\ robbed = FALSE

PIDAlive(p) == p # Nobody /\ up[p] = "up"

\* The session has a record of a living channel this build can read.
Heard(records, life, s) ==
  /\ records[s].channel # Nobody /\ ~records[s].future
  /\ life[records[s].channel] = "up"

\* A channel that answered to a page and is heard of no more has left it.
StillHeard(records, life) ==
  [r \in Rooms |-> {c \in won[r] : Heard(records, life, SessionOf[c]) /\ life[c] = "up"}]

--------------------------------------------------------------------------------
(* Servers: Write on start and again, Remove on exit, or death.             *)

\* Write: stamps the generation, replaces the file.
Write(s, r, owner) ==
  /\ up[s] \in {"new", "up"} /\ leaving[s] = {} /\ writes < MaxWrites
  /\ up' = [up EXCEPT ![s] = "up"]
  /\ writes' = writes + 1
  /\ entry' = [entry EXCEPT ![r] = [server |-> s, owner |-> owner,
                                    at |-> writes + claims + 1, future |-> s \in Newer]]
  /\ won' = [won EXCEPT ![r] = {}]
  /\ steady' = [c \in Channels |-> IF entry[r].server = s THEN steady[c]
                                                          ELSE steady[c] \ {r}]
  /\ UNCHANGED <<leaving, lockFile, lockHeld, presence, pc, claiming, todo, kept, pages,
                 locks, claims, scans, deaths, unlinked, robbed>>

InClaim(r) == \E c \in Channels : pc[c] \in ClaimSteps /\ room[c] = r

\* Remove: first the claim lock, held or not,
RemoveLock(s, r) ==
  /\ up[s] = "up" /\ entry[r].server = s /\ r \notin leaving[s]
  /\ lockFile' = [lockFile EXCEPT ![r] = 0]
  /\ leaving' = [leaving EXCEPT ![s] = @ \cup {r}]
  /\ unlinked' = [unlinked EXCEPT ![r] = @ \/ InClaim(r)]
  /\ UNCHANGED <<entry, lockHeld, presence, up, pc, claiming, scanning, counts, won, robbed>>

\* then the entry, whosever it is by now; and the server exits.
RemoveEntry(s, r) ==
  /\ r \in leaving[s] /\ leaving' = [leaving EXCEPT ![s] = @ \ {r}]
  /\ up' = [up EXCEPT ![s] = IF leaving'[s] = {} THEN "gone" ELSE @]
  /\ entry' = [entry EXCEPT ![r] = NoEntry]
  /\ won' = [won EXCEPT ![r] = {}]
  /\ steady' = [c \in Channels |-> {q \in steady[c] \ {r} : entry[q].server # s}]
  /\ UNCHANGED <<lockFile, lockHeld, presence, pc, claiming, todo, kept, pages, counts,
                 unlinked, robbed>>

\* A server dies and leaves its entry.
ServerDies(s) ==
  /\ up[s] = "up" /\ deaths < MaxDeaths
  /\ up' = [up EXCEPT ![s] = "gone"] /\ leaving' = [leaving EXCEPT ![s] = {}]
  /\ deaths' = deaths + 1
  /\ steady' = [c \in Channels |-> {r \in steady[c] : entry[r].server # s}]
  /\ UNCHANGED <<entry, lockFile, lockHeld, presence, pc, claiming, todo, kept, pages,
                 writes, locks, claims, scans, won, unlinked, robbed>>

--------------------------------------------------------------------------------
(* A channel's presence.                                                    *)

\* AnnounceSession, at startup or again.
AnnounceSession(c) ==
  /\ up[c] \in {"new", "up"} /\ pc[c] = "idle"
  /\ presence[SessionOf[c]].channel # c
  /\ up' = [up EXCEPT ![c] = "up"]
  /\ presence' = [presence EXCEPT ![SessionOf[c]] =
                    [channel |-> c, future |-> c \in Newer]]
  /\ won' = StillHeard(presence', up')
  /\ robbed' = (robbed \/ PIDAlive(presence[SessionOf[c]].channel))
  /\ UNCHANGED <<leaving, entry, lockFile, lockHeld, pc, claiming, scanning, counts,
                 unlinked>>

\* WithdrawSession, and the process ends: by name, whosever record it is.
WithdrawSession(c) ==
  /\ up[c] = "up" /\ pc[c] = "idle" /\ deaths < MaxDeaths
  /\ up' = [up EXCEPT ![c] = "gone"]
  /\ presence' = [presence EXCEPT ![SessionOf[c]] = NoRecord]
  /\ won' = StillHeard(presence', up')
  /\ robbed' = (robbed \/ presence[SessionOf[c]].channel # c)
  /\ deaths' = deaths + 1
  /\ UNCHANGED <<leaving, entry, lockFile, lockHeld, pc, claiming, scanning, writes, locks,
                 claims, scans, unlinked>>

Released(c) == [i \in Inodes |-> IF lockHeld[i] = c THEN Nobody ELSE lockHeld[i]]

\* Claim returns; the deferred LOCK_UN frees the lock.  Its locals are gone.
Return(c) ==
  /\ pc' = [pc EXCEPT ![c] = "idle"]
  /\ lockHeld' = Released(c)
  /\ inode' = [inode EXCEPT ![c] = 0]
  /\ got' = [got EXCEPT ![c] = NoEntry]
  /\ asked' = [asked EXCEPT ![c] = Nobody]

\* A channel dies where it is; the kernel drops its flock.
ChannelDies(c) ==
  /\ up[c] = "up" /\ deaths < MaxDeaths
  /\ up' = [up EXCEPT ![c] = "gone"]
  /\ Return(c)
  /\ won' = StillHeard(presence, up')
  /\ deaths' = deaths + 1
  /\ UNCHANGED <<leaving, entry, lockFile, presence, room, scanning, writes, locks, claims,
                 scans, unlinked, robbed>>

--------------------------------------------------------------------------------
(* Claim, and SessionLive inside it.                                        *)

Ready(c) == up[c] = "up" /\ c \notin Newer /\ pc[c] = "idle"

\* os.OpenFile(<room>.lock, O_CREATE): the file of that name, or a new one.
ClaimOpen(c, r) ==
  /\ Ready(c) /\ claims < MaxClaims
  /\ \/ lockFile[r] # 0 /\ UNCHANGED <<lockFile, locks>>
     \/ /\ lockFile[r] = 0 /\ locks < MaxLocks
        /\ locks' = locks + 1
        /\ lockFile' = [lockFile EXCEPT ![r] = locks + 1]
  /\ inode' = [inode EXCEPT ![c] = lockFile'[r]]
  /\ room' = [room EXCEPT ![c] = r]
  /\ pc' = [pc EXCEPT ![c] = "lock"]
  /\ claims' = claims + 1
  /\ UNCHANGED <<leaving, entry, lockHeld, presence, up, got, asked, scanning, writes, scans,
                 deaths, won, unlinked, robbed>>

NoWait(i) == TRUE   \* mutant: flock(LOCK_SH)
Unheld(i) == lockHeld[i] = Nobody

Yes(c) ==
  won' = IF Heard(presence, up, SessionOf[c]) THEN [won EXCEPT ![room[c]] = @ \cup {c}] ELSE won

Goto(c, at) ==
  /\ pc' = [pc EXCEPT ![c] = at]
  /\ lockHeld' = [lockHeld EXCEPT ![inode[c]] = c]
  /\ got' = [got EXCEPT ![c] = entry[room[c]]]
  /\ UNCHANGED <<inode, asked>>

\* With the lock, read the entry: gone or a newer build's, ours already,
\* another's, or nobody's.
ClaimRead(c) ==
  LET e == entry[room[c]]
  IN /\ pc[c] = "lock" /\ Unheld(inode[c])
     /\ \/ (e = NoEntry \/ e.future) /\ Return(c) /\ UNCHANGED won
        \/ ~e.future /\ e.owner = SessionOf[c] /\ Return(c) /\ Yes(c)
        \/ ~e.future /\ e.owner \notin {Nobody, SessionOf[c]} /\ Goto(c, "ask")
           /\ UNCHANGED won
        \/ e # NoEntry /\ ~e.future /\ e.owner = Nobody /\ Goto(c, "write") /\ UNCHANGED won
     /\ UNCHANGED <<leaving, entry, lockFile, presence, up, room, scanning, counts, unlinked,
                    robbed>>

Step(c, from, to) == pc[c] = from /\ pc' = [pc EXCEPT ![c] = to]

\* SessionLive reads the owner's record; none or a newer one is not live.
LiveRead(c) ==
  LET record == presence[got[c].owner]
      none == record = NoRecord \/ record.future
  IN /\ Step(c, "ask", IF none THEN "write" ELSE "alive")
     /\ asked' = [asked EXCEPT ![c] = IF none THEN Nobody ELSE record.channel]
     /\ UNCHANGED <<leaving, entry, lockFile, lockHeld, presence, up, room, inode, got,
                    scanning, counts, won, unlinked, robbed>>

Dead(p) == TRUE   \* mutant: the record is enough to reap it
NotAlive(p) == ~PIDAlive(p)

\* The record's process lives: spoken for. Else the record is to go.
LiveCheck(c) ==
  /\ pc[c] = "alive"
  /\ \/ NotAlive(asked[c]) /\ pc' = [pc EXCEPT ![c] = "reap"]
        /\ UNCHANGED <<lockHeld, inode, got, asked>>
     \/ ~NotAlive(asked[c]) /\ Return(c)
  /\ UNCHANGED <<leaving, entry, lockFile, presence, up, room, scanning, counts, won,
                 unlinked, robbed>>

\* os.Remove by name: the record may be another by now.
LiveReap(c) ==
  LET s == got[c].owner
  IN /\ Step(c, "reap", "write")
     /\ presence' = [presence EXCEPT ![s] = NoRecord]
     /\ won' = StillHeard(presence', up)
     /\ robbed' = (robbed \/ presence[s].channel # asked[c])
     /\ UNCHANGED <<leaving, entry, lockFile, lockHeld, up, claiming, scanning, counts,
                    unlinked>>

\* Write the entry read, with its owner changed, over whatever is there now.
ClaimWrite(c) ==
  LET r == room[c]
  IN /\ pc[c] = "write" /\ Return(c) /\ Yes(c)
     /\ entry' = [entry EXCEPT ![r] = [got[c] EXCEPT !.owner = SessionOf[c],
                                                     !.at = writes + claims + 1]]
     /\ steady' = [d \in Channels |->
          IF entry[r].server = got[c].server THEN steady[d] ELSE steady[d] \ {r}]
     /\ UNCHANGED <<leaving, lockFile, presence, up, room, todo, kept, pages, counts,
                    unlinked, robbed>>

--------------------------------------------------------------------------------
(* Inspect (List): the files there at first, one after another.             *)

Files == {r \in Rooms : entry[r] # NoEntry}

Glob(c) ==
  /\ Ready(c) /\ Files # {} /\ scans < MaxScans
  /\ pc' = [pc EXCEPT ![c] = "scan"]
  /\ todo' = [todo EXCEPT ![c] = Files]
  /\ kept' = [kept EXCEPT ![c] = {}]
  /\ pages' = [pages EXCEPT ![c] = {}]
  /\ steady' = [steady EXCEPT ![c] =
                  {r \in Files : PIDAlive(entry[r].server) /\ ~entry[r].future}]
  /\ scans' = scans + 1
  /\ UNCHANGED <<leaving, entry, lockFile, lockHeld, presence, up, claiming, writes, locks,
                 claims, deaths, won, unlinked, robbed>>

\* Read the next file: gone, newer, or one to check.
ScanRead(c) ==
  \E r \in todo[c] :
    /\ Step(c, "scan", IF entry[r] = NoEntry \/ entry[r].future THEN "scan" ELSE "check")
    /\ todo' = [todo EXCEPT ![c] = @ \ {r}]
    /\ room' = [room EXCEPT ![c] = r]
    /\ got' = [got EXCEPT ![c] = entry[r]]
    /\ UNCHANGED <<leaving, entry, lockFile, lockHeld, presence, up, inode, asked, kept,
                   pages, steady, counts, won, unlinked, robbed>>

\* Its process lives: a candidate, with the file's time as it is now.
ScanCheck(c) ==
  LET r == room[c]
  IN /\ pc[c] = "check"
     /\ \/ /\ PIDAlive(got[c].server)
           /\ kept' = [kept EXCEPT ![c] =
                @ \cup {[room |-> r, server |-> got[c].server, at |-> entry[r].at]}]
           /\ pc' = [pc EXCEPT ![c] = "scan"]
        \/ /\ ~PIDAlive(got[c].server)
           /\ pc' = [pc EXCEPT ![c] = "remove"]
           /\ UNCHANGED kept
     /\ UNCHANGED <<leaving, entry, lockFile, lockHeld, presence, up, claiming, todo, pages,
                    steady, counts, won, unlinked, robbed>>

\* Reap the dead, by name.
ScanReap(c) ==
  LET r == room[c]
  IN /\ Step(c, "remove", "scan")
     /\ entry' = [entry EXCEPT ![r] = NoEntry]
     /\ won' = [won EXCEPT ![r] = {}]
     /\ steady' = [d \in Channels |->
          IF entry[r].server = got[c].server THEN steady[d] ELSE steady[d] \ {r}]
     /\ UNCHANGED <<leaving, lockFile, lockHeld, presence, up, claiming, todo, kept, pages,
                    counts, unlinked, robbed>>

OnlyOne(K) == {k \in K : \A l \in K : l.server = k.server => l = k}   \* mutant: drops both
\* One entry per URL: the newest.  (Equal times are told apart by file name.)
Newest(K) == {k \in K : \A l \in K : l.server = k.server => l.at <= k.at}

ScanDone(c) ==
  /\ todo[c] = {} /\ Step(c, "scan", "listed")
  /\ pages' = [pages EXCEPT ![c] = Newest(kept[c])]
  /\ UNCHANGED <<leaving, entry, lockFile, lockHeld, presence, up, claiming, todo, kept,
                 steady, counts, won, unlinked, robbed>>

\* The caller has its list.
ScanUsed(c) ==
  /\ Step(c, "listed", "idle")
  /\ pages' = [pages EXCEPT ![c] = {}] /\ kept' = [kept EXCEPT ![c] = {}]
  /\ steady' = [steady EXCEPT ![c] = {}]
  /\ UNCHANGED <<leaving, entry, lockFile, lockHeld, presence, up, claiming, todo, counts,
                 won, unlinked, robbed>>

--------------------------------------------------------------------------------

ServerStep(s) ==
  \/ \E r \in Rooms, owner \in Sessions \cup {Nobody} : Write(s, r, owner)
  \/ \E r \in Rooms : RemoveLock(s, r) \/ RemoveEntry(s, r)
  \/ ServerDies(s)

Claiming(c) ==
  \/ \E r \in Rooms : ClaimOpen(c, r)
  \/ ClaimRead(c) \/ LiveRead(c) \/ LiveCheck(c) \/ LiveReap(c) \/ ClaimWrite(c)

Inspecting(c) ==
  Glob(c) \/ ScanRead(c) \/ ScanCheck(c) \/ ScanReap(c) \/ ScanDone(c) \/ ScanUsed(c)

ChannelStep(c) ==
  \/ AnnounceSession(c) \/ WithdrawSession(c) \/ ChannelDies(c)
  \/ Claiming(c) \/ Inspecting(c)

LiveNext == (\E s \in Servers : ServerStep(s)) \/ (\E c \in Channels : ChannelStep(c))

LiveSpec == LiveInit /\ [][LiveNext]_liveVars

--------------------------------------------------------------------------------
(* What must hold.                                                          *)

\* Every file and every local of a call holds a value of its kind, and a Claim
\* past its lock holds the lock it opened.
LiveTypeOK ==
  /\ entry \in [Rooms -> EntryRow] /\ got \in [Channels -> EntryRow]
  /\ lockFile \in [Rooms -> 0..MaxLocks] /\ inode \in [Channels -> 0..MaxLocks]
  /\ lockHeld \in [Inodes -> Channels \cup {Nobody}]
  /\ presence \in [Sessions -> [channel : Channels \cup {Nobody}, future : BOOLEAN]]
  /\ up \in [Servers \cup Channels -> {"new", "up", "gone"}]
  /\ leaving \in [Servers -> SUBSET Rooms]
  /\ pc \in [Channels -> {"idle"} \cup ClaimSteps \cup ScanSteps]
  /\ room \in [Channels -> Rooms]
  /\ asked \in [Channels -> Channels \cup {Nobody}]
  /\ todo \in [Channels -> SUBSET Rooms] /\ steady \in [Channels -> SUBSET Rooms]
  /\ writes \in 0..MaxWrites /\ locks \in 0..MaxLocks
  /\ claims \in 0..MaxClaims /\ scans \in 0..MaxScans /\ deaths \in 0..MaxDeaths
  /\ won \in [Rooms -> SUBSET Channels]
  /\ unlinked \in [Rooms -> BOOLEAN] /\ robbed \in BOOLEAN
  /\ \A c \in Channels : pc[c] \in ClaimSteps \ {"lock"} => lockHeld[inode[c]] = c

\* A page reaches one channel: two channels that Claim told yes for the same
\* entry, and that have been heard of ever since, serve one session ("EXACTLY ONE
\* channel", says Claim) -- unless Remove took the lock away under a Claim.
OneListenerUnlessUnlinked ==
  \A r \in Rooms : unlinked[r] \/ \A c, d \in won[r] : SessionOf[c] = SessionOf[d]

\* A living channel is heard of, unless a reader removed a record that was no
\* longer the dead one it judged, or another channel of its session announced
\* or withdrew itself meanwhile.
HeardUnlessRobbed ==
  robbed \/ \A c \in Channels \ Newer : PIDAlive(c) => Heard(presence, up, SessionOf[c])

\* What a scan returns has every page that was up throughout it: no entry is
\* lost because others came, went or were reaped meanwhile.
ScanFindsTheSteady ==
  \A c \in Channels :
    pc[c] = "listed" =>
      \A r \in steady[c] : \E k \in pages[c] : k.server = entry[r].server
===============================================================================
