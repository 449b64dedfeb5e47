--------------------------- MODULE LiveEntriesProofs ---------------------------
(***************************************************************************)
(* Proofs about LiveEntries for any rooms, servers, channels and bounds: a *)
(* page reaches one channel unless its lock was unlinked under a Claim; a  *)
(* living channel is heard of unless its record was robbed; a scan finds   *)
(* the pages that were up throughout it; and the types.                    *)
(*                                                                         *)
(* One listener: while the lock file of a room is not unlinked under a     *)
(* Claim, its Claims share one inode, so one of them at a time is past the *)
(* lock.  Who Claim told yes is the entry's owner; a Claim that replaces   *)
(* the owner has first seen that nobody hears of it any more, and then     *)
(* nobody told yes is left.                                                *)
(*                                                                         *)
(* Heard of: the record of a living channel's session is its own, and who  *)
(* a reader is about to reap is gone for good.                             *)
(*                                                                         *)
(* The scan: an entry nobody removed is of a server that lives, and the    *)
(* scan is to read it, has read it, or has kept a candidate of its server; *)
(* of a server's candidates one is the newest.                             *)
(***************************************************************************)
EXTENDS LiveEntries, WellFoundedInduction, TLAPS

PastLock == {"ask", "alive", "reap", "write"}
PcKinds == {"idle"} \cup ClaimSteps \cup ScanSteps
EntryKind == [server : Servers \cup {Nobody}, owner : Sessions \cup {Nobody},
              at : Nat, future : BOOLEAN]
RecordKind == [channel : Channels \cup {Nobody}, future : BOOLEAN]

\* What the argument needs of the types.
FilesOK ==
  /\ entry \in [Rooms -> EntryKind] /\ lockFile \in [Rooms -> 0..MaxLocks]
  /\ lockHeld \in [Inodes -> Channels \cup {Nobody}]
  /\ presence \in [Sessions -> RecordKind]
  /\ up \in [Servers \cup Channels -> {"new", "up", "gone"}]
  /\ won \in [Rooms -> SUBSET Channels] /\ unlinked \in [Rooms -> BOOLEAN]
  /\ writes \in Nat /\ claims \in Nat /\ locks \in Nat
CallsOK ==
  /\ pc \in [Channels -> PcKinds] /\ room \in [Channels -> Rooms]
  /\ got \in [Channels -> EntryKind] /\ inode \in [Channels -> 0..MaxLocks]
  /\ todo \in [Channels -> SUBSET Rooms]

\* A Claim has opened an inode, the one the room's lock file still names unless
\* it was unlinked; past the lock it holds it.
LockOK ==
  \A c \in Channels :
    /\ pc[c] \in ClaimSteps => inode[c] \in Inodes
    /\ pc[c] \in ClaimSteps /\ unlinked[room[c]] = FALSE => inode[c] = lockFile[room[c]]
    /\ pc[c] \in PastLock => lockHeld[inode[c]] = c

\* Who Claim told yes is heard of, and owns the entry.
WonOK ==
  \A r \in Rooms : \A c \in won[r] :
    /\ Heard(presence, up, SessionOf[c])
    /\ unlinked[r] = FALSE => entry[r].owner = SessionOf[c]

\* A Claim that asks for the owner asks for whoever was told yes; one that is
\* to write has nobody to hear of.
AskOK ==
  \A c \in Channels :
    /\ pc[c] \in {"ask", "alive", "reap"} => got[c].owner \in Sessions
    /\ pc[c] \in {"ask", "alive", "reap"} /\ unlinked[room[c]] = FALSE =>
         \A d \in won[room[c]] : SessionOf[d] = got[c].owner
    /\ pc[c] = "write" /\ unlinked[room[c]] = FALSE => won[room[c]] = {}

IInv == FilesOK /\ CallsOK /\ LockOK /\ WonOK /\ AskOK

LEMMA StepsAre ==
  /\ PastLock \subseteq ClaimSteps /\ ClaimSteps \subseteq PcKinds /\ ScanSteps \subseteq PcKinds
  /\ "idle" \in PcKinds /\ "idle" \notin ClaimSteps
  /\ "lock" \in ClaimSteps /\ "lock" \notin PastLock
  /\ ClaimSteps \cap ScanSteps = {}
  /\ "scan" \in ScanSteps /\ "check" \in ScanSteps
  /\ "remove" \in ScanSteps /\ "listed" \in ScanSteps
  /\ "ask" \in PastLock /\ "alive" \in PastLock /\ "reap" \in PastLock /\ "write" \in PastLock
  /\ \A s \in ClaimSteps : s # "lock" => s \in PastLock
  /\ \A s \in PastLock : s = "write" \/ s \in {"ask", "alive", "reap"}
  BY DEF PastLock, PcKinds, ClaimSteps, ScanSteps

LEMMA ConstantsAre ==
  ASSUME LiveConstants PROVE
    /\ SessionOf \in [Channels -> Sessions] /\ MaxLocks \in Nat
    /\ Nobody \notin Sessions /\ Nobody \notin Channels /\ Servers \cap Channels = {}
  BY DEF LiveConstants

LEMMA EmptyKinds == NoEntry \in EntryKind /\ NoRecord \in RecordKind
  BY DEF NoEntry, NoRecord, EntryKind, RecordKind

LEMMA InitKeeps == ASSUME LiveConstants, LiveInit PROVE IInv
<1>1. FilesOK
  <2>1. 0 \in 0..MaxLocks
    BY ConstantsAre
  <2> QED BY <2>1, EmptyKinds DEF LiveInit, FilesOK
<1>2. CallsOK
  <2>1. 0 \in 0..MaxLocks
    BY ConstantsAre
  <2>2. room \in [Channels -> Rooms]
    BY DEF LiveInit
  <2> QED BY <2>1, <2>2, EmptyKinds, StepsAre DEF LiveInit, CallsOK
<1>3. \A c \in Channels : pc[c] = "idle"
  BY DEF LiveInit
<1>4. \A r \in Rooms : won[r] = {}
  BY DEF LiveInit
<1>5. LockOK /\ WonOK /\ AskOK
  BY <1>3, <1>4, StepsAre DEF LockOK, WonOK, AskOK
<1> QED BY <1>1, <1>2, <1>5 DEF IInv

--------------------------------------------------------------------------------
(* What most steps do.                                                      *)

\* Two Claims of one room are not both past a lock that is still there.
LEMMA OnePast ==
  ASSUME IInv, NEW c \in Channels, NEW d \in Channels, room[c] = room[d],
         unlinked[room[c]] = FALSE, pc[c] \in PastLock, pc[d] \in PastLock
  PROVE  c = d
  BY StepsAre DEF IInv, LockOK

\* A Claim at a lock it can take finds nobody past it.
LEMMA NonePast ==
  ASSUME LiveConstants, IInv, NEW c \in Channels, NEW d \in Channels, room[c] = room[d],
         unlinked[room[c]] = FALSE, pc[c] = "lock", lockHeld[inode[c]] = Nobody
  PROVE  pc[d] \notin PastLock
  BY StepsAre, ConstantsAre DEF IInv, LockOK

\* No Claim goes further than it was, and the locks keep still.
LEMMA LockStill ==
  ASSUME IInv, UNCHANGED <<inode, lockHeld>>,
         \A r \in Rooms : unlinked'[r] = FALSE => unlinked[r] = FALSE,
         \A c \in Channels : pc'[c] \in ClaimSteps =>
           /\ pc[c] \in ClaimSteps /\ room'[c] = room[c]
           /\ pc'[c] \in PastLock => pc[c] \in PastLock
           /\ unlinked'[room[c]] = FALSE => lockFile'[room[c]] = lockFile[room[c]]
  PROVE  LockOK'
<1>1. \A c \in Channels : room[c] \in Rooms
  BY DEF IInv, CallsOK
<1>2. ASSUME NEW c \in Channels, pc'[c] \in ClaimSteps
      PROVE  /\ inode'[c] \in Inodes
             /\ unlinked'[room'[c]] = FALSE => inode'[c] = lockFile'[room'[c]]
             /\ pc'[c] \in PastLock => lockHeld'[inode'[c]] = c
  BY <1>1, <1>2 DEF IInv, LockOK
<1> QED BY <1>2, StepsAre DEF LockOK

\* Nobody new is told yes, and whoever has been is heard of and owns its entry.
LEMMA WonShrinks ==
  ASSUME IInv,
         \A r \in Rooms : won'[r] \subseteq won[r],
         \A r \in Rooms : won'[r] # {} => entry'[r].owner = entry[r].owner,
         \A r \in Rooms : unlinked'[r] = FALSE => unlinked[r] = FALSE,
         \A r \in Rooms : \A c \in won'[r] : Heard(presence', up', SessionOf[c]),
         \A c \in Channels : pc'[c] \in PastLock =>
           pc'[c] = pc[c] /\ got'[c] = got[c] /\ room'[c] = room[c]
  PROVE  WonOK' /\ AskOK'
<1>1. WonOK'
  BY DEF IInv, WonOK
<1>2. \A c \in Channels : pc'[c] \in PastLock => room[c] \in Rooms
  BY DEF IInv, CallsOK
<1>3. AskOK'
  BY <1>2, StepsAre DEF IInv, AskOK
<1> QED BY <1>1, <1>3

\* The Claims past a lock keep their place, and nobody is told yes of their rooms.
LEMMA AskStill ==
  ASSUME IInv, UNCHANGED <<room, unlinked>>,
         \A d \in Channels : pc'[d] \in PastLock =>
           /\ pc'[d] = pc[d] /\ got'[d] = got[d]
           /\ unlinked[room[d]] = FALSE => won'[room[d]] = won[room[d]]
  PROVE  AskOK'
<1>1. ASSUME NEW d \in Channels, pc'[d] \in PastLock
      PROVE  /\ pc'[d] \in {"ask", "alive", "reap"} => got'[d].owner \in Sessions
             /\ pc'[d] \in {"ask", "alive", "reap"} /\ unlinked'[room'[d]] = FALSE =>
                  \A e \in won'[room'[d]] : SessionOf[e] = got'[d].owner
             /\ pc'[d] = "write" /\ unlinked'[room'[d]] = FALSE => won'[room'[d]] = {}
  <2>1. pc'[d] = pc[d] /\ got'[d] = got[d]
    BY <1>1
  <2>2. unlinked[room[d]] = FALSE => won'[room[d]] = won[room[d]]
    BY <1>1
  <2> QED BY <2>1, <2>2 DEF IInv, AskOK
<1>2. {"ask", "alive", "reap"} \subseteq PastLock /\ "write" \in PastLock
  BY DEF PastLock
<1> QED BY <1>1, <1>2 DEF AskOK

\* What is heard of stays so while no channel and no record changes.
LEMMA HeardStill ==
  ASSUME LiveConstants, IInv, UNCHANGED presence,
         \A c \in Channels : up'[c] = up[c],
         NEW r \in Rooms, NEW c \in won[r]
  PROVE  Heard(presence', up', SessionOf[c])
<1>1. c \in Channels /\ SessionOf[c] \in Sessions
  BY ConstantsAre DEF IInv, FilesOK
<1>2. presence[SessionOf[c]].channel \in Channels \cup {Nobody}
  BY <1>1 DEF IInv, FilesOK, RecordKind
<1>3. Heard(presence, up, SessionOf[c])
  BY DEF IInv, WonOK
<1>4. up'[presence[SessionOf[c]].channel] = up[presence[SessionOf[c]].channel]
  BY <1>2, <1>3 DEF Heard
<1> QED BY <1>3, <1>4 DEF Heard

\* StillHeard keeps only who is heard of.
LEMMA StillShrinks ==
  ASSUME IInv, NEW rec, NEW life
  PROVE  /\ StillHeard(rec, life) \in [Rooms -> SUBSET Channels]
         /\ \A r \in Rooms : StillHeard(rec, life)[r] \subseteq won[r]
         /\ \A r \in Rooms : \A c \in StillHeard(rec, life)[r] : Heard(rec, life, SessionOf[c])
  BY DEF IInv, FilesOK, StillHeard

--------------------------------------------------------------------------------
(* The servers, and the channels' presence.                                 *)

LEMMA WriteKeeps ==
  ASSUME LiveConstants, IInv, NEW s \in Servers, NEW r \in Rooms,
         NEW owner \in Sessions \cup {Nobody}, Write(s, r, owner)
  PROVE  IInv'
<1>1. /\ up' = [up EXCEPT ![s] = "up"] /\ writes' = writes + 1
      /\ entry' = [entry EXCEPT ![r] = [server |-> s, owner |-> owner,
                                        at |-> writes + claims + 1, future |-> s \in Newer]]
      /\ won' = [won EXCEPT ![r] = {}]
      /\ UNCHANGED <<lockFile, lockHeld, presence, pc, room, inode, got, todo, locks, claims,
                     unlinked>>
  BY DEF Write, claiming
<1>2. writes' \in Nat /\ writes + claims + 1 \in Nat
  BY <1>1 DEF IInv, FilesOK
<1>3. FilesOK' /\ CallsOK'
  <2>1. [server |-> s, owner |-> owner, at |-> writes + claims + 1, future |-> s \in Newer]
          \in EntryKind
    BY <1>2 DEF EntryKind
  <2> QED BY <1>1, <1>2, <2>1 DEF IInv, FilesOK, CallsOK
<1>4. LockOK'
  BY <1>1, LockStill
<1>5. \A c \in Channels : up'[c] = up[c]
  BY <1>1, ConstantsAre DEF IInv, FilesOK
<1>6. /\ \A q \in Rooms : won'[q] \subseteq won[q]
      /\ \A q \in Rooms : won'[q] # {} => entry'[q].owner = entry[q].owner
  BY <1>1 DEF IInv, FilesOK
<1>7. WonOK' /\ AskOK'
  BY <1>1, <1>5, <1>6, HeardStill, WonShrinks
<1> QED BY <1>3, <1>4, <1>7 DEF IInv

LEMMA RemoveLockKeeps ==
  ASSUME LiveConstants, IInv, NEW s \in Servers, NEW r \in Rooms, RemoveLock(s, r)
  PROVE  IInv'
<1>1. /\ lockFile' = [lockFile EXCEPT ![r] = 0]
      /\ unlinked' = [unlinked EXCEPT ![r] = @ \/ InClaim(r)]
      /\ UNCHANGED <<entry, lockHeld, presence, up, pc, room, inode, got, todo, writes, locks,
                     claims, won>>
  BY DEF RemoveLock, claiming, scanning, counts
<1>2. FilesOK' /\ CallsOK'
  <2>1. 0 \in 0..MaxLocks
    BY ConstantsAre
  <2>2. lockFile' \in [Rooms -> 0..MaxLocks]
    BY <1>1, <2>1 DEF IInv, FilesOK
  <2>3. unlinked' \in [Rooms -> BOOLEAN]
    BY <1>1 DEF IInv, FilesOK
  <2> QED BY <1>1, <2>2, <2>3 DEF IInv, FilesOK, CallsOK
<1>3. \A q \in Rooms : unlinked'[q] = FALSE => unlinked[q] = FALSE
  <2>1. unlinked'[r] = (unlinked[r] \/ InClaim(r)) /\ unlinked[r] \in BOOLEAN
    BY <1>1 DEF IInv, FilesOK
  <2>2. unlinked'[r] = FALSE => unlinked[r] = FALSE
    BY <2>1
  <2>3. \A q \in Rooms : q # r => unlinked'[q] = unlinked[q]
    BY <1>1 DEF IInv, FilesOK
  <2> QED BY <2>2, <2>3
<1>4. ASSUME NEW c \in Channels, pc[c] \in ClaimSteps, unlinked'[room[c]] = FALSE
      PROVE  lockFile'[room[c]] = lockFile[room[c]]
  <2>1. CASE room[c] = r
    <3>1. InClaim(r)
      BY <1>4, <2>1 DEF InClaim
    <3>2. unlinked'[r] = TRUE
      BY <1>1, <3>1 DEF IInv, FilesOK
    <3> QED BY <1>4, <2>1, <3>2
  <2>2. CASE room[c] # r
    BY <1>1, <2>2 DEF IInv, FilesOK, CallsOK
  <2> QED BY <2>1, <2>2
<1>5. LockOK'
  BY <1>1, <1>3, <1>4, LockStill
<1>6. WonOK' /\ AskOK'
  BY <1>1, <1>3, HeardStill, WonShrinks
<1> QED BY <1>2, <1>5, <1>6 DEF IInv

LEMMA RemoveEntryKeeps ==
  ASSUME LiveConstants, IInv, NEW s \in Servers, NEW r \in Rooms, RemoveEntry(s, r)
  PROVE  IInv'
<1>1. /\ up' = [up EXCEPT ![s] = IF leaving'[s] = {} THEN "gone" ELSE @]
      /\ entry' = [entry EXCEPT ![r] = NoEntry] /\ won' = [won EXCEPT ![r] = {}]
      /\ UNCHANGED <<lockFile, lockHeld, presence, pc, room, inode, got, todo, writes, locks,
                     claims, unlinked>>
  BY DEF RemoveEntry, claiming, counts
<1>2. FilesOK' /\ CallsOK'
  <2>1. up' \in [Servers \cup Channels -> {"new", "up", "gone"}]
    BY <1>1 DEF IInv, FilesOK
  <2> QED BY <1>1, <2>1, EmptyKinds DEF IInv, FilesOK, CallsOK
<1>3. LockOK'
  BY <1>1, LockStill
<1>4. \A c \in Channels : up'[c] = up[c]
  BY <1>1, ConstantsAre DEF IInv, FilesOK
<1>5. /\ \A q \in Rooms : won'[q] \subseteq won[q]
      /\ \A q \in Rooms : won'[q] # {} => entry'[q].owner = entry[q].owner
  BY <1>1 DEF IInv, FilesOK
<1>6. WonOK' /\ AskOK'
  BY <1>1, <1>4, <1>5, HeardStill, WonShrinks
<1> QED BY <1>2, <1>3, <1>6 DEF IInv

LEMMA ServerDiesKeeps ==
  ASSUME LiveConstants, IInv, NEW s \in Servers, ServerDies(s) PROVE IInv'
<1>1. /\ up' = [up EXCEPT ![s] = "gone"]
      /\ UNCHANGED <<entry, lockFile, lockHeld, presence, pc, room, inode, got, todo, writes,
                     locks, claims, won, unlinked>>
  BY DEF ServerDies, claiming
<1>2. FilesOK' /\ CallsOK'
  BY <1>1 DEF IInv, FilesOK, CallsOK
<1>3. LockOK'
  BY <1>1, LockStill
<1>4. \A c \in Channels : up'[c] = up[c]
  BY <1>1, ConstantsAre DEF IInv, FilesOK
<1>5. WonOK' /\ AskOK'
  BY <1>1, <1>4, HeardStill, WonShrinks
<1> QED BY <1>2, <1>3, <1>5 DEF IInv

\* A record comes or goes: whoever is no longer heard of has left.
LEMMA PresenceKeeps ==
  ASSUME LiveConstants, IInv, NEW c \in Channels, AnnounceSession(c) \/ WithdrawSession(c)
  PROVE  IInv'
<1>1. /\ won' = StillHeard(presence', up')
      /\ UNCHANGED <<entry, lockFile, lockHeld, pc, room, inode, got, todo, writes, locks,
                     claims, unlinked>>
  BY DEF AnnounceSession, WithdrawSession, claiming, scanning, counts
<1>2. up' \in [Servers \cup Channels -> {"new", "up", "gone"}]
  BY DEF AnnounceSession, WithdrawSession, IInv, FilesOK
<1>3. presence' \in [Sessions -> RecordKind]
  <2>1. [channel |-> c, future |-> c \in Newer] \in RecordKind
    BY DEF RecordKind
  <2> QED BY <2>1, EmptyKinds DEF AnnounceSession, WithdrawSession, IInv, FilesOK
<1>4. FilesOK' /\ CallsOK'
  BY <1>1, <1>2, <1>3, StillShrinks DEF IInv, FilesOK, CallsOK
<1>5. LockOK'
  BY <1>1, LockStill
<1>6. WonOK' /\ AskOK'
  BY <1>1, StillShrinks, WonShrinks
<1> QED BY <1>4, <1>5, <1>6 DEF IInv

--------------------------------------------------------------------------------
(* The end of a Claim.                                                      *)

\* The locks after one call returned, or its process died.
LEMMA ReturnKeeps ==
  ASSUME LiveConstants, IInv, NEW c \in Channels, Return(c),
         UNCHANGED <<lockFile, room, unlinked>>
  PROVE  /\ LockOK' /\ pc'[c] = "idle" /\ pc' \in [Channels -> PcKinds]
         /\ lockHeld' \in [Inodes -> Channels \cup {Nobody}]
         /\ inode' \in [Channels -> 0..MaxLocks] /\ got' \in [Channels -> EntryKind]
         /\ \A d \in Channels : d # c => pc'[d] = pc[d] /\ got'[d] = got[d]
<1>1. /\ pc' = [pc EXCEPT ![c] = "idle"] /\ lockHeld' = Released(c)
      /\ inode' = [inode EXCEPT ![c] = 0] /\ got' = [got EXCEPT ![c] = NoEntry]
  BY DEF Return
<1>2. /\ pc' \in [Channels -> PcKinds] /\ pc'[c] = "idle"
      /\ \A d \in Channels : d # c => pc'[d] = pc[d] /\ got'[d] = got[d] /\ inode'[d] = inode[d]
      /\ got' \in [Channels -> EntryKind]
  BY <1>1, EmptyKinds, StepsAre DEF IInv, CallsOK
<1>3. inode' \in [Channels -> 0..MaxLocks]
  <2>1. 0 \in 0..MaxLocks
    BY ConstantsAre
  <2> QED BY <1>1, <2>1 DEF IInv, CallsOK
<1>4. /\ lockHeld' \in [Inodes -> Channels \cup {Nobody}]
      /\ \A i \in Inodes, d \in Channels : d # c /\ lockHeld[i] = d => lockHeld'[i] = d
  BY <1>1, ConstantsAre DEF IInv, FilesOK, Released
<1>5. LockOK'
  <2>1. ASSUME NEW d \in Channels
        PROVE  /\ pc'[d] \in ClaimSteps => inode'[d] \in Inodes
               /\ pc'[d] \in ClaimSteps /\ unlinked'[room'[d]] = FALSE =>
                    inode'[d] = lockFile'[room'[d]]
               /\ pc'[d] \in PastLock => lockHeld'[inode'[d]] = d
    <3>1. CASE d = c
      BY <1>2, <3>1, StepsAre
    <3>2. CASE d # c
      BY <1>2, <1>4, <3>2, StepsAre DEF IInv, LockOK
    <3> QED BY <3>1, <3>2
  <2> QED BY <2>1 DEF LockOK
<1> QED BY <1>2, <1>3, <1>4, <1>5

LEMMA ChannelDiesKeeps ==
  ASSUME LiveConstants, IInv, NEW c \in Channels, ChannelDies(c) PROVE IInv'
<1>1. /\ up' = [up EXCEPT ![c] = "gone"] /\ Return(c) /\ won' = StillHeard(presence, up')
      /\ UNCHANGED <<entry, lockFile, presence, room, todo, writes, locks, claims, unlinked>>
  BY DEF ChannelDies, scanning
<1>2. LockOK' /\ FilesOK' /\ CallsOK'
  BY <1>1, ReturnKeeps, StillShrinks DEF IInv, FilesOK, CallsOK
<1>3. \A d \in Channels : pc'[d] \in PastLock => pc'[d] = pc[d] /\ got'[d] = got[d]
  BY <1>1, ReturnKeeps, StepsAre
<1>4. WonOK' /\ AskOK'
  BY <1>1, <1>3, StillShrinks, WonShrinks
<1> QED BY <1>2, <1>4 DEF IInv

LEMMA OpenKeeps ==
  ASSUME LiveConstants, IInv, NEW c \in Channels, NEW r \in Rooms, ClaimOpen(c, r)
  PROVE  IInv'
<1>1. /\ inode' = [inode EXCEPT ![c] = lockFile'[r]] /\ room' = [room EXCEPT ![c] = r]
      /\ pc' = [pc EXCEPT ![c] = "lock"] /\ claims' = claims + 1
      /\ UNCHANGED <<entry, lockHeld, presence, up, got, todo, writes, won, unlinked>>
  BY DEF ClaimOpen, scanning
<1>2. /\ lockFile' \in [Rooms -> 0..MaxLocks] /\ locks' \in Nat /\ lockFile'[r] \in Inodes
      /\ \A q \in Rooms : lockFile[q] # 0 => lockFile'[q] = lockFile[q]
  <2>1. CASE lockFile[r] # 0 /\ UNCHANGED <<lockFile, locks>>
    <3>1. lockFile[r] \in 0..MaxLocks
      BY DEF IInv, FilesOK
    <3> QED BY <2>1, <3>1, ConstantsAre DEF IInv, FilesOK, Inodes
  <2>2. CASE /\ lockFile[r] = 0 /\ locks < MaxLocks
             /\ locks' = locks + 1
             /\ lockFile' = [lockFile EXCEPT ![r] = locks + 1]
    <3>1. locks + 1 \in Inodes /\ locks + 1 \in 0..MaxLocks /\ locks + 1 \in Nat
      BY <2>2, ConstantsAre DEF IInv, FilesOK, Inodes
    <3> QED BY <2>2, <3>1 DEF IInv, FilesOK
  <2> QED BY <2>1, <2>2 DEF ClaimOpen
<1>3. claims' \in Nat
  BY <1>1 DEF IInv, FilesOK
<1>4. /\ inode' \in [Channels -> 0..MaxLocks] /\ room' \in [Channels -> Rooms]
      /\ pc' \in [Channels -> PcKinds]
      /\ pc'[c] = "lock" /\ room'[c] = r /\ inode'[c] = lockFile'[r]
      /\ \A d \in Channels :
           d # c => pc'[d] = pc[d] /\ room'[d] = room[d] /\ inode'[d] = inode[d]
  BY <1>1, <1>2, StepsAre DEF IInv, CallsOK
<1>5. FilesOK' /\ CallsOK'
  BY <1>1, <1>2, <1>3, <1>4 DEF IInv, FilesOK, CallsOK
<1>6. LockOK'
  <2>1. ASSUME NEW d \in Channels
        PROVE  /\ pc'[d] \in ClaimSteps => inode'[d] \in Inodes
               /\ pc'[d] \in ClaimSteps /\ unlinked'[room'[d]] = FALSE =>
                    inode'[d] = lockFile'[room'[d]]
               /\ pc'[d] \in PastLock => lockHeld'[inode'[d]] = d
    <3>1. CASE d = c
      BY <1>2, <1>4, <3>1, StepsAre
    <3>2. CASE d # c
      <4>1. room[d] \in Rooms /\ (\A i \in Inodes : i # 0)
        BY DEF IInv, CallsOK, Inodes
      <4> QED BY <1>1, <1>2, <1>4, <3>2, <4>1, StepsAre DEF IInv, LockOK
    <3> QED BY <3>1, <3>2
  <2> QED BY <2>1 DEF LockOK
<1>7. \A d \in Channels : pc'[d] \in PastLock => pc'[d] = pc[d] /\ room'[d] = room[d]
  BY <1>4, StepsAre
<1>8. WonOK' /\ AskOK'
  BY <1>1, <1>7, HeardStill, WonShrinks
<1> QED BY <1>5, <1>6, <1>8 DEF IInv

--------------------------------------------------------------------------------
(* With the lock.                                                           *)

\* A Claim that goes past its lock: the lock was free, and is its own now.
LEMMA GotoKeeps ==
  ASSUME LiveConstants, IInv, NEW c \in Channels, NEW to \in {"ask", "write"},
         pc[c] = "lock", lockHeld[inode[c]] = Nobody, Goto(c, to),
         UNCHANGED <<lockFile, room, unlinked>>
  PROVE  /\ LockOK' /\ pc'[c] = to /\ got'[c] = entry[room[c]]
         /\ pc' \in [Channels -> PcKinds] /\ got' \in [Channels -> EntryKind]
         /\ inode' = inode /\ lockHeld' \in [Inodes -> Channels \cup {Nobody}]
         /\ \A d \in Channels : d # c => pc'[d] = pc[d] /\ got'[d] = got[d]
<1>1. /\ pc' = [pc EXCEPT ![c] = to] /\ lockHeld' = [lockHeld EXCEPT ![inode[c]] = c]
      /\ got' = [got EXCEPT ![c] = entry[room[c]]] /\ inode' = inode
  BY DEF Goto
<1>2. inode[c] \in Inodes
  BY StepsAre DEF IInv, LockOK
<1>3. to \in PastLock /\ to \in PcKinds /\ to \in ClaimSteps
  BY StepsAre
<1>4. entry[room[c]] \in EntryKind
  BY DEF IInv, FilesOK, CallsOK
<1>5. /\ pc'[c] = to /\ got'[c] = entry[room[c]]
      /\ pc' \in [Channels -> PcKinds] /\ got' \in [Channels -> EntryKind]
      /\ \A d \in Channels : d # c => pc'[d] = pc[d] /\ got'[d] = got[d]
  BY <1>1, <1>3, <1>4 DEF IInv, CallsOK
<1>6. /\ lockHeld' \in [Inodes -> Channels \cup {Nobody}] /\ lockHeld'[inode[c]] = c
      /\ \A i \in Inodes : lockHeld[i] # Nobody => lockHeld'[i] = lockHeld[i]
  BY <1>1, <1>2 DEF IInv, FilesOK
<1>7. LockOK'
  <2>1. ASSUME NEW d \in Channels
        PROVE  /\ pc'[d] \in ClaimSteps => inode'[d] \in Inodes
               /\ pc'[d] \in ClaimSteps /\ unlinked'[room'[d]] = FALSE =>
                    inode'[d] = lockFile'[room'[d]]
               /\ pc'[d] \in PastLock => lockHeld'[inode'[d]] = d
    <3>1. CASE d = c
      BY <1>1, <1>2, <1>5, <1>6, <3>1, StepsAre DEF IInv, LockOK
    <3>2. CASE d # c
      BY <1>1, <1>5, <1>6, <3>2, ConstantsAre, StepsAre DEF IInv, LockOK
    <3> QED BY <3>1, <3>2
  <2> QED BY <2>1 DEF LockOK
<1> QED BY <1>1, <1>5, <1>6, <1>7

\* Claim reads an entry that is already its own session's: it is told yes too.
LEMMA OwnKeeps ==
  ASSUME LiveConstants, IInv, NEW c \in Channels, pc[c] = "lock",
         lockHeld[inode[c]] = Nobody, entry[room[c]].owner = SessionOf[c],
         Return(c), Yes(c),
         UNCHANGED <<entry, lockFile, presence, up, room, todo, writes, locks, claims, unlinked>>
  PROVE  IInv'
<1>1. /\ won' \in [Rooms -> SUBSET Channels]
      /\ \A r \in Rooms : \A d \in won'[r] : d \in won[r] \/
           (d = c /\ r = room[c] /\ Heard(presence, up, SessionOf[c]))
  BY DEF Yes, IInv, FilesOK, CallsOK
<1>2. LockOK' /\ FilesOK' /\ CallsOK'
  BY <1>1, ReturnKeeps DEF IInv, FilesOK, CallsOK
<1>3. WonOK'
  <2>1. ASSUME NEW r \in Rooms, NEW d \in won'[r]
        PROVE  /\ Heard(presence, up, SessionOf[d])
               /\ unlinked[r] = FALSE => entry[r].owner = SessionOf[d]
    BY <1>1, <2>1 DEF IInv, WonOK
  <2> QED BY <2>1 DEF WonOK, Heard
<1>4. AskOK'
  <2>1. ASSUME NEW d \in Channels, pc'[d] \in PastLock
        PROVE  /\ d # c /\ pc[d] \in PastLock /\ pc'[d] = pc[d] /\ got'[d] = got[d]
               /\ unlinked[room[d]] = FALSE => won'[room[d]] = won[room[d]]
    <3>1. d # c /\ pc'[d] = pc[d] /\ got'[d] = got[d]
      BY <2>1, ReturnKeeps, StepsAre
    <3>2. unlinked[room[d]] = FALSE => room[d] # room[c]
      BY <2>1, <3>1, NonePast
    <3>3. room[d] \in Rooms
      BY DEF IInv, CallsOK
    <3> QED BY <2>1, <3>1, <3>2, <3>3 DEF Yes, IInv, FilesOK
  <2> QED BY <2>1, AskStill
<1> QED BY <1>2, <1>3, <1>4 DEF IInv

LEMMA ReadKeeps ==
  ASSUME LiveConstants, IInv, NEW c \in Channels, ClaimRead(c) PROVE IInv'
<1>1. /\ pc[c] = "lock" /\ lockHeld[inode[c]] = Nobody
      /\ UNCHANGED <<entry, lockFile, presence, up, room, todo, writes, locks, claims, unlinked>>
  BY DEF ClaimRead, Unheld, scanning, counts
<1>2. CASE Return(c) /\ UNCHANGED won
  <2>1. LockOK' /\ FilesOK' /\ CallsOK'
    BY <1>1, <1>2, ReturnKeeps DEF IInv, FilesOK, CallsOK
  <2>2. \A d \in Channels : pc'[d] \in PastLock => pc'[d] = pc[d] /\ got'[d] = got[d]
    BY <1>1, <1>2, ReturnKeeps, StepsAre
  <2>3. WonOK' /\ AskOK'
    BY <1>1, <1>2, <2>2, HeardStill, WonShrinks
  <2> QED BY <2>1, <2>3 DEF IInv
<1>3. CASE entry[room[c]].owner = SessionOf[c] /\ Return(c) /\ Yes(c)
  BY <1>1, <1>3, OwnKeeps
<1>4. ASSUME NEW to \in {"ask", "write"}, Goto(c, to), UNCHANGED won,
             to = "ask" => entry[room[c]].owner \notin {Nobody, SessionOf[c]},
             to = "write" => entry[room[c]].owner = Nobody
      PROVE  IInv'
  <2>1. LockOK' /\ FilesOK' /\ CallsOK'
    BY <1>1, <1>4, GotoKeeps DEF IInv, FilesOK, CallsOK
  <2>2. WonOK'
    BY <1>1, <1>4 DEF IInv, WonOK, Heard
  <2>3. room[c] \in Rooms /\ entry[room[c]].owner \in Sessions \cup {Nobody}
    BY DEF IInv, FilesOK, CallsOK, EntryKind
  <2>4. unlinked[room[c]] = FALSE =>
          \A d \in won[room[c]] : entry[room[c]].owner = SessionOf[d] /\ SessionOf[d] # Nobody
    BY <2>3, ConstantsAre DEF IInv, WonOK, FilesOK
  <2>5. to = "write" /\ unlinked[room[c]] = FALSE => won[room[c]] = {}
    BY <1>4, <2>4
  <2>6. AskOK'
    <3>1. ASSUME NEW d \in Channels
          PROVE  /\ pc'[d] \in {"ask", "alive", "reap"} => got'[d].owner \in Sessions
                 /\ pc'[d] \in {"ask", "alive", "reap"} /\ unlinked'[room'[d]] = FALSE =>
                      \A e \in won'[room'[d]] : SessionOf[e] = got'[d].owner
                 /\ pc'[d] = "write" /\ unlinked'[room'[d]] = FALSE => won'[room'[d]] = {}
      <4>1. CASE d = c
        <5>1. pc'[c] = to /\ got'[c] = entry[room[c]]
          BY <1>1, <1>4, GotoKeeps
        <5> QED BY <1>1, <1>4, <2>3, <2>4, <2>5, <4>1, <5>1
      <4>2. CASE d # c
        <5>1. pc'[d] = pc[d] /\ got'[d] = got[d]
          BY <1>1, <1>4, <4>2, GotoKeeps
        <5> QED BY <1>1, <1>4, <5>1 DEF IInv, AskOK
      <4> QED BY <4>1, <4>2
    <3> QED BY <3>1 DEF AskOK
  <2> QED BY <2>1, <2>2, <2>6 DEF IInv
<1> QED BY <1>2, <1>3, <1>4 DEF ClaimRead

\* A Claim past its lock goes on, or ends, with its room and entry as they are.
LEMMA PastKeeps ==
  ASSUME IInv, NEW c \in Channels, NEW from \in PastLock, NEW to \in PastLock,
         Step(c, from, to), UNCHANGED <<lockFile, lockHeld, room, inode, unlinked>>
  PROVE  /\ LockOK' /\ pc[c] = from /\ pc'[c] = to /\ pc' \in [Channels -> PcKinds]
         /\ \A d \in Channels : d # c => pc'[d] = pc[d]
<1>1. pc' = [pc EXCEPT ![c] = to] /\ pc[c] = from
  BY DEF Step
<1>2. /\ pc'[c] = to /\ pc' \in [Channels -> PcKinds]
      /\ \A d \in Channels : d # c => pc'[d] = pc[d]
  BY <1>1, StepsAre DEF IInv, CallsOK
<1>3. LockOK'
  BY <1>1, <1>2, StepsAre, LockStill
<1> QED BY <1>1, <1>2, <1>3

\* No record, or a newer build's, is nobody to hear of.
LEMMA LiveReadKeeps ==
  ASSUME LiveConstants, IInv, NEW c \in Channels, LiveRead(c) PROVE IInv'
<1> DEFINE record == presence[got[c].owner]
           none == record = NoRecord \/ record.future
<1>1. PICK to \in {"write", "alive"} : Step(c, "ask", to) /\ (to = "write" => none)
  BY DEF LiveRead
<1>2. UNCHANGED <<entry, lockFile, lockHeld, presence, up, room, inode, got, todo, writes,
                  locks, claims, won, unlinked>>
  BY DEF LiveRead, scanning, counts
<1>3. /\ LockOK' /\ pc[c] = "ask" /\ pc'[c] = to /\ pc' \in [Channels -> PcKinds]
      /\ \A d \in Channels : d # c => pc'[d] = pc[d]
  BY <1>1, <1>2, PastKeeps, StepsAre
<1>4. FilesOK' /\ CallsOK' /\ WonOK'
  BY <1>2, <1>3 DEF IInv, FilesOK, CallsOK, WonOK, Heard
<1>5. to = "write" /\ unlinked[room[c]] = FALSE => won[room[c]] = {}
  <2>1. ASSUME to = "write", unlinked[room[c]] = FALSE, NEW d \in won[room[c]] PROVE FALSE
    <3>1. SessionOf[d] = got[c].owner
      BY <1>3, <2>1 DEF IInv, AskOK
    <3>2. Heard(presence, up, SessionOf[d])
      BY <2>1 DEF IInv, WonOK, CallsOK
    <3>3. CASE record = NoRecord
      BY <3>1, <3>2, <3>3 DEF Heard, NoRecord
    <3>4. CASE record.future
      BY <3>1, <3>2, <3>4, Zenon DEF Heard
    <3> QED BY <1>1, <2>1, <3>3, <3>4
  <2> QED BY <2>1
<1>6. AskOK'
  BY <1>1, <1>2, <1>3, <1>5 DEF IInv, AskOK
<1> QED BY <1>3, <1>4, <1>6 DEF IInv

LEMMA LiveCheckKeeps ==
  ASSUME LiveConstants, IInv, NEW c \in Channels, LiveCheck(c) PROVE IInv'
<1>1. /\ pc[c] = "alive"
      /\ UNCHANGED <<entry, lockFile, presence, up, room, todo, writes, locks, claims, won,
                     unlinked>>
  BY DEF LiveCheck, scanning, counts
<1>2. CASE pc' = [pc EXCEPT ![c] = "reap"] /\ UNCHANGED <<lockHeld, inode, got>>
  <2>1. /\ LockOK' /\ pc'[c] = "reap" /\ pc' \in [Channels -> PcKinds]
        /\ \A d \in Channels : d # c => pc'[d] = pc[d]
    BY <1>1, <1>2, PastKeeps, StepsAre DEF Step
  <2>2. FilesOK' /\ CallsOK' /\ WonOK'
    BY <1>1, <1>2, <2>1 DEF IInv, FilesOK, CallsOK, WonOK, Heard
  <2>3. AskOK'
    BY <1>1, <1>2, <2>1 DEF IInv, AskOK
  <2> QED BY <2>1, <2>2, <2>3 DEF IInv
<1>3. CASE Return(c)
  <2>1. LockOK' /\ FilesOK' /\ CallsOK'
    BY <1>1, <1>3, ReturnKeeps DEF IInv, FilesOK, CallsOK
  <2>2. \A d \in Channels : pc'[d] \in PastLock => pc'[d] = pc[d] /\ got'[d] = got[d]
    BY <1>1, <1>3, ReturnKeeps, StepsAre
  <2>3. WonOK' /\ AskOK'
    BY <1>1, <2>2, HeardStill, WonShrinks
  <2> QED BY <2>1, <2>3 DEF IInv
<1> QED BY <1>2, <1>3 DEF LiveCheck

\* The record is gone, whosever it was: nobody told yes is heard of.
LEMMA ReapKeeps ==
  ASSUME LiveConstants, IInv, NEW c \in Channels, LiveReap(c) PROVE IInv'
<1>1. /\ Step(c, "reap", "write") /\ presence' = [presence EXCEPT ![got[c].owner] = NoRecord]
      /\ won' = StillHeard(presence', up)
      /\ UNCHANGED <<entry, lockFile, lockHeld, up, room, inode, got, todo, writes, locks,
                     claims, unlinked>>
  BY DEF LiveReap, claiming, scanning, counts
<1>2. /\ LockOK' /\ pc[c] = "reap" /\ pc'[c] = "write" /\ pc' \in [Channels -> PcKinds]
      /\ \A d \in Channels : d # c => pc'[d] = pc[d]
  BY <1>1, PastKeeps, StepsAre
<1>3. got[c].owner \in Sessions /\ room[c] \in Rooms
  BY <1>2 DEF IInv, AskOK, CallsOK
<1>4. FilesOK' /\ CallsOK'
  BY <1>1, <1>2, EmptyKinds, StillShrinks DEF IInv, FilesOK, CallsOK
<1>5. /\ \A r \in Rooms : won'[r] \subseteq won[r]
      /\ \A r \in Rooms : \A d \in won'[r] : Heard(presence', up', SessionOf[d])
  BY <1>1, StillShrinks
<1>6. WonOK'
  BY <1>1, <1>5 DEF IInv, WonOK
<1>7. unlinked[room[c]] = FALSE => won'[room[c]] = {}
  <2>1. ASSUME unlinked[room[c]] = FALSE, NEW d \in won'[room[c]] PROVE FALSE
    <3>1. SessionOf[d] = got[c].owner
      BY <1>2, <1>3, <1>5, <2>1 DEF IInv, AskOK
    <3>2. Heard(presence', up', SessionOf[d])
      BY <1>3, <1>5, <2>1
    <3>3. presence'[SessionOf[d]] = NoRecord
      BY <1>1, <1>3, <3>1 DEF IInv, FilesOK
    <3> QED BY <3>2, <3>3 DEF Heard, NoRecord
  <2> QED BY <2>1
<1>8. AskOK'
  <2>1. \A d \in Channels : room[d] \in Rooms
    BY DEF IInv, CallsOK
  <2> QED BY <1>1, <1>2, <1>5, <1>7, <2>1 DEF IInv, AskOK
<1> QED BY <1>2, <1>4, <1>6, <1>8 DEF IInv

\* The new owner is the one told yes.
LEMMA ClaimWriteKeeps ==
  ASSUME LiveConstants, IInv, NEW c \in Channels, ClaimWrite(c) PROVE IInv'
<1>1. /\ pc[c] = "write" /\ Return(c) /\ Yes(c)
      /\ entry' = [entry EXCEPT ![room[c]] = [got[c] EXCEPT !.owner = SessionOf[c],
                                                            !.at = writes + claims + 1]]
      /\ UNCHANGED <<lockFile, presence, up, room, todo, writes, locks, claims, unlinked>>
  BY DEF ClaimWrite, counts
<1>2. room[c] \in Rooms /\ SessionOf[c] \in Sessions
  BY ConstantsAre DEF IInv, CallsOK
<1>3. /\ entry' \in [Rooms -> EntryKind] /\ entry'[room[c]].owner = SessionOf[c]
      /\ \A r \in Rooms : r # room[c] => entry'[r] = entry[r]
  <2>1. writes + claims + 1 \in Nat
    BY DEF IInv, FilesOK
  <2>2. got[c] \in EntryKind
    BY DEF IInv, CallsOK
  <2>3. /\ [got[c] EXCEPT !.owner = SessionOf[c], !.at = writes + claims + 1] \in EntryKind
        /\ [got[c] EXCEPT !.owner = SessionOf[c], !.at = writes + claims + 1].owner = SessionOf[c]
    BY <1>2, <2>1, <2>2 DEF EntryKind
  <2> QED BY <1>1, <1>2, <2>3 DEF IInv, FilesOK
<1>4. /\ won' \in [Rooms -> SUBSET Channels]
      /\ \A r \in Rooms : r # room[c] => won'[r] = won[r]
      /\ \A d \in won'[room[c]] : d \in won[room[c]] \/
           (d = c /\ Heard(presence, up, SessionOf[c]))
  BY <1>1, <1>2 DEF Yes, IInv, FilesOK
<1>5. LockOK' /\ FilesOK' /\ CallsOK'
  BY <1>1, <1>3, <1>4, ReturnKeeps DEF IInv, FilesOK, CallsOK
<1>6. unlinked[room[c]] = FALSE => won[room[c]] = {}
  BY <1>1 DEF IInv, AskOK
<1>7. WonOK'
  <2>1. ASSUME NEW r \in Rooms, NEW d \in won'[r]
        PROVE  /\ Heard(presence, up, SessionOf[d])
               /\ unlinked[r] = FALSE => entry'[r].owner = SessionOf[d]
    <3>1. CASE r = room[c]
      BY <1>3, <1>4, <1>6, <2>1, <3>1 DEF IInv, WonOK
    <3>2. CASE r # room[c]
      BY <1>3, <1>4, <2>1, <3>2 DEF IInv, WonOK
    <3> QED BY <3>1, <3>2
  <2> QED BY <1>1, <2>1 DEF WonOK, Heard
<1>8. AskOK'
  <2>1. ASSUME NEW d \in Channels, pc'[d] \in PastLock
        PROVE  /\ pc'[d] = pc[d] /\ got'[d] = got[d]
               /\ unlinked[room[d]] = FALSE => won'[room[d]] = won[room[d]]
    <3>1. d # c /\ pc'[d] = pc[d] /\ got'[d] = got[d]
      BY <1>1, <2>1, ReturnKeeps, StepsAre
    <3>2. unlinked[room[d]] = FALSE => room[d] # room[c]
      BY <1>1, <2>1, <3>1, OnePast, StepsAre
    <3>3. room[d] \in Rooms
      BY DEF IInv, CallsOK
    <3> QED BY <1>4, <3>1, <3>2, <3>3
  <2> QED BY <1>1, <2>1, AskStill
<1> QED BY <1>5, <1>7, <1>8 DEF IInv

--------------------------------------------------------------------------------
(* Inspect.                                                                 *)

\* A scan's steps that touch no entry keep clear of Claim.
LEMMA ScanKeeps ==
  ASSUME LiveConstants, IInv, NEW c \in Channels, NEW to \in {"idle"} \cup ScanSteps,
         pc[c] \notin ClaimSteps, pc' = [pc EXCEPT ![c] = to],
         UNCHANGED <<entry, lockFile, lockHeld, presence, up, inode, writes, locks, claims,
                     won, unlinked>>,
         room' \in [Channels -> Rooms], got' \in [Channels -> EntryKind],
         todo' \in [Channels -> SUBSET Rooms],
         \A d \in Channels : d # c => room'[d] = room[d] /\ got'[d] = got[d]
  PROVE  IInv'
<1>1. /\ pc' \in [Channels -> PcKinds] /\ pc'[c] \notin ClaimSteps
      /\ \A d \in Channels : d # c => pc'[d] = pc[d]
  BY StepsAre DEF IInv, CallsOK
<1>2. FilesOK' /\ CallsOK'
  BY <1>1 DEF IInv, FilesOK, CallsOK
<1>3. LockOK'
  BY <1>1, LockStill
<1>4. \A d \in Channels : pc'[d] \in PastLock =>
        pc'[d] = pc[d] /\ got'[d] = got[d] /\ room'[d] = room[d]
  BY <1>1, StepsAre
<1>5. WonOK' /\ AskOK'
  BY <1>4, HeardStill, WonShrinks
<1> QED BY <1>2, <1>3, <1>5 DEF IInv

LEMMA ScanReapKeeps ==
  ASSUME LiveConstants, IInv, NEW c \in Channels, ScanReap(c) PROVE IInv'
<1>1. /\ pc[c] = "remove" /\ pc' = [pc EXCEPT ![c] = "scan"]
      /\ entry' = [entry EXCEPT ![room[c]] = NoEntry] /\ won' = [won EXCEPT ![room[c]] = {}]
      /\ UNCHANGED <<lockFile, lockHeld, presence, up, room, inode, got, todo, writes, locks,
                     claims, unlinked>>
  BY DEF ScanReap, Step, claiming, counts
<1>2. /\ pc' \in [Channels -> PcKinds] /\ pc'[c] \notin ClaimSteps
      /\ \A d \in Channels : d # c => pc'[d] = pc[d]
  BY <1>1, StepsAre DEF IInv, CallsOK
<1>3. /\ FilesOK' /\ CallsOK'
      /\ \A r \in Rooms : won'[r] \subseteq won[r]
      /\ \A r \in Rooms : won'[r] # {} => entry'[r].owner = entry[r].owner
  BY <1>1, <1>2, EmptyKinds DEF IInv, FilesOK, CallsOK
<1>4. LockOK'
  BY <1>1, <1>2, LockStill
<1>5. \A d \in Channels : pc'[d] \in PastLock => pc'[d] = pc[d]
  BY <1>2, StepsAre
<1>6. WonOK' /\ AskOK'
  BY <1>1, <1>3, <1>5, HeardStill, WonShrinks
<1> QED BY <1>3, <1>4, <1>6 DEF IInv

LEMMA InspectKeeps ==
  ASSUME LiveConstants, IInv, NEW c \in Channels, Inspecting(c) PROVE IInv'
<1>0. room \in [Channels -> Rooms] /\ got \in [Channels -> EntryKind] /\
      todo \in [Channels -> SUBSET Rooms] /\ entry \in [Rooms -> EntryKind]
  BY DEF IInv, CallsOK, FilesOK
<1>1. CASE Glob(c)
  <2>1. Files \subseteq Rooms
    BY DEF Files
  <2> QED BY <1>0, <1>1, <2>1, ScanKeeps, StepsAre DEF Glob, Ready, claiming
<1>2. CASE ScanRead(c)
  <2>1. PICK r \in todo[c] :
          /\ Step(c, "scan", IF entry[r] = NoEntry \/ entry[r].future THEN "scan" ELSE "check")
          /\ todo' = [todo EXCEPT ![c] = @ \ {r}]
          /\ room' = [room EXCEPT ![c] = r]
          /\ got' = [got EXCEPT ![c] = entry[r]]
    BY <1>2 DEF ScanRead
  <2>2. PICK to \in {"scan", "check"} : pc[c] = "scan" /\ pc' = [pc EXCEPT ![c] = to]
    BY <2>1 DEF Step
  <2>3. r \in Rooms /\ todo[c] \ {r} \in SUBSET Rooms
    BY <1>0
  <2>4. /\ room' \in [Channels -> Rooms] /\ got' \in [Channels -> EntryKind]
        /\ todo' \in [Channels -> SUBSET Rooms]
        /\ \A d \in Channels : d # c => room'[d] = room[d] /\ got'[d] = got[d]
    BY <1>0, <2>1, <2>3
  <2>5. UNCHANGED <<entry, lockFile, lockHeld, presence, up, inode, writes, locks, claims,
                    won, unlinked>>
    BY <1>2 DEF ScanRead, counts
  <2> QED BY <2>2, <2>4, <2>5, ScanKeeps, StepsAre
<1>3. CASE ScanCheck(c)
  <2>1. PICK to \in {"scan", "remove"} : pc[c] = "check" /\ pc' = [pc EXCEPT ![c] = to]
    BY <1>3 DEF ScanCheck
  <2>2. UNCHANGED <<entry, lockFile, lockHeld, presence, up, room, inode, got, todo, writes,
                    locks, claims, won, unlinked>>
    BY <1>3 DEF ScanCheck, claiming, counts
  <2> QED BY <1>0, <2>1, <2>2, ScanKeeps, StepsAre
<1>4. CASE ScanReap(c)
  BY <1>4, ScanReapKeeps
<1>5. CASE ScanDone(c)
  BY <1>0, <1>5, ScanKeeps, StepsAre DEF ScanDone, Step, claiming, counts
<1>6. CASE ScanUsed(c)
  BY <1>0, <1>6, ScanKeeps, StepsAre DEF ScanUsed, Step, claiming, counts
<1> QED BY <1>1, <1>2, <1>3, <1>4, <1>5, <1>6 DEF Inspecting

--------------------------------------------------------------------------------

LEMMA LiveStep == ASSUME LiveConstants, IInv, [LiveNext]_liveVars PROVE IInv'
<1>1. CASE UNCHANGED liveVars
  BY <1>1 DEF liveVars, claiming, scanning, counts, IInv, FilesOK, CallsOK, LockOK, WonOK, AskOK,
              Heard
<1>2. ASSUME NEW s \in Servers, ServerStep(s) PROVE IInv'
  BY <1>2, WriteKeeps, RemoveLockKeeps, RemoveEntryKeeps, ServerDiesKeeps DEF ServerStep
<1>3. ASSUME NEW c \in Channels, Claiming(c) PROVE IInv'
  BY <1>3, OpenKeeps, ReadKeeps, LiveReadKeeps, LiveCheckKeeps, ReapKeeps, ClaimWriteKeeps
     DEF Claiming
<1>4. ASSUME NEW c \in Channels, ChannelStep(c) PROVE IInv'
  BY <1>3, <1>4, PresenceKeeps, ChannelDiesKeeps, InspectKeeps DEF ChannelStep
<1> QED BY <1>1, <1>2, <1>4 DEF LiveNext

\* Claim: two channels told yes for one entry and heard of ever since serve one
\* session, for any number of channels, servers and rooms that come, go and die
\* anywhere, unless Remove took the room's lock away under a Claim.
THEOREM OneListenerHolds == ASSUME LiveConstants PROVE LiveSpec => []OneListenerUnlessUnlinked
<1>1. LiveInit => IInv BY InitKeeps
<1>2. IInv /\ [LiveNext]_liveVars => IInv' BY LiveStep
<1>3. IInv => OneListenerUnlessUnlinked
  BY DEF IInv, FilesOK, WonOK, OneListenerUnlessUnlinked
<1> QED BY <1>1, <1>2, <1>3, PTL DEF LiveSpec

--------------------------------------------------------------------------------
(* Every file and local is of its kind.                                     *)

LEMMA LiveHold == ASSUME LiveConstants PROVE LiveSpec => []IInv
<1>1. LiveInit => IInv BY InitKeeps
<1>2. IInv /\ [LiveNext]_liveVars => IInv' BY LiveStep
<1> QED BY <1>1, <1>2, PTL DEF LiveSpec

Dates == 0..(MaxWrites + MaxClaims + 1)
Candidate == [room : Rooms, server : Servers \cup {Nobody}, at : Dates]

\* The rest of the types.
KindsOK ==
  /\ entry \in [Rooms -> EntryRow] /\ got \in [Channels -> EntryRow]
  /\ leaving \in [Servers -> SUBSET Rooms]
  /\ asked \in [Channels -> Channels \cup {Nobody}]
  /\ steady \in [Channels -> SUBSET Rooms] /\ kept \in [Channels -> SUBSET Candidate]
  /\ pages \in [Channels -> SUBSET Candidate]
  /\ robbed \in BOOLEAN
CountsOK ==
  /\ writes \in 0..MaxWrites /\ locks \in 0..MaxLocks
  /\ claims \in 0..MaxClaims /\ scans \in 0..MaxScans /\ deaths \in 0..MaxDeaths

LEMMA BoundsAre ==
  ASSUME LiveConstants
  PROVE  MaxWrites \in Nat /\ MaxLocks \in Nat /\ MaxClaims \in Nat /\ MaxScans \in Nat
         /\ MaxDeaths \in Nat
  BY DEF LiveConstants

LEMMA NoEntryRow == ASSUME LiveConstants PROVE NoEntry \in EntryRow
<1>1. 0 \in 0..(MaxWrites + MaxClaims + 1)
  BY BoundsAre
<1> QED BY <1>1 DEF NoEntry, EntryRow

\* What a Claim's end does to its locals.
LEMMA ReturnKinds ==
  ASSUME LiveConstants, KindsOK, NEW c \in Channels, Return(c)
  PROVE  got' \in [Channels -> EntryRow] /\ asked' \in [Channels -> Channels \cup {Nobody}]
  BY NoEntryRow DEF KindsOK, Return

\* The counters: each step counts one up below its bound, or leaves them.
LEMMA CountsKeep ==
  ASSUME LiveConstants, CountsOK, LiveNext
  PROVE  CountsOK'
<1>1. /\ writes' = writes \/ (writes' = writes + 1 /\ writes < MaxWrites)
      /\ locks' = locks \/ (locks' = locks + 1 /\ locks < MaxLocks)
      /\ claims' = claims \/ (claims' = claims + 1 /\ claims < MaxClaims)
      /\ scans' = scans \/ (scans' = scans + 1 /\ scans < MaxScans)
      /\ deaths' = deaths \/ (deaths' = deaths + 1 /\ deaths < MaxDeaths)
  <2>1. ASSUME NEW s \in Servers, ServerStep(s) PROVE <1>1!:
    BY <2>1 DEF ServerStep, Write, RemoveLock, RemoveEntry, ServerDies, counts
  <2>2. ASSUME NEW c \in Channels, ChannelStep(c) PROVE <1>1!:
    <3>1. CASE AnnounceSession(c) \/ WithdrawSession(c) \/ ChannelDies(c)
      BY <3>1 DEF AnnounceSession, WithdrawSession, ChannelDies, counts
    <3>2. CASE Claiming(c)
      BY <3>2 DEF Claiming, ClaimOpen, ClaimRead, LiveRead, LiveCheck, LiveReap, ClaimWrite,
                  counts
    <3>3. CASE Inspecting(c)
      BY <3>3 DEF Inspecting, Glob, ScanRead, ScanCheck, ScanReap, ScanDone, ScanUsed, counts
    <3> QED BY <2>2, <3>1, <3>2, <3>3 DEF ChannelStep
  <2> QED BY <2>1, <2>2 DEF LiveNext
<1>2. ASSUME NEW b \in Nat, NEW n \in 0..b, n < b PROVE n + 1 \in 0..b
  BY <1>2
<1> QED BY <1>1, <1>2, BoundsAre DEF CountsOK

\* An entry a server or a Claim writes now is dated by what was written before.
LEMMA NowIsDate ==
  ASSUME LiveConstants, CountsOK
  PROVE  /\ writes + claims + 1 \in Dates
         /\ \A e \in EntryRow : e.at \in Dates
<1>1. writes \in 0..MaxWrites /\ claims \in 0..MaxClaims
  BY DEF CountsOK
<1>2. writes + claims + 1 \in Dates
  BY <1>1, BoundsAre DEF Dates
<1> QED BY <1>2 DEF EntryRow, Dates

LEMMA ServersKeepKinds ==
  ASSUME LiveConstants, IInv, KindsOK, CountsOK, NEW s \in Servers, ServerStep(s)
  PROVE  KindsOK'
<1>1. CASE \E r \in Rooms, owner \in Sessions \cup {Nobody} : Write(s, r, owner)
  <2>1. PICK r \in Rooms, owner \in Sessions \cup {Nobody} : Write(s, r, owner)
    BY <1>1
  <2>2. /\ entry' = [entry EXCEPT ![r] = [server |-> s, owner |-> owner,
                                          at |-> writes + claims + 1, future |-> s \in Newer]]
        /\ steady' = [c \in Channels |-> IF entry[r].server = s THEN steady[c]
                                                                ELSE steady[c] \ {r}]
        /\ UNCHANGED <<leaving, got, asked, kept, pages, robbed>>
    BY <2>1 DEF Write, claiming
  <2>3. [server |-> s, owner |-> owner, at |-> writes + claims + 1, future |-> s \in Newer]
          \in EntryRow
    BY NowIsDate DEF EntryRow, Dates
  <2> QED BY <2>2, <2>3 DEF KindsOK
<1>2. CASE \E r \in Rooms : RemoveLock(s, r)
  BY <1>2 DEF RemoveLock, claiming, scanning, KindsOK
<1>3. CASE \E r \in Rooms : RemoveEntry(s, r)
  <2>1. PICK r \in Rooms : RemoveEntry(s, r)
    BY <1>3
  <2>2. /\ entry' = [entry EXCEPT ![r] = NoEntry] /\ leaving' = [leaving EXCEPT ![s] = @ \ {r}]
        /\ steady' = [c \in Channels |-> {q \in steady[c] \ {r} : entry[q].server # s}]
        /\ UNCHANGED <<got, asked, kept, pages, robbed>>
    BY <2>1 DEF RemoveEntry, claiming
  <2> QED BY <2>2, NoEntryRow DEF KindsOK
<1>4. CASE ServerDies(s)
  BY <1>4 DEF ServerDies, claiming, KindsOK
<1> QED BY <1>1, <1>2, <1>3, <1>4 DEF ServerStep

LEMMA PresenceKeepsKinds ==
  ASSUME LiveConstants, IInv, KindsOK, NEW c \in Channels,
         AnnounceSession(c) \/ WithdrawSession(c) \/ ChannelDies(c)
  PROVE  KindsOK'
<1>1. CASE AnnounceSession(c) \/ WithdrawSession(c)
  BY <1>1 DEF AnnounceSession, WithdrawSession, claiming, scanning, KindsOK
<1>2. CASE ChannelDies(c)
  BY <1>2, ReturnKinds DEF ChannelDies, scanning, KindsOK
<1> QED BY <1>1, <1>2

LEMMA ClaimKeepsKinds ==
  ASSUME LiveConstants, IInv, KindsOK, CountsOK, NEW c \in Channels, Claiming(c)
  PROVE  KindsOK'
<1>1. ASSUME NEW r \in Rooms, ClaimOpen(c, r) PROVE KindsOK'
  BY <1>1 DEF ClaimOpen, scanning, KindsOK
<1>2. CASE ClaimRead(c)
  <2>1. UNCHANGED <<leaving, entry, kept, steady, pages, robbed>>
    BY <1>2 DEF ClaimRead, scanning
  <2>2. CASE Return(c)
    BY <2>1, <2>2, ReturnKinds DEF KindsOK
  <2>3. CASE \E to \in {"ask", "write"} : Goto(c, to)
    <3>1. got' = [got EXCEPT ![c] = entry[room[c]]] /\ asked' = asked
      BY <2>3 DEF Goto
    <3>2. entry[room[c]] \in EntryRow
      BY DEF KindsOK, IInv, CallsOK
    <3> QED BY <2>1, <3>1, <3>2 DEF KindsOK
  <2> QED BY <1>2, <2>2, <2>3 DEF ClaimRead
<1>3. CASE LiveRead(c)
  <2>1. pc[c] = "ask" /\ UNCHANGED <<leaving, entry, got, kept, steady, pages, robbed>>
    BY <1>3 DEF LiveRead, Step, scanning
  <2>2. asked' = [asked EXCEPT ![c] = Nobody] \/
        asked' = [asked EXCEPT ![c] = presence[got[c].owner].channel]
    BY <1>3 DEF LiveRead
  <2>3. presence[got[c].owner].channel \in Channels \cup {Nobody}
    BY <2>1 DEF IInv, AskOK, FilesOK, RecordKind
  <2> QED BY <2>1, <2>2, <2>3 DEF KindsOK
<1>4. CASE LiveCheck(c)
  BY <1>4, ReturnKinds DEF LiveCheck, scanning, KindsOK
<1>5. CASE LiveReap(c)
  BY <1>5 DEF LiveReap, claiming, scanning, KindsOK
<1>6. CASE ClaimWrite(c)
  <2>1. /\ Return(c) /\ UNCHANGED <<leaving, kept, pages, robbed>>
        /\ entry' = [entry EXCEPT ![room[c]] = [got[c] EXCEPT !.owner = SessionOf[c],
                                                              !.at = writes + claims + 1]]
        /\ steady' = [d \in Channels |-> IF entry[room[c]].server = got[c].server
                                         THEN steady[d] ELSE steady[d] \ {room[c]}]
    BY <1>6 DEF ClaimWrite
  <2>2. SessionOf[c] \in Sessions /\ got[c] \in EntryRow /\ writes + claims + 1 \in Dates
    BY ConstantsAre, NowIsDate DEF KindsOK
  <2>3. [got[c] EXCEPT !.owner = SessionOf[c], !.at = writes + claims + 1] \in EntryRow
    BY <2>2 DEF EntryRow, Dates
  <2> QED BY <2>1, <2>3, ReturnKinds DEF KindsOK
<1> QED BY <1>1, <1>2, <1>3, <1>4, <1>5, <1>6 DEF Claiming

LEMMA InspectKeepsKinds ==
  ASSUME LiveConstants, IInv, KindsOK, CountsOK, NEW c \in Channels, Inspecting(c)
  PROVE  KindsOK'
<1>1. CASE Glob(c)
  <2>1. Files \in SUBSET Rooms
    BY DEF Files
  <2>2. kept' = [kept EXCEPT ![c] = {}] /\ pages' = [pages EXCEPT ![c] = {}]
        /\ steady' = [steady EXCEPT ![c] =
                        {r \in Files : PIDAlive(entry[r].server) /\ ~entry[r].future}]
        /\ UNCHANGED <<leaving, entry, got, asked, robbed>>
    BY <1>1 DEF Glob, claiming
  <2> QED BY <2>1, <2>2 DEF KindsOK
<1>2. CASE ScanRead(c)
  <2>1. PICK r \in todo[c] : got' = [got EXCEPT ![c] = entry[r]]
    BY <1>2 DEF ScanRead
  <2>2. r \in Rooms
    BY <2>1 DEF IInv, CallsOK
  <2>3. UNCHANGED <<leaving, entry, asked, kept, steady, pages, robbed>>
    BY <1>2 DEF ScanRead
  <2> QED BY <2>1, <2>2, <2>3 DEF KindsOK
<1>3. CASE ScanCheck(c)
  <2>1. UNCHANGED <<leaving, entry, got, asked, steady, pages, robbed>>
    BY <1>3 DEF ScanCheck, claiming
  <2>2. room[c] \in Rooms /\ entry[room[c]] \in EntryRow /\ got[c] \in EntryRow
    BY DEF IInv, CallsOK, KindsOK
  <2>3. [room |-> room[c], server |-> got[c].server, at |-> entry[room[c]].at] \in Candidate
    BY <2>2, NowIsDate DEF Candidate, EntryRow
  <2>4. kept' = kept \/ kept' = [kept EXCEPT ![c] = @ \cup
          {[room |-> room[c], server |-> got[c].server, at |-> entry[room[c]].at]}]
    BY <1>3 DEF ScanCheck
  <2>5. kept' \in [Channels -> SUBSET Candidate]
    BY <2>3, <2>4 DEF KindsOK
  <2> QED BY <2>1, <2>5 DEF KindsOK
<1>4. CASE ScanReap(c)
  <2>1. /\ entry' = [entry EXCEPT ![room[c]] = NoEntry]
        /\ steady' = [d \in Channels |-> IF entry[room[c]].server = got[c].server
                                         THEN steady[d] ELSE steady[d] \ {room[c]}]
        /\ UNCHANGED <<leaving, got, asked, kept, pages, robbed>>
    BY <1>4 DEF ScanReap, claiming
  <2> QED BY <2>1, NoEntryRow DEF KindsOK
<1>5. CASE ScanDone(c)
  <2>1. Newest(kept[c]) \in SUBSET Candidate
    BY DEF Newest, KindsOK
  <2> QED BY <1>5, <2>1 DEF ScanDone, claiming, KindsOK
<1>6. CASE ScanUsed(c)
  BY <1>6 DEF ScanUsed, claiming, KindsOK
<1> QED BY <1>1, <1>2, <1>3, <1>4, <1>5, <1>6 DEF Inspecting

TInv == KindsOK /\ CountsOK

LEMMA TypesStart == ASSUME LiveConstants, LiveInit PROVE TInv
<1>1. CountsOK
  <2>1. writes = 0 /\ locks = 0 /\ claims = 0 /\ scans = 0 /\ deaths = 0
    BY DEF LiveInit
  <2> QED BY <2>1, BoundsAre DEF CountsOK
<1>2. KindsOK
  BY NoEntryRow DEF LiveInit, KindsOK
<1> QED BY <1>1, <1>2 DEF TInv

LEMMA TypesStep ==
  ASSUME LiveConstants, IInv, TInv, [LiveNext]_liveVars PROVE TInv'
<1>1. CASE UNCHANGED liveVars
  BY <1>1 DEF liveVars, claiming, scanning, counts, TInv, KindsOK, CountsOK
<1>2. CASE LiveNext
  <2>1. CountsOK'
    BY <1>2, CountsKeep DEF TInv
  <2>2. KindsOK'
    BY <1>2, ServersKeepKinds, PresenceKeepsKinds, ClaimKeepsKinds, InspectKeepsKinds
       DEF TInv, LiveNext, ChannelStep
  <2> QED BY <2>1, <2>2 DEF TInv
<1> QED BY <1>1, <1>2

LEMMA TypesHold == ASSUME LiveConstants PROVE LiveSpec => [](IInv /\ TInv)
<1>1. LiveInit => IInv /\ TInv
  BY InitKeeps, TypesStart
<1>2. (IInv /\ TInv) /\ [LiveNext]_liveVars => (IInv /\ TInv)'
  BY LiveStep, TypesStep
<1> QED BY <1>1, <1>2, PTL DEF LiveSpec

\* Every entry, record, lock and local is of its kind, whoever dies where, and a
\* Claim past its lock holds the lock it opened (Claim's flock).
THEOREM LiveTypes == ASSUME LiveConstants PROVE LiveSpec => []LiveTypeOK
<1>1. IInv /\ TInv => LiveTypeOK
  <2> SUFFICES ASSUME IInv, TInv PROVE LiveTypeOK
    OBVIOUS
  <2>1. \A c \in Channels : pc[c] \in ClaimSteps \ {"lock"} => lockHeld[inode[c]] = c
    BY StepsAre DEF IInv, LockOK
  <2>2. /\ entry \in [Rooms -> EntryRow] /\ got \in [Channels -> EntryRow]
        /\ leaving \in [Servers -> SUBSET Rooms]
        /\ asked \in [Channels -> Channels \cup {Nobody}]
        /\ steady \in [Channels -> SUBSET Rooms] /\ robbed \in BOOLEAN
    BY DEF TInv, KindsOK
  <2>3. /\ writes \in 0..MaxWrites /\ locks \in 0..MaxLocks
        /\ claims \in 0..MaxClaims /\ scans \in 0..MaxScans /\ deaths \in 0..MaxDeaths
    BY DEF TInv, CountsOK
  <2>4. /\ lockFile \in [Rooms -> 0..MaxLocks] /\ lockHeld \in [Inodes -> Channels \cup {Nobody}]
        /\ presence \in [Sessions -> [channel : Channels \cup {Nobody}, future : BOOLEAN]]
        /\ up \in [Servers \cup Channels -> {"new", "up", "gone"}]
        /\ won \in [Rooms -> SUBSET Channels] /\ unlinked \in [Rooms -> BOOLEAN]
    BY DEF IInv, FilesOK, RecordKind
  <2>5. /\ pc \in [Channels -> {"idle"} \cup ClaimSteps \cup ScanSteps]
        /\ room \in [Channels -> Rooms] /\ inode \in [Channels -> 0..MaxLocks]
        /\ todo \in [Channels -> SUBSET Rooms]
    BY DEF IInv, CallsOK, PcKinds
  <2> QED BY <2>1, <2>2, <2>3, <2>4, <2>5 DEF LiveTypeOK
<1> QED BY <1>1, TypesHold, PTL

--------------------------------------------------------------------------------
(* A living channel is heard of.                                            *)

Record(c) == [channel |-> c, future |-> c \in Newer]

\* Unless one was robbed, a living channel's record is its own.  No record is of
\* a channel still to start; who a reader asked for never starts again, and is
\* gone when it is to be reaped.
HearInv ==
  /\ robbed \/ \A c \in Channels : up[c] = "up" => presence[SessionOf[c]] = Record(c)
  /\ \A s \in Sessions : presence[s].channel # Nobody => up[presence[s].channel] # "new"
  /\ \A c \in Channels : asked[c] # Nobody =>
       up[asked[c]] # "new" /\ (pc[c] = "reap" => up[asked[c]] = "gone")

LEMMA HearStart == ASSUME LiveConstants, LiveInit PROVE HearInv
<1>1. /\ \A c \in Channels : up[c] = "new" /\ asked[c] = Nobody
      /\ \A s \in Sessions : presence[s].channel = Nobody
  BY DEF LiveInit, NoRecord
<1> QED BY <1>1 DEF HearInv

\* Steps that leave the channels' lives and records alone, and ask for nobody new.
LEMMA HearStill ==
  ASSUME LiveConstants, IInv, TInv, HearInv, UNCHANGED <<presence, robbed>>,
         \A c \in Channels : up'[c] = up[c],
         \A c \in Channels :
           asked'[c] = Nobody \/ (asked'[c] = asked[c] /\ (pc'[c] = "reap" => pc[c] = "reap"))
  PROVE  HearInv'
<1>1. robbed' \/ \A c \in Channels : up'[c] = "up" => presence'[SessionOf[c]] = Record(c)
  BY DEF HearInv
<1>2. ASSUME NEW s \in Sessions, presence'[s].channel # Nobody
      PROVE  up'[presence'[s].channel] # "new"
  <2>1. presence[s].channel \in Channels
    BY <1>2 DEF IInv, FilesOK, RecordKind
  <2> QED BY <1>2, <2>1 DEF HearInv
<1>3. ASSUME NEW c \in Channels, asked'[c] # Nobody
      PROVE  up'[asked'[c]] # "new" /\ (pc'[c] = "reap" => up'[asked'[c]] = "gone")
  <2>1. asked'[c] = asked[c] /\ asked[c] \in Channels /\ (pc'[c] = "reap" => pc[c] = "reap")
    BY <1>3 DEF TInv, KindsOK
  <2> QED BY <1>3, <2>1 DEF HearInv
<1> QED BY <1>1, <1>2, <1>3 DEF HearInv, Record

\* The calls that return ask for nobody any more.
LEMMA ReturnAsks ==
  ASSUME IInv, TInv, NEW c \in Channels, Return(c)
  PROVE  \A d \in Channels :
           asked'[d] = Nobody \/ (asked'[d] = asked[d] /\ (pc'[d] = "reap" => pc[d] = "reap"))
  BY DEF Return, IInv, CallsOK, TInv, KindsOK

LEMMA ServersHear ==
  ASSUME LiveConstants, IInv, TInv, HearInv, NEW s \in Servers, ServerStep(s)
  PROVE  HearInv'
<1>1. UNCHANGED <<presence, robbed, asked, pc>>
  BY DEF ServerStep, Write, RemoveLock, RemoveEntry, ServerDies, claiming
<1>2. up' = up \/ \E life \in {"up", "gone"} : up' = [up EXCEPT ![s] = life]
  <2>1. up' = up \/ up' = [up EXCEPT ![s] = "up"] \/ up' = [up EXCEPT ![s] = "gone"]
        \/ up' = [up EXCEPT ![s] = up[s]]
    BY DEF ServerStep, Write, RemoveLock, RemoveEntry, ServerDies
  <2> QED BY <2>1 DEF IInv, FilesOK
<1>3. \A c \in Channels : up'[c] = up[c]
  BY <1>2, ConstantsAre DEF IInv, FilesOK
<1> QED BY <1>1, <1>3, HearStill

LEMMA AnnounceHears ==
  ASSUME LiveConstants, IInv, TInv, HearInv, NEW c \in Channels, AnnounceSession(c)
  PROVE  HearInv'
<1> DEFINE s == SessionOf[c]
<1>1. /\ pc[c] = "idle" /\ up[c] \in {"new", "up"}
      /\ up' = [up EXCEPT ![c] = "up"] /\ presence' = [presence EXCEPT ![s] = Record(c)]
      /\ robbed' = (robbed \/ PIDAlive(presence[s].channel))
      /\ UNCHANGED <<asked, pc>>
  BY DEF AnnounceSession, claiming, Record
<1>2. s \in Sessions
  BY ConstantsAre
<1>3. /\ up'[c] = "up" /\ presence'[s] = Record(c) /\ Record(c).channel = c
      /\ \A d \in Channels : d # c => up'[d] = up[d]
      /\ \A t \in Sessions : t # s => presence'[t] = presence[t]
  BY <1>1, <1>2 DEF IInv, FilesOK, Record
<1>4. robbed' \/ \A d \in Channels : up'[d] = "up" => presence'[SessionOf[d]] = Record(d)
  <2> SUFFICES ASSUME ~robbed', NEW d \in Channels, up'[d] = "up"
               PROVE  presence'[SessionOf[d]] = Record(d)
    OBVIOUS
  <2>1. ~robbed /\ ~PIDAlive(presence[s].channel)
    BY <1>1
  <2>2. CASE d = c
    BY <1>3, <2>2
  <2>3. CASE d # c
    <3>1. presence[SessionOf[d]] = Record(d) /\ up[d] = "up"
      BY <1>3, <2>1, <2>3 DEF HearInv
    <3>2. SessionOf[d] # s
      BY <2>1, <3>1, ConstantsAre DEF PIDAlive, Record
    <3> QED BY <1>3, <3>1, <3>2, ConstantsAre
  <2> QED BY <2>2, <2>3
<1>5. ASSUME NEW t \in Sessions, presence'[t].channel # Nobody
      PROVE  up'[presence'[t].channel] # "new"
  <2>1. CASE t = s
    BY <1>3, <2>1
  <2>2. CASE t # s
    <3>1. presence'[t] = presence[t] /\ presence[t].channel \in Channels
      BY <1>3, <1>5, <2>2 DEF IInv, FilesOK, RecordKind
    <3>2. up[presence[t].channel] # "new"
      BY <1>5, <3>1 DEF HearInv
    <3> QED BY <1>3, <3>1, <3>2
  <2> QED BY <2>1, <2>2
<1>6. ASSUME NEW d \in Channels, asked'[d] # Nobody
      PROVE  up'[asked'[d]] # "new" /\ (pc'[d] = "reap" => up'[asked'[d]] = "gone")
  <2>1. /\ asked'[d] = asked[d] /\ asked[d] \in Channels /\ pc'[d] = pc[d]
        /\ up[asked[d]] # "new" /\ (pc[d] = "reap" => up[asked[d]] = "gone")
    BY <1>1, <1>6 DEF HearInv, TInv, KindsOK
  <2>2. CASE asked[d] = c
    BY <1>1, <1>3, <2>1, <2>2
  <2>3. CASE asked[d] # c
    BY <1>3, <2>1, <2>3
  <2> QED BY <2>2, <2>3
<1> QED BY <1>4, <1>5, <1>6 DEF HearInv, Record

\* A channel that ends, its session's record gone with it or left.
LEMMA EndHears ==
  ASSUME LiveConstants, IInv, TInv, HearInv, NEW c \in Channels,
         WithdrawSession(c) \/ ChannelDies(c)
  PROVE  HearInv'
<1> DEFINE s == SessionOf[c]
<1>1. /\ up' = [up EXCEPT ![c] = "gone"]
      /\ \/ presence' = presence /\ robbed' = robbed
         \/ /\ presence' = [presence EXCEPT ![s] = NoRecord]
            /\ robbed' = (robbed \/ presence[s].channel # c)
  BY DEF WithdrawSession, ChannelDies
<1>2. \A d \in Channels :
        asked'[d] = Nobody \/ (asked'[d] = asked[d] /\ (pc'[d] = "reap" => pc[d] = "reap"))
  <2>1. CASE WithdrawSession(c)
    BY <2>1 DEF WithdrawSession, claiming
  <2>2. CASE ChannelDies(c)
    BY <2>2, ReturnAsks DEF ChannelDies
  <2> QED BY <2>1, <2>2
<1>3. s \in Sessions /\ up'[c] = "gone" /\ (\A d \in Channels : d # c => up'[d] = up[d])
  BY <1>1, ConstantsAre DEF IInv, FilesOK
<1>4. \A t \in Sessions :
        presence'[t] = presence[t] \/ (t = s /\ presence'[t] = NoRecord /\
                                       (robbed' \/ presence[s].channel = c))
  BY <1>1, <1>3 DEF IInv, FilesOK
<1>5. robbed' \/ \A d \in Channels : up'[d] = "up" => presence'[SessionOf[d]] = Record(d)
  <2> SUFFICES ASSUME ~robbed', NEW d \in Channels, up'[d] = "up"
               PROVE  presence'[SessionOf[d]] = Record(d)
    OBVIOUS
  <2>1. ~robbed
    BY <1>1
  <2>2. d # c /\ up[d] = "up"
    BY <1>3
  <2>3. presence[SessionOf[d]] = Record(d)
    BY <2>1, <2>2 DEF HearInv
  <2>4. ~(SessionOf[d] = s /\ presence[s].channel = c)
    BY <2>2, <2>3 DEF Record
  <2> QED BY <1>4, <2>3, <2>4, ConstantsAre
<1>6. ASSUME NEW t \in Sessions, presence'[t].channel # Nobody
      PROVE  up'[presence'[t].channel] # "new"
  <2>1. presence'[t] = presence[t]
    BY <1>4, <1>6 DEF NoRecord
  <2>2. presence[t].channel \in Channels /\ up[presence[t].channel] # "new"
    BY <1>6, <2>1 DEF HearInv, IInv, FilesOK, RecordKind
  <2> QED BY <1>3, <2>1, <2>2
<1>7. ASSUME NEW d \in Channels, asked'[d] # Nobody
      PROVE  up'[asked'[d]] # "new" /\ (pc'[d] = "reap" => up'[asked'[d]] = "gone")
  <2>1. /\ asked'[d] = asked[d] /\ asked[d] \in Channels /\ (pc'[d] = "reap" => pc[d] = "reap")
        /\ up[asked[d]] # "new" /\ (pc[d] = "reap" => up[asked[d]] = "gone")
    BY <1>2, <1>7 DEF HearInv, TInv, KindsOK
  <2> QED BY <1>3, <2>1
<1> QED BY <1>5, <1>6, <1>7 DEF HearInv, Record

\* SessionLive asks for the record's process, and reaps it once that is gone: if
\* the record is still that one's, no living channel's goes.
LEMMA AsksHear ==
  ASSUME LiveConstants, IInv, TInv, HearInv, NEW c \in Channels,
         LiveRead(c) \/ LiveCheck(c) \/ LiveReap(c)
  PROVE  HearInv'
<1>1. CASE LiveRead(c)
  <2>1. /\ pc[c] = "ask" /\ UNCHANGED <<presence, robbed, up>>
        /\ pc' = [pc EXCEPT ![c] = "write"] \/ pc' = [pc EXCEPT ![c] = "alive"]
    BY <1>1 DEF LiveRead, Step
  <2>2. asked' = [asked EXCEPT ![c] = Nobody] \/
        asked' = [asked EXCEPT ![c] = presence[got[c].owner].channel]
    BY <1>1 DEF LiveRead
  <2>3. got[c].owner \in Sessions
    BY <2>1 DEF IInv, AskOK
  <2>4. \A d \in Channels : pc'[d] = "reap" => d # c /\ pc[d] = "reap"
    BY <2>1 DEF IInv, CallsOK
  <2>5. ASSUME NEW d \in Channels, asked'[d] # Nobody
        PROVE  up[asked'[d]] # "new" /\ (pc'[d] = "reap" => up[asked'[d]] = "gone")
    <3>1. CASE d = c
      <4>1. asked'[c] = presence[got[c].owner].channel
        BY <2>2, <2>5, <3>1 DEF TInv, KindsOK
      <4> QED BY <2>3, <2>4, <2>5, <3>1, <4>1 DEF HearInv
    <3>2. CASE d # c
      BY <2>2, <2>4, <2>5, <3>2 DEF HearInv, TInv, KindsOK
    <3> QED BY <3>1, <3>2
  <2> QED BY <2>1, <2>5 DEF HearInv, Record
<1>2. CASE LiveCheck(c)
  <2>1. UNCHANGED <<presence, robbed, up>>
    BY <1>2 DEF LiveCheck
  <2>2. CASE Return(c)
    BY <2>1, <2>2, ReturnAsks, HearStill
  <2>3. CASE NotAlive(asked[c]) /\ pc' = [pc EXCEPT ![c] = "reap"] /\ asked' = asked
    <3>1. ASSUME NEW d \in Channels, asked'[d] # Nobody
          PROVE  up[asked'[d]] # "new" /\ (pc'[d] = "reap" => up[asked'[d]] = "gone")
      <4>1. up[asked[d]] # "new" /\ (pc[d] = "reap" => up[asked[d]] = "gone")
        BY <2>3, <3>1 DEF HearInv
      <4>2. CASE d = c
        <5>1. asked[c] \in Servers \cup Channels /\ up[asked[c]] # "up"
          BY <2>3, <3>1, <4>2 DEF NotAlive, PIDAlive, TInv, KindsOK
        <5>2. up[asked[c]] \in {"new", "up", "gone"}
          BY <5>1 DEF IInv, FilesOK
        <5> QED BY <2>3, <4>1, <4>2, <5>1, <5>2
      <4>3. CASE d # c
        BY <2>3, <4>1, <4>3 DEF IInv, CallsOK
      <4> QED BY <4>2, <4>3
    <3> QED BY <2>1, <3>1 DEF HearInv, Record
  <2> QED BY <1>2, <2>2, <2>3 DEF LiveCheck
<1>3. CASE LiveReap(c)
  <2> DEFINE s == got[c].owner
  <2>1. /\ pc[c] = "reap" /\ pc' = [pc EXCEPT ![c] = "write"] /\ UNCHANGED <<up, asked>>
        /\ presence' = [presence EXCEPT ![s] = NoRecord]
        /\ robbed' = (robbed \/ presence[s].channel # asked[c])
    BY <1>3 DEF LiveReap, Step, claiming
  <2>2. s \in Sessions
    BY <2>1 DEF IInv, AskOK
  <2>3. \A t \in Sessions : presence'[t] = IF t = s THEN NoRecord ELSE presence[t]
    BY <2>1, <2>2 DEF IInv, FilesOK
  <2>4. robbed' \/ \A d \in Channels : up'[d] = "up" => presence'[SessionOf[d]] = Record(d)
    <3> SUFFICES ASSUME ~robbed', NEW d \in Channels, up[d] = "up"
                 PROVE  presence'[SessionOf[d]] = Record(d)
      BY <2>1
    <3>1. ~robbed /\ presence[s].channel = asked[c]
      BY <2>1
    <3>2. presence[SessionOf[d]] = Record(d)
      BY <3>1 DEF HearInv
    <3>3. SessionOf[d] # s
      <4>1. asked[c] # d
        BY <2>1, ConstantsAre DEF HearInv
      <4> QED BY <3>1, <3>2, <4>1 DEF Record
    <3> QED BY <2>3, <3>2, <3>3, ConstantsAre
  <2>5. \A t \in Sessions : presence'[t].channel # Nobody => up'[presence'[t].channel] # "new"
    BY <2>1, <2>3 DEF HearInv, NoRecord
  <2>6. \A d \in Channels : pc'[d] = "reap" => pc[d] = "reap"
    BY <2>1 DEF IInv, CallsOK
  <2>7. \A d \in Channels : asked'[d] # Nobody =>
          up'[asked'[d]] # "new" /\ (pc'[d] = "reap" => up'[asked'[d]] = "gone")
    BY <2>1, <2>6 DEF HearInv
  <2> QED BY <2>4, <2>5, <2>7 DEF HearInv, Record
<1> QED BY <1>1, <1>2, <1>3

LEMMA ClaimHears ==
  ASSUME LiveConstants, IInv, TInv, HearInv, NEW c \in Channels, Claiming(c)
  PROVE  HearInv'
<1>1. ASSUME NEW r \in Rooms, ClaimOpen(c, r) PROVE HearInv'
  <2>1. UNCHANGED <<presence, robbed, up, asked>> /\ pc' = [pc EXCEPT ![c] = "lock"]
    BY <1>1 DEF ClaimOpen
  <2>2. \A d \in Channels : pc'[d] = "reap" => pc[d] = "reap"
    BY <2>1 DEF IInv, CallsOK
  <2> QED BY <2>1, <2>2, HearStill
<1>2. CASE ClaimRead(c)
  <2>1. UNCHANGED <<presence, robbed, up>>
    BY <1>2 DEF ClaimRead
  <2>2. CASE Return(c)
    BY <2>1, <2>2, ReturnAsks, HearStill
  <2>3. CASE Goto(c, "ask") \/ Goto(c, "write")
    <3>1. asked' = asked /\ (\A d \in Channels : pc'[d] = "reap" => pc[d] = "reap")
      BY <2>3 DEF Goto, IInv, CallsOK
    <3> QED BY <2>1, <3>1, HearStill
  <2> QED BY <1>2, <2>2, <2>3 DEF ClaimRead
<1>3. CASE ClaimWrite(c)
  BY <1>3, ReturnAsks, HearStill DEF ClaimWrite
<1> QED BY <1>1, <1>2, <1>3, AsksHear DEF Claiming

LEMMA InspectHears ==
  ASSUME LiveConstants, IInv, TInv, HearInv, NEW c \in Channels, Inspecting(c)
  PROVE  HearInv'
<1>1. UNCHANGED <<presence, robbed, up, asked>>
  BY DEF Inspecting, Glob, ScanRead, ScanCheck, ScanReap, ScanDone, ScanUsed, claiming
<1>2. \E to \in {"scan", "check", "remove", "listed", "idle"} : pc' = [pc EXCEPT ![c] = to]
  BY DEF Inspecting, Glob, ScanRead, ScanCheck, ScanReap, ScanDone, ScanUsed, Step
<1>3. \A d \in Channels : pc'[d] = "reap" => pc[d] = "reap"
  BY <1>2 DEF IInv, CallsOK
<1> QED BY <1>1, <1>3, HearStill

LEMMA HearStep ==
  ASSUME LiveConstants, IInv, TInv, HearInv, [LiveNext]_liveVars PROVE HearInv'
<1>1. CASE UNCHANGED liveVars
  <2>1. UNCHANGED <<presence, robbed, up, asked, pc>>
    BY <1>1 DEF liveVars, claiming
  <2> QED BY <2>1, HearStill
<1>2. CASE LiveNext
  BY <1>2, ServersHear, AnnounceHears, EndHears, ClaimHears, InspectHears
     DEF LiveNext, ChannelStep
<1> QED BY <1>1, <1>2

\* A living channel of this build has a record that says so, however many channels of
\* its session come, go and die, and readers reap, unless one replaced or removed a
\* record it had not judged (AnnounceSession, WithdrawSession, SessionLive).
THEOREM LivingAreHeard == ASSUME LiveConstants PROVE LiveSpec => []HeardUnlessRobbed
<1>1. LiveInit => IInv /\ TInv /\ HearInv
  BY InitKeeps, TypesStart, HearStart
<1>2. (IInv /\ TInv /\ HearInv) /\ [LiveNext]_liveVars => (IInv /\ TInv /\ HearInv)'
  BY LiveStep, TypesStep, HearStep
<1>3. IInv /\ HearInv => HeardUnlessRobbed
  <2> SUFFICES ASSUME HearInv, ~robbed, NEW c \in Channels \ Newer, up[c] = "up"
               PROVE  Heard(presence, up, SessionOf[c])
    BY DEF HeardUnlessRobbed, PIDAlive
  <2>1. presence[SessionOf[c]] = Record(c)
    BY DEF HearInv
  <2>2. presence[SessionOf[c]].channel = c
    BY <2>1 DEF Record
  <2>3. ~presence[SessionOf[c]].future
    <3>1. presence[SessionOf[c]].future = (c \in Newer)
      BY <2>1 DEF Record
    <3> QED BY <3>1
  <2> QED BY <2>2, <2>3, ConstantsAre DEF Heard
<1> QED BY <1>1, <1>2, <1>3, PTL DEF LiveSpec

--------------------------------------------------------------------------------
(* A scan finds every page that was up throughout it.                       *)

\* Of a page server that has started, and of its build, as it is stamped.
Stamped(life, e) ==
  e.server \in Servers => life[e.server] # "new" /\ (e.future <=> e.server \in Newer)
StampsOK ==
  (\A r \in Rooms : Stamped(up, entry[r])) /\ (\A c \in Channels : Stamped(up, got[c]))

\* An entry nobody touched since the scan began is still of a server that lives,
\* and the scan is to read it, checks it, or has kept its server.
Alive(e) == e.server \in Servers /\ up[e.server] = "up" /\ e.future = FALSE
Found(c, s) == \E k \in kept[c] : k.server = s
Covered(c, r) ==
  \/ pc[c] # "listed" /\ r \in todo[c]
  \/ pc[c] = "check" /\ room[c] = r /\ got[c].server = entry[r].server
  \/ Found(c, entry[r].server)
ScanOf(c) ==
  /\ \A r \in steady[c] : Alive(entry[r])
  /\ pc[c] \in ScanSteps => \A r \in steady[c] : Covered(c, r)
  /\ pc[c] = "remove" /\ got[c].server \in Servers => up[got[c].server] = "gone"
  /\ pc[c] = "listed" => pages[c] = Newest(kept[c])
ScanInv == StampsOK /\ \A c \in Channels : ScanOf(c)

\* Servers do not start twice, and no entry is of one that has not started.
StartOnce == \A s \in Servers : /\ up'[s] = "new" => up[s] = "new"
                                /\ up[s] = "gone" => up'[s] = "gone"

LEMMA ScanStart == ASSUME LiveConstants, LiveInit PROVE ScanInv
<1>1. Nobody \notin Servers
  BY DEF LiveConstants
<1>2. /\ \A r \in Rooms : entry[r] = NoEntry
      /\ \A c \in Channels : got[c] = NoEntry /\ pc[c] = "idle" /\ steady[c] = {}
  BY DEF LiveInit
<1>3. Stamped(up, NoEntry)
  BY <1>1 DEF Stamped, NoEntry
<1> QED BY <1>2, <1>3, StepsAre DEF ScanInv, StampsOK, ScanOf, ScanSteps

\* A stamp stays good.
LEMMA StampStays ==
  ASSUME StartOnce, NEW e, Stamped(up, e) PROVE Stamped(up', e)
  BY DEF Stamped, StartOnce

\* The entries of a scan's list that it does not lose stay as they were, of a
\* server that lives.
StaysSteady(c) ==
  \A r \in steady'[c] : /\ r \in steady[c] /\ entry'[r].server = entry[r].server
                        /\ entry'[r].future = entry[r].future
                        /\ up'[entry[r].server] = "up"

\* A scan that makes no step of its own, or leaves Inspect.
LEMMA ScanStays ==
  ASSUME NEW c \in Channels, ScanOf(c), StartOnce, StaysSteady(c),
         pc'[c] \in ScanSteps =>
           /\ pc'[c] = pc[c] /\ todo'[c] = todo[c] /\ room'[c] = room[c] /\ got'[c] = got[c]
           /\ kept'[c] = kept[c] /\ pages'[c] = pages[c]
  PROVE  ScanOf(c)'
<1>1. \A r \in steady'[c] : Alive(entry[r])'
  BY DEF StaysSteady, ScanOf, Alive
<1>2. ASSUME pc'[c] \in ScanSteps, NEW r \in steady'[c] PROVE Covered(c, r)'
  <2>1. Covered(c, r) /\ entry'[r].server = entry[r].server
    BY <1>2 DEF StaysSteady, ScanOf
  <2> QED BY <1>2, <2>1 DEF Covered, Found
<1>3. pc'[c] = "remove" /\ got'[c].server \in Servers => up'[got'[c].server] = "gone"
  BY StepsAre DEF ScanOf, StartOnce
<1>4. pc'[c] = "listed" => pages'[c] = Newest(kept'[c])
  BY StepsAre DEF ScanOf
<1> QED BY <1>1, <1>2, <1>3, <1>4 DEF ScanOf, Newest

\* What a channel's step changes of the servers' entries: nothing.
LEMMA EntriesStay ==
  ASSUME LiveConstants, IInv, ScanInv, entry' = entry,
         \A s \in Servers : up'[s] = up[s],
         NEW c \in Channels, steady'[c] = steady[c]
  PROVE  StartOnce /\ StaysSteady(c)
<1>1. StartOnce
  BY DEF StartOnce
<1>2. \A r \in steady[c] : entry[r].server \in Servers /\ up[entry[r].server] = "up"
  BY DEF ScanInv, ScanOf, Alive
<1> QED BY <1>1, <1>2 DEF StaysSteady

LEMMA WriteScans ==
  ASSUME LiveConstants, IInv, TInv, ScanInv, NEW s \in Servers, NEW r \in Rooms,
         NEW owner \in Sessions \cup {Nobody}, Write(s, r, owner)
  PROVE  ScanInv'
<1> DEFINE e == [server |-> s, owner |-> owner, at |-> writes + claims + 1,
                 future |-> s \in Newer]
<1>1. /\ up[s] \in {"new", "up"} /\ up' = [up EXCEPT ![s] = "up"]
      /\ entry' = [entry EXCEPT ![r] = e]
      /\ steady' = [c \in Channels |-> IF entry[r].server = s THEN steady[c]
                                                              ELSE steady[c] \ {r}]
      /\ UNCHANGED <<pc, room, got, todo, kept, pages>>
  BY DEF Write, claiming
<1>2. up'[s] = "up" /\ (\A t \in Servers : t # s => up'[t] = up[t])
  BY <1>1 DEF IInv, FilesOK
<1>3. StartOnce
  BY <1>1, <1>2 DEF StartOnce
<1>4. entry'[r] = e /\ (\A q \in Rooms : q # r => entry'[q] = entry[q])
  BY <1>1 DEF IInv, FilesOK
<1>7. e.server = s /\ e.future = (s \in Newer)
  OBVIOUS
<1> HIDE DEF e
<1>5. StampsOK'
  <2>1. Stamped(up', entry'[r])
    BY <1>2, <1>4, <1>7 DEF Stamped
  <2>2. \A q \in Rooms : q # r => Stamped(up', entry'[q])
    BY <1>3, <1>4, StampStays DEF ScanInv, StampsOK
  <2>3. \A c \in Channels : Stamped(up', got'[c])
    BY <1>1, <1>3, StampStays DEF ScanInv, StampsOK
  <2> QED BY <2>1, <2>2, <2>3 DEF StampsOK, Stamped
<1>6. ASSUME NEW c \in Channels PROVE ScanOf(c)'
  <2>1. ASSUME NEW q \in steady'[c]
        PROVE  /\ q \in steady[c] /\ entry'[q].server = entry[q].server
               /\ entry'[q].future = entry[q].future /\ up'[entry[q].server] = "up"
    <3>1. q \in steady[c] /\ q \in Rooms /\ Alive(entry[q]) /\ Stamped(up, entry[q])
      BY <1>1, <2>1 DEF ScanInv, ScanOf, StampsOK, TInv, KindsOK
    <3>2. up'[entry[q].server] = "up"
      BY <1>2, <3>1 DEF Alive
    <3>3. CASE q = r
      <4>1. entry[q].server = s
        BY <1>1, <2>1, <3>3
      <4>2. s \notin Newer
        BY <3>1, <4>1 DEF Alive, Stamped
      <4>3. (s \in Newer) = FALSE
        BY <4>2
      <4>4. e.future = entry[q].future
        BY <1>7, <3>1, <4>3, Zenon DEF Alive
      <4> QED BY <1>4, <1>7, <3>1, <3>2, <3>3, <4>1, <4>4
    <3>4. CASE q # r
      BY <1>4, <3>1, <3>2, <3>4
    <3> QED BY <3>3, <3>4
  <2>2. StaysSteady(c)
    BY <2>1 DEF StaysSteady
  <2> QED BY <1>1, <1>3, <2>2, ScanStays DEF ScanInv
<1> QED BY <1>5, <1>6 DEF ScanInv

LEMMA LeaveScans ==
  ASSUME LiveConstants, IInv, TInv, ScanInv, NEW s \in Servers,
         ServerDies(s) \/ \E r \in Rooms : RemoveLock(s, r) \/ RemoveEntry(s, r)
  PROVE  ScanInv'
<1>1. UNCHANGED <<pc, room, got, todo, kept, pages>>
  BY DEF ServerDies, RemoveLock, RemoveEntry, claiming, scanning
<1>2. \/ UNCHANGED <<up, entry, steady>>
      \/ /\ up' = [up EXCEPT ![s] = "gone"] /\ entry' = entry
         /\ steady' = [c \in Channels |-> {r \in steady[c] : entry[r].server # s}]
      \/ \E r \in Rooms :
           /\ up' = [up EXCEPT ![s] = "gone"] \/ up' = up
           /\ entry' = [entry EXCEPT ![r] = NoEntry]
           /\ steady' = [c \in Channels |-> {q \in steady[c] \ {r} : entry[q].server # s}]
  <2>1. CASE ServerDies(s)
    BY <2>1 DEF ServerDies
  <2>2. ASSUME NEW r \in Rooms, RemoveLock(s, r) PROVE UNCHANGED <<up, entry, steady>>
    BY <2>2 DEF RemoveLock, scanning
  <2>3. ASSUME NEW r \in Rooms, RemoveEntry(s, r)
        PROVE  /\ up' = [up EXCEPT ![s] = "gone"] \/ up' = up
               /\ entry' = [entry EXCEPT ![r] = NoEntry]
               /\ steady' = [c \in Channels |-> {q \in steady[c] \ {r} : entry[q].server # s}]
    <3>1. up' = [up EXCEPT ![s] = "gone"] \/ up' = [up EXCEPT ![s] = up[s]]
      BY <2>3 DEF RemoveEntry
    <3>2. [up EXCEPT ![s] = up[s]] = up
      BY DEF IInv, FilesOK
    <3> QED BY <2>3, <3>1, <3>2 DEF RemoveEntry
  <2> QED BY <2>1, <2>2, <2>3
<1>3. \A t \in Servers : up'[t] = up[t] \/ (t = s /\ up'[t] = "gone")
  BY <1>2 DEF IInv, FilesOK
<1>4. StartOnce
  BY <1>3 DEF StartOnce
<1>5. \A r \in Rooms : entry'[r] = entry[r] \/ entry'[r] = NoEntry
  BY <1>2 DEF IInv, FilesOK
<1>6. StampsOK'
  <2>1. Stamped(up', NoEntry)
    BY DEF Stamped, NoEntry, LiveConstants
  <2>2. \A r \in Rooms : Stamped(up', entry'[r])
    BY <1>4, <1>5, <2>1, StampStays DEF ScanInv, StampsOK
  <2>3. \A c \in Channels : Stamped(up', got'[c])
    BY <1>1, <1>4, StampStays DEF ScanInv, StampsOK
  <2> QED BY <2>2, <2>3 DEF StampsOK, Stamped
<1>7. ASSUME NEW c \in Channels PROVE ScanOf(c)'
  <2>1. ASSUME NEW q \in steady'[c]
        PROVE  q \in steady[c] /\ entry'[q] = entry[q] /\ up'[entry[q].server] = "up"
    <3>1. steady[c] \subseteq Rooms
      BY DEF TInv, KindsOK
    <3>2. q \in steady[c] /\ entry'[q] = entry[q]
          /\ (up' = up \/ entry[q].server # s)
      BY <1>2, <2>1, <3>1 DEF IInv, FilesOK
    <3>3. entry[q].server \in Servers /\ up[entry[q].server] = "up"
      BY <3>2 DEF ScanInv, ScanOf, Alive
    <3> QED BY <1>3, <3>2, <3>3
  <2>2. StaysSteady(c)
    BY <2>1 DEF StaysSteady
  <2> QED BY <1>1, <1>4, <2>2, ScanStays DEF ScanInv
<1> QED BY <1>6, <1>7 DEF ScanInv

\* A channel's step that leaves the entries alone: of the other scans nothing changes.
LEMMA OthersScan ==
  ASSUME LiveConstants, IInv, TInv, ScanInv, entry' = entry,
         \A s \in Servers : up'[s] = up[s],
         NEW c \in Channels, ScanOf(c)', Stamped(up, got'[c]),
         \A d \in Channels : d # c =>
           /\ pc'[d] = pc[d] /\ room'[d] = room[d] /\ got'[d] = got[d] /\ todo'[d] = todo[d]
           /\ kept'[d] = kept[d] /\ pages'[d] = pages[d] /\ steady'[d] = steady[d]
  PROVE  ScanInv'
<1>1. StampsOK'
  <2>1. StartOnce
    BY DEF StartOnce
  <2>2. \A r \in Rooms : Stamped(up', entry'[r])
    BY <2>1, StampStays DEF ScanInv, StampsOK
  <2>3. \A d \in Channels : Stamped(up', got'[d])
    BY <2>1, StampStays DEF ScanInv, StampsOK
  <2> QED BY <2>2, <2>3 DEF StampsOK, Stamped
<1>2. ASSUME NEW d \in Channels, d # c PROVE ScanOf(d)'
  <2>1. StartOnce /\ StaysSteady(d)
    BY <1>2, EntriesStay
  <2> QED BY <1>2, <2>1, ScanStays DEF ScanInv
<1> QED BY <1>1, <1>2 DEF ScanInv

\* A channel that comes, goes or is in Claim, short of writing the entry.
LEMMA ClaimScans ==
  ASSUME LiveConstants, IInv, TInv, ScanInv, NEW c \in Channels,
         \/ AnnounceSession(c) \/ WithdrawSession(c) \/ ChannelDies(c)
         \/ (\E r \in Rooms : ClaimOpen(c, r)) \/ ClaimRead(c)
         \/ LiveRead(c) \/ LiveCheck(c) \/ LiveReap(c)
  PROVE  ScanInv'
<1>1. entry' = entry /\ UNCHANGED scanning
  BY DEF AnnounceSession, WithdrawSession, ChannelDies, ClaimOpen, ClaimRead, LiveRead,
         LiveCheck, LiveReap
<1>2. \A s \in Servers : up'[s] = up[s]
  <2>1. up' = up \/ up' = [up EXCEPT ![c] = "up"] \/ up' = [up EXCEPT ![c] = "gone"]
    BY DEF AnnounceSession, WithdrawSession, ChannelDies, ClaimOpen, ClaimRead, LiveRead,
           LiveCheck, LiveReap
  <2> QED BY <2>1, ConstantsAre DEF IInv, FilesOK
<1>3. \/ /\ pc[c] = "idle" /\ UNCHANGED <<pc, room, got>>
      \/ \E to \in {"idle"} \cup ClaimSteps : \E r \in Rooms :
           /\ pc' = [pc EXCEPT ![c] = to]
           /\ room' = room \/ room' = [room EXCEPT ![c] = r]
           /\ \/ got' = got \/ got' = [got EXCEPT ![c] = NoEntry]
              \/ got' = [got EXCEPT ![c] = entry[r]]
  <2>1. CASE AnnounceSession(c)
    BY <2>1 DEF AnnounceSession, claiming
  <2>2. CASE WithdrawSession(c)
    BY <2>2 DEF WithdrawSession, claiming
  <2>3. room[c] \in Rooms
    BY DEF IInv, CallsOK
  <2>4. CASE ChannelDies(c)
    BY <2>3, <2>4 DEF ChannelDies, Return
  <2>5. ASSUME NEW r \in Rooms, ClaimOpen(c, r) PROVE <1>3!:
    BY <2>5 DEF ClaimOpen, ClaimSteps
  <2>6. CASE ClaimRead(c)
    BY <2>3, <2>6 DEF ClaimRead, Return, Goto, ClaimSteps
  <2>7. CASE LiveRead(c) \/ LiveReap(c)
    BY <2>3, <2>7 DEF LiveRead, LiveReap, Step, ClaimSteps, claiming
  <2>8. CASE LiveCheck(c)
    BY <2>3, <2>8 DEF LiveCheck, Return, ClaimSteps
  <2> QED BY <2>1, <2>2, <2>4, <2>5, <2>6, <2>7, <2>8
<1>4. pc'[c] \notin ScanSteps
  BY <1>3, StepsAre DEF IInv, CallsOK, ScanSteps
<1>5. \A d \in Channels : d # c => pc'[d] = pc[d] /\ room'[d] = room[d] /\ got'[d] = got[d]
  BY <1>3 DEF IInv, CallsOK
<1>6. Stamped(up, got'[c])
  <2>1. Stamped(up, NoEntry)
    BY DEF Stamped, NoEntry, LiveConstants
  <2>2. got'[c] = got[c] \/ got'[c] = NoEntry \/ \E r \in Rooms : got'[c] = entry[r]
    BY <1>3 DEF IInv, CallsOK
  <2> QED BY <2>1, <2>2 DEF ScanInv, StampsOK
<1>7. ScanOf(c)'
  <2>1. StartOnce /\ StaysSteady(c)
    BY <1>1, <1>2, EntriesStay DEF scanning
  <2> QED BY <1>4, <2>1, ScanStays DEF ScanInv
<1> QED BY <1>1, <1>2, <1>5, <1>6, <1>7, OthersScan DEF scanning

\* An entry changed by a channel: every scan loses it, unless it stays of the
\* server it was of.
LEMMA EntryChanges ==
  ASSUME LiveConstants, IInv, TInv, ScanInv, up' = up,
         NEW c \in Channels, NEW r \in Rooms, NEW e, entry' = [entry EXCEPT ![r] = e],
         Stamped(up, e), e.future \in BOOLEAN,
         steady' = [d \in Channels |-> IF entry[r].server = got[c].server
                                         THEN steady[d] ELSE steady[d] \ {r}],
         got[c].server = e.server \/ up[got[c].server] = "gone" \/ got[c].server = Nobody,
         got' = got \/ got' = [got EXCEPT ![c] = NoEntry]
  PROVE  StartOnce /\ StampsOK' /\ \A d \in Channels : StaysSteady(d)
<1>1. StartOnce
  BY DEF StartOnce
<1>2. entry'[r] = e /\ (\A q \in Rooms : q # r => entry'[q] = entry[q])
  BY DEF IInv, FilesOK
<1>3. StampsOK'
  <2>1. \A q \in Rooms : Stamped(up', entry'[q])
    BY <1>2 DEF ScanInv, StampsOK
  <2>2. Stamped(up', NoEntry)
    BY DEF Stamped, NoEntry, LiveConstants
  <2>3. \A d \in Channels : got'[d] = got[d] \/ got'[d] = NoEntry
    BY DEF IInv, CallsOK
  <2>4. \A d \in Channels : Stamped(up', got'[d])
    BY <2>2, <2>3 DEF ScanInv, StampsOK
  <2> QED BY <2>1, <2>4 DEF StampsOK, Stamped
<1>4. ASSUME NEW d \in Channels, NEW q \in steady'[d]
      PROVE  /\ q \in steady[d] /\ entry'[q].server = entry[q].server
             /\ entry'[q].future = entry[q].future /\ up'[entry[q].server] = "up"
  <2>1. q \in steady[d] /\ q \in Rooms /\ Alive(entry[q]) /\ Stamped(up, entry[q])
        /\ (q = r => entry[r].server = got[c].server)
    BY <1>4 DEF ScanInv, ScanOf, StampsOK, TInv, KindsOK
  <2>2. CASE q = r
    <3>1. e.server = entry[q].server
      BY <2>1, <2>2, ConstantsAre DEF Alive, LiveConstants
    <3>2. (e.future <=> e.server \in Newer) /\ (entry[q].future <=> e.server \in Newer)
      BY <2>1, <3>1 DEF Alive, Stamped
    <3>3. entry[q].future \in BOOLEAN
      BY <2>1 DEF Alive
    <3>4. e.future = entry[q].future
      BY <3>2, <3>3
    <3> QED BY <1>2, <2>1, <2>2, <3>1, <3>4 DEF Alive
  <2>3. CASE q # r
    BY <1>2, <2>1, <2>3 DEF Alive
  <2> QED BY <2>2, <2>3
<1>5. \A d \in Channels : StaysSteady(d)
  BY <1>4 DEF StaysSteady
<1> QED BY <1>1, <1>3, <1>5

LEMMA ClaimWriteScans ==
  ASSUME LiveConstants, IInv, TInv, ScanInv, NEW c \in Channels, ClaimWrite(c)
  PROVE  ScanInv'
<1> DEFINE r == room[c]
           e == [got[c] EXCEPT !.owner = SessionOf[c], !.at = writes + claims + 1]
<1>1. /\ pc[c] = "write" /\ pc' = [pc EXCEPT ![c] = "idle"]
      /\ got' = [got EXCEPT ![c] = NoEntry] /\ entry' = [entry EXCEPT ![r] = e]
      /\ steady' = [d \in Channels |-> IF entry[r].server = got[c].server
                                         THEN steady[d] ELSE steady[d] \ {r}]
      /\ UNCHANGED <<up, room, todo, kept, pages>>
  BY DEF ClaimWrite, Return
<1>2. got[c] \in EntryRow
  BY DEF TInv, KindsOK
<1>3. e.server = got[c].server /\ e.future = got[c].future
  BY <1>2 DEF EntryRow
<1>4. got[c].future \in BOOLEAN
  BY <1>2 DEF EntryRow
<1> HIDE DEF e
<1>5. Stamped(up, e) /\ r \in Rooms
  BY <1>3 DEF ScanInv, StampsOK, Stamped, IInv, CallsOK
<1>6. StartOnce /\ StampsOK' /\ \A d \in Channels : StaysSteady(d)
  BY <1>1, <1>3, <1>4, <1>5, EntryChanges
<1>7. /\ pc'[c] \notin ScanSteps
      /\ \A d \in Channels : d # c => pc'[d] = pc[d] /\ got'[d] = got[d]
  BY <1>1, StepsAre DEF IInv, CallsOK, ScanSteps
<1>8. ASSUME NEW d \in Channels PROVE ScanOf(d)'
  BY <1>1, <1>6, <1>7, ScanStays DEF ScanInv
<1> QED BY <1>6, <1>8 DEF ScanInv

LEMMA ScanReapScans ==
  ASSUME LiveConstants, IInv, TInv, ScanInv, NEW c \in Channels, ScanReap(c)
  PROVE  ScanInv'
<1> DEFINE r == room[c]
<1>1. /\ pc[c] = "remove" /\ pc' = [pc EXCEPT ![c] = "scan"]
      /\ entry' = [entry EXCEPT ![r] = NoEntry]
      /\ steady' = [d \in Channels |-> IF entry[r].server = got[c].server
                                         THEN steady[d] ELSE steady[d] \ {r}]
      /\ UNCHANGED <<up, room, got, todo, kept, pages>>
  BY DEF ScanReap, Step, claiming
<1>2. Stamped(up, NoEntry) /\ NoEntry.server = Nobody /\ NoEntry.future = FALSE /\ r \in Rooms
  BY DEF Stamped, NoEntry, LiveConstants, IInv, CallsOK
<1>3. got[c].server = Nobody \/ up[got[c].server] = "gone"
  <2>1. got[c].server \in Servers \cup {Nobody}
    BY DEF TInv, KindsOK, EntryRow
  <2> QED BY <1>1, <2>1 DEF ScanInv, ScanOf
<1>4. NoEntry.future \in BOOLEAN
  BY <1>2
<1>5. StartOnce /\ StampsOK' /\ \A d \in Channels : StaysSteady(d)
  BY <1>1, <1>2, <1>3, <1>4, EntryChanges
<1>6. pc'[c] = "scan" /\ (\A d \in Channels : d # c => pc'[d] = pc[d])
  BY <1>1 DEF IInv, CallsOK
<1>7. ASSUME NEW d \in Channels, d # c PROVE ScanOf(d)'
  BY <1>1, <1>5, <1>6, <1>7, ScanStays DEF ScanInv
<1>8. ScanOf(c)'
  <2>1. \A q \in steady'[c] : Alive(entry[q])' /\ Covered(c, q)'
    <3> SUFFICES ASSUME NEW q \in steady'[c] PROVE Alive(entry[q])' /\ Covered(c, q)'
      OBVIOUS
    <3>1. /\ q \in steady[c] /\ entry'[q].server = entry[q].server
          /\ entry'[q].future = entry[q].future /\ up'[entry[q].server] = "up"
      BY <1>5 DEF StaysSteady
    <3>2. Alive(entry[q]) /\ Covered(c, q)
      BY <1>1, <3>1 DEF ScanInv, ScanOf, ScanSteps
    <3>3. q \in todo[c] \/ Found(c, entry[q].server)
      BY <1>1, <3>2 DEF Covered
    <3> QED BY <1>1, <1>6, <3>1, <3>2, <3>3 DEF Alive, Covered, Found
  <2> QED BY <1>6, <2>1 DEF ScanOf
<1> QED BY <1>5, <1>7, <1>8 DEF ScanInv

\* The scan's own steps: it lists the files, reads one, checks it, reaps the dead
\* one, and returns the newest of those it kept.
LEMMA GlobScans ==
  ASSUME LiveConstants, IInv, TInv, ScanInv, NEW c \in Channels, Glob(c)
  PROVE  ScanInv'
<1>1. /\ pc' = [pc EXCEPT ![c] = "scan"] /\ todo' = [todo EXCEPT ![c] = Files]
      /\ kept' = [kept EXCEPT ![c] = {}] /\ pages' = [pages EXCEPT ![c] = {}]
      /\ steady' = [steady EXCEPT ![c] =
                      {r \in Files : PIDAlive(entry[r].server) /\ ~entry[r].future}]
      /\ UNCHANGED <<entry, up, room, got>>
  BY DEF Glob, claiming
<1> HIDE DEF Files
<1>2. /\ pc'[c] = "scan" /\ todo'[c] = Files
      /\ \A r \in steady'[c] : r \in Files /\ PIDAlive(entry[r].server) /\ ~entry[r].future
  BY <1>1 DEF IInv, CallsOK, TInv, KindsOK
<1>3. ScanOf(c)'
  <2>1. ASSUME NEW r \in steady'[c] PROVE Alive(entry[r])' /\ Covered(c, r)'
    <3>1. r \in Files /\ PIDAlive(entry[r].server) /\ ~entry[r].future
      BY <1>2, <2>1
    <3>2. entry[r].server \in Servers \cup {Nobody} /\ entry[r].future \in BOOLEAN
      BY <3>1 DEF Files, TInv, KindsOK, EntryRow
    <3>3. entry[r].future = FALSE
      BY <3>1, <3>2
    <3>4. Alive(entry[r])'
      BY <1>1, <3>1, <3>2, <3>3 DEF Alive, PIDAlive
    <3>5. Covered(c, r)'
      BY <1>2, <3>1 DEF Covered
    <3> QED BY <3>4, <3>5
  <2> QED BY <1>2, <2>1 DEF ScanOf
<1>4. \A d \in Channels : d # c =>
        /\ pc'[d] = pc[d] /\ room'[d] = room[d] /\ got'[d] = got[d] /\ todo'[d] = todo[d]
        /\ kept'[d] = kept[d] /\ steady'[d] = steady[d]
  BY <1>1 DEF IInv, CallsOK, TInv, KindsOK
<1>5. \A d \in Channels : d # c => pages'[d] = pages[d]
  BY <1>1 DEF TInv, KindsOK
<1>6. Stamped(up, got'[c])
  BY <1>1 DEF ScanInv, StampsOK
<1> QED BY <1>1, <1>3, <1>4, <1>5, <1>6, OthersScan

LEMMA ScanReadScans ==
  ASSUME LiveConstants, IInv, TInv, ScanInv, NEW c \in Channels, ScanRead(c)
  PROVE  ScanInv'
<1>1. PICK r \in todo[c] :
        /\ pc[c] = "scan"
        /\ pc' = [pc EXCEPT ![c] = IF entry[r] = NoEntry \/ entry[r].future
                                     THEN "scan" ELSE "check"]
        /\ todo' = [todo EXCEPT ![c] = todo[c] \ {r}]
        /\ room' = [room EXCEPT ![c] = r] /\ got' = [got EXCEPT ![c] = entry[r]]
        /\ UNCHANGED <<entry, up, kept, pages, steady>>
  BY DEF ScanRead, Step
<1>2. /\ pc'[c] = (IF entry[r] = NoEntry \/ entry[r].future THEN "scan" ELSE "check")
      /\ todo'[c] = todo[c] \ {r} /\ room'[c] = r /\ got'[c] = entry[r] /\ r \in Rooms
  BY <1>1 DEF IInv, CallsOK, TInv, KindsOK
<1>3. ScanOf(c)'
  <2>1. ASSUME NEW q \in steady'[c] PROVE Alive(entry[q])' /\ Covered(c, q)'
    <3>1. Alive(entry[q]) /\ Covered(c, q)
      BY <1>1, <2>1 DEF ScanInv, ScanOf, ScanSteps
    <3>2. q \in todo[c] \/ Found(c, entry[q].server)
      BY <1>1, <3>1 DEF Covered
    <3>3. CASE q = r
      <4>1. entry[r] # NoEntry /\ ~entry[r].future
        BY <3>1, <3>3, ConstantsAre DEF Alive, NoEntry, LiveConstants
      <4> QED BY <1>1, <1>2, <3>1, <3>3, <4>1 DEF Alive, Covered
    <3>4. CASE q # r
      BY <1>1, <1>2, <3>1, <3>2, <3>4 DEF Alive, Covered, Found
    <3> QED BY <3>3, <3>4
  <2>2. pc'[c] # "remove" /\ pc'[c] # "listed"
    BY <1>2
  <2> QED BY <2>1, <2>2 DEF ScanOf
<1>4. \A d \in Channels : d # c =>
        pc'[d] = pc[d] /\ room'[d] = room[d] /\ got'[d] = got[d] /\ todo'[d] = todo[d]
  BY <1>1 DEF IInv, CallsOK
<1>5. Stamped(up, got'[c])
  BY <1>2 DEF ScanInv, StampsOK
<1> QED BY <1>1, <1>3, <1>4, <1>5, OthersScan

LEMMA ScanCheckScans ==
  ASSUME LiveConstants, IInv, TInv, ScanInv, NEW c \in Channels, ScanCheck(c)
  PROVE  ScanInv'
<1> DEFINE r == room[c]
           k == [room |-> r, server |-> got[c].server, at |-> entry[r].at]
<1>1. /\ pc[c] = "check" /\ UNCHANGED <<entry, up, todo, room, got, pages, steady>>
      /\ \/ /\ PIDAlive(got[c].server) /\ pc' = [pc EXCEPT ![c] = "scan"]
            /\ kept' = [kept EXCEPT ![c] = kept[c] \cup {k}]
         \/ ~PIDAlive(got[c].server) /\ pc' = [pc EXCEPT ![c] = "remove"] /\ kept' = kept
  BY DEF ScanCheck, claiming
<1>2. \/ /\ PIDAlive(got[c].server) /\ pc'[c] = "scan" /\ k \in kept'[c]
         /\ kept[c] \subseteq kept'[c]
      \/ ~PIDAlive(got[c].server) /\ pc'[c] = "remove" /\ kept'[c] = kept[c]
  BY <1>1 DEF IInv, CallsOK, TInv, KindsOK
<1>3. k.server = got[c].server
  OBVIOUS
<1> HIDE DEF k
<1>4. ASSUME NEW q \in steady'[c] PROVE Alive(entry[q])' /\ Covered(c, q)'
  <2>1. Alive(entry[q]) /\ Covered(c, q)
    BY <1>1, <1>4 DEF ScanInv, ScanOf, ScanSteps
  <2>2. Alive(entry[q])'
    BY <1>1, <2>1 DEF Alive
  <2>3. CASE q \in todo[c]
    BY <1>1, <1>2, <2>2, <2>3 DEF Covered
  <2>5. CASE Found(c, entry[q].server)
    <3>1. \E l \in kept'[c] : l.server = entry'[q].server
      BY <1>1, <1>2, <2>5 DEF Found
    <3> QED BY <2>2, <3>1 DEF Covered, Found
  <2>4. CASE got[c].server = entry[q].server
    <3>1. PIDAlive(got[c].server)
      BY <2>1, <2>4, ConstantsAre DEF Alive, PIDAlive, LiveConstants
    <3>2. k \in kept'[c] /\ k.server = entry'[q].server
      BY <1>1, <1>2, <1>3, <2>4, <3>1
    <3> QED BY <2>2, <3>2 DEF Covered, Found
  <2> QED BY <2>1, <2>3, <2>4, <2>5 DEF Covered
<1>5. pc'[c] = "remove" /\ got'[c].server \in Servers => up'[got'[c].server] = "gone"
  <2> SUFFICES ASSUME pc'[c] = "remove", got[c].server \in Servers
               PROVE  up[got[c].server] = "gone"
    BY <1>1
  <2>1. up[got[c].server] # "up" /\ up[got[c].server] # "new"
    BY <1>2, ConstantsAre DEF PIDAlive, LiveConstants, ScanInv, StampsOK, Stamped
  <2> QED BY <2>1 DEF IInv, FilesOK
<1>6. ScanOf(c)'
  BY <1>2, <1>4, <1>5 DEF ScanOf
<1>7. \A d \in Channels : d # c => pc'[d] = pc[d] /\ kept'[d] = kept[d]
  BY <1>1 DEF IInv, CallsOK, TInv, KindsOK
<1>8. Stamped(up, got'[c])
  BY <1>1 DEF ScanInv, StampsOK
<1> QED BY <1>1, <1>6, <1>7, <1>8, OthersScan

LEMMA ScanEndScans ==
  ASSUME LiveConstants, IInv, TInv, ScanInv, NEW c \in Channels, ScanDone(c) \/ ScanUsed(c)
  PROVE  ScanInv'
<1>1. /\ UNCHANGED <<entry, up, todo, room, got>>
      /\ \/ /\ todo[c] = {} /\ pc[c] = "scan" /\ pc' = [pc EXCEPT ![c] = "listed"]
            /\ kept' = kept /\ steady' = steady
            /\ pages' = [pages EXCEPT ![c] = Newest(kept[c])]
         \/ /\ pc' = [pc EXCEPT ![c] = "idle"] /\ pages' = [pages EXCEPT ![c] = {}]
            /\ kept' = [kept EXCEPT ![c] = {}] /\ steady' = [steady EXCEPT ![c] = {}]
  BY DEF ScanDone, ScanUsed, Step, claiming
<1>2. ScanOf(c)'
  <2>1. CASE pc' = [pc EXCEPT ![c] = "listed"]
    <3>1. todo[c] = {} /\ pc[c] = "scan" /\ kept' = kept /\ steady' = steady
          /\ pages' = [pages EXCEPT ![c] = Newest(kept[c])] /\ pc'[c] = "listed"
      BY <1>1, <2>1 DEF IInv, CallsOK
    <3>2. pages'[c] = Newest(kept'[c])
      BY <3>1 DEF TInv, KindsOK
    <3>3. ASSUME NEW q \in steady'[c] PROVE Alive(entry[q])' /\ Covered(c, q)'
      <4>1. Alive(entry[q]) /\ Covered(c, q)
        BY <3>1, <3>3 DEF ScanInv, ScanOf, ScanSteps
      <4> QED BY <1>1, <3>1, <4>1 DEF Alive, Covered, Found
    <3> QED BY <3>1, <3>2, <3>3 DEF ScanOf, Newest
  <2>2. CASE pc' = [pc EXCEPT ![c] = "idle"]
    <3>1. pc'[c] = "idle" /\ steady'[c] = {}
      BY <1>1, <2>2 DEF IInv, CallsOK, TInv, KindsOK
    <3> QED BY <3>1 DEF ScanOf, ScanSteps
  <2> QED BY <1>1, <2>1, <2>2
<1>3. \A d \in Channels : d # c => pc'[d] = pc[d] /\ kept'[d] = kept[d] /\ steady'[d] = steady[d]
  BY <1>1 DEF IInv, CallsOK, TInv, KindsOK
<1>4. \A d \in Channels : d # c => pages'[d] = pages[d]
  BY <1>1 DEF TInv, KindsOK
<1>5. Stamped(up, got'[c])
  BY <1>1 DEF ScanInv, StampsOK
<1> QED BY <1>1, <1>2, <1>3, <1>4, <1>5, OthersScan

LEMMA ScanStep ==
  ASSUME LiveConstants, IInv, TInv, ScanInv, [LiveNext]_liveVars PROVE ScanInv'
<1>1. CASE UNCHANGED liveVars
  BY <1>1 DEF liveVars, claiming, scanning, ScanInv, StampsOK, Stamped, ScanOf, Alive,
              Covered, Found, Newest
<1>2. ASSUME NEW s \in Servers, ServerStep(s) PROVE ScanInv'
  BY <1>2, WriteScans, LeaveScans DEF ServerStep
<1>3. ASSUME NEW c \in Channels, ChannelStep(c) PROVE ScanInv'
  BY <1>3, ClaimScans, ClaimWriteScans, GlobScans, ScanReadScans, ScanCheckScans,
     ScanReapScans, ScanEndScans DEF ChannelStep, Claiming, Inspecting
<1> QED BY <1>1, <1>2, <1>3 DEF LiveNext

LEMMA LeastOf ==
  ASSUME NEW T, T \subseteq Nat, T # {} PROVE \E m \in T : \A n \in T : m <= n
<1> DEFINE Below == OpToRel(<, Nat)
<1>1. IsWellFoundedOn(Below, Nat)
  BY NatLessThanWellFounded
<1>2. \A m, n \in Nat : m < n => <<m, n>> \in Below
  BY DEF OpToRel
<1> HIDE DEF Below
<1>3. PICK m \in T : \A n \in T : ~(<<n, m>> \in Below)
  BY <1>1, WFMin
<1>4. ASSUME NEW n \in T PROVE m <= n
  <2>1. ~(n < m)
    BY <1>2, <1>3
  <2> QED BY <2>1
<1> QED BY <1>4

\* The newest candidate of a server is among the newest.
LEMMA NewestFinds ==
  ASSUME LiveConstants, NEW K \in SUBSET Candidate, NEW k \in K
  PROVE  \E l \in Newest(K) : l.server = k.server
<1> DEFINE Last == MaxWrites + MaxClaims + 1
           Same == {l \in K : l.server = k.server}
           Ages == {Last - l.at : l \in Same}
<1>1. \A l \in K : l.at \in 0..Last
  BY DEF Candidate, Dates
<1>2. Last \in Nat
  BY BoundsAre
<1> HIDE DEF Last
<1>3. ASSUME NEW x \in 0..Last PROVE Last - x \in Nat
  BY <1>2, <1>3
<1>4. Ages \subseteq Nat /\ Ages # {}
  BY <1>1, <1>3
<1>5. PICK m \in Ages : \A n \in Ages : m <= n
  BY <1>4, LeastOf
<1>6. PICK l \in Same : m = Last - l.at
  BY <1>5
<1>7. ASSUME NEW j \in K, j.server = l.server PROVE j.at <= l.at
  <2>1. j \in Same
    BY <1>6, <1>7
  <2>2. Last - j.at \in Ages
    BY <2>1
  <2>3. Last - l.at <= Last - j.at
    BY <1>5, <1>6, <2>2
  <2>4. j.at \in 0..Last /\ l.at \in 0..Last
    BY <1>1, <1>6
  <2> HIDE DEF Ages, Same
  <2> QED BY <1>2, <2>3, <2>4
<1> QED BY <1>6, <1>7 DEF Newest

\* What Inspect returns has every page whose entry nobody removed or gave to another
\* server, and whose server lived, from its Glob to its return: no other process's
\* start, exit, death, Claim or reap hides a page (Inspect, List, removeByName).
THEOREM ScanFinds == ASSUME LiveConstants PROVE LiveSpec => []ScanFindsTheSteady
<1>1. LiveInit => IInv /\ TInv /\ ScanInv
  BY InitKeeps, TypesStart, ScanStart
<1>2. (IInv /\ TInv /\ ScanInv) /\ [LiveNext]_liveVars => (IInv /\ TInv /\ ScanInv)'
  BY LiveStep, TypesStep, ScanStep
<1>3. IInv /\ TInv /\ ScanInv => ScanFindsTheSteady
  <2> SUFFICES ASSUME TInv, ScanInv, NEW c \in Channels, pc[c] = "listed",
                      NEW r \in steady[c]
               PROVE  \E k \in pages[c] : k.server = entry[r].server
    BY DEF ScanFindsTheSteady
  <2>1. Covered(c, r) /\ pages[c] = Newest(kept[c])
    BY DEF ScanInv, ScanOf, ScanSteps
  <2>2. Found(c, entry[r].server)
    BY <2>1 DEF Covered
  <2>3. kept[c] \in SUBSET Candidate
    BY DEF TInv, KindsOK
  <2> QED BY <2>1, <2>2, <2>3, NewestFinds DEF Found
<1> QED BY <1>1, <1>2, <1>3, PTL DEF LiveSpec
================================================================================
