-------------------------------- MODULE MCFiles --------------------------------
(***************************************************************************)
(* Small instances of the components whose processes share files and       *)
(* nothing else, one of them at a time: the others keep still.             *)
(* LiveEntries comes in two sizes of its constants, one about claims and   *)
(* one about scans.                                                        *)
(***************************************************************************)
EXTENDS LiveEntries, Tabs, SignIn, Migrate, KeptToken, Update, Skills, TLC

CONSTANTS c1, c2, c3, s1, s2, v1, v2, v3, r1, r2

SessionOf_3 == c1 :> s1 @@ c2 :> s2 @@ c3 :> s1

\* A build that knows one migration, and two that know both.
OneOldBuild == 1 :> 1 @@ 2 :> 2 @@ 3 :> 2

VARIABLE part

\* The sizes are ones each component's definitions are meant for.
ASSUME FilesAssumption ==
  /\ LiveConstants /\ TabsConstants /\ SignInConstants /\ MigrateConstants /\ TokensApart
  /\ UpdateConstants /\ SkillsConstants

vars == <<part, liveVars, tabsVars, signInVars, migrateVars, keptVars, updateVars, skillVars>>

AtMostOne(S) == \A a, b \in S : a = b

\* Claims: one page, servers of this build, no scan.
ClaimsSize ==
  /\ entry[r2] = NoEntry /\ lockFile[r2] = 0 /\ writes <= 2
  /\ up[v3] = "new" /\ scans = 0

\* Scans: one channel, one server of this build and one of a newer, no claim.
ScansSize ==
  /\ claims = 0 /\ \A r \in Rooms : entry[r].owner # s2
  /\ up[c2] = "new" /\ AtMostOne({c \in {c1, c3} : up[c] # "new"})
  /\ AtMostOne({v \in {v1, v2} : up[v] # "new"})

\* Where a component that keeps still could begin in several ways, one is taken.
Init ==
  /\ part \in {"claims", "scans", "windows", "account", "schema", "kept", "release",
               "installed"}
  /\ LiveInit /\ room[c1] = r1
  /\ TabsInit /\ SignInInit
  /\ MigrateInit /\ (part # "schema" => wal /\ tables)
  /\ KeptInit /\ (part # "kept" => keptToken = None)
  /\ UpdateInit /\ (part # "release" => latest = 1 /\ exe = 1)
  /\ SkillsInit /\ (part # "installed" => name[1] = 0 /\ \A d \in {0, 1} : skill[d] = "old")

EntriesStill == UNCHANGED <<part, liveVars>>
OthersStill  ==
  UNCHANGED <<part, tabsVars, signInVars, migrateVars, keptVars, updateVars, skillVars>>

Next ==
  \/ part = "claims" /\ LiveNext /\ ClaimsSize' /\ OthersStill
  \/ part = "scans" /\ LiveNext /\ ScansSize' /\ OthersStill
  \/ part = "windows" /\ TabsNext /\ EntriesStill
     /\ UNCHANGED <<signInVars, migrateVars, keptVars, updateVars, skillVars>>
  \/ part = "account" /\ SignInNext /\ EntriesStill
     /\ UNCHANGED <<tabsVars, migrateVars, keptVars, updateVars, skillVars>>
  \/ part = "schema" /\ MigrateNext /\ EntriesStill
     /\ UNCHANGED <<tabsVars, signInVars, keptVars, updateVars, skillVars>>
  \/ part = "kept" /\ KeptNext /\ EntriesStill
     /\ UNCHANGED <<tabsVars, signInVars, migrateVars, updateVars, skillVars>>
  \/ part = "release" /\ UpdateNext /\ EntriesStill
     /\ UNCHANGED <<tabsVars, signInVars, migrateVars, keptVars, skillVars>>
  \/ part = "installed" /\ SkillsNext /\ EntriesStill
     /\ UNCHANGED <<tabsVars, signInVars, migrateVars, keptVars, updateVars>>

Spec == Init /\ [][Next]_vars

\* v1 and v2 are alike, and c1 and c3, of one session.
Alike == Permutations({v1, v2}) \cup Permutations({c1, c3})
===============================================================================
