-------------------------------- MODULE Update --------------------------------
(***************************************************************************)
(* selfupdate.go with auth.Link: `<tool> update' run by several processes  *)
(* while the site publishes.  Each of the three downloads is a step, and   *)
(* may fail or bring other bytes than the release's; so are the write of   *)
(* the staged file and its rename over the binary.                         *)
(*                                                                         *)
(* A release is its number, and the bytes and sum of release v are v; 0 is *)
(* bytes that are no release's, and an empty sum.                          *)
(***************************************************************************)
EXTENDS Integers

CONSTANTS
  Updaters,
  MaxRelease,   \* bound: releases
  MaxRuns       \* bound: updates run

\* What a theorem here assumes of them; each instance is checked to meet it.
UpdateConstants == MaxRelease \in Nat \ {0} /\ MaxRuns \in Nat

VARIABLES
  latest,            \* the release <name>/latest names
  exe,               \* what the binary holds: a release, or 0
  staged,            \* each process's .<name>.new.<pid>, NoFile for none
  updating, current, want, asset, sum,   \* each SelfUpdate: its step and locals
  runs

updateVars == <<latest, exe, staged, updating, current, want, asset, sum, runs>>

Releases == 1..MaxRelease
Bytes == 0..MaxRelease
NoFile == -1
UpdateSteps == {"idle", "latest", "asset", "sum", "verify", "stage", "rename"}

UpdateInit ==
  /\ latest \in Releases /\ exe \in Releases
  /\ staged = [p \in Updaters |-> NoFile]
  /\ updating = [p \in Updaters |-> "idle"]
  /\ current = [p \in Updaters |-> 0] /\ want = [p \in Updaters |-> 0]
  /\ asset = [p \in Updaters |-> 0] /\ sum = [p \in Updaters |-> 0]
  /\ runs = 0

Publish ==
  /\ latest < MaxRelease /\ latest' = latest + 1
  /\ UNCHANGED <<exe, staged, updating, current, want, asset, sum, runs>>

UpdateGoes(p, from, to) == updating[p] = from /\ updating' = [updating EXCEPT ![p] = to]

UpdateEnds(p) ==
  /\ updating' = [updating EXCEPT ![p] = "idle"]
  /\ current' = [current EXCEPT ![p] = 0] /\ want' = [want EXCEPT ![p] = 0]
  /\ asset' = [asset EXCEPT ![p] = 0] /\ sum' = [sum EXCEPT ![p] = 0]

\* A process of the binary there is.
UpdateBegins(p) ==
  /\ UpdateGoes(p, "idle", "latest") /\ runs < MaxRuns /\ runs' = runs + 1
  /\ current' = [current EXCEPT ![p] = exe]
  /\ UNCHANGED <<latest, exe, staged, want, asset, sum>>

\* A download refused (no sign-in, no link, no such file) or cut off ends it.
DownloadFails(p) ==
  /\ updating[p] \in {"latest", "asset", "sum"} /\ UpdateEnds(p)
  /\ UNCHANGED <<latest, exe, staged, runs>>

\* fetchLatest: the version it is, or another.
FetchLatest(p) ==
  /\ updating[p] = "latest"
  /\ \/ latest = current[p] /\ UpdateEnds(p)
     \/ latest # current[p] /\ UpdateGoes(p, "latest", "asset")
        /\ want' = [want EXCEPT ![p] = latest] /\ UNCHANGED <<current, asset, sum>>
  /\ UNCHANGED <<latest, exe, staged, runs>>

FetchAsset(p) ==
  /\ UpdateGoes(p, "asset", "sum")
  /\ \E b \in {want[p], 0} : asset' = [asset EXCEPT ![p] = b]
  /\ UNCHANGED <<latest, exe, staged, current, want, sum, runs>>

FetchSum(p) ==
  /\ UpdateGoes(p, "sum", "verify")
  /\ \E s \in {want[p], 0} : sum' = [sum EXCEPT ![p] = s]
  /\ UNCHANGED <<latest, exe, staged, current, want, asset, runs>>

OpenMatches(p) == sum[p] # 0 => sum[p] = asset[p]   \* mutant: no sum is no complaint
Matches(p) == sum[p] # 0 /\ sum[p] = asset[p]

\* The checksum, then the binary out of the asset.
Verify(p) ==
  /\ updating[p] = "verify"
  /\ \/ Matches(p) /\ UpdateGoes(p, "verify", "stage") /\ UNCHANGED <<current, want, asset, sum>>
     \/ ~Matches(p) /\ UpdateEnds(p)
  /\ UNCHANGED <<latest, exe, staged, runs>>

\* WriteFile of the staged file: whole, or begun and removed as it failed.
Stage(p) ==
  /\ updating[p] = "stage"
  /\ \/ /\ staged[p] # 0 /\ staged' = [staged EXCEPT ![p] = 0]
        /\ UNCHANGED <<updating, current, want, asset, sum>>
     \/ /\ staged[p] = 0 /\ UpdateGoes(p, "stage", "rename")
        /\ staged' = [staged EXCEPT ![p] = asset[p]]
        /\ UNCHANGED <<current, want, asset, sum>>
     \/ staged[p] = 0 /\ staged' = [staged EXCEPT ![p] = NoFile] /\ UpdateEnds(p)
  /\ UNCHANGED <<latest, exe, runs>>

\* Rename, or chmod or rename fails and the staged file goes.
RenameStaged(p) ==
  /\ updating[p] = "rename" /\ UpdateEnds(p)
  /\ exe' \in {staged[p], exe}
  /\ staged' = [staged EXCEPT ![p] = NoFile]
  /\ UNCHANGED <<latest, runs>>

\* The process dies; what it staged stays.
Dies(p) ==
  /\ updating[p] # "idle" /\ UpdateEnds(p)
  /\ UNCHANGED <<latest, exe, staged, runs>>

UpdateNext ==
  \/ Publish
  \/ \E p \in Updaters :
       \/ UpdateBegins(p) \/ DownloadFails(p) \/ FetchLatest(p) \/ FetchAsset(p) \/ FetchSum(p)
       \/ Verify(p) \/ Stage(p) \/ RenameStaged(p) \/ Dies(p)

UpdateSpec == UpdateInit /\ [][UpdateNext]_updateVars

--------------------------------------------------------------------------------

\* The binary, the staged files and each update's locals of their kind.
UpdateTypeOK ==
  /\ latest \in Releases /\ exe \in Bytes
  /\ staged \in [Updaters -> {NoFile} \cup Bytes]
  /\ updating \in [Updaters -> UpdateSteps]
  /\ \A local \in {current, want, asset, sum} : local \in [Updaters -> Bytes]
  /\ runs \in 0..MaxRuns

\* The binary is one whole release at every moment, whatever the site served,
\* whenever it published and wherever updates died or ran side by side.
WholeRelease == exe \in Releases
===============================================================================
