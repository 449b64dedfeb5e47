------------------------------ MODULE FilesProofs ------------------------------
(***************************************************************************)
(* Proofs about the components whose processes share files, for any number *)
(* of processes and steps: KeptToken, Migrate, Update and SignIn, in this  *)
(* order.                                                                  *)
(***************************************************************************)
EXTENDS KeptToken, Migrate, Update, SignIn, TLAPS

--------------------------------------------------------------------------------
(* Proofs about KeptToken for any sets of takers and tokens.  While there  *)
(* has been no crowd, one taker at most is to replace the file, which then *)
(* holds no token: none was returned that the one written would betray.    *)

\* Past the temporary file a taker has its token whole.
HasToken ==
  \A p \in Takers : taking[p] \in {"link", "read again", "write", "rename"} => temp[p] \in Tokens

\* The tokens returned are the one in the file, and it is replaced only if none.
Clean ==
  /\ \A t \in given : t = keptToken
  /\ \A p \in Takers : taking[p] \in {"write", "rename"} => keptToken \notin Tokens

\* KeptTokenTypeOK without the history of crowds.
KeptCallsTypeOK ==
  /\ keptToken \in {None, Junk} \cup Tokens /\ drawn \subseteq Tokens
  /\ temp \in [Takers -> {None, Junk} \cup Tokens]
  /\ taking \in [Takers -> TakerSteps] /\ answer \in [Takers -> {None} \cup Tokens]
  /\ given \subseteq Tokens

\* What a step keeps: the types at once, and the rest unless there was a crowd.
CallsWell == KeptCallsTypeOK /\ HasToken

KeptIInv == CallsWell /\ crowded \in BOOLEAN /\ (Crowd => crowded) /\ (~crowded => Clean)

LEMMA KeptInitKeeps == ASSUME TokensApart, KeptInit PROVE KeptIInv
<1>1. CallsWell /\ Clean
  BY DEF TokensApart, KeptInit, CallsWell, KeptCallsTypeOK, TakerSteps, HasToken, Clean
<1>2. crowded = FALSE /\ ~Crowd
  BY DEF KeptInit, Crowd
<1> QED BY <1>1, <1>2 DEF KeptIInv

--------------------------------------------------------------------------------
(* One lemma for each step of a taker.                                      *)

LEMMA KeptGoMoves ==
  ASSUME KeptCallsTypeOK, NEW p \in Takers, NEW from, NEW to \in TakerSteps, TakerGoes(p, from, to)
  PROVE  /\ taking' \in [Takers -> TakerSteps] /\ taking[p] = from /\ taking'[p] = to
         /\ \A q \in Takers : q # p => taking'[q] = taking[q]
  BY DEF KeptCallsTypeOK, TakerGoes

LEMMA ReturnGives ==
  ASSUME KeptCallsTypeOK, NEW p \in Takers, NEW from, NEW t \in Tokens, Returns(p, from, t)
  PROVE  /\ answer' \in [Takers -> {None} \cup Tokens] /\ given' \subseteq Tokens
         /\ given' = given \cup {t} /\ TakerGoes(p, from, "returned")
  BY DEF KeptCallsTypeOK, Returns

LEMMA KeptStepNames ==
  /\ "make" \in TakerSteps /\ "link" \in TakerSteps
  /\ "read again" \in TakerSteps /\ "write" \in TakerSteps
  /\ "rename" \in TakerSteps /\ "returned" \in TakerSteps /\ "failed" \in TakerSteps
  BY DEF TakerSteps

\* Two that would write the file are a crowd: elsewhere one is alone with it.
LEMMA AloneWrites ==
  ASSUME ~Crowd, NEW p \in Takers, taking[p] \in {"link", "write", "rename"}
  PROVE  \A q \in Takers : q # p => taking[q] \notin {"write", "rename"}
  BY DEF Crowd

LEMMA KeptReadKeeps ==
  ASSUME TokensApart, CallsWell, NEW p \in Takers, Read(p) \/ ReadAgain(p)
  PROVE  CallsWell' /\ (Clean => Clean')
<1>0. UNCHANGED <<keptToken, drawn, temp>> /\ KeptCallsTypeOK /\ HasToken
  BY DEF Read, ReadAgain, CallsWell
<1>1. ASSUME NEW from, IsToken, Returns(p, from, keptToken)
      PROVE  CallsWell' /\ (Clean => Clean')
  <2>1. /\ answer' \in [Takers -> {None} \cup Tokens] /\ given' \subseteq Tokens
        /\ given' = given \cup {keptToken} /\ TakerGoes(p, from, "returned")
    BY <1>0, <1>1, ReturnGives DEF IsToken
  <2>2. /\ taking' \in [Takers -> TakerSteps] /\ taking'[p] = "returned"
        /\ \A q \in Takers : q # p => taking'[q] = taking[q]
    BY <1>0, <2>1, KeptGoMoves, KeptStepNames
  <2> QED BY <1>0, <2>1, <2>2 DEF CallsWell, KeptCallsTypeOK, HasToken, Clean
<1>2. ASSUME TakerGoes(p, "read", "make"), UNCHANGED <<answer, given>>
      PROVE  CallsWell' /\ (Clean => Clean')
  <2>1. /\ taking' \in [Takers -> TakerSteps] /\ taking'[p] = "make"
        /\ \A q \in Takers : q # p => taking'[q] = taking[q]
    BY <1>0, <1>2, KeptGoMoves, KeptStepNames
  <2> QED BY <1>0, <1>2, <2>1 DEF CallsWell, KeptCallsTypeOK, HasToken, Clean
<1>3. ASSUME ~IsToken, TakerGoes(p, "read again", "write"), UNCHANGED <<answer, given>>
      PROVE  CallsWell' /\ (Clean => Clean')
  <2>1. /\ taking' \in [Takers -> TakerSteps] /\ taking[p] = "read again" /\ taking'[p] = "write"
        /\ \A q \in Takers : q # p => taking'[q] = taking[q]
    BY <1>0, <1>3, KeptGoMoves, KeptStepNames
  <2> QED BY <1>0, <1>3, <2>1 DEF CallsWell, KeptCallsTypeOK, HasToken, Clean, IsToken
<1> QED BY <1>1, <1>2, <1>3 DEF Read, ReadAgain

LEMMA MakeKeeps ==
  ASSUME TokensApart, CallsWell, NEW p \in Takers, Make(p)
  PROVE  CallsWell' /\ (Clean => Clean')
<1>0. /\ UNCHANGED <<keptToken, answer, given>> /\ taking[p] = "make"
      /\ KeptCallsTypeOK /\ HasToken
  BY DEF Make, CallsWell
<1>1. ASSUME temp' = [temp EXCEPT ![p] = Junk], UNCHANGED <<drawn, taking>>
      PROVE  CallsWell' /\ (Clean => Clean')
  BY <1>0, <1>1 DEF CallsWell, KeptCallsTypeOK, HasToken, Clean
<1>2. ASSUME NEW t \in Tokens \ drawn, temp' = [temp EXCEPT ![p] = t], drawn' = drawn \cup {t},
             TakerGoes(p, "make", "link")
      PROVE  CallsWell' /\ (Clean => Clean')
  <2>1. /\ taking' \in [Takers -> TakerSteps] /\ taking'[p] = "link"
        /\ \A q \in Takers : q # p => taking'[q] = taking[q]
    BY <1>0, <1>2, KeptGoMoves, KeptStepNames
  <2> QED BY <1>0, <1>2, <2>1 DEF CallsWell, KeptCallsTypeOK, HasToken, Clean
<1> QED BY <1>1, <1>2 DEF Make

\* A token is put where none stood, by the only one that could.
LEMMA OneWrites ==
  ASSUME TokensApart, CallsWell, NEW p \in Takers, NEW from \in {"link", "rename"},
         Returns(p, from, temp[p]), keptToken' = temp[p], UNCHANGED <<drawn, temp>>,
         from = "link" => keptToken \notin Tokens
  PROVE  CallsWell' /\ (~Crowd /\ Clean => Clean')
<1>1. KeptCallsTypeOK /\ HasToken /\ taking[p] = from
  BY DEF CallsWell, Returns, TakerGoes
<1>2. temp[p] \in Tokens
  BY <1>1 DEF HasToken
<1>3. /\ answer' \in [Takers -> {None} \cup Tokens] /\ given' \subseteq Tokens
      /\ given' = given \cup {temp[p]} /\ TakerGoes(p, from, "returned")
  BY <1>1, <1>2, ReturnGives
<1>4. /\ taking' \in [Takers -> TakerSteps] /\ taking'[p] = "returned"
      /\ \A q \in Takers : q # p => taking'[q] = taking[q]
  BY <1>1, <1>3, KeptGoMoves, KeptStepNames
<1>5. CallsWell'
  BY <1>1, <1>2, <1>3, <1>4 DEF CallsWell, KeptCallsTypeOK, HasToken
<1>6. ASSUME ~Crowd, Clean PROVE Clean'
  <2>1. keptToken \notin Tokens
    BY <1>1, <1>6 DEF Clean
  <2>2. given = {}
    BY <1>1, <1>6, <2>1 DEF Clean, KeptCallsTypeOK
  <2>3. \A q \in Takers : taking'[q] \notin {"write", "rename"}
    BY <1>1, <1>4, <1>6, AloneWrites
  <2> QED BY <1>3, <2>2, <2>3 DEF Clean
<1> QED BY <1>5, <1>6

LEMMA LinkKeeps ==
  ASSUME TokensApart, CallsWell, NEW p \in Takers, Link(p)
  PROVE  CallsWell' /\ (~Crowd /\ Clean => Clean')
<1>0. UNCHANGED <<drawn, temp>> /\ KeptCallsTypeOK /\ HasToken
  BY DEF Link, CallsWell
<1>1. ASSUME LinkFits(p), keptToken' = temp[p], Returns(p, "link", temp[p])
      PROVE  CallsWell' /\ (~Crowd /\ Clean => Clean')
  BY <1>0, <1>1, OneWrites DEF LinkFits, TokensApart
<1>2. ASSUME TakerGoes(p, "link", "read again"), UNCHANGED <<keptToken, answer, given>>
      PROVE  CallsWell' /\ (~Crowd /\ Clean => Clean')
  <2>1. /\ taking' \in [Takers -> TakerSteps] /\ taking[p] = "link" /\ taking'[p] = "read again"
        /\ \A q \in Takers : q # p => taking'[q] = taking[q]
    BY <1>0, <1>2, KeptGoMoves, KeptStepNames
  <2> QED BY <1>0, <1>2, <2>1 DEF CallsWell, KeptCallsTypeOK, HasToken, Clean
<1> QED BY <1>1, <1>2 DEF Link

LEMMA KeptWriteKeeps ==
  ASSUME TokensApart, CallsWell, NEW p \in Takers, WriteTemp(p) \/ RenameTemp(p)
  PROVE  CallsWell' /\ (~Crowd /\ Clean => Clean')
<1>0. KeptCallsTypeOK /\ HasToken
  BY DEF CallsWell
<1>1. CASE WriteTemp(p)
  <2>0. UNCHANGED <<keptToken, drawn, temp, answer, given>> /\ TakerGoes(p, "write", "rename")
    BY <1>1 DEF WriteTemp
  <2>1. /\ taking' \in [Takers -> TakerSteps] /\ taking[p] = "write" /\ taking'[p] = "rename"
        /\ \A q \in Takers : q # p => taking'[q] = taking[q]
    BY <1>0, <2>0, KeptGoMoves, KeptStepNames
  <2> QED BY <1>0, <2>0, <2>1 DEF CallsWell, KeptCallsTypeOK, HasToken, Clean
<1>2. CASE RenameTemp(p)
  BY <1>2, OneWrites DEF RenameTemp
<1> QED BY <1>1, <1>2

LEMMA TakerEndKeeps ==
  ASSUME TokensApart, CallsWell, NEW p \in Takers, TakerFails(p) \/ TakesAgain(p)
  PROVE  CallsWell' /\ (Clean => Clean')
  BY DEF TokensApart, CallsWell, KeptCallsTypeOK, TakerSteps, HasToken, Clean, TakerGoes,
         TakerFails, TakesAgain

LEMMA KeptStep == ASSUME TokensApart, KeptIInv, [KeptNext]_keptVars PROVE KeptIInv'
<1>0. CallsWell /\ crowded \in BOOLEAN /\ (Crowd => crowded) /\ (~crowded => Clean)
  BY DEF KeptIInv
<1>1. CASE UNCHANGED keptVars
  BY <1>0, <1>1 DEF KeptIInv, keptVars, CallsWell, KeptCallsTypeOK, HasToken, Crowd, Clean
<1>2. CASE KeptNext
  <2>1. PICK p \in Takers : Takes(p)
    BY <1>2 DEF KeptNext
  <2>2. CallsWell' /\ (~Crowd /\ Clean => Clean')
    BY <1>0, <2>1, KeptReadKeeps, MakeKeeps, LinkKeeps, KeptWriteKeeps, TakerEndKeeps DEF Takes
  <2>3. crowded' = (crowded \/ Crowd')
    BY <1>2 DEF KeptNext
  <2>4. crowded' \in BOOLEAN /\ (Crowd' => crowded') /\ (crowded => crowded')
    BY <1>0, <2>3 DEF Crowd
  <2> QED BY <1>0, <2>2, <2>4 DEF KeptIInv
<1> QED BY <1>1, <1>2

--------------------------------------------------------------------------------

\* keptToken's locals and files stay what they are, for any takers and tokens.
THEOREM KeptTypeCorrect == ASSUME TokensApart PROVE KeptSpec => []KeptTokenTypeOK
<1>1. KeptInit => KeptIInv BY KeptInitKeeps
<1>2. KeptIInv /\ [KeptNext]_keptVars => KeptIInv' BY KeptStep
<1>3. KeptIInv => KeptTokenTypeOK BY DEF KeptIInv, CallsWell, KeptCallsTypeOK, KeptTokenTypeOK
<1> QED BY <1>1, <1>2, <1>3, PTL DEF KeptSpec

\* keptToken: one token for all takers, however many race, die and call again and
\* whether or not the disk makes links, unless there was a crowd.
THEOREM OneTokenHolds == ASSUME TokensApart PROVE KeptSpec => []OneTokenForAll
<1>1. KeptInit => KeptIInv BY KeptInitKeeps
<1>2. KeptIInv /\ [KeptNext]_keptVars => KeptIInv' BY KeptStep
<1>3. KeptIInv => OneTokenForAll BY DEF KeptIInv, Clean, OneTokenForAll
<1> QED BY <1>1, <1>2, <1>3, PTL DEF KeptSpec

--------------------------------------------------------------------------------
(* Proofs about Migrate for any processes, builds and number of faults.    *)
(* The invariant is what the write lock gives: who is in a transaction     *)
(* holds it, and the version it read is the file's until it commits.       *)

\* The file: every step up to its version, once and in order.
StepsOnce == version \in Nat /\ applied = [i \in 1..version |-> i]

\* A transaction holds the lock and knows the version; one that ran its step has
\* a step to run.
TxKnows ==
  \A p \in Procs :
    opening[p] = "tx" =>
           /\ lock = p /\ have[p] = version /\ version \in Versions
           /\ ran[p] = TRUE => have[p] < Known[p]

\* Past the switch the file is in WAL mode; who opened it found its own steps.
OpenKnows ==
  \A p \in Procs :
    /\ opening[p] \in Connected \cup {"open"} => wal = TRUE
    /\ opening[p] = "open" => Known[p] <= version

MigrateIInv == MigrateTypeOK /\ StepsOnce /\ TxKnows /\ OpenKnows

LEMMA VersionsAre ==
  ASSUME MigrateConstants PROVE
    /\ Versions \subseteq Nat /\ 0 \in Versions
    /\ \A p \in Procs, n \in Nat : n < Known[p] => n + 1 \in Versions
<1>1. \A p \in Procs : Known[p] \in Nat
  BY DEF MigrateConstants
<1>2. PICK p \in Procs : TRUE
  BY DEF MigrateConstants
<1>3. 0 \in 0..Known[p]
  BY <1>1
<1>4. \A q \in Procs, n \in Nat : n < Known[q] => n + 1 \in 0..Known[q]
  BY <1>1
<1> QED BY <1>1, <1>2, <1>3, <1>4 DEF Versions

LEMMA MigrateInitKeeps == ASSUME MigrateConstants, MigrateInit PROVE MigrateIInv
<1> USE VersionsAre
<1>1. version \in Versions
  BY DEF MigrateInit
<1>2. \A i \in 1..version : i \in Versions
  <2>1. PICK p \in Procs : version \in 0..Known[p]
    BY <1>1 DEF Versions
  <2>2. \A i \in 1..version : i \in 0..Known[p]
    BY <2>1 DEF MigrateConstants
  <2> QED BY <2>2 DEF Versions
<1>3. applied \in Seq(Versions)
  BY <1>1, <1>2 DEF MigrateInit
<1>4. MigrateTypeOK
  BY <1>1, <1>3 DEF MigrateInit, MigrateConstants, MigrateTypeOK
<1>5. StepsOnce /\ TxKnows /\ OpenKnows
  BY <1>1 DEF MigrateInit, StepsOnce, TxKnows, OpenKnows, Connected
<1> QED BY <1>4, <1>5 DEF MigrateIInv

--------------------------------------------------------------------------------
(* Steps that leave the version and what was applied as they are.           *)

LEMMA MigrateGoMoves ==
  ASSUME MigrateTypeOK, NEW p \in Procs, NEW from,
         NEW to \in {"new", "migrate", "tx", "open", "failed"}, OpenGoes(p, from, to)
  PROVE  /\ opening' \in [Procs -> {"new", "migrate", "tx", "open", "failed"}]
         /\ opening[p] = from /\ opening'[p] = to
         /\ \A q \in Procs : q # p => opening'[q] = opening[q]
  BY DEF MigrateTypeOK, OpenGoes

\* Nobody else is in a transaction while one is, or begins.
LEMMA OneTx ==
  ASSUME MigrateConstants, MigrateIInv, NEW p \in Procs, opening[p] = "tx" \/ lock = NoProc
  PROVE  \A q \in Procs : q # p => opening[q] # "tx"
  BY DEF MigrateConstants, MigrateIInv, TxKnows

LEMMA ReleasedType ==
  ASSUME MigrateTypeOK, NEW p \in Procs PROVE LockAfter(p) \in Procs \cup {NoProc}
  BY DEF MigrateTypeOK, LockAfter

LEMMA EnableKeeps ==
  ASSUME MigrateConstants, MigrateIInv, NEW p \in Procs, EnableWAL(p) PROVE MigrateIInv'
<1>1. /\ opening' \in [Procs -> {"new", "migrate", "tx", "open", "failed"}]
      /\ opening[p] = "new" /\ opening'[p] = "migrate"
      /\ \A q \in Procs : q # p => opening'[q] = opening[q]
  BY MigrateGoMoves DEF EnableWAL, MigrateIInv
<1>2. /\ UNCHANGED <<version, applied, tables, lock, have, ran, faults>>
      /\ wal' = TRUE
  BY DEF EnableWAL
<1>3. MigrateTypeOK'
  BY <1>1, <1>2 DEF MigrateIInv, MigrateTypeOK
<1>4. StepsOnce' /\ TxKnows'
  BY <1>1, <1>2 DEF MigrateIInv, StepsOnce, TxKnows
<1>5. OpenKnows'
  BY <1>1, <1>2 DEF MigrateIInv, OpenKnows
<1> QED BY <1>3, <1>4, <1>5 DEF MigrateIInv

\* Open gives up, ends or is called again; its transaction, if any, is rolled
\* back or empty.
LEMMA LeavesKeeps ==
  ASSUME MigrateConstants, MigrateIInv, NEW p \in Procs, NEW to \in {"new", "failed"},
         opening' = [opening EXCEPT ![p] = to],
         lock' \in {lock, LockAfter(p)}, lock' # p \/ opening[p] # "tx",
         \A q \in Procs : q # p /\ lock = q => lock' = q,
         ran' \in {ran, [ran EXCEPT ![p] = FALSE]}, faults' \in 0..MaxFaults,
         UNCHANGED <<wal, version, applied, tables, have>>
  PROVE  MigrateIInv'
<1>1. /\ opening' \in [Procs -> {"new", "migrate", "tx", "open", "failed"}]
      /\ opening'[p] = to /\ \A q \in Procs : q # p => opening'[q] = opening[q]
  BY DEF MigrateIInv, MigrateTypeOK
<1>2. \A q \in Procs : q # p => ran'[q] = ran[q]
  BY DEF MigrateIInv, MigrateTypeOK
<1>3. lock' \in Procs \cup {NoProc} /\ ran' \in [Procs -> BOOLEAN]
  BY ReleasedType DEF MigrateIInv, MigrateTypeOK
<1>4. MigrateTypeOK'
  BY <1>1, <1>3 DEF MigrateIInv, MigrateTypeOK
<1>5. StepsOnce' /\ OpenKnows'
  BY <1>1 DEF MigrateIInv, StepsOnce, OpenKnows, Connected
<1>6. TxKnows'
  BY <1>1, <1>2 DEF MigrateIInv, TxKnows
<1> QED BY <1>4, <1>5, <1>6 DEF MigrateIInv

LEMMA ReleasedKeeps ==
  ASSUME MigrateConstants, NEW p \in Procs
  PROVE  LockAfter(p) # p /\ \A q \in Procs : q # p /\ lock = q => LockAfter(p) = q
  BY DEF MigrateConstants, LockAfter

LEMMA EndsKeeps ==
  ASSUME MigrateConstants, MigrateIInv, NEW p \in Procs,
         GivesUp(p) \/ Refuse(p) \/ Fault(p) \/ OpenAgain(p)
  PROVE  MigrateIInv'
<1>0. faults' \in 0..MaxFaults
  BY DEF MigrateIInv, MigrateTypeOK, MigrateConstants, GivesUp, Refuse, Fault, OpenAgain
<1>1. CASE GivesUp(p)
  <2>1. opening[p] # "tx" /\ opening' = [opening EXCEPT ![p] = "failed"]
    BY <1>1 DEF GivesUp, OpenGoes
  <2> QED BY <1>0, <1>1, <2>1, LeavesKeeps DEF GivesUp
<1>2. CASE Refuse(p)
  BY <1>0, <1>2, LeavesKeeps, ReleasedKeeps DEF Refuse, OpenGoes
<1>3. CASE Fault(p)
  BY <1>0, <1>3, LeavesKeeps, ReleasedKeeps DEF Fault
<1>4. CASE OpenAgain(p)
  <2>1. opening[p] # "tx"
    BY <1>4 DEF OpenAgain
  <2> QED BY <1>0, <1>4, <2>1, LeavesKeeps DEF OpenAgain
<1> QED BY <1>1, <1>2, <1>3, <1>4

--------------------------------------------------------------------------------
(* A transaction.                                                           *)

LEMMA MigrateBeginKeeps ==
  ASSUME MigrateConstants, MigrateIInv, NEW p \in Procs, BeginTx(p) PROVE MigrateIInv'
<1>1. /\ opening' \in [Procs -> {"new", "migrate", "tx", "open", "failed"}]
      /\ opening[p] = "migrate" /\ opening'[p] = "tx"
      /\ \A q \in Procs : q # p => opening'[q] = opening[q]
  BY MigrateGoMoves DEF BeginTx, MigrateIInv
<1>2. /\ UNCHANGED <<wal, version, applied, tables, faults>> /\ lock = NoProc /\ lock' = p
      /\ have' = [have EXCEPT ![p] = version] /\ ran' = [ran EXCEPT ![p] = FALSE]
  BY DEF BeginTx, Unlocked
<1>3. have' \in [Procs -> Versions] /\ ran' \in [Procs -> BOOLEAN]
  BY <1>2 DEF MigrateIInv, MigrateTypeOK
<1>4. MigrateTypeOK'
  BY <1>1, <1>2, <1>3 DEF MigrateIInv, MigrateTypeOK
<1>5. StepsOnce' /\ OpenKnows'
  BY <1>1, <1>2 DEF MigrateIInv, StepsOnce, OpenKnows, Connected
<1>6. \A q \in Procs : opening'[q] = "tx" => q = p
  BY <1>1, <1>2, OneTx
<1>7. have'[p] = version /\ ran'[p] = FALSE /\ version \in Versions
  BY <1>2 DEF MigrateIInv, MigrateTypeOK
<1>8. TxKnows'
  BY <1>2, <1>6, <1>7 DEF TxKnows
<1> QED BY <1>4, <1>5, <1>8 DEF MigrateIInv

LEMMA RunKeeps ==
  ASSUME MigrateConstants, MigrateIInv, NEW p \in Procs, RunStep(p) PROVE MigrateIInv'
<1>1. /\ UNCHANGED <<wal, version, applied, tables, lock, opening, have, faults>>
      /\ ran' = [ran EXCEPT ![p] = TRUE] /\ have[p] < Known[p]
  BY DEF RunStep
<1>2. ran' \in [Procs -> BOOLEAN] /\ \A q \in Procs : q # p => ran'[q] = ran[q]
  BY <1>1 DEF MigrateIInv, MigrateTypeOK
<1>3. MigrateTypeOK' /\ StepsOnce' /\ OpenKnows'
  BY <1>1, <1>2 DEF MigrateIInv, MigrateTypeOK, StepsOnce, OpenKnows
<1>4. TxKnows'
  BY <1>1, <1>2 DEF MigrateIInv, TxKnows
<1> QED BY <1>3, <1>4 DEF MigrateIInv

\* The step after the file's version, as no other committed meanwhile.
LEMMA CommitKeeps ==
  ASSUME MigrateConstants, MigrateIInv, NEW p \in Procs, Commit(p) PROVE MigrateIInv'
<1>1. /\ opening' \in [Procs -> {"new", "migrate", "tx", "open", "failed"}]
      /\ opening[p] = "tx" /\ opening'[p] = "migrate"
      /\ \A q \in Procs : q # p => opening'[q] = opening[q]
  BY MigrateGoMoves DEF Commit, MigrateIInv
<1>2. /\ UNCHANGED <<wal, tables, faults>> /\ lock' = LockAfter(p)
      /\ version' = have[p] + 1 /\ applied' = Append(applied, have[p] + 1)
      /\ have' = [have EXCEPT ![p] = 0] /\ ran' = [ran EXCEPT ![p] = FALSE]
  BY DEF Commit
<1>3. version \in Nat /\ version \in Versions /\ have[p] = version /\ have[p] < Known[p]
  <2>1. ran[p] = TRUE
    BY DEF Commit, MigrateIInv, MigrateTypeOK
  <2> QED BY <1>1, <2>1 DEF MigrateIInv, TxKnows, StepsOnce
<1>4. version' = version + 1 /\ version' \in Versions
  BY <1>2, <1>3, VersionsAre
<1>5. applied' = [i \in 1..(version + 1) |-> i]
  BY <1>2, <1>3 DEF MigrateIInv, StepsOnce
<1>6. applied' \in Seq(Versions)
  BY <1>2, <1>3, <1>4 DEF MigrateIInv, MigrateTypeOK
<1>7. have' \in [Procs -> Versions] /\ ran' \in [Procs -> BOOLEAN]
  BY <1>2, VersionsAre DEF MigrateIInv, MigrateTypeOK
<1>8. MigrateTypeOK'
  BY <1>1, <1>2, <1>4, <1>6, <1>7, ReleasedType DEF MigrateIInv, MigrateTypeOK
<1>9. StepsOnce'
  BY <1>3, <1>4, <1>5 DEF StepsOnce
<1>10. TxKnows'
  <2>1. \A q \in Procs : opening'[q] # "tx"
    BY <1>1, OneTx
  <2> QED BY <2>1 DEF TxKnows
<1>11. OpenKnows'
  <2>1. \A q \in Procs : Known[q] \in Nat
    BY DEF MigrateConstants
  <2>2. \A q \in Procs : Known[q] <= version => Known[q] <= version'
    BY <1>3, <1>4, <2>1
  <2> QED BY <1>1, <1>2, <2>2 DEF MigrateIInv, OpenKnows, Connected
<1> QED BY <1>8, <1>9, <1>10, <1>11 DEF MigrateIInv

LEMMA OpenedKeeps ==
  ASSUME MigrateConstants, MigrateIInv, NEW p \in Procs, Opened(p) PROVE MigrateIInv'
<1>1. /\ opening' \in [Procs -> {"new", "migrate", "tx", "open", "failed"}]
      /\ opening[p] = "tx" /\ opening'[p] = "open"
      /\ \A q \in Procs : q # p => opening'[q] = opening[q]
  BY MigrateGoMoves DEF Opened, MigrateIInv
<1>2. /\ UNCHANGED <<wal, version, applied, tables, have, ran, faults>>
      /\ lock' = LockAfter(p) /\ have[p] = Known[p]
  BY DEF Opened
<1>3. have[p] = version /\ version \in Nat
  BY <1>1 DEF MigrateIInv, TxKnows, StepsOnce
<1>4. MigrateTypeOK'
  BY <1>1, <1>2, ReleasedType DEF MigrateIInv, MigrateTypeOK
<1>5. TxKnows'
  <2>1. \A q \in Procs : opening'[q] # "tx"
    BY <1>1, OneTx
  <2> QED BY <2>1 DEF TxKnows
<1>6. StepsOnce' /\ OpenKnows'
  <2>1. Known[p] <= version
    BY <1>2, <1>3
  <2> QED BY <1>1, <1>2, <2>1 DEF MigrateIInv, StepsOnce, OpenKnows, Connected
<1> QED BY <1>4, <1>5, <1>6 DEF MigrateIInv

LEMMA MigrateStep ==
  ASSUME MigrateConstants, MigrateIInv, [MigrateNext]_migrateVars PROVE MigrateIInv'
<1>1. CASE UNCHANGED migrateVars
  BY <1>1 DEF migrateVars, MigrateIInv, MigrateTypeOK, StepsOnce, TxKnows, OpenKnows
<1>2. CASE MigrateNext
  <2>1. PICK p \in Procs :
          \/ EnableWAL(p) \/ GivesUp(p) \/ BeginTx(p) \/ Refuse(p)
          \/ RunStep(p) \/ Commit(p) \/ Opened(p) \/ Fault(p) \/ OpenAgain(p)
    BY <1>2 DEF MigrateNext
  <2> QED BY <2>1, EnableKeeps, EndsKeeps, MigrateBeginKeeps, RunKeeps, CommitKeeps, OpenedKeeps
<1> QED BY <1>1, <1>2

--------------------------------------------------------------------------------

\* The file and each call of Open keep their kind.
THEOREM MigrateTypeCorrect == ASSUME MigrateConstants PROVE MigrateSpec => []MigrateTypeOK
<1>1. MigrateInit => MigrateIInv BY MigrateInitKeeps
<1>2. MigrateIInv /\ [MigrateNext]_migrateVars => MigrateIInv' BY MigrateStep
<1>3. MigrateIInv => MigrateTypeOK BY DEF MigrateIInv
<1> QED BY <1>1, <1>2, <1>3, PTL DEF MigrateSpec

\* Each step has run exactly once and in order, and who has the database open
\* finds all of its own, for any number of processes of any builds opening it
\* at once and dying anywhere.
THEOREM EachStepRunsOnce == ASSUME MigrateConstants PROVE MigrateSpec => []EachStepOnce
<1>1. MigrateInit => MigrateIInv BY MigrateInitKeeps
<1>2. MigrateIInv /\ [MigrateNext]_migrateVars => MigrateIInv' BY MigrateStep
<1>3. MigrateIInv => EachStepOnce BY DEF MigrateIInv, StepsOnce, OpenKnows, EachStepOnce
<1> QED BY <1>1, <1>2, <1>3, PTL DEF MigrateSpec

--------------------------------------------------------------------------------
(* Proofs about Update for any number of releases, runs and processes.     *)
(* The invariant follows the bytes: what an update verified is a release,  *)
(* and the staged file it renames holds what it verified.                  *)

\* Past the checksum an update holds a release, and when it renames its staged
\* file holds it whole.
VerifiedWhole ==
  \A p \in Updaters :
    /\ updating[p] \in {"stage", "rename"} => asset[p] \in Releases
    /\ updating[p] = "rename" => staged[p] \in Releases

UpdateIInv == UpdateTypeOK /\ VerifiedWhole /\ WholeRelease

\* UpdateTypeOK, one variable a conjunct.
LocalsTypeOK ==
  /\ current \in [Updaters -> Bytes] /\ want \in [Updaters -> Bytes]
  /\ asset \in [Updaters -> Bytes] /\ sum \in [Updaters -> Bytes]
UpdateFilesTypeOK ==
  /\ latest \in Releases /\ exe \in Bytes
  /\ staged \in [Updaters -> {NoFile} \cup Bytes]
  /\ updating \in [Updaters -> UpdateSteps] /\ runs \in 0..MaxRuns

LEMMA TypeOKApart == UpdateTypeOK <=> UpdateFilesTypeOK /\ LocalsTypeOK
  BY DEF UpdateTypeOK, UpdateFilesTypeOK, LocalsTypeOK

\* Bytes are a release's, or none's; a number of no file is neither.
LEMMA BytesAre ==
  ASSUME UpdateConstants PROVE
    /\ Releases \subseteq Bytes /\ 0 \in Bytes /\ NoFile \notin Bytes
    /\ \A b \in Bytes : b # 0 => b \in Releases
  BY DEF UpdateConstants, Releases, Bytes, NoFile

LEMMA UpdateInitKeeps == ASSUME UpdateConstants, UpdateInit PROVE UpdateIInv
<1>1. UpdateFilesTypeOK /\ LocalsTypeOK
  BY BytesAre DEF UpdateConstants, UpdateInit, UpdateFilesTypeOK, LocalsTypeOK, UpdateSteps
<1>2. VerifiedWhole /\ WholeRelease
  BY DEF UpdateInit, VerifiedWhole, WholeRelease
<1> QED BY <1>1, <1>2, TypeOKApart DEF UpdateIInv

--------------------------------------------------------------------------------
(* The files and locals keep their kind, and an update that is verified     *)
(* keeps its release.                                                       *)

LEMMA UpdateTypes == ASSUME UpdateConstants, UpdateIInv, UpdateNext PROVE UpdateTypeOK'
<1> USE BytesAre
<1>0. UpdateFilesTypeOK /\ LocalsTypeOK BY TypeOKApart DEF UpdateIInv
<1>1. CASE Publish
  <2>1. latest' \in Releases
    BY <1>0, <1>1 DEF Publish, UpdateFilesTypeOK, Releases, UpdateConstants
  <2>2. UpdateFilesTypeOK' /\ LocalsTypeOK'
    BY <1>0, <1>1, <2>1 DEF Publish, UpdateFilesTypeOK, LocalsTypeOK
  <2> QED BY <2>2, TypeOKApart, PTL
<1>2. ASSUME NEW p \in Updaters,
        \/ UpdateBegins(p) \/ DownloadFails(p) \/ FetchLatest(p) \/ FetchAsset(p) \/ FetchSum(p)
        \/ Verify(p) \/ Stage(p) \/ RenameStaged(p) \/ Dies(p)
      PROVE UpdateTypeOK'
  <2>1. CASE UpdateBegins(p)
    <3>1. runs' \in 0..MaxRuns
      BY <1>0, <2>1 DEF UpdateBegins, UpdateFilesTypeOK, UpdateConstants
    <3> QED BY <1>0, <2>1, <3>1, TypeOKApart DEF UpdateBegins, UpdateGoes, UpdateFilesTypeOK,
               LocalsTypeOK, UpdateSteps, UpdateTypeOK
  <2>2. CASE DownloadFails(p) \/ FetchLatest(p) \/ Dies(p)
    BY <1>0, <2>2 DEF DownloadFails, FetchLatest, Dies, UpdateEnds, UpdateGoes, UpdateFilesTypeOK,
       LocalsTypeOK, UpdateSteps, UpdateTypeOK
  <2>3. CASE FetchAsset(p) \/ FetchSum(p)
    BY <1>0, <2>3 DEF FetchAsset, FetchSum, UpdateGoes, UpdateFilesTypeOK, LocalsTypeOK,
       UpdateSteps, UpdateTypeOK
  <2>4. CASE Verify(p) \/ Stage(p)
    BY <1>0, <2>4 DEF Verify, Stage, UpdateEnds, UpdateGoes, UpdateFilesTypeOK, LocalsTypeOK,
       UpdateSteps, UpdateTypeOK
  <2>5. CASE RenameStaged(p)
    <3>1. exe' \in Bytes
      BY <1>0, <2>5 DEF RenameStaged, UpdateFilesTypeOK, UpdateIInv, VerifiedWhole
    <3> QED BY <1>0, <2>5, <3>1 DEF RenameStaged, UpdateEnds, UpdateFilesTypeOK, LocalsTypeOK,
               UpdateSteps, UpdateTypeOK
  <2> QED BY <1>2, <2>1, <2>2, <2>3, <2>4, <2>5
<1> QED BY <1>1, <1>2 DEF UpdateNext

\* Only Verify lets an update past, with bytes that match a sum of a release;
\* Stage writes them whole before the rename; and nothing else writes the binary.
LEMMA UpdateStep == ASSUME UpdateConstants, UpdateIInv, [UpdateNext]_updateVars PROVE UpdateIInv'
<1> USE BytesAre
<1>0. UpdateFilesTypeOK /\ LocalsTypeOK BY TypeOKApart DEF UpdateIInv
<1>1. CASE UNCHANGED updateVars
  BY <1>1 DEF updateVars, UpdateIInv, UpdateTypeOK, VerifiedWhole, WholeRelease
<1>2. CASE Publish
  <2>1. VerifiedWhole' /\ WholeRelease'
    BY <1>2 DEF Publish, UpdateIInv, VerifiedWhole, WholeRelease
  <2> QED BY <1>2, <2>1, UpdateTypes DEF UpdateIInv, UpdateNext
<1>3. ASSUME NEW p \in Updaters,
        \/ UpdateBegins(p) \/ DownloadFails(p) \/ FetchLatest(p) \/ FetchAsset(p) \/ FetchSum(p)
        \/ Verify(p) \/ Stage(p) \/ RenameStaged(p) \/ Dies(p)
      PROVE VerifiedWhole' /\ WholeRelease'
  <2>1. CASE UpdateBegins(p) \/ DownloadFails(p) \/ FetchLatest(p) \/ Dies(p)
    BY <1>0, <2>1 DEF UpdateBegins, DownloadFails, FetchLatest, Dies, UpdateEnds, UpdateGoes,
       UpdateFilesTypeOK, LocalsTypeOK, UpdateIInv, VerifiedWhole, WholeRelease
  <2>2. CASE FetchAsset(p) \/ FetchSum(p)
    BY <1>0, <2>2 DEF FetchAsset, FetchSum, UpdateGoes, UpdateFilesTypeOK, LocalsTypeOK,
       UpdateIInv, VerifiedWhole, WholeRelease
  <2>3. CASE Verify(p)
    BY <1>0, <2>3 DEF Verify, Matches, UpdateEnds, UpdateGoes, UpdateFilesTypeOK, LocalsTypeOK,
       UpdateIInv, VerifiedWhole, WholeRelease
  <2>4. CASE Stage(p)
    BY <1>0, <2>4 DEF Stage, UpdateEnds, UpdateGoes, UpdateFilesTypeOK, LocalsTypeOK, UpdateIInv,
       VerifiedWhole, WholeRelease
  <2>5. CASE RenameStaged(p)
    BY <1>0, <2>5 DEF RenameStaged, UpdateEnds, UpdateFilesTypeOK, LocalsTypeOK, UpdateIInv,
       VerifiedWhole, WholeRelease
  <2> QED BY <1>3, <2>1, <2>2, <2>3, <2>4, <2>5
<1>4. CASE UpdateNext /\ ~Publish
  BY <1>3, <1>4, UpdateTypes DEF UpdateIInv, UpdateNext
<1> QED BY <1>1, <1>2, <1>4

--------------------------------------------------------------------------------

\* SelfUpdate's files and locals stay of their kind.
THEOREM UpdateTypeCorrect == ASSUME UpdateConstants PROVE UpdateSpec => []UpdateTypeOK
<1>1. UpdateInit => UpdateIInv BY UpdateInitKeeps
<1>2. UpdateIInv /\ [UpdateNext]_updateVars => UpdateIInv' BY UpdateStep
<1>3. UpdateIInv => UpdateTypeOK BY DEF UpdateIInv
<1> QED BY <1>1, <1>2, <1>3, PTL DEF UpdateSpec

\* The binary is one whole release at every moment, for any number of updates
\* side by side and any number of releases published meanwhile.
THEOREM WholeReleaseHolds == ASSUME UpdateConstants PROVE UpdateSpec => []WholeRelease
<1>1. UpdateInit => UpdateIInv BY UpdateInitKeeps
<1>2. UpdateIInv /\ [UpdateNext]_updateVars => UpdateIInv' BY UpdateStep
<1>3. UpdateIInv => WholeRelease BY DEF UpdateIInv
<1> QED BY <1>1, <1>2, <1>3, PTL DEF UpdateSpec

--------------------------------------------------------------------------------
(* Proofs about SignIn for any number of calls, codes and asks.  What a    *)
(* logout ends can come back in three places: the pending file, the token  *)
(* file, and what another call holds.  A logout nobody overlapped left     *)
(* nothing in any of them, and codes given later are others.               *)

CodeStates == {"unused", "shown", "allowed", "denied", "expired", "taken"}

\* SignInTypeOK apart: the files and the service, and the calls.
SignInFilesTypeOK ==
  /\ code \in [Codes -> CodeStates] /\ pending \in 0..MaxCodes /\ token \in 0..MaxCodes
  /\ out \subseteq Given
SignInCallsTypeOK ==
  /\ call \in [Calls -> Kinds \cup {"none"}] /\ step \in [Calls -> CallSteps \cup {"none"}]
  /\ has \in [Calls -> 0..MaxCodes] /\ asks \in [Calls -> 0..MaxAsks]
  /\ met \in [Calls -> BOOLEAN]

\* No code given before a logout that ended well and alone is anywhere.
NowhereLeft == pending \notin out /\ token \notin out /\ \A p \in Calls : has[p] \notin out

\* A call that ended holds nothing.
IdleHoldsNothing == \A p \in Calls : call[p] = "none" => has[p] = 0 /\ step[p] = "none"

\* Two calls under way have met.
TwoHaveMet ==
  \A p, q \in Calls : p # q /\ call[p] # "none" /\ call[q] # "none" => met[p] = TRUE

\* A logout past its drop that met nobody finds no pending sign-in.
DroppedAlone ==
  \A p \in Calls : step[p] \in {"read token", "remove"} /\ met[p] = FALSE => pending = 0

Apart == NowhereLeft /\ IdleHoldsNothing /\ TwoHaveMet /\ DroppedAlone
TypesOK == SignInFilesTypeOK /\ SignInCallsTypeOK /\ begun \in 0..MaxCalls
SignInIInv == TypesOK /\ Apart

LEMMA TypesAre == TypesOK <=> SignInTypeOK
  BY DEF TypesOK, SignInFilesTypeOK, SignInCallsTypeOK, SignInTypeOK, CodeStates

LEMMA CodesAre ==
  ASSUME SignInConstants PROVE Codes \subseteq 0..MaxCodes /\ 0 \notin Codes /\ 0 \in 0..MaxCodes
  BY DEF SignInConstants, Codes

LEMMA SignInInitKeeps == ASSUME SignInConstants, SignInInit PROVE SignInIInv
<1>1. 0 \in 0..MaxCodes /\ 0 \in 0..MaxAsks /\ 0 \in 0..MaxCalls
  BY DEF SignInConstants
<1>2. SignInFilesTypeOK
  BY <1>1 DEF SignInInit, SignInFilesTypeOK, CodeStates
<1>3. SignInCallsTypeOK
  BY <1>1 DEF SignInInit, SignInCallsTypeOK
<1>4. Apart
  BY DEF SignInInit, Apart, NowhereLeft, IdleHoldsNothing, TwoHaveMet, DroppedAlone
<1> QED BY <1>1, <1>2, <1>3, <1>4 DEF SignInInit, SignInIInv, TypesOK

--------------------------------------------------------------------------------
(* What a step of one call comes to.                                        *)

LEMMA SignInGoMoves ==
  ASSUME SignInCallsTypeOK, NEW p \in Calls, NEW from, NEW to \in CallSteps, CallGoes(p, from, to)
  PROVE  /\ step' \in [Calls -> CallSteps \cup {"none"}] /\ step[p] = from /\ step'[p] = to
         /\ \A q \in Calls : q # p => step'[q] = step[q]
  BY DEF SignInCallsTypeOK, CallGoes

LEMMA EndsLeaves ==
  ASSUME SignInConstants, SignInCallsTypeOK, NEW p \in Calls, CallEnds(p)
  PROVE  /\ call' \in [Calls -> Kinds \cup {"none"}] /\ step' \in [Calls -> CallSteps \cup {"none"}]
         /\ has' \in [Calls -> 0..MaxCodes] /\ asks' \in [Calls -> 0..MaxAsks]
         /\ call'[p] = "none" /\ step'[p] = "none" /\ has'[p] = 0
         /\ \A q \in Calls : q # p => call'[q] = call[q] /\ step'[q] = step[q] /\ has'[q] = has[q]
<1>1. 0 \in 0..MaxCodes /\ 0 \in 0..MaxAsks
  BY DEF SignInConstants
<1> QED BY <1>1 DEF SignInCallsTypeOK, CallEnds

\* p goes on, or ends, without a logout's success; nobody else's call moves.
Moves(p) ==
  /\ UNCHANGED <<met, out>>
  /\ call' \in [Calls -> Kinds \cup {"none"}] /\ step' \in [Calls -> CallSteps \cup {"none"}]
  /\ has' \in [Calls -> 0..MaxCodes] /\ asks' \in [Calls -> 0..MaxAsks]
  /\ \A q \in Calls : q # p => call'[q] = call[q] /\ step'[q] = step[q] /\ has'[q] = has[q]
  /\ call'[p] = "none" => has'[p] = 0 /\ step'[p] = "none"
  /\ call'[p] # "none" => call[p] # "none"

\* Such a step keeps the invariant if it brings nothing back that is out.
LEMMA MovesKeep ==
  ASSUME SignInIInv, NEW p \in Calls, call[p] # "none", Moves(p), begun' = begun,
         code' \in [Codes -> CodeStates], Given \subseteq Given',
         pending' \in 0..MaxCodes, token' \in 0..MaxCodes,
         pending' \notin out, token' \notin out, has'[p] \notin out,
         step'[p] \in {"read token", "remove"} /\ met[p] = FALSE => pending' = 0
  PROVE  SignInIInv'
<1>1. SignInFilesTypeOK'
  BY DEF SignInIInv, TypesOK, SignInFilesTypeOK, Moves
<1>2. SignInCallsTypeOK' /\ begun' \in 0..MaxCalls
  BY DEF SignInIInv, TypesOK, SignInCallsTypeOK, Moves
<1>3. NowhereLeft' /\ IdleHoldsNothing'
  BY DEF SignInIInv, Apart, NowhereLeft, IdleHoldsNothing, Moves
<1>4. TwoHaveMet'
  BY DEF SignInIInv, Apart, TwoHaveMet, Moves
<1>5. ASSUME NEW q \in Calls, step'[q] \in {"read token", "remove"}, met[q] = FALSE
      PROVE  q = p
  <2>1. CASE q # p
    <3>1. step[q] # "none"
      BY <1>5, <2>1 DEF Moves
    <3>2. call[q] # "none"
      BY <3>1 DEF SignInIInv, Apart, IdleHoldsNothing
    <3>3. met[q] = TRUE
      BY <2>1, <3>2 DEF SignInIInv, Apart, TwoHaveMet
    <3> QED BY <1>5, <3>3
  <2> QED BY <2>1
<1>6. DroppedAlone'
  BY <1>5 DEF DroppedAlone, Moves
<1> QED BY <1>1, <1>2, <1>3, <1>4, <1>6 DEF SignInIInv, TypesOK, Apart

\* A step of the service: codes that were given still are.
LEMMA DecideKeeps ==
  ASSUME SignInIInv, NEW c \in Codes, Decide(c) PROVE SignInIInv'
<1>1. code' \in [Codes -> CodeStates] /\ Given \subseteq Given'
  BY DEF SignInIInv, TypesOK, SignInFilesTypeOK, CodeStates, Decide, Given
<1>2. UNCHANGED <<pending, token, call, step, has, asks, begun, met, out>>
  BY DEF Decide
<1>3. TypesOK'
  BY <1>1, <1>2 DEF SignInIInv, TypesOK, SignInFilesTypeOK, SignInCallsTypeOK
<1>4. Apart'
  BY <1>2 DEF SignInIInv, Apart, NowhereLeft, IdleHoldsNothing, TwoHaveMet, DroppedAlone
<1> QED BY <1>3, <1>4 DEF SignInIInv

\* A call that begins meets all that run, and they it.
LEMMA SignInBeginKeeps ==
  ASSUME SignInConstants, SignInIInv, NEW p \in Calls, CallBegins(p) PROVE SignInIInv'
<1>1. PICK kind \in Kinds :
        /\ call' = [call EXCEPT ![p] = kind]
        /\ step' = [step EXCEPT ![p] = IF kind = "logout" THEN "drop" ELSE "read"]
  BY DEF CallBegins
<1>2. /\ UNCHANGED <<code, pending, token, has, asks, out>> /\ call[p] = "none"
      /\ met' = [q \in Calls |-> IF q = p THEN Running # {} ELSE met[q] \/ q \in Running]
      /\ begun < MaxCalls /\ begun' = begun + 1
  BY DEF CallBegins
<1>3. begun' \in 0..MaxCalls
  BY <1>2 DEF SignInIInv, TypesOK, SignInConstants
<1>4. kind # "none" /\ "drop" \in CallSteps /\ "read" \in CallSteps
  BY DEF Kinds, CallSteps
<1>5. /\ call' \in [Calls -> Kinds \cup {"none"}] /\ step' \in [Calls -> CallSteps \cup {"none"}]
      /\ call'[p] = kind /\ step'[p] \in {"drop", "read"}
      /\ \A q \in Calls : q # p => call'[q] = call[q] /\ step'[q] = step[q]
  BY <1>1, <1>4 DEF SignInIInv, TypesOK, SignInCallsTypeOK
<1>6. met' \in [Calls -> BOOLEAN]
  BY <1>2 DEF SignInIInv, TypesOK, SignInCallsTypeOK
<1>7. TypesOK'
  BY <1>2, <1>3, <1>5, <1>6 DEF SignInIInv, TypesOK, SignInFilesTypeOK, SignInCallsTypeOK, Given
<1>8. NowhereLeft' /\ IdleHoldsNothing'
  BY <1>2, <1>4, <1>5 DEF SignInIInv, Apart, NowhereLeft, IdleHoldsNothing
<1>9. TwoHaveMet'
  <2>1. ASSUME NEW q \in Calls, NEW r \in Calls, q # r, call'[q] # "none", call'[r] # "none"
        PROVE  met'[q] = TRUE
    <3>1. CASE q = p
      <4>1. r \in Running
        BY <1>5, <2>1, <3>1 DEF Running
      <4> QED BY <1>2, <3>1, <4>1
    <3>2. CASE q # p
      <4>1. q \in Running
        BY <1>5, <2>1, <3>2 DEF Running
      <4> QED BY <1>2, <3>2, <4>1
    <3> QED BY <3>1, <3>2
  <2> QED BY <2>1 DEF TwoHaveMet
<1>10. DroppedAlone'
  <2>1. ASSUME NEW q \in Calls, step'[q] \in {"read token", "remove"}, met'[q] = FALSE
        PROVE  FALSE
    <3>1. q # p
      BY <1>5, <2>1
    <3>2. step[q] # "none"
      BY <1>5, <2>1, <3>1
    <3>3. q \in Running
      BY <3>2 DEF SignInIInv, Apart, IdleHoldsNothing, Running
    <3> QED BY <1>2, <2>1, <3>1, <3>3
  <2> QED BY <2>1 DEF DroppedAlone
<1> QED BY <1>7, <1>8, <1>9, <1>10 DEF SignInIInv, Apart

--------------------------------------------------------------------------------
(* The steps of a call.                                                     *)

LEMMA StepIsCall ==
  ASSUME SignInIInv, NEW p \in Calls, step[p] # "none" PROVE call[p] # "none"
  BY DEF SignInIInv, Apart, IdleHoldsNothing

\* It goes on from one step to another.
LEMMA GoesOn ==
  ASSUME SignInIInv, NEW p \in Calls, NEW from \in CallSteps, NEW to \in CallSteps,
         CallGoes(p, from, to),
         UNCHANGED <<call, met, out>>,
         has' \in [Calls -> 0..MaxCodes], asks' \in [Calls -> 0..MaxAsks],
         \A q \in Calls : q # p => has'[q] = has[q]
  PROVE  Moves(p) /\ call[p] # "none" /\ step'[p] = to
<1>1. /\ step' \in [Calls -> CallSteps \cup {"none"}] /\ step[p] = from /\ step'[p] = to
      /\ \A q \in Calls : q # p => step'[q] = step[q]
  BY SignInGoMoves DEF SignInIInv, TypesOK
<1>2. from # "none"
  BY DEF CallSteps
<1>3. call[p] # "none"
  BY <1>1, <1>2, StepIsCall
<1> QED BY <1>1, <1>3 DEF Moves, SignInIInv, TypesOK, SignInCallsTypeOK

\* It ends without having signed out.
LEMMA EndsHere ==
  ASSUME SignInConstants, SignInIInv, NEW p \in Calls, CallEnds(p), UNCHANGED <<met, out>>
  PROVE  Moves(p) /\ has'[p] \notin out /\ step'[p] \notin {"read token", "remove"}
<1>1. /\ call' \in [Calls -> Kinds \cup {"none"}] /\ step' \in [Calls -> CallSteps \cup {"none"}]
      /\ has' \in [Calls -> 0..MaxCodes] /\ asks' \in [Calls -> 0..MaxAsks]
      /\ call'[p] = "none" /\ step'[p] = "none" /\ has'[p] = 0
      /\ \A q \in Calls : q # p => call'[q] = call[q] /\ step'[q] = step[q] /\ has'[q] = has[q]
  BY EndsLeaves DEF SignInIInv, TypesOK
<1>2. 0 \notin out
  BY CodesAre DEF SignInIInv, TypesOK, SignInFilesTypeOK, Given
<1> QED BY <1>1, <1>2 DEF Moves

\* 0 is no code, so clearing the pending file or the token brings nothing back.
LEMMA NothingIsOut == ASSUME SignInConstants, SignInIInv PROVE 0 \notin out /\ 0 \in 0..MaxCodes
  BY CodesAre DEF SignInIInv, TypesOK, SignInFilesTypeOK, Given

LEMMA HoldsType ==
  ASSUME SignInIInv PROVE
    /\ has \in [Calls -> 0..MaxCodes] /\ asks \in [Calls -> 0..MaxAsks]
    /\ code \in [Codes -> CodeStates] /\ pending \in 0..MaxCodes /\ token \in 0..MaxCodes
    /\ pending \notin out /\ token \notin out /\ \A p \in Calls : has[p] \notin out
    /\ (UNCHANGED code) => (Given' = Given)
  BY DEF SignInIInv, TypesOK, SignInFilesTypeOK, SignInCallsTypeOK, Apart, NowhereLeft, Given

LEMMA SignInStepNames ==
  /\ "read" \in CallSteps /\ "start" \in CallSteps /\ "save" \in CallSteps /\ "ask" \in CallSteps
  /\ "write token" \in CallSteps /\ "drop" \in CallSteps /\ "drop and begin" \in CallSteps
  /\ "read token" \in CallSteps /\ "remove" \in CallSteps
  BY DEF CallSteps

LEMMA FailsKeeps ==
  ASSUME SignInConstants, SignInIInv, NEW p \in Calls, CallFails(p) PROVE SignInIInv'
<1>1. UNCHANGED <<code, pending, token, begun, met, out>> /\ call[p] # "none" /\ CallEnds(p)
  BY DEF CallFails, Running
<1> QED BY <1>1, EndsHere, HoldsType, MovesKeep

\* readPending takes up what the pending file holds, and that is not out.
LEMMA SignInReadKeeps ==
  ASSUME SignInConstants, SignInIInv, NEW p \in Calls, ReadPending(p) PROVE SignInIInv'
<1>1. UNCHANGED <<code, pending, token, call, asks, begun, met, out>>
  BY DEF ReadPending
<1>2. PICK to \in {"ask", "start", "drop and begin"} :
        CallGoes(p, "read", to) /\ has' \in {has, [has EXCEPT ![p] = pending]}
  BY DEF ReadPending
<1>3. /\ has' \in [Calls -> 0..MaxCodes] /\ asks' \in [Calls -> 0..MaxAsks]
      /\ has'[p] \notin out /\ \A q \in Calls : q # p => has'[q] = has[q]
  BY <1>1, <1>2, HoldsType
<1>4. Moves(p) /\ call[p] # "none" /\ step'[p] = to
  <2>1. "read" \in CallSteps /\ to \in CallSteps
    BY <1>2, SignInStepNames
  <2> QED
    BY <1>1, <1>2, <1>3, <2>1, GoesOn
<1> QED BY <1>1, <1>3, <1>4, HoldsType, MovesKeep

LEMMA DropBeginKeeps ==
  ASSUME SignInConstants, SignInIInv, NEW p \in Calls, DropAndBegin(p) PROVE SignInIInv'
<1>1. /\ UNCHANGED <<code, token, call, asks, begun, met, out>> /\ pending' = 0
      /\ CallGoes(p, "drop and begin", "start") /\ has' = [has EXCEPT ![p] = 0]
  BY DEF DropAndBegin
<1>2. /\ has' \in [Calls -> 0..MaxCodes] /\ asks' \in [Calls -> 0..MaxAsks]
      /\ has'[p] \notin out /\ \A q \in Calls : q # p => has'[q] = has[q]
  BY <1>1, HoldsType, NothingIsOut
<1>3. Moves(p) /\ call[p] # "none" /\ step'[p] = "start"
  BY <1>1, <1>2, GoesOn, SignInStepNames
<1> QED BY <1>1, <1>2, <1>3, HoldsType, NothingIsOut, MovesKeep

\* The service gives a code it never gave: no logout before has it.
LEMMA StartKeeps ==
  ASSUME SignInConstants, SignInIInv, NEW p \in Calls, StartSignIn(p) PROVE SignInIInv'
<1>1. /\ UNCHANGED <<pending, token, call, asks, begun, met, out>>
      /\ CallGoes(p, "start", "save")
  BY DEF StartSignIn
<1>2. PICK c \in Codes \ Given :
        code' = [code EXCEPT ![c] = "shown"] /\ has' = [has EXCEPT ![p] = c]
  BY DEF StartSignIn
<1>3. code' \in [Codes -> CodeStates] /\ Given \subseteq Given'
  BY <1>2, HoldsType DEF CodeStates, Given
<1>4. c \notin out /\ c \in 0..MaxCodes
  BY <1>2, CodesAre DEF SignInIInv, TypesOK, SignInFilesTypeOK
<1>5. /\ has' \in [Calls -> 0..MaxCodes] /\ asks' \in [Calls -> 0..MaxAsks]
      /\ has'[p] \notin out /\ \A q \in Calls : q # p => has'[q] = has[q]
  BY <1>1, <1>2, <1>4, HoldsType
<1>6. Moves(p) /\ call[p] # "none" /\ step'[p] = "save"
  BY <1>1, <1>5, GoesOn, SignInStepNames
<1> QED BY <1>1, <1>3, <1>5, <1>6, HoldsType, MovesKeep

LEMMA SaveKeeps ==
  ASSUME SignInConstants, SignInIInv, NEW p \in Calls, SavePending(p) PROVE SignInIInv'
<1>1. /\ UNCHANGED <<code, token, begun, met, out>> /\ pending' = has[p]
      /\ step[p] = "save"
  BY DEF SavePending
<1>2. call[p] # "none"
  BY <1>1, StepIsCall
<1>3. CASE CallEnds(p)
  BY <1>1, <1>2, <1>3, EndsHere, HoldsType, MovesKeep
<1>4. CASE CallGoes(p, "save", "ask") /\ UNCHANGED <<call, has, asks>>
  <2>1. Moves(p) /\ step'[p] = "ask"
    BY <1>1, <1>4, HoldsType, GoesOn, SignInStepNames
  <2> QED BY <1>1, <1>2, <1>4, <2>1, HoldsType, MovesKeep
<1> QED BY <1>3, <1>4 DEF SavePending

LEMMA PollKeeps ==
  ASSUME SignInConstants, SignInIInv, NEW p \in Calls, PollAllowed(p) \/ PollOver(p)
  PROVE  SignInIInv'
<1>1. /\ UNCHANGED <<pending, token, call, has, asks, begun, met, out>>
      /\ \E to \in {"write token", "drop and begin", "drop"} : CallGoes(p, "ask", to)
  BY DEF PollAllowed, PollOver
<1>2. code' \in [Codes -> CodeStates] /\ Given \subseteq Given'
  BY HoldsType DEF PollAllowed, PollOver, CodeStates, Given
<1>3. PICK to \in {"write token", "drop and begin", "drop"} : CallGoes(p, "ask", to)
  BY <1>1
<1>4. Moves(p) /\ call[p] # "none" /\ step'[p] = to
  BY <1>1, <1>3, HoldsType, GoesOn, SignInStepNames
<1> QED BY <1>1, <1>2, <1>4, HoldsType, MovesKeep

LEMMA PendingKeeps ==
  ASSUME SignInConstants, SignInIInv, NEW p \in Calls, PollPending(p) PROVE SignInIInv'
<1>1. UNCHANGED <<code, pending, token, begun, met, out>> /\ step[p] = "ask"
  BY DEF PollPending
<1>2. call[p] # "none"
  BY <1>1, StepIsCall
<1>3. CASE CallEnds(p)
  BY <1>1, <1>2, <1>3, EndsHere, HoldsType, MovesKeep
<1>4. CASE /\ asks[p] < MaxAsks /\ asks' = [asks EXCEPT ![p] = @ + 1]
           /\ CallGoes(p, "ask", IF asks[p] + 1 = MaxAsks THEN "drop" ELSE "ask")
           /\ UNCHANGED <<call, has>>
  <2>1. asks' \in [Calls -> 0..MaxAsks]
    BY <1>4, HoldsType DEF SignInConstants
  <2>2. PICK to \in {"drop", "ask"} : CallGoes(p, "ask", to)
    BY <1>4
  <2>3. Moves(p) /\ step'[p] = to
    BY <1>1, <1>4, <2>1, <2>2, HoldsType, GoesOn, SignInStepNames
  <2> QED BY <1>1, <1>2, <1>4, <2>3, HoldsType, MovesKeep
<1> QED BY <1>3, <1>4 DEF PollPending

LEMMA SignInWriteKeeps ==
  ASSUME SignInConstants, SignInIInv, NEW p \in Calls, WriteToken(p) PROVE SignInIInv'
<1>1. /\ UNCHANGED <<code, pending, call, has, asks, begun, met, out>>
      /\ CallGoes(p, "write token", "drop") /\ token' = has[p]
  BY DEF WriteToken
<1>2. Moves(p) /\ call[p] # "none" /\ step'[p] = "drop"
  BY <1>1, HoldsType, GoesOn, SignInStepNames
<1> QED BY <1>1, <1>2, HoldsType, MovesKeep

LEMMA DropKeeps ==
  ASSUME SignInConstants, SignInIInv, NEW p \in Calls, DropPending(p) PROVE SignInIInv'
<1>1. /\ UNCHANGED <<code, token, begun, met, out>> /\ pending' = 0
      /\ step[p] = "drop" /\ CallEnds(p)
  BY DEF DropPending
<1>2. call[p] # "none"
  BY <1>1, StepIsCall
<1> QED BY <1>1, <1>2, EndsHere, HoldsType, NothingIsOut, MovesKeep

LEMMA LogoutDropKeeps ==
  ASSUME SignInConstants, SignInIInv, NEW p \in Calls, LogoutDrops(p) PROVE SignInIInv'
<1>1. /\ UNCHANGED <<code, token, call, has, asks, begun, met, out>> /\ pending' = 0
      /\ CallGoes(p, "drop", "read token")
  BY DEF LogoutDrops, Forgotten
<1>2. Moves(p) /\ call[p] # "none" /\ step'[p] = "read token"
  BY <1>1, HoldsType, GoesOn, SignInStepNames
<1> QED BY <1>1, <1>2, HoldsType, NothingIsOut, MovesKeep

\* The logout that ends well: alone, it leaves nothing of any code given so far.
LEMMA OutKeeps ==
  ASSUME SignInConstants, SignInIInv, NEW p \in Calls, step[p] \in {"read token", "remove"},
         SignedOut(p), token' = 0, UNCHANGED <<code, pending, begun, met>>
  PROVE  SignInIInv'
<1>0. call[p] # "none"
  BY StepIsCall
<1>1. CASE met[p] = TRUE
  <2>1. CallEnds(p) /\ out' = out
    BY <1>1 DEF SignedOut
  <2> QED BY <1>0, <2>1, EndsHere, HoldsType, NothingIsOut, MovesKeep
<1>2. CASE met[p] = FALSE
  <2>1. CallEnds(p) /\ out' = Given
    BY <1>2 DEF SignedOut
  <2>2. /\ call' \in [Calls -> Kinds \cup {"none"}] /\ step' \in [Calls -> CallSteps \cup {"none"}]
        /\ has' \in [Calls -> 0..MaxCodes] /\ asks' \in [Calls -> 0..MaxAsks]
        /\ call'[p] = "none" /\ step'[p] = "none" /\ has'[p] = 0
        /\ \A q \in Calls : q # p => call'[q] = call[q] /\ step'[q] = step[q] /\ has'[q] = has[q]
    BY <2>1, EndsLeaves DEF SignInIInv, TypesOK
  <2>3. pending = 0
    BY <1>2 DEF SignInIInv, Apart, DroppedAlone
  <2>4. \A q \in Calls : q # p => call[q] = "none"
    BY <1>0, <1>2 DEF SignInIInv, Apart, TwoHaveMet
  <2>5. \A q \in Calls : call'[q] = "none" /\ has'[q] = 0 /\ step'[q] = "none"
    BY <2>2, <2>4 DEF SignInIInv, Apart, IdleHoldsNothing
  <2>6. 0 \notin Given
    BY CodesAre DEF Given
  <2>7. Apart'
    BY <2>1, <2>3, <2>5, <2>6 DEF Apart, NowhereLeft, IdleHoldsNothing, TwoHaveMet, DroppedAlone
  <2>8. SignInFilesTypeOK'
    BY <2>1, NothingIsOut DEF SignInIInv, TypesOK, SignInFilesTypeOK, Given
  <2>9. SignInCallsTypeOK' /\ begun' \in 0..MaxCalls
    BY <2>2 DEF SignInIInv, TypesOK, SignInCallsTypeOK
  <2> QED BY <2>7, <2>8, <2>9 DEF SignInIInv, TypesOK
<1> QED BY <1>1, <1>2 DEF SignInIInv, TypesOK, SignInCallsTypeOK

LEMMA LogoutKeeps ==
  ASSUME SignInConstants, SignInIInv, NEW p \in Calls, LogoutReads(p) \/ LogoutRemoves(p)
  PROVE  SignInIInv'
<1>1. UNCHANGED <<code, pending, begun, met>> /\ step[p] \in {"read token", "remove"}
  BY DEF LogoutReads, LogoutRemoves
<1>2. CASE SignedOut(p) /\ token' = 0
  BY <1>1, <1>2, OutKeeps
<1>3. CASE /\ CallGoes(p, "read token", "remove") /\ UNCHANGED <<call, has, asks, out, token>>
           /\ step[p] = "read token"
  <2>1. Moves(p) /\ call[p] # "none" /\ step'[p] = "remove"
    BY <1>1, <1>3, HoldsType, GoesOn, SignInStepNames
  <2>2. met[p] = FALSE => pending' = 0
    BY <1>1, <1>3 DEF SignInIInv, Apart, DroppedAlone
  <2> QED BY <1>1, <1>3, <2>1, <2>2, HoldsType, MovesKeep
<1> QED BY <1>2, <1>3 DEF LogoutReads, LogoutRemoves

LEMMA SignInStep == ASSUME SignInConstants, SignInIInv, [SignInNext]_signInVars PROVE SignInIInv'
<1>1. CASE UNCHANGED signInVars
  BY <1>1 DEF signInVars, SignInIInv, TypesOK, SignInFilesTypeOK, SignInCallsTypeOK, Given, Apart,
     NowhereLeft, IdleHoldsNothing, TwoHaveMet, DroppedAlone
<1>2. CASE \E c \in Codes : Decide(c)
  BY <1>2, DecideKeeps
<1>3. ASSUME NEW p \in Calls,
        \/ CallBegins(p) \/ CallFails(p)
        \/ ReadPending(p) \/ DropAndBegin(p) \/ StartSignIn(p) \/ SavePending(p)
        \/ PollAllowed(p) \/ PollOver(p) \/ PollPending(p) \/ WriteToken(p) \/ DropPending(p)
        \/ LogoutDrops(p) \/ LogoutReads(p) \/ LogoutRemoves(p)
      PROVE SignInIInv'
  BY <1>3, SignInBeginKeeps, FailsKeeps, SignInReadKeeps, DropBeginKeeps, StartKeeps, SaveKeeps,
     PollKeeps, PendingKeeps, SignInWriteKeeps, DropKeeps, LogoutDropKeeps, LogoutKeeps
<1> QED BY <1>1, <1>2, <1>3 DEF SignInNext

--------------------------------------------------------------------------------

\* The files, the codes and the calls keep their kind.
THEOREM SignInTypeCorrect == ASSUME SignInConstants PROVE SignInSpec => []SignInTypeOK
<1>1. SignInInit => SignInIInv BY SignInInitKeeps
<1>2. SignInIInv /\ [SignInNext]_signInVars => SignInIInv' BY SignInStep
<1>3. SignInIInv => SignInTypeOK BY TypesAre DEF SignInIInv
<1> QED BY <1>1, <1>2, <1>3, PTL DEF SignInSpec

\* Logout: no code given before a logout that nobody overlapped signs the
\* machine in again, for any number of logins and logouts, killed anywhere.
THEOREM SignedOutStays == ASSUME SignInConstants PROVE SignInSpec => []StaysSignedOut
<1>1. SignInInit => SignInIInv BY SignInInitKeeps
<1>2. SignInIInv /\ [SignInNext]_signInVars => SignInIInv' BY SignInStep
<1>3. SignInIInv => StaysSignedOut BY DEF SignInIInv, Apart, NowhereLeft, StaysSignedOut
<1> QED BY <1>1, <1>2, <1>3, PTL DEF SignInSpec
================================================================================
