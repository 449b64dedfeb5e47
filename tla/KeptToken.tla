------------------------------ MODULE KeptToken -------------------------------
(***************************************************************************)
(* pageserve/token.go: the token a tool's serves keep in one file, taken   *)
(* by processes at once, with WriteFileAtomic (fileutil.go) for a file     *)
(* that holds no token or a disk that makes no links.  A file system call  *)
(* is a step.                                                              *)
(***************************************************************************)
EXTENDS Integers

CONSTANTS Takers, Tokens, None, Junk   \* Tokens: as many as there is randomness for

\* What a theorem here assumes of them; each instance is checked to meet it.
TokensApart == None # Junk /\ None \notin Tokens /\ Junk \notin Tokens

VARIABLES
  keptToken, \* what state/token holds: a token, junk, or there is none
  drawn,     \* the tokens made so far
  temp,      \* each taker's temporary file: its token, half of it, or none
  taking,    \* where each is
  answer,    \* what keptToken returned
  given,     \* history: the tokens returned
  crowded    \* history: there was a crowd

keptVars == <<keptToken, drawn, temp, taking, answer, given, crowded>>

TakerSteps == {"read", "make", "link", "read again", "write", "rename", "returned", "failed"}

\* One that is to replace the file, and another that may write it too.
Crowd ==
  \E p, q \in Takers :
    p # q /\ taking[p] \in {"write", "rename"} /\ taking[q] \in {"link", "write", "rename"}

KeptInit ==
  /\ keptToken \in {None, Junk} \cup Tokens /\ drawn = Tokens \cap {keptToken}
  /\ temp = [p \in Takers |-> None]
  /\ taking = [p \in Takers |-> "read"] /\ answer = [p \in Takers |-> None]
  /\ given = {} /\ crowded = FALSE

TakerGoes(p, from, to) == taking[p] = from /\ taking' = [taking EXCEPT ![p] = to]

Returns(p, from, t) ==
  /\ TakerGoes(p, from, "returned")
  /\ answer' = [answer EXCEPT ![p] = t] /\ given' = given \cup {t}

\* readToken: a token that only this account can read, or not one.
IsToken == keptToken \in Tokens

Read(p) ==
  /\ \/ IsToken /\ Returns(p, "read", keptToken)
     \/ ~IsToken /\ TakerGoes(p, "read", "make") /\ UNCHANGED <<answer, given>>
  /\ UNCHANGED <<keptToken, drawn, temp>>

\* A token at random, and WriteFile of <path>.<random>.new: not at once.
Make(p) ==
  /\ taking[p] = "make" /\ UNCHANGED <<keptToken, answer, given>>
  /\ \/ temp[p] = None /\ temp' = [temp EXCEPT ![p] = Junk] /\ UNCHANGED <<drawn, taking>>
     \/ \E t \in Tokens \ drawn :
          /\ temp[p] = Junk /\ temp' = [temp EXCEPT ![p] = t]
          /\ drawn' = drawn \cup {t} /\ TakerGoes(p, "make", "link")

RenameOver(p) == temp[p] # None   \* mutant: os.Rename, over what is there
LinkFits(p) == keptToken = None

\* os.Link: an error is taken to say that the file is there, whatever it says.
Link(p) ==
  /\ \/ LinkFits(p) /\ keptToken' = temp[p] /\ Returns(p, "link", temp[p])
     \/ TakerGoes(p, "link", "read again") /\ UNCHANGED <<keptToken, answer, given>>
  /\ UNCHANGED <<drawn, temp>>

ReadAgain(p) ==
  /\ \/ IsToken /\ Returns(p, "read again", keptToken)
     \/ ~IsToken /\ TakerGoes(p, "read again", "write") /\ UNCHANGED <<answer, given>>
  /\ UNCHANGED <<keptToken, drawn, temp>>

\* WriteFileAtomic: a temporary file of its own, whole and synced...
WriteTemp(p) ==
  TakerGoes(p, "write", "rename") /\ UNCHANGED <<keptToken, drawn, temp, answer, given>>

\* ...renamed over the path, as no token stood there.
RenameTemp(p) ==
  /\ keptToken' = temp[p] /\ Returns(p, "rename", temp[p])
  /\ UNCHANGED <<drawn, temp>>

\* No randomness or no room, or the rename fails: the file is as it was.
TakerFails(p) ==
  /\ \E from \in {"make", "write", "rename"} : TakerGoes(p, from, "failed")
  /\ UNCHANGED <<keptToken, drawn, temp, answer, given>>

\* The deferred os.Remove of the linked file, or death before it; a serve calls
\* again with its next start.
TakesAgain(p) ==
  /\ taking[p] # "read" /\ taking' = [taking EXCEPT ![p] = "read"]
  /\ temp' = [temp EXCEPT ![p] = None]
  /\ answer' = [answer EXCEPT ![p] = None]
  /\ UNCHANGED <<keptToken, drawn, given>>

Takes(p) ==
  \/ Read(p) \/ Make(p) \/ Link(p) \/ ReadAgain(p) \/ WriteTemp(p) \/ RenameTemp(p)
  \/ TakerFails(p) \/ TakesAgain(p)

KeptNext == (\E p \in Takers : Takes(p)) /\ crowded' = (crowded \/ Crowd')

KeptSpec == KeptInit /\ [][KeptNext]_keptVars

--------------------------------------------------------------------------------

\* The file, the temporary files and each call of their kind.
KeptTokenTypeOK ==
  /\ keptToken \in {None, Junk} \cup Tokens /\ drawn \subseteq Tokens
  /\ temp \in [Takers -> {None, Junk} \cup Tokens]
  /\ taking \in [Takers -> TakerSteps] /\ answer \in [Takers -> {None} \cup Tokens]
  /\ given \subseteq Tokens /\ crowded \in BOOLEAN

\* keptToken: "of takers racing without it the first to write the file sets the
\* token every one of them uses": all that was ever returned is the one token in
\* the file, through races, refused links, junk in the file, deaths and calls
\* again.  Only a crowd breaks it: one that found neither a token nor a link is to
\* replace the file, and meanwhile another links or replaces it.  Takers that come
\* one at a time, as Run's do under serve.lock, are never a crowd.
OneTokenForAll == crowded \/ \A t \in given : t = keptToken
===============================================================================
