-------------------------------- MODULE SignIn --------------------------------
(***************************************************************************)
(* auth/auth.go: login, login --wait and logout of one tool, each its own  *)
(* process, sharing the pending sign-in and the token file with no lock,   *)
(* and the access service they ask.  Reading, renaming over and removing a *)
(* file and one request to the service are a step each.                    *)
(*                                                                         *)
(* A code is a number, the nth the service gave; its token has the same    *)
(* number.  Left out: what is printed, a sign-in install.sh began, and the *)
(* network failing for good (the call ends with its error, as it does when *)
(* the process is killed).                                                 *)
(***************************************************************************)
EXTENDS Integers

CONSTANTS
  Calls,      \* processes: one call each at a time
  MaxCodes,   \* bound: codes the service gives
  MaxCalls,   \* bound: calls
  MaxAsks     \* bound: times one login --wait asks

\* What a theorem here assumes of them; each instance is checked to meet it.
SignInConstants ==
  MaxCodes \in Nat /\ MaxCalls \in Nat /\ MaxAsks \in Nat

VARIABLES
  code,       \* the service's view of each code
  pending,    \* the pending file's code, 0 for none
  token,      \* the token file's, 0 for none
  call, step, \* what each process runs, and where it is
  has,        \* the code or token it holds
  asks,       \* how often it asked
  begun,      \* calls so far
  met,        \* history: another call was under way during this one
  out         \* history: codes given before a logout that ended well and alone

signInVars == <<code, pending, token, call, step, has, asks, begun, met, out>>

Codes == 1..MaxCodes
Given == {c \in Codes : code[c] # "unused"}
Kinds == {"login", "login --wait", "logout"}
CallSteps == {"read", "start", "save", "ask", "write token", "drop", "drop and begin",
              "read token", "remove"}

SignInInit ==
  /\ code = [c \in Codes |-> "unused"] /\ pending = 0 /\ token = 0
  /\ call = [p \in Calls |-> "none"] /\ step = [p \in Calls |-> "none"]
  /\ has = [p \in Calls |-> 0] /\ asks = [p \in Calls |-> 0]
  /\ begun = 0 /\ met = [p \in Calls |-> FALSE] /\ out = {}

\* The buyer allows or denies a code at the account page, or it expires.
Decide(c) ==
  /\ code[c] = "shown"
  /\ \E d \in {"allowed", "denied", "expired"} : code' = [code EXCEPT ![c] = d]
  /\ UNCHANGED <<pending, token, call, step, has, asks, begun, met, out>>

--------------------------------------------------------------------------------
(* A call's steps.                                                          *)

Running == {p \in Calls : call[p] # "none"}
CallGoes(p, from, to) == step[p] = from /\ step' = [step EXCEPT ![p] = to]

\* The call ends, and what it held is gone.
CallEnds(p) ==
  /\ call' = [call EXCEPT ![p] = "none"] /\ step' = [step EXCEPT ![p] = "none"]
  /\ has' = [has EXCEPT ![p] = 0] /\ asks' = [asks EXCEPT ![p] = 0]

\* A command begins beside whatever else runs.
CallBegins(p) ==
  /\ call[p] = "none" /\ begun < MaxCalls /\ begun' = begun + 1
  /\ \E kind \in Kinds :
       /\ call' = [call EXCEPT ![p] = kind]
       /\ step' = [step EXCEPT ![p] = IF kind = "logout" THEN "drop" ELSE "read"]
  /\ met' = [q \in Calls |-> IF q = p THEN Running # {} ELSE met[q] \/ q \in Running]
  /\ UNCHANGED <<code, pending, token, has, asks, out>>

\* Killed, or its request or its write failed: it ends where it is.
CallFails(p) ==
  /\ p \in Running /\ CallEnds(p)
  /\ UNCHANGED <<code, pending, token, begun, met, out>>

Expired(c) == c # 0 /\ code[c] = "expired"

\* readPending: one to ask about; none; or one that has expired, which Login
\* drops and LoginWait starts over. (One that expires now may still be asked.)
ReadPending(p) ==
  /\ \/ /\ pending # 0
        /\ CallGoes(p, "read", "ask") /\ has' = [has EXCEPT ![p] = pending]
     \/ /\ pending = 0 \/ (Expired(pending) /\ call[p] = "login --wait")
        /\ CallGoes(p, "read", "start") /\ UNCHANGED has
     \/ /\ Expired(pending) /\ call[p] = "login"
        /\ CallGoes(p, "read", "drop and begin") /\ UNCHANGED has
  /\ UNCHANGED <<code, pending, token, call, asks, begun, met, out>>

\* dropPending, then begin.
DropAndBegin(p) ==
  /\ CallGoes(p, "drop and begin", "start")
  /\ pending' = 0 /\ has' = [has EXCEPT ![p] = 0]
  /\ UNCHANGED <<code, token, call, asks, begun, met, out>>

\* start asks /machine/start for the next code.
StartSignIn(p) ==
  /\ CallGoes(p, "start", "save")
  /\ \E c \in Codes \ Given :
       /\ \A d \in Codes \ Given : c <= d
       /\ code' = [code EXCEPT ![c] = "shown"] /\ has' = [has EXCEPT ![p] = c]
  /\ UNCHANGED <<pending, token, call, asks, begun, met, out>>

\* start writes the pending file; Login prints the code and is done.
SavePending(p) ==
  /\ step[p] = "save" /\ pending' = has[p]
  /\ \/ call[p] = "login" /\ CallEnds(p)
     \/ call[p] = "login --wait" /\ CallGoes(p, "save", "ask") /\ UNCHANGED <<call, has, asks>>
  /\ UNCHANGED <<code, token, begun, met, out>>

\* poll: an allowed code gives its token once.
PollAllowed(p) ==
  /\ CallGoes(p, "ask", "write token") /\ code[has[p]] = "allowed"
  /\ code' = [code EXCEPT ![has[p]] = "taken"]
  /\ UNCHANGED <<pending, token, call, has, asks, begun, met, out>>

\* poll: denied ends either login; expired too, but Login begins again.
PollOver(p) ==
  /\ step[p] = "ask" /\ code[has[p]] \in {"denied", "expired", "taken"}
  /\ CallGoes(p, "ask", IF call[p] = "login" /\ code[has[p]] # "denied" THEN "drop and begin"
                        ELSE "drop")
  /\ UNCHANGED <<code, pending, token, call, has, asks, begun, met, out>>

\* poll: still pending. Login is done; LoginWait asks on to its deadline.
PollPending(p) ==
  /\ step[p] = "ask" /\ code[has[p]] = "shown"
  /\ \/ call[p] = "login" /\ CallEnds(p)
     \/ /\ call[p] = "login --wait"
        /\ asks[p] < MaxAsks /\ asks' = [asks EXCEPT ![p] = @ + 1]
        /\ CallGoes(p, "ask", IF asks[p] + 1 = MaxAsks THEN "drop" ELSE "ask")
        /\ UNCHANGED <<call, has>>
  /\ UNCHANGED <<code, pending, token, begun, met, out>>

\* allowed: the token file.
WriteToken(p) ==
  /\ CallGoes(p, "write token", "drop") /\ token' = has[p]
  /\ UNCHANGED <<code, pending, call, has, asks, begun, met, out>>

\* dropPending, whosever it is by now; a login is done.
DropPending(p) ==
  /\ call[p] # "logout" /\ step[p] = "drop" /\ CallEnds(p)
  /\ pending' = 0
  /\ UNCHANGED <<code, token, begun, met, out>>

Lingers == pending   \* mutant: the sign-in under way outlives the logout
Forgotten == 0

\* Logout: dropPending first.
LogoutDrops(p) ==
  /\ call[p] = "logout" /\ CallGoes(p, "drop", "read token")
  /\ pending' = Forgotten
  /\ UNCHANGED <<code, token, call, has, asks, begun, met, out>>

\* Out: no code given so far is to sign the machine in.
SignedOut(p) == CallEnds(p) /\ out' = IF met[p] THEN out ELSE Given

\* Then the token, if there is one, is removed from the account (or refused as
\* removed already), and its file.
LogoutReads(p) ==
  /\ step[p] = "read token"
  /\ \/ token = 0 /\ SignedOut(p)
     \/ token # 0 /\ CallGoes(p, "read token", "remove") /\ UNCHANGED <<call, has, asks, out>>
  /\ UNCHANGED <<code, pending, token, begun, met>>

LogoutRemoves(p) ==
  /\ step[p] = "remove" /\ SignedOut(p)
  /\ token' = 0
  /\ UNCHANGED <<code, pending, begun, met>>

SignInNext ==
  \/ \E c \in Codes : Decide(c)
  \/ \E p \in Calls :
       \/ CallBegins(p) \/ CallFails(p)
       \/ ReadPending(p) \/ DropAndBegin(p) \/ StartSignIn(p) \/ SavePending(p)
       \/ PollAllowed(p) \/ PollOver(p) \/ PollPending(p) \/ WriteToken(p) \/ DropPending(p)
       \/ LogoutDrops(p) \/ LogoutReads(p) \/ LogoutRemoves(p)

SignInSpec == SignInInit /\ [][SignInNext]_signInVars

--------------------------------------------------------------------------------

\* Files, calls and codes of their kind; only a code given can be out.
SignInTypeOK ==
  /\ code \in [Codes -> {"unused", "shown", "allowed", "denied", "expired", "taken"}]
  /\ pending \in 0..MaxCodes /\ token \in 0..MaxCodes
  /\ call \in [Calls -> Kinds \cup {"none"}] /\ step \in [Calls -> CallSteps \cup {"none"}]
  /\ has \in [Calls -> 0..MaxCodes] /\ asks \in [Calls -> 0..MaxAsks]
  /\ begun \in 0..MaxCalls /\ met \in [Calls -> BOOLEAN] /\ out \subseteq Given

\* Logout: "A sign-in still waiting would otherwise sign the machine back in on
\* the next login with an approval given before this logout." No code given
\* before a logout that no other call overlapped signs the machine in again,
\* whoever allowed it when and whatever calls failed before or overlap after.
StaysSignedOut == token \notin out
===============================================================================
