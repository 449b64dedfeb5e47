---------------------------- MODULE MCStoreShapes ----------------------------
(* ThreadStore in two more sizes within one instance: two scopes and two      *)
(* sessions, about owners and claims; and two threads of one scope with one   *)
(* delivery, about what is in a Send.                                         *)
EXTENDS ThreadStore, TLC

CONSTANTS alice, bob, s1, s2, t1, t2, t3

Sessions_2 == {alice, bob}
SessionSymmetry == Permutations(Sessions_2)

ThreeThreads == t1 :> s1 @@ t2 :> s1 @@ t3 :> s2

\* What matters here is a second answer, not which kind it is.
Answers == {<<"answered", TRUE>>}

\* About owners and claims: what is sent is posted, not drafted, and drafts,
\* answers, held reports, Release and Interrupt are left to the other sizes.
OwnersSize ==
  /\ messages[3].state = "none"
  /\ \A m \in {1, 2} :
       messages[m].state # "none" => messages[m].thread # t2 /\ messages[m].state # "answered"
  /\ \A b \in BatchIds : batches[b].state # "draft"
  /\ \A d \in DeliveryIds :
       deliveries[d].state \notin {"released", "interrupted"} /\ ~deliveries[d].held

\* About Sends: one scope, one session, one delivery; no time passes and no report
\* is held, which no property of this instance tells apart.
SendsSize ==
  /\ now = 0 /\ deliveries[2].state = "none" /\ ~deliveries[1].held
  /\ scopes[s1].owner \in {NoOwner, deliveries[1].session}
  /\ \A m \in MessageIds : messages[m].state # "none" => messages[m].thread # t3
  /\ scopes[s2].owner = NoOwner

OwnersAndSends == OwnersSize \/ SendsSize
===============================================================================
