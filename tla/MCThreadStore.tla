----------------------------- MODULE MCThreadStore -----------------------------
(* A small instance of ThreadStore for TLC: one scope with one thread.        *)
EXTENDS ThreadStore, TLC

CONSTANTS alice, bob, s1, t1

\* Sessions are only compared for equality.
Sessions_2 == {alice, bob}
SessionSymmetry == Permutations(Sessions_2)

OneScope == t1 :> s1

\* answered, declined and failed are alike to the store here.
WorkAndAnswer == {<<"working", TRUE>>, <<"answered", TRUE>>}
===============================================================================
