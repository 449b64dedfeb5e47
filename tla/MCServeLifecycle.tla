--------------------------- MODULE MCServeLifecycle ---------------------------
(* Small instances of ServeLifecycle for TLC.                                 *)
EXTENDS ServeLifecycle, TLC

CONSTANTS alice, bob

Clients_2 == {alice, bob}
Swap == Permutations(Clients_2)
===============================================================================
