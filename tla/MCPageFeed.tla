------------------------------ MODULE MCPageFeed ------------------------------
(* Small instances of PageFeed for TLC.                                       *)
EXTENDS PageFeed
===============================================================================
