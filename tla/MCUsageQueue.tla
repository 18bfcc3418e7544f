--------------------------- MODULE MCUsageQueue ---------------------------
(* Small instances of UsageQueue for TLC: three records of two keys and one*)
(* of the admin password meet queues with room for one or two.             *)
EXTENDS UsageQueue, TLC

CONSTANTS r1, r2, r3, r4, k1, k2, admin

MCRecords == {r1, r2, r3, r4}
MCKeys == {k1, k2}
MCKeyOf == r1 :> k1 @@ r2 :> k1 @@ r3 :> k2 @@ r4 :> admin
MCCost == r1 :> 1 @@ r2 :> 2 @@ r3 :> 4 @@ r4 :> 8
===========================================================================
