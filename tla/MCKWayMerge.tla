---------------------------- MODULE MCKWayMerge ----------------------------
(* KWayMerge on the rounds generate_task makes for K = 2 and K = 3. *)
EXTENDS KWayMerge

Sizes212 == <<2, 1, 2>>
Sizes521 == <<5, 2, 1>>
Sizes51 == <<5, 1>>

(* generate_task(3, 3), generate_task(2, 3) and generate_task(2, 2); RoundsAssumption checks them. *)
ThreeAtOnce == <<<<0, 1, 2>>>>
RoundsOf3 == <<<<0, 1>>, <<2, 3>>>>
RoundsOf2 == <<<<0, 1>>>>
============================================================================
