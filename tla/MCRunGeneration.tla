-------------------------- MODULE MCRunGeneration --------------------------
(* RunGeneration on the tasks initTasks makes of raw runs of these sizes. *)
EXTENDS RunGeneration

CONSTANT RunSizes

Cut == INSTANCE InitTasks

MCTasks == Cut!initTasks(RunSizes)

RunsOf3And11 == <<3, 11>>
OneRunOf2 == <<2>>

(* Keys that only fall, so that whole chunks are frozen, and keys with which some *)
(* elements of a chunk are frozen and the heap is filled up in the middle of the   *)
(* third chunk: that makes four initial runs of the first three chunks.            *)
Falling == <<14, 13, 12, 11, 10, 9, 8, 7, 6, 5, 4, 3, 2, 1>>
HalfRead == <<6, 7, 8, 1, 2, 3, 9, 4, 10, 11, 5, 12, 8, 13>>

PatternInit ==
    /\ \E v \in {Falling, HalfRead} :
          key = [e \in Elements |-> v[IF e[1] = 0 THEN e[2] + 1 ELSE e[2] + 4]]
    /\ Init

PatternSpec == PatternInit /\ [][Next]_vars /\ Fairness
============================================================================
