----------------------------- MODULE InitTasks -----------------------------
(***************************************************************************)
(* initTasks of threads.cpp: the raw runs cut into chunks of CHUNK         *)
(* elements, run by run.                                                   *)
(***************************************************************************)
EXTENDS Integers, Sequences, SequencesExt

CONSTANT CHUNK

(* The tasks of one run: a chunk at every multiple of CHUNK below its size. *)
RunTasks(run, size) ==
    [i \in 1 .. (size + CHUNK - 1) \div CHUNK |->
        LET off == (i - 1) * CHUNK
        IN  [run_id |-> run, offset |-> off,
             count |-> IF size - off < CHUNK THEN size - off ELSE CHUNK]]

(* sizes[r + 1] is the size of run r of the store. *)
initTasks(sizes) ==
    FlattenSeq([r \in DOMAIN sizes |-> RunTasks(r - 1, sizes[r])])
============================================================================
