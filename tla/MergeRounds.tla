---------------------------- MODULE MergeRounds ----------------------------
(***************************************************************************)
(* What the merge threads need of the list of rounds they are given.  Round *)
(* t merges the runs rounds[t][1], rounds[t][2], ... of the file into a new *)
(* run, so that when it starts the file holds total + t - 1 runs.           *)
(***************************************************************************)
EXTENDS Integers, Sequences

(* A round reads only runs that an earlier round, or run generation, has made. *)
ExistingRuns(total, rounds) ==
    \A t \in DOMAIN rounds :
        \A j \in DOMAIN rounds[t] : rounds[t][j] < total + t - 1

(* No run is read twice. *)
ReadOnce(rounds) ==
    \A t, u \in DOMAIN rounds :
        \A i \in DOMAIN rounds[t], j \in DOMAIN rounds[u] :
            rounds[t][i] = rounds[u][j] => t = u /\ i = j

(* Every run but the one the last round makes is read. *)
AllButLastRead(total, rounds) ==
    \A id \in 0 .. total + Len(rounds) - 2 :
        \E t \in DOMAIN rounds : \E j \in DOMAIN rounds[t] : rounds[t][j] = id

(* The K queues are enough, and no round copies a single run. *)
RoundSizes(K, rounds) == \A t \in DOMAIN rounds : Len(rounds[t]) \in 2 .. K

ValidRounds(K, total, rounds) ==
    /\ rounds \in Seq(Seq(Nat))
    /\ RoundSizes(K, rounds)
    /\ ExistingRuns(total, rounds)
    /\ ReadOnce(rounds)
    /\ AllButLastRead(total, rounds)
============================================================================
