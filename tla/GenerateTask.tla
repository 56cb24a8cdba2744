---------------------------- MODULE GenerateTask ----------------------------
(***************************************************************************)
(* generate_task of k_way_merge_threads.cpp: which runs each round of the  *)
(* K-way merge reads.  The runs a round makes are appended to the file and *)
(* read by a later round, so turn_beg runs ahead over ids that do not exist *)
(* yet when the list is made.                                              *)
(*                                                                         *)
(* K and total_runs are the function's arguments, chosen in Init.          *)
(***************************************************************************)
EXTENDS MergeRounds

CONSTANTS Ks, Totals

(* With K = 1 a round reads one run and makes one, and the loop never ends.  *)
(* Every caller passes the constant 4.                                      *)
ASSUME ArgumentsAssumption ==
    /\ Ks \subseteq Nat \ {0, 1}
    /\ Totals \subseteq Nat

VARIABLES K, total_runs, tasks, next_turn_runs, turn_beg, pc

vars == <<K, total_runs, tasks, next_turn_runs, turn_beg, pc>>

Init ==
    /\ K \in Ks
    /\ total_runs \in Totals
    /\ tasks = << >>
    /\ next_turn_runs = total_runs
    /\ turn_beg = 0
    /\ pc = "loop"

Smaller(a, b) == IF a <= b THEN a ELSE b

(* The ids from turn_beg up to, but not including, end. *)
IdsUpTo(end) == [i \in 1 .. end - turn_beg |-> turn_beg + i - 1]

RoundEnd == Smaller(turn_beg + K, turn_beg + next_turn_runs)

NextTurnBegSkipping == turn_beg + K + 1                            \* mutant
NextTurnBeg == turn_beg + K

(* The runs left after this round, and the one it makes. *)
RunsLeftWithoutNew == next_turn_runs - Smaller(K, next_turn_runs)  \* mutant
RunsLeft == next_turn_runs - Smaller(K, next_turn_runs) + 1

MoreRounds == next_turn_runs # 1

Step ==
    /\ pc = "loop"
    /\ MoreRounds
    /\ tasks' = Append(tasks, IdsUpTo(RoundEnd))
    /\ turn_beg' = NextTurnBeg
    /\ next_turn_runs' = RunsLeft
    /\ UNCHANGED <<K, total_runs, pc>>

Return ==
    /\ pc = "loop"
    /\ ~MoreRounds
    /\ pc' = "done"
    /\ UNCHANGED <<K, total_runs, tasks, next_turn_runs, turn_beg>>

Returned == pc = "done" /\ UNCHANGED vars

Next == Step \/ Return \/ Returned

Spec == Init /\ [][Next]_vars

----------------------------------------------------------------------------
TypeOK ==
    /\ K \in Ks
    /\ total_runs \in Totals
    /\ tasks \in Seq(Seq(Nat))
    /\ next_turn_runs \in Nat
    /\ turn_beg \in Nat
    /\ pc \in {"loop", "done"}

(* Of a file without runs the loop makes one round, which reads no run. *)
NoRuns == total_runs = 0

(* While the list grows: no round is given a run that will not exist when it   *)
(* starts, none is given a run twice, and each reads two runs at least and has *)
(* a queue for each of them (the loop of generate_task).                       *)
PrefixIsValid ==
    /\ IF NoRuns THEN \A t \in DOMAIN tasks : tasks[t] = << >> ELSE RoundSizes(K, tasks)
    /\ ExistingRuns(total_runs, tasks)
    /\ ReadOnce(tasks)

(* What generate_task returns: besides, every run is read by some round except *)
(* the one the last round makes, so that this run holds every element; of no   *)
(* runs, one round makes an empty run.                                         *)
ResultIsValid ==
    pc = "done" => IF NoRuns THEN tasks = << << >> >> ELSE ValidRounds(K, total_runs, tasks)

(* The ids make up 0, 1, 2, ... and a round uses K of them unless it is the    *)
(* last: the number of rounds is the least one that K-way merging allows.      *)
FewestRounds ==
    pc = "done" /\ ~NoRuns => Len(tasks) = (total_runs - 1 + K - 2) \div (K - 1)

(* Every round leaves fewer runs than there were, and at least one (or makes   *)
(* the only one): the loop ends, with a single run.                            *)
RoundsReduce ==
    [][tasks' # tasks =>
          \/ next_turn_runs' \in 1 .. next_turn_runs - 1
          \/ next_turn_runs = 0 /\ next_turn_runs' = 1]_vars
============================================================================
