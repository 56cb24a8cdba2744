--------------------------- MODULE MCTwoWayMerge ---------------------------
(***************************************************************************)
(* Instances of TwoWayMerge, and the properties of its plan, which are     *)
(* recursive over the tree.                                                *)
(***************************************************************************)
EXTENDS TwoWayMerge, Functions

CONSTANTS
    MaxRuns, MaxLength,   \* bounds: initial runs, elements of an initial run
    MaxElements           \* bound: elements in all of them

MCLengths ==
    {l \in UNION {[0 .. n - 1 -> 1 .. MaxLength] : n \in 1 .. MaxRuns} : SumFunction(l) <= MaxElements}

RECURSIVE RunsIn(_), Cost(_), TreeOK(_)

RunsIn(tree) == IF tree.is_leaf THEN {tree.id} ELSE RunsIn(tree.left) \cup RunsIn(tree.right)

(* The number of elements that executing the tree copies. *)
Cost(tree) ==
    IF tree.is_leaf THEN 0 ELSE tree.run_length + Cost(tree.left) + Cost(tree.right)

Total(ids) == SumFunctionOnSet(lengths, ids)

(* A node's length is that of the runs under it, and its two sides share no run. *)
TreeOK(tree) ==
    IF tree.is_leaf THEN tree.run_length = lengths[tree.id]
    ELSE /\ RunsIn(tree.left) \cap RunsIn(tree.right) = {}
         /\ tree.run_length = Total(RunsIn(tree))
         /\ TreeOK(tree.left) /\ TreeOK(tree.right)

(* The least that any binary tree over a set of runs copies. *)
CheapestOver ==
    LET cheapest[ids \in SUBSET DOMAIN lengths] ==
            IF Cardinality(ids) <= 1 THEN 0
            ELSE Total(ids) + Min({cheapest[some] + cheapest[ids \ some] :
                                      some \in SUBSET ids \ {{}, ids}})
    IN cheapest

(* The trees in the queue hold each run exactly once, with its length, whatever *)
(* has been moved out of it: an execution of the plan merges every run, once    *)
(* (make_binary_merge_plan).                                                    *)
EveryRunOnce ==
    /\ \A t \in pq : TreeOK(t)
    /\ \A t, u \in pq : t # u => RunsIn(t) \cap RunsIn(u) = {}
    /\ UNION {RunsIn(t) : t \in pq} = DOMAIN lengths

(* The plan copies as few elements as any tree of two-way merges could. *)
PlanIsCheapest ==
    Planned /\ calls = <<>> => \A t \in pq : Cost(t) = CheapestOver[DOMAIN lengths]
============================================================================
