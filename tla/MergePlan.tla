----------------------------- MODULE MergePlan -----------------------------
(***************************************************************************)
(* make_binary_merge_plan: the tree of two-way merges, built by always     *)
(* joining the two shortest trees.  One step is one turn of its loop.  The *)
(* runs, with their lengths, are chosen in the initial state.              *)
(***************************************************************************)
EXTENDS Integers, FiniteSets

CONSTANT LengthChoices   \* the lengths that the runs of the file may have

(* A run cut by create_entries or added by a driver has an element, and there is at least one. *)
ASSUME LengthAssumption ==
    \A l \in LengthChoices :
        /\ IsFiniteSet(DOMAIN l)
        /\ DOMAIN l # {} /\ DOMAIN l = 0 .. Cardinality(DOMAIN l) - 1
        /\ \A id \in DOMAIN l : l[id] \in Nat \ {0}

VARIABLES
    lengths,   \* lengths[id]: the number of elements of run id; never changes
    pq         \* the trees in the priority queue; no two are equal, their runs differ

Leaf(id, length) == [is_leaf |-> TRUE, id |-> id, run_length |-> length]

Parent(l, r) ==
    [is_leaf |-> FALSE, left |-> l, right |-> r, run_length |-> l.run_length + r.run_length]

InitPlan ==
    /\ lengths \in LengthChoices
    /\ pq = {Leaf(id, lengths[id]) : id \in DOMAIN lengths}

OnTopAnyway(trees) == trees   \* a comparison that orders nothing

(* What pq.top() may be: equal lengths come in any order. *)
OnTop(trees) == {t \in trees : \A u \in trees : t.run_length <= u.run_length}

JoinKeepingRight(l, r, rest) == rest \cup {Parent(l, r), r}   \* one pop forgotten

AfterJoin(l, r, rest) == rest \cup {Parent(l, r)}

Join ==
    /\ Cardinality(pq) > 1
    /\ \E l \in OnTop(pq) : \E r \in OnTop(pq \ {l}) :
          pq' = AfterJoin(l, r, pq \ {l, r})
    /\ UNCHANGED lengths

Planned == Cardinality(pq) = 1
============================================================================
