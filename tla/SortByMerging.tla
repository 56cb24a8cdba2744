--------------------------- MODULE SortByMerging ---------------------------
(***************************************************************************)
(* What a sort by two-way merges promises: as long as there is more than   *)
(* one sorted run, two of them are replaced by a sorted run of their       *)
(* elements, and the last one is the answer.  Nothing is said of files,    *)
(* blocks, or of the order in which the runs are taken.                    *)
(***************************************************************************)
EXTENDS Integers, Sequences, SequencesExt

CONSTANT Unknown   \* no answer yet

VARIABLES
    key,      \* the value of each element
    pending,  \* the runs still to be merged; no element is in two of them
    answer    \* the sorted run, or Unknown

mergingVars == <<key, pending, answer>>

Ascending(s) == \A p \in 1 .. Len(s) - 1 : key[s[p]] <= key[s[p + 1]]

(* Every element of s and t, in ascending order. *)
IsMergeOf(m, s, t) ==
    /\ Len(m) = Len(s) + Len(t)
    /\ ToSet(m) = ToSet(s) \cup ToSet(t)
    /\ Ascending(m)

Init ==
    /\ UNION {ToSet(s) : s \in pending} = DOMAIN key
    /\ \A s \in pending :
          /\ Ascending(s) /\ IsInjective(s)
          /\ \A t \in pending \ {s} : ToSet(s) \cap ToSet(t) = {}
    /\ answer = Unknown

(* The merge that leaves one run may give it as the answer at once. *)
MergeTwo ==
    /\ \E m \in pending' \ pending : \E s, t \in pending :
          /\ s # t
          /\ pending' = (pending \ {s, t}) \cup {m}
          /\ IsMergeOf(m, s, t)
          /\ answer' = Unknown \/ (pending' = {m} /\ answer' = m)
    /\ answer = Unknown
    /\ UNCHANGED key

Answer ==
    /\ answer = Unknown /\ pending = {answer'}
    /\ UNCHANGED <<key, pending>>

(* What it does, and that the answer comes. *)
Steps == Init /\ [][MergeTwo \/ Answer]_mergingVars
Spec == Steps /\ <>(answer # Unknown)
============================================================================
