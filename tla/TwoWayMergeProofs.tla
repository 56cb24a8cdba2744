-------------------------- MODULE TwoWayMergeProofs --------------------------
(***************************************************************************)
(* Theorems about TwoWayMerge, for every number and length of initial      *)
(* runs, every plan, every size of buffers: blocks stay in place, and the  *)
(* execution of the plan sorts by merging.                                 *)
(***************************************************************************)
EXTENDS TwoWayMerge, SequenceTheorems, FiniteSetTheorems, TLAPS

(* ---- The plan ---- *)
ElementsOf(id) == {<<id, p>> : p \in 1 .. lengths[id]}

(* P[t] is the set of the elements in the runs under t, for every tree that has *)
(* been made: a tree cannot be followed down to its leaves without recursion,   *)
(* but one level after the other can be.                                        *)
IsParts(P) ==
    \A t \in DOMAIN P :
        /\ P[t] # {}
        /\ t.is_leaf \in BOOLEAN
        /\ t.is_leaf => t.id \in DOMAIN lengths /\ P[t] = ElementsOf(t.id)
        /\ ~t.is_leaf =>
               /\ t.left \in DOMAIN P /\ t.right \in DOMAIN P
               /\ P[t] = P[t.left] \cup P[t.right]
               /\ P[t.left] \cap P[t.right] = {}

(* The trees in the queue share no element, and leave none out. *)
PlanInv(P) ==
    /\ IsParts(P)
    /\ pq \subseteq DOMAIN P /\ pq # {} /\ IsFiniteSet(pq)
    /\ \A t, u \in pq : t # u => P[t] \cap P[u] = {}
    /\ UNION {P[t] : t \in pq} = Elements

----------------------------------------------------------------------------
(* The runs. *)

NumInitial == Cardinality(DOMAIN lengths)

Types ==
    /\ lengths \in LengthChoices
    /\ key \in [Elements -> Keys]
    /\ runs \in Seq(Seq(Elements))
    /\ result \in Nat \cup {Null}
    /\ merging \in BOOLEAN
    /\ out \in Seq(Elements)

(* Runs are only added: a merge reads all of a run or nothing of it. *)
RunsInv ==
    /\ Complete \subseteq DOMAIN runs
    /\ \A r \in 1 .. NumInitial : r \in Complete /\ runs[r] = InitialRuns[r]
    /\ \A r \in Complete : runs[r] # <<>> /\ Sorting!Ascending(runs[r])
    /\ \A q, r \in Complete : q < r =>
           \/ ToSet(runs[q]) \cap ToSet(runs[r]) = {}
           \/ ToSet(runs[q]) \subseteq ToSet(runs[r])

(* No merge has read run r, as numbered in `runs`. *)
Live(r) ==
    \A later \in Complete : later > r => ToSet(runs[r]) \cap ToSet(runs[later]) = {}

(* No merge has read an element of S. *)
Untouched(S) == \A r \in Complete : r > NumInitial => ToSet(runs[r]) \cap S = {}

----------------------------------------------------------------------------
(* The calls of execute_merge_plan_return_id. *)

(* The subtree that is executed or will be next. *)
Child(c) == IF c.ids = <<>> THEN c.node.left ELSE c.node.right

ChildAt(c, j) == IF j = 1 THEN c.node.left ELSE c.node.right

CallInv(P, k) ==
    /\ Len(calls[k].ids) <= 2
    /\ calls[k].node.is_leaf => calls[k].ids = <<>> /\ k = Len(calls)
    /\ k < Len(calls) =>
           Len(calls[k].ids) < 2 /\ calls[k + 1].node = Child(calls[k])
    /\ \A j \in DOMAIN calls[k].ids :
           /\ calls[k].ids[j] + 1 \in Complete
           /\ Live(calls[k].ids[j] + 1)
           /\ ToSet(runs[calls[k].ids[j] + 1]) = P[ChildAt(calls[k], j)]
    /\ ~calls[k].node.is_leaf /\ calls[k].ids = <<>> => Untouched(P[calls[k].node.right])

CallsInv(P) ==
    /\ calls \in Seq([node : DOMAIN P, ids : Seq(Nat)])
    /\ \A k \in DOMAIN calls : CallInv(P, k)
    /\ \A k, m \in DOMAIN calls : k < m => P[calls[m].node] \subseteq P[Child(calls[k])]
    /\ calls # <<>> =>
           /\ pq = {calls[1].node}
           /\ result = Null
           /\ Top.ids = <<>> => Untouched(P[Top.node])
           /\ Len(Top.ids) = 1 => Untouched(P[Top.node.right])
    /\ calls = <<>> =>
           /\ ~merging
           /\ result = Null => runs = InitialRuns
           /\ result # Null => /\ result + 1 \in Complete
                               /\ ToSet(runs[result + 1]) = Elements
                               /\ \E root \in pq : pq = {root}

----------------------------------------------------------------------------
(* A merge. *)

Inputs ==
    [run_id : Nat, buffer : Seq(Elements), buffer_pos : Nat, total_size : Nat, consumed : Nat]

(* The buffer holds a block of s, and has been read up to `consumed`. *)
Reads(b, s) ==
    /\ b.total_size = Len(s)
    /\ b.buffer_pos <= b.consumed /\ b.buffer_pos <= Len(b.buffer)
    /\ b.consumed <= b.total_size
    /\ b.consumed - b.buffer_pos + Len(b.buffer) <= b.total_size
    /\ b.buffer = SubSeq(s, b.consumed - b.buffer_pos + 1,
                            b.consumed - b.buffer_pos + Len(b.buffer))

InputInv(b, id) == b \in Inputs /\ b.run_id = id /\ Reads(b, runs[id + 1])

(* What has been merged, on the disk or not. *)
Merged == runs[Len(runs)] \o out

Taken(b) == {runs[b.run_id + 1][p] : p \in 1 .. b.consumed}

(* Nothing in the rest of b is before what has been merged. *)
NotBefore(b) ==
    HasNext(b) /\ Merged # <<>> =>
        key[Merged[Len(Merged)]] <= key[runs[b.run_id + 1][b.consumed + 1]]

(* What has been merged is a merge of what has been taken from a and from b. *)
MergedInv(a, b) ==
    /\ Len(Merged) = a.consumed + b.consumed
    /\ ToSet(Merged) = Taken(a) \cup Taken(b)
    /\ Sorting!Ascending(Merged)
    /\ NotBefore(a) /\ NotBefore(b)

MergeInv ==
    merging =>
        /\ calls # <<>> /\ ~Top.node.is_leaf /\ Len(Top.ids) = 2
        /\ InputInv(buf1, Top.ids[1]) /\ InputInv(buf2, Top.ids[2])
        /\ MergedInv(buf1, buf2)

IInv == Types /\ RunsInv /\ MergeInv /\ \E P : PlanInv(P) /\ CallsInv(P)

----------------------------------------------------------------------------
(* The initial runs. *)

LEMMA Numbers ==
    ASSUME lengths \in LengthChoices
    PROVE  /\ NumInitial \in Nat /\ NumInitial >= 1
           /\ DOMAIN lengths = 0 .. NumInitial - 1
           /\ \A id \in DOMAIN lengths : id \in Nat /\ lengths[id] \in Nat /\ lengths[id] >= 1
<1>1. IsFiniteSet(DOMAIN lengths) /\ DOMAIN lengths # {}
  BY LengthAssumption
<1>2. NumInitial \in Nat
  BY <1>1, FS_CardinalityType DEF NumInitial
<1>3. DOMAIN lengths = 0 .. NumInitial - 1
  BY LengthAssumption DEF NumInitial
<1>4. NumInitial >= 1
  BY <1>1, <1>2, <1>3
<1> QED
  BY <1>2, <1>3, <1>4, LengthAssumption

LEMMA ElementsAre ==
    /\ \A id \in DOMAIN lengths : ElementsOf(id) \subseteq Elements
    /\ \A x \in Elements : \E id \in DOMAIN lengths : x \in ElementsOf(id)
    /\ \A i, j \in DOMAIN lengths : i # j => ElementsOf(i) \cap ElementsOf(j) = {}
  BY DEF Elements, ElementsOf

LEMMA InitialRun ==
    ASSUME lengths \in LengthChoices, NEW r \in 1 .. NumInitial
    PROVE  /\ r - 1 \in DOMAIN lengths
           /\ InitialRuns[r] \in Seq(Elements)
           /\ InitialRuns[r] # <<>>
           /\ Len(InitialRuns[r]) = lengths[r - 1]
           /\ \A p \in 1 .. lengths[r - 1] : InitialRuns[r][p] = <<r - 1, p>>
           /\ ToSet(InitialRuns[r]) = ElementsOf(r - 1)
<1>1. r - 1 \in DOMAIN lengths /\ lengths[r - 1] \in Nat /\ lengths[r - 1] >= 1
  BY Numbers
<1> DEFINE s == [p \in 1 .. lengths[r - 1] |-> <<r - 1, p>>]
<1>2. InitialRuns[r] = s
  BY DEF InitialRuns, NumInitial
<1>3. \A p \in 1 .. lengths[r - 1] : s[p] = <<r - 1, p>> /\ s[p] \in Elements
  BY <1>1, ElementsAre DEF ElementsOf
<1>4. s \in Seq(Elements) /\ Len(s) = lengths[r - 1] /\ s # <<>>
  BY <1>1, <1>3
<1>5. ToSet(s) = ElementsOf(r - 1)
  BY <1>3, <1>4 DEF ToSet, ElementsOf
<1> QED
  BY <1>1, <1>2, <1>3, <1>4, <1>5

LEMMA InitialRunsType ==
    ASSUME lengths \in LengthChoices
    PROVE  /\ InitialRuns \in Seq(Seq(Elements))
           /\ Len(InitialRuns) = NumInitial
<1>1. \A r \in 1 .. NumInitial : InitialRuns[r] \in Seq(Elements)
  BY InitialRun
<1>2. InitialRuns = [r \in 1 .. NumInitial |-> InitialRuns[r]]
  BY DEF InitialRuns, NumInitial
<1> QED
  BY <1>1, <1>2, Numbers

(* An element is in one initial run. *)
LEMMA InitialRunsDisjoint ==
    ASSUME lengths \in LengthChoices, NEW q \in 1 .. NumInitial, NEW r \in 1 .. NumInitial,
           q # r
    PROVE  ToSet(InitialRuns[q]) \cap ToSet(InitialRuns[r]) = {}
<1>1. /\ ToSet(InitialRuns[q]) = ElementsOf(q - 1) /\ q - 1 \in DOMAIN lengths
      /\ ToSet(InitialRuns[r]) = ElementsOf(r - 1) /\ r - 1 \in DOMAIN lengths
  BY InitialRun
<1>2. q - 1 # r - 1
  BY Numbers
<1> QED
  BY <1>1, <1>2, ElementsAre

LEMMA InitialRunsSorted ==
    ASSUME lengths \in LengthChoices, SortedInitially, NEW r \in 1 .. NumInitial
    PROVE  Sorting!Ascending(InitialRuns[r])
<1>1. r - 1 \in DOMAIN lengths /\ lengths[r - 1] \in Nat
  BY Numbers
<1>2. \A p \in 1 .. lengths[r - 1] - 1 :
          /\ InitialRuns[r][p] = <<r - 1, p>>
          /\ InitialRuns[r][p + 1] = <<r - 1, p + 1>>
          /\ key[<<r - 1, p>>] <= key[<<r - 1, p + 1>>]
  BY <1>1, InitialRun DEF SortedInitially
<1>3. Len(InitialRuns[r]) = lengths[r - 1]
  BY InitialRun
<1> QED
  BY <1>2, <1>3 DEF Sorting!Ascending

LEMMA InitPlanInv ==
    ASSUME InitPlan
    PROVE  \E P : PlanInv(P)
<1> DEFINE P == [t \in pq |-> ElementsOf(t.id)]
<1>1. lengths \in LengthChoices
  BY DEF InitPlan
<1>2. \A t \in pq : t.is_leaf = TRUE /\ t.id \in DOMAIN lengths /\ t = Leaf(t.id, lengths[t.id])
  BY DEF InitPlan, Leaf
<1>3. \A id \in DOMAIN lengths : ElementsOf(id) # {} /\ Leaf(id, lengths[id]) \in pq
                                   /\ Leaf(id, lengths[id]).id = id
  <2> SUFFICES ASSUME NEW id \in DOMAIN lengths
               PROVE  ElementsOf(id) # {} /\ Leaf(id, lengths[id]) \in pq
                        /\ Leaf(id, lengths[id]).id = id
    OBVIOUS
  <2>1. 1 \in 1 .. lengths[id]
    BY <1>1, Numbers
  <2>2. <<id, 1>> \in ElementsOf(id)
    BY <2>1 DEF ElementsOf
  <2> QED
    BY <2>2 DEF InitPlan, Leaf
<1>4. IsParts(P)
  BY <1>2, <1>3 DEF IsParts
<1>5. IsFiniteSet(pq) /\ pq # {}
  <2>1. IsFiniteSet(DOMAIN lengths)
    BY <1>1, LengthAssumption
  <2> DEFINE f == [id \in DOMAIN lengths |-> Leaf(id, lengths[id])]
  <2>2. f \in Surjection(DOMAIN lengths, pq)
    <3>1. \A x \in pq : x = f[x.id] /\ x.id \in DOMAIN lengths
      BY <1>2
    <3>2. \A id \in DOMAIN lengths : f[id] \in pq
      BY <1>3
    <3> QED
      BY <3>1, <3>2 DEF Surjection
  <2> HIDE DEF f
  <2>3. IsFiniteSet(pq)
    BY <2>1, <2>2, FS_Surjection
  <2>4. pq # {}
    <3>1. 0 \in DOMAIN lengths
      BY <1>1, Numbers
    <3> QED
      BY <3>1, <1>3
  <2> QED
    BY <2>3, <2>4
<1>6. \A t, u \in pq : t # u => P[t] \cap P[u] = {}
  BY <1>2, ElementsAre
<1>7. UNION {P[t] : t \in pq} = Elements
  <2>1. \A t \in pq : P[t] \subseteq Elements
    BY <1>2, ElementsAre
  <2>2. \A x \in Elements : \E t \in pq : x \in P[t]
    BY <1>3, ElementsAre
  <2> HIDE DEF P
  <2> QED
    BY <2>1, <2>2
<1> QED
  BY <1>4, <1>5, <1>6, <1>7 DEF PlanInv

(* One turn of the loop of make_binary_merge_plan: two trees become one, of the *)
(* elements of both.                                                            *)
LEMMA JoinPlanInv ==
    ASSUME NEW P, PlanInv(P), Join
    PROVE  \E Q : PlanInv(Q)'
<1>1. PICK l \in pq, r \in pq : r # l /\ pq' = (pq \ {l, r}) \cup {Parent(l, r)}
  BY DEF Join, OnTop, AfterJoin
<1> DEFINE top == Parent(l, r)
           Q == [t \in DOMAIN P \cup {top} |-> IF t \in DOMAIN P THEN P[t] ELSE P[l] \cup P[r]]
<1>2. l \in DOMAIN P /\ r \in DOMAIN P /\ l # r /\ P[l] \cap P[r] = {} /\ P[l] # {} /\ P[r] # {}
  BY <1>1 DEF PlanInv, IsParts
<1>3. top.is_leaf = FALSE /\ top.left = l /\ top.right = r
  BY DEF Parent
<1>t. pq' = (pq \ {l, r}) \cup {top}
  BY <1>1
<1> HIDE DEF top
<1>4. Q[top] = P[l] \cup P[r]
  BY <1>2, <1>3 DEF PlanInv, IsParts
<1>5. /\ \A t \in DOMAIN P : Q[t] = P[t] /\ t \in DOMAIN Q
      /\ top \in DOMAIN Q
      /\ \A t \in DOMAIN Q : t \in DOMAIN P \/ t = top
  OBVIOUS
<1> HIDE DEF Q
<1>6. lengths' = lengths
  BY DEF Join
<1>7. IsParts(Q)'
  <2> SUFFICES ASSUME NEW t \in DOMAIN Q
               PROVE  /\ Q[t] # {}
                      /\ t.is_leaf \in BOOLEAN
                      /\ t.is_leaf => t.id \in DOMAIN lengths /\ Q[t] = ElementsOf(t.id)
                      /\ ~t.is_leaf => /\ t.left \in DOMAIN Q /\ t.right \in DOMAIN Q
                                       /\ Q[t] = Q[t.left] \cup Q[t.right]
                                       /\ Q[t.left] \cap Q[t.right] = {}
    BY <1>6 DEF IsParts, ElementsOf
  <2>1. CASE t \in DOMAIN P
    BY <2>1, <1>5 DEF PlanInv, IsParts
  <2>2. CASE t = top
    BY <2>2, <1>2, <1>3, <1>4, <1>5
  <2> QED
    BY <2>1, <2>2, <1>5
<1>8. pq' \subseteq DOMAIN Q /\ pq' # {}
  BY <1>t, <1>5 DEF PlanInv
<1>9. IsFiniteSet(pq')
  <2>1. IsFiniteSet(pq \ {l, r})
    BY FS_Subset DEF PlanInv
  <2> QED
    BY <2>1, <1>t, FS_AddElement
<1>10. \A t, u \in pq' : t # u => Q[t] \cap Q[u] = {}
  <2>1. \A t \in pq \ {l, r} : /\ t \in DOMAIN P /\ Q[t] = P[t]
                               /\ P[t] \cap P[l] = {} /\ P[t] \cap P[r] = {}
    BY <1>1, <1>5 DEF PlanInv
  <2>2. \A t \in pq \ {l, r} : Q[t] \cap Q[top] = {}
    BY <2>1, <1>4
  <2>3. \A t, u \in pq \ {l, r} : t # u => Q[t] \cap Q[u] = {}
    BY <2>1 DEF PlanInv
  <2> QED
    BY <2>2, <2>3, <1>t
<1>11. UNION {Q[t] : t \in pq'} = Elements'
  <2>1. Elements' = Elements
    BY <1>6 DEF Elements
  <2>3. \A t \in pq : P[t] \subseteq Elements /\ t \in DOMAIN P
    BY DEF PlanInv
  <2>4. \A t \in pq' : Q[t] \subseteq Elements
    BY <1>t, <2>3, <1>4, <1>5
  <2>5. \A x \in Elements : \E t \in pq' : x \in Q[t]
    <3> SUFFICES ASSUME NEW x \in Elements PROVE \E t \in pq' : x \in Q[t]
      OBVIOUS
    <3>1. PICK t \in pq : x \in P[t]
      BY DEF PlanInv
    <3> QED
      BY <3>1, <1>t, <2>3, <1>4, <1>5
  <2> QED
    BY <2>1, <2>4, <2>5
<1>12. PlanInv(Q)'
  BY <1>7, <1>8, <1>9, <1>10, <1>11 DEF PlanInv
<1> QED
  BY <1>12

----------------------------------------------------------------------------
(* What stays when no run is completed. *)

LEMMA SameInitial ==
    ASSUME lengths' = lengths
    PROVE  Elements' = Elements /\ NumInitial' = NumInitial /\ InitialRuns' = InitialRuns
  BY DEF Elements, NumInitial, InitialRuns

LEMMA SameRuns ==
    ASSUME lengths' = lengths, key' = key, Complete' = Complete,
           \A r \in Complete : runs'[r] = runs[r]
    PROVE  /\ \A r \in Complete : Live(r) => Live(r)'
           /\ \A S : Untouched(S) => Untouched(S)'
           /\ RunsInv /\ Complete \subseteq DOMAIN runs' => RunsInv'
<1>1. NumInitial' = NumInitial /\ InitialRuns' = InitialRuns
  BY SameInitial
<1>2. \A r \in Complete : Live(r) => Live(r)'
  BY DEF Live
<1>3. \A S : Untouched(S) => Untouched(S)'
  BY <1>1 DEF Untouched
<1>4. ASSUME RunsInv, Complete \subseteq DOMAIN runs' PROVE RunsInv'
  <2>1. \A r \in Complete : runs'[r] # <<>> /\ Sorting!Ascending(runs[r])'
    BY <1>4 DEF RunsInv, Sorting!Ascending
  <2>2. \A q, r \in Complete : q < r =>
           \/ ToSet(runs'[q]) \cap ToSet(runs'[r]) = {}
           \/ ToSet(runs'[q]) \subseteq ToSet(runs'[r])
    BY <1>4 DEF RunsInv
  <2>3. \A r \in 1 .. NumInitial : r \in Complete /\ runs'[r] = InitialRuns[r]
    BY <1>4 DEF RunsInv
  <2> QED
    BY <1>1, <1>4, <2>1, <2>2, <2>3 DEF RunsInv
<1> QED
  BY <1>2, <1>3, <1>4

LEMMA SameCalls ==
    ASSUME NEW P, CallsInv(P), calls # <<>>,
           UNCHANGED <<lengths, key, pq, calls, result>>, Complete' = Complete,
           \A r \in Complete : runs'[r] = runs[r]
    PROVE  CallsInv(P)'
<1>1. /\ \A r \in Complete : Live(r) => Live(r)'
      /\ \A S : Untouched(S) => Untouched(S)'
  BY SameRuns
<1>2. \A k \in DOMAIN calls : CallInv(P, k)'
  <2> SUFFICES ASSUME NEW k \in DOMAIN calls PROVE CallInv(P, k)'
    OBVIOUS
  <2>1. CallInv(P, k)
    BY DEF CallsInv
  <2> QED
    BY <2>1, <1>1 DEF CallInv, Child, ChildAt
<1>3. \A k, m \in DOMAIN calls : k < m => P[calls[m].node] \subseteq P[Child(calls[k])]
  BY DEF CallsInv
<1>4. /\ calls \in Seq([node : DOMAIN P, ids : Seq(Nat)])
      /\ pq = {calls[1].node} /\ result = Null
      /\ Top.ids = <<>> => Untouched(P[Top.node])'
      /\ Len(Top.ids) = 1 => Untouched(P[Top.node.right])'
  BY <1>1 DEF CallsInv, Top
<1> QED
  BY <1>2, <1>3, <1>4 DEF CallsInv, Child, Top

LEMMA SamePlan ==
    ASSUME NEW P, PlanInv(P), UNCHANGED <<lengths, pq>>
    PROVE  PlanInv(P)'
  BY SameInitial DEF PlanInv, IsParts, ElementsOf

----------------------------------------------------------------------------
(* The steps up to the calls. *)

LEMMA InitIInv == Init => IInv
<1> SUFFICES ASSUME Init PROVE IInv
  OBVIOUS
<1>1. lengths \in LengthChoices /\ runs = InitialRuns /\ merging = FALSE /\ result = Null
  BY DEF Init, InitPlan
<1>2. runs \in Seq(Seq(Elements)) /\ Len(runs) = NumInitial
  BY <1>1, InitialRunsType
<1>3. Complete = 1 .. NumInitial /\ DOMAIN runs = 1 .. NumInitial
  BY <1>1, <1>2 DEF Complete
<1>4. Types
  <2>1. key \in [Elements -> Keys] /\ out = <<>>
    BY DEF Init
  <2>2. out \in Seq(Elements)
    BY <2>1
  <2>3. merging \in BOOLEAN /\ result \in Nat \cup {Null}
    BY <1>1
  <2> QED
    BY <2>1, <2>2, <2>3, <1>1, <1>2 DEF Types
<1>5. RunsInv
  <2>1. \A r \in Complete : runs[r] # <<>> /\ Sorting!Ascending(runs[r])
    BY <1>1, <1>3, InitialRun, InitialRunsSorted DEF Init
  <2>2. \A q, r \in Complete : q < r => ToSet(runs[q]) \cap ToSet(runs[r]) = {}
    BY <1>1, <1>3, InitialRunsDisjoint
  <2> QED
    BY <1>1, <1>3, <2>1, <2>2 DEF RunsInv
<1>6. \E P : PlanInv(P) /\ CallsInv(P)
  <2>1. PICK P : PlanInv(P)
    BY InitPlanInv DEF Init
  <2>2. CallsInv(P)
    <3>1. calls = <<>>
      BY DEF Init
    <3> QED
      BY <3>1, <1>1 DEF CallsInv
  <2> QED
    BY <2>1, <2>2
<1>7. MergeInv
  BY <1>1 DEF MergeInv
<1> QED
  BY <1>4, <1>5, <1>6, <1>7 DEF IInv

LEMMA MakePlanIInv == IInv /\ MakePlan => IInv'
<1> SUFFICES ASSUME IInv, MakePlan PROVE IInv'
  OBVIOUS
<1>1. PICK P : PlanInv(P) /\ CallsInv(P)
  BY DEF IInv
<1>2. Join /\ UNCHANGED <<lengths, key, runs, calls, result, merging, buf1, buf2, out>>
  BY DEF MakePlan, Join
<1>3. ~(\E root \in pq : pq = {root})
  <2>1. Cardinality(pq) > 1
    BY <1>2 DEF Join
  <2>2. \A x : Cardinality({x}) = 1
    BY FS_Singleton
  <2> QED
    BY <2>1, <2>2
<1>4. calls = <<>> /\ result = Null /\ ~merging /\ runs = InitialRuns
  BY <1>1, <1>3 DEF CallsInv
<1>5. PICK Q : PlanInv(Q)'
  BY <1>1, <1>2, JoinPlanInv
<1>6. CallsInv(Q)'
  <2>1. calls' = <<>> /\ result' = Null /\ ~merging' /\ runs' = InitialRuns'
    BY <1>2, <1>4, SameInitial
  <2> QED
    BY <2>1 DEF CallsInv
<1>7. RunsInv'
  <2>1. Complete' = Complete /\ runs' = runs
    BY <1>2 DEF Complete
  <2> QED
    BY <2>1, <1>2, SameRuns DEF IInv, RunsInv
<1>8. Types' /\ MergeInv'
  BY <1>2, <1>4, SameInitial DEF IInv, Types, MergeInv
<1> QED
  BY <1>5, <1>6, <1>7, <1>8 DEF IInv

LEMMA CallRootIInv == IInv /\ CallRoot => IInv'
<1> SUFFICES ASSUME IInv, CallRoot PROVE IInv'
  OBVIOUS
<1>1. PICK P : PlanInv(P) /\ CallsInv(P)
  BY DEF IInv
<1>2. /\ UNCHANGED <<lengths, pq, key, runs, result, merging, buf1, buf2, out>>
      /\ calls = <<>> /\ result = Null
  BY DEF CallRoot
<1>3. PICK root \in pq : calls' = <<Call(root)>>
  BY DEF CallRoot
<1>4. pq = {root}
  <2>1. IsFiniteSet(pq) /\ Cardinality(pq) = 1
    BY <1>1 DEF PlanInv, CallRoot, Planned
  <2>2. \E x : pq = {x}
    BY <2>1, FS_Singleton
  <2> QED
    BY <2>2
<1>5. ~merging /\ runs = InitialRuns
  BY <1>1, <1>2 DEF CallsInv
<1>6. /\ calls' \in Seq([node : DOMAIN P, ids : Seq(Nat)])
      /\ Len(calls') = 1 /\ DOMAIN calls' = {1}
      /\ calls'[1].node = root /\ calls'[1].ids = <<>>
  <2>1. root \in DOMAIN P /\ <<>> \in Seq(Nat)
    BY <1>1 DEF PlanInv
  <2> QED
    BY <2>1, <1>3 DEF Call
<1>7. \A S : Untouched(S)'
  <2>1. Complete' = 1 .. NumInitial
    BY <1>2, <1>5, InitialRunsType DEF Complete, IInv, Types
  <2>2. NumInitial \in Nat /\ NumInitial' = NumInitial
    BY <1>2, Numbers, SameInitial DEF IInv, Types
  <2> QED
    BY <2>1, <2>2 DEF Untouched
<1>8. CallsInv(P)'
  <2>1. CallInv(P, 1)'
    BY <1>6, <1>7 DEF CallInv
  <2>2. pq' = {calls'[1].node} /\ result' = Null /\ calls' # <<>>
    <3>1. calls' # <<>>
      BY <1>3
    <3>2. pq' = {calls'[1].node}
      BY <1>2, <1>4, <1>6
    <3> QED
      BY <3>1, <3>2, <1>2
  <2> QED
    BY <2>1, <2>2, <1>6, <1>7 DEF CallsInv, Top
<1>9. Complete' = Complete
  BY <1>2 DEF Complete
<1>10. RunsInv'
  BY <1>2, <1>9, SameRuns DEF IInv, RunsInv
<1>11. Types' /\ MergeInv'
  BY <1>2, <1>5, SameInitial DEF IInv, Types, MergeInv
<1>12. PlanInv(P)'
  BY <1>1, <1>2, SamePlan
<1> QED
  BY <1>8, <1>10, <1>11, <1>12 DEF IInv

----------------------------------------------------------------------------
(* Calls and returns. *)

LEMMA CallTypes ==
    ASSUME NEW P, CallsInv(P), calls # <<>>
    PROVE  /\ Len(calls) \in Nat /\ Len(calls) >= 1
           /\ DOMAIN calls = 1 .. Len(calls)
           /\ Top = calls[Len(calls)] /\ Len(calls) \in DOMAIN calls
           /\ \A k \in DOMAIN calls :
                  /\ calls[k] \in [node : DOMAIN P, ids : Seq(Nat)]
                  /\ calls[k].node \in DOMAIN P /\ calls[k].ids \in Seq(Nat)
<1> DEFINE C == [node : DOMAIN P, ids : Seq(Nat)]
<1>1. calls \in Seq(C)
  BY DEF CallsInv
<1>2. \A c \in C : c.node \in DOMAIN P /\ c.ids \in Seq(Nat)
  OBVIOUS
<1> HIDE DEF C
<1>3. /\ Len(calls) \in Nat /\ DOMAIN calls = 1 .. Len(calls)
      /\ \A k \in DOMAIN calls : calls[k] \in C
  BY <1>1
<1>4. Len(calls) >= 1
  BY <1>1
<1>5. Top = calls[Len(calls)]
  BY DEF Top, Last
<1> QED
  BY <1>2, <1>3, <1>4, <1>5 DEF C

LEMMA OnlyOne ==
    ASSUME NEW S, NEW s \in Seq(S), NEW x \in S, NEW t, Append(s, x) = t, Len(t) = 1
    PROVE  s = <<>>
<1>1. Len(s) \in Nat /\ Len(t) = Len(s) + 1
  OBVIOUS
<1>2. Len(s) = 0
  BY <1>1
<1> QED
  BY <1>2

LEMMA NotNone ==
    ASSUME NEW S, NEW s \in Seq(S), s # <<>>, Len(s) < 2
    PROVE  Len(s) = 1
<1>1. PICK n \in Nat : n = Len(s)
  OBVIOUS
<1>2. n # 0
  BY <1>1
<1> QED
  BY <1>1, <1>2

LEMMA FrontIs ==
    ASSUME NEW S, NEW s \in Seq(S), s # <<>>
    PROVE  /\ Len(s) \in Nat /\ Len(s) >= 1
           /\ Front(s) \in Seq(S) /\ Len(Front(s)) = Len(s) - 1
           /\ \A k \in 1 .. Len(s) - 1 : Front(s)[k] = s[k]
<1>1. Len(s) \in Nat /\ Len(s) >= 1
  OBVIOUS
<1>2. Front(s) = SubSeq(s, 1, Len(s) - 1)
  BY DEF Front
<1> DEFINE n == Len(s) - 1
<1>3. n \in Int /\ n >= 0 /\ n - 1 + 1 = n
  BY <1>1
<1>4. \A i \in 1 .. n : s[i] \in S /\ 1 + i - 1 = i
  BY <1>1
<1> HIDE DEF n
<1>5. /\ SubSeq(s, 1, n) \in Seq(S)
      /\ Len(SubSeq(s, 1, n)) = IF 1 <= n THEN n - 1 + 1 ELSE 0
      /\ \A i \in 1 .. n - 1 + 1 : SubSeq(s, 1, n)[i] = s[1 + i - 1]
  BY <1>3, <1>4, SubSeqProperties
<1>6. Len(SubSeq(s, 1, n)) = n /\ \A i \in 1 .. n : SubSeq(s, 1, n)[i] = s[i]
  BY <1>3, <1>4, <1>5
<1> QED
  BY <1>1, <1>2, <1>5, <1>6 DEF n

LEMMA LastReplaced ==
    ASSUME NEW S, NEW s \in Seq(S), NEW d \in S, NEW m \in Nat, m >= 1, Len(s) = m,
           NEW t, t = [s EXCEPT ![m] = d]
    PROVE  /\ t \in Seq(S) /\ Len(t) = m /\ t # <<>> /\ t[m] = d
           /\ \A k \in 1 .. m - 1 : t[k] = s[k]
<1>1. DOMAIN s = 1 .. m /\ s = [k \in 1 .. m |-> s[k]] /\ \A k \in 1 .. m : s[k] \in S
  OBVIOUS
<1>2. t = [k \in 1 .. m |-> IF k = m THEN d ELSE s[k]]
  BY <1>1
<1>3. t \in Seq(S) /\ Len(t) = m
  BY <1>1, <1>2
<1>4. t # <<>>
  BY <1>3
<1> QED
  BY <1>2, <1>3, <1>4

(* The innermost call is gone, its caller has one id more. *)
LEMMA ReturnCalls ==
    ASSUME NEW P, CallsInv(P), calls # <<>>, NEW id \in Nat, Return(id)
    PROVE  /\ Len(calls) = 1 => calls' = <<>> /\ result' = id
           /\ Len(calls) > 1 =>
                  /\ result' = result
                  /\ calls' # <<>> /\ Len(calls') = Len(calls) - 1
                  /\ calls' \in Seq([node : DOMAIN P, ids : Seq(Nat)])
                  /\ \A k \in 1 .. Len(calls) - 2 : calls'[k] = calls[k]
                  /\ calls'[Len(calls) - 1].node = calls[Len(calls) - 1].node
                  /\ calls'[Len(calls) - 1].ids = Append(calls[Len(calls) - 1].ids, id)
<1> DEFINE C == [node : DOMAIN P, ids : Seq(Nat)]
           callers == Front(calls)
<1>1. calls \in Seq(C)
  BY DEF CallsInv
<1>2. \A c \in C : /\ c.ids \in Seq(Nat)
                   /\ [c EXCEPT !.ids = Append(c.ids, id)] \in C
                   /\ [c EXCEPT !.ids = Append(c.ids, id)].node = c.node
                   /\ [c EXCEPT !.ids = Append(c.ids, id)].ids = Append(c.ids, id)
  <2> SUFFICES ASSUME NEW c \in C
               PROVE  /\ c.ids \in Seq(Nat)
                      /\ [c EXCEPT !.ids = Append(c.ids, id)] \in C
                      /\ [c EXCEPT !.ids = Append(c.ids, id)].node = c.node
                      /\ [c EXCEPT !.ids = Append(c.ids, id)].ids = Append(c.ids, id)
    OBVIOUS
  <2>1. c.ids \in Seq(Nat)
    OBVIOUS
  <2>2. Append(c.ids, id) \in Seq(Nat)
    BY <2>1
  <2> QED
    BY <2>1, <2>2
<1>3. calls' = IF callers = <<>> THEN <<>>
               ELSE [callers EXCEPT ![Len(callers)] =
                       [callers[Len(callers)] EXCEPT !.ids = Append(callers[Len(callers)].ids, id)]]
  BY DEF Return
<1>4. result' = IF callers = <<>> THEN id ELSE result
  BY DEF Return
<1> HIDE DEF C
<1>5. /\ Len(calls) \in Nat /\ Len(calls) >= 1
      /\ callers \in Seq(C) /\ Len(callers) = Len(calls) - 1
      /\ \A k \in 1 .. Len(calls) - 1 : callers[k] = calls[k]
  BY <1>1, FrontIs
<1> HIDE DEF callers
<1>6. CASE Len(calls) = 1
  <2>1. callers = <<>>
    BY <1>5, <1>6
  <2> QED
    BY <2>1, <1>3, <1>4, <1>6
<1>7. CASE Len(calls) > 1
  <2> DEFINE m == Len(calls) - 1
             c == callers[m]
             d == [c EXCEPT !.ids = Append(c.ids, id)]
  <2>1. m \in Nat /\ m >= 1 /\ m \in 1 .. m /\ Len(callers) = m
    BY <1>5, <1>7
  <2>2. callers # <<>> /\ c \in C /\ c = calls[m]
    BY <2>1, <1>5
  <2>3. d \in C /\ d.node = c.node /\ d.ids = Append(c.ids, id)
    BY <2>2, <1>2
  <2>4. calls' = [callers EXCEPT ![m] = d]
    BY <1>3, <2>1, <2>2
  <2>5. result' = result
    BY <1>4, <2>2
  <2>6. Len(calls) - 2 = m - 1
    BY <1>5
  <2> HIDE DEF m, c, d
  <2>7. /\ calls' \in Seq(C) /\ Len(calls') = m /\ calls' # <<>> /\ calls'[m] = d
        /\ \A k \in 1 .. m - 1 : calls'[k] = callers[k]
    BY <2>1, <2>3, <2>4, <1>5, LastReplaced
  <2>8. \A k \in 1 .. m - 1 : callers[k] = calls[k]
    BY <2>1, <1>5 DEF m
  <2>9. calls' \in Seq([node : DOMAIN P, ids : Seq(Nat)])
    BY <2>7 DEF C
  <2>10. calls'[m].node = calls[m].node /\ calls'[m].ids = Append(calls[m].ids, id)
    BY <2>2, <2>3, <2>7 DEF m
  <2>11. \A k \in 1 .. m - 1 : calls'[k] = calls[k]
    BY <2>7, <2>8
  <2>12. m = Len(calls) - 1
    BY DEF m
  <2>13. /\ calls'[Len(calls) - 1].node = calls[Len(calls) - 1].node
         /\ calls'[Len(calls) - 1].ids = Append(calls[Len(calls) - 1].ids, id)
         /\ Len(calls') = Len(calls) - 1
    BY <2>7, <2>10, <2>12
  <2>14. \A k \in 1 .. Len(calls) - 2 : calls'[k] = calls[k]
    BY <2>6, <2>11
  <2>15. calls' # <<>> /\ Len(calls) # 1
    BY <2>7, <1>5, <1>7
  <2> QED
    BY <2>5, <2>9, <2>13, <2>14, <2>15
<1> QED
  BY <1>5, <1>6, <1>7

(* A return of the id of a complete run that no merge has read, and that holds the *)
(* elements under the node, keeps the invariant of the calls, as long as what the  *)
(* callers have and expect is not touched.                                         *)
LEMMA ReturnKeeps ==
    ASSUME NEW P, PlanInv(P), CallsInv(P), calls # <<>>, NEW id \in Nat, Return(id),
           UNCHANGED <<lengths, pq>>, ~merging',
           \A r \in Complete : r \in Complete' /\ runs'[r] = runs[r],
           id + 1 \in Complete', Live(id + 1)', ToSet(runs'[id + 1]) = P[Top.node],
           \A k \in 1 .. Len(calls) - 1 :
               /\ \A r \in Complete : \A j \in DOMAIN calls[k].ids :
                      r = calls[k].ids[j] + 1 => Live(r)'
               /\ calls[k].ids = <<>> => \A S : S = P[calls[k].node.right] => Untouched(S)'
    PROVE  CallsInv(P)'
<1> DEFINE C == [node : DOMAIN P, ids : Seq(Nat)]
<1>1. PICK n \in Nat : n = Len(calls) /\ n >= 1
  BY CallTypes
<1>2. /\ DOMAIN calls = 1 .. n /\ Top = calls[n]
      /\ \A k \in 1 .. n : calls[k].node \in DOMAIN P /\ calls[k].ids \in Seq(Nat)
  BY <1>1, CallTypes
<1>3. /\ \A k \in 1 .. n : CallInv(P, k)
      /\ \A k, m \in 1 .. n : k < m => P[calls[m].node] \subseteq P[Child(calls[k])]
      /\ pq = {calls[1].node} /\ result = Null
  BY <1>2 DEF CallsInv
<1> HIDE DEF C
<1>4. CASE n = 1
  <2>1. calls' = <<>> /\ result' = id
    BY <1>1, <1>4, ReturnCalls
  <2>2. P[Top.node] = Elements
    <3>1. UNION {P[t] : t \in {calls[1].node}} = Elements
      BY <1>3 DEF PlanInv
    <3> QED
      BY <3>1, <1>2, <1>4
  <2>3. result' # Null /\ Elements' = Elements /\ pq' = {calls[1].node}
    BY <2>1, <1>3, SizesAssumption, SameInitial
  <2>4. calls' \in Seq(C)
    BY <2>1
  <2>5. calls[1].node \in pq'
    BY <2>3
  <2> QED
    BY <2>1, <2>2, <2>3, <2>4, <2>5 DEF CallsInv, C
<1>5. CASE n > 1
  <2>1. PICK m \in Nat : m = n - 1 /\ m >= 1
    BY <1>1, <1>5
  <2>2. PICK old : old = calls[m]
    OBVIOUS
  <2>3. PICK new : new = calls'[m]
    OBVIOUS
  <2>4. n > 1 /\ Len(calls) > 1 /\ Len(calls) - 1 = m /\ Len(calls) - 2 = m - 1
    BY <1>1, <1>5, <2>1
  <2>5. /\ result' = Null /\ calls' # <<>> /\ Len(calls') = m /\ calls' \in Seq(C)
        /\ \A k \in 1 .. m - 1 : calls'[k] = calls[k]
        /\ new.node = old.node /\ new.ids = Append(old.ids, id)
    <3>1. /\ result' = result /\ calls' # <<>> /\ Len(calls') = Len(calls) - 1
          /\ calls' \in Seq([node : DOMAIN P, ids : Seq(Nat)])
          /\ \A k \in 1 .. Len(calls) - 2 : calls'[k] = calls[k]
          /\ calls'[Len(calls) - 1].node = calls[Len(calls) - 1].node
          /\ calls'[Len(calls) - 1].ids = Append(calls[Len(calls) - 1].ids, id)
      BY <2>4, ReturnCalls
    <3>2. calls' \in Seq(C)
      BY <3>1 DEF C
    <3>3. result' = Null
      BY <3>1, <1>3
    <3>4. new.node = old.node /\ new.ids = Append(old.ids, id)
      BY <3>1, <2>2, <2>3, <2>4
    <3>5. \A k \in 1 .. m - 1 : calls'[k] = calls[k]
      BY <3>1, <2>4
    <3> QED
      BY <3>1, <3>2, <3>3, <3>4, <3>5, <2>4
  <2>6. m \in 1 .. n /\ n \in 1 .. n /\ m + 1 = n /\ m < n
    BY <2>1, <1>1
  <2>7. DOMAIN calls' = 1 .. m
    BY <2>5
  <2>8. /\ old.ids \in Seq(Nat) /\ Len(old.ids) < 2 /\ calls[n].node = Child(old)
        /\ ~old.node.is_leaf
    <3>1. CallInv(P, m) /\ old.ids \in Seq(Nat)
      BY <1>2, <1>3, <2>2, <2>6
    <3> QED
      BY <3>1, <1>1, <2>2, <2>6 DEF CallInv
  <2>9. \A k \in 1 .. m - 1 : CallInv(P, k)'
    <3> SUFFICES ASSUME NEW k \in 1 .. m - 1 PROVE CallInv(P, k)'
      OBVIOUS
    <3>1. /\ k \in 1 .. n /\ calls'[k] = calls[k] /\ k < n /\ k < m /\ k # n
          /\ k + 1 \in 1 .. m /\ k \in 1 .. Len(calls) - 1 /\ k \in Nat
      BY <2>1, <2>4, <2>5
    <3>2. calls'[k + 1].node = calls[k + 1].node
      <4>1. CASE k + 1 = m
        BY <4>1, <2>2, <2>3, <2>5
      <4>2. CASE k + 1 < m
        <5>1. k + 1 \in 1 .. m - 1
          BY <4>2, <3>1, <2>1
        <5> QED
          BY <5>1, <2>5
      <4> QED
        BY <4>1, <4>2, <3>1, <2>1
    <3>3. CallInv(P, k)
      BY <3>1, <1>3
    <3> DEFINE c == calls[k]
    <3>4. /\ Len(c.ids) <= 2 /\ Len(c.ids) < 2 /\ ~c.node.is_leaf
          /\ calls[k + 1].node = Child(c)
          /\ \A j \in DOMAIN c.ids : c.ids[j] + 1 \in Complete
                /\ ToSet(runs[c.ids[j] + 1]) = P[ChildAt(c, j)]
      BY <3>1, <3>3, <1>1 DEF CallInv
    <3>5. \A j \in DOMAIN c.ids : /\ c.ids[j] + 1 \in Complete'
                                  /\ ToSet(runs'[c.ids[j] + 1]) = P[ChildAt(c, j)]
      BY <3>4
    <3>6. \A r \in Complete : \A j \in DOMAIN c.ids : r = c.ids[j] + 1 => Live(r)'
      BY <3>1
    <3>7. \A j \in DOMAIN calls'[k].ids : Live(calls[k].ids[j] + 1)'
      BY <3>1, <3>4, <3>6 DEF Live
    <3>8. c.ids = <<>> => Untouched(P[calls[k].node.right])'
      BY <3>1 DEF Untouched
    <3> QED
      BY <3>1, <3>2, <3>4, <3>5, <3>7, <3>8, <2>5 DEF CallInv, ChildAt, Child
  <2>10. /\ Len(new.ids) = Len(old.ids) + 1 /\ Len(old.ids) \in Nat
         /\ Len(new.ids) <= 2 /\ new.ids # <<>>
    <3>1. Len(new.ids) = Len(old.ids) + 1 /\ Len(old.ids) \in Nat
      BY <2>5, <2>8
    <3>2. Len(<<>>) = 0
      OBVIOUS
    <3> QED
      BY <3>1, <3>2, <2>8
  <2>11. CallInv(P, m)'
    <3>1. ASSUME NEW j \in DOMAIN new.ids
          PROVE  /\ new.ids[j] + 1 \in Complete'
                 /\ \A r : r = new.ids[j] + 1 => Live(r)'
                 /\ ToSet(runs'[new.ids[j] + 1]) = P[ChildAt(new, j)]
      <4>1. CASE j = Len(old.ids) + 1
        <5>1. new.ids[j] = id
          BY <4>1, <2>5, <2>8
        <5>2. ChildAt(new, j) = calls[n].node
          <6>1. j = 1 <=> old.ids = <<>>
            BY <4>1, <2>8
          <6> QED
            BY <6>1, <2>5, <2>8 DEF ChildAt, Child
        <5>3. \A r : r = id + 1 => Live(r)'
          BY DEF Live
        <5> QED
          BY <5>1, <5>2, <5>3, <1>2
      <4>2. CASE j # Len(old.ids) + 1
        <5>1. j \in DOMAIN old.ids /\ new.ids[j] = old.ids[j]
          BY <4>2, <2>5, <2>8, <2>10
        <5>2. /\ old.ids[j] + 1 \in Complete
              /\ ToSet(runs[old.ids[j] + 1]) = P[ChildAt(old, j)]
          BY <5>1, <1>3, <2>2, <2>6 DEF CallInv
        <5>3. m \in 1 .. Len(calls) - 1
          BY <2>1, <2>4
        <5>4. \A r : r = old.ids[j] + 1 => Live(r)'
          BY <5>1, <5>2, <5>3, <2>2
        <5>5. ChildAt(new, j) = ChildAt(old, j)
          BY <2>5 DEF ChildAt
        <5>6. ToSet(runs'[old.ids[j] + 1]) = P[ChildAt(old, j)] /\ old.ids[j] + 1 \in Complete'
          BY <5>2
        <5> QED
          BY <5>1, <5>4, <5>5, <5>6
      <4> QED
        BY <4>1, <4>2
    <3>2. ~new.node.is_leaf
      BY <2>5, <2>8
    <3>3. \A j \in DOMAIN new.ids : Live(calls[m].ids[j] + 1)'
      BY <3>1, <2>3 DEF Live
    <3> QED
      BY <3>1, <3>2, <3>3, <2>1, <2>3, <2>5, <2>10 DEF CallInv, ChildAt
  <2>12. \A k, l \in 1 .. m : k < l => P[calls'[l].node] \subseteq P[Child(calls'[k])]
    <3> SUFFICES ASSUME NEW k \in 1 .. m, NEW l \in 1 .. m, k < l
                 PROVE  P[calls'[l].node] \subseteq P[Child(calls'[k])]
      OBVIOUS
    <3>1. k \in 1 .. m - 1 /\ k \in 1 .. n /\ l \in 1 .. n /\ (l = m \/ l \in 1 .. m - 1)
      BY <2>1
    <3>2. calls'[k] = calls[k] /\ calls'[l].node = calls[l].node
      BY <3>1, <2>2, <2>3, <2>5
    <3> QED
      BY <3>1, <3>2, <1>3
  <2>13. pq' = {calls'[1].node}
    <3>1. 1 = m \/ 1 \in 1 .. m - 1
      BY <2>1
    <3>2. calls'[1].node = calls[1].node
      BY <3>1, <2>2, <2>3, <2>5
    <3> QED
      BY <3>2, <1>3
  <2>14. Top' = new
    <3>1. Top' = calls'[Len(calls')]
      BY DEF Top, Last
    <3> QED
      BY <3>1, <2>3, <2>5
  <2>15. ASSUME Len(new.ids) = 1 PROVE Untouched(P[Top.node.right])'
    <3>1. old.ids = <<>>
      <4>1. old.ids \in Seq(Nat) /\ Append(old.ids, id) = new.ids
        BY <2>5, <2>8
      <4> QED
        BY <4>1, <2>15, OnlyOne
    <3>2. m \in 1 .. Len(calls) - 1
      BY <2>1, <2>4
    <3>3. \A S : S = P[old.node.right] => Untouched(S)'
      BY <3>1, <3>2, <2>2
    <3>4. Top'.node.right = old.node.right
      BY <2>5, <2>14
    <3> QED
      BY <3>3, <3>4 DEF Untouched
  <2>16. \A k \in DOMAIN calls' : CallInv(P, k)'
    <3> SUFFICES ASSUME NEW k \in 1 .. m PROVE CallInv(P, k)'
      BY <2>7
    <3>1. k \in 1 .. m - 1 \/ k = m
      BY <2>1
    <3>2. CASE k = m
      BY <3>2, <2>11 DEF CallInv
    <3> QED
      BY <3>1, <3>2, <2>9
  <2>17. calls' \in Seq([node : DOMAIN P, ids : Seq(Nat)])
    BY <2>5 DEF C
  <2>18. Top'.ids # <<>> /\ (Len(Top'.ids) = 1 => Untouched(P[Top.node.right])')
    BY <2>10, <2>14, <2>15
  <2> QED
    BY <2>5, <2>7, <2>12, <2>13, <2>16, <2>17, <2>18 DEF CallsInv
<1> QED
  BY <1>1, <1>4, <1>5

(* A leaf is an initial run. *)
LEMMA ReturnLeafIInv == IInv /\ ReturnLeaf => IInv'
<1> SUFFICES ASSUME IInv, ReturnLeaf PROVE IInv'
  OBVIOUS
<1>1. PICK P : PlanInv(P) /\ CallsInv(P)
  BY DEF IInv
<1>2. /\ calls # <<>> /\ Top.node.is_leaf
      /\ UNCHANGED <<lengths, pq, key, runs, merging, buf1, buf2, out>>
  BY DEF ReturnLeaf
<1>i. PICK id : id = Top.node.id
  OBVIOUS
<1>3. Return(id)
  BY <1>i DEF ReturnLeaf
<1>4. /\ Top = calls[Len(calls)] /\ Len(calls) \in DOMAIN calls
      /\ Top.node \in DOMAIN P
  BY <1>1, <1>2, CallTypes
<1>5. id \in DOMAIN lengths /\ P[Top.node] = ElementsOf(id)
  BY <1>1, <1>2, <1>4, <1>i DEF PlanInv, IsParts
<1>6. /\ id \in Nat /\ id + 1 \in 1 .. NumInitial /\ (id + 1) - 1 = id
      /\ NumInitial \in Nat
  BY <1>5, Numbers DEF IInv, Types
<1>7. Top.ids = <<>>
  BY <1>1, <1>2, <1>4 DEF CallsInv, CallInv
<1>8. ~merging
  BY <1>2, <1>7 DEF IInv, MergeInv
<1>9. lengths \in LengthChoices
  BY DEF IInv, Types
<1>10. /\ id + 1 \in Complete
       /\ runs[id + 1] = InitialRuns[id + 1]
       /\ ToSet(runs[id + 1]) = P[Top.node]
  <2>1. ToSet(InitialRuns[id + 1]) = ElementsOf(id)
    BY <1>6, <1>9, InitialRun
  <2> QED
    BY <2>1, <1>5, <1>6 DEF IInv, RunsInv
<1>11. Untouched(P[Top.node])
  BY <1>1, <1>2, <1>7 DEF CallsInv
<1>12. Live(id + 1)
  <2> SUFFICES ASSUME NEW later \in Complete, later > id + 1
               PROVE  ToSet(runs[id + 1]) \cap ToSet(runs[later]) = {}
    BY DEF Live
  <2>1. CASE later > NumInitial
    BY <2>1, <1>10, <1>11 DEF Untouched
  <2>2. CASE later <= NumInitial
    <3>1. later \in 1 .. NumInitial /\ later # id + 1
      BY <2>2, <1>6 DEF Complete
    <3>2. runs[later] = InitialRuns[later]
      BY <3>1 DEF IInv, RunsInv
    <3> QED
      BY <3>1, <3>2, <1>6, <1>9, <1>10, InitialRunsDisjoint
  <2> QED
    BY <2>1, <2>2, <1>6 DEF Complete
<1>13. Complete' = Complete /\ runs' = runs /\ lengths' = lengths /\ key' = key
  BY <1>2 DEF Complete
<1>14. /\ \A r \in Complete : Live(r) => Live(r)'
       /\ \A S : Untouched(S) => Untouched(S)'
       /\ RunsInv'
  <2>1. RunsInv /\ Complete \subseteq DOMAIN runs'
    BY <1>13 DEF IInv, RunsInv
  <2> QED
    BY <2>1, <1>13, SameRuns
<1>15. CallsInv(P)'
  <2>1. \A k \in 1 .. Len(calls) - 1 :
            /\ \A r \in Complete : \A j \in DOMAIN calls[k].ids :
                   r = calls[k].ids[j] + 1 => Live(r)'
            /\ calls[k].ids = <<>> => \A S : S = P[calls[k].node.right] => Untouched(S)'
    <3> SUFFICES ASSUME NEW k \in 1 .. Len(calls) - 1
                 PROVE  /\ \A r \in Complete : \A j \in DOMAIN calls[k].ids :
                               r = calls[k].ids[j] + 1 => Live(r)
                        /\ calls[k].ids = <<>> => Untouched(P[calls[k].node.right])
      BY <1>14
    <3>1. k \in DOMAIN calls /\ k # Len(calls)
      BY <1>1, <1>2, CallTypes
    <3>2. CallInv(P, k)
      BY <3>1, <1>1 DEF CallsInv
    <3> QED
      BY <3>1, <3>2 DEF CallInv
  <2>2. /\ \A r \in Complete : r \in Complete' /\ runs'[r] = runs[r]
        /\ id + 1 \in Complete' /\ ToSet(runs'[id + 1]) = P[Top.node]
        /\ ~merging' /\ UNCHANGED <<lengths, pq>>
    BY <1>2, <1>8, <1>10, <1>13
  <2>3. \A r \in Complete : r = id + 1 => Live(r)'
    BY <1>12, <1>14
  <2>4. Live(id + 1)'
    BY <2>3, <1>10
  <2> QED
    BY <2>1, <2>2, <2>4, <1>1, <1>2, <1>3, <1>6, ReturnKeeps
<1>16. PlanInv(P)'
  BY <1>1, <1>2, SamePlan
<1>17. MergeInv'
  BY <1>2, <1>8 DEF MergeInv
<1>18. Types'
  <2>1. result' \in Nat \cup {Null}
    BY <1>3, <1>6 DEF Return, IInv, Types
  <2> QED
    BY <2>1, <1>2, SameInitial DEF IInv, Types
<1> QED
  BY <1>14, <1>15, <1>16, <1>17, <1>18 DEF IInv

LEMMA CallChildIInv == IInv /\ CallChild => IInv'
<1> SUFFICES ASSUME IInv, CallChild PROVE IInv'
  OBVIOUS
<1>1. PICK P : PlanInv(P) /\ CallsInv(P)
  BY DEF IInv
<1> DEFINE C == [node : DOMAIN P, ids : Seq(Nat)]
<1>2. /\ calls # <<>> /\ ~Top.node.is_leaf /\ ~merging /\ Len(Top.ids) < 2
      /\ UNCHANGED <<lengths, pq, key, runs, result, merging, buf1, buf2, out>>
  BY DEF CallChild, Inner
<1>3. PICK n \in Nat : n = Len(calls) /\ n >= 1
  BY <1>1, <1>2, CallTypes
<1>4. PICK c : c = Top
  OBVIOUS
<1>5. PICK child : child = Child(c)
  OBVIOUS
<1>6. calls' = Append(calls, Call(child))
  BY <1>4, <1>5 DEF CallChild, Child
<1>7. /\ DOMAIN calls = 1 .. n /\ n \in 1 .. n /\ c = calls[n]
      /\ c.node \in DOMAIN P /\ c.ids \in Seq(Nat)
  BY <1>1, <1>2, <1>3, <1>4, CallTypes
<1>8. /\ ~c.node.is_leaf /\ Len(c.ids) < 2
      /\ child \in DOMAIN P /\ P[child] \subseteq P[c.node]
  <2>1. ~c.node.is_leaf /\ Len(c.ids) < 2
    BY <1>2, <1>4
  <2>2. /\ c.node.left \in DOMAIN P /\ c.node.right \in DOMAIN P
        /\ P[c.node] = P[c.node.left] \cup P[c.node.right]
    BY <2>1, <1>1, <1>7 DEF PlanInv, IsParts
  <2> QED
    BY <2>1, <2>2, <1>5 DEF Child
<1>9. Untouched(P[child])
  <2>1. CASE c.ids = <<>>
    <3>1. Untouched(P[c.node])
      BY <2>1, <1>1, <1>2, <1>4 DEF CallsInv
    <3> QED
      BY <3>1, <1>8 DEF Untouched
  <2>2. CASE c.ids # <<>>
    <3>1. Len(c.ids) = 1
      BY <2>2, <1>7, <1>8, NotNone
    <3> QED
      BY <2>2, <3>1, <1>1, <1>2, <1>4, <1>5 DEF CallsInv, Child
  <2> QED
    BY <2>1, <2>2
<1>10. Call(child) \in C /\ Call(child).node = child /\ Call(child).ids = <<>>
  <2>1. <<>> \in Seq(Nat)
    OBVIOUS
  <2> QED
    BY <2>1, <1>8 DEF Call
<1>11. calls \in Seq(C)
  BY <1>1 DEF CallsInv
<1> HIDE DEF C
<1>12. /\ calls' \in Seq(C) /\ Len(calls') = n + 1 /\ DOMAIN calls' = 1 .. n + 1
       /\ calls'[n + 1] = Call(child) /\ \A k \in 1 .. n : calls'[k] = calls[k]
  BY <1>3, <1>6, <1>10, <1>11
<1>13. calls' # <<>> /\ n + 1 \in 1 .. n + 1
  BY <1>3, <1>12
<1>14. Complete' = Complete /\ runs' = runs /\ lengths' = lengths /\ key' = key
  BY <1>2 DEF Complete
<1>15. /\ \A r \in Complete : Live(r) => Live(r)'
       /\ \A S : Untouched(S) => Untouched(S)'
       /\ RunsInv'
  <2>1. RunsInv /\ Complete \subseteq DOMAIN runs'
    BY <1>14 DEF IInv, RunsInv
  <2> QED
    BY <2>1, <1>14, SameRuns
<1>16. \A k \in 1 .. n : CallInv(P, k)'
  <2> SUFFICES ASSUME NEW k \in 1 .. n PROVE CallInv(P, k)'
    OBVIOUS
  <2>1. CallInv(P, k) /\ calls'[k] = calls[k]
    BY <1>1, <1>7, <1>12 DEF CallsInv
  <2>2. PICK d : d = calls[k]
    OBVIOUS
  <2>3. Len(d.ids) < 2 /\ ~d.node.is_leaf /\ calls'[k + 1].node = Child(d)
    <3>1. CASE k = n
      BY <3>1, <2>2, <1>5, <1>7, <1>8, <1>10, <1>12
    <3>2. CASE k # n
      <4>1. k < n /\ k + 1 \in 1 .. n
        BY <3>2, <1>3
      <4> QED
        BY <4>1, <2>1, <2>2, <1>3, <1>12 DEF CallInv
    <3> QED
      BY <3>1, <3>2
  <2>4. \A j \in DOMAIN d.ids :
            /\ d.ids[j] + 1 \in Complete /\ Live(d.ids[j] + 1)
            /\ ToSet(runs[d.ids[j] + 1]) = P[ChildAt(d, j)]
    BY <2>1, <2>2 DEF CallInv
  <2>5. \A j \in DOMAIN d.ids : Live(d.ids[j] + 1)'
    BY <2>4, <1>15
  <2>6. d.ids = <<>> => Untouched(P[d.node.right])'
    BY <2>1, <2>2, <2>3, <1>15 DEF CallInv
  <2>7. calls'[k] = d /\ Len(d.ids) <= 2
    BY <2>1, <2>2 DEF CallInv
  <2>8. \A j \in DOMAIN calls[k].ids : Live(calls[k].ids[j] + 1)'
    BY <2>1, <2>2, <2>5 DEF Live
  <2>9. calls[k].ids = <<>> => Untouched(P[calls[k].node.right])'
    BY <2>1, <2>2, <2>6 DEF Untouched
  <2> QED
    BY <2>3, <2>4, <2>5, <2>6, <2>7, <1>14 DEF CallInv, Child, ChildAt, Live, Untouched
<1>17. CallInv(P, n + 1)'
  <2>1. calls'[n + 1].ids = <<>> /\ calls'[n + 1].node = child
    BY <1>10, <1>12
  <2>2. ~child.is_leaf => P[child.right] \subseteq P[child]
    BY <1>1, <1>8 DEF PlanInv, IsParts
  <2>3. ~child.is_leaf => Untouched(P[child.right])'
    <3>1. ~child.is_leaf => Untouched(P[child.right])
      BY <2>2, <1>9 DEF Untouched
    <3> QED
      BY <3>1, <1>15
  <2> QED
    BY <2>1, <2>3, <1>12 DEF CallInv, Untouched
<1>18. \A k, m \in 1 .. n + 1 : k < m => P[calls'[m].node] \subseteq P[Child(calls'[k])]
  <2> SUFFICES ASSUME NEW k \in 1 .. n + 1, NEW m \in 1 .. n + 1, k < m
               PROVE  P[calls'[m].node] \subseteq P[Child(calls'[k])]
    OBVIOUS
  <2>1. k \in 1 .. n /\ calls'[k] = calls[k]
    BY <1>3, <1>12
  <2>2. CASE m # n + 1
    <3>1. m \in 1 .. n
      BY <2>2, <1>3
    <3> QED
      BY <3>1, <2>1, <1>1, <1>7, <1>12 DEF CallsInv
  <2>3. CASE m = n + 1 /\ k = n
    BY <2>3, <2>1, <1>5, <1>7, <1>10, <1>12
  <2>4. CASE m = n + 1 /\ k # n
    <3>1. k < n /\ P[calls'[m].node] \subseteq P[c.node]
      BY <2>1, <2>4, <1>3, <1>8, <1>10, <1>12
    <3>2. P[calls[n].node] \subseteq P[Child(calls[k])]
      BY <3>1, <2>1, <1>1, <1>7 DEF CallsInv
    <3> QED
      BY <3>1, <3>2, <2>1, <1>7
  <2> QED
    BY <2>2, <2>3, <2>4
<1>19. CallsInv(P)'
  <2>1. \A k \in DOMAIN calls' : CallInv(P, k)'
    <3> SUFFICES ASSUME NEW k \in 1 .. n + 1 PROVE CallInv(P, k)'
      BY <1>12
    <3>1. k \in 1 .. n \/ k = n + 1
      BY <1>3
    <3>2. CASE k = n + 1
      BY <3>2, <1>17 DEF CallInv
    <3> QED
      BY <3>1, <3>2, <1>16
  <2>2. pq' = {calls'[1].node} /\ result' = Null
    <3>1. 1 \in 1 .. n
      BY <1>3
    <3> QED
      BY <3>1, <1>1, <1>2, <1>12 DEF CallsInv
  <2>3. Top' = Call(child)
    <3>1. Top' = calls'[Len(calls')]
      BY DEF Top, Last
    <3> QED
      BY <3>1, <1>12
  <2>4. Untouched(P[Top.node])' /\ Top'.ids = <<>>
    <3>1. Untouched(P[child])'
      BY <1>9, <1>15
    <3> QED
      BY <3>1, <2>3, <1>10 DEF Untouched
  <2>5. Len(<<>>) # 1
    OBVIOUS
  <2>6. calls' \in Seq([node : DOMAIN P, ids : Seq(Nat)])
    BY <1>12 DEF C
  <2> QED
    BY <2>1, <2>2, <2>4, <2>5, <2>6, <1>12, <1>13, <1>18 DEF CallsInv
<1>20. PlanInv(P)'
  BY <1>1, <1>2, SamePlan
<1>21. MergeInv' /\ Types'
  BY <1>2, SameInitial DEF IInv, Types, MergeInv
<1> QED
  BY <1>15, <1>19, <1>20, <1>21 DEF IInv

----------------------------------------------------------------------------
(* A merge. *)

(* The innermost call, when it has both ids. *)
LEMMA BothIds ==
    ASSUME NEW P, PlanInv(P), CallsInv(P), calls # <<>>, Len(Top.ids) = 2
    PROVE  /\ ~Top.node.is_leaf
           /\ \A j \in {1, 2} : /\ Top.ids[j] \in Nat /\ Top.ids[j] + 1 \in Complete
                                /\ Live(Top.ids[j] + 1)
           /\ ToSet(runs[Top.ids[1] + 1]) = P[Top.node.left]
           /\ ToSet(runs[Top.ids[2] + 1]) = P[Top.node.right]
           /\ Top.node \in DOMAIN P
           /\ Top.node.left \in DOMAIN P /\ Top.node.right \in DOMAIN P
           /\ P[Top.node] = P[Top.node.left] \cup P[Top.node.right]
           /\ P[Top.node.left] \cap P[Top.node.right] = {}
           /\ P[Top.node.left] # {} /\ P[Top.node.right] # {}
<1>1. PICK c : c = Top
  OBVIOUS
<1>2. /\ c = calls[Len(calls)] /\ Len(calls) \in DOMAIN calls
      /\ c.node \in DOMAIN P /\ c.ids \in Seq(Nat) /\ Len(c.ids) = 2
  BY <1>1, CallTypes
<1>3. CallInv(P, Len(calls))
  BY <1>2 DEF CallsInv
<1>s. PICK s \in Seq(Nat) : s = c.ids /\ Len(s) = 2
  BY <1>2
<1>4. 1 \in DOMAIN c.ids /\ 2 \in DOMAIN c.ids /\ c.ids[1] \in Nat /\ c.ids[2] \in Nat
  <2>1. 1 \in DOMAIN s /\ 2 \in DOMAIN s /\ s[1] \in Nat /\ s[2] \in Nat
    BY <1>s, SMTT(60)
  <2> QED
    BY <2>1, <1>s
<1>5. ~c.node.is_leaf
  <2>1. c.ids # <<>>
    BY <1>4
  <2> QED
    BY <2>1, <1>2, <1>3 DEF CallInv
<1>6. \A j \in DOMAIN c.ids :
          /\ c.ids[j] + 1 \in Complete /\ Live(c.ids[j] + 1)
          /\ ToSet(runs[c.ids[j] + 1]) = P[ChildAt(c, j)]
  BY <1>2, <1>3 DEF CallInv
<1>7. ChildAt(c, 1) = c.node.left /\ ChildAt(c, 2) = c.node.right
  BY DEF ChildAt
<1>8. /\ c.node.left \in DOMAIN P /\ c.node.right \in DOMAIN P
      /\ P[c.node] = P[c.node.left] \cup P[c.node.right]
      /\ P[c.node.left] \cap P[c.node.right] = {}
      /\ P[c.node.left] # {} /\ P[c.node.right] # {}
  BY <1>2, <1>5 DEF PlanInv, IsParts
<1> QED
  BY <1>1, <1>2, <1>4, <1>5, <1>6, <1>7, <1>8

LEMMA Joined ==
    ASSUME NEW S, NEW s \in Seq(S), NEW t \in Seq(S), NEW x \in S
    PROVE  s \o Append(t, x) = Append(s \o t, x)
<1>1. Append(t, x) = t \o <<x>> /\ Append(s \o t, x) = (s \o t) \o <<x>>
  OBVIOUS
<1>2. <<x>> \in Seq(S)
  OBVIOUS
<1> QED
  BY <1>1, <1>2, ConcatAssociative

LEMMA NewInputReads ==
    ASSUME NEW id \in Nat, NEW s \in Seq(Elements), s = runs[id + 1]
    PROVE  /\ NewInput(id) \in Inputs /\ NewInput(id).run_id = id
           /\ NewInput(id).consumed = 0 /\ Reads(NewInput(id), s)
<1>1. NewInput(id) =
        [run_id |-> id, buffer |-> <<>>, buffer_pos |-> 0, total_size |-> Len(s), consumed |-> 0]
  BY DEF NewInput, GetRunSize
<1>2. NewInput(id) \in Inputs
  <2>1. <<>> \in Seq(Elements) /\ Len(s) \in Nat
    OBVIOUS
  <2> QED
    BY <2>1, <1>1 DEF Inputs
<1>3. Reads(NewInput(id), s)
  <2>0. PICK b : b = NewInput(id)
    OBVIOUS
  <2>1. /\ b.total_size = Len(s) /\ b.consumed = 0 /\ b.buffer_pos = 0
        /\ b.buffer = <<>> /\ Len(b.buffer) = 0
    BY <2>0, <1>1
  <2>2. Len(s) \in Nat
    OBVIOUS
  <2>3. SubSeq(s, 0 - 0 + 1, 0 - 0 + 0) = <<>>
    BY SubSeqEmpty
  <2>4. SubSeq(s, b.consumed - b.buffer_pos + 1, b.consumed - b.buffer_pos + Len(b.buffer)) = <<>>
    BY <2>1, <2>3
  <2>5. /\ b.buffer_pos <= b.consumed /\ b.buffer_pos <= Len(b.buffer)
        /\ b.consumed <= b.total_size
        /\ b.consumed - b.buffer_pos + Len(b.buffer) <= b.total_size
    BY <2>1, <2>2
  <2> QED
    BY <2>0, <2>1, <2>4, <2>5 DEF Reads
<1> QED
  BY <1>1, <1>2, <1>3

(* Nothing has been merged yet. *)
LEMMA BeginMergeIInv == IInv /\ BeginMerge => IInv'
<1> SUFFICES ASSUME IInv, BeginMerge PROVE IInv'
  OBVIOUS
<1>1. PICK P : PlanInv(P) /\ CallsInv(P)
  BY DEF IInv
<1>2. /\ calls # <<>> /\ ~merging /\ Len(Top.ids) = 2 /\ merging' = TRUE
      /\ runs' = Append(runs, <<>>) /\ out' = <<>>
      /\ UNCHANGED <<lengths, pq, key, calls, result>>
  BY DEF BeginMerge, Inner
<1>3. PICK i \in Nat, j \in Nat : i = Top.ids[1] /\ j = Top.ids[2]
  BY <1>1, <1>2, BothIds
<1>4. buf1' = NewInput(i) /\ buf2' = NewInput(j)
  BY <1>3 DEF BeginMerge
<1>5. i + 1 \in Complete /\ j + 1 \in Complete /\ ~Top.node.is_leaf
  BY <1>1, <1>2, <1>3, BothIds
<1>6. runs \in Seq(Seq(Elements))
  BY DEF IInv, Types
<1>7. Complete = 1 .. Len(runs) /\ Len(runs) \in Nat
  BY <1>2, <1>6 DEF Complete
<1>8. /\ runs' \in Seq(Seq(Elements)) /\ Len(runs') = Len(runs) + 1
      /\ runs'[Len(runs')] = <<>> /\ \A r \in Complete : runs'[r] = runs[r]
      /\ DOMAIN runs' = 1 .. Len(runs) + 1
  <2>1. <<>> \in Seq(Elements)
    OBVIOUS
  <2> QED
    BY <2>1, <1>2, <1>6, <1>7
<1>9. Complete' = Complete /\ Complete \subseteq DOMAIN runs'
  BY <1>2, <1>7, <1>8 DEF Complete
<1>10. RunsInv'
  BY <1>2, <1>8, <1>9, SameRuns DEF IInv
<1>11. CallsInv(P)' /\ PlanInv(P)'
  BY <1>1, <1>2, <1>8, <1>9, SameCalls, SamePlan
<1>12. Types'
  <2>1. out' \in Seq(Elements)
    BY <1>2
  <2> QED
    BY <2>1, <1>2, <1>8, SameInitial DEF IInv, Types
<1>13. ASSUME NEW id \in Nat, id + 1 \in Complete, NEW b, b = NewInput(id)
       PROVE  /\ InputInv(b, id)' /\ b.consumed = 0
  <2>1. runs[id + 1] \in Seq(Elements) /\ runs'[id + 1] = runs[id + 1]
    <3>1. \A r \in Complete : runs[r] \in Seq(Elements) /\ runs'[r] = runs[r]
      BY <1>6, <1>7, <1>8
    <3> QED
      BY <3>1, <1>13
  <2>2. b \in Inputs /\ b.run_id = id /\ b.consumed = 0 /\ Reads(b, runs[id + 1])
    <3>1. PICK s \in Seq(Elements) : s = runs[id + 1]
      BY <2>1
    <3>2. /\ NewInput(id) \in Inputs /\ NewInput(id).run_id = id
          /\ NewInput(id).consumed = 0 /\ Reads(NewInput(id), s)
      BY <3>1, NewInputReads
    <3> QED
      BY <3>1, <3>2, <1>13
  <2>3. b \in Inputs'
    BY <2>2, <1>2, SameInitial DEF Inputs
  <2> QED
    BY <2>1, <2>2, <2>3 DEF InputInv, Reads
<1>14. InputInv(buf1, i)' /\ InputInv(buf2, j)' /\ buf1'.consumed = 0 /\ buf2'.consumed = 0
  BY <1>4, <1>5, <1>13 DEF InputInv
<1>15. Merged' = <<>>
  <2>1. Merged' = <<>> \o <<>>
    BY <1>2, <1>8 DEF Merged
  <2> QED
    BY <2>1
<1>16. MergedInv(buf1, buf2)'
  <2>1. Taken(buf1)' = {} /\ Taken(buf2)' = {}
    BY <1>14 DEF Taken
  <2>2. ToSet(<<>>) = {} /\ Len(<<>>) = 0
    BY DEF ToSet
  <2>3. Sorting!Ascending(Merged)'
    BY <1>15 DEF Sorting!Ascending
  <2> QED
    BY <2>1, <2>2, <2>3, <1>14, <1>15 DEF MergedInv, NotBefore
<1>17. MergeInv'
  <2>1. Top' = Top /\ calls' = calls
    BY <1>2 DEF Top
  <2> QED
    BY <2>1, <1>2, <1>3, <1>5, <1>14, <1>16 DEF MergeInv
<1> QED
  BY <1>10, <1>11, <1>12, <1>17 DEF IInv

(* peek: the next element of the run is at hand, whether a block was loaded or not. *)
LEMMA PeekReads ==
    ASSUME NEW b \in Inputs, NEW s \in Seq(Elements), s = runs[b.run_id + 1],
           Reads(b, s), HasNext(b)
    PROVE  /\ Peeked(b) \in Inputs /\ Reads(Peeked(b), s)
           /\ Peeked(b).run_id = b.run_id /\ Peeked(b).consumed = b.consumed
           /\ Peeked(b).total_size = b.total_size
           /\ Peeked(b).buffer_pos < Len(Peeked(b).buffer)
<1>1. /\ b.run_id \in Nat /\ b.buffer \in Seq(Elements) /\ b.buffer_pos \in Nat
      /\ b.total_size \in Nat /\ b.consumed \in Nat
  BY DEF Inputs
<1>2. b.total_size = Len(s) /\ b.consumed < b.total_size
  BY DEF Reads, HasNext
<1>3. CASE MustLoad(b)
  <2>0. PICK c \in Nat, n \in Nat : c = b.consumed /\ n = Block(b)
    BY <1>1, <1>2, SizesAssumption DEF Block
  <2>1. n >= 1 /\ c + n <= Len(s) /\ c \in Nat /\ n \in Nat
    BY <2>0, <1>1, <1>2, SizesAssumption, SMTT(60) DEF Block
  <2>2. PICK part : part = SubSeq(s, c + 1, c + n)
    OBVIOUS
  <2>3. part \in Seq(Elements) /\ Len(part) = n
    <3>1. \A i \in c + 1 .. c + n : s[i] \in Elements
      BY <2>1
    <3>2. /\ SubSeq(s, c + 1, c + n) \in Seq(Elements)
          /\ Len(SubSeq(s, c + 1, c + n)) =
                 IF c + 1 <= c + n THEN c + n - (c + 1) + 1 ELSE 0
      BY <3>1, <2>1, SubSeqProperties
    <3> QED
      BY <3>2, <2>1, <2>2
  <2>4. PICK p : p = Peeked(b)
    OBVIOUS
  <2>5. p = [b EXCEPT !.buffer_pos = 0, !.buffer = part]
    BY <2>0, <2>2, <2>4, <1>3 DEF Peeked, Loaded
  <2>6. /\ p \in Inputs /\ p.run_id = b.run_id /\ p.buffer = part /\ p.buffer_pos = 0
        /\ p.total_size = b.total_size /\ p.consumed = c
    BY <2>0, <2>3, <2>5, <1>1 DEF Inputs
  <2>7. /\ Len(p.buffer) = n
        /\ p.consumed - p.buffer_pos + 1 = c + 1
        /\ p.consumed - p.buffer_pos + Len(p.buffer) = c + n
    BY <2>1, <2>3, <2>6
  <2>8. /\ p.buffer_pos <= p.consumed /\ p.buffer_pos < Len(p.buffer)
        /\ p.buffer_pos <= Len(p.buffer) /\ p.consumed <= p.total_size
        /\ p.consumed - p.buffer_pos + Len(p.buffer) <= p.total_size
    BY <2>1, <2>6, <2>7, <1>2
  <2>9. p.buffer = SubSeq(s, p.consumed - p.buffer_pos + 1,
                             p.consumed - p.buffer_pos + Len(p.buffer))
    BY <2>2, <2>6, <2>7
  <2>10. Reads(p, s)
    BY <2>6, <2>8, <2>9, <1>2 DEF Reads
  <2> QED
    BY <2>0, <2>4, <2>6, <2>8, <2>10
<1>4. CASE ~MustLoad(b)
  <2>1. Peeked(b) = b
    BY <1>4 DEF Peeked
  <2>2. b.buffer_pos < Len(b.buffer)
    BY <1>1, <1>4 DEF MustLoad
  <2> QED
    BY <2>1, <2>2
<1> QED
  BY <1>3, <1>4

(* next, after peek: it returns the element that is next in the run. *)
LEMMA NextReads ==
    ASSUME NEW b \in Inputs, NEW s \in Seq(Elements), Reads(b, s), HasNext(b),
           b.buffer_pos < Len(b.buffer)
    PROVE  /\ b.consumed + 1 \in 1 .. Len(s) /\ Ahead(b) = s[b.consumed + 1]
           /\ NextOf(b) \in Inputs /\ Reads(NextOf(b), s)
           /\ NextOf(b).run_id = b.run_id /\ NextOf(b).consumed = b.consumed + 1
<1>1. /\ b.run_id \in Nat /\ b.buffer \in Seq(Elements) /\ b.buffer_pos \in Nat
      /\ b.total_size \in Nat /\ b.consumed \in Nat
  BY DEF Inputs
<1>2. PICK c \in Nat, i \in Nat, n \in Nat : c = b.consumed /\ i = b.buffer_pos /\ n = Len(b.buffer)
  BY <1>1
<1>3. /\ b.total_size = Len(s) /\ c < Len(s) /\ i < n /\ i <= c /\ c - i + n <= Len(s)
      /\ b.buffer = SubSeq(s, c - i + 1, c - i + n)
  BY <1>2 DEF Reads, HasNext
<1>4. c + 1 \in 1 .. Len(s)
  BY <1>3
<1>5. Ahead(b) = s[c + 1]
  <2>1. PICK f \in Nat : f = c - i
    BY <1>3
  <2>2. \A k \in f + 1 .. f + n : s[k] \in Elements
    BY <2>1, <1>3
  <2>3. \A k \in 1 .. f + n - (f + 1) + 1 : SubSeq(s, f + 1, f + n)[k] = s[f + 1 + k - 1]
    BY <2>2, SubSeqProperties
  <2>4. i + 1 \in 1 .. f + n - (f + 1) + 1 /\ f + 1 + (i + 1) - 1 = c + 1
    BY <2>1, <1>3
  <2>5. SubSeq(s, f + 1, f + n)[i + 1] = s[f + 1 + (i + 1) - 1]
    BY <2>3, <2>4
  <2> QED
    BY <2>1, <2>4, <2>5, <1>2, <1>3 DEF Ahead
<1>6. PICK p : p = NextOf(b)
  OBVIOUS
<1>7. /\ p \in Inputs /\ p.run_id = b.run_id /\ p.buffer = b.buffer /\ p.buffer_pos = i + 1
      /\ p.total_size = b.total_size /\ p.consumed = c + 1
  <2>1. p = [b EXCEPT !.buffer_pos = i + 1, !.consumed = c + 1]
    BY <1>2, <1>6 DEF NextOf
  <2>2. i + 1 \in Nat /\ c + 1 \in Nat
    OBVIOUS
  <2>3. p \in Inputs
    BY <2>1, <2>2, <1>1 DEF Inputs
  <2> QED
    BY <2>1, <2>3, <1>1 DEF Inputs
<1>8. /\ Len(p.buffer) = n
      /\ p.consumed - p.buffer_pos + 1 = c - i + 1
      /\ p.consumed - p.buffer_pos + Len(p.buffer) = c - i + n
  <2>1. Len(p.buffer) = n
    BY <1>2, <1>7
  <2>2. p.consumed - p.buffer_pos = c - i
    BY <1>7
  <2> QED
    BY <2>1, <2>2
<1>9. Reads(p, s)
  <2>1. /\ p.buffer_pos <= p.consumed /\ p.buffer_pos <= Len(p.buffer)
        /\ p.consumed <= p.total_size
        /\ p.consumed - p.buffer_pos + Len(p.buffer) <= p.total_size
    BY <1>3, <1>7, <1>8
  <2>2. p.buffer = SubSeq(s, p.consumed - p.buffer_pos + 1,
                             p.consumed - p.buffer_pos + Len(p.buffer))
    BY <1>3, <1>7, <1>8
  <2> QED
    BY <2>1, <2>2, <1>3, <1>7 DEF Reads
<1> QED
  BY <1>2, <1>4, <1>5, <1>6, <1>7, <1>9

(* The first n elements of s. *)
First(s, n) == {s[p] : p \in 1 .. n}

(* w is a merge of the first c elements of s and the first d of t, and none of the *)
(* others is before its last one.                                                  *)
MergeOfFirst(w, s, c, t, d) ==
    /\ Len(w) = c + d
    /\ ToSet(w) = First(s, c) \cup First(t, d)
    /\ Sorting!Ascending(w)
    /\ c < Len(s) /\ w # <<>> => key[w[Len(w)]] <= key[s[c + 1]]
    /\ d < Len(t) /\ w # <<>> => key[w[Len(w)]] <= key[t[d + 1]]

(* One element more of s, when what is next in t is not before it. *)
LEMMA OneMore ==
    ASSUME NEW s \in Seq(Elements), NEW t \in Seq(Elements), NEW w \in Seq(Elements),
           NEW c \in Nat, NEW d \in Nat, c < Len(s),
           key \in [Elements -> Keys], Sorting!Ascending(s),
           MergeOfFirst(w, s, c, t, d),
           d < Len(t) => key[s[c + 1]] <= key[t[d + 1]]
    PROVE  /\ Append(w, s[c + 1]) \in Seq(Elements)
           /\ MergeOfFirst(Append(w, s[c + 1]), s, c + 1, t, d)
<1>v. PICK v : v = Append(w, s[c + 1])
  OBVIOUS
<1>w. /\ Len(w) = c + d /\ ToSet(w) = First(s, c) \cup First(t, d)
      /\ Sorting!Ascending(w)
      /\ w # <<>> => key[w[Len(w)]] <= key[s[c + 1]]
  BY DEF MergeOfFirst
<1>1. PICK n \in Nat : n = Len(w)
  OBVIOUS
<1>2. PICK e \in Elements : e = s[c + 1]
  <2>1. c + 1 \in 1 .. Len(s)
    OBVIOUS
  <2> QED
    BY <2>1
<1>3. v \in Seq(Elements) /\ Len(v) = n + 1 /\ v[n + 1] = e /\ \A i \in 1 .. n : v[i] = w[i]
  <2>1. v = Append(w, e)
    BY <1>v, <1>2
  <2> QED
    BY <1>1, <2>1
<1>4. DOMAIN v = 1 .. n + 1 /\ DOMAIN w = 1 .. n
  BY <1>1, <1>3
<1>5. ToSet(v) = First(s, c + 1) \cup First(t, d)
  <2>1. ToSet(v) = ToSet(w) \cup {e}
    <3>1. \A i \in 1 .. n + 1 : i \in 1 .. n \/ i = n + 1
      OBVIOUS
    <3>2. 1 .. n \subseteq 1 .. n + 1 /\ n + 1 \in 1 .. n + 1
      OBVIOUS
    <3> QED
      BY <3>1, <3>2, <1>3, <1>4 DEF ToSet
  <2>2. First(s, c + 1) = First(s, c) \cup {e}
    <3>1. \A i \in 1 .. c + 1 : i \in 1 .. c \/ i = c + 1
      OBVIOUS
    <3>2. 1 .. c \subseteq 1 .. c + 1 /\ c + 1 \in 1 .. c + 1
      OBVIOUS
    <3> QED
      BY <3>1, <3>2, <1>2 DEF First
  <2> QED
    BY <2>1, <2>2, <1>w
<1>6. Sorting!Ascending(v)
  <2> SUFFICES ASSUME NEW p \in 1 .. n PROVE key[v[p]] <= key[v[p + 1]]
    BY <1>3 DEF Sorting!Ascending
  <2>1. CASE p = n
    <3>1. w # <<>> /\ v[p] = w[Len(w)] /\ v[p + 1] = s[c + 1]
      BY <2>1, <1>1, <1>2, <1>3
    <3> QED
      BY <3>1, <1>w
  <2>2. CASE p # n
    <3>1. p \in 1 .. Len(w) - 1 /\ p \in 1 .. n /\ p + 1 \in 1 .. n
      BY <2>2, <1>1
    <3>2. v[p] = w[p] /\ v[p + 1] = w[p + 1]
      BY <3>1, <1>3
    <3> QED
      BY <3>1, <3>2, <1>w DEF Sorting!Ascending
  <2> QED
    BY <2>1, <2>2
<1>7. v[Len(v)] = s[c + 1]
  BY <1>2, <1>3
<1>8. c + 1 < Len(s) => key[v[Len(v)]] <= key[s[c + 1 + 1]]
  <2>1. c + 1 < Len(s) => c + 1 \in 1 .. Len(s) - 1
    OBVIOUS
  <2> QED
    BY <2>1, <1>7 DEF Sorting!Ascending
<1>9. Len(v) = c + 1 + d
  BY <1>1, <1>3, <1>w
<1> QED
  BY <1>v, <1>3, <1>5, <1>6, <1>7, <1>8, <1>9 DEF MergeOfFirst

LEMMA WhileMerging ==
    ASSUME Types, RunsInv, merging
    PROVE  /\ Len(runs) \in Nat /\ Len(runs) >= 2 /\ Complete = 1 .. Len(runs) - 1
           /\ DOMAIN runs = 1 .. Len(runs)
           /\ \A r \in DOMAIN runs : runs[r] \in Seq(Elements)
           /\ Merged \in Seq(Elements)
<1>1. runs \in Seq(Seq(Elements)) /\ out \in Seq(Elements)
  BY DEF Types
<1>2. PICK n \in Nat : n = Len(runs)
  BY <1>1
<1>3. Complete = 1 .. n - 1
  BY <1>2 DEF Complete
<1>4. 1 \in Complete
  <2>1. 1 \in 1 .. NumInitial
    BY Numbers DEF Types
  <2> QED
    BY <2>1 DEF RunsInv
<1>5. n >= 2
  BY <1>3, <1>4
<1>6. DOMAIN runs = 1 .. n /\ \A r \in 1 .. n : runs[r] \in Seq(Elements)
  BY <1>1, <1>2
<1>7. runs[n] \in Seq(Elements)
  BY <1>5, <1>6
<1>8. Merged \in Seq(Elements)
  BY <1>1, <1>2, <1>7, ConcatProperties DEF Merged
<1> QED
  BY <1>2, <1>3, <1>5, <1>6, <1>8

LEMMA LastAppended ==
    ASSUME NEW S, NEW rs \in Seq(Seq(S)), Len(rs) >= 1, NEW w \in Seq(S),
           NEW qs, qs = [rs EXCEPT ![Len(rs)] = @ \o w]
    PROVE  /\ qs \in Seq(Seq(S)) /\ Len(qs) = Len(rs) /\ DOMAIN qs = DOMAIN rs
           /\ qs[Len(rs)] = rs[Len(rs)] \o w
           /\ \A r \in 1 .. Len(rs) - 1 : qs[r] = rs[r]
<1>1. PICK n \in Nat : n = Len(rs) /\ n >= 1
  OBVIOUS
<1>2. DOMAIN rs = 1 .. n /\ (\A r \in 1 .. n : rs[r] \in Seq(S)) /\ n \in 1 .. n
  BY <1>1
<1>3. PICK x \in Seq(S) : x = rs[n] \o w
  BY <1>2, ConcatProperties
<1>4. qs = [r \in 1 .. n |-> IF r = n THEN x ELSE rs[r]]
  BY <1>1, <1>2, <1>3
<1>5. qs \in Seq(Seq(S)) /\ Len(qs) = n
  BY <1>2, <1>4
<1> QED
  BY <1>1, <1>2, <1>3, <1>4, <1>5

(* add: the element goes behind all that has been merged, and no complete run changes. *)
LEMMA AddMerges ==
    ASSUME Types, RunsInv, merging, merging', NEW e \in Elements, Add(e)
    PROVE  /\ runs' \in Seq(Seq(Elements)) /\ out' \in Seq(Elements)
           /\ \A r \in Complete : runs'[r] = runs[r]
           /\ Complete' = Complete /\ Complete \subseteq DOMAIN runs'
           /\ Merged' = Append(Merged, e)
<1>1. /\ runs \in Seq(Seq(Elements)) /\ out \in Seq(Elements)
  BY SMTT(60) DEF Types
<1>2. PICK n \in Nat : n = Len(runs) /\ n >= 2
  <2>1. Len(runs) \in Nat /\ Len(runs) >= 2
    BY WhileMerging
  <2> QED
    BY <2>1
<1>3. PICK last \in Seq(Elements) : last = runs[n]
  BY <1>2, WhileMerging
<1>4. PICK added \in Seq(Elements) : added = Append(out, e)
  <2>1. Append(out, e) \in Seq(Elements)
    BY <1>1
  <2> QED
    BY <2>1
<1>5. last \o added = Append(last \o out, e)
  BY <1>1, <1>4, Joined
<1>6. Complete = 1 .. n - 1 /\ DOMAIN runs = 1 .. n
  BY <1>2, WhileMerging
<1>7. CASE Len(added) >= OUT_SIZE
  <2>1. out' = <<>> /\ runs' = [runs EXCEPT ![Len(runs)] = @ \o added]
    BY <1>4, <1>7 DEF Add, AppendToRun
  <2>2. Len(runs) >= 1
    BY <1>2
  <2>3. /\ runs' \in Seq(Seq(Elements)) /\ Len(runs') = n /\ DOMAIN runs' = 1 .. n
        /\ runs'[n] = last \o added
        /\ \A r \in 1 .. n - 1 : runs'[r] = runs[r]
    BY <2>1, <2>2, <1>1, <1>2, <1>3, <1>6, LastAppended
  <2>4. Merged' = (last \o added) \o <<>>
    BY <2>1, <2>3 DEF Merged
  <2>5. last \o added \in Seq(Elements)
    BY ConcatProperties
  <2>6. Merged' = last \o added
    BY <2>4, <2>5, ConcatEmptySeq
  <2>7. Complete' = 1 .. n - 1
    BY <2>3 DEF Complete
  <2>8. Merged = last \o out
    BY <1>2, <1>3 DEF Merged
  <2>9. out' \in Seq(Elements) /\ 1 .. n - 1 \subseteq 1 .. n
    BY <2>1
  <2> QED
    BY <2>3, <2>6, <2>7, <2>8, <2>9, <1>5, <1>6
<1>8. CASE ~(Len(added) >= OUT_SIZE)
  <2>1. out' = added /\ runs' = runs
    BY <1>4, <1>8 DEF Add
  <2>2. Merged' = last \o added /\ Merged = last \o out
    BY <2>1, <1>2, <1>3 DEF Merged
  <2>3. Complete' = 1 .. n - 1
    BY <2>1, <1>2 DEF Complete
  <2>4. 1 .. n - 1 \subseteq 1 .. n
    OBVIOUS
  <2> QED
    BY <2>1, <2>2, <2>3, <2>4, <1>1, <1>5, <1>6
<1> QED
  BY <1>7, <1>8

(* An element is taken from a, which is one of the two buffers, as long as what is next *)
(* in b is not before it.                                                               *)
LEMMA TakeOne ==
    ASSUME Types, RunsInv, merging, merging', UNCHANGED <<lengths, key>>,
           NEW i \in Nat, NEW j \in Nat, i + 1 \in Complete, j + 1 \in Complete,
           NEW a, NEW b, InputInv(a, i), InputInv(b, j), MergedInv(a, b),
           HasNext(a),
           HasNext(b) => key[runs[i + 1][a.consumed + 1]] <= key[runs[j + 1][b.consumed + 1]],
           Add(runs[i + 1][a.consumed + 1]),
           NEW a2 \in Inputs, a2.run_id = i, Reads(a2, runs[i + 1]),
           a2.consumed = a.consumed + 1,
           NEW b2 \in Inputs, b2.run_id = j, Reads(b2, runs[j + 1]),
           b2.consumed = b.consumed
    PROVE  /\ InputInv(a2, i)' /\ InputInv(b2, j)' /\ MergedInv(a2, b2)'
<1>1. PICK s \in Seq(Elements), t \in Seq(Elements) : s = runs[i + 1] /\ t = runs[j + 1]
  BY WhileMerging DEF RunsInv
<1>2. PICK c \in Nat, d \in Nat : c = a.consumed /\ d = b.consumed
  BY DEF InputInv, Inputs
<1>3. /\ a.total_size = Len(s) /\ b.total_size = Len(t) /\ c < Len(s) /\ d <= Len(t)
      /\ HasNext(b) <=> d < Len(t)
  BY <1>1, <1>2 DEF InputInv, Reads, HasNext
<1>4. a.run_id = i /\ b.run_id = j
  BY DEF InputInv
<1>5. PICK e \in Elements : e = s[c + 1]
  <2>1. c + 1 \in 1 .. Len(s)
    BY <1>3
  <2> QED
    BY <2>1
<1>6. Add(e)
  BY <1>1, <1>2, <1>5
<1>7. PICK w \in Seq(Elements) : w = Merged
  BY WhileMerging
<1>8. /\ runs'[i + 1] = s /\ runs'[j + 1] = t /\ Merged' = Append(w, e)
  BY <1>1, <1>6, <1>7, AddMerges
<1>9. Taken(a) = First(s, c) /\ Taken(b) = First(t, d)
  BY <1>1, <1>2, <1>4 DEF Taken, First
<1>10. Sorting!Ascending(s)
  BY <1>1 DEF RunsInv
<1>11. MergeOfFirst(w, s, c, t, d)
  <2>1. /\ Len(w) = c + d /\ ToSet(w) = First(s, c) \cup First(t, d)
        /\ Sorting!Ascending(w)
    BY <1>2, <1>7, <1>9 DEF MergedInv
  <2>2. c < Len(s) /\ w # <<>> => key[w[Len(w)]] <= key[s[c + 1]]
    BY <1>1, <1>2, <1>4, <1>7 DEF MergedInv, NotBefore
  <2>3. d < Len(t) /\ w # <<>> => key[w[Len(w)]] <= key[t[d + 1]]
    BY <1>1, <1>2, <1>3, <1>4, <1>7 DEF MergedInv, NotBefore
  <2> QED
    BY <2>1, <2>2, <2>3 DEF MergeOfFirst
<1>12. d < Len(t) => key[s[c + 1]] <= key[t[d + 1]]
  BY <1>1, <1>2, <1>3
<1>13. c < Len(s) /\ key \in [Elements -> Keys]
  BY <1>3 DEF Types
<1>14. PICK v : v = Append(w, s[c + 1])
  OBVIOUS
<1>15. MergeOfFirst(v, s, c + 1, t, d)
  BY <1>10, <1>11, <1>12, <1>13, <1>14, OneMore
<1>16. /\ Len(v) = c + 1 + d
       /\ ToSet(v) = First(s, c + 1) \cup First(t, d)
       /\ Sorting!Ascending(v)
       /\ c + 1 < Len(s) /\ v # <<>> => key[v[Len(v)]] <= key[s[c + 1 + 1]]
       /\ d < Len(t) /\ v # <<>> => key[v[Len(v)]] <= key[t[d + 1]]
  BY <1>15 DEF MergeOfFirst
<1>17. Merged' = v /\ key' = key
  BY <1>5, <1>8, <1>14
<1>18. Taken(a2)' = First(s, c + 1) /\ Taken(b2)' = First(t, d)
  BY <1>2, <1>8 DEF Taken, First
<1>19. /\ a2.total_size = Len(s) /\ a2.consumed = c + 1
       /\ b2.total_size = Len(t) /\ b2.consumed = d
  BY <1>1, <1>2 DEF Reads
<1>20. NotBefore(a2)' /\ NotBefore(b2)'
  <2>1. NotBefore(a2)'
    BY <1>8, <1>16, <1>17, <1>19 DEF NotBefore, HasNext
  <2>2. NotBefore(b2)'
    BY <1>8, <1>16, <1>17, <1>19 DEF NotBefore, HasNext
  <2> QED
    BY <2>1, <2>2
<1>21. Sorting!Ascending(Merged)'
  BY <1>16, <1>17 DEF Sorting!Ascending
<1>22. MergedInv(a2, b2)'
  BY <1>16, <1>17, <1>18, <1>19, <1>20, <1>21 DEF MergedInv
<1>23. InputInv(a2, i)' /\ InputInv(b2, j)'
  <2>1. Inputs' = Inputs
    BY SameInitial DEF Inputs
  <2>2. Reads(a2, s) /\ Reads(b2, t)
    BY <1>1
  <2> QED
    BY <2>1, <2>2, <1>8 DEF InputInv, Reads
<1> QED
  BY <1>22, <1>23

(* What the loops of two_way_merge find. *)
LEMMA InLoop ==
    ASSUME IInv, merging
    PROVE  \E i, j \in Nat :
             /\ i = Top.ids[1] /\ j = Top.ids[2]
             /\ i + 1 \in Complete /\ j + 1 \in Complete
             /\ InputInv(buf1, i) /\ InputInv(buf2, j)
             /\ MergedInv(buf1, buf2) /\ MergedInv(buf2, buf1)
             /\ calls # <<>> /\ ~Top.node.is_leaf /\ Len(Top.ids) = 2
<1>1. PICK P : PlanInv(P) /\ CallsInv(P)
  BY DEF IInv
<1>2. /\ calls # <<>> /\ ~Top.node.is_leaf /\ Len(Top.ids) = 2
      /\ InputInv(buf1, Top.ids[1]) /\ InputInv(buf2, Top.ids[2])
      /\ MergedInv(buf1, buf2)
  BY DEF IInv, MergeInv
<1>3. /\ Top.ids[1] \in Nat /\ Top.ids[2] \in Nat
      /\ Top.ids[1] + 1 \in Complete /\ Top.ids[2] + 1 \in Complete
  BY <1>1, <1>2, BothIds
<1>4. MergedInv(buf2, buf1)
  <2>1. PICK c \in Nat, d \in Nat : c = buf1.consumed /\ d = buf2.consumed
    BY <1>2 DEF InputInv, Inputs
  <2>2. c + d = d + c
    OBVIOUS
  <2> QED
    BY <2>1, <2>2, <1>2 DEF MergedInv
<1> QED
  BY <1>2, <1>3, <1>4

LEMMA Added ==
    ASSUME IInv, merging, NEW e \in Elements, Add(e),
           UNCHANGED <<lengths, pq, key, calls, result, merging>>, MergeInv'
    PROVE  IInv'
<1>1. PICK P : PlanInv(P) /\ CallsInv(P)
  BY DEF IInv
<1>2. /\ runs' \in Seq(Seq(Elements)) /\ out' \in Seq(Elements)
      /\ \A r \in Complete : runs'[r] = runs[r]
      /\ Complete' = Complete /\ Complete \subseteq DOMAIN runs'
  BY AddMerges DEF IInv
<1>3. RunsInv'
  BY <1>2, SameRuns DEF IInv
<1>4. calls # <<>>
  BY InLoop
<1>5. CallsInv(P)' /\ PlanInv(P)'
  BY <1>1, <1>2, <1>4, SameCalls, SamePlan
<1>6. Types'
  BY <1>2, SameInitial DEF IInv, Types
<1> QED
  BY <1>3, <1>5, <1>6 DEF IInv

(* The next element of the run b reads, and the buffer after it has been taken. *)
LEMMA TakeNext ==
    ASSUME Types, RunsInv, merging, NEW i \in Nat, i + 1 \in Complete,
           NEW b, InputInv(b, i), HasNext(b)
    PROVE  /\ Ahead(Peeked(b)) = runs[i + 1][b.consumed + 1]
           /\ runs[i + 1][b.consumed + 1] \in Elements
           /\ Peeked(b) \in Inputs /\ Peeked(b).run_id = i
           /\ Reads(Peeked(b), runs[i + 1]) /\ Peeked(b).consumed = b.consumed
           /\ NextOf(Peeked(b)) \in Inputs /\ NextOf(Peeked(b)).run_id = i
           /\ Reads(NextOf(Peeked(b)), runs[i + 1])
           /\ NextOf(Peeked(b)).consumed = b.consumed + 1
<1>1. PICK s \in Seq(Elements) : s = runs[i + 1]
  BY WhileMerging DEF RunsInv
<1>2. b \in Inputs /\ b.run_id = i /\ Reads(b, s)
  BY <1>1 DEF InputInv
<1>3. PICK p : p = Peeked(b)
  OBVIOUS
<1>4. s = runs[b.run_id + 1]
  BY <1>1, <1>2
<1>5. /\ p \in Inputs /\ Reads(p, s) /\ p.run_id = i /\ p.consumed = b.consumed
      /\ p.total_size = b.total_size /\ p.buffer_pos < Len(p.buffer)
  BY <1>2, <1>3, <1>4, PeekReads
<1>6. HasNext(p)
  BY <1>5 DEF HasNext
<1>7. /\ p.consumed + 1 \in 1 .. Len(s) /\ Ahead(p) = s[p.consumed + 1]
      /\ NextOf(p) \in Inputs /\ Reads(NextOf(p), s)
      /\ NextOf(p).run_id = p.run_id /\ NextOf(p).consumed = p.consumed + 1
  BY <1>5, <1>6, NextReads
<1>8. s[p.consumed + 1] \in Elements
  BY <1>7
<1> QED
  BY <1>1, <1>3, <1>5, <1>7, <1>8

LEMMA TakeFirstIInv ==
    ASSUME IInv, merging, HasNext(buf1),
           UNCHANGED <<lengths, pq, key, calls, result, merging>>,
           Add(Ahead(Peeked(buf1))), buf1' = NextOf(Peeked(buf1)),
           \/ buf2' = buf2 /\ ~HasNext(buf2)
           \/ /\ buf2' = Peeked(buf2) /\ HasNext(buf2)
              /\ key[Ahead(Peeked(buf1))] <= key[Ahead(Peeked(buf2))]
    PROVE  IInv'
<1>1. PICK i \in Nat, j \in Nat :
             /\ i = Top.ids[1] /\ j = Top.ids[2]
             /\ i + 1 \in Complete /\ j + 1 \in Complete
             /\ InputInv(buf1, i) /\ InputInv(buf2, j)
             /\ MergedInv(buf1, buf2) /\ MergedInv(buf2, buf1)
             /\ calls # <<>> /\ ~Top.node.is_leaf /\ Len(Top.ids) = 2
  BY InLoop
<1>2. PICK a, b : a = buf1 /\ b = buf2
  OBVIOUS
<1>3. PICK a2, b2 : a2 = buf1' /\ b2 = buf2'
  OBVIOUS
<1>4. Types /\ RunsInv /\ merging'
  BY DEF IInv
<1>5. /\ a2 \in Inputs /\ a2.run_id = i /\ Reads(a2, runs[i + 1])
      /\ a2.consumed = a.consumed + 1
      /\ Ahead(Peeked(a)) = runs[i + 1][a.consumed + 1]
      /\ runs[i + 1][a.consumed + 1] \in Elements
  BY <1>1, <1>2, <1>3, <1>4, TakeNext
<1>6. /\ b2 \in Inputs /\ b2.run_id = j /\ Reads(b2, runs[j + 1]) /\ b2.consumed = b.consumed
      /\ HasNext(b) => key[runs[i + 1][a.consumed + 1]] <= key[runs[j + 1][b.consumed + 1]]
  <2>1. CASE ~HasNext(buf2)
    BY <2>1, <1>1, <1>2, <1>3, SMTT(60) DEF InputInv
  <2>2. CASE HasNext(buf2)
    BY <2>2, <1>1, <1>2, <1>3, <1>4, <1>5, TakeNext, SMTT(60)
  <2> QED
    BY <2>1, <2>2
<1>7. InputInv(a2, i)' /\ InputInv(b2, j)' /\ MergedInv(a2, b2)'
  BY <1>1, <1>2, <1>4, <1>5, <1>6, TakeOne
<1>8. MergeInv'
  <2>1. Top' = Top /\ calls' = calls
    BY DEF Top
  <2>2. InputInv(buf1, i)' /\ InputInv(buf2, j)' /\ MergedInv(buf1, buf2)'
    BY <1>3, <1>7 DEF InputInv, MergedInv, NotBefore, Taken, HasNext
  <2> QED
    BY <2>1, <2>2, <1>1 DEF MergeInv
<1> QED
  BY <1>2, <1>5, <1>8, Added

LEMMA TakeSecondIInv ==
    ASSUME IInv, merging, HasNext(buf2),
           UNCHANGED <<lengths, pq, key, calls, result, merging>>,
           Add(Ahead(Peeked(buf2))), buf2' = NextOf(Peeked(buf2)),
           \/ buf1' = buf1 /\ ~HasNext(buf1)
           \/ /\ buf1' = Peeked(buf1) /\ HasNext(buf1)
              /\ key[Ahead(Peeked(buf2))] <= key[Ahead(Peeked(buf1))]
    PROVE  IInv'
<1>1. PICK i \in Nat, j \in Nat :
             /\ i = Top.ids[1] /\ j = Top.ids[2]
             /\ i + 1 \in Complete /\ j + 1 \in Complete
             /\ InputInv(buf1, i) /\ InputInv(buf2, j)
             /\ MergedInv(buf1, buf2) /\ MergedInv(buf2, buf1)
             /\ calls # <<>> /\ ~Top.node.is_leaf /\ Len(Top.ids) = 2
  BY InLoop
<1>2. PICK a, b : a = buf2 /\ b = buf1
  OBVIOUS
<1>3. PICK a2, b2 : a2 = buf2' /\ b2 = buf1'
  OBVIOUS
<1>4. Types /\ RunsInv /\ merging'
  BY DEF IInv
<1>5. /\ a2 \in Inputs /\ a2.run_id = j /\ Reads(a2, runs[j + 1])
      /\ a2.consumed = a.consumed + 1
      /\ Ahead(Peeked(a)) = runs[j + 1][a.consumed + 1]
      /\ runs[j + 1][a.consumed + 1] \in Elements
  BY <1>1, <1>2, <1>3, <1>4, TakeNext
<1>6. /\ b2 \in Inputs /\ b2.run_id = i /\ Reads(b2, runs[i + 1]) /\ b2.consumed = b.consumed
      /\ HasNext(b) => key[runs[j + 1][a.consumed + 1]] <= key[runs[i + 1][b.consumed + 1]]
  <2>1. CASE ~HasNext(buf1)
    BY <2>1, <1>1, <1>2, <1>3 DEF InputInv
  <2>2. CASE HasNext(buf1)
    BY <2>2, <1>1, <1>2, <1>3, <1>4, <1>5, TakeNext, SMTT(60)
  <2> QED
    BY <2>1, <2>2
<1>7. InputInv(a2, j)' /\ InputInv(b2, i)' /\ MergedInv(a2, b2)'
  BY <1>1, <1>2, <1>4, <1>5, <1>6, TakeOne
<1>8. MergeInv'
  <2>1. Top' = Top /\ calls' = calls
    BY DEF Top
  <2>2. InputInv(buf1, i)' /\ InputInv(buf2, j)'
    BY <1>3, <1>7 DEF InputInv
  <2>3. MergedInv(buf1, buf2)'
    <3>1. PICK c \in Nat, d \in Nat : c = a2.consumed /\ d = b2.consumed
      BY <1>5, <1>6 DEF Inputs
    <3>2. c + d = d + c
      OBVIOUS
    <3> QED
      BY <3>1, <3>2, <1>3, <1>7 DEF MergedInv, NotBefore, Taken, HasNext
  <2> QED
    BY <2>1, <2>2, <2>3, <1>1 DEF MergeInv
<1> QED
  BY <1>2, <1>5, <1>8, Added

LEMMA MergeBothIInv == IInv /\ MergeBoth => IInv'
<1> SUFFICES ASSUME IInv, MergeBoth PROVE IInv'
  OBVIOUS
<1>1. /\ merging /\ HasNext(buf1) /\ HasNext(buf2)
      /\ UNCHANGED <<lengths, pq, key, calls, result, merging>>
  BY DEF MergeBoth, BothHaveNext
<1>2. PICK x, y : x = Ahead(Peeked(buf1)) /\ y = Ahead(Peeked(buf2))
  OBVIOUS
<1>3. IF key[x] <= key[y]
      THEN Add(x) /\ buf1' = NextOf(Peeked(buf1)) /\ buf2' = Peeked(buf2)
      ELSE Add(y) /\ buf1' = Peeked(buf1) /\ buf2' = NextOf(Peeked(buf2))
  BY <1>2 DEF MergeBoth, TakesLeft
<1>4. CASE key[x] <= key[y]
  BY <1>1, <1>2, <1>3, <1>4, TakeFirstIInv
<1>5. CASE ~(key[x] <= key[y])
  <2>1. x \in Elements /\ y \in Elements
    <3>1. Types /\ RunsInv
      BY DEF IInv
    <3> QED
      BY <3>1, <1>1, <1>2, InLoop, TakeNext
  <2>2. key[y] <= key[x]
    <3>1. key[x] \in Int /\ key[y] \in Int
      BY <2>1, SizesAssumption DEF IInv, Types
    <3> QED
      BY <3>1, <1>5
  <2> QED
    BY <2>2, <1>1, <1>2, <1>3, <1>5, TakeSecondIInv
<1> QED
  BY <1>4, <1>5

LEMMA MergeRestIInv == IInv /\ MergeRest => IInv'
<1> SUFFICES ASSUME IInv, MergeRest PROVE IInv'
  OBVIOUS
<1>1. /\ merging /\ ~(HasNext(buf1) /\ HasNext(buf2))
      /\ UNCHANGED <<lengths, pq, key, calls, result, merging>>
  BY DEF MergeRest, BothHaveNext
<1>2. CASE /\ HasNext(buf1)
           /\ Add(Ahead(Peeked(buf1))) /\ buf1' = NextOf(Peeked(buf1))
           /\ UNCHANGED buf2
  BY <1>1, <1>2, TakeFirstIInv
<1>3. CASE /\ HasNext(buf2)
           /\ Add(Ahead(Peeked(buf2))) /\ buf2' = NextOf(Peeked(buf2))
           /\ UNCHANGED buf1
  BY <1>1, <1>3, TakeSecondIInv
<1> QED
  BY <1>2, <1>3 DEF MergeRest

----------------------------------------------------------------------------
(* The end of a merge. *)

(* Both runs have been read to their ends, and the new one is complete. *)
Ended(n, i, j, s, t, w) ==
    /\ n = Len(runs) /\ n >= 2 /\ merging /\ Len(runs') = n
    /\ i = Top.ids[1] /\ j = Top.ids[2] /\ calls # <<>> /\ Len(Top.ids) = 2
    /\ Complete = 1 .. n - 1 /\ Complete' = 1 .. n
    /\ i + 1 \in Complete /\ j + 1 \in Complete
    /\ runs' \in Seq(Seq(Elements)) /\ DOMAIN runs' = 1 .. n
    /\ runs'[n] = w /\ \A r \in Complete : runs'[r] = runs[r]
    /\ s = runs[i + 1] /\ t = runs[j + 1]
    /\ Len(w) = Len(s) + Len(t) /\ ToSet(w) = ToSet(s) \cup ToSet(t)
    /\ Sorting!Ascending(w) /\ w # <<>>
    /\ Return(n - 1)

LEMMA WrittenRun ==
    ASSUME IInv, EndMerge
    PROVE  \E n, i, j \in Nat : \E s, t, w \in Seq(Elements) : Ended(n, i, j, s, t, w)
<1>1. /\ merging /\ ~HasNext(buf1) /\ ~HasNext(buf2) /\ Return(Len(runs) - 1)
      /\ runs' = [runs EXCEPT ![Len(runs)] = @ \o out] /\ merging' = FALSE
  BY DEF EndMerge, Flush, AppendToRun
<1>2. PICK i \in Nat, j \in Nat :
             /\ i = Top.ids[1] /\ j = Top.ids[2]
             /\ i + 1 \in Complete /\ j + 1 \in Complete
             /\ InputInv(buf1, i) /\ InputInv(buf2, j)
             /\ MergedInv(buf1, buf2) /\ MergedInv(buf2, buf1)
             /\ calls # <<>> /\ ~Top.node.is_leaf /\ Len(Top.ids) = 2
  BY <1>1, InLoop
<1>3. Types /\ RunsInv
  BY SMTT(60) DEF IInv
<1>4. PICK n \in Nat : n = Len(runs) /\ n >= 2
  <2>1. Len(runs) \in Nat /\ Len(runs) >= 2
    BY <1>1, <1>3, WhileMerging
  <2> QED
    BY <2>1
<1>5. Complete = 1 .. n - 1 /\ DOMAIN runs = 1 .. n
  BY <1>1, <1>3, <1>4, WhileMerging
<1>6. PICK s \in Seq(Elements), t \in Seq(Elements) : s = runs[i + 1] /\ t = runs[j + 1]
  BY <1>1, <1>2, <1>3, WhileMerging DEF RunsInv
<1>7. PICK w \in Seq(Elements) : w = Merged
  BY <1>1, <1>3, WhileMerging
<1>8. /\ runs' \in Seq(Seq(Elements)) /\ Len(runs') = n /\ DOMAIN runs' = 1 .. n
      /\ runs'[n] = w /\ \A r \in Complete : runs'[r] = runs[r]
  <2>1. runs \in Seq(Seq(Elements)) /\ out \in Seq(Elements) /\ Len(runs) >= 1
    BY <1>3, <1>4 DEF Types
  <2>2. /\ runs' \in Seq(Seq(Elements)) /\ Len(runs') = Len(runs) /\ DOMAIN runs' = DOMAIN runs
        /\ runs'[Len(runs)] = runs[Len(runs)] \o out
        /\ \A r \in 1 .. Len(runs) - 1 : runs'[r] = runs[r]
    BY <2>1, <1>1, LastAppended, SMTT(60)
  <2> QED
    BY <2>2, <1>4, <1>5, <1>7 DEF Merged
<1>9. Complete' = 1 .. n
  BY <1>1, <1>8 DEF Complete
<1>10. PICK c \in Nat, d \in Nat : c = buf1.consumed /\ d = buf2.consumed
  BY <1>2 DEF InputInv, Inputs
<1>11. c = Len(s) /\ d = Len(t) /\ buf1.run_id = i /\ buf2.run_id = j
  <2>1. /\ buf1.total_size = Len(s) /\ buf2.total_size = Len(t)
        /\ c <= Len(s) /\ d <= Len(t)
    BY <1>2, <1>6, <1>10 DEF InputInv, Reads
  <2>2. ~(c < Len(s)) /\ ~(d < Len(t))
    BY <2>1, <1>1, <1>10 DEF HasNext
  <2>3. PICK k \in Nat, l \in Nat : k = Len(s) /\ l = Len(t)
    OBVIOUS
  <2> QED
    BY <2>1, <2>2, <2>3, <1>2 DEF InputInv
<1>12. Taken(buf1) = ToSet(s) /\ Taken(buf2) = ToSet(t)
  <2>1. Taken(buf1) = {s[p] : p \in 1 .. Len(s)} /\ Taken(buf2) = {t[p] : p \in 1 .. Len(t)}
    BY <1>6, <1>10, <1>11 DEF Taken
  <2>2. DOMAIN s = 1 .. Len(s) /\ DOMAIN t = 1 .. Len(t)
    OBVIOUS
  <2> QED
    BY <2>1, <2>2 DEF ToSet
<1>13. /\ Len(w) = Len(s) + Len(t) /\ ToSet(w) = ToSet(s) \cup ToSet(t)
       /\ Sorting!Ascending(w)
  BY <1>2, <1>7, <1>10, <1>11, <1>12 DEF MergedInv
<1>14. w # <<>>
  <2>1. s # <<>>
    BY <1>2, <1>3, <1>6 DEF RunsInv
  <2>2. PICK k \in Nat, l \in Nat : k = Len(s) /\ l = Len(t)
    OBVIOUS
  <2>3. k # 0
    BY <2>1, <2>2
  <2>4. Len(w) = k + l /\ k + l # 0
    BY <2>2, <2>3, <1>13
  <2> QED
    BY <2>4
<1>15. Return(n - 1)
  BY <1>1, <1>4, SMTT(60)
<1>16. Ended(n, i, j, s, t, w)
  BY <1>1, <1>2, <1>4, <1>5, <1>6, <1>8, <1>9, <1>13, <1>14, <1>15 DEF Ended
<1> QED
  BY <1>16

(* Nobody reads what the ended merge has read, nor has anybody who is still called   *)
(* been given what it wrote: its elements are under its node, and no caller has them *)
(* on its other side.                                                                *)
LEMMA EndMergeIInv == IInv /\ EndMerge => IInv'
<1> SUFFICES ASSUME IInv, EndMerge PROVE IInv'
  OBVIOUS
<1>1. PICK P : PlanInv(P) /\ CallsInv(P)
  BY DEF IInv
<1>2. merging' = FALSE /\ out' = <<>> /\ UNCHANGED <<lengths, pq, key>>
  BY DEF EndMerge, Flush
<1>p. PICK n \in Nat, i \in Nat, j \in Nat : \E s, t, w \in Seq(Elements) : Ended(n, i, j, s, t, w)
  BY WrittenRun
<1>e. PICK s \in Seq(Elements), t \in Seq(Elements), w \in Seq(Elements) : Ended(n, i, j, s, t, w)
  BY <1>p
<1>3. /\ n = Len(runs) /\ n >= 2 /\ merging /\ Len(runs') = n
      /\ i = Top.ids[1] /\ j = Top.ids[2] /\ calls # <<>> /\ Len(Top.ids) = 2
      /\ Complete = 1 .. n - 1 /\ Complete' = 1 .. n
      /\ i + 1 \in Complete /\ j + 1 \in Complete
      /\ runs' \in Seq(Seq(Elements)) /\ DOMAIN runs' = 1 .. n
      /\ runs'[n] = w /\ \A r \in Complete : runs'[r] = runs[r]
      /\ s = runs[i + 1] /\ t = runs[j + 1]
      /\ Len(w) = Len(s) + Len(t) /\ ToSet(w) = ToSet(s) \cup ToSet(t)
      /\ Sorting!Ascending(w) /\ w # <<>>
      /\ Return(n - 1)
  BY <1>e DEF Ended
<1>4. PICK c : c = Top
  OBVIOUS
<1>5. /\ Live(i + 1) /\ Live(j + 1)
      /\ ToSet(s) = P[c.node.left] /\ ToSet(t) = P[c.node.right]
      /\ P[c.node] = P[c.node.left] \cup P[c.node.right]
  BY <1>1, <1>3, <1>4, BothIds
<1>6. ToSet(w) = P[c.node]
  BY <1>3, <1>5
<1>7. /\ \A r \in 1 .. n : r \in Complete \/ r = n
      /\ \A r \in Complete : r \in 1 .. n /\ r < n
  <2>1. Complete = 1 .. n - 1
    BY <1>3
  <2> QED
    BY <2>1
<1>8. RunsInv'
  <2>1. NumInitial' = NumInitial /\ InitialRuns' = InitialRuns
    BY <1>2, SameInitial
  <2>2. RunsInv
    BY DEF IInv
  <2>3. \A r \in 1 .. NumInitial : r \in Complete' /\ runs'[r] = InitialRuns[r]
    BY <2>2, <1>3, <1>7 DEF RunsInv
  <2>c. Complete' = 1 .. n
    BY <1>3
  <2>4. \A r \in Complete' : runs'[r] # <<>> /\ Sorting!Ascending(runs[r])'
    <3> SUFFICES ASSUME NEW r \in 1 .. n PROVE runs'[r] # <<>> /\ Sorting!Ascending(runs[r])'
      BY <2>c, SMTT(60)
    <3>1. CASE r = n
      BY <3>1, <1>2, <1>3 DEF Sorting!Ascending
    <3>2. CASE r \in Complete
      <4>1. runs'[r] = runs[r] /\ runs[r] # <<>> /\ Sorting!Ascending(runs[r])
        BY <3>2, <2>2, <1>3 DEF RunsInv
      <4> QED
        BY <4>1, <1>2 DEF Sorting!Ascending
    <3> QED
      BY <3>1, <3>2, <1>7
  <2>5. ASSUME NEW q \in 1 .. n, NEW r \in 1 .. n, q < r
        PROVE  \/ ToSet(runs'[q]) \cap ToSet(runs'[r]) = {}
               \/ ToSet(runs'[q]) \subseteq ToSet(runs'[r])
    <3>0. q # n
      BY <2>5
    <3>1. q \in Complete /\ runs'[q] = runs[q]
      <4>1. q \in Complete
        BY <3>0, <1>7
      <4> QED
        BY <4>1, <1>3
    <3>2. CASE r \in Complete
      <4>1. runs'[r] = runs[r]
        BY <3>2, <1>3
      <4> QED
        BY <3>1, <3>2, <4>1, <2>2, <2>5 DEF RunsInv
    <3>3. CASE r = n
      <4>1. \/ ToSet(runs[q]) \cap ToSet(s) = {}
            \/ ToSet(runs[q]) \subseteq ToSet(s)
        <5>1. CASE q = i + 1
          BY <5>1, <1>3
        <5>2. CASE q < i + 1
          BY <5>2, <3>1, <2>2, <1>3 DEF RunsInv
        <5>3. CASE q > i + 1
          <6>1. ToSet(s) \cap ToSet(runs[q]) = {}
            BY <5>3, <3>1, <1>3, <1>5 DEF Live
          <6> QED
            BY <6>1
        <5> QED
          BY <5>1, <5>2, <5>3
      <4>2. \/ ToSet(runs[q]) \cap ToSet(t) = {}
            \/ ToSet(runs[q]) \subseteq ToSet(t)
        <5>1. CASE q = j + 1
          BY <5>1, <1>3
        <5>2. CASE q < j + 1
          BY <5>2, <3>1, <2>2, <1>3 DEF RunsInv
        <5>3. CASE q > j + 1
          <6>1. ToSet(t) \cap ToSet(runs[q]) = {}
            BY <5>3, <3>1, <1>3, <1>5 DEF Live
          <6> QED
            BY <6>1
        <5> QED
          BY <5>1, <5>2, <5>3
      <4>3. \/ ToSet(runs[q]) \cap ToSet(w) = {}
            \/ ToSet(runs[q]) \subseteq ToSet(w)
        BY <4>1, <4>2, <1>3
      <4> QED
        BY <4>3, <3>1, <3>3, <1>3
    <3> QED
      BY <3>2, <3>3, <1>7
  <2>6. \A q, r \in Complete' : q < r =>
           \/ ToSet(runs'[q]) \cap ToSet(runs'[r]) = {}
           \/ ToSet(runs'[q]) \subseteq ToSet(runs'[r])
    BY <2>c, <2>5
  <2>7. Complete' \subseteq DOMAIN runs'
    BY <1>3
  <2> QED
    BY <2>1, <2>3, <2>4, <2>6, <2>7 DEF RunsInv
<1>9. ASSUME NEW S, S \cap P[c.node] = {}
      PROVE  /\ Untouched(S) => Untouched(S)'
             /\ \A r \in Complete : Live(r) /\ ToSet(runs[r]) = S => Live(r)'
  <2>1. NumInitial' = NumInitial
    BY <1>2, SameInitial
  <2>2. ToSet(runs'[n]) \cap S = {}
    BY <1>3, <1>6, <1>9
  <2>3. Untouched(S) => Untouched(S)'
    BY <2>1, <2>2, <1>3, <1>7 DEF Untouched
  <2>4. ASSUME NEW r \in Complete, Live(r), ToSet(runs[r]) = S PROVE Live(r)'
    BY <2>2, <2>4, <1>3, <1>7 DEF Live
  <2> QED
    BY <2>3, <2>4
<1>10. ASSUME NEW k \in 1 .. Len(calls) - 1
       PROVE  /\ \A r \in Complete : \A l \in DOMAIN calls[k].ids :
                     r = calls[k].ids[l] + 1 => Live(r)'
              /\ calls[k].ids = <<>> => \A S : S = P[calls[k].node.right] => Untouched(S)'
  <2>1. PICK m \in Nat : m = Len(calls) /\ m \in DOMAIN calls /\ DOMAIN calls = 1 .. m
                           /\ c = calls[m]
    BY <1>1, <1>3, <1>4, CallTypes
  <2>2. k \in DOMAIN calls /\ k < m
    BY <2>1
  <2>3. PICK d : d = calls[k]
    OBVIOUS
  <2>4. P[c.node] \subseteq P[Child(d)]
    BY <2>1, <2>2, <2>3, <1>1 DEF CallsInv
  <2>5. CallInv(P, k) /\ d.node \in DOMAIN P /\ d.ids \in Seq(Nat)
    BY <2>2, <2>3, <1>1, <1>3, CallTypes DEF CallsInv
  <2>6. Len(d.ids) < 2 /\ ~d.node.is_leaf
    BY <2>1, <2>2, <2>3, <2>5 DEF CallInv
  <2>7. P[d.node.left] \cap P[d.node.right] = {}
    BY <2>5, <2>6, <1>1 DEF PlanInv, IsParts
  <2>8. ASSUME NEW r \in Complete, NEW l \in DOMAIN d.ids, r = d.ids[l] + 1 PROVE Live(r)'
    <3>1. Live(r) /\ ToSet(runs[r]) = P[ChildAt(d, l)]
      BY <2>3, <2>5, <2>8 DEF CallInv
    <3>2. l = 1 /\ d.ids # <<>>
      BY <2>5, <2>6
    <3>3. ToSet(runs[r]) \cap P[c.node] = {}
      BY <3>1, <3>2, <2>4, <2>7 DEF ChildAt, Child
    <3> QED
      BY <3>1, <3>3, <1>9
  <2>9. ASSUME d.ids = <<>>, NEW S, S = P[d.node.right] PROVE Untouched(S)'
    <3>1. Untouched(S)
      BY <2>3, <2>5, <2>6, <2>9 DEF CallInv
    <3>2. S \cap P[c.node] = {}
      BY <2>4, <2>7, <2>9 DEF Child
    <3> QED
      BY <3>1, <3>2, <1>9
  <2> QED
    BY <2>3, <2>8, <2>9
<1>11. PICK id \in Nat : id = n - 1 /\ id + 1 = n
  <2>1. n >= 2
    BY <1>3
  <2> QED
    BY <2>1
<1>12. CallsInv(P)'
  <2>1. /\ \A r \in Complete : r \in Complete' /\ runs'[r] = runs[r]
        /\ id + 1 \in Complete' /\ ToSet(runs'[id + 1]) = P[Top.node]
        /\ ~merging' /\ UNCHANGED <<lengths, pq>> /\ Return(id)
    <3>1. Complete' = 1 .. n /\ (\A r \in Complete : runs'[r] = runs[r]) /\ Return(n - 1)
      BY <1>3
    <3>2. \A r \in Complete : r \in 1 .. n
      BY <1>7
    <3>3. n \in 1 .. n
      BY <1>11
    <3>4. ToSet(runs'[n]) = P[Top.node]
      BY <1>3, <1>4, <1>6
    <3>5. ~merging' /\ UNCHANGED <<lengths, pq>>
      BY <1>2
    <3> QED
      BY <3>1, <3>2, <3>3, <3>4, <3>5, <1>11
  <2>2. Live(id + 1)'
    BY <1>3, <1>7, <1>11 DEF Live
  <2> QED
    BY <2>1, <2>2, <1>1, <1>3, <1>10, ReturnKeeps
<1>13. PlanInv(P)' /\ MergeInv'
  <2>1. PlanInv(P)'
    BY <1>1, <1>2, SamePlan
  <2>2. MergeInv'
    BY <1>2 DEF MergeInv
  <2> QED
    BY <2>1, <2>2
<1>14. Types'
  <2>1. result' \in Nat \cup {Null}
    <3>1. Return(id) /\ result \in Nat \cup {Null}
      BY <1>3, <1>11 DEF IInv, Types
    <3> QED
      BY <3>1 DEF Return
  <2>2. out' \in Seq(Elements) /\ merging' \in BOOLEAN
    BY <1>2, EmptySeq
  <2> QED
    BY <2>1, <2>2, <1>2, <1>3, SameInitial DEF IInv, Types
<1> QED
  BY <1>8, <1>12, <1>13, <1>14 DEF IInv

LEMMA NextIInv == IInv /\ [Next]_vars => IInv'
<1> SUFFICES ASSUME IInv, [Next]_vars PROVE IInv'
  OBVIOUS
<1>1. CASE UNCHANGED vars
  <2>1. UNCHANGED <<lengths, pq, key, runs, calls, result, merging, buf1, buf2, out>>
    BY <1>1 DEF vars
  <2>2. PICK P : PlanInv(P) /\ CallsInv(P)
    BY DEF IInv
  <2>3. Complete' = Complete /\ InitialRuns' = InitialRuns /\ Elements' = Elements
    BY <2>1, SameInitial DEF Complete
  <2>4. RunsInv'
    BY <2>1, <2>3, SameRuns DEF IInv, RunsInv
  <2>5. PlanInv(P)'
    BY <2>1, <2>2, SamePlan
  <2>6. CallsInv(P)'
    <3>1. CASE calls # <<>>
      BY <3>1, <2>1, <2>2, <2>3, SameCalls
    <3>2. CASE calls = <<>>
      BY <3>2, <2>1, <2>2, <2>3 DEF CallsInv
    <3> QED
      BY <3>1, <3>2
  <2>7. Types' /\ MergeInv'
    BY <2>1, <2>3 DEF IInv, Types, MergeInv, InputInv, Inputs, Reads, MergedInv, Taken,
                      NotBefore, HasNext, Merged, Top, Sorting!Ascending
  <2> QED
    BY <2>4, <2>5, <2>6, <2>7 DEF IInv
<1> QED
  BY <1>1, MakePlanIInv, CallRootIInv, ReturnLeafIInv, CallChildIInv, BeginMergeIInv,
     MergeBothIInv, MergeRestIInv, EndMergeIInv DEF Next, Execute, Returned

LEMMA IInvHolds == Spec => []IInv
<1>1. Init => IInv
  BY InitIInv
<1>2. IInv /\ [Next]_vars => IInv'
  BY NextIInv
<1> QED
  BY <1>1, <1>2, PTL DEF Spec

(* While a merge is going on, the block that peek has loaded into each of its two   *)
(* input buffers is the part of a complete run that `consumed` and buffer_pos say,  *)
(* and no part of it lies behind the end of the run, whatever the sizes of blocks   *)
(* and runs are.                                                                    *)
THEOREM BlocksStayInPlace == Spec => []BlocksInPlace
<1>1. IInv => BlocksInPlace
  <2> SUFFICES ASSUME IInv, merging PROVE BlockInPlace(buf1) /\ BlockInPlace(buf2)
    BY DEF BlocksInPlace
  <2>1. PICK i \in Nat, j \in Nat :
            /\ InputInv(buf1, i) /\ InputInv(buf2, j)
            /\ i + 1 \in Complete /\ j + 1 \in Complete
    BY InLoop
  <2>2. ASSUME NEW b, NEW id \in Nat, InputInv(b, id), id + 1 \in Complete
        PROVE  BlockInPlace(b)
    <3>1. b.run_id = id /\ Reads(b, runs[id + 1]) /\ b.run_id + 1 \in Complete
      BY <2>2 DEF InputInv
    <3> QED
      BY <3>1 DEF BlockInPlace, Reads
  <2> QED
    BY <2>1, <2>2
<1>2. Spec => []IInv
  BY IInvHolds
<1> QED
  BY <1>1, <1>2, PTL

----------------------------------------------------------------------------
(* The execution of the plan sorts by merging. *)

LEMMA CompleteRun ==
    ASSUME IInv, NEW r \in Complete
    PROVE  /\ r \in Nat /\ runs[r] \in Seq(Elements)
           /\ ToSet(runs[r]) \subseteq Elements /\ ToSet(runs[r]) # {}
           /\ runs[r] # <<>> /\ Head(runs[r]) \in ToSet(runs[r])
           /\ \A e : Contains(runs[r], e) <=> e \in ToSet(runs[r])
<1>1. r \in Nat
  BY DEF Complete
<1>2. r \in DOMAIN runs /\ runs \in Seq(Seq(Elements)) /\ runs[r] # <<>>
  BY DEF IInv, RunsInv, Types
<1>3. PICK s \in Seq(Elements) : s = runs[r] /\ s # <<>>
  BY <1>2
<1>4. /\ DOMAIN s = 1 .. Len(s) /\ 1 \in DOMAIN s /\ Head(s) = s[1]
      /\ \A p \in DOMAIN s : s[p] \in Elements
  BY <1>3
<1>5. ToSet(s) = {s[p] : p \in DOMAIN s}
  BY DEF ToSet
<1>6. \A e : Contains(s, e) <=> e \in ToSet(s)
  BY <1>4, <1>5 DEF Contains
<1>7. ToSet(s) \subseteq Elements /\ s[1] \in ToSet(s)
  BY <1>4, <1>5
<1> QED
  BY <1>1, <1>3, <1>4, <1>6, <1>7

(* An element of two runs is in one that no merge has read only if the other is older *)
(* and has been read.                                                                 *)
LEMMA LiveApart ==
    ASSUME IInv, NEW q \in Complete, NEW r \in Complete, Live(q), Live(r), q # r
    PROVE  /\ ToSet(runs[q]) \cap ToSet(runs[r]) = {}
           /\ runs[q] # runs[r]
<1>1. q \in Nat /\ r \in Nat /\ ToSet(runs[q]) # {}
  BY CompleteRun
<1>2. CASE q < r
  BY <1>1, <1>2 DEF Live
<1>3. CASE r < q
  BY <1>1, <1>3 DEF Live
<1> QED
  BY <1>1, <1>2, <1>3

(* A run is contained in the later ones that have its first element. *)
LEMMA UnreadIsLive ==
    ASSUME IInv
    PROVE  Unread = {runs[r] : r \in {q \in Complete : Live(q)}}
<1>1. ASSUME NEW q \in Complete
      PROVE  Live(q) <=> \A later \in Complete :
                             later > q => ~Contains(runs[later], Head(runs[q]))
  <2>1. ASSUME NEW later \in Complete, later > q
        PROVE  ToSet(runs[q]) \cap ToSet(runs[later]) = {} <=>
                   ~Contains(runs[later], Head(runs[q]))
    <3>1. Contains(runs[later], Head(runs[q])) <=> Head(runs[q]) \in ToSet(runs[later])
      BY CompleteRun
    <3>2. Head(runs[q]) \in ToSet(runs[q])
      BY CompleteRun
    <3>3. q \in Nat /\ later \in Nat
      BY CompleteRun
    <3>4. \/ ToSet(runs[q]) \cap ToSet(runs[later]) = {}
          \/ ToSet(runs[q]) \subseteq ToSet(runs[later])
      BY <2>1, <3>3 DEF IInv, RunsInv
    <3> QED
      BY <3>1, <3>2, <3>4
  <2> QED
    BY <2>1 DEF Live
<1> QED
  BY <1>1 DEF Unread

(* Nothing changes as long as no run is completed and nothing is returned. *)
LEMMA NoRunCompleted ==
    ASSUME IInv, key' = key, result' = result, Complete' = Complete,
           \A r \in Complete : runs'[r] = runs[r]
    PROVE  UNCHANGED Sorting!mergingVars
<1>1. Unread' = Unread
  BY DEF Unread
<1>2. ASSUME result # Null PROVE runs'[result' + 1] = runs[result + 1]
  <2>1. result + 1 \in Complete
    BY <1>2 DEF IInv, CallsInv
  <2> QED
    BY <2>1
<1> QED
  BY <1>1, <1>2 DEF Sorting!mergingVars

(* The leaf that is the whole plan: there was one run only. *)
LEMMA LeafAnswers ==
    ASSUME IInv, ReturnLeaf, Len(calls) = 1
    PROVE  Sorting!Answer
<1>1. PICK P : PlanInv(P) /\ CallsInv(P)
  BY DEF IInv
<1>2. /\ calls # <<>> /\ Top.node.is_leaf
      /\ UNCHANGED <<lengths, pq, key, runs, merging, buf1, buf2, out>>
  BY DEF ReturnLeaf
<1>3. PICK id : id = Top.node.id
  OBVIOUS
<1>4. Return(id)
  BY <1>3 DEF ReturnLeaf
<1>5. /\ Top = calls[Len(calls)] /\ Len(calls) \in DOMAIN calls
      /\ Top.node \in DOMAIN P
  BY <1>1, <1>2, CallTypes
<1>6. id \in DOMAIN lengths /\ P[Top.node] = ElementsOf(id)
  BY <1>1, <1>2, <1>3, <1>5 DEF PlanInv, IsParts
<1>7. /\ id \in Nat /\ NumInitial \in Nat /\ DOMAIN lengths = 0 .. NumInitial - 1
      /\ lengths \in LengthChoices
  BY <1>6, Numbers DEF IInv, Types
<1>8. P[Top.node] = Elements
  <2>1. pq = {Top.node}
    BY <1>1, <1>2, <1>5 DEF CallsInv
  <2>2. UNION {P[t] : t \in pq} = Elements
    BY <1>1 DEF PlanInv
  <2> QED
    BY <2>1, <2>2
<1>9. Top.ids = <<>> /\ ~merging
  <2>1. Top.ids = <<>>
    BY <1>1, <1>2, <1>5 DEF CallsInv, CallInv
  <2> QED
    BY <2>1, <1>2 DEF IInv, MergeInv
<1>10. NumInitial = 1 /\ id = 0
  <2>1. ASSUME NEW other \in DOMAIN lengths, other # id PROVE FALSE
    <3>1. lengths[other] \in Nat /\ lengths[other] >= 1
      BY <1>7, Numbers
    <3>2. <<other, 1>> \in ElementsOf(other)
      BY <3>1 DEF ElementsOf
    <3>3. <<other, 1>> \in ElementsOf(id)
      BY <3>2, <1>6, <1>8, ElementsAre
    <3> QED
      BY <3>2, <3>3, <2>1, <1>6, ElementsAre
  <2>2. NumInitial >= 1 /\ 0 \in DOMAIN lengths
    BY <1>7, Numbers
  <2>3. id = 0
    BY <2>1, <2>2
  <2>4. ~(1 \in DOMAIN lengths)
    BY <2>1, <2>3
  <2> QED
    BY <2>2, <2>3, <2>4, <1>7
<1>11. Complete = {1}
  <2>1. ASSUME NEW r \in Complete PROVE r = 1
    <3>1. r \in Nat /\ r >= 1
      BY DEF Complete
    <3>2. Untouched(Elements)
      BY <1>1, <1>2, <1>8, <1>9 DEF CallsInv
    <3>3. ToSet(runs[r]) \subseteq Elements /\ ToSet(runs[r]) # {}
      BY CompleteRun
    <3>4. ~(r > 1)
      BY <3>2, <3>3, <1>10 DEF Untouched
    <3> QED
      BY <3>1, <3>4
  <2>2. 1 \in Complete
    BY <1>10 DEF IInv, RunsInv
  <2> QED
    BY <2>1, <2>2
<1>12. Unread = {runs[1]}
  <2>1. Live(1)
    BY <1>11 DEF Live
  <2>2. {q \in Complete : Live(q)} = {1}
    BY <2>1, <1>11
  <2> QED
    BY <2>2, UnreadIsLive
<1>13. Unread' = Unread
  <2>1. Complete' = Complete
    BY <1>2 DEF Complete
  <2> QED
    BY <2>1, <1>2 DEF Unread
<1>14. result = Null /\ result' = 0 /\ 0 # Null
  <2>1. result' = 0
    BY <1>1, <1>2, <1>4, <1>7, <1>10, ReturnCalls
  <2>2. result = Null
    BY <1>1, <1>2 DEF CallsInv
  <2> QED
    BY <2>1, <2>2, SizesAssumption
<1>15. runs'[0 + 1] = runs[1]
  BY <1>2
<1> QED
  BY <1>2, <1>12, <1>13, <1>14, <1>15 DEF Sorting!Answer

UnreadIsLiveInv == Unread = {runs[r] : r \in {q \in Complete : Live(q)}}

LEMMA NextUnreadIsLive == IInv' => UnreadIsLiveInv'
<1>1. IInv => UnreadIsLiveInv
  BY UnreadIsLive DEF UnreadIsLiveInv
<1> QED
  BY <1>1, PTL

LEMMA WithoutTwo ==
    ASSUME NEW f, NEW S, NEW a \in S, NEW b \in S,
           \A q \in S \ {a, b} : f[q] # f[a] /\ f[q] # f[b]
    PROVE  {f[r] : r \in S \ {a, b}} = {f[r] : r \in S} \ {f[a], f[b]}
  OBVIOUS

(* When a merge ends, its two runs have been read, and the run of both is new. *)
LEMMA EndMergeUnread ==
    ASSUME IInv, NEW P, PlanInv(P), CallsInv(P), EndMerge,
           NEW n \in Nat, NEW i \in Nat, NEW j \in Nat,
           NEW s \in Seq(Elements), NEW t \in Seq(Elements), NEW w \in Seq(Elements),
           Ended(n, i, j, s, t, w)
    PROVE  /\ s \in Unread /\ t \in Unread /\ s # t
           /\ w \in Unread' /\ w \notin Unread
           /\ Unread' = (Unread \ {s, t}) \cup {w}
           /\ ToSet(w) = Elements => Unread' = {w}
<1>1. /\ Complete = 1 .. n - 1 /\ Complete' = 1 .. n /\ calls # <<>>
      /\ i + 1 \in Complete /\ j + 1 \in Complete /\ Len(Top.ids) = 2
      /\ runs'[n] = w /\ \A r \in Complete : runs'[r] = runs[r]
      /\ s = runs[i + 1] /\ t = runs[j + 1] /\ i = Top.ids[1] /\ j = Top.ids[2]
      /\ ToSet(w) = ToSet(s) \cup ToSet(t)
  BY DEF Ended
<1>2. Live(i + 1) /\ Live(j + 1) /\ ToSet(s) \cap ToSet(t) = {}
      /\ ToSet(s) # {} /\ ToSet(t) # {}
  BY <1>1, BothIds
<1> DEFINE L == {q \in Complete : Live(q)}
<1>3. Unread = {runs[r] : r \in L}
  BY UnreadIsLive
<1>4. IInv'
  BY EndMergeIInv
<1>5. Unread' = {runs'[r] : r \in {q \in 1 .. n : Live(q)'}}
  <2>1. Unread' = {runs'[r] : r \in {q \in Complete' : Live(q)'}}
    BY <1>4, NextUnreadIsLive DEF UnreadIsLiveInv
  <2> QED
    BY <2>1, <1>1
<1>6. i + 1 \in L /\ j + 1 \in L
  BY <1>1, <1>2
<1>7. ASSUME NEW q \in L, ToSet(runs[q]) \cap ToSet(w) # {}
      PROVE  q = i + 1 \/ q = j + 1
  <2>1. \/ ToSet(runs[q]) \cap ToSet(s) # {}
        \/ ToSet(runs[q]) \cap ToSet(t) # {}
    BY <1>1, <1>7
  <2> QED
    BY <2>1, <1>1, <1>6, LiveApart
<1>8. \A q \in L : ToSet(runs[q]) # {} /\ ToSet(runs[q]) \subseteq Elements
  BY CompleteRun
<1>9. ASSUME NEW q \in Complete
      PROVE  Live(q)' <=> q \in L \ {i + 1, j + 1}
  <2>1. n > q /\ q \in Nat /\ ToSet(runs[q]) # {} /\ runs'[q] = runs[q]
    BY <1>1, CompleteRun
  <2>2. Live(q)' <=> Live(q) /\ ToSet(runs[q]) \cap ToSet(w) = {}
    <3>1. \A later \in Complete : later \in Complete' /\ runs'[later] = runs[later]
      BY <1>1
    <3>2. n \in Complete' /\ runs'[n] = w
      BY <1>1
    <3>3. \A later \in Complete' : later \in Complete \/ later = n
      BY <1>1
    <3> QED
      BY <3>1, <3>2, <3>3, <2>1 DEF Live
  <2>3. q \in {i + 1, j + 1} => ToSet(runs[q]) \cap ToSet(w) # {}
    BY <1>1, <1>2
  <2> QED
    BY <2>2, <2>3, <1>7
<1>10. Live(n)'
  BY <1>1 DEF Live
<1>11. {q \in 1 .. n : Live(q)'} = (L \ {i + 1, j + 1}) \cup {n}
  <2>1. \A q \in 1 .. n : q \in Complete \/ q = n
    BY <1>1
  <2>2. n \in 1 .. n /\ \A q \in L : q \in 1 .. n
    BY <1>1
  <2> QED
    BY <2>1, <2>2, <1>9, <1>10
<1>12. Unread' = {runs[r] : r \in L \ {i + 1, j + 1}} \cup {w}
  <2>1. Unread' = {runs'[r] : r \in (L \ {i + 1, j + 1}) \cup {n}}
    BY <1>5, <1>11
  <2>2. (\A r \in L : runs'[r] = runs[r]) /\ runs'[n] = w
    BY <1>1
  <2> HIDE DEF L
  <2> QED
    BY <2>1, <2>2
<1>13. s # t
  BY <1>2
<1>14. \A q \in L \ {i + 1, j + 1} : runs[q] # s /\ runs[q] # t
  BY <1>1, <1>6, LiveApart
<1>15. {runs[r] : r \in L \ {i + 1, j + 1}} = Unread \ {s, t}
  <2> HIDE DEF L
  <2>1. {runs[r] : r \in L \ {i + 1, j + 1}} = {runs[r] : r \in L} \ {runs[i + 1], runs[j + 1]}
    <3>1. \A q \in L \ {i + 1, j + 1} : runs[q] # runs[i + 1] /\ runs[q] # runs[j + 1]
      BY <1>1, <1>14
    <3>2. PICK a, b : a = i + 1 /\ b = j + 1
      OBVIOUS
    <3>3. {runs[r] : r \in L \ {a, b}} = {runs[r] : r \in L} \ {runs[a], runs[b]}
      BY <3>1, <3>2, <1>6, WithoutTwo
    <3> QED
      BY <3>2, <3>3
  <2> QED
    BY <2>1, <1>1, <1>3
<1>16. w \notin Unread
  <2> SUFFICES ASSUME NEW q \in L, runs[q] = w PROVE FALSE
    BY <1>3
  <2>1. ToSet(runs[q]) \cap ToSet(w) # {}
    BY <1>8
  <2>2. q = i + 1 \/ q = j + 1
    BY <2>1, <1>7
  <2> QED
    BY <2>2, <1>1, <1>2
<1>17. ASSUME ToSet(w) = Elements PROVE Unread' = {w}
  <2>1. \A q \in L : q = i + 1 \/ q = j + 1
    BY <1>7, <1>8, <1>17
  <2> QED
    BY <2>1, <1>12
<1> HIDE DEF L
<1> QED
  BY <1>1, <1>3, <1>6, <1>12, <1>13, <1>15, <1>16, <1>17

LEMMA EndMergesTwo == IInv /\ EndMerge => Sorting!MergeTwo
<1> SUFFICES ASSUME IInv, EndMerge PROVE Sorting!MergeTwo
  OBVIOUS
<1>1. PICK P : PlanInv(P) /\ CallsInv(P)
  BY DEF IInv
<1>2. PICK n \in Nat, i \in Nat, j \in Nat : \E s, t, w \in Seq(Elements) : Ended(n, i, j, s, t, w)
  BY WrittenRun
<1>3. PICK s \in Seq(Elements), t \in Seq(Elements), w \in Seq(Elements) : Ended(n, i, j, s, t, w)
  BY <1>2
<1>4. /\ s \in Unread /\ t \in Unread /\ s # t
      /\ w \in Unread' /\ w \notin Unread
      /\ Unread' = (Unread \ {s, t}) \cup {w}
      /\ ToSet(w) = Elements => Unread' = {w}
  BY <1>1, <1>3, EndMergeUnread
<1>5. Sorting!IsMergeOf(w, s, t)
  BY <1>3 DEF Ended, Sorting!IsMergeOf, Sorting!ToSet, ToSet
<1>6. /\ calls # <<>> /\ Return(n - 1) /\ n - 1 \in Nat /\ (n - 1) + 1 = n
      /\ runs'[n] = w
  <2>1. n >= 2 /\ calls # <<>> /\ Return(n - 1) /\ runs'[n] = w
    BY <1>3 DEF Ended
  <2> QED
    BY <2>1
<1>7. result = Null /\ key' = key
  BY <1>1, <1>6 DEF CallsInv, EndMerge
<1>8. PICK answer : answer = (IF result = Null THEN Null ELSE runs[result + 1])'
  OBVIOUS
<1>9. answer = Null \/ (Unread' = {w} /\ answer = w)
  <2>1. CASE Len(calls) = 1
    <3>1. result' = n - 1 /\ n - 1 # Null
      BY <2>1, <1>1, <1>6, SizesAssumption, ReturnCalls
    <3>2. answer = w
      BY <3>1, <1>6, <1>8
    <3>3. ToSet(w) = Elements
      <4>1. ToSet(w) = P[Top.node]
        <5>1. /\ ToSet(w) = ToSet(s) \cup ToSet(t) /\ Len(Top.ids) = 2
              /\ s = runs[Top.ids[1] + 1] /\ t = runs[Top.ids[2] + 1]
          BY <1>3 DEF Ended
        <5> QED
          BY <5>1, <1>1, <1>6, BothIds
      <4>2. Top = calls[1]
        BY <2>1, <1>1, <1>6, CallTypes
      <4>3. pq = {Top.node} /\ UNION {P[u] : u \in pq} = Elements
        BY <4>2, <1>1, <1>6 DEF CallsInv, PlanInv
      <4> QED
        BY <4>1, <4>3
    <3> QED
      BY <3>2, <3>3, <1>4
  <2>2. CASE Len(calls) > 1
    BY <2>2, <1>1, <1>6, <1>7, <1>8, ReturnCalls
  <2>3. PICK m \in Nat : m = Len(calls) /\ m >= 1
    BY <1>1, <1>6, CallTypes
  <2>4. Len(calls) = 1 \/ Len(calls) > 1
    BY <2>3
  <2> QED
    BY <2>1, <2>2, <2>4
<1> QED
  BY <1>4, <1>5, <1>7, <1>8, <1>9 DEF Sorting!MergeTwo

(* Nothing is answered while a run is awaited by a caller. *)
LEMMA LeafReturns ==
    ASSUME IInv, ReturnLeaf, Len(calls) # 1
    PROVE  UNCHANGED Sorting!mergingVars
<1>1. PICK P : PlanInv(P) /\ CallsInv(P)
  BY DEF IInv
<1>2. /\ calls # <<>> /\ Top.node.is_leaf /\ Return(Top.node.id)
      /\ UNCHANGED <<lengths, pq, key, runs, merging, buf1, buf2, out>>
  BY DEF ReturnLeaf
<1>m. PICK m \in Nat : m = Len(calls) /\ m >= 1
  BY <1>1, <1>2, CallTypes
<1>3. Len(calls) > 1
  BY <1>m
<1>4. Top.node.id \in Nat
  <2>1. Top.node \in DOMAIN P
    BY <1>1, <1>2, CallTypes
  <2>2. Top.node.id \in DOMAIN lengths
    BY <2>1, <1>1, <1>2 DEF PlanInv, IsParts
  <2> QED
    BY <2>2, Numbers DEF IInv, Types
<1>5. result' = result
  BY <1>1, <1>2, <1>3, <1>4, ReturnCalls
<1>6. Complete' = Complete
  BY <1>2 DEF Complete
<1> QED
  BY <1>2, <1>5, <1>6, NoRunCompleted

LEMMA BeginUnread == IInv /\ BeginMerge => UNCHANGED Sorting!mergingVars
<1> SUFFICES ASSUME IInv, BeginMerge PROVE UNCHANGED Sorting!mergingVars
  OBVIOUS
<1>1. /\ ~merging /\ merging' = TRUE /\ runs' = Append(runs, <<>>)
      /\ UNCHANGED <<key, result>>
  BY DEF BeginMerge, Inner
<1>2. PICK rs \in Seq(Seq(Elements)), n \in Nat : rs = runs /\ n = Len(rs)
  BY DEF IInv, Types
<1>3. Complete = 1 .. n
  BY <1>1, <1>2 DEF Complete
<1>4. Len(runs') = n + 1 /\ \A r \in 1 .. n : runs'[r] = runs[r]
  <2>1. <<>> \in Seq(Elements)
    BY EmptySeq
  <2> QED
    BY <2>1, <1>1, <1>2
<1>5. Complete' = 1 .. n
  BY <1>1, <1>4 DEF Complete
<1> QED
  BY <1>1, <1>3, <1>4, <1>5, NoRunCompleted

LEMMA LoopUnread == IInv /\ (MergeBoth \/ MergeRest) => UNCHANGED Sorting!mergingVars
<1> SUFFICES ASSUME IInv, MergeBoth \/ MergeRest PROVE UNCHANGED Sorting!mergingVars
  OBVIOUS
<1>1. merging /\ UNCHANGED <<key, result, merging>> /\ Types /\ RunsInv
  BY DEF MergeBoth, MergeRest, IInv
<1>2. PICK i \in Nat, j \in Nat :
             /\ i + 1 \in Complete /\ j + 1 \in Complete
             /\ InputInv(buf1, i) /\ InputInv(buf2, j)
  BY <1>1, InLoop
<1>3. /\ HasNext(buf1) => Ahead(Peeked(buf1)) \in Elements
      /\ HasNext(buf2) => Ahead(Peeked(buf2)) \in Elements
  BY <1>1, <1>2, TakeNext
<1>4. \E e \in Elements : Add(e)
  <2>1. CASE MergeBoth
    <3>1. HasNext(buf1) /\ HasNext(buf2)
      BY <2>1 DEF MergeBoth, BothHaveNext
    <3>2. Add(Ahead(Peeked(buf1))) \/ Add(Ahead(Peeked(buf2)))
      BY <2>1 DEF MergeBoth
    <3> QED
      BY <3>1, <3>2, <1>3
  <2>2. CASE MergeRest
    <3>1. \/ HasNext(buf1) /\ Add(Ahead(Peeked(buf1)))
          \/ HasNext(buf2) /\ Add(Ahead(Peeked(buf2)))
      BY <2>2 DEF MergeRest
    <3> QED
      BY <3>1, <1>3
  <2> QED
    BY <2>1, <2>2
<1>5. (\A r \in Complete : runs'[r] = runs[r]) /\ Complete' = Complete
  BY <1>1, <1>4, AddMerges
<1> QED
  BY <1>1, <1>5, NoRunCompleted

(* A merge reads complete runs only, although the last elements of a run are written   *)
(* after its id has been taken, and replaces both by a sorted run of their elements,   *)
(* in the same file and block by block; what the outermost call returns is the run of  *)
(* all elements.                                                                       *)
THEOREM MergesTwoAtATime == Spec => Sorting!Steps
<1>1. Init => Sorting!Init
  <2> SUFFICES ASSUME Init PROVE Sorting!Init
    OBVIOUS
  <2>1. IInv
    BY InitIInv
  <2>2. /\ lengths \in LengthChoices /\ runs = InitialRuns /\ ~merging /\ result = Null
        /\ DOMAIN key = Elements
    BY <2>1 DEF Init, InitPlan, IInv, Types
  <2>3. Complete = 1 .. NumInitial
    BY <2>2, InitialRunsType DEF Complete
  <2>4. \A r \in 1 .. NumInitial : Live(r)
    BY <2>2, <2>3, InitialRunsDisjoint, Numbers DEF Live
  <2>5. Unread = {InitialRuns[r] : r \in 1 .. NumInitial}
    <3>1. {q \in Complete : Live(q)} = 1 .. NumInitial
      BY <2>3, <2>4
    <3> QED
      BY <3>1, <2>1, <2>2, UnreadIsLive
  <2>6. UNION {ToSet(s) : s \in Unread} = Elements
    <3>1. \A s \in Unread : ToSet(s) \subseteq Elements
      BY <2>1, <2>2, <2>3, <2>5, CompleteRun
    <3>2. ASSUME NEW e \in Elements PROVE \E s \in Unread : e \in ToSet(s)
      <4>1. PICK id \in DOMAIN lengths : e \in ElementsOf(id)
        BY ElementsAre
      <4>2. id + 1 \in 1 .. NumInitial /\ (id + 1) - 1 = id
        BY <2>2, Numbers
      <4>3. ToSet(InitialRuns[id + 1]) = ElementsOf(id)
        BY <4>2, <2>2, InitialRun
      <4> QED
        BY <4>1, <4>2, <4>3, <2>5
    <3> QED
      BY <3>1, <3>2
  <2>7. ASSUME NEW s \in Unread
        PROVE  /\ Sorting!Ascending(s) /\ IsInjective(s)
               /\ \A t \in Unread \ {s} : ToSet(s) \cap ToSet(t) = {}
    <3>1. PICK r \in 1 .. NumInitial : s = InitialRuns[r]
      BY <2>5
    <3>2. Sorting!Ascending(s)
      BY <3>1, <2>2, InitialRunsSorted DEF Init
    <3>3. IsInjective(s)
      <4>1. /\ s \in Seq(Elements) /\ Len(s) = lengths[r - 1]
            /\ \A p \in 1 .. lengths[r - 1] : s[p] = <<r - 1, p>>
        BY <3>1, <2>2, InitialRun
      <4>2. DOMAIN s = 1 .. lengths[r - 1]
        BY <4>1
      <4> QED
        BY <4>1, <4>2 DEF IsInjective
    <3>4. ASSUME NEW t \in Unread \ {s} PROVE ToSet(s) \cap ToSet(t) = {}
      <4>1. PICK q \in 1 .. NumInitial : t = InitialRuns[q]
        BY <2>5
      <4>2. q # r
        BY <3>1, <4>1
      <4> QED
        BY <3>1, <4>1, <4>2, <2>2, InitialRunsDisjoint
    <3> QED
      BY <3>2, <3>3, <3>4
  <2> QED
    BY <2>2, <2>6, <2>7 DEF Sorting!Init, Sorting!ToSet, ToSet, Sorting!IsInjective, IsInjective
<1>2. IInv /\ [Next]_vars => [Sorting!MergeTwo \/ Sorting!Answer]_Sorting!mergingVars
  <2> SUFFICES ASSUME IInv, [Next]_vars
               PROVE  Sorting!MergeTwo \/ Sorting!Answer \/ UNCHANGED Sorting!mergingVars
    OBVIOUS
  <2>1. CASE UNCHANGED vars \/ MakePlan \/ CallRoot \/ CallChild
    <3>1. UNCHANGED <<key, runs, merging, result>>
      BY <2>1 DEF vars, MakePlan, CallRoot, CallChild
    <3>2. Complete' = Complete
      BY <3>1 DEF Complete
    <3> QED
      BY <3>1, <3>2, NoRunCompleted
  <2>2. CASE ReturnLeaf
    BY <2>2, LeafAnswers, LeafReturns
  <2>3. CASE BeginMerge
    BY <2>3, BeginUnread
  <2>4. CASE MergeBoth \/ MergeRest
    BY <2>4, LoopUnread
  <2>5. CASE EndMerge
    BY <2>5, EndMergesTwo
  <2> QED
    BY <2>1, <2>2, <2>3, <2>4, <2>5 DEF Next, Execute, Returned
<1>3. Spec => []IInv
  BY IInvHolds
<1> QED
  BY <1>1, <1>2, <1>3, PTL DEF Spec, Sorting!Steps

(* Where the sort comes to an end, what it does is what SortByMerging promises.  That *)
(* it does come to an end needs the fairness in Spec, and is left to TLC.             *)
THEOREM MergingIsImplemented == Spec /\ <>(result # Null) => ImplementsMerging
<1>1. IInv /\ result # Null => (IF result = Null THEN Null ELSE runs[result + 1]) # Null
  <2> SUFFICES ASSUME IInv, result # Null PROVE runs[result + 1] # Null
    OBVIOUS
  <2>1. result + 1 \in Complete
    BY DEF IInv, CallsInv
  <2>2. PICK s \in Seq(Elements) : s = runs[result + 1]
    BY <2>1, CompleteRun
  <2>3. Elements \subseteq Nat \X Nat
    BY Numbers DEF IInv, Types, Elements
  <2>4. s \in Seq(Nat \X Nat)
    BY <2>3
  <2> QED
    BY <2>2, <2>4, SizesAssumption
<1>2. Spec => []IInv
  BY IInvHolds
<1>3. Spec => Sorting!Steps
  BY MergesTwoAtATime
<1> QED
  BY <1>1, <1>2, <1>3, PTL DEF ImplementsMerging, Sorting!Spec
==============================================================================
