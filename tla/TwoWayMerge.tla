---------------------------- MODULE TwoWayMerge ----------------------------
(***************************************************************************)
(* A file sorted by a plan of two-way merges, as testMerge does it: the    *)
(* plan is made from the file of initial runs, the runs are copied to      *)
(* out_store, and execute_merge_plan_return_id merges them there, with     *)
(* two input buffers and an output buffer at a time.  out_store is the     *)
(* list of runs that MultiRunFile implements; the runs that a merge reads  *)
(* and the run that it writes are in the same file.                        *)
(*                                                                         *)
(* An element is its place in the initial runs, <<run, position>>; `key`   *)
(* gives its value.  Run r of the file is runs[r + 1].                     *)
(***************************************************************************)
EXTENDS MergePlan, Sequences, SequencesExt

CONSTANTS
    BUFFER_SIZE,   \* of an InputBuffer, in elements
    OUT_SIZE,      \* of an OutputBuffer, in elements
    Keys,          \* the values an element may have
    Null

ASSUME SizesAssumption ==
    /\ BUFFER_SIZE \in Nat \ {0}
    /\ OUT_SIZE \in Nat \ {0}
    /\ Keys \subseteq Int
    /\ Null \notin Nat /\ Null \notin Seq(Nat \X Nat)   \* no run id, no run

VARIABLES
    key,         \* the value of each element; never changes
    runs,        \* the runs of out_store; the last one is the open one
    calls,       \* active calls of execute_merge_plan_return_id, the innermost last
    result,      \* what the outermost call has returned, or Null
    merging,     \* a call of two_way_merge is active
    buf1, buf2,  \* its InputBuffers
    out          \* buffer_ of its OutputBuffer

vars == <<lengths, pq, key, runs, calls, result, merging, buf1, buf2, out>>

Elements == UNION {{<<id, p>> : p \in 1 .. lengths[id]} : id \in DOMAIN lengths}

(* The runs that are copied to out_store, in their order. *)
InitialRuns == [r \in 1 .. Cardinality(DOMAIN lengths) |->
                  [p \in 1 .. lengths[r - 1] |-> <<r - 1, p>>]]

----------------------------------------------------------------------------
(* InputBuffer. *)

GetRunSize(run_id) == Len(runs[run_id + 1])

NewInput(run_id) ==
    [run_id |-> run_id, buffer |-> <<>>, buffer_pos |-> 0,
     total_size |-> GetRunSize(run_id), consumed |-> 0]

HasNext(b) == b.consumed < b.total_size

Block(b) ==
    LET remaining == b.total_size - b.consumed
    IN IF remaining < BUFFER_SIZE THEN remaining ELSE BUFFER_SIZE

LoadedAtPos(b) ==   \* the position in the block taken for that in the run
    [b EXCEPT !.buffer_pos = 0,
              !.buffer = SubSeq(runs[b.run_id + 1], b.buffer_pos + 1, b.buffer_pos + Block(b))]

(* load_next_block, of the elements from `consumed` on. *)
Loaded(b) ==
    [b EXCEPT !.buffer_pos = 0,
              !.buffer = SubSeq(runs[b.run_id + 1], b.consumed + 1, b.consumed + Block(b))]

MustLoad(b) == b.buffer_pos >= Len(b.buffer)

(* peek leaves the buffer filled. *)
Peeked(b) == IF MustLoad(b) THEN Loaded(b) ELSE b

Ahead(b) == b.buffer[b.buffer_pos + 1]

NextOf(b) == [b EXCEPT !.buffer_pos = @ + 1, !.consumed = @ + 1]

----------------------------------------------------------------------------
(* OutputBuffer: what has been added, and the run, after `add` and after `flush`. *)

AppendToRun(keys) == [runs EXCEPT ![Len(runs)] = @ \o keys]

Add(e) ==
    LET added == Append(out, e)
    IN IF Len(added) >= OUT_SIZE
       THEN out' = <<>> /\ runs' = AppendToRun(added)
       ELSE out' = added /\ UNCHANGED runs

LeaveUnflushed == out' = <<>> /\ UNCHANGED runs   \* no destructor that flushes

Flush == out' = <<>> /\ runs' = AppendToRun(out)

----------------------------------------------------------------------------
(* two_way_merge. *)

TakesLeftAlways(val1, val2) == TRUE   \* the values not compared

TakesLeft(val1, val2) == val1 <= val2

BothHaveNext == HasNext(buf1) /\ HasNext(buf2)

MergeBoth ==
    LET b1 == Peeked(buf1)
        b2 == Peeked(buf2)
    IN /\ merging /\ BothHaveNext
       /\ IF TakesLeft(key[Ahead(b1)], key[Ahead(b2)])
          THEN Add(Ahead(b1)) /\ buf1' = NextOf(b1) /\ buf2' = b2
          ELSE Add(Ahead(b2)) /\ buf1' = b1 /\ buf2' = NextOf(b2)
       /\ UNCHANGED <<lengths, pq, key, calls, result, merging>>

MergeRest ==
    /\ merging /\ ~BothHaveNext
    /\ \/ /\ HasNext(buf1)
          /\ Add(Ahead(Peeked(buf1))) /\ buf1' = NextOf(Peeked(buf1))
          /\ UNCHANGED buf2
       \/ /\ HasNext(buf2)
          /\ Add(Ahead(Peeked(buf2))) /\ buf2' = NextOf(Peeked(buf2))
          /\ UNCHANGED buf1
    /\ UNCHANGED <<lengths, pq, key, calls, result, merging>>

----------------------------------------------------------------------------
(* execute_merge_plan_return_id. *)

Call(node) == [node |-> node, ids |-> <<>>]

Top == Last(calls)

(* The innermost call returns `id` to its caller. *)
Return(id) ==
    LET callers == Front(calls)
    IN /\ calls' = IF callers = <<>> THEN <<>>
                   ELSE [callers EXCEPT ![Len(callers)].ids = Append(@, id)]
       /\ result' = IF callers = <<>> THEN id ELSE result

ReturnLeaf ==
    /\ calls # <<>> /\ Top.node.is_leaf
    /\ Return(Top.node.id)
    /\ UNCHANGED <<lengths, pq, key, runs, merging, buf1, buf2, out>>

Inner == calls # <<>> /\ ~Top.node.is_leaf /\ ~merging

(* The left child first, then the right one. *)
CallChild ==
    /\ Inner /\ Len(Top.ids) < 2
    /\ calls' = Append(calls, Call(IF Top.ids = <<>> THEN Top.node.left ELSE Top.node.right))
    /\ UNCHANGED <<lengths, pq, key, runs, result, merging, buf1, buf2, out>>

(* two_way_merge up to its first loop: the buffers, then begin_run. *)
BeginMerge ==
    /\ Inner /\ Len(Top.ids) = 2
    /\ merging' = TRUE
    /\ buf1' = NewInput(Top.ids[1])
    /\ buf2' = NewInput(Top.ids[2])
    /\ out' = <<>>
    /\ runs' = Append(runs, <<>>)
    /\ UNCHANGED <<lengths, pq, key, calls, result>>

(* The id is taken, the destructor of the output buffer writes what is left in it. *)
EndMerge ==
    /\ merging /\ ~HasNext(buf1) /\ ~HasNext(buf2)
    /\ Return(Len(runs) - 1)
    /\ Flush
    /\ merging' = FALSE
    /\ buf1' = Null /\ buf2' = Null
    /\ UNCHANGED <<lengths, pq, key>>

(* The outermost call, once the queue holds the whole plan. *)
CallRoot ==
    /\ Planned /\ calls = <<>> /\ result = Null
    /\ \E root \in pq : calls' = <<Call(root)>>
    /\ UNCHANGED <<lengths, pq, key, runs, result, merging, buf1, buf2, out>>

MakePlan == Join /\ UNCHANGED <<key, runs, calls, result, merging, buf1, buf2, out>>

SortedInitially ==
    \A id \in DOMAIN lengths : \A p \in 1 .. lengths[id] - 1 :
        key[<<id, p>>] <= key[<<id, p + 1>>]

Init ==
    /\ InitPlan
    /\ key \in [Elements -> Keys] /\ SortedInitially
    /\ runs = InitialRuns
    /\ calls = <<>> /\ result = Null
    /\ merging = FALSE
    /\ buf1 = Null /\ buf2 = Null /\ out = <<>>

Execute == CallRoot \/ ReturnLeaf \/ CallChild \/ BeginMerge \/ MergeBoth \/ MergeRest \/ EndMerge

Returned == result # Null /\ UNCHANGED vars

Next == MakePlan \/ Execute \/ Returned

(* One thread that waits for nothing. *)
Spec == Init /\ [][Next]_vars /\ WF_vars(MakePlan \/ Execute)

----------------------------------------------------------------------------
(* All but the run that is being written. *)
Complete == 1 .. (IF merging THEN Len(runs) - 1 ELSE Len(runs))

(* A block holds exactly the elements that `consumed` and buffer_pos say, of a    *)
(* complete run that is as long as it was when the buffer was made, so that       *)
(* map_run_range is never asked for elements behind the end of the run (it would  *)
(* throw), and next() returns the elements in their order.                        *)
BlockInPlace(b) ==
    LET first == b.consumed - b.buffer_pos
    IN /\ b.run_id + 1 \in Complete /\ b.total_size = Len(runs[b.run_id + 1])
       /\ b.consumed <= b.total_size
       /\ first + Len(b.buffer) <= b.total_size
       /\ b.buffer = SubSeq(runs[b.run_id + 1], first + 1, first + Len(b.buffer))

BlocksInPlace == merging => BlockInPlace(buf1) /\ BlockInPlace(buf2)

(* The runs that no finished merge has read: their first element is in no later    *)
(* run.  A merge is finished when its run is complete: until then its inputs count *)
(* as unread, after that the run it wrote counts.                                  *)
Unread ==
    {runs[r] : r \in {q \in Complete :
        \A later \in Complete : later > q => ~Contains(runs[later], Head(runs[q]))}}

(* The execution of the plan merges sorted runs of all elements until one is left, *)
(* returns that one, and comes to an end: each merge reads complete runs, although *)
(* the last elements of a run are written after its id has been taken, and writes  *)
(* every element of both once and in order, block by block, beside them.           *)
Sorting == INSTANCE SortByMerging WITH
               pending <- Unread, Unknown <- Null,
               answer <- IF result = Null THEN Null ELSE runs[result + 1]

ImplementsMerging == Sorting!Spec
============================================================================
