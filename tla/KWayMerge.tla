----------------------------- MODULE KWayMerge -----------------------------
(***************************************************************************)
(* The three threads of the K-way merge: inputRun loads chunks of the runs *)
(* of a round into buffers from a pool and queues them, kWayMerge takes    *)
(* them from the queues, merges them through a heap into two output        *)
(* buffers and appends a run to the file, writer_p clears active bits.     *)
(* Round after round reads runs from, and appends a run to, one file.      *)
(*                                                                         *)
(* The input and the merge thread share the pool, the queues, the array    *)
(* current_buffers and the file, and wait for each other only through      *)
(* `inited`; every load or store of one of those is a step of its own.     *)
(* One call of the pool or of a queue is one step, that is, the model      *)
(* takes these unsynchronised containers to behave as if each call were    *)
(* atomic.                                                                 *)
(*                                                                         *)
(* An element is its place in the initial runs, <<run, position>>; `key`   *)
(* gives its value.  Run r of the file is runs[r + 1].                     *)
(***************************************************************************)
EXTENDS Integers, FiniteSets, Sequences, SequencesExt, MergeRounds

CONSTANTS
    K,                     \* queues; a round reads at most K runs
    Rounds,                \* what generate_task returned
    InitialSizes,          \* the sizes of the initial runs
    CHUNK,                 \* elements per buffer load, 1 << 13
    OUT_SWITCH_THRESHOLD,  \* elements per output batch, 1 << 16
    BUFFER_SIZE,           \* an OutputBuffer this full appends by itself, 1 << 20
    Keys,                  \* the values an element may have
    Null

ASSUME SizesAssumption ==
    /\ K \in Nat \ {0, 1}
    /\ CHUNK \in Nat \ {0}
    /\ OUT_SWITCH_THRESHOLD \in Nat \ {0}
    /\ BUFFER_SIZE \in Nat \ {0}
    /\ Keys \subseteq Int
    /\ Null \notin Nat

(* create_entries makes no empty run. *)
ASSUME RunsAssumption == InitialSizes \in Seq(Nat \ {0})

(* GenerateTaskProofs proves this of what generate_task returns for a file with runs. *)
ASSUME RoundsAssumption == ValidRounds(K, Len(InitialSizes), Rounds)

Elements == UNION {{<<r, p>> : p \in 1 .. InitialSizes[r]} : r \in DOMAIN InitialSizes}

InitialRuns == [r \in DOMAIN InitialSizes |->
                  [p \in 1 .. InitialSizes[r] |-> <<r, p>>]]

(* The driver fills the pool with 2K buffers.  Queues and rounds count from 1. *)
Buffers == 1 .. 2 * K
Queues == 1 .. K
Outs == {0, 1}

VARIABLES
    key,              \* the value of each element; never changes
    \* the file (MultiRunFile): its runs, and what append_direct puts behind them
    runs, in_run, stray,
    \* shared by the input and the merge thread
    pool,             \* free buffers; taken from and returned to the back
    content,          \* content[b]: the elements of b that next() has not returned
    queue,            \* queue[i]: the buffers waiting in qs[i], front first
    run_size, elements_read,   \* of qs[i]
    current_buffers,
    inited,
    \* shared by the merge thread and writer_p
    out_active, out_buffer, done_sorting,
    \* the input thread
    ipc, round, slot, hand, run_offsets, last_key, min_index, min_key,
    \* the merge thread
    mpc, cur_task, i, pq, is_empty, finished, taken, src, cur_out, cur_out_count,
    \* writer_p
    wpc

fileVars == <<runs, in_run, stray>>
poolVars == <<pool, content>>
queueVars == <<queue, run_size, elements_read>>
outVars == <<out_active, out_buffer>>
inputVars == <<ipc, round, slot, hand, run_offsets, last_key, min_index, min_key>>
mergeVars == <<mpc, cur_task, i, pq, is_empty, finished, taken, src,
               cur_out, cur_out_count>>
offsetVars == <<run_offsets, last_key>>
choiceVars == <<min_index, min_key>>
scanVars == <<is_empty, finished, taken>>
countVars == <<cur_out, cur_out_count>>
runVars == <<runs, in_run>>
vars == <<key, fileVars, poolVars, queueVars, current_buffers, inited, outVars,
          done_sorting, inputVars, mergeVars, wpc>>

(* What no step of a thread changes. *)
inputKeeps == <<key, fileVars, current_buffers, outVars, done_sorting, mergeVars, wpc>>
mergeKeeps == <<key, stray, run_size, elements_read, inputVars, wpc>>
writerKeeps == <<key, runVars, poolVars, queueVars, current_buffers, inited,
                 done_sorting, inputVars, mergeVars>>

(* create_entries cuts a run where the next value is smaller. *)
SortedInitially(k) ==
    \A e, f \in Elements : e[1] = f[1] /\ e[2] <= f[2] => k[e] <= k[f]

Init ==
    /\ key \in {k \in [Elements -> Keys] : SortedInitially(k)}
    /\ runs = InitialRuns /\ in_run = FALSE /\ stray = << >>
    /\ pool = [b \in Buffers |-> b]
    /\ content = [b \in Buffers |-> << >>]
    /\ queue = [q \in Queues |-> << >>]
    /\ run_size = [q \in Queues |-> 0]
    /\ elements_read = [q \in Queues |-> 0]
    /\ current_buffers = [q \in Queues |-> Null]
    /\ inited = FALSE
    /\ out_active = [o \in Outs |-> FALSE]
    /\ out_buffer = [o \in Outs |-> << >>]
    /\ done_sorting = FALSE
    /\ ipc = "round" /\ round = 1 /\ slot = 1 /\ hand = Null
    /\ run_offsets = [q \in Queues |-> 0]
    /\ last_key = [q \in Queues |-> 0]
    /\ min_index = Null /\ min_key = Null
    /\ mpc = (IF Rounds = << >> THEN "final" ELSE "await")
    /\ cur_task = 1 /\ i = 1 /\ pq = {} /\ is_empty = FALSE
    /\ finished = 0 /\ taken = Null /\ src = 1 /\ cur_out = 0 /\ cur_out_count = 0
    /\ wpc = "loop"

Smaller(a, b) == IF a <= b THEN a ELSE b

(* BufferQueue *)
Empty(q) == queue[q] = << >>
HasNext(q) == elements_read[q] < run_size[q]

Enqueue(s, b) == Append(s, b)

(* map_run_range: count elements of run id from offset on, offset from 0. *)
Chunk(id, offset, count) == SubSeq(runs[id + 1], offset + 1, offset + count)

RunCount == Len(runs)

----------------------------------------------------------------------------
(* The input thread: inputRun and initializeRound *)

Task == Rounds[round]

ChunkSize(q) == Smaller(run_size[q] - run_offsets[q], CHUNK)

DoNotWait == TRUE                                                  \* mutant
LastRoundOver == ~inited

(* run_sizes is read for the whole round before any queue is touched.  The     *)
(* sizes are those of run_size once the round is initialised.                  *)
AwaitRound ==
    /\ ipc = "round"
    /\ round <= Len(Rounds)
    /\ LastRoundOver
    /\ ipc' = "reset" /\ slot' = 1
    /\ run_offsets' = [q \in Queues |-> 0]
    /\ UNCHANGED <<inputKeeps, poolVars, queueVars, choiceVars, inited, round,
                   hand, last_key>>

(* qs[i]->reset(): what is left in the queue is forgotten, not returned. *)
ResetQueue ==
    /\ ipc = "reset"
    /\ queue' = [queue EXCEPT ![slot] = << >>]
    /\ elements_read' = [elements_read EXCEPT ![slot] = 0]
    /\ ipc' = "init_get"
    /\ UNCHANGED <<inputKeeps, poolVars, offsetVars, choiceVars, run_size,
                   inited, round, slot, hand>>

(* pool->getBuffer(), spinning while the pool is empty. *)
GetBuffer ==
    /\ ipc \in {"init_get", "get"}
    /\ pool # << >>
    /\ hand' = Last(pool)
    /\ pool' = Front(pool)
    /\ ipc' = IF ipc = "get" THEN "add" ELSE "init_add"
    /\ UNCHANGED <<inputKeeps, queueVars, offsetVars, choiceVars, content,
                   inited, round, slot>>

(* setRunSize, the first load_chunk, addBuffer. *)
AddFirst ==
    LET id == Task[slot]
        size == Len(runs[id + 1])
    IN
    /\ ipc = "init_add"
    /\ run_size' = [run_size EXCEPT ![slot] = size]
    /\ elements_read' = [elements_read EXCEPT ![slot] = 0]
    /\ content' = [content EXCEPT ![hand] = Chunk(id, 0, Smaller(size, CHUNK))]
    /\ queue' = [queue EXCEPT ![slot] = Enqueue(@, hand)]
    /\ hand' = Null
    /\ ipc' = "init_count"
    /\ UNCHANGED <<inputKeeps, offsetVars, choiceVars, pool, inited, round,
                   slot>>

(* addElementsRead of the first chunk; the next queue, or the end of           *)
(* initializeRound.                                                            *)
CountFirst ==
    /\ ipc = "init_count"
    /\ elements_read' = [elements_read EXCEPT
                           ![slot] = @ + Smaller(run_size[slot], CHUNK)]
    /\ IF slot < Len(Task)
       THEN ipc' = "reset" /\ slot' = slot + 1
       ELSE ipc' = "publish" /\ UNCHANGED slot
    /\ UNCHANGED <<inputKeeps, poolVars, offsetVars, choiceVars, queue,
                   run_size, inited, round, hand>>

(* Where the refill loop goes on: it ends when run_offsets has reached the     *)
(* sizes, else it looks for a queue from the first one on.                     *)
NextRefill(offsets) ==
    IF \A q \in DOMAIN Task : offsets[q] >= run_size[q]
    THEN /\ ipc' = "round" /\ round' = round + 1
         /\ UNCHANGED <<slot, min_index, min_key>>
    ELSE /\ ipc' = "scan" /\ slot' = 1 /\ min_index' = Null /\ min_key' = Null
         /\ UNCHANGED round

(* inited.store(true), then the offsets, which only this thread reads. *)
PublishRound ==
    /\ ipc = "publish"
    /\ inited' = TRUE
    /\ run_offsets' = [q \in Queues |->
           IF q \in DOMAIN Task THEN Smaller(run_size[q], CHUNK)
                                ELSE run_offsets[q]]
    /\ last_key' = [q \in Queues |-> IF q \in DOMAIN Task THEN 0 ELSE last_key[q]]
    /\ NextRefill(run_offsets')
    /\ UNCHANGED <<inputKeeps, poolVars, queueVars, hand>>

(* Unread elements, and fewer read than of the queue chosen so far.            *)
LeastRead(q) ==
    /\ run_offsets[q] < run_size[q]
    /\ min_key = Null \/ last_key[q] < min_key

(* The second half of the loop body and the loop's end; without a choice the    *)
(* round would be given up.                                                     *)
ConsiderLeastRead ==
    /\ IF LeastRead(slot)
       THEN min_index' = slot /\ min_key' = last_key[slot]
       ELSE UNCHANGED <<min_index, min_key>>
    /\ IF slot < Len(Task) THEN ipc' = "scan" /\ slot' = slot + 1 /\ UNCHANGED round
       ELSE IF min_index' # Null THEN ipc' = "get" /\ UNCHANGED <<slot, round>>
       ELSE ipc' = "round" /\ round' = round + 1 /\ UNCHANGED slot

(* current_buffers[i] == nullptr, and only then the queue. *)
ScanCurrent ==
    /\ ipc = "scan"
    /\ IF current_buffers[slot] = Null
       THEN ipc' = "scan_queue" /\ UNCHANGED <<slot, round, min_index, min_key>>
       ELSE ConsiderLeastRead
    /\ UNCHANGED <<inputKeeps, poolVars, queueVars, offsetVars, inited, hand>>

(* qs[i]->empty() && qs[i]->has_next(): the merge thread needs this queue now. *)
ScanQueue ==
    /\ ipc = "scan_queue"
    /\ IF Empty(slot) /\ HasNext(slot)
       THEN min_index' = slot /\ ipc' = "get" /\ UNCHANGED <<slot, round, min_key>>
       ELSE ConsiderLeastRead
    /\ UNCHANGED <<inputKeeps, poolVars, queueVars, offsetVars, inited, hand>>

NextOffsetSame(q) == run_offsets[q]                                \* mutant
NextOffset(q) == run_offsets[q] + ChunkSize(q)

(* load_chunk of the next part of the chosen run, the new offset, addBuffer. *)
AddNext ==
    LET q == min_index
    IN
    /\ ipc = "add"
    /\ content' = [content EXCEPT
                     ![hand] = Chunk(Task[q], run_offsets[q], ChunkSize(q))]
    /\ run_offsets' = [run_offsets EXCEPT ![q] = NextOffset(q)]
    /\ last_key' = [last_key EXCEPT ![q] = NextOffset(q)]
    /\ queue' = [queue EXCEPT ![q] = Enqueue(@, hand)]
    /\ hand' = Null
    /\ ipc' = "count"
    /\ UNCHANGED <<inputKeeps, choiceVars, pool, run_size, elements_read,
                   inited, round, slot>>

(* addElementsRead(chunk_size) makes the count catch up with the offset.  It    *)
(* comes after addBuffer: in between has_next() is still true.                  *)
CountNext ==
    /\ ipc = "count"
    /\ elements_read' = [elements_read EXCEPT ![min_index] = run_offsets[min_index]]
    /\ NextRefill(run_offsets)
    /\ UNCHANGED <<inputKeeps, poolVars, offsetVars, queue, run_size, inited,
                   hand>>

Input == \/ AwaitRound \/ ResetQueue \/ GetBuffer \/ AddFirst \/ CountFirst
         \/ PublishRound \/ ScanCurrent \/ ScanQueue \/ AddNext \/ CountNext

----------------------------------------------------------------------------
(* The merge thread: kWayMerge *)

queue_num == Len(Rounds[cur_task])

(* Returns to the pool the buffers of current_buffers that are left over: all   *)
(* of them before a round and at the very end, the empty ones after a drain.    *)
MustReturn == /\ current_buffers[i] # Null
              /\ mpc = "sweep" => content[current_buffers[i]] = << >>

ReturnLeft ==
    /\ mpc \in {"clean", "sweep", "final"}
    /\ IF MustReturn
       THEN /\ pool' = Append(pool, current_buffers[i])
            /\ current_buffers' = [current_buffers EXCEPT ![i] = Null]
       ELSE UNCHANGED <<pool, current_buffers>>
    /\ IF i < IF mpc = "sweep" THEN queue_num ELSE K
       THEN i' = i + 1 /\ UNCHANGED <<mpc, finished>>
       ELSE /\ i' = 1 /\ finished' = 0
            /\ mpc' = IF mpc = "clean" THEN "heap_take"
                      ELSE IF mpc = "sweep" THEN "scan" ELSE "set_done"
    /\ UNCHANGED <<mergeKeeps, runVars, outVars, countVars, content, queue,
                   inited, done_sorting, cur_task, pq, is_empty, taken, src>>

AwaitInited ==
    /\ mpc = "await"
    /\ inited
    /\ mpc' = "clean" /\ i' = 1
    /\ UNCHANGED <<mergeKeeps, runVars, poolVars, outVars, scanVars,
                   countVars, queue, current_buffers, inited, done_sorting,
                   cur_task, pq, src>>

(* qs[i]->getBuffer() *)
Take ==
    /\ mpc \in {"heap_take", "take"}
    /\ IF Empty(i) THEN taken' = Null /\ UNCHANGED queue
       ELSE taken' = Head(queue[i]) /\ queue' = [queue EXCEPT ![i] = Tail(@)]
    /\ mpc' = IF mpc = "take" THEN "install" ELSE "heap_install"
    /\ UNCHANGED <<mergeKeeps, runVars, poolVars, outVars, countVars,
                   current_buffers, inited, done_sorting, cur_task, i, pq,
                   is_empty, finished, src>>

(* After queue i: the next one, or the end of the loop over the queues. *)
ToNextQueue(done) ==
    IF i < queue_num THEN i' = i + 1 /\ mpc' = "scan"
    ELSE /\ UNCHANGED i
         /\ mpc' = IF done = queue_num THEN "finish" ELSE "drain"

(* The buffer becomes the current one; its first element goes into the heap. *)
Install ==
    /\ mpc \in {"heap_install", "install"}
    /\ current_buffers' = [current_buffers EXCEPT ![i] = taken]
    /\ taken' = Null
    /\ IF taken # Null /\ content[taken] # << >>
       THEN /\ pq' = pq \cup {<<Head(content[taken]), i>>}
            /\ content' = [content EXCEPT ![taken] = Tail(@)]
       ELSE UNCHANGED <<pq, content>>
    /\ IF mpc = "install" THEN ToNextQueue(finished)
       ELSE IF i < queue_num THEN i' = i + 1 /\ mpc' = "heap_take"
       ELSE UNCHANGED i /\ mpc' = "begin"
    /\ UNCHANGED <<mergeKeeps, runVars, outVars, countVars, pool, queue,
                   inited, done_sorting, cur_task, is_empty, finished, src>>

BeginRun ==
    /\ mpc = "begin"
    /\ runs' = Append(runs, << >>) /\ in_run' = TRUE
    /\ mpc' = "scan" /\ i' = 1 /\ finished' = 0
    /\ UNCHANGED <<mergeKeeps, poolVars, outVars, countVars, queue,
                   current_buffers, inited, done_sorting, cur_task, pq,
                   is_empty, taken, src>>

(* is_empty is loaded first, has_next() second, and has_next() is only looked  *)
(* at together with the value is_empty had.                                    *)
ScanEmpty ==
    /\ mpc = "scan"
    /\ IF current_buffers[i] # Null
       THEN ToNextQueue(finished) /\ UNCHANGED is_empty
       ELSE is_empty' = Empty(i) /\ mpc' = "scan_next" /\ UNCHANGED i
    /\ UNCHANGED <<mergeKeeps, runVars, poolVars, outVars, countVars, queue,
                   current_buffers, inited, done_sorting, cur_task, pq,
                   finished, taken, src>>

ScanNext ==
    /\ mpc = "scan_next"
    /\ IF is_empty /\ ~HasNext(i)
       THEN finished' = finished + 1 /\ ToNextQueue(finished + 1)
       ELSE /\ mpc' = IF is_empty THEN "wait" ELSE "take"
            /\ UNCHANGED <<i, finished>>
    /\ UNCHANGED <<mergeKeeps, runVars, poolVars, outVars, countVars, queue,
                   current_buffers, inited, done_sorting, cur_task, pq,
                   is_empty, taken, src>>

(* The queue is looked at again (i--) once it has a buffer or nothing more will *)
(* come.                                                                        *)
AwaitInput ==
    /\ mpc = "wait"
    /\ ~HasNext(i) \/ ~Empty(i)
    /\ mpc' = "scan"
    /\ UNCHANGED <<mergeKeeps, runVars, poolVars, outVars, scanVars,
                   countVars, queue, current_buffers, inited, done_sorting,
                   cur_task, i, pq, src>>

(* The top of the heap: pairs are compared by value, then by queue. *)
IsTop(e) == \A f \in pq : \/ key[e[1]] < key[f[1]]
                          \/ key[e[1]] = key[f[1]] /\ e[2] <= f[2]

(* out->add(val) leaves this in the output buffer and appends that to the run.  *)
Added(e) == Append(out_buffer[cur_out], e)
Kept(e) == IF Len(Added(e)) >= BUFFER_SIZE THEN << >> ELSE Added(e)
Written(e) == IF Len(Added(e)) >= BUFFER_SIZE THEN Added(e) ELSE << >>

AppendToRun(s) == [runs EXCEPT ![RunCount] = @ \o s]

HasMore(b) == content[b] # << >>

OtherOutAddsOne == cur_out + 1                                     \* mutant
OtherOut == 1 - cur_out

(* pop, the wait for the output buffer, add, the switch of output buffers, and  *)
(* the next element of the same source.  writer_p changes nothing but active    *)
(* bits, so that the bit is loaded and set here in one step.                    *)
Emit ==
    /\ mpc = "drain"
    /\ ~out_active[cur_out]
    /\ \E e \in pq :
         LET b == current_buffers[e[2]]
             full == cur_out_count + 1 >= OUT_SWITCH_THRESHOLD
         IN
         /\ IsTop(e)
         /\ runs' = AppendToRun(Written(e[1]))
         /\ out_buffer' = [out_buffer EXCEPT ![cur_out] = Kept(e[1])]
         /\ out_active' = [out_active EXCEPT ![cur_out] = full]
         /\ cur_out' = IF full THEN OtherOut ELSE cur_out
         /\ cur_out_count' = IF full THEN 0 ELSE cur_out_count + 1
         /\ src' = e[2]
         /\ IF HasMore(b)
            THEN /\ pq' = (pq \ {e}) \cup {<<Head(content[b]), e[2]>>}
                 /\ content' = [content EXCEPT ![b] = Tail(@)]
                 /\ mpc' = "drain"
            ELSE /\ pq' = pq \ {e}
                 /\ mpc' = "give_back"
                 /\ UNCHANGED content
    /\ UNCHANGED <<mergeKeeps, scanVars, in_run, pool, queue, current_buffers,
                   inited, done_sorting, cur_task, i>>

(* pool->returnBuffer(current_buffers[src]) *)
GiveBack ==
    /\ mpc = "give_back"
    /\ pool' = Append(pool, current_buffers[src])
    /\ mpc' = "clear"
    /\ UNCHANGED <<mergeKeeps, runVars, outVars, scanVars, countVars, content,
                   queue, current_buffers, inited, done_sorting, cur_task, i,
                   pq, src>>

ClearedNot(q) == current_buffers                                   \* mutant
ClearedScanned(q) == [current_buffers EXCEPT ![i] = Null]          \* mutant
Cleared(q) == [current_buffers EXCEPT ![q] = Null]

(* current_buffers[src] = nullptr: the input thread may already be loading the  *)
(* buffer for another queue.                                                    *)
ClearCurrent ==
    /\ mpc = "clear"
    /\ current_buffers' = Cleared(src)
    /\ mpc' = "drain"
    /\ UNCHANGED <<mergeKeeps, runVars, poolVars, outVars, scanVars,
                   countVars, queue, inited, done_sorting, cur_task, i, pq,
                   src>>

Drained ==
    /\ mpc = "drain"
    /\ pq = {}
    /\ mpc' = "sweep" /\ i' = 1
    /\ UNCHANGED <<mergeKeeps, runVars, poolVars, outVars, scanVars,
                   countVars, queue, current_buffers, inited, done_sorting,
                   cur_task, pq, src>>

(* The end of a round: the bit of a started batch is set although nobody writes *)
(* the batch; the count is not reset.                                           *)
FinishRound ==
    /\ mpc = "finish"
    /\ out_active' = [out_active EXCEPT ![cur_out] = @ \/ cur_out_count > 0]
    /\ mpc' = "await_writer"
    /\ UNCHANGED <<mergeKeeps, runVars, poolVars, scanVars, countVars, queue,
                   current_buffers, inited, out_buffer, done_sorting,
                   cur_task, i, pq, src>>

FlushFirst == out_buffer[0]                                        \* mutant
FlushOrder == out_buffer[0] \o out_buffer[1]

KeepSecond == [out_buffer EXCEPT ![0] = << >>]                     \* mutant
AfterFlush == [o \in Outs |-> << >>]

(* Both bits are clear: flush outs[0], then outs[1], end_run, flush_directory.  *)
EndRun ==
    /\ mpc = "await_writer"
    /\ \A o \in Outs : ~out_active[o]
    /\ runs' = AppendToRun(FlushOrder)
    /\ out_buffer' = AfterFlush
    /\ in_run' = FALSE
    /\ mpc' = "next"
    /\ UNCHANGED <<mergeKeeps, poolVars, scanVars, countVars, queue,
                   current_buffers, inited, out_active, done_sorting,
                   cur_task, i, pq, src>>

NextRound ==
    /\ mpc = "next"
    /\ inited' = FALSE
    /\ cur_task' = cur_task + 1
    /\ mpc' = IF cur_task < Len(Rounds) THEN "await" ELSE "final"
    /\ i' = 1
    /\ UNCHANGED <<mergeKeeps, runVars, poolVars, outVars, scanVars,
                   countVars, queue, current_buffers, done_sorting, pq, src>>

SetDone ==
    /\ mpc = "set_done"
    /\ done_sorting' = TRUE
    /\ mpc' = "done"
    /\ UNCHANGED <<mergeKeeps, runVars, poolVars, outVars, scanVars,
                   countVars, queue, current_buffers, inited, cur_task, i, pq,
                   src>>

Merge == \/ AwaitInited \/ ReturnLeft \/ Take \/ Install \/ BeginRun \/ ScanEmpty
         \/ ScanNext \/ AwaitInput \/ Emit \/ GiveBack \/ ClearCurrent \/ Drained
         \/ FinishRound \/ EndRun \/ NextRound \/ SetDone

----------------------------------------------------------------------------
(* writer_p *)

(* The loop looks at the two bits over and over; a look that finds one set      *)
(* clears it.                                                                   *)
WriterClear ==
    /\ wpc = "loop"
    /\ \E o \in Outs :
         /\ out_active[o]
         /\ out_active' = [out_active EXCEPT ![o] = FALSE]
    /\ UNCHANGED <<mergeKeeps, runVars, poolVars, scanVars, countVars, queue,
                   current_buffers, inited, out_buffer, done_sorting, mpc,
                   cur_task, i, pq, src>>

WriterLeave ==
    /\ wpc = "loop"
    /\ done_sorting
    /\ wpc' = "drain0"
    /\ UNCHANGED <<writerKeeps, outVars, stray>>

(* flush_direct would append outside any run. *)
WriterDrain(o, from, to) ==
    /\ wpc = from
    /\ stray' = stray \o out_buffer[o]
    /\ out_buffer' = [out_buffer EXCEPT ![o] = << >>]
    /\ out_active' = [out_active EXCEPT ![o] = FALSE]
    /\ wpc' = to
    /\ UNCHANGED <<writerKeeps>>

Writer == \/ WriterClear \/ WriterLeave
          \/ WriterDrain(0, "drain0", "drain1") \/ WriterDrain(1, "drain1", "done")

InputEnded == ipc = "round" /\ round > Len(Rounds)

Terminated == InputEnded /\ mpc = "done" /\ wpc = "done"

(* The driver has joined the three threads. *)
Joined == Terminated /\ UNCHANGED vars

Next == Input \/ Merge \/ Writer \/ Joined

Spec == Init /\ [][Next]_vars

(* A thread that can go on does: they are threads of the operating system.      *)
Fairness == WF_vars(Input) /\ WF_vars(Merge) /\ WF_vars(Writer)

FairSpec == Spec /\ Fairness

----------------------------------------------------------------------------
(* Properties *)

Sources == {Rounds[cur_task][q] + 1 : q \in 1 .. queue_num}

InputLoading == {"reset", "init_get", "init_add", "init_count", "publish"}
Merging == {"scan", "scan_next", "take", "install", "wait", "drain", "give_back",
            "clear", "sweep", "finish", "await_writer"}

TypeOK ==
    /\ key \in [Elements -> Keys]
    /\ runs \in Seq(Seq(Elements)) /\ in_run \in BOOLEAN /\ stray \in Seq(Elements)
    /\ pool \in Seq(Buffers)
    /\ content \in [Buffers -> Seq(Elements)]
    /\ queue \in [Queues -> Seq(Buffers)]
    /\ run_size \in [Queues -> Nat] /\ elements_read \in [Queues -> Nat]
    /\ current_buffers \in [Queues -> Buffers \cup {Null}]
    /\ inited \in BOOLEAN /\ done_sorting \in BOOLEAN
    /\ out_active \in [Outs -> BOOLEAN] /\ out_buffer \in [Outs -> Seq(Elements)]
    /\ ipc \in InputLoading \cup {"round", "scan", "scan_queue", "get", "add", "count"}
    /\ round \in 1 .. Len(Rounds) + 1 /\ slot \in Queues
    /\ hand \in Buffers \cup {Null}
    /\ run_offsets \in [Queues -> Nat] /\ last_key \in [Queues -> Nat]
    /\ min_index \in Queues \cup {Null} /\ min_key \in Nat \cup {Null}
    /\ mpc \in Merging \cup {"await", "clean", "heap_take", "heap_install", "begin",
                             "next", "final", "set_done", "done"}
    /\ cur_task \in 1 .. Len(Rounds) + 1 /\ i \in Queues
    /\ pq \in SUBSET (Elements \X Queues)
    /\ is_empty \in BOOLEAN /\ finished \in 0 .. K
    /\ taken \in Buffers \cup {Null} /\ src \in Queues
    /\ cur_out \in Outs /\ cur_out_count \in 0 .. OUT_SWITCH_THRESHOLD - 1
    /\ wpc \in {"loop", "drain0", "drain1", "done"}

(* Where each buffer is.  One that has been returned to the pool no longer     *)
(* counts as a current one, although current_buffers is cleared a step later.  *)
Held ==
    {<<"pool", 0, n, pool[n]>> : n \in DOMAIN pool}
    \cup (UNION {{<<"queue", q, n, queue[q][n]>> : n \in DOMAIN queue[q]} : q \in Queues})
    \cup {<<"current", q, 0, current_buffers[q]>> :
            q \in {r \in Queues : ~(mpc = "clear" /\ r = src)}}
    \cup {<<"hand", 0, 0, hand>>, <<"taken", 0, 0, taken>>}

(* No buffer is in two places: the input thread never loads one the merge      *)
(* thread reads, and none is returned to the pool twice (getBuffer,            *)
(* returnBuffer, addBuffer without a lock).                                    *)
BuffersUnique == \A g, h \in Held : g[4] = h[4] /\ g[4] # Null => g = h

(* `inited` alone keeps the threads in step: the queues are reset and filled   *)
(* for a round only while the merge thread waits for this round, and every run *)
(* the round reads is complete by then (inputRun, kWayMerge).                  *)
RoundsInStep ==
    /\ ipc \in InputLoading => /\ mpc = "await" /\ cur_task = round
                               /\ \A q \in DOMAIN Task : Task[q] < RunCount
                               /\ ~in_run
    /\ mpc \in Merging => round \in {cur_task, cur_task + 1}

(* Each heap entry comes from the current buffer of its source, at most one    *)
(* from each, and a round starts with a non-empty buffer in each queue: no     *)
(* null pointer is followed and next() never runs out (kWayMerge).             *)
HeapBacked ==
    /\ \A e \in pq : current_buffers[e[2]] # Null
    /\ \A e, f \in pq : e[2] = f[2] => e = f
    /\ mpc = "heap_take" => ~Empty(i) /\ content[Head(queue[i])] # << >>
    /\ mpc = "take" => ~Empty(i)

(* The elements of buffers and heap that are still to be merged. *)
QueuedElements ==
    UNION {UNION {Range(content[queue[q][n]]) : n \in DOMAIN queue[q]} : q \in 1 .. queue_num}

Emitted == runs[RunCount] \o out_buffer[0] \o out_buffer[1]

(* No element is written twice, and none that is written is still in the heap  *)
(* or in a buffer of a queue (offsets of load_chunk, reuse of buffers).        *)
NothingDuplicated ==
    mpc \in Merging =>
        /\ IsInjective(Emitted)
        /\ Range(Emitted) \cap ({e[1] : e \in pq} \cup QueuedElements) = {}

(* What a round may lose: at its end an element of its runs is in the new run, *)
(* unless its buffer is left in a queue, where reset() forgets it.             *)
OnlyQueuedIsLost ==
    mpc = "next" =>
        Range(runs[RunCount]) \cup QueuedElements = UNION {Range(runs[r]) : r \in Sources}

(* The elements of one source reach an output buffer in the order of its run:  *)
(* chunks are loaded, queued and taken in order (addBuffer, getBuffer).        *)
SourceOrderKept ==
    mpc \in Merging =>
        \A o \in Outs : \A m, n \in DOMAIN out_buffer[o] :
            m < n => \A r \in Sources : \A u, v \in DOMAIN runs[r] :
                runs[r][u] = out_buffer[o][m] /\ runs[r][v] = out_buffer[o][n] => u < v

(* When the threads have ended nothing was left for writer_p's last             *)
(* flush_direct, which appends outside any run, and if no buffer was forgotten  *)
(* the last run is a permutation of all elements.                               *)
LastRunComplete ==
    Terminated =>
        /\ stray = << >>
        /\ Len(pool) = 2 * K /\ Elements # {} =>
              IsInjective(runs[RunCount]) /\ Range(runs[RunCount]) = Elements

(* A buffer that reset() has dropped: nobody will return it to the pool. *)
BufferLost == \E b \in Buffers : \A h \in Held : h[4] # b

(* The three threads end, with nothing but spin loops to wait for each other,   *)
(* unless a buffer has been lost (inputRun, kWayMerge, writer_p).               *)
EndsUnlessBufferLost == <>(Terminated \/ BufferLost)

(* kWayMerge, lines 85 and 86: an element is popped when every source with      *)
(* elements left has its next one in the heap, so that the element is the       *)
(* smallest one left in the round.                                              *)
PopsTheSmallest ==
    mpc = "drain" =>
        \A e \in pq : IsTop(e) =>
            \A f \in (UNION {Range(runs[r]) : r \in Sources}) \ Range(Emitted) :
                key[e[1]] <= key[f]

(* buffer_manager.h, line 108: a queue that is reset should hold no buffer.     *)
ResetQueuesAreEmpty == ipc = "reset" => Empty(slot)

(* kWayMerge, line 163: when the wait is over writer_p has written everything.  *)
WriterHasWritten ==
    mpc = "await_writer" /\ (\A o \in Outs : ~out_active[o]) =>
        \A o \in Outs : out_buffer[o] = << >>
============================================================================
