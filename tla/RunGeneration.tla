--------------------------- MODULE RunGeneration ---------------------------
(***************************************************************************)
(* The three threads of threads.cpp that turn the raw runs into initial    *)
(* runs: reader fills the two InputBuffers task by task, sorter moves the  *)
(* elements through a heap and a frozen area into the two OutputBuffers,   *)
(* writer appends full OutputBuffers to the file.                          *)
(*                                                                         *)
(* The threads share no lock.  They meet only in the `active` bit of each  *)
(* buffer and in the flags done_reading and done_sorting, so every load or *)
(* store of one of those is a step of its own, and a buffer's payload is   *)
(* touched in other steps, between which the other threads run.            *)
(*                                                                         *)
(* An element is its place in the raw file, <<run, position>>; `key` gives *)
(* its value.  heap and frozen only matter as sets.                        *)
(***************************************************************************)
EXTENDS Integers, FiniteSets, Sequences, Functions

CONSTANTS
    Tasks,                 \* what reader is given, in order
    CHUNK,                 \* elements per task at most (initTasks)
    OUT_SWITCH_THRESHOLD,  \* elements per output batch, heap size limit (sorter)
    BUFFER_SIZE,           \* an OutputBuffer this full appends by itself (buffer.h)
    Keys,                  \* the values an element may have
    LLONG_MIN

Task == [run_id : Nat, offset : Nat, count : Nat]

Chunk(t) == {<<t.run_id, p>> : p \in t.offset .. t.offset + t.count - 1}

Elements == UNION {Chunk(Tasks[i]) : i \in DOMAIN Tasks}

(* What initTasks promises of its result (InitTasks.tla checks that it does). *)
ValidTasks(ts) ==
    /\ ts \in Seq(Task)
    /\ \A i \in DOMAIN ts : ts[i].count \in 1 .. CHUNK
    /\ \A i, j \in DOMAIN ts : i # j => Chunk(ts[i]) \cap Chunk(ts[j]) = {}

(* In the code CHUNK = OUT_SWITCH_THRESHOLD = 65536 and BUFFER_SIZE = 1 << 20. *)
ASSUME SizesAssumption ==
    /\ CHUNK \in Nat \ {0}
    /\ OUT_SWITCH_THRESHOLD \in Nat \ {0}
    /\ BUFFER_SIZE \in Nat
    /\ CHUNK <= OUT_SWITCH_THRESHOLD
    /\ OUT_SWITCH_THRESHOLD < BUFFER_SIZE

ASSUME TasksAssumption == ValidTasks(Tasks)

ASSUME KeysAssumption ==
    /\ Keys \subseteq Int
    /\ LLONG_MIN \in Int
    /\ \A k \in Keys : LLONG_MIN <= k

(* The two buffers of each side, and the alternation between them. *)
Bufs == {0, 1}
OtherAddsOne(b) == b + 1                                           \* mutant
Other(b) == 1 - b

VARIABLES
    key,            \* the value of each element; never changes
    \* shared by reader and sorter
    in_active,      \* in_active[b]: the active bit of inputs[b]
    loaded,         \* loaded[b]: the task inputs[b] holds, 0 before the first one
    consumed,       \* consumed[b]: how many of its elements next() has returned
    done_reading,
    \* shared by sorter and writer
    out_active,     \* out_active[b]: the active bit of outputs[b]
    out_buffer,     \* out_buffer[b]: the elements outputs[b] holds, in order
    done_sorting,
    file,           \* what append_direct has written, in order
    auto_appended,  \* OutputBuffer::add has appended on its own
    \* reader
    rpc, next_task, idx, input,
    \* sorter
    spc, heap, frozen, frozen_input, cur_out, cur_out_count, last_output, src,
    \* writer
    wpc, use_buffer, drained

inVars == <<in_active, loaded, consumed, done_reading>>
outVars == <<out_active, out_buffer, done_sorting, file, auto_appended>>
readerVars == <<rpc, next_task, idx, input>>
sorterVars == <<spc, heap, frozen, frozen_input, cur_out, cur_out_count,
                last_output, src>>
writerVars == <<wpc, use_buffer, drained>>
vars == <<key, inVars, outVars, readerVars, sorterVars, writerVars>>

ReaderPCs == {"fetch", "find0", "find1", "load", "publish", "finish", "done"}
SorterPCs == {"scan0", "scan1", "check_done", "set_done", "fill", "release",
              "await_out", "emit", "publish", "refill0", "refill1", "absorb",
              "final", "done"}
WriterPCs == {"loop", "wait", "wait_done", "recheck", "flush", "release",
              "drain", "drain_release", "done"}

TypeOK ==
    /\ key \in [Elements -> Keys]
    /\ in_active \in [Bufs -> BOOLEAN]
    /\ loaded \in [Bufs -> 0 .. Len(Tasks)]
    /\ consumed \in [Bufs -> Nat]
    /\ done_reading \in BOOLEAN
    /\ out_active \in [Bufs -> BOOLEAN]
    /\ out_buffer \in [Bufs -> Seq(Elements)]
    /\ done_sorting \in BOOLEAN
    /\ file \in Seq(Elements)
    /\ auto_appended \in BOOLEAN
    /\ rpc \in ReaderPCs
    /\ next_task \in 1 .. Len(Tasks) + 2
    /\ idx \in 0 .. Len(Tasks) + 1
    /\ input \in Bufs
    /\ spc \in SorterPCs
    /\ heap \in SUBSET Elements
    /\ frozen \in SUBSET Elements
    /\ frozen_input \in BOOLEAN
    /\ cur_out \in Bufs
    /\ cur_out_count \in Nat
    /\ last_output \in Keys \cup {LLONG_MIN}
    /\ src \in Bufs
    /\ wpc \in WriterPCs
    /\ use_buffer \in Bufs
    /\ drained \in Bufs

Init ==
    /\ key \in [Elements -> Keys]
    /\ in_active = [b \in Bufs |-> FALSE]
    /\ loaded = [b \in Bufs |-> 0]
    /\ consumed = [b \in Bufs |-> 0]
    /\ done_reading = FALSE
    /\ out_active = [b \in Bufs |-> FALSE]
    /\ out_buffer = [b \in Bufs |-> << >>]
    /\ done_sorting = FALSE
    /\ file = << >>
    /\ auto_appended = FALSE
    /\ rpc = "fetch" /\ next_task = 1 /\ idx = 0 /\ input = 0
    /\ spc = "scan0" /\ heap = {} /\ frozen = {} /\ frozen_input = FALSE
    /\ cur_out = 0 /\ cur_out_count = 0 /\ last_output = LLONG_MIN /\ src = 0
    /\ wpc = "loop" /\ use_buffer = 0 /\ drained = 0

----------------------------------------------------------------------------
(* InputBuffer *)

(* The element at index i of what inputs[b] holds. *)
ElementAt(b, i) == <<Tasks[loaded[b]].run_id, Tasks[loaded[b]].offset + i>>

HasNextButOne(b) == loaded[b] # 0 /\ consumed[b] + 1 < Tasks[loaded[b]].count \* mutant
HasNext(b) == loaded[b] # 0 /\ consumed[b] < Tasks[loaded[b]].count

(* The elements inputs[b] has been given and next() has not returned yet. *)
Unread(b) ==
    IF loaded[b] = 0 THEN {}
    ELSE {ElementAt(b, i) : i \in consumed[b] .. Tasks[loaded[b]].count - 1}

----------------------------------------------------------------------------
(* reader *)

Fetch ==
    /\ rpc = "fetch"
    /\ idx' = next_task
    /\ next_task' = next_task + 1
    /\ rpc' = IF next_task > Len(Tasks) THEN "finish" ELSE "find0"
    /\ UNCHANGED <<key, inVars, outVars, input, sorterVars, writerVars>>

(* mutant: the active bit is not looked at *)
TakeUnchecked(b, here, otherwise) ==
    /\ rpc = here
    /\ input' = b /\ rpc' = "load"
    /\ UNCHANGED <<key, inVars, outVars, next_task, idx, sorterVars, writerVars>>

(* One load of the search for a buffer that is not active. *)
FindFree(b, here, otherwise) ==
    /\ rpc = here
    /\ \/ /\ ~in_active[b]
          /\ input' = b
          /\ rpc' = "load"
       \/ /\ in_active[b]
          /\ rpc' = otherwise
          /\ UNCHANGED input
    /\ UNCHANGED <<key, inVars, outVars, next_task, idx, sorterVars, writerVars>>

LoadChunk ==
    /\ rpc = "load"
    /\ loaded' = [loaded EXCEPT ![input] = idx]
    /\ consumed' = [consumed EXCEPT ![input] = 0]
    /\ rpc' = "publish"
    /\ UNCHANGED <<key, in_active, done_reading, outVars, next_task, idx, input,
                   sorterVars, writerVars>>

PublishInput ==
    /\ rpc = "publish"
    /\ in_active' = [in_active EXCEPT ![input] = TRUE]
    /\ rpc' = "fetch"
    /\ UNCHANGED <<key, loaded, consumed, done_reading, outVars, next_task, idx,
                   input, sorterVars, writerVars>>

FinishReading ==
    /\ rpc = "finish"
    /\ done_reading' = TRUE
    /\ rpc' = "done"
    /\ UNCHANGED <<key, in_active, loaded, consumed, outVars, next_task, idx,
                   input, sorterVars, writerVars>>

Reader ==
    \/ Fetch
    \/ FindFree(0, "find0", "find1")
    \/ FindFree(1, "find1", "find0")
    \/ LoadChunk
    \/ PublishInput
    \/ FinishReading

----------------------------------------------------------------------------
(* sorter *)

(* The head of its main loop: an empty heap is filled first. *)
LoopHead(h) == IF h = {} THEN "scan0" ELSE "await_out"

Scan0 ==
    /\ spc = "scan0"
    /\ \/ in_active[0] /\ src' = 0 /\ spc' = "fill"
       \/ ~in_active[0] /\ spc' = "scan1" /\ UNCHANGED src
    /\ UNCHANGED <<key, inVars, outVars, readerVars, heap, frozen, frozen_input,
                   cur_out, cur_out_count, last_output, writerVars>>

Scan1 ==
    /\ spc = "scan1"
    /\ \/ /\ in_active[1]
          /\ src' = 1 /\ spc' = "fill"
          /\ UNCHANGED <<heap, frozen>>
       \/ /\ ~in_active[1] /\ frozen # {}
          /\ heap' = frozen /\ frozen' = {}
          /\ spc' = "await_out"
          /\ UNCHANGED src
       \/ /\ ~in_active[1] /\ frozen = {}
          /\ spc' = "check_done"
          /\ UNCHANGED <<heap, frozen, src>>
    /\ UNCHANGED <<key, inVars, outVars, readerVars, frozen_input, cur_out,
                   cur_out_count, last_output, writerVars>>

CheckDone ==
    /\ spc = "check_done"
    /\ spc' = IF done_reading THEN "set_done" ELSE "scan0"
    /\ UNCHANGED <<key, inVars, outVars, readerVars, heap, frozen, frozen_input,
                   cur_out, cur_out_count, last_output, src, writerVars>>

SetDoneSorting ==
    /\ spc = "set_done"
    /\ done_sorting' = TRUE
    /\ spc' = "final"
    /\ UNCHANGED <<key, inVars, out_active, out_buffer, file, auto_appended,
                   readerVars, heap, frozen, frozen_input, cur_out,
                   cur_out_count, last_output, src, writerVars>>

(* An empty heap takes elements from the chosen input up to its limit. *)
FillHeap ==
    /\ spc = "fill"
    /\ IF HasNext(src) /\ Cardinality(heap) < OUT_SWITCH_THRESHOLD
       THEN /\ heap' = heap \cup {ElementAt(src, consumed[src])}
            /\ consumed' = [consumed EXCEPT ![src] = @ + 1]
            /\ UNCHANGED spc
       ELSE /\ spc' = "release"
            /\ UNCHANGED <<heap, consumed>>
    /\ UNCHANGED <<key, in_active, loaded, done_reading, outVars, readerVars,
                   frozen, frozen_input, cur_out, cur_out_count, last_output,
                   src, writerVars>>

ReleaseInput ==
    /\ spc = "release"
    /\ in_active' = [in_active EXCEPT ![src] = FALSE]
    /\ spc' = LoopHead(heap)
    /\ UNCHANGED <<key, loaded, consumed, done_reading, outVars, readerVars,
                   heap, frozen, frozen_input, cur_out, cur_out_count,
                   last_output, src, writerVars>>

(* mutant: the batch starts without waiting for writer *)
TakeOutputUnchecked ==
    /\ spc = "await_out"
    /\ last_output' = LLONG_MIN /\ spc' = "emit"
    /\ UNCHANGED <<key, inVars, outVars, readerVars, heap, frozen, frozen_input,
                   cur_out, cur_out_count, src, writerVars>>

AwaitOutput ==
    /\ spc = "await_out"
    /\ last_output' = LLONG_MIN
    /\ spc' = IF out_active[cur_out] THEN "await_out" ELSE "emit"
    /\ UNCHANGED <<key, inVars, outVars, readerVars, heap, frozen, frozen_input,
                   cur_out, cur_out_count, src, writerVars>>

(* The top of the heap; which of several equal elements it is, is not fixed. *)
IsAny(e) == e \in heap                                             \* mutant
IsTop(e) == e \in heap /\ \A o \in heap : key[e] <= key[o]

(* OutputBuffer::add *)
Add(b, e) ==
    LET grown == Append(out_buffer[b], e)
        full  == Len(grown) >= BUFFER_SIZE
    IN  /\ out_buffer' = [out_buffer EXCEPT ![b] = IF full THEN << >> ELSE grown]
        /\ file' = IF full THEN file \o grown ELSE file
        /\ auto_appended' = (auto_appended \/ full)

(* What follows the output loop: with the heap used up and reading not frozen  *)
(* the frozen elements form the next heap and the inputs are looked at again.  *)
AfterOutput(h) ==
    IF h = {} /\ ~frozen_input
    THEN heap' = frozen /\ frozen' = {} /\ spc' = "refill0"
    ELSE heap' = h /\ UNCHANGED frozen /\ spc' = LoopHead(h)

Emit ==
    /\ spc = "emit"
    /\ \E e \in heap :
        /\ IsTop(e)
        /\ Add(cur_out, e)
        /\ last_output' = key[e]
        /\ cur_out_count' = cur_out_count + 1
        /\ IF frozen_input \/ cur_out_count + 1 >= OUT_SWITCH_THRESHOLD
           THEN heap' = heap \ {e} /\ spc' = "publish" /\ UNCHANGED frozen
           ELSE IF heap = {e}
                THEN AfterOutput({})
                ELSE heap' = heap \ {e} /\ UNCHANGED <<spc, frozen>>
    /\ UNCHANGED <<key, inVars, out_active, done_sorting, readerVars,
                   frozen_input, cur_out, src, writerVars>>

PublishOutput ==
    /\ spc = "publish"
    /\ out_active' = [out_active EXCEPT ![cur_out] = TRUE]
    /\ cur_out' = Other(cur_out)
    /\ cur_out_count' = 0
    /\ AfterOutput(heap)
    /\ UNCHANGED <<key, inVars, out_buffer, done_sorting, file, auto_appended,
                   readerVars, frozen_input, last_output, src, writerVars>>

(* One test of the search for an input to go on from. *)
FindRefill(b, here, otherwise) ==
    /\ spc = here
    /\ \/ in_active[b] /\ HasNext(b) /\ src' = b /\ spc' = "absorb"
       \/ ~(in_active[b] /\ HasNext(b)) /\ spc' = otherwise /\ UNCHANGED src
    /\ UNCHANGED <<key, inVars, outVars, readerVars, heap, frozen, frozen_input,
                   cur_out, cur_out_count, last_output, writerVars>>

(* More frozen elements than a heap may hold. *)
FrozenIsFull(n) == n >= OUT_SWITCH_THRESHOLD                       \* mutant
FrozenIsOverfull(n) == n > OUT_SWITCH_THRESHOLD

(* Elements that can still follow last_output go to the heap, others wait. *)
Absorb ==
    /\ spc = "absorb"
    /\ IF HasNext(src) /\ Cardinality(heap) < OUT_SWITCH_THRESHOLD
       THEN LET e == ElementAt(src, consumed[src])
            IN  /\ consumed' = [consumed EXCEPT ![src] = @ + 1]
                /\ IF key[e] >= last_output
                   THEN /\ heap' = heap \cup {e}
                        /\ UNCHANGED <<frozen, frozen_input, spc>>
                   ELSE /\ frozen' = frozen \cup {e}
                        /\ frozen_input' = (frozen_input \/
                               FrozenIsOverfull(Cardinality(frozen')))
                        /\ spc' = IF frozen_input' THEN LoopHead(heap) ELSE spc
                        /\ UNCHANGED heap
       ELSE /\ spc' = LoopHead(heap)
            /\ UNCHANGED <<consumed, heap, frozen, frozen_input>>
    /\ UNCHANGED <<key, in_active, loaded, done_reading, outVars, readerVars,
                   cur_out, cur_out_count, last_output, src, writerVars>>

(* The last batch is published after done_sorting has been set. *)
PublishRest ==
    /\ spc = "final"
    /\ out_active' = IF cur_out_count > 0
                     THEN [out_active EXCEPT ![cur_out] = TRUE]
                     ELSE out_active
    /\ spc' = "done"
    /\ UNCHANGED <<key, inVars, out_buffer, done_sorting, file, auto_appended,
                   readerVars, heap, frozen, frozen_input, cur_out,
                   cur_out_count, last_output, src, writerVars>>

Sorter ==
    \/ Scan0 \/ Scan1 \/ CheckDone \/ SetDoneSorting
    \/ FillHeap \/ ReleaseInput
    \/ AwaitOutput \/ Emit \/ PublishOutput
    \/ FindRefill(0, "refill0", "refill1")
    \/ FindRefill(1, "refill1", LoopHead(heap))
    \/ Absorb
    \/ PublishRest

----------------------------------------------------------------------------
(* writer *)

(* mutant: the buffer keeps what it wrote *)
FlushWithoutClear(b) == file' = file \o out_buffer[b] /\ UNCHANGED out_buffer

(* OutputBuffer::flush_direct *)
FlushDirect(b) ==
    /\ file' = file \o out_buffer[b]
    /\ out_buffer' = [out_buffer EXCEPT ![b] = << >>]

WriterLoop ==
    /\ wpc = "loop"
    /\ wpc' = IF done_sorting THEN "drain" ELSE "wait"
    /\ UNCHANGED <<key, inVars, outVars, readerVars, sorterVars, use_buffer, drained>>

(* mutant: whichever buffer is active is taken, lower index first *)
AwaitAnyBatch ==
    /\ wpc = "wait"
    /\ use_buffer' = IF out_active[0] THEN 0 ELSE IF out_active[1] THEN 1 ELSE use_buffer
    /\ wpc' = IF \E b \in Bufs : out_active[b] THEN "recheck" ELSE "wait_done"
    /\ UNCHANGED <<key, inVars, outVars, readerVars, sorterVars, drained>>

AwaitBatch ==
    /\ wpc = "wait"
    /\ wpc' = IF out_active[use_buffer] THEN "recheck" ELSE "wait_done"
    /\ UNCHANGED <<key, inVars, outVars, readerVars, sorterVars, use_buffer, drained>>

AwaitDone ==
    /\ wpc = "wait_done"
    /\ wpc' = IF done_sorting THEN "recheck" ELSE "wait"
    /\ UNCHANGED <<key, inVars, outVars, readerVars, sorterVars, use_buffer, drained>>

Recheck ==
    /\ wpc = "recheck"
    /\ wpc' = IF done_sorting THEN "drain" ELSE "flush"
    /\ UNCHANGED <<key, inVars, outVars, readerVars, sorterVars, use_buffer, drained>>

Flush ==
    /\ wpc = "flush"
    /\ FlushDirect(use_buffer)
    /\ wpc' = "release"
    /\ UNCHANGED <<key, inVars, out_active, done_sorting, auto_appended,
                   readerVars, sorterVars, use_buffer, drained>>

(* mutant: writer stays on the same buffer *)
ReleaseWithoutToggle ==
    /\ wpc = "release"
    /\ out_active' = [out_active EXCEPT ![use_buffer] = FALSE]
    /\ wpc' = "loop"
    /\ UNCHANGED <<key, inVars, out_buffer, done_sorting, file, auto_appended,
                   readerVars, sorterVars, use_buffer, drained>>

ReleaseOutput ==
    /\ wpc = "release"
    /\ out_active' = [out_active EXCEPT ![use_buffer] = FALSE]
    /\ use_buffer' = Other(use_buffer)
    /\ wpc' = "loop"
    /\ UNCHANGED <<key, inVars, out_buffer, done_sorting, file, auto_appended,
                   readerVars, sorterVars, drained>>

(* After the loop both buffers are visited once, 0 before 1. *)
NextDrained == IF drained = 0 THEN drained' = 1 /\ wpc' = "drain"
                              ELSE UNCHANGED drained /\ wpc' = "done"

(* What the drain looks for; the active bit alone may come too late. *)
RestIfActive(b) == out_active[b]                                   \* mutant
HasRest(b) == out_active[b] \/ out_buffer[b] # << >>

DrainRest ==
    /\ wpc = "drain"
    /\ IF HasRest(drained)
       THEN FlushDirect(drained) /\ wpc' = "drain_release" /\ UNCHANGED drained
       ELSE NextDrained /\ UNCHANGED <<file, out_buffer>>
    /\ UNCHANGED <<key, inVars, out_active, done_sorting, auto_appended,
                   readerVars, sorterVars, use_buffer>>

DrainRelease ==
    /\ wpc = "drain_release"
    /\ out_active' = [out_active EXCEPT ![drained] = FALSE]
    /\ NextDrained
    /\ UNCHANGED <<key, inVars, out_buffer, done_sorting, file, auto_appended,
                   readerVars, sorterVars, use_buffer>>

Writer ==
    \/ WriterLoop \/ AwaitBatch \/ AwaitDone \/ Recheck
    \/ Flush \/ ReleaseOutput
    \/ DrainRest \/ DrainRelease

----------------------------------------------------------------------------
Terminated == rpc = "done" /\ spc = "done" /\ wpc = "done"

(* main joins the three threads. *)
Joined == Terminated /\ UNCHANGED vars

Next == Reader \/ Sorter \/ Writer \/ Joined

Spec == Init /\ [][Next]_vars

(* Threads of the operating system: each keeps being scheduled, spinning or not. *)
Fairness == WF_vars(Reader) /\ WF_vars(Sorter) /\ WF_vars(Writer)

FairSpec == Spec /\ Fairness

----------------------------------------------------------------------------
(* Properties *)

ReaderOwns(b) == rpc \in {"load", "publish"} /\ input = b
SorterReads(b) == spc \in {"fill", "release", "absorb"} /\ src = b
SorterWrites(b) == spc \in {"emit", "publish", "final"} /\ cur_out = b
WriterOwns(b) ==
    \/ wpc \in {"flush", "release"} /\ use_buffer = b
    \/ wpc \in {"drain", "drain_release"} /\ drained = b

(* While reader fills a buffer (load_chunk up to set_active) sorter is never   *)
(* inside it: neither sees a half-written InputBuffer, though no lock is held. *)
InputHandOff ==
    \A b \in Bufs : ReaderOwns(b) => ~in_active[b] /\ ~SorterReads(b)

(* While writer takes a batch out of a buffer, sorter never adds to it; after  *)
(* done_sorting it at most sets the active bit.                                *)
OutputHandOff ==
    \A b \in Bufs : WriterOwns(b) => ~(SorterWrites(b) /\ spc # "final")


(* Tasks reader has not loaded yet. *)
NextToLoad == IF rpc \in {"find0", "find1", "load"} THEN idx ELSE next_task

NotLoaded == {i \in DOMAIN Tasks : i >= NextToLoad}

Pending == UNION {Chunk(Tasks[i]) : i \in NotLoaded}

InMemory == Unread(0) \cup Unread(1) \cup heap \cup frozen
            \cup Range(out_buffer[0]) \cup Range(out_buffer[1])

(* No thread ever drops an element: each is still to be loaded, in a buffer,  *)
(* in the heap, frozen or written.  It rests on CHUNK <= OUT_SWITCH_THRESHOLD: *)
(* sorter releases an input buffer without looking whether it is used up.      *)
NothingDropped == Elements = Pending \cup InMemory \cup Range(file)

(* No thread ever takes an element twice (the places are disjoint).            *)
NothingDuplicated ==
    Cardinality(Elements) =
        Cardinality(Pending) + Cardinality(Unread(0)) + Cardinality(Unread(1))
        + Cardinality(heap) + Cardinality(frozen) + Len(out_buffer[0])
        + Len(out_buffer[1]) + Len(file)

(* A buffer given back to reader has been read to its end, so load_chunk never *)
(* overwrites an element.                                                      *)
ReleasedIsEmpty ==
    \A b \in Bufs : in_active[b] \/ (rpc = "publish" /\ input = b) \/ Unread(b) = {}

(* The heap and the frozen area stay within OUT_SWITCH_THRESHOLD, so reading   *)
(* never freezes (frozen_input) and add never appends by itself, which would   *)
(* throw outside begin_run .. end_run.                                         *)
WithinLimits ==
    /\ Cardinality(heap) <= OUT_SWITCH_THRESHOLD
    /\ Cardinality(frozen) <= OUT_SWITCH_THRESHOLD
    /\ \A b \in Bufs : Len(out_buffer[b]) <= OUT_SWITCH_THRESHOLD
    /\ ~frozen_input
    /\ ~auto_appended

(* When all threads are done, nothing is left in the heap, in the frozen area  *)
(* or in an output buffer: an element that is not in the file is one that      *)
(* sorter left unread in an input buffer.                                      *)
OnlyUnreadIsMissing ==
    Terminated => Elements = Range(file) \cup Unread(0) \cup Unread(1)

(* What the comment in sorter says of its end ("all input is finished and no   *)
(* data is frozen"): then every element is in the file.                        *)
EverythingWritten == Terminated => Range(file) = Elements

(* The elements in the order in which sorter produced them: those written, the *)
(* batch waiting for writer, the batch being filled.                           *)
Produced ==
    file \o IF out_active[cur_out]
            THEN out_buffer[cur_out] \o out_buffer[Other(cur_out)]
            ELSE out_buffer[Other(cur_out)] \o out_buffer[cur_out]

(* Until done_sorting, the alternation of the two output buffers keeps the     *)
(* order: a step leaves the produced elements as they are or adds one at the   *)
(* end, so batches never overtake each other.                                  *)
BatchesInOrder ==
    [][~done_sorting =>
        \/ Produced' = Produced
        \/ \E e \in Elements : Produced' = Append(Produced, e)]_vars

(* The runs create_entries will find in s: maximal nondecreasing segments. *)
RunCount(s) ==
    IF s = << >> THEN 0
    ELSE 1 + Cardinality({i \in 1 .. Len(s) - 1 : key[s[i]] > key[s[i + 1]]})

(* Replacement selection pays: sorter makes no more initial runs than it was   *)
(* given chunks (sorting each chunk by itself makes one per chunk), plus one    *)
(* for every time the heap has been filled to OUT_SWITCH_THRESHOLD, where it    *)
(* leaves a chunk half read and may freeze elements of it twice.                *)
RunsArePaidFor ==
    ~done_sorting =>
        OUT_SWITCH_THRESHOLD * RunCount(Produced)
            <= OUT_SWITCH_THRESHOLD * (Len(Tasks) - Cardinality(NotLoaded))
               + Len(Produced) + Cardinality(heap)

(* All three threads end, whatever the interleaving. *)
Termination == <>Terminated

============================================================================
