----------------------------- MODULE SharedStore -----------------------------
(***************************************************************************)
(* The pool's vector, the file's stream and its directory under two        *)
(* threads without a lock: the input thread takes buffers and loads chunks *)
(* of the old runs into them (getBuffer, load_chunk, map_run_range), while *)
(* the merge thread gives buffers back, begins the new run and appends to  *)
(* it (returnBuffer, begin_run, append_to_run).  KWayMerge takes each of   *)
(* these calls as one step; here a step is one load or store.              *)
(*                                                                         *)
(* A data race is undefined behaviour.  Modelled are the outcomes of a     *)
(* build that loads the vector's end once for a call and stores it once,   *)
(* in which each seek, read and write of the stream takes effect as a      *)
(* whole, and that gives an entry read through a dangling reference any    *)
(* offset and any number of keys.                                          *)
(*                                                                         *)
(* map_run_range throws when its bounds checks or its read fail.  Nobody   *)
(* catches that in the input thread, so that it ends the process.          *)
(*                                                                         *)
(* The file is an array of chunks.  Chunk c was written into cell c, and   *)
(* the merge thread's batches follow behind the old runs.                  *)
(***************************************************************************)
EXTENDS Integers, FiniteSets, Sequences, SequencesExt

CONSTANTS
    PoolSize,     \* 2K in the driver
    OldRuns,      \* the number of runs a round reads, as many as directory_ holds
    RunChunks,    \* chunks in each of them
    Batches,      \* append_to_run calls of the merge thread
    Capacity,     \* of the vector directory_
    Null

ASSUME StoreAssumption ==
    /\ PoolSize \in Nat \ {0} /\ RunChunks \in Nat \ {0} /\ Batches \in Nat
    /\ OldRuns \in Nat \ {0} /\ Capacity \in Nat /\ Capacity >= OldRuns
    /\ Null \notin Nat /\ Null \notin Nat \X Nat

Buffers == 1 .. PoolSize
NewRun == OldRuns * RunChunks        \* the first cell behind the old runs
Chunks == 0 .. NewRun - 1
Cells == 0 .. NewRun + Batches - 1
Positions == 0 .. NewRun + Batches   \* of the stream; the last one is behind the file

VARIABLES
    \* MultiRunFile: cells of the disk, the stream's position, how often the vector
    \* directory_ has moved, its size
    disk, pos, moved, entries,
    \* BufferPool: the vector's elements and its end
    slot, finish,
    content,      \* the cell whose chunk a buffer holds
    queue,        \* <<buffer, chunk>> as the input thread has put them into qs
    \* the input thread
    ipc, loaded, chunk, hand, top, ref,
    \* the merge thread
    mpc, taken, end, written,
    \* history: in which of "pool", "stream" and "entry" a call has run into another
    raced

fileVars == <<disk, pos, moved, entries>>
poolVars == <<slot, finish>>
inputVars == <<ipc, loaded, chunk, hand, top, ref>>
mergeVars == <<mpc, taken, end, written>>
vars == <<fileVars, poolVars, content, queue, inputVars, mergeVars, raced>>

Init ==
    /\ disk = [c \in Cells |-> IF c \in Chunks THEN c ELSE Null]
    /\ pos = 0 /\ moved = 0 /\ entries = OldRuns
    /\ slot = [n \in Buffers |-> n]
    /\ finish = PoolSize
    /\ content = [b \in Buffers |-> Null]
    /\ queue = <<>>
    /\ ipc = "get" /\ loaded = {} /\ chunk = 0 /\ hand = Null /\ top = 0 /\ ref = 0
    /\ mpc = "idle" /\ taken = Null /\ end = 0 /\ written = 0
    /\ raced = {}

Race(what, when) == raced' = IF when THEN raced \cup {what} ELSE raced

----------------------------------------------------------------------------
(* The input thread. *)

InputStep(from, to) == ipc = from /\ ipc' = to

(* getBuffer: empty(), back() and pop_back() on one value of the end. *)
LoadEnd ==
    /\ InputStep("get", "back")
    /\ loaded # Chunks
    /\ finish # 0
    /\ top' = finish
    /\ UNCHANGED <<fileVars, poolVars, content, queue, loaded, chunk, hand, ref, mergeVars, raced>>

Back ==
    /\ InputStep("back", "pop")
    /\ hand' = slot[top]
    /\ UNCHANGED <<fileVars, poolVars, content, queue, loaded, chunk, top, ref, mergeVars, raced>>

PoppedNot == top                                                    \* mutant
Popped == top - 1

PopBack ==
    /\ InputStep("pop", "ref")
    /\ finish' = Popped
    /\ Race("pool", mpc \in {"store", "push"})
    /\ UNCHANGED <<fileVars, slot, content, queue, loaded, chunk, hand, top, ref, mergeVars>>

(* The next chunk of some run that has chunks left. *)
NextChunk(c) == c \notin loaded /\ (c % RunChunks = 0 \/ c - 1 \in loaded)

(* map_run_range takes a reference into directory_ ... *)
TakeReference ==
    /\ InputStep("ref", "seek")
    /\ \E c \in Chunks : NextChunk(c) /\ chunk' = c
    /\ ref' = moved
    /\ UNCHANGED <<fileVars, poolVars, content, queue, loaded, hand, top, mergeVars, raced>>

(* ... compares the chunk with the entry's keys: those of an entry that has moved *)
(* may be too few for any chunk ...                                               *)
OutOfRange ==
    /\ InputStep("seek", "threw")
    /\ ref # moved
    /\ raced' = raced \cup {"entry"}
    /\ UNCHANGED <<fileVars, poolVars, content, queue, loaded, chunk, hand, top, ref, mergeVars>>

SoughtNot == {pos}                                                  \* mutant
SoughtNext == {chunk + 1}                                           \* mutant
Sought == IF ref = moved THEN {chunk} ELSE Positions

(* ... reads the offset through it and moves the stream ... *)
Seekg ==
    /\ InputStep("seek", "read")
    /\ pos' \in Sought
    /\ raced' = raced \cup (IF ref = moved THEN {} ELSE {"entry"})
                      \cup (IF mpc = "write" THEN {"stream"} ELSE {})
    /\ UNCHANGED <<disk, moved, entries, poolVars, content, queue, loaded, chunk, hand, top, ref,
                   mergeVars>>

(* ... and reads, which fails unless there is a chunk.  Behind the last run there *)
(* is nothing, or the directory, which may be too short or be taken for keys.     *)
ReadFails ==
    /\ InputStep("read", "threw")
    /\ pos \in Cells => disk[pos] = Null
    /\ Race("stream", mpc = "write")
    /\ UNCHANGED <<fileVars, poolVars, content, queue, loaded, chunk, hand, top, ref, mergeVars>>

(* load_chunk copies what was read into the buffer. *)
ReadChunk ==
    /\ InputStep("read", "add")
    /\ pos \in Cells
    /\ content' = [content EXCEPT ![hand] = disk[pos]]
    /\ pos' = pos + 1
    /\ Race("stream", mpc = "write")
    /\ UNCHANGED <<disk, moved, entries, poolVars, queue, loaded, chunk, hand, top, ref, mergeVars>>

AddBuffer ==
    /\ InputStep("add", "get")
    /\ queue' = Append(queue, <<hand, chunk>>)
    /\ loaded' = loaded \cup {chunk}
    /\ hand' = Null
    /\ UNCHANGED <<fileVars, poolVars, content, chunk, top, ref, mergeVars, raced>>

Input == \/ LoadEnd \/ Back \/ PopBack \/ TakeReference \/ OutOfRange \/ Seekg
         \/ ReadFails \/ ReadChunk \/ AddBuffer

----------------------------------------------------------------------------
(* The merge thread.  In which order it calls is KWayMerge's subject; here it *)
(* may call whatever it has a buffer or a batch for.                          *)

MergeStep(from, to) == mpc = from /\ mpc' = to

TakeQueued ==
    /\ MergeStep("idle", "load")
    /\ queue # <<>>
    /\ taken' = Head(queue)
    /\ queue' = Tail(queue)
    /\ UNCHANGED <<fileVars, poolVars, content, inputVars, end, written, raced>>

PushedNot == end                                                    \* mutant
Pushed == end + 1

(* returnBuffer: push_back into a vector that has room. *)
LoadFree ==
    /\ MergeStep("load", "store")
    /\ end' = finish
    /\ UNCHANGED <<fileVars, poolVars, content, queue, inputVars, taken, written, raced>>

StoreBuffer ==
    /\ MergeStep("store", "push")
    /\ slot' = [slot EXCEPT ![end + 1] = taken[1]]
    /\ UNCHANGED <<fileVars, finish, content, queue, inputVars, taken, end, written, raced>>

StoreEnd ==
    /\ MergeStep("push", "idle")
    /\ finish' = Pushed
    /\ taken' = Null
    /\ Race("pool", ipc \in {"back", "pop"})
    /\ UNCHANGED <<fileVars, slot, content, queue, inputVars, end, written>>

(* begin_run: append_run seeks, writes nothing, and adds an entry. *)
BeginSeek ==
    /\ MergeStep("idle", "entry")
    /\ entries = OldRuns
    /\ pos' = NewRun
    /\ Race("stream", ipc = "read")
    /\ UNCHANGED <<disk, moved, entries, poolVars, content, queue, inputVars, taken, end, written>>

(* push_back moves a vector that is full, and references into it dangle. *)
PushEntry ==
    /\ MergeStep("entry", "idle")
    /\ moved' = IF entries = Capacity THEN moved + 1 ELSE moved
    /\ entries' = entries + 1
    /\ UNCHANGED <<disk, pos, poolVars, content, queue, inputVars, taken, end, written, raced>>

AtNewRun == NewRun + written - 1                                    \* mutant
AppendOffset == NewRun + written

(* append_to_run *)
AppendSeek ==
    /\ MergeStep("idle", "write")
    /\ entries > OldRuns
    /\ written < Batches
    /\ pos' = AppendOffset
    /\ Race("stream", ipc = "read")
    /\ UNCHANGED <<disk, moved, entries, poolVars, content, queue, inputVars, taken, end, written>>

AppendWrite ==
    /\ MergeStep("write", "idle")
    /\ disk' = [c \in Cells |-> IF c = pos THEN NewRun + written ELSE disk[c]]
    /\ pos' = pos + 1
    /\ written' = written + 1
    /\ Race("stream", ipc = "read")
    /\ UNCHANGED <<moved, entries, poolVars, content, queue, inputVars, taken, end>>

Merge == \/ TakeQueued \/ LoadFree \/ StoreBuffer \/ StoreEnd
         \/ BeginSeek \/ PushEntry \/ AppendSeek \/ AppendWrite

Done == loaded = Chunks /\ queue = <<>> /\ mpc = "idle" /\ entries > OldRuns /\ written = Batches

Finished == Done /\ UNCHANGED vars

(* A throw that nobody catches is the end of both threads; a pool whose end has *)
(* been overwritten is not followed any further.                                *)
Threw == ipc = "threw"

Followed == "pool" \notin raced /\ ~Threw

Next == Followed /\ (Input \/ Merge \/ Finished)

Fairness == WF_vars(Followed /\ Input) /\ WF_vars(Followed /\ Merge)

Spec == Init /\ [][Next]_vars /\ Fairness

----------------------------------------------------------------------------
(* Where buffer b is; back() has handed it out before pop_back() takes it out. *)
Places(b) ==
    {<<"pool", n>> : n \in {m \in 1 .. finish : slot[m] = b /\ ~(ipc = "pop" /\ m = top)}}
    \cup {<<"queue", n>> : n \in {m \in DOMAIN queue : queue[m][1] = b}}
    \cup (IF hand = b THEN {<<"input", 0>>} ELSE {})
    \cup (IF taken # Null /\ taken[1] = b THEN {<<"merge", 0>>} ELSE {})

(* A buffer is lost, or handed out twice, only if one thread has stored the    *)
(* vector's end between the other's load and store of it: every other overlap  *)
(* of getBuffer and returnBuffer is harmless, however many buffers are left.   *)
PoolSound == "pool" \notin raced => \A b \in Buffers : Cardinality(Places(b)) = 1

(* What load_chunk has read is the chunk that was asked for, and stays so until *)
(* the merge thread is through with it, as long as nobody has moved the stream *)
(* between seekg and read, no push_back has moved directory_ under             *)
(* map_run_range, and the pool has not handed the buffer out twice.            *)
ChunksRight ==
    raced = {} =>
        \A e \in Range(queue) \cup ({taken} \ {Null}) : content[e[1]] = e[2]

(* begin_run and append_to_run write behind the old runs, in the order of the   *)
(* calls, also when directory_ moves under the input thread or its reads go     *)
(* astray: only a seekg between their seekp and write can make them overwrite a *)
(* run that is still being read.                                                *)
RunsIntact ==
    "stream" \notin raced =>
        \A c \in Cells : disk[c] = IF c < NewRun + written THEN c ELSE Null

(* map_run_range throws, which ends the process, only if a call of the merge    *)
(* thread has moved the stream between seekg and read, or directory_ under it.  *)
ThrowsOnlyIfRaced == Threw => raced \cap {"stream", "entry"} # {}

(* A buffer lost by a race on the pool may be missed for ever, but neither a     *)
(* race on the stream nor one on the directory makes a thread wait: both get to *)
(* their ends, with whatever chunks were read, or map_run_range throws.          *)
EndsOrThrows == <>(Done \/ Threw \/ "pool" \in raced)
=============================================================================
