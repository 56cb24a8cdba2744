# TLA+ verification of External-Merge-Sort

This directory holds TLA+ models of the external merge sort in this repository,
the TLC configurations that check them on small instances, and TLAPS proofs of
the properties that hold for every value of the parameters.

    tlc -config RunGeneration.cfg MCRunGeneration.tla
    tlapm RunGenerationProofs.tla

`PROJECT.json` lists the components, the runs, the properties of each run with a
mutation of the model that breaks it, the source lines every definition stands
for, the hazards and the findings.

## The system

The program sorts a file of 64-bit integers that does not fit in memory.

| Part | Code | State | Operations |
|---|---|---|---|
| multi-run file | `multi_run_file.*`, `run_store.h` | header, data area, directory at the end of the file; the open run; one stream | `append_run`, `begin_run` / `append_to_run` / `end_run`, `append`, `create_entries`, `flush_directory`, `map_run`, `map_run_range`, reopening |
| buffers | `buffer.*` | input: run, chunk, position, active bit; output: elements, active bit | `load_chunk`, `next`, `has_next`, `empty`; `add`, `flush`, `flush_direct` |
| initial run generation | `threads.*` | two input and two output buffers, heap, frozen area, two flags | `initTasks`, `reader`, `sorter`, `writer` |
| merge planning | `merge_plan.*` | a binary (Huffman) tree of runs | `make_binary_merge_plan`, `two_way_merge`, `execute_merge_plan_return_id` |
| K-way planning | `generate_task` in `k_way_merge_threads.cpp` | list of rounds, each up to K run ids | `generate_task` |
| K-way merge | `k_way_merge_threads.*`, `writer_p` in `threads.cpp` | heap, current buffers, two output buffers, `inited`, `done_sorting` | `inputRun`, `initializeRound`, `kWayMerge`, `writer_p` |
| buffer management | `buffer_manager.h` | free buffers (a vector), K queues with `run_size` and `elements_read` | `getBuffer`, `returnBuffer`, `addBuffer`, `addElementsRead`, `has_next`, `reset` |
| drivers | `k_way_merge_test.cpp`, `multi_thread_test.cpp`, `merge_plan_tree_test.cpp` | the objects above | start the threads of one phase, join them, call `create_entries`, go on |
| first design | `old/`: `MergeSortFile.*`, `TwoWayMerger.*` | a file of segments behind a header and a table of 100 metadata slots; two input buffers and an output buffer; files `pass_N.msrt` | `create`, `open`, `appendSegment`, `append2LastSegment`, `readSegmentChunk`; `genRun`, `MergeInMem`, `ExternalMergeSort`; replaced by the parts above (`old/README.md`) |

How the parts interact:

* reader, sorter and writer share buffers and meet only in the buffers' `active`
  bits and in `done_reading` and `done_sorting`. There is no lock and no condition
  variable; every wait is a loop around `yield`.
* The input thread and the merge thread share the pool, the queues, the array of
  current buffers and the file, and meet only in `inited`; the merge thread and
  `writer_p` meet in the output buffers' active bits and `done_sorting`.
* `generate_task` hands out the ids of runs that the merge rounds will make; the
  rounds read runs from, and append runs to, the same file through one stream.

What is hard, and what makes each part correct:

| Part | Hard | Correct when |
|---|---|---|
| run generation | several loads that make one decision; buffers handed over by one bit; end of input against end of sorting; two constants that must fit | no buffer in two hands, nothing dropped or written twice, batches in order, the threads end |
| `generate_task` | ids of runs that do not exist yet; a last round with fewer runs; no runs at all | a round reads existing runs only, every run but the last is read once, the loop ends |
| K-way merge | rounds separated by one bit; `empty()` and `has_next()` loaded one after the other; buffers that circulate; refilling while the heap is drained | threads in the same round, no buffer in two places, every element in the new run, in order, the threads end |
| buffer management | a vector and queues used by two threads without a lock | a call that overlaps another one behaves as if it did not, or the process ends with an exception |
| multi-run file | block alignment of a growing run; a directory that data overwrites; one stream position for two threads; a process killed while its last writes are still in the stream's buffer | a run reads back as it was written; a reopened file holds the runs of the closed one; a flush that was killed is read as what it was, or refused |
| two-way merge | the id of a run that is not complete; a tree executed over a growing file | the last run is the sorted permutation |
| first design | a table that is full; segments of different sizes against a buffer that doubles each pass; files of an earlier sort; a write inside `assert` | one sorted segment of all keys where its assumptions hold, no foreign key elsewhere, an end in every case |

`PROJECT.json` has the full list of hazards with their lines.

## Modules

| Module | What it models |
|---|---|
| `InitTasks` | `initTasks`: raw runs cut into chunks |
| `RunGeneration` | `reader`, `sorter`, `writer` |
| `MCRunGeneration` | instances of it, with the tasks `InitTasks` makes |
| `RunGenerationProofs` | its theorems |
| `MergeRounds` | what the merge threads need of a list of rounds |
| `GenerateTask` | `generate_task` as a state machine |
| `GenerateTaskProofs` | its theorems |
| `SharedStore` | pool, stream and directory at the grain of a load or a store, under two threads |
| `SharedStoreProofs` | its theorems |
| `KWayMerge` | `inputRun`, `kWayMerge`, `writer_p`, with pool, queues and runs |
| `MCKWayMerge` | instances of it |
| `KWayMergeProofs` | its theorems about threads, rounds and buffers |
| `KWayMergeDataProofs` | its theorems about the elements on their way and about the last run |
| `RunList` | what a multi-run file promises: a list of runs, of which one may grow |
| `MultiRunFile` | header, runs, padding and directory as words on the disk; every call of `RunStore`; the refinement of `RunList` |
| `FileCrash` | the same through a buffered stream, with a process that is killed |
| `MCMultiRunFile` | an instance of both |
| `MultiRunFileProofs` | theorems about `MultiRunFile`, and that it implements `RunList` |
| `FileCrashProofs` | theorems about `FileCrash` |
| `MergePlan` | `make_binary_merge_plan` |
| `SortByMerging` | what a sort by two-way merges promises |
| `TwoWayMerge` | `testMerge`: plan, `execute_merge_plan_return_id`, `two_way_merge` and its buffers |
| `MCTwoWayMerge` | instances of it, and the properties that are recursive over the tree |
| `TwoWayMergeProofs` | its theorems, with the refinement of `SortByMerging` |
| `MergeSortFile` | the segment file of the first design |
| `ExternalMergeSort` | `genRun`, `MergeInMem` and `ExternalMergeSort` over it |
| `MCExternalMergeSort` | instances of it |

`InitTasks` meets `RunGeneration` in `ValidTasks`, which is an assumption there
and is evaluated by every run on the tasks the operator makes. `GenerateTask`
meets `KWayMerge` in `ValidRounds` of `MergeRounds`: `GenerateTaskProofs` proves it
of every result of `generate_task`, `KWayMerge` assumes it of its rounds.

### RunGeneration

An element is its place in the raw file, and `key` gives its value; `Init` takes
every assignment of values. Each thread has a program counter (`rpc`, `spc`,
`wpc`), and every load or store of an active bit or a flag is a step of its own.
The payload of a buffer (`loaded`, `consumed`,
`out_buffer`) is changed in steps between them, so that an interleaving in which two
threads are in one buffer would show (`InputHandOff`, `OutputHandOff`).
What is abstracted: an input buffer is the number of its task and a position; heap
and frozen area are sets; the bytes of the file are a sequence of elements.

### GenerateTask

One step is one turn of the loop. `K` and `total_runs` are the arguments, chosen
in `Init`. `K = 1` is excluded: the loop would not end, and every caller passes 4.
For one run the list is empty; for none (`NoRuns`) it has one round, which reads no run.

### KWayMerge

`ipc`, `mpc` and `wpc` are the program counters of the three threads. The steps of
`mpc`:

    await -> clean -> heap_take <-> heap_install -> begin
      -> scan -> scan_next -> take -> install | wait -> scan ...
      -> drain -> give_back -> clear -> drain ... -> sweep -> scan ...
      -> finish -> await_writer -> next -> await ... -> final -> set_done -> done

and those of `ipc`:

    round -> reset -> init_get -> init_add -> init_count -> reset ... -> publish
      -> scan -> scan_queue -> get -> add -> count -> scan ... -> round

An element is its place in the initial runs; `runs[r + 1]` is run `r` of the file as
a sequence of elements. A spin loop is a guard. What is taken together: a thread's
own locals with the next shared access; `add` and the active bit of one output
buffer, because `writer_p` does nothing but clear bits that are set; `end_run`,
the two flushes and `flush_directory`, because nobody reads between them.

One call of the pool or of a queue is one step, although `std::vector` and
`std::queue` give no such promise to two threads, and the stream that `load_chunk`
and `begin_run` share is left out: `KWayMerge` shows what the threads' logic does
even if these calls were atomic, `SharedStore` what they do when they are not.

### SharedStore

The input thread goes round `getBuffer`, `map_run_range`, `load_chunk`, `addBuffer`;
the merge thread takes what was added, gives buffers back, begins the new run
and appends to it, in any order its buffers allow. Each load and store of
the pool's end, of the stream position and of the directory is a step.
A data race has no meaning in C++, so the outcomes are chosen: a call loads the
vector's end once and stores it once, and an entry read through a reference into a
directory that has moved gives any offset and any number of keys, so that the bounds
checks of `map_run_range` may throw; so does a read that a call of the other thread has moved to where there is nothing. Nobody catches this in a `std::thread`: the process ends (`threw`).
`raced` remembers in which of pool, stream and directory two calls have overlapped
in a way that matters, and each property says what still holds while that has not
happened. The properties hold in all other interleavings, which is the content: the
pool is hurt only by a store of its end between the other thread's load and store of
it, whereas a returned buffer written past an end just loaded is harmless; a seek
hurts a read only between `seekg` and `read`, and a write only between `seekp` and
`write`; and only these overlaps, or a directory that moves under `map_run_range`, make it
throw (`ThrowsOnlyIfRaced`). A read moved to another chunk is merged as
if it were the right one; one moved behind all chunks ends the process. Neither makes a
thread wait for ever (`EndsOrThrows`); a pool whose end was overwritten may, and what
happens after such an overwrite is not followed, so that no property says anything
about it.

### MultiRunFile

`file` is the sequence of 64-bit words on the disk. Keys, padding, header and
directory are all numbers in it, so that what is read or written at a wrong
offset really is something else. Offsets are bytes, as in the code, and `Write`
and `Read` are the stream's transfers. `header_`, `directory_`, `write_offset_`,
`in_run_` and `current_run_` are the members of the object; `block_sz`, which never
changes, is the constant `BLOCK`, and shares its word with `run_count`. One action
is one call of `RunStore`: `AddRun`, `BeginRun`, `AppendToRun`, `EndRun`, `AppendDirect`,
`FlushDirectory`, the destructor (`Close`) and the constructor (`Init`, `Reopen`);
`create_entries` reads one key a step (`BeginScan`, `ScanKey`, `FinishScan`).

`append_to_run` writes before it finds out that it must throw. No caller in the
repository adds a run while another is open, but nothing in `RunStore` keeps it
from doing so, and `AddRun` may come between `BeginRun` and `EndRun`; a call that
throws is the end of the behaviour. Two rules of the callers are guards: a file is
written by `append` or by runs, not both (`use`), and `create_entries` is called on a
file of the first kind that has no directory yet, because it would read a
directory as keys.

`RunList` is the abstract specification: `Add`, `Begin`, `Grow`, `Stop`, `AppendRaw`, a
`Cut` into the fewest sorted runs, and a `Fail` that leaves the runs up to the
growing one as they are. The refinement mapping (`List` in `MultiRunFile`) reads
every run of the directory back from the file, from the object's directory while
there is one and else from the one on the disk; flushing, closing and reopening
map to stuttering steps or to `Stop`.

### FileCrash

`FileCrash` extends `MultiRunFile`: every call is as there, or the process is killed
in it or between two. `file` is the file as the program has written it; `os` is what
has left the process for certain, and `disk`, after a kill, is what the next constructor
finds. `MultiRunFile` never calls `file_.flush()`: a write stays in the buffer of the
`std::fstream` until the stream is moved, read or closed, unless it is larger than the
buffer. Every call of `RunStore` that writes seeks first, so that it pushes out what the
call before has written. `flush_directory` seeks between header and directory
(`multi_run_file.cpp:183`): when it returns, the header is on the disk and the
directory may still be in the buffer. A kill leaves any first part of what has not been
pushed out (`Torn`).

The repository promises nothing about crashes and its files are temporary. What
is modelled is how far the layout carries. `written` is the directory that the
stream was given last and may still hold, `saved` the one that a later seek or a
close has pushed out and that is still in the file, each with the keys of its runs.

* `FlushedSurvives`: a saved directory survives a kill with all its runs, in the middle
  of `append_to_run` and of the next flush too. It stops being saved when a block is
  written over it, which happens whenever a run with keys is added: a file that is growing
  has no directory on the disk most of the time. Its header then points at keys, which
  a constructor after a kill would read as entries; no property says anything of it.
* `TornFlushNoticed`: a kill right after `flush_directory`, with a header whose directory
  is missing or incomplete, is noticed: the constructor throws "read directories", or it
  finds entries of the right runs. No key of an earlier run is taken for an entry, because the
  directory is always behind all keys. This includes the flush whose directory has
  moved: after new runs, and after a reopening of a file that `create_entries` has cut,
  whose end the constructor rounds up to a block (`multi_run_file.cpp:60`).

What does not hold, and is not claimed: that a flush that has returned survives. It
takes another call.

### MergePlan and TwoWayMerge

`pq` is the set of trees in the priority queue; `Join` takes two that may be on top,
so that equal lengths come in any order. (A set cannot show the null pointer that a
move from `top()` leaves in the queue until `pop()`, `merge_plan.cpp:26`: the order inside the
library's queue is not modelled.) When one tree is left, `CallRoot` starts
its execution. The recursion is the stack `calls`, an entry for each active call
with the ids that its children have returned. A step of a merge moves one
element: `peek` on both buffers, with the blocks they load, `next` on one, `add` with
the batch it may write. The id is returned in the step in which the output
buffer's destructor writes the rest, `EndMerge`; nobody reads between the two. The
file is the list of runs that `MultiRunFile` implements.

`SortByMerging` is the abstract specification: a set of sorted runs, a step that
replaces two of them by a sorted run of their elements, an answer when there is
one left, and the promise that the answer comes. Its `pending` maps to the runs of
the file that no finished merge has read: while a merge is going on its inputs
count, not the run that grows; when it ends, the new run counts instead of both.
The merge's own steps are stuttering, the planning too. `ImplementsMerging` is
the refinement with its liveness, which comes from `WF` of the one thread.

### MergeSortFile and ExternalMergeSort

A segment file is the header's `numSegments` and a sequence of cells; one cell is
one metadata slot or one key, so that a slot written past the table lands on
data and the other way round. `Reserved` is the table's size, 100 in the code.
`Created` keeps what lay in the file, because the constructor opens an existing
file without truncating it and `create` then writes over its front.
`genRun` is a step a block, `MergeInMem` a step a turn of its loop, with the
input buffer's `getFromBuffer` and `fill` in it, and the pass's remaining
bookkeeping is in the step that ends a pair. `vector::at` behind the end of a
short chunk ends the behaviour (`threw`), an empty raw file is refused (`failed`).
Items carry the place they came from, which the code does not have, so that
duplication and foreign keys show. `setup` holds what a call depends on: the raw
keys, the two block sizes, pass files of an earlier sort and whether `assert` is
compiled; with `NDEBUG` the write inside `assert` goes away, the output grows in
memory and is written at the end of the pair.
A metadata slot that is read as a key is taken as the smallest key.

## Runs

| Run | Instance | Question |
|---|---|---|
| `run_generation` | raw runs of 3 and 11, chunks and batches of 4, two patterns of keys | hand-over, loss, duplication, limits, number of runs, order of batches; the threads end |
| `run_generation_loss` | one raw run of 2 | *violated*: everything is written |
| `generate_task` | K in 2..5, 0 to 13 runs | the rounds are valid and as few as possible |
| `k_way_merge_rounds` | K = 2, runs of 2, 1, 2, chunks of 1, two rounds | rounds in step; what a round may lose; the threads end unless a buffer is lost, also when the pool runs dry |
| `k_way_merge_three` | K = 3, runs of 5, 2, 1, chunks of 2 | buffers and heap; duplication; what a round may lose, of short chunks too |
| `multi_run_file` | blocks of two words, up to 3 runs of up to 3 keys, a kill at any point | runs disjoint, file readable when closed, a list of runs; what survives a kill, and that a torn flush is noticed |
| `two_way_merge` | up to 4 runs, up to 3 elements each and 8 in all, blocks and batches of 2 | the plan is complete and cheapest; blocks in place; the execution implements `SortByMerging` and ends |
| `shared_store` | two buffers, two old runs of two chunks, two batches, a directory that is full | which overlaps of two calls do harm, and what harm; that nothing else throws or waits for ever |
| `external_merge_sort` | raw files of up to 6 keys and one of 8, block sizes 1 and 2, a table of 3 slots, pass files of 0 or 2 keys, `assert` in and out | when the first design sorts, when it throws, what it may lose; that it ends |
| `k_way_merge_order` | K = 2, runs of 5 and 1 | *violated*: each pop is the smallest element left |
| `k_way_merge_leak` | K = 2, two rounds | *violated*: a queue that is reset is empty |
| `k_way_merge_writer` | K = 2, runs of 5 and 1 | *violated*: the writer has written when the wait is over |

Bounds. Every counter is bounded by the amount of data, there is no state
constraint. Two values are enough for every outcome of a comparison of two
elements; all assignments of them are taken (for initial runs, all sorted ones),
except in run generation. Run generation: raw runs of 3 and 11 make chunks of 3, 4, 4
and 3: four chunks use each input buffer twice, two of them are short, so that the
heap is filled up in the middle of a chunk, and four batches use each output buffer
twice, which is what a wrong alternation of the writer needs to show. All
assignments of values to 14 keys are out of reach in one run; the two patterns are
the ones that drive `sorter` into its two areas: one that only falls, so that whole
chunks are frozen, and one (`HalfRead`) in which a full heap leaves a chunk half read, the
rest of it is looked at twice, and four runs come of three chunks. `TasksAssumption`
is checked of the tasks of these raw runs. K-way
merge: two rounds so that the second reads what the first wrote while the first
may have left something behind; runs of one to three chunks, so that sources end
at different times, are refilled, and a short chunk occurs; `OUT_SWITCH_THRESHOLD`
of 2 and `BUFFER_SIZE` of 3 so that the output buffers alternate and
`add` appends by itself in `k_way_merge_rounds`; pool of 2K as in the driver.
In the second round of `k_way_merge_rounds` there are five chunks for four buffers, so that
the pool runs dry without a buffer being lost, and the input thread waits for the
merge thread to give one back.
Multi-run file: with blocks of two words a run of one key is padded, one of two is
not, and one of three takes a second block; three runs so that there is one
before and one behind a run that grows; 0 is a key too, so that padding taken for
a key, or the other way round, would show; what a call appends is a key 0, or 1 and 0, which
makes keys that rise, fall and are equal; the directory of the first flush is
always where the next data go. Two-way merge: with eight elements and blocks of
two, a merge reads runs of up to five, that is, of three blocks with a short last
one; every vector of lengths is taken, so that the plans are of every shape that
four runs allow. Shared store: two buffers make both ends of the pool (empty, full)
reachable, two chunks a run make a chunk depend on the one before, two batches
make one depend on the other, and the directory is full when the new run begins.
First design: three slots take four segments before the table overflows, so
that the eight keys overflow it; three passes sort eight segments.

Deadlock is checked in all runs but three: in `multi_run_file` a call of
`append_to_run` that throws, and a kill, end the behaviour; in
`shared_store` a throw does, and a pool that was overwritten is not followed; in
`external_merge_sort` the program ends. `EndsOrThrows` and `Ends` say which ends there are.

Fairness. Each thread is weakly fair as a whole (`WF_vars(Reader)` and so on): it
is a thread of the operating system, which goes on if it can. A spin loop is a
disabled step, so weak fairness also says that a thread that spins sees a bit
that stays set. Nothing is assumed of the order in which threads run. The
liveness properties need no more: no bit is waited for that can be set and
cleared again for ever. `TwoWayMerge` and `ExternalMergeSort` are one thread that waits
for nothing: weak fairness of its steps says that the program goes on.

## What was found

1. `sorter` may lose the last chunks (`threads.cpp:77-89`): it loads both active bits
   as false, `reader` publishes and sets `done_reading`, and `sorter`, which loads
   `done_reading` last, ends. `OnlyUnreadIsMissing` says that this is the only loss.
2. `kWayMerge` empties the heap before it refills it (`k_way_merge_threads.cpp:122`):
   with runs longer than one chunk (8192 elements) the result is not sorted.
3. `kWayMerge` loads `empty()` before `has_next()` (`:95-96`): the last chunk of a run may
   be left in its queue and lost with its buffer. `OnlyQueuedIsLost` says that this
   is the only loss of a round, `LastRunComplete` that without it the last run is a
   permutation of the input. (`KWayMerge` takes files with runs: for a file without,
   `generate_task` makes one round with nothing in it, and there is no last run.)
4. Buffers lost this way are never returned, so that a later
   round may wait for them for ever. `EndsUnlessBufferLost` says that nothing else
   stops the threads.
5. `writer_p` writes nothing: it clears the active bits of output buffers that nobody
   has written, which the run shows. The code also says more than the run: the two output
   buffers are flushed one after the other, at the end of the round.
6. The overlaps of two threads in the pool, the stream and the directory that do
   harm are few and narrow (see `SharedStore`); none is excluded by the code.
7. `flush_directory` returns before its directory is on the disk, since nothing flushes the
   stream; a kill there is noticed when the file is opened (see `FileCrash`). Reopening a file
   that `create_entries` has cut moves its directory.
8. The first design sorts when the segments are equal, a power of two of them, at
   most 101 (the table's 100 slots and the placeholder behind them), with the same
   block size in both calls and no pass files of an earlier sort. A segment
   shorter than the buffer makes `at()` throw; of one longer than the buffer
   only the first chunk is merged, and the rest is skipped in silence
   (`NothingInvented` says no worse happens); pass files of an earlier sort are
   not truncated, and their keys are sorted in place of the new ones.

9. Replacement selection may make more initial runs than there are chunks. An element
   of a chunk that the full heap leaves half read can be frozen behind elements of
   the chunk's first part, so that a chunk takes part in two runs (`HalfRead`: four runs
   after three chunks). What holds is `RunsArePaidFor`: one run a chunk, and one more
   for every `OUT_SWITCH_THRESHOLD` elements produced.

1, 2, 3 and 5 are the findings of `PROJECT.json`, each with a run that shows it.

## What is proved

For every value of the constants that meets the modules' assumptions.

`RunGenerationProofs` proves the type invariant, the exclusion of reader and sorter
on an input buffer and of sorter and writer on an output buffer, that a
released input buffer is empty (`ReleasedIsEmpty`), that heap, frozen area and batches keep their
limits, that no element is dropped inside the pipeline, and that at the end
every element is in the file or unread in an input buffer. The invariants are not
inductive by themselves. Exclusion needs to know where each thread is between
its load of a bit and its use of the buffer (`ReaderInv`, `SorterInv`, `WriterInv`)
and that a bit that a thread has seen stays as it is until that thread changes
it. That a released buffer is empty needs the heap to have room for a whole chunk
(`HeapInv`: the heap holds no more than what has been consumed of the buffer it
is filled from), and this needs `CHUNK <= OUT_SWITCH_THRESHOLD`, which the code
states nowhere: it has the number 65536 in two functions. `BatchInv` ties
`cur_out_count` to the length of the current output buffer. `ControlInvariant` is the
conjunction, proved action by action; each theorem then follows from it. The
assumptions are `SizesAssumption`, `TasksAssumption` and `KeysAssumption`; the second
is what `initTasks` promises.

Three more theorems need more than exclusion. `BatchesInOrder` rests on `TurnInv`: the
batch `writer` waits for is the older one, and this is the one in `sorter`'s current buffer
exactly when both output buffers, or none, are active. `NothingDuplicated` is a
counting argument instead of an invariant of its own: no action increases the sum
of what is pending, unread, in heap and frozen area, in the output buffers and in
the file (`Total`), which starts as the number of elements; as nothing is dropped either
(`NothingDropped`), the places together hold every element and have no more members
than there are elements, so that no two share one. `RunsArePaidFor` needs what is paid at
each point of `sorter` (`PaidInv`): a run that has begun, and one that heap or frozen
area is going to begin, is covered by a chunk read to its end or by the elements
that have gone through a full heap.

`GenerateTaskProofs` proves, for any number of runs, that the rounds are valid while
the list grows (`RoundsReadable`), that the result is what `KWayMerge` assumes (`ResultValid`), and that
each round reduces the number of runs and, if there were any, leaves at least one (`RunsReduced`), so
that the loop ends: the counter cannot jump over 1. The invariant `LoopInv` says that
the ids below `turn_beg` have been given out and that `turn_beg + next_turn_runs` is
the number of runs there will be, until a round with fewer than K runs, which is
the last one.

`MultiRunFileProofs` proves, for every block size and any payloads, the type
invariant with the agreement of header and directory, that runs, header and the
place of the next write are disjoint (`DisjointRegions`), and that the directory
of a closed file is complete and behind all runs (`ReadableWhenClosed`). The
invariant `Inv` has a part for each phase. `RunInv`: the open run owns whole blocks,
and what was added behind it starts behind the last of them; without this a run
that grows inside its last block could reach the next one. `ScanInv`: the run that
`create_entries` is in ends where it reads, behind all entries made so far. `ClosedInv`:
what the header on the disk points to is a directory; that closing makes it so
needs the lemmas on what `Write` keeps (`WriteWords`), on the words of a directory
(`DirectoryWordsOf`) and on reading it back (`FlushedFile`). The theorems do not say
that a block is a power of two, which the mask in the code needs: `AlignUp` is what
the mask computes then.

`FileIsRunList` (same module) proves the refinement: every call is a step of `RunList`, or
leaves the list as it is, for every block size, any number of runs and any keys. It
needs that a run with keys lies within the file (`InFileInv`) and that the object is never
behind the file (`AheadInv`); `StoreInv` is `Inv` with these. The invariant `ListInv` adds
what the list's steps need. `LastInv`: the open run,
as long as it is the last one, ends at the next write position, so that a call that
throws has runs behind it; `RunList` lets only such a call fail. `CutInv`: while
`create_entries` reads, some division of the keys read so far is in the directory, each
part in ascending order and followed by a smaller key; at the end it is the cut into
the fewest sorted runs. `FreshInv`: a file that nobody has used holds its header only.
Lemmas on `Read` and `Write` carry the steps: what is written behind a run or
before it is not read with it (`WrittenBehind`, `WrittenBefore`), and what is written
where it ends is read behind its keys (`WrittenOn`). From these, `RunGrown` is the case of
`append_to_run` that returns; in the case that throws, the runs up to the open one read
as before.

`FileCrashProofs` proves, for every block size and any sequence of calls, that a directory
that has left the process survives a kill (`FlushedSurvives`), and that a kill inside or
right after a flush is noticed (`TornFlushNoticed`). `CrashInv` adds to `StoreInv` where the file
ends: with the directory of the last flush, or, when data have been written over it,
before the place where a new directory would end (`DirInv`, `Room`). This is what makes a torn
flush visible: a header whose directory is missing points behind the end of the file,
unless the directory is written over one of the same length in the same place, and then each
entry is the old one's or the new one's (`WrittenInv`, `TornEntries`). `SavedInv`: the file and what
has left the process both have the saved runs, so that every mixture of them has
(`TornSurvives`). `LeftInv`: the object has the runs of the directory it has flushed, grown
by no more than the last block has room for, and behind them only runs without a
key; it follows that a call that does not move the next write position writes
nothing the saved runs or their directory are read from.

`SharedStoreProofs` proves, for any number of buffers, runs, chunks and batches, the
four safety properties of the shared file and pool. Its invariant is conditional
like they are: what the pool's end is between a load and a store as long as
no store of the other thread fell between (`PoolInv`), where the stream is between a
seek and the transfer (`StreamInv`), what a buffer holds (`ChunkInv`). They are not equally
strong: the file is intact when the stream was not raced, whatever happened to the
directory, and a throw needs a race on the stream or the directory
(`ThrowsOnlyWhenRaced`), but a chunk is right only if nothing was raced.

`KWayMergeProofs` proves, for every K, initial runs, rounds and interleaving, the type
invariant, that no buffer is in two places (`BuffersUnique`), that the two threads are in
the same round (`RoundsInStep`) and that an element in the heap has a current buffer
(`HeapBacked`). All parts of `ControlInv` are needed at once. That rounds stay in step is a
matter of the two program counters and `inited` (`RoundInv`) except for one step: the
merge thread may leave a round only after the input thread has nothing left to load.
It leaves when each source has neither a current buffer nor `has_next()`
(`ScanInv`), and while the input thread is refilling, some queue has `elements_read < run_size`
(`RefillInv`, which needs `elements_read` to follow `run_offsets` and the queue that is chosen to have
something left, `ChosenInv`). That `front()` is never taken of an empty queue is `QueueInv`;
that the merge thread pops a buffer that has elements needs every chunk to be
nonempty, so every run of the file too (`FileInv`), and so that a round does not
write an empty run (`NonEmptyInv`). `HeapInv`: at most one element of a source is in
the heap, and its source keeps its buffer.
The assumptions are `SizesAssumption`, `RunsAssumption` and `RoundsAssumption`; the last is
what `GenerateTaskProofs` proves of `generate_task`. `Null` being none of the values it
stands beside is part of these assumptions, here and in the other modules: it is a
null pointer or an unset index of the code.

`KWayMergeDataProofs` proves what the merge does with the elements. `StreamInv` says
of each source of the round: what is written, what is in the heap, what is in the
merge thread's hand and what waits in the queue follow each other in the source,
none overtaking another, and together they are exactly what has been loaded of it.
It holds of a queue from when it gets its first chunk of the round (`Fresh`); before
this, the queue may hold what the round before has left. `OffsetInv` ties the counters
to the runs, `IdleInv` says what is empty between two rounds and that a buffer is given
back empty, `EmittedInv` that the run being written has no element twice and nothing
from outside the round, and `LiveInv` that the complete runs that are still to be
read are disjoint, which is what makes the sources of a later round disjoint.
`NothingDuplicated`, `SourceOrderKept` and `OnlyQueuedIsLost` follow. `OnlyQueuedIsLost` is the
theorem behind finding 3: a merge that leaves a chunk loses that chunk and nothing
else.

The same module proves `LastRunComplete`. `LossInv`: the runs still to be read hold
all elements (`Whole`), or a queue holds a chunk of a round that is over (`Stranded`), or
there is a buffer that is in no place at all (`Nowhere`). Losing is final: `reset` turns
a stranded buffer into one that is nowhere, and such a buffer cannot come back,
because every move takes a buffer from a place. At the end a pool of 2K buffers, no
two the same, is all of them, so the second and third case are excluded and the one
run left has every element.

`TwoWayMergeProofs` proves, for every list of run lengths, block size and batch size and
all sorted runs, that the blocks of a merge stay in place in complete runs
(`BlocksInPlace`) and that `testMerge` implements
`SortByMerging`. The invariant `IInv` has three parts. `RunsInv`: the initial runs stay
as they are, every complete run is sorted and not empty, and of two of them either the
later one holds all of the earlier or they share nothing.
`MergeInv`: each buffer holds the block that `consumed` says, the run that grows and the
output buffer together are a sorted sequence of what has been taken of the two inputs,
and nothing in it is larger than what is left. The third part is about the plan: the
code walks a tree, and a recursive definition cannot be proved about here, so that a
function `P` stands for it that gives every tree made so far the elements under it, one level
at a time. `PlanInv`: an inner node's elements are those of its two children, which share
none, and the trees in the queue share none and leave none out (what
`EveryRunOnce` says with recursion). `CallsInv`: an id that a call has got back is
a run of that child's elements that no merge has read, and nothing under a child that
is still to be executed has been touched. It follows that a merge reads no run twice,
and that when the outermost call returns its run has all elements.
Refinement is then step by step: `EndMerge` is `MergeTwo`, together with
the answer when it was the root's merge, the return of a leaf that is the whole plan
is `Answer`, and every other step leaves `Unread` as it is.
`MergesTwoAtATime` is this for all behaviours; `MergingIsImplemented` adds the answer under
the assumption that the recursion returns, which is liveness and comes from TLC.

Only proved, and in no run: `ReleasedIsEmpty`, `PrefixIsValid`, `RoundsReduce` and `SourceOrderKept`.

Only model-checked: the three safety properties of `ExternalMergeSort` (its result depends on
what whole passes compute, which is induction over data), `EveryRunOnce` and `PlanIsCheapest`
of `MCTwoWayMerge` (recursive over a tree). All
liveness properties (`Termination`,
`EndsUnlessBufferLost`, `EndsOrThrows`, `Ends`) stay with TLC, the prover does not reach
fairness and `ENABLED`. `initTasks` is built with a fold over a sequence, whose
value for every input needs induction over data, out of the prover's reach too:
the runs evaluate `ValidTasks` on its results.

## Not modelled

* Of `old/`: `FileHelper` (an older file format, templates that no file includes
  but the one that should instantiate them and instantiates none: without a caller
  there is no order of calls to check), the practice file of data structures, and
  the tests, which make the calls that `ExternalMergeSort` makes.
* `main.cpp` and `run_store.cpp` are empty; build files, `test.sh` and `draw.py` have no
  program logic. The drivers' timing, output and random data are left out.
* Of the multi-run file: I/O that fails by itself, a full disk, and a crash of the
  machine: `FileCrash` kills the process, and what has left the process stays. A word
  is not torn. `RunStore`'s own `in_run_` and `current_run_` are written and never read;
  `reload_directory` has no caller.
* Of the buffers: `resetBuffer`, which nothing calls, and the move operations.
* Of the planning: how the library's queue moves its elements, and an empty list of
  runs, for which no tree and no result exist.
* Of the queues: `push` and `pop` of one `std::queue` in two threads. Its fields depend
  on the library (a deque's blocks and iterators); `SharedStore` does the vector,
  where one end is all there is.

## Plan

In this order, the behaviour that carries most first:

1. *(done)* `RunGeneration` and its proofs, `GenerateTask` and its proofs, `KWayMerge`.
2. *(done)* `RunList`, `MultiRunFile` and its proofs.
3. *(done)* `MergePlan` and `TwoWayMerge`, with `SortByMerging`.
4. *(done)* `SharedStore`: pool, stream and directory under two threads.
5. *(done)* `FileCrash`: a kill, and what is then in the stream's buffer.
6. *(done)* The first design, `MergeSortFile` and `ExternalMergeSort`.
7. *(done)* Proofs of `SharedStore`, `KWayMerge`, `FileCrash` and the rest of `RunGeneration`.
   `FewestRounds`, `TwoWayMerge` as a refinement of `SortByMerging`, and `MultiRunFile` as one
   of `RunList`.
8. Composition `ExternalSort`: what run generation has written, `create_entries`,
   `generate_task`, and the rounds as steps on a `RunList`, so that the rounds of
   `KWayMerge` are no longer a constant. The interfaces are checked now (`ValidTasks`,
   `ValidRounds`, `RunList`); a sorted permutation is not what the whole
   promises, by findings 1 to 3 and 5.
