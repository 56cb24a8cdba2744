------------------------ MODULE RunGenerationProofs ------------------------
(***************************************************************************)
(* Theorems about RunGeneration, for every list of tasks, every key        *)
(* assignment and every size of the buffers.                               *)
(***************************************************************************)
EXTENDS RunGeneration, FiniteSetTheorems, SequenceTheorems, TLAPS

(* Where reader is with the task it fetched, and the buffer it fills. *)
ReaderInv ==
    /\ rpc \in {"fetch", "find0", "find1", "load", "publish"} =>
           next_task <= Len(Tasks) + 1
    /\ rpc \in {"find0", "find1", "load", "publish"} =>
           idx \in 1 .. Len(Tasks) /\ next_task = idx + 1
    /\ rpc \in {"load", "publish"} => ~in_active[input]
    /\ rpc = "publish" => loaded[input] = idx /\ consumed[input] = 0
    /\ rpc \in {"finish", "done"} => next_task > Len(Tasks)

(* What an input buffer holds: an active one a task, partly consumed, one that *)
(* is neither active nor being published nothing unread.                       *)
InputInv ==
    \A b \in Bufs :
        /\ in_active[b] => loaded[b] # 0
        /\ loaded[b] # 0 => consumed[b] <= Tasks[loaded[b]].count
        /\ in_active[b] \/ (rpc = "publish" /\ input = b) \/ ~HasNext(b)

(* Where sorter is: which buffers it may touch, and what fits into the heap.   *)
SorterInv ==
    /\ spc \in {"fill", "release", "absorb"} => in_active[src]
    /\ spc \in {"scan0", "scan1", "check_done", "set_done", "final", "done"} =>
           heap = {}
    /\ spc \in {"check_done", "set_done", "final", "done"} => frozen = {}
    /\ spc \in {"emit", "publish"} => ~out_active[cur_out]
    /\ spc = "release" => ~HasNext(src)
    /\ done_sorting <=> spc \in {"final", "done"}

WriterInv ==
    /\ wpc \in {"flush", "release"} => out_active[use_buffer]
    /\ wpc = "recheck" => done_sorting \/ out_active[use_buffer]
    /\ wpc \in {"drain", "drain_release", "done"} => done_sorting
    /\ wpc \notin {"drain", "drain_release", "done"} => drained = 0
    /\ wpc = "release" => out_buffer[use_buffer] = << >>
    /\ wpc = "drain_release" => out_buffer[drained] = << >>
    /\ wpc \in {"drain", "drain_release"} /\ drained = 1 => out_buffer[0] = << >>
    /\ wpc = "done" => \A b \in Bufs : out_buffer[b] = << >>

(* A heap or frozen area that starts empty takes at most one chunk before it   *)
(* is looked at again.                                                         *)
HeapInv ==
    /\ IsFiniteSet(heap) /\ IsFiniteSet(frozen)
    /\ spc = "fill" => Cardinality(heap) <= consumed[src]
    /\ spc \in {"refill0", "refill1"} => frozen = {}
    /\ spc = "absorb" => Cardinality(frozen) <= consumed[src]

(* cur_out_count is the length of the batch in the current output buffer, and  *)
(* a buffer that is not active and not current is empty.                       *)
BatchInv ==
    /\ cur_out_count <= OUT_SWITCH_THRESHOLD
    /\ spc # "publish" => cur_out_count < OUT_SWITCH_THRESHOLD
    /\ ~done_sorting =>
         /\ out_active[cur_out] => cur_out_count = 0
         /\ ~out_active[cur_out] => Len(out_buffer[cur_out]) = cur_out_count
         /\ ~out_active[Other(cur_out)] => out_buffer[Other(cur_out)] = << >>

IInv == /\ TypeOK
        /\ ReaderInv /\ InputInv /\ SorterInv /\ WriterInv
        /\ HeapInv /\ BatchInv
        /\ WithinLimits /\ NothingDropped

----------------------------------------------------------------------------
(* Facts about the data *)

(* What the assumption on Tasks says of one task. *)
LEMMA TaskFacts ==
    /\ Len(Tasks) \in Nat
    /\ DOMAIN Tasks = 1 .. Len(Tasks)
    /\ \A i \in 1 .. Len(Tasks) :
         /\ Tasks[i] \in Task
         /\ Tasks[i].run_id \in Nat /\ Tasks[i].offset \in Nat
         /\ Tasks[i].count \in Nat
         /\ 1 <= Tasks[i].count /\ Tasks[i].count <= CHUNK
         /\ Chunk(Tasks[i]) \subseteq Elements
<1>1. Tasks \in Seq(Task)
  BY TasksAssumption DEF ValidTasks
<1>2. Len(Tasks) \in Nat /\ DOMAIN Tasks = 1 .. Len(Tasks)
  BY <1>1
<1>3. ASSUME NEW i \in 1 .. Len(Tasks)
      PROVE  /\ Tasks[i] \in Task
             /\ Tasks[i].run_id \in Nat /\ Tasks[i].offset \in Nat
             /\ Tasks[i].count \in Nat
             /\ 1 <= Tasks[i].count /\ Tasks[i].count <= CHUNK
             /\ Chunk(Tasks[i]) \subseteq Elements
  <2>1. Tasks[i] \in Task
    BY <1>1
  <2>2. Tasks[i].count \in 1 .. CHUNK
    BY <1>2, TasksAssumption DEF ValidTasks
  <2>3. Chunk(Tasks[i]) \subseteq Elements
    BY <1>2 DEF Elements
  <2> QED
    BY <2>1, <2>2, <2>3, SizesAssumption DEF Task
<1> QED
  BY <1>2, <1>3

(* The element next() returns is one of the elements to be sorted. *)
LEMMA NextIsElement ==
    ASSUME TypeOK, NEW b \in Bufs, HasNext(b)
    PROVE  /\ ElementAt(b, consumed[b]) \in Elements
           /\ loaded[b] \in 1 .. Len(Tasks)
           /\ consumed[b] \in Nat
           /\ consumed[b] < Tasks[loaded[b]].count
<1>1. loaded[b] \in 1 .. Len(Tasks) /\ consumed[b] \in Nat
  <2>1. loaded \in [Bufs -> 0 .. Len(Tasks)] /\ consumed \in [Bufs -> Nat]
    BY DEF TypeOK
  <2>2. loaded[b] \in 0 .. Len(Tasks) /\ consumed[b] \in Nat
    BY <2>1
  <2>3. loaded[b] # 0
    BY DEF HasNext
  <2> QED
    BY <2>2, <2>3, TaskFacts
<1>2. consumed[b] < Tasks[loaded[b]].count
  BY DEF HasNext
<1>3. ElementAt(b, consumed[b]) \in Chunk(Tasks[loaded[b]])
  <2>1. Tasks[loaded[b]].offset + consumed[b] \in
            Tasks[loaded[b]].offset ..
            Tasks[loaded[b]].offset + Tasks[loaded[b]].count - 1
    BY <1>1, <1>2, TaskFacts
  <2> QED
    BY <2>1 DEF ElementAt, Chunk
<1> QED
  BY <1>1, <1>2, <1>3, TaskFacts

(* The other of two buffers. *)
LEMMA OtherBuf ==
    ASSUME NEW b \in Bufs
    PROVE  Other(b) \in Bufs /\ Other(b) # b /\ Other(Other(b)) = b
BY DEF Bufs, Other

(* Adding an element to a finite set makes it larger by at most one. *)
LEMMA AddOne ==
    ASSUME NEW S, IsFiniteSet(S), NEW x
    PROVE  /\ IsFiniteSet(S \cup {x})
           /\ Cardinality(S) \in Nat /\ Cardinality(S \cup {x}) \in Nat
           /\ Cardinality(S \cup {x}) <= Cardinality(S) + 1
<1>1. IsFiniteSet(S \cup {x}) /\ Cardinality(S) \in Nat
  BY FS_AddElement, FS_CardinalityType
<1>2. CASE x \in S
  <2>1. S \cup {x} = S
    BY <1>2
  <2> QED
    BY <1>1, <2>1
<1>3. CASE x \notin S
  <2>1. Cardinality(S \cup {x}) = Cardinality(S) + 1
    BY <1>3, FS_AddElement
  <2> QED
    BY <1>1, <2>1
<1> QED
  BY <1>2, <1>3

----------------------------------------------------------------------------
(* Type correctness *)

(* A step of reader keeps every variable in its type. *)
LEMMA ReaderTypes ==
    ASSUME TypeOK, ReaderInv, Reader
    PROVE  TypeOK'
<1> USE TaskFacts DEF inVars, outVars, readerVars, sorterVars, writerVars,
                      ReaderPCs, Bufs
<1>1. CASE Fetch
  BY <1>1 DEF Fetch, TypeOK, ReaderInv
<1>2. CASE FindFree(0, "find0", "find1")
  BY <1>2 DEF FindFree, TypeOK
<1>3. CASE FindFree(1, "find1", "find0")
  BY <1>3 DEF FindFree, TypeOK
<1>4. CASE LoadChunk
  BY <1>4 DEF LoadChunk, TypeOK, ReaderInv
<1>5. CASE PublishInput
  BY <1>5 DEF PublishInput, TypeOK
<1>6. CASE FinishReading
  BY <1>6 DEF FinishReading, TypeOK
<1> QED
  BY <1>1, <1>2, <1>3, <1>4, <1>5, <1>6 DEF Reader

(* A step of sorter keeps every variable in its type. *)
LEMMA SorterTypes ==
    ASSUME TypeOK, Sorter
    PROVE  TypeOK'
<1> USE DEF inVars, outVars, readerVars, sorterVars, writerVars,
            SorterPCs, Bufs, LoopHead
<1>1. CASE Scan0
  BY <1>1 DEF Scan0, TypeOK
<1>2. CASE Scan1
  BY <1>2 DEF Scan1, TypeOK
<1>3. CASE CheckDone
  BY <1>3 DEF CheckDone, TypeOK
<1>4. CASE SetDoneSorting
  BY <1>4 DEF SetDoneSorting, TypeOK
<1>5. CASE FillHeap
  <2>1. CASE HasNext(src) /\ Cardinality(heap) < OUT_SWITCH_THRESHOLD
    <3>1. src \in Bufs
      BY DEF TypeOK
    <3>2. ElementAt(src, consumed[src]) \in Elements
      BY <2>1, <3>1, NextIsElement
    <3> QED
      BY <1>5, <2>1, <3>2, SMTT(60) DEF FillHeap, TypeOK
  <2>2. CASE ~(HasNext(src) /\ Cardinality(heap) < OUT_SWITCH_THRESHOLD)
    BY <1>5, <2>2 DEF FillHeap, TypeOK
  <2> QED
    BY <2>1, <2>2
<1>6. CASE ReleaseInput
  BY <1>6 DEF ReleaseInput, TypeOK
<1>7. CASE AwaitOutput
  BY <1>7 DEF AwaitOutput, TypeOK
<1>8. CASE Emit
  <2>1. PICK e \in heap :
          /\ Add(cur_out, e)
          /\ last_output' = key[e]
          /\ cur_out_count' = cur_out_count + 1
          /\ heap' \in SUBSET Elements
          /\ frozen' \in SUBSET Elements
          /\ spc' \in SorterPCs
    BY <1>8 DEF Emit, AfterOutput, TypeOK
  <2>2. e \in Elements /\ key[e] \in Keys
    BY DEF TypeOK
  <2>3. /\ out_buffer' \in [Bufs -> Seq(Elements)]
        /\ file' \in Seq(Elements)
        /\ auto_appended' \in BOOLEAN
    <3>1. /\ Append(out_buffer[cur_out], e) \in Seq(Elements)
          /\ file \in Seq(Elements)
          /\ file \o Append(out_buffer[cur_out], e) \in Seq(Elements)
      BY <2>2 DEF TypeOK
    <3> QED
      BY <2>1, <3>1, SMTT(60) DEF Add, TypeOK
  <2>4. /\ last_output' \in Keys \cup {LLONG_MIN}
        /\ cur_out_count' \in Nat
    BY <2>1, <2>2 DEF TypeOK
  <2>5. UNCHANGED <<key, inVars, out_active, done_sorting, readerVars,
                    frozen_input, cur_out, src, writerVars>>
    BY <1>8 DEF Emit
  <2> QED
    BY <2>1, <2>3, <2>4, <2>5 DEF TypeOK
<1>9. CASE PublishOutput
  BY <1>9 DEF PublishOutput, AfterOutput, Other, TypeOK
<1>10. CASE FindRefill(0, "refill0", "refill1")
  BY <1>10 DEF FindRefill, TypeOK
<1>11. CASE FindRefill(1, "refill1", LoopHead(heap))
  BY <1>11 DEF FindRefill, TypeOK
<1>12. CASE Absorb
  <2>1. CASE HasNext(src) /\ Cardinality(heap) < OUT_SWITCH_THRESHOLD
    <3>1. src \in Bufs
      BY DEF TypeOK
    <3>2. ElementAt(src, consumed[src]) \in Elements
      BY <2>1, <3>1, NextIsElement
    <3>3. CASE key[ElementAt(src, consumed[src])] >= last_output
      BY <1>12, <2>1, <3>2, <3>3, SMTT(60) DEF Absorb, TypeOK
    <3>4. CASE ~(key[ElementAt(src, consumed[src])] >= last_output)
      <4>1. /\ consumed' = [consumed EXCEPT ![src] = @ + 1]
            /\ frozen' = frozen \cup {ElementAt(src, consumed[src])}
            /\ spc' \in {"scan0", "await_out", spc}
            /\ heap' = heap
            /\ UNCHANGED <<key, in_active, loaded, done_reading, outVars,
                           readerVars, cur_out, cur_out_count, last_output, src,
                           writerVars>>
        BY <1>12, <2>1, <3>4 DEF Absorb
      <4>2. frozen_input' \in BOOLEAN
        BY <1>12, <2>1, <3>4 DEF Absorb, FrozenIsOverfull
      <4> QED
        BY <3>2, <4>1, <4>2 DEF TypeOK
    <3> QED
      BY <3>3, <3>4
  <2>2. CASE ~(HasNext(src) /\ Cardinality(heap) < OUT_SWITCH_THRESHOLD)
    BY <1>12, <2>2 DEF Absorb, TypeOK
  <2> QED
    BY <2>1, <2>2
<1>13. CASE PublishRest
  BY <1>13 DEF PublishRest, TypeOK
<1> QED
  BY <1>1, <1>2, <1>3, <1>4, <1>5, <1>6, <1>7, <1>8, <1>9, <1>10, <1>11,
     <1>12, <1>13 DEF Sorter

(* Writing a batch out keeps the file and the buffers sequences of elements. *)
LEMMA FlushTypes ==
    ASSUME TypeOK, NEW b \in Bufs, FlushDirect(b)
    PROVE  /\ file' \in Seq(Elements)
           /\ out_buffer' \in [Bufs -> Seq(Elements)]
<1>1. out_buffer[b] \in Seq(Elements) /\ file \in Seq(Elements)
  BY DEF TypeOK
<1>2. file \o out_buffer[b] \in Seq(Elements)
  BY <1>1
<1> QED
  BY <1>2 DEF FlushDirect, TypeOK

(* A step of writer keeps every variable in its type. *)
LEMMA WriterTypes ==
    ASSUME TypeOK, Writer
    PROVE  TypeOK'
<1> USE DEF inVars, outVars, readerVars, sorterVars, writerVars, WriterPCs
<1>1. CASE WriterLoop
  BY <1>1 DEF WriterLoop, TypeOK
<1>2. CASE AwaitBatch
  BY <1>2 DEF AwaitBatch, TypeOK
<1>3. CASE AwaitDone
  BY <1>3 DEF AwaitDone, TypeOK
<1>4. CASE Recheck
  BY <1>4 DEF Recheck, TypeOK
<1>5. CASE Flush
  <2>1. use_buffer \in Bufs /\ FlushDirect(use_buffer)
    BY <1>5 DEF Flush, TypeOK
  <2>2. file' \in Seq(Elements) /\ out_buffer' \in [Bufs -> Seq(Elements)]
    BY <2>1, FlushTypes
  <2> QED
    BY <1>5, <2>2 DEF Flush, TypeOK
<1>6. CASE ReleaseOutput
  BY <1>6 DEF ReleaseOutput, Other, Bufs, TypeOK
<1>7. CASE DrainRest
  <2>1. drained \in Bufs
    BY DEF TypeOK
  <2>2. CASE HasRest(drained)
    <3>1. FlushDirect(drained)
      BY <1>7, <2>2 DEF DrainRest
    <3>2. file' \in Seq(Elements) /\ out_buffer' \in [Bufs -> Seq(Elements)]
      BY <2>1, <3>1, FlushTypes
    <3> QED
      BY <1>7, <2>2, <3>2 DEF DrainRest, TypeOK
  <2>3. CASE ~HasRest(drained)
    BY <1>7, <2>3 DEF DrainRest, NextDrained, Bufs, TypeOK
  <2> QED
    BY <2>2, <2>3
<1>8. CASE DrainRelease
  BY <1>8 DEF DrainRelease, NextDrained, Bufs, TypeOK
<1> QED
  BY <1>1, <1>2, <1>3, <1>4, <1>5, <1>6, <1>7, <1>8 DEF Writer

----------------------------------------------------------------------------
(* The input side: reader and sorter hand buffers to each other *)

(* What a step of writer, or one that changes nothing, leaves alone. *)
LEMMA WriterFrame ==
    ASSUME Writer \/ UNCHANGED vars
    PROVE  /\ UNCHANGED <<key, inVars, readerVars, sorterVars, auto_appended>>
           /\ UNCHANGED done_sorting
<1> USE DEF vars, inVars, outVars, readerVars, sorterVars, writerVars
<1> QED
  BY DEF Writer, WriterLoop, AwaitBatch, AwaitDone, Recheck, Flush,
         ReleaseOutput, DrainRest, DrainRelease

(* What a step of reader leaves alone. *)
LEMMA ReaderFrame ==
    ASSUME Reader
    PROVE  UNCHANGED <<key, outVars, sorterVars, writerVars>>
BY DEF Reader, Fetch, FindFree, LoadChunk, PublishInput, FinishReading

(* sorter changes an input buffer only while the buffer is active, and only by *)
(* reading on or by releasing it.                                              *)
LEMMA SorterFrame ==
    ASSUME TypeOK, SorterInv, Sorter
    PROVE  /\ UNCHANGED <<key, readerVars, writerVars, loaded, done_reading>>
           /\ \A b \in Bufs : ~in_active[b] =>
                  ~in_active'[b] /\ consumed'[b] = consumed[b]
<1> USE DEF inVars, outVars, readerVars, sorterVars, writerVars
<1>1. CASE FillHeap
  <2>1. in_active[src] /\ src \in Bufs
    BY <1>1 DEF FillHeap, SorterInv, TypeOK
  <2> QED
    BY <1>1, <2>1 DEF FillHeap, TypeOK
<1>2. CASE Absorb
  <2>1. in_active[src] /\ src \in Bufs
    BY <1>2 DEF Absorb, SorterInv, TypeOK
  <2>2. /\ UNCHANGED <<key, in_active, loaded, done_reading, readerVars, writerVars>>
        /\ \/ consumed' = [consumed EXCEPT ![src] = @ + 1]
           \/ consumed' = consumed
    BY <1>2 DEF Absorb
  <2> QED
    BY <2>1, <2>2 DEF TypeOK
<1>3. CASE ReleaseInput
  BY <1>3 DEF ReleaseInput, TypeOK
<1>4. CASE ~(FillHeap \/ Absorb \/ ReleaseInput)
  <2>1. UNCHANGED <<key, inVars, readerVars, writerVars>>
    BY <1>4 DEF Sorter, Scan0, Scan1, CheckDone, SetDoneSorting, AwaitOutput,
                Emit, PublishOutput, FindRefill, PublishRest
  <2> QED
    BY <2>1
<1> QED
  BY <1>1, <1>2, <1>3, <1>4

LEMMA ReaderInvStep ==
    ASSUME TypeOK, ReaderInv, SorterInv, [Next]_vars
    PROVE  ReaderInv'
<1> USE TaskFacts DEF inVars, outVars, readerVars, sorterVars, writerVars
<1>1. CASE Reader
  <2>1. CASE Fetch
    <3>1. next_task \in Nat /\ next_task >= 1
      BY DEF TypeOK
    <3>2. /\ idx' = next_task /\ next_task' = next_task + 1
          /\ \/ next_task > Len(Tasks) /\ rpc' = "finish"
             \/ ~(next_task > Len(Tasks)) /\ rpc' = "find0"
      BY <2>1 DEF Fetch
    <3> QED
      BY <3>1, <3>2 DEF ReaderInv
  <2>2. CASE FindFree(0, "find0", "find1")
    BY <2>2 DEF FindFree, ReaderInv, TypeOK
  <2>3. CASE FindFree(1, "find1", "find0")
    BY <2>3 DEF FindFree, ReaderInv, TypeOK
  <2>4. CASE LoadChunk
    <3>1. /\ idx \in 1 .. Len(Tasks) /\ next_task = idx + 1
          /\ next_task <= Len(Tasks) + 1
          /\ ~in_active[input] /\ input \in Bufs
      BY <2>4 DEF LoadChunk, ReaderInv, TypeOK
    <3>2. loaded'[input] = idx /\ consumed'[input] = 0
      BY <2>4, <3>1 DEF LoadChunk, TypeOK
    <3> QED
      BY <2>4, <3>1, <3>2 DEF LoadChunk, ReaderInv
  <2>5. CASE PublishInput
    BY <2>5 DEF PublishInput, ReaderInv, TypeOK
  <2>6. CASE FinishReading
    BY <2>6 DEF FinishReading, ReaderInv, TypeOK
  <2> QED
    BY <1>1, <2>1, <2>2, <2>3, <2>4, <2>5, <2>6 DEF Reader
<1>2. CASE Sorter
  <2>1. input \in Bufs
    BY DEF TypeOK
  <2> QED
    BY <1>2, <2>1, SorterFrame DEF ReaderInv
<1>3. CASE Writer \/ UNCHANGED vars
  BY <1>3, WriterFrame DEF ReaderInv
<1> QED
  BY <1>1, <1>2, <1>3 DEF Next, Joined

(* Reading one more element of an active buffer keeps InputInv. *)
LEMMA OneRead ==
    ASSUME TypeOK, InputInv, NEW a \in Bufs, in_active[a], HasNext(a),
           UNCHANGED <<in_active, loaded, rpc, input>>,
           consumed' = [consumed EXCEPT ![a] = @ + 1]
    PROVE  InputInv'
<1>1. /\ consumed[a] \in Nat /\ consumed[a] < Tasks[loaded[a]].count
      /\ loaded[a] \in 1 .. Len(Tasks)
  BY NextIsElement
<1>2. Tasks[loaded[a]].count \in Nat
  BY <1>1, TaskFacts
<1>3. consumed'[a] <= Tasks[loaded[a]].count
  <2>1. consumed'[a] = consumed[a] + 1
    BY DEF TypeOK
  <2> QED
    BY <1>1, <1>2, <2>1
<1>4. \A b \in Bufs \ {a} : consumed'[b] = consumed[b]
  BY DEF TypeOK
<1> QED
  BY <1>3, <1>4 DEF InputInv, HasNext

LEMMA InputInvStep ==
    ASSUME TypeOK, ReaderInv, SorterInv, InputInv, [Next]_vars
    PROVE  InputInv'
<1> USE TaskFacts DEF inVars, outVars, readerVars, sorterVars, writerVars
<1>1. CASE Reader
  <2>1. CASE Fetch
    BY <2>1 DEF Fetch, InputInv, HasNext
  <2>2. CASE FindFree(0, "find0", "find1")
    BY <2>2 DEF FindFree, InputInv, HasNext
  <2>3. CASE FindFree(1, "find1", "find0")
    BY <2>3 DEF FindFree, InputInv, HasNext
  <2>4. CASE LoadChunk
    <3>1. idx \in 1 .. Len(Tasks) /\ ~in_active[input] /\ input \in Bufs
      BY <2>4 DEF LoadChunk, ReaderInv, TypeOK
    <3>2. /\ loaded'[input] = idx /\ consumed'[input] = 0
          /\ \A b \in Bufs \ {input} :
               loaded'[b] = loaded[b] /\ consumed'[b] = consumed[b]
          /\ UNCHANGED <<in_active, input>> /\ rpc = "load" /\ rpc' = "publish"
      BY <2>4, <3>1 DEF LoadChunk, TypeOK
    <3>3. 0 <= Tasks[idx].count
      BY <3>1
    <3> QED
      BY <3>1, <3>2, <3>3 DEF InputInv, HasNext
  <2>5. CASE PublishInput
    <3>1. idx \in 1 .. Len(Tasks) /\ loaded[input] = idx /\ input \in Bufs
      BY <2>5 DEF PublishInput, ReaderInv, TypeOK
    <3>2. /\ in_active'[input]
          /\ \A b \in Bufs \ {input} : in_active'[b] = in_active[b]
          /\ UNCHANGED <<loaded, consumed, input>>
      BY <2>5, <3>1 DEF PublishInput, TypeOK
    <3> QED
      BY <3>1, <3>2 DEF InputInv, HasNext
  <2>6. CASE FinishReading
    BY <2>6 DEF FinishReading, InputInv, HasNext
  <2> QED
    BY <1>1, <2>1, <2>2, <2>3, <2>4, <2>5, <2>6 DEF Reader
<1>2. CASE Sorter
  <2>1. CASE FillHeap
    <3>1. in_active[src] /\ src \in Bufs
      BY <2>1 DEF FillHeap, SorterInv, TypeOK
    <3>2. UNCHANGED <<in_active, loaded, rpc, input>>
      BY <2>1 DEF FillHeap
    <3>3. CASE consumed' = consumed
      BY <3>2, <3>3 DEF InputInv, HasNext
    <3>4. CASE HasNext(src) /\ consumed' = [consumed EXCEPT ![src] = @ + 1]
      BY <3>1, <3>2, <3>4, OneRead
    <3> QED
      BY <2>1, <3>3, <3>4 DEF FillHeap
  <2>2. CASE Absorb
    <3>1. in_active[src] /\ src \in Bufs
      BY <2>2 DEF Absorb, SorterInv, TypeOK
    <3>2. UNCHANGED <<in_active, loaded, rpc, input>>
      BY <2>2 DEF Absorb
    <3>3. CASE consumed' = consumed
      BY <3>2, <3>3 DEF InputInv, HasNext
    <3>4. CASE HasNext(src) /\ consumed' = [consumed EXCEPT ![src] = @ + 1]
      BY <3>1, <3>2, <3>4, OneRead
    <3> QED
      BY <2>2, <3>3, <3>4 DEF Absorb
  <2>3. CASE ReleaseInput
    BY <2>3 DEF ReleaseInput, InputInv, SorterInv, HasNext, TypeOK
  <2>4. CASE ~(FillHeap \/ Absorb \/ ReleaseInput)
    <3>1. UNCHANGED <<inVars, readerVars>>
      BY <1>2, <2>4 DEF Sorter, Scan0, Scan1, CheckDone, SetDoneSorting,
           AwaitOutput, Emit, PublishOutput, FindRefill, PublishRest
    <3> QED
      BY <3>1 DEF InputInv, HasNext
  <2> QED
    BY <2>1, <2>2, <2>3, <2>4
<1>3. CASE Writer \/ UNCHANGED vars
  BY <1>3, WriterFrame DEF InputInv, HasNext
<1> QED
  BY <1>1, <1>2, <1>3 DEF Next, Joined

----------------------------------------------------------------------------
(* The sorter *)

(* reader never touches an active input buffer. *)
LEMMA ReaderKeepsActive ==
    ASSUME TypeOK, ReaderInv, Reader, NEW b \in Bufs, in_active[b]
    PROVE  in_active'[b] /\ loaded'[b] = loaded[b] /\ consumed'[b] = consumed[b]
<1> USE DEF inVars
<1>1. CASE LoadChunk
  <2>1. ~in_active[input] /\ input \in Bufs
    BY <1>1 DEF LoadChunk, ReaderInv, TypeOK
  <2> QED
    BY <1>1, <2>1 DEF LoadChunk, TypeOK
<1>2. CASE PublishInput
  BY <1>2 DEF PublishInput, TypeOK
<1>3. CASE ~(LoadChunk \/ PublishInput)
  BY <1>3 DEF Reader, Fetch, FindFree, FinishReading
<1> QED
  BY <1>1, <1>2, <1>3

(* writer never activates an output buffer, and only adds to none. *)
LEMMA WriterOnlyClears ==
    ASSUME TypeOK, Writer, NEW b \in Bufs
    PROVE  /\ out_active'[b] => out_active[b]
           /\ out_buffer'[b] \in {out_buffer[b], << >>}
<1> USE DEF outVars, Bufs
<1>1. CASE ReleaseOutput \/ DrainRelease
  BY <1>1 DEF ReleaseOutput, DrainRelease, TypeOK
<1>2. CASE Flush
  BY <1>2 DEF Flush, FlushDirect, TypeOK
<1>3. CASE DrainRest
  BY <1>3 DEF DrainRest, FlushDirect, TypeOK
<1>4. CASE ~(ReleaseOutput \/ DrainRelease \/ Flush \/ DrainRest)
  BY <1>4 DEF Writer, WriterLoop, AwaitBatch, AwaitDone, Recheck
<1> QED
  BY <1>1, <1>2, <1>3, <1>4

(* When the heap takes no more, the chunk it is filled from is used up. *)
LEMMA ChunkFitsHeap ==
    ASSUME TypeOK, HeapInv, spc = "fill", HasNext(src)
    PROVE  Cardinality(heap) < OUT_SWITCH_THRESHOLD
<1>1. /\ src \in Bufs /\ Cardinality(heap) <= consumed[src]
      /\ Cardinality(heap) \in Nat
  BY FS_CardinalityType DEF TypeOK, HeapInv
<1>2. /\ consumed[src] \in Nat /\ loaded[src] \in 1 .. Len(Tasks)
      /\ consumed[src] < Tasks[loaded[src]].count
  BY <1>1, NextIsElement
<1>3. Tasks[loaded[src]].count \in Nat /\ Tasks[loaded[src]].count <= CHUNK
  BY <1>2, TaskFacts
<1> QED
  BY <1>1, <1>2, <1>3, SizesAssumption

LEMMA SorterInvStep ==
    ASSUME TypeOK, ReaderInv, SorterInv, HeapInv, [Next]_vars
    PROVE  SorterInv'
<1> USE DEF inVars, outVars, readerVars, sorterVars, writerVars
<1>1. CASE Reader
  <2>1. src \in Bufs /\ UNCHANGED <<outVars, sorterVars>>
    BY <1>1, ReaderFrame DEF TypeOK
  <2>2. in_active[src] => /\ in_active'[src]
                          /\ loaded'[src] = loaded[src]
                          /\ consumed'[src] = consumed[src]
    BY <1>1, <2>1, ReaderKeepsActive
  <2> QED
    BY <2>1, <2>2 DEF SorterInv, HasNext
<1>2. CASE Sorter
  <2>1. CASE Scan0
    BY <2>1 DEF Scan0, SorterInv, HasNext
  <2>2. CASE Scan1
    BY <2>2 DEF Scan1, SorterInv, HasNext
  <2>3. CASE CheckDone
    <3>1. frozen = {}
      BY <2>3 DEF CheckDone, SorterInv
    <3> QED
      BY <2>3, <3>1 DEF CheckDone, SorterInv
  <2>4. CASE SetDoneSorting
    BY <2>4 DEF SetDoneSorting, SorterInv
  <2>5. CASE FillHeap
    BY <2>5, ChunkFitsHeap DEF FillHeap, SorterInv, HasNext
  <2>6. CASE ReleaseInput
    BY <2>6 DEF ReleaseInput, LoopHead, SorterInv
  <2>7. CASE AwaitOutput
    BY <2>7 DEF AwaitOutput, SorterInv
  <2>8. CASE Emit
    <3>1. /\ spc = "emit" /\ spc' \in {"emit", "publish", "refill0", "scan0"}
          /\ spc' = "scan0" => heap' = {}
          /\ UNCHANGED <<out_active, cur_out, done_sorting>>
      BY <2>8 DEF Emit, AfterOutput, LoopHead
    <3> QED
      BY <3>1 DEF SorterInv
  <2>9. CASE PublishOutput
    <3>1. /\ spc = "publish" /\ spc' \in {"refill0", "scan0", "await_out"}
          /\ spc' = "scan0" => heap' = {}
          /\ UNCHANGED done_sorting
      BY <2>9 DEF PublishOutput, AfterOutput, LoopHead
    <3> QED
      BY <3>1 DEF SorterInv
  <2>10. CASE FindRefill(0, "refill0", "refill1")
    BY <2>10 DEF FindRefill, SorterInv
  <2>11. CASE FindRefill(1, "refill1", LoopHead(heap))
    BY <2>11 DEF FindRefill, LoopHead, SorterInv
  <2>12. CASE Absorb
    <3>1. /\ spc = "absorb" /\ spc' \in {"absorb", "scan0", "await_out"}
          /\ spc' = "scan0" => heap' = {}
          /\ UNCHANGED <<in_active, src, done_sorting>>
      BY <2>12 DEF Absorb, LoopHead
    <3> QED
      BY <3>1 DEF SorterInv
  <2>13. CASE PublishRest
    BY <2>13 DEF PublishRest, SorterInv
  <2> QED
    BY <1>2, <2>1, <2>2, <2>3, <2>4, <2>5, <2>6, <2>7, <2>8, <2>9, <2>10,
       <2>11, <2>12, <2>13 DEF Sorter
<1>3. CASE Writer
  <2>1. UNCHANGED <<inVars, sorterVars, done_sorting>> /\ cur_out \in Bufs
    BY <1>3, WriterFrame DEF TypeOK
  <2>2. out_active'[cur_out] => out_active[cur_out]
    BY <1>3, <2>1, WriterOnlyClears
  <2> QED
    BY <2>1, <2>2 DEF SorterInv, HasNext
<1>4. CASE UNCHANGED vars
  BY <1>4 DEF vars, SorterInv, HasNext
<1> QED
  BY <1>1, <1>2, <1>3, <1>4 DEF Next, Joined

(* In sorter's search for an input, frozen stays empty. *)
LEMMA HeapInvStep ==
    ASSUME TypeOK, ReaderInv, SorterInv, HeapInv, [Next]_vars
    PROVE  HeapInv'
<1> USE DEF inVars, outVars, readerVars, sorterVars, writerVars
<1>1. CASE Reader
  <2>1. src \in Bufs /\ UNCHANGED sorterVars
    BY <1>1, ReaderFrame DEF TypeOK
  <2>2. in_active[src] => consumed'[src] = consumed[src]
    BY <1>1, <2>1, ReaderKeepsActive
  <2> QED
    BY <2>1, <2>2 DEF SorterInv, HeapInv
<1>2. CASE Sorter
  <2> USE DEF HeapInv
  <2>1. CASE Scan0
    <3>1. heap = {} /\ 0 \in Bufs /\ consumed[0] \in Nat
      BY <2>1 DEF Scan0, SorterInv, TypeOK, Bufs
    <3> QED
      BY <2>1, <3>1, FS_EmptySet DEF Scan0
  <2>2. CASE Scan1
    <3>1. heap = {} /\ 1 \in Bufs /\ consumed[1] \in Nat
      BY <2>2 DEF Scan1, SorterInv, TypeOK, Bufs
    <3> QED
      BY <2>2, <3>1, FS_EmptySet DEF Scan1
  <2>3. CASE CheckDone \/ SetDoneSorting \/ AwaitOutput \/ PublishRest
    BY <2>3 DEF CheckDone, SetDoneSorting, AwaitOutput, PublishRest
  <2>4. CASE FillHeap
    <3>1. CASE HasNext(src) /\ Cardinality(heap) < OUT_SWITCH_THRESHOLD
      <4> DEFINE e == ElementAt(src, consumed[src])
      <4>1. src \in Bufs /\ consumed[src] \in Nat
        BY DEF TypeOK
      <4>2. /\ heap' = heap \cup {e} /\ spc = "fill" /\ spc' = "fill"
            /\ UNCHANGED <<frozen, src>> /\ consumed'[src] = consumed[src] + 1
        BY <2>4, <3>1, <4>1 DEF FillHeap, TypeOK
      <4>3. /\ IsFiniteSet(heap')
            /\ Cardinality(heap) \in Nat /\ Cardinality(heap') \in Nat
            /\ Cardinality(heap') <= Cardinality(heap) + 1
        BY <4>2, AddOne
      <4> QED
        BY <4>1, <4>2, <4>3
    <3>2. CASE ~(HasNext(src) /\ Cardinality(heap) < OUT_SWITCH_THRESHOLD)
      BY <2>4, <3>2 DEF FillHeap
    <3> QED
      BY <3>1, <3>2
  <2>5. CASE ReleaseInput
    BY <2>5 DEF ReleaseInput, LoopHead
  <2>6. CASE Emit
    <3>1. PICK e \in heap :
            \/ heap' = heap \ {e} /\ UNCHANGED frozen /\ spc' \in {"emit", "publish"}
            \/ /\ heap' = frozen /\ frozen' = {} /\ spc' = "refill0"
            \/ /\ heap' = {} /\ UNCHANGED frozen /\ spc' = "scan0"
      BY <2>6 DEF Emit, AfterOutput, LoopHead
    <3>2. IsFiniteSet(heap') /\ IsFiniteSet(frozen')
      BY <3>1, FS_RemoveElement, FS_EmptySet
    <3> QED
      BY <3>1, <3>2
  <2>7. CASE PublishOutput
    BY <2>7, FS_EmptySet DEF PublishOutput, AfterOutput, LoopHead
  <2>8. CASE FindRefill(0, "refill0", "refill1")
    <3>1. frozen = {} /\ 0 \in Bufs /\ consumed[0] \in Nat
      BY <2>8 DEF FindRefill, TypeOK, Bufs
    <3> QED
      BY <2>8, <3>1, FS_EmptySet DEF FindRefill
  <2>9. CASE FindRefill(1, "refill1", LoopHead(heap))
    <3>1. frozen = {} /\ 1 \in Bufs /\ consumed[1] \in Nat
      BY <2>9 DEF FindRefill, TypeOK, Bufs
    <3> QED
      BY <2>9, <3>1, FS_EmptySet DEF FindRefill, LoopHead
  <2>10. CASE Absorb
    <3>1. CASE HasNext(src) /\ Cardinality(heap) < OUT_SWITCH_THRESHOLD
      <4> DEFINE e == ElementAt(src, consumed[src])
      <4>1. src \in Bufs /\ consumed[src] \in Nat
        BY DEF TypeOK
      <4>2. /\ heap' \in {heap, heap \cup {e}}
            /\ frozen' \in {frozen, frozen \cup {e}}
            /\ spc = "absorb" /\ spc' \in {"absorb", "scan0", "await_out"}
            /\ UNCHANGED src /\ consumed'[src] = consumed[src] + 1
        BY <2>10, <3>1, <4>1 DEF Absorb, LoopHead, TypeOK
      <4> HIDE DEF e
      <4>3. IsFiniteSet(heap')
        <5>1. IsFiniteSet(heap) /\ IsFiniteSet(heap \cup {e})
          BY AddOne
        <5> QED
          BY <4>2, <5>1
      <4>4. /\ IsFiniteSet(frozen')
            /\ Cardinality(frozen) \in Nat /\ Cardinality(frozen') \in Nat
            /\ Cardinality(frozen') <= Cardinality(frozen) + 1
        <5>1. /\ IsFiniteSet(frozen) /\ IsFiniteSet(frozen \cup {e})
              /\ Cardinality(frozen) \in Nat /\ Cardinality(frozen \cup {e}) \in Nat
              /\ Cardinality(frozen \cup {e}) <= Cardinality(frozen) + 1
          BY AddOne
        <5>2. CASE frozen' = frozen
          BY <5>1, <5>2
        <5>3. CASE frozen' = frozen \cup {e}
          BY <5>1, <5>3
        <5> QED
          BY <4>2, <5>2, <5>3
      <4> QED
        BY <4>1, <4>2, <4>3, <4>4
    <3>2. CASE ~(HasNext(src) /\ Cardinality(heap) < OUT_SWITCH_THRESHOLD)
      BY <2>10, <3>2 DEF Absorb, LoopHead
    <3> QED
      BY <3>1, <3>2
  <2> QED
    BY <1>2, <2>1, <2>2, <2>3, <2>4, <2>5, <2>6, <2>7, <2>8, <2>9, <2>10 DEF Sorter
<1>3. CASE Writer \/ UNCHANGED vars
  BY <1>3, WriterFrame DEF HeapInv
<1> QED
  BY <1>1, <1>2, <1>3 DEF Next, Joined

----------------------------------------------------------------------------
(* The output side: sorter and writer hand buffers to each other *)

(* A batch has room for one more element, so add only appends it. *)
LEMMA EmitAdds ==
    ASSUME TypeOK, SorterInv, BatchInv, Emit
    PROVE  \E e \in heap :
             /\ e \in Elements /\ key[e] \in Keys
             /\ IsTop(e) /\ last_output' = key[e]
             /\ out_buffer' = [out_buffer EXCEPT
                                  ![cur_out] = Append(out_buffer[cur_out], e)]
             /\ Len(out_buffer[cur_out]) = cur_out_count
             /\ cur_out_count' = cur_out_count + 1
             /\ cur_out_count < OUT_SWITCH_THRESHOLD
             /\ UNCHANGED <<file, auto_appended>>
             /\ \/ /\ cur_out_count + 1 >= OUT_SWITCH_THRESHOLD \/ frozen_input
                   /\ spc' = "publish"
                   /\ heap' = heap \ {e} /\ frozen' = frozen
                \/ /\ ~(cur_out_count + 1 >= OUT_SWITCH_THRESHOLD) /\ ~frozen_input
                   /\ spc' \in {"emit", "refill0"}
                   /\ \/ /\ heap # {e} /\ heap' = heap \ {e} /\ frozen' = frozen
                         /\ spc' = "emit"
                      \/ heap = {e} /\ heap' = frozen /\ frozen' = {} /\ spc' = "refill0"
<1>1. /\ spc = "emit" /\ cur_out \in Bufs /\ ~out_active[cur_out] /\ ~done_sorting
      /\ cur_out_count \in Nat /\ cur_out_count < OUT_SWITCH_THRESHOLD
      /\ out_buffer[cur_out] \in Seq(Elements)
  BY DEF Emit, SorterInv, BatchInv, TypeOK
<1>2. Len(out_buffer[cur_out]) = cur_out_count
  BY <1>1 DEF BatchInv
<1>3. PICK e \in heap :
        /\ IsTop(e) /\ last_output' = key[e]
        /\ Add(cur_out, e)
        /\ cur_out_count' = cur_out_count + 1
        /\ \/ /\ cur_out_count + 1 >= OUT_SWITCH_THRESHOLD \/ frozen_input
              /\ spc' = "publish"
              /\ heap' = heap \ {e} /\ frozen' = frozen
           \/ /\ ~(cur_out_count + 1 >= OUT_SWITCH_THRESHOLD) /\ ~frozen_input
              /\ spc' \in {"emit", "refill0"}
              /\ \/ /\ heap # {e} /\ heap' = heap \ {e} /\ frozen' = frozen
                    /\ spc' = "emit"
                 \/ heap = {e} /\ heap' = frozen /\ frozen' = {} /\ spc' = "refill0"
  BY <1>1 DEF Emit, AfterOutput
<1>4. e \in Elements /\ key[e] \in Keys
  BY DEF TypeOK
<1>5. Len(Append(out_buffer[cur_out], e)) = cur_out_count + 1
  BY <1>1, <1>2, <1>4
<1>6. ~(Len(Append(out_buffer[cur_out], e)) >= BUFFER_SIZE)
  BY <1>1, <1>5, SizesAssumption
<1>7. /\ out_buffer' = [out_buffer EXCEPT ![cur_out] = Append(out_buffer[cur_out], e)]
      /\ file' = file /\ auto_appended' = auto_appended
  BY <1>3, <1>6 DEF Add, TypeOK
<1> QED
  BY <1>1, <1>2, <1>3, <1>4, <1>7

LEMMA BatchInvStep ==
    ASSUME TypeOK, SorterInv, WriterInv, BatchInv, [Next]_vars
    PROVE  BatchInv'
<1> USE DEF inVars, outVars, readerVars, sorterVars, writerVars
<1>1. CASE Reader \/ UNCHANGED vars
  BY <1>1, ReaderFrame DEF vars, BatchInv
<1>2. CASE Sorter
  <2>1. CASE Emit
    <3>1. /\ cur_out \in Bufs /\ ~out_active[cur_out] /\ ~done_sorting
          /\ cur_out_count \in Nat /\ out_buffer \in [Bufs -> Seq(Elements)]
          /\ UNCHANGED <<out_active, cur_out, done_sorting>>
      BY <2>1 DEF Emit, SorterInv, TypeOK
    <3>2. PICK e \in heap :
            /\ e \in Elements
            /\ out_buffer' = [out_buffer EXCEPT
                                 ![cur_out] = Append(out_buffer[cur_out], e)]
            /\ Len(out_buffer[cur_out]) = cur_out_count
            /\ cur_out_count' = cur_out_count + 1
            /\ cur_out_count < OUT_SWITCH_THRESHOLD
            /\ \/ spc' = "publish"
               \/ ~(cur_out_count + 1 >= OUT_SWITCH_THRESHOLD)
      BY <2>1, EmitAdds
    <3>3. Len(Append(out_buffer[cur_out], e)) = cur_out_count + 1
      BY <3>1, <3>2
    <3>4. Len(out_buffer'[cur_out]) = cur_out_count'
      BY <3>1, <3>2, <3>3
    <3>5. out_buffer'[Other(cur_out)] = out_buffer[Other(cur_out)]
      BY <3>1, <3>2, OtherBuf
    <3>6. cur_out_count' <= OUT_SWITCH_THRESHOLD
      BY <3>1, <3>2, SizesAssumption
    <3>7. spc' # "publish" => cur_out_count' < OUT_SWITCH_THRESHOLD
      BY <3>1, <3>2, SizesAssumption
    <3> QED
      BY <3>1, <3>4, <3>5, <3>6, <3>7 DEF BatchInv
  <2>2. CASE PublishOutput
    <3>1. /\ cur_out \in Bufs /\ ~out_active[cur_out] /\ ~done_sorting
          /\ out_active' = [out_active EXCEPT ![cur_out] = TRUE]
          /\ cur_out' = Other(cur_out) /\ cur_out_count' = 0
          /\ UNCHANGED <<out_buffer, done_sorting>>
      BY <2>2 DEF PublishOutput, SorterInv, TypeOK
    <3>2. /\ Other(cur_out) # cur_out /\ Other(cur_out) \in Bufs
          /\ Other(cur_out') = cur_out
      BY <3>1, OtherBuf
    <3>3. out_active'[cur_out] /\ out_active'[cur_out'] = out_active[Other(cur_out)]
      BY <3>1, <3>2 DEF TypeOK
    <3>4. ~out_active[Other(cur_out)] => out_buffer[Other(cur_out)] = << >>
      BY <3>1 DEF BatchInv
    <3> QED
      BY <3>1, <3>2, <3>3, <3>4, SizesAssumption DEF BatchInv
  <2>3. CASE PublishRest
    BY <2>3 DEF PublishRest, SorterInv, BatchInv
  <2>4. CASE SetDoneSorting
    BY <2>4 DEF SetDoneSorting, BatchInv
  <2>5. CASE ~(Emit \/ PublishOutput \/ PublishRest \/ SetDoneSorting)
    <3>1. UNCHANGED <<outVars, cur_out, cur_out_count>>
      BY <1>2, <2>5 DEF Sorter, Scan0, Scan1, CheckDone, FillHeap, ReleaseInput,
           AwaitOutput, FindRefill, Absorb
    <3>2. spc # "publish"
      BY <1>2, <2>5 DEF Sorter, Scan0, Scan1, CheckDone, FillHeap, ReleaseInput,
           AwaitOutput, FindRefill, Absorb
    <3> QED
      BY <3>1, <3>2 DEF BatchInv
  <2> QED
    BY <1>2, <2>1, <2>2, <2>3, <2>4, <2>5
<1>3. CASE Writer
  <2>1. UNCHANGED <<sorterVars, done_sorting>> /\ cur_out \in Bufs
    BY <1>3, WriterFrame DEF TypeOK
  <2>2. CASE done_sorting
    BY <2>1, <2>2 DEF BatchInv
  <2>3. CASE ~done_sorting
    <3>1. ~(DrainRest \/ DrainRelease)
      BY <2>3 DEF WriterInv, DrainRest, DrainRelease
    <3>2. CASE Flush
      <4>1. /\ out_active[use_buffer] /\ UNCHANGED out_active
            /\ \A b \in Bufs \ {use_buffer} : out_buffer'[b] = out_buffer[b]
        BY <3>2 DEF Flush, FlushDirect, WriterInv, TypeOK
      <4> QED
        BY <2>1, <4>1, OtherBuf DEF BatchInv
    <3>3. CASE ReleaseOutput
      <4>1. /\ out_active[use_buffer] /\ out_buffer[use_buffer] = << >>
            /\ \A b \in Bufs \ {use_buffer} : out_active'[b] = out_active[b]
            /\ UNCHANGED out_buffer
        BY <3>3 DEF ReleaseOutput, WriterInv, TypeOK
      <4> QED
        BY <2>1, <4>1, OtherBuf DEF BatchInv
    <3>4. CASE ~(Flush \/ ReleaseOutput)
      <4>1. UNCHANGED outVars
        BY <1>3, <3>1, <3>4 DEF Writer, WriterLoop, AwaitBatch, AwaitDone, Recheck
      <4> QED
        BY <2>1, <4>1 DEF BatchInv
    <3> QED
      BY <3>2, <3>3, <3>4
  <2> QED
    BY <2>2, <2>3
<1> QED
  BY <1>1, <1>2, <1>3 DEF Next, Joined

(* sorter only activates output buffers, and adds only to one that writer does *)
(* not own.                                                                    *)
LEMMA SorterKeepsBatches ==
    ASSUME TypeOK, SorterInv, BatchInv, Sorter, NEW b \in Bufs
    PROVE  /\ out_active[b] => out_active'[b]
           /\ out_active[b] \/ done_sorting => out_buffer'[b] = out_buffer[b]
           /\ done_sorting => done_sorting'
           /\ UNCHANGED writerVars
<1> USE DEF inVars, outVars, readerVars, sorterVars, writerVars
<1>1. CASE Emit
  <2>1. cur_out \in Bufs /\ ~out_active[cur_out] /\ ~done_sorting
    BY <1>1 DEF Emit, SorterInv, TypeOK
  <2>2. PICK e \in heap :
          out_buffer' = [out_buffer EXCEPT ![cur_out] = Append(out_buffer[cur_out], e)]
    BY <1>1, EmitAdds
  <2>3. UNCHANGED <<out_active, done_sorting, writerVars>>
    BY <1>1 DEF Emit
  <2> QED
    BY <2>1, <2>2, <2>3 DEF TypeOK
<1>2. CASE PublishOutput
  BY <1>2 DEF PublishOutput, TypeOK
<1>3. CASE PublishRest
  BY <1>3 DEF PublishRest, TypeOK
<1>4. CASE ~(Emit \/ PublishOutput \/ PublishRest)
  BY <1>4 DEF Sorter, Scan0, Scan1, CheckDone, SetDoneSorting, FillHeap,
              ReleaseInput, AwaitOutput, FindRefill, Absorb
<1> QED
  BY <1>1, <1>2, <1>3, <1>4

LEMMA WriterInvStep ==
    ASSUME TypeOK, SorterInv, BatchInv, WriterInv, [Next]_vars
    PROVE  WriterInv'
<1> USE DEF inVars, outVars, readerVars, sorterVars, writerVars
<1>1. CASE Reader \/ UNCHANGED vars
  BY <1>1, ReaderFrame DEF vars, WriterInv
<1>2. CASE Sorter
  <2>1. use_buffer \in Bufs /\ drained \in Bufs /\ 0 \in Bufs
    BY DEF TypeOK, Bufs
  <2>2. /\ UNCHANGED writerVars
        /\ done_sorting => done_sorting'
        /\ out_active[use_buffer] => /\ out_active'[use_buffer]
                                     /\ out_buffer'[use_buffer] = out_buffer[use_buffer]
    BY <1>2, <2>1, SorterKeepsBatches
  <2>3. done_sorting => \A b \in Bufs : out_buffer'[b] = out_buffer[b]
    BY <1>2, SorterKeepsBatches
  <2> QED
    BY <2>1, <2>2, <2>3 DEF WriterInv
<1>3. CASE Writer
  <2>1. CASE WriterLoop
    <3>1. wpc' \in {"drain", "wait"} /\ (wpc' = "drain" => done_sorting)
      BY <2>1 DEF WriterLoop
    <3>2. wpc = "loop" /\ UNCHANGED <<outVars, use_buffer, drained>>
      BY <2>1 DEF WriterLoop
    <3> QED
      BY <3>1, <3>2 DEF WriterInv
  <2>2. CASE AwaitBatch
    BY <2>2 DEF AwaitBatch, WriterInv
  <2>3. CASE AwaitDone
    BY <2>3 DEF AwaitDone, WriterInv
  <2>4. CASE Recheck
    BY <2>4 DEF Recheck, WriterInv
  <2>5. CASE Flush
    BY <2>5 DEF Flush, FlushDirect, WriterInv, TypeOK
  <2>6. CASE ReleaseOutput
    BY <2>6 DEF ReleaseOutput, WriterInv
  <2>7. CASE DrainRest
    BY <2>7 DEF DrainRest, FlushDirect, HasRest, NextDrained, WriterInv, TypeOK, Bufs
  <2>8. CASE DrainRelease
    BY <2>8 DEF DrainRelease, NextDrained, WriterInv, TypeOK, Bufs
  <2> QED
    BY <1>3, <2>1, <2>2, <2>3, <2>4, <2>5, <2>6, <2>7, <2>8 DEF Writer
<1> QED
  BY <1>1, <1>2, <1>3 DEF Next, Joined

(* In the absorbing loop the frozen area cannot outgrow the heap's limit. *)
LEMMA ChunkFitsFrozen ==
    ASSUME TypeOK, HeapInv, spc = "absorb", HasNext(src), NEW x
    PROVE  /\ Cardinality(frozen \cup {x}) <= OUT_SWITCH_THRESHOLD
           /\ ~FrozenIsOverfull(Cardinality(frozen \cup {x}))
<1>1. src \in Bufs /\ Cardinality(frozen) <= consumed[src]
  BY DEF TypeOK, HeapInv
<1>2. /\ consumed[src] \in Nat /\ loaded[src] \in 1 .. Len(Tasks)
      /\ consumed[src] < Tasks[loaded[src]].count
  BY <1>1, NextIsElement
<1>3. Tasks[loaded[src]].count \in Nat /\ Tasks[loaded[src]].count <= CHUNK
  BY <1>2, TaskFacts
<1>4. /\ Cardinality(frozen) \in Nat /\ Cardinality(frozen \cup {x}) \in Nat
      /\ Cardinality(frozen \cup {x}) <= Cardinality(frozen) + 1
  BY AddOne DEF HeapInv
<1> QED
  BY <1>1, <1>2, <1>3, <1>4, SizesAssumption, SMTT(60) DEF FrozenIsOverfull

LEMMA WithinLimitsStep ==
    ASSUME TypeOK, SorterInv, HeapInv, BatchInv, WithinLimits, [Next]_vars
    PROVE  WithinLimits'
<1> USE DEF inVars, outVars, readerVars, sorterVars, writerVars
<1>1. CASE Reader \/ UNCHANGED vars
  BY <1>1, ReaderFrame DEF vars, WithinLimits
<1>2. CASE Sorter
  <2>0. /\ Cardinality({}) = 0
        /\ OUT_SWITCH_THRESHOLD \in Nat
        /\ Cardinality(heap) \in Nat /\ Cardinality(frozen) \in Nat
    BY FS_EmptySet, FS_CardinalityType, SizesAssumption DEF HeapInv
  <2>1. CASE Emit
    <3>1. PICK e \in heap :
            /\ e \in Elements
            /\ out_buffer' = [out_buffer EXCEPT
                                 ![cur_out] = Append(out_buffer[cur_out], e)]
            /\ Len(out_buffer[cur_out]) = cur_out_count
            /\ cur_out_count < OUT_SWITCH_THRESHOLD
            /\ UNCHANGED <<file, auto_appended>>
            /\ \/ heap' = heap \ {e} /\ frozen' = frozen
               \/ heap' = frozen /\ frozen' = {}
      BY <2>1, EmitAdds
    <3>2. cur_out \in Bufs /\ cur_out_count \in Nat /\ UNCHANGED frozen_input
          /\ out_buffer \in [Bufs -> Seq(Elements)]
      BY <2>1 DEF Emit, TypeOK
    <3>3. Cardinality(heap \ {e}) = Cardinality(heap) - 1
      BY FS_RemoveElement DEF HeapInv
    <3>4. /\ Cardinality(heap') <= OUT_SWITCH_THRESHOLD
          /\ Cardinality(frozen') <= OUT_SWITCH_THRESHOLD
      <4>1. CASE heap' = heap \ {e} /\ frozen' = frozen
        BY <2>0, <3>3, <4>1 DEF WithinLimits
      <4>2. CASE heap' = frozen /\ frozen' = {}
        BY <2>0, <4>2 DEF WithinLimits
      <4> QED
        BY <3>1, <4>1, <4>2
    <3>5. Len(Append(out_buffer[cur_out], e)) <= OUT_SWITCH_THRESHOLD
      BY <2>0, <3>1, <3>2
    <3>6. \A b \in Bufs : Len(out_buffer'[b]) <= OUT_SWITCH_THRESHOLD
      BY <3>1, <3>2, <3>5 DEF WithinLimits
    <3> QED
      BY <3>1, <3>2, <3>4, <3>6 DEF WithinLimits
  <2>2. CASE Absorb
    <3>1. UNCHANGED outVars /\ ~frozen_input /\ spc = "absorb"
      BY <2>2 DEF Absorb, WithinLimits
    <3>2. CASE HasNext(src) /\ Cardinality(heap) < OUT_SWITCH_THRESHOLD
      <4> DEFINE e == ElementAt(src, consumed[src])
      <4>1. /\ Cardinality(frozen \cup {e}) <= OUT_SWITCH_THRESHOLD
            /\ ~FrozenIsOverfull(Cardinality(frozen \cup {e}))
        BY <3>1, <3>2, ChunkFitsFrozen
      <4>2. Cardinality(heap \cup {e}) <= OUT_SWITCH_THRESHOLD
        <5>1. /\ Cardinality(heap \cup {e}) \in Nat
              /\ Cardinality(heap \cup {e}) <= Cardinality(heap) + 1
          BY AddOne DEF HeapInv
        <5> QED
          BY <2>0, <3>2, <5>1
      <4>3. \/ heap' = heap \cup {e} /\ frozen' = frozen /\ ~frozen_input'
            \/ heap' = heap /\ frozen' = frozen \cup {e} /\ ~frozen_input'
        BY <2>2, <3>1, <3>2, <4>1 DEF Absorb
      <4> HIDE DEF e
      <4> QED
        BY <3>1, <4>1, <4>2, <4>3 DEF WithinLimits
    <3>3. CASE ~(HasNext(src) /\ Cardinality(heap) < OUT_SWITCH_THRESHOLD)
      BY <2>2, <3>1, <3>3 DEF Absorb, WithinLimits
    <3> QED
      BY <3>2, <3>3
  <2>3. CASE FillHeap
    <3>1. UNCHANGED <<outVars, frozen, frozen_input>>
      BY <2>3 DEF FillHeap
    <3>2. CASE HasNext(src) /\ Cardinality(heap) < OUT_SWITCH_THRESHOLD
      <4> DEFINE e == ElementAt(src, consumed[src])
      <4>1. heap' = heap \cup {e}
        BY <2>3, <3>2 DEF FillHeap
      <4>2. /\ Cardinality(heap \cup {e}) \in Nat
            /\ Cardinality(heap \cup {e}) <= Cardinality(heap) + 1
        BY AddOne DEF HeapInv
      <4> HIDE DEF e
      <4>3. Cardinality(heap') <= OUT_SWITCH_THRESHOLD
        BY <2>0, <3>2, <4>1, <4>2
      <4> QED
        BY <3>1, <4>3 DEF WithinLimits
    <3>3. CASE ~(HasNext(src) /\ Cardinality(heap) < OUT_SWITCH_THRESHOLD)
      BY <2>3, <3>1, <3>3 DEF FillHeap, WithinLimits
    <3> QED
      BY <3>2, <3>3
  <2>4. CASE Scan1
    <3>1. /\ UNCHANGED <<frozen_input, out_buffer, auto_appended>>
          /\ \/ heap' = frozen /\ frozen' = {}
             \/ heap' = heap /\ frozen' = frozen
      BY <2>4 DEF Scan1
    <3>2. CASE heap' = frozen /\ frozen' = {}
      BY <2>0, <3>1, <3>2 DEF WithinLimits
    <3>3. CASE heap' = heap /\ frozen' = frozen
      BY <3>1, <3>3 DEF WithinLimits
    <3> QED
      BY <3>1, <3>2, <3>3
  <2>5. CASE PublishOutput
    BY <2>0, <2>5 DEF PublishOutput, AfterOutput, WithinLimits
  <2>6. CASE ~(Emit \/ Absorb \/ FillHeap \/ Scan1 \/ PublishOutput)
    <3>1. UNCHANGED <<heap, frozen, frozen_input, out_buffer, auto_appended>>
      BY <1>2, <2>6 DEF Sorter, Scan0, CheckDone, SetDoneSorting, ReleaseInput,
           AwaitOutput, FindRefill, PublishRest
    <3> QED
      BY <3>1 DEF WithinLimits
  <2> QED
    BY <2>1, <2>2, <2>3, <2>4, <2>5, <2>6
<1>3. CASE Writer
  <2>1. UNCHANGED <<sorterVars, auto_appended>>
    BY <1>3, WriterFrame
  <2>2. \A b \in Bufs : out_buffer'[b] \in {out_buffer[b], << >>}
    BY <1>3, WriterOnlyClears
  <2>3. Len(<< >>) <= OUT_SWITCH_THRESHOLD
    BY SizesAssumption
  <2> QED
    BY <2>1, <2>2, <2>3 DEF WithinLimits
<1> QED
  BY <1>1, <1>2, <1>3 DEF Next, Joined

----------------------------------------------------------------------------
(* The invariant and what follows from it *)

LEMMA InitIInv == Init => TypeOK /\ ReaderInv /\ InputInv /\ SorterInv
                          /\ WriterInv /\ HeapInv /\ BatchInv /\ WithinLimits
<1> SUFFICES ASSUME Init
             PROVE  TypeOK /\ ReaderInv /\ InputInv /\ SorterInv
                    /\ WriterInv /\ HeapInv /\ BatchInv /\ WithinLimits
  OBVIOUS
<1>1. TypeOK
  <2>1. /\ 0 \in 0 .. Len(Tasks) /\ 0 \in 0 .. Len(Tasks) + 1
        /\ 1 \in 1 .. Len(Tasks) + 2
    BY TaskFacts
  <2>2. /\ [b \in Bufs |-> FALSE] \in [Bufs -> BOOLEAN]
        /\ [b \in Bufs |-> 0] \in [Bufs -> 0 .. Len(Tasks)]
        /\ [b \in Bufs |-> 0] \in [Bufs -> Nat]
        /\ << >> \in Seq(Elements)
        /\ [b \in Bufs |-> << >>] \in [Bufs -> Seq(Elements)]
    BY <2>1
  <2>3. 0 \in Bufs /\ {} \in SUBSET Elements
    BY DEF Bufs
  <2>4. rpc \in ReaderPCs /\ spc \in SorterPCs /\ wpc \in WriterPCs
    BY DEF Init, ReaderPCs, SorterPCs, WriterPCs
  <2> QED
    BY <2>1, <2>2, <2>3, <2>4 DEF Init, TypeOK
<1>2. ReaderInv
  BY TaskFacts DEF Init, ReaderInv
<1>3. InputInv
  BY DEF Init, InputInv, HasNext
<1>4. SorterInv /\ WriterInv
  BY DEF Init, SorterInv, WriterInv
<1>5. HeapInv
  BY FS_EmptySet DEF Init, HeapInv
<1>6. BatchInv
  <2>1. Other(0) \in Bufs /\ 0 \in Bufs
    BY DEF Other, Bufs
  <2> QED
    BY <2>1, SizesAssumption DEF Init, BatchInv
<1>7. WithinLimits
  BY FS_EmptySet, SizesAssumption DEF Init, WithinLimits
<1> QED
  BY <1>1, <1>2, <1>3, <1>4, <1>5, <1>6, <1>7

(* Everything but the whereabouts of the elements. *)
ControlInv == /\ TypeOK
              /\ ReaderInv /\ InputInv /\ SorterInv /\ WriterInv
              /\ HeapInv /\ BatchInv /\ WithinLimits

LEMMA TypeStep ==
    ASSUME TypeOK, ReaderInv, [Next]_vars
    PROVE  TypeOK'
<1>1. CASE UNCHANGED vars
  BY <1>1 DEF vars, inVars, outVars, readerVars, sorterVars, writerVars, TypeOK
<1> QED
  BY <1>1, ReaderTypes, SorterTypes, WriterTypes DEF Next, Joined

(* The control invariant holds throughout. *)
THEOREM ControlInvariant == Spec => []ControlInv
<1>1. Init => ControlInv
  BY InitIInv DEF ControlInv
<1>2. ControlInv /\ [Next]_vars => ControlInv'
  BY TypeStep, ReaderInvStep, InputInvStep, SorterInvStep, WriterInvStep,
     HeapInvStep, BatchInvStep, WithinLimitsStep DEF ControlInv
<1> QED
  BY <1>1, <1>2, PTL DEF Spec

(* Every variable keeps its type. *)
THEOREM TypeCorrect == Spec => []TypeOK
<1>1. ControlInv => TypeOK
  BY DEF ControlInv
<1> QED
  BY <1>1, ControlInvariant, PTL

(* reader and sorter are never inside the same input buffer. *)
THEOREM InputExclusion == Spec => []InputHandOff
<1>1. ControlInv => InputHandOff
  BY DEF ControlInv, InputHandOff, ReaderOwns, SorterReads, ReaderInv, SorterInv
<1> QED
  BY <1>1, ControlInvariant, PTL

(* sorter never adds to an output buffer that writer is taking a batch from. *)
THEOREM OutputExclusion == Spec => []OutputHandOff
<1>1. ControlInv => OutputHandOff
  BY DEF ControlInv, OutputHandOff, WriterOwns, SorterWrites, SorterInv, WriterInv
<1> QED
  BY <1>1, ControlInvariant, PTL

LEMMA NoUnread ==
    ASSUME TypeOK, NEW b \in Bufs, ~HasNext(b)
    PROVE  Unread(b) = {}
<1>1. loaded[b] \in 0 .. Len(Tasks) /\ consumed[b] \in Nat
  BY DEF TypeOK
<1>2. CASE loaded[b] = 0
  BY <1>2 DEF Unread
<1>3. CASE loaded[b] # 0
  <2>1. Tasks[loaded[b]].count \in Nat /\ consumed[b] >= Tasks[loaded[b]].count
    BY <1>1, <1>3, TaskFacts DEF HasNext
  <2>2. consumed[b] .. Tasks[loaded[b]].count - 1 = {}
    BY <1>1, <2>1
  <2> QED
    BY <1>3, <2>2 DEF Unread
<1> QED
  BY <1>2, <1>3

(* A buffer given back to reader holds no unread element. *)
THEOREM ReleasedEmpty == Spec => []ReleasedIsEmpty
<1>1. ControlInv => ReleasedIsEmpty
  BY NoUnread DEF ControlInv, InputInv, ReleasedIsEmpty
<1> QED
  BY <1>1, ControlInvariant, PTL

(* Heap, frozen area and output batches keep to OUT_SWITCH_THRESHOLD; reading  *)
(* is never frozen and add never appends by itself.                            *)
THEOREM LimitsKept == Spec => []WithinLimits
<1>1. ControlInv => WithinLimits
  BY DEF ControlInv
<1> QED
  BY <1>1, ControlInvariant, PTL

----------------------------------------------------------------------------
(* No element is dropped *)

LEMMA RangeAppend ==
    ASSUME NEW S, NEW s \in Seq(S), NEW e \in S
    PROVE  Range(Append(s, e)) = Range(s) \cup {e}
<1>1. /\ Len(s) \in Nat /\ DOMAIN s = 1 .. Len(s)
      /\ DOMAIN Append(s, e) = 1 .. Len(s) + 1
      /\ \A i \in 1 .. Len(s) : Append(s, e)[i] = s[i]
      /\ Append(s, e)[Len(s) + 1] = e
  OBVIOUS
<1>2. 1 .. Len(s) + 1 = (1 .. Len(s)) \cup {Len(s) + 1}
  BY <1>1
<1> QED
  BY <1>1, <1>2 DEF Range

LEMMA RangeConcat ==
    ASSUME NEW S, NEW s \in Seq(S), NEW t \in Seq(S)
    PROVE  Range(s \o t) = Range(s) \cup Range(t)
BY RangeConcatenation

(* A chunk just loaded is unread as a whole. *)
LEMMA FreshChunk ==
    ASSUME NEW i \in 1 .. Len(Tasks)
    PROVE  Chunk(Tasks[i]) =
             {<<Tasks[i].run_id, Tasks[i].offset + j>> : j \in 0 .. Tasks[i].count - 1}
<1>1. Tasks[i].offset \in Nat /\ Tasks[i].count \in Nat
  BY TaskFacts
<1>2. \A p \in Tasks[i].offset .. Tasks[i].offset + Tasks[i].count - 1 :
         \E j \in 0 .. Tasks[i].count - 1 : p = Tasks[i].offset + j
  <2> TAKE p \in Tasks[i].offset .. Tasks[i].offset + Tasks[i].count - 1
  <2>1. p - Tasks[i].offset \in 0 .. Tasks[i].count - 1
    BY <1>1
  <2>2. p = Tasks[i].offset + (p - Tasks[i].offset)
    BY <1>1
  <2> QED
    BY <2>1, <2>2
<1>3. \A j \in 0 .. Tasks[i].count - 1 :
         Tasks[i].offset + j \in
             Tasks[i].offset .. Tasks[i].offset + Tasks[i].count - 1
  BY <1>1
<1> QED
  BY <1>2, <1>3 DEF Chunk

(* Reading one element takes exactly that one out of the unread ones. *)
LEMMA UnreadAfterNext ==
    ASSUME TypeOK, NEW b \in Bufs, HasNext(b), loaded' = loaded,
           consumed' = [consumed EXCEPT ![b] = @ + 1]
    PROVE  /\ Unread(b) \subseteq Unread(b)' \cup {ElementAt(b, consumed[b])}
           /\ \A c \in Bufs \ {b} : Unread(c)' = Unread(c)
<1>1. /\ consumed[b] \in Nat /\ loaded[b] \in 1 .. Len(Tasks)
      /\ Tasks[loaded[b]].count \in Nat
      /\ consumed'[b] = consumed[b] + 1
      /\ \A c \in Bufs \ {b} : consumed'[c] = consumed[c]
  BY NextIsElement, TaskFacts DEF TypeOK
<1>2. \A i \in consumed[b] .. Tasks[loaded[b]].count - 1 :
         i = consumed[b] \/ i \in consumed'[b] .. Tasks[loaded[b]].count - 1
  BY <1>1
<1>3. Unread(b) \subseteq Unread(b)' \cup {ElementAt(b, consumed[b])}
  BY <1>1, <1>2 DEF Unread, ElementAt
<1>4. \A c \in Bufs \ {b} : Unread(c)' = Unread(c)
  BY <1>1 DEF Unread, ElementAt
<1> QED
  BY <1>3, <1>4

(* Where an element can be. *)
Held == Pending \cup InMemory \cup Range(file)

LEMMA HeldMembers ==
    /\ \A x : x \in Held <=> \/ x \in Pending \/ x \in heap \/ x \in frozen
                             \/ \E b \in Bufs : x \in Unread(b)
                             \/ \E b \in Bufs : x \in Range(out_buffer[b])
                             \/ x \in Range(file)
    /\ \A x : x \in Held' <=> \/ x \in Pending' \/ x \in heap' \/ x \in frozen'
                              \/ \E b \in Bufs : x \in Unread(b)'
                              \/ \E b \in Bufs : x \in Range(out_buffer'[b])
                              \/ x \in Range(file')
BY DEF Held, InMemory, Bufs

LEMMA ReaderDropsNothing ==
    ASSUME TypeOK, ReaderInv, InputInv, Reader, NEW x \in Held
    PROVE  x \in Held'
<1> USE DEF inVars, outVars, readerVars, sorterVars, writerVars
<1>1. UNCHANGED <<heap, frozen, out_buffer, file>>
  BY ReaderFrame
<1>2. CASE LoadChunk
  <2>1. /\ idx \in 1 .. Len(Tasks) /\ next_task = idx + 1
        /\ ~in_active[input] /\ input \in Bufs /\ rpc = "load"
    BY <1>2 DEF LoadChunk, ReaderInv, TypeOK
  <2>2. /\ loaded'[input] = idx /\ consumed'[input] = 0
        /\ \A b \in Bufs \ {input} :
             loaded'[b] = loaded[b] /\ consumed'[b] = consumed[b]
        /\ UNCHANGED <<next_task, idx, input>> /\ rpc' = "publish"
    BY <1>2, <2>1 DEF LoadChunk, TypeOK
  <2>3. \A b \in Bufs \ {input} : Unread(b)' = Unread(b)
    BY <2>2 DEF Unread, ElementAt
  <2>4. Unread(input) = {}
    BY <2>1, NoUnread DEF InputInv
  <2>5. Unread(input)' = Chunk(Tasks[idx])
    <3>1. idx # 0
      BY <2>1
    <3>2. Unread(input)' = {<<Tasks[idx].run_id, Tasks[idx].offset + j>> :
                               j \in 0 .. Tasks[idx].count - 1}
      BY <2>2, <3>1 DEF Unread, ElementAt
    <3> QED
      BY <2>1, <3>2, FreshChunk
  <2>6. NotLoaded \subseteq NotLoaded' \cup {idx}
    BY <2>1, <2>2, TaskFacts DEF NotLoaded, NextToLoad
  <2>7. Pending \subseteq Pending' \cup Chunk(Tasks[idx])
    BY <2>6 DEF Pending
  <2>8. CASE x \in Pending
    <3>1. x \in Pending' \/ x \in Unread(input)'
      BY <2>5, <2>7, <2>8
    <3>2. input' = input /\ input \in Bufs
      BY <2>1, <2>2
    <3> QED
      BY <3>1, <3>2, HeldMembers
  <2>9. CASE \E b \in Bufs : x \in Unread(b)
    BY <2>3, <2>4, <2>9, HeldMembers
  <2> QED
    BY <1>1, <2>8, <2>9, HeldMembers
<1>3. CASE ~LoadChunk
  <2>1. UNCHANGED <<loaded, consumed>>
    BY <1>3 DEF Reader, Fetch, FindFree, PublishInput, FinishReading
  <2>2. \A b \in Bufs : Unread(b)' = Unread(b)
    BY <2>1 DEF Unread, ElementAt
  <2>3. NotLoaded \subseteq NotLoaded'
    <3>1. CASE Fetch
      <4>1. /\ next_task \in Nat /\ rpc = "fetch" /\ rpc' \in {"finish", "find0"}
            /\ idx' = next_task
            /\ rpc' = "finish" => next_task > Len(Tasks)
        BY <3>1 DEF Fetch, TypeOK
      <4>2. NextToLoad = next_task
        BY <4>1 DEF NextToLoad
      <4>3. CASE rpc' = "finish"
        <5>1. \A i \in DOMAIN Tasks : ~(i >= next_task)
          BY <4>1, <4>3, TaskFacts
        <5> QED
          BY <4>2, <5>1 DEF NotLoaded
      <4>4. CASE rpc' = "find0"
        <5>1. NextToLoad' = next_task
          BY <4>1, <4>4 DEF NextToLoad
        <5> QED
          BY <4>2, <5>1 DEF NotLoaded
      <4> QED
        BY <4>1, <4>3, <4>4
    <3>2. CASE FindFree(0, "find0", "find1") \/ FindFree(1, "find1", "find0")
      BY <3>2 DEF FindFree, NotLoaded, NextToLoad
    <3>3. CASE PublishInput \/ FinishReading
      BY <3>3 DEF PublishInput, FinishReading, NotLoaded, NextToLoad
    <3> QED
      BY <1>3, <3>1, <3>2, <3>3 DEF Reader
  <2>4. Pending \subseteq Pending'
    BY <2>3 DEF Pending
  <2> QED
    BY <1>1, <2>2, <2>4, HeldMembers
<1> QED
  BY <1>2, <1>3

LEMMA SorterDropsNothing ==
    ASSUME TypeOK, SorterInv, BatchInv, WithinLimits, Sorter, NEW x \in Held
    PROVE  x \in Held'
<1> USE DEF inVars, outVars, readerVars, sorterVars, writerVars
<1>1. UNCHANGED <<readerVars, loaded>>
  BY SorterFrame
<1>2. Pending' = Pending
  BY <1>1 DEF Pending, NotLoaded, NextToLoad, NextToLoad
<1>3. CASE Emit
  <2>1. PICK e \in heap :
          /\ e \in Elements
          /\ out_buffer' = [out_buffer EXCEPT ![cur_out] = Append(out_buffer[cur_out], e)]
          /\ file' = file
          /\ \/ heap' = heap \ {e} /\ frozen' = frozen
             \/ heap = {e} /\ heap' = frozen /\ frozen' = {}
    BY <1>3, EmitAdds
  <2>2. /\ cur_out \in Bufs /\ UNCHANGED inVars
        /\ out_buffer \in [Bufs -> Seq(Elements)]
        /\ spc = "emit"
    BY <1>3 DEF Emit, TypeOK
  <2>3. heap \subseteq heap' \cup {e} /\ frozen \subseteq frozen' \cup heap'
    BY <2>1
  <2>4. Range(out_buffer'[cur_out]) = Range(out_buffer[cur_out]) \cup {e}
    <3>1. out_buffer[cur_out] \in Seq(Elements)
      BY <2>2
    <3> QED
      BY <2>1, <2>2, <3>1, RangeAppend
  <2>5. \A b \in Bufs \ {cur_out} : out_buffer'[b] = out_buffer[b]
    BY <2>1, <2>2
  <2>6. \A b \in Bufs : Unread(b)' = Unread(b)
    BY <2>2 DEF Unread, ElementAt
  <2> QED
    BY <1>2, <2>1, <2>2, <2>3, <2>4, <2>5, <2>6, HeldMembers
<1>4. CASE FillHeap \/ Absorb
  <2>1. UNCHANGED <<outVars, src>> /\ src \in Bufs
    BY <1>4 DEF FillHeap, Absorb, TypeOK
  <2>2. CASE consumed' = consumed
    <3>1. heap' = heap /\ frozen' = frozen
      <4>1. CASE HasNext(src) /\ Cardinality(heap) < OUT_SWITCH_THRESHOLD
        <5>1. consumed' = [consumed EXCEPT ![src] = @ + 1]
          BY <1>4, <4>1 DEF FillHeap, Absorb
        <5>2. consumed[src] + 1 = consumed[src] /\ consumed[src] \in Nat
          BY <2>1, <2>2, <5>1 DEF TypeOK
        <5> QED
          BY <5>2
      <4>2. CASE ~(HasNext(src) /\ Cardinality(heap) < OUT_SWITCH_THRESHOLD)
        BY <1>4, <4>2 DEF FillHeap, Absorb
      <4> QED
        BY <4>1, <4>2
    <3>2. \A b \in Bufs : Unread(b)' = Unread(b)
      BY <1>1, <2>2 DEF Unread, ElementAt
    <3> QED
      BY <1>2, <2>1, <3>1, <3>2, HeldMembers
  <2>3. CASE HasNext(src) /\ Cardinality(heap) < OUT_SWITCH_THRESHOLD
    <3> DEFINE e == ElementAt(src, consumed[src])
    <3>1. consumed' = [consumed EXCEPT ![src] = @ + 1]
      BY <1>4, <2>3 DEF FillHeap, Absorb
    <3>2. /\ Unread(src) \subseteq Unread(src)' \cup {e}
          /\ \A c \in Bufs \ {src} : Unread(c)' = Unread(c)
      <4>1. loaded' = loaded /\ src \in Bufs /\ HasNext(src)
        BY <1>1, <2>1, <2>3
      <4> QED
        BY <2>1, <3>1, <4>1, UnreadAfterNext
    <3>3. \/ heap' = heap \cup {e} /\ frozen' = frozen
          \/ heap' = heap /\ frozen' = frozen \cup {e}
      BY <1>4, <2>3 DEF FillHeap, Absorb
    <3> HIDE DEF e
    <3>4. CASE \E b \in Bufs : x \in Unread(b)
      BY <2>1, <3>2, <3>3, <3>4, HeldMembers
    <3>5. UNCHANGED <<out_buffer, file>>
      BY <2>1
    <3>6. CASE x \in Pending \/ x \in heap \/ x \in frozen
      BY <1>2, <3>3, <3>6, HeldMembers
    <3> QED
      BY <3>4, <3>5, <3>6, HeldMembers
  <2>4. CASE ~(HasNext(src) /\ Cardinality(heap) < OUT_SWITCH_THRESHOLD)
    BY <1>4, <2>2, <2>4 DEF FillHeap, Absorb
  <2> QED
    BY <2>3, <2>4
<1>5. CASE ~(Emit \/ FillHeap \/ Absorb)
  <2>1. UNCHANGED <<consumed, out_buffer, file>>
    BY <1>5 DEF Sorter, Scan0, Scan1, CheckDone, SetDoneSorting, ReleaseInput,
         AwaitOutput, PublishOutput, FindRefill, PublishRest
  <2>2. heap \cup frozen \subseteq heap' \cup frozen'
    <3>1. CASE Scan1
      BY <3>1 DEF Scan1, SorterInv
    <3>2. CASE PublishOutput
      BY <3>2 DEF PublishOutput, AfterOutput
    <3>3. CASE ~(Scan1 \/ PublishOutput)
      BY <1>5, <3>3 DEF Sorter, Scan0, CheckDone, SetDoneSorting, ReleaseInput,
           AwaitOutput, FindRefill, PublishRest
    <3> QED
      BY <3>1, <3>2, <3>3
  <2>3. \A b \in Bufs : Unread(b)' = Unread(b)
    BY <1>1, <2>1 DEF Unread, ElementAt
  <2> QED
    BY <1>2, <2>1, <2>2, <2>3, HeldMembers
<1> QED
  BY <1>3, <1>4, <1>5

LEMMA WriterDropsNothing ==
    ASSUME TypeOK, Writer, NEW x \in Held
    PROVE  x \in Held'
<1> USE DEF inVars, outVars, readerVars, sorterVars, writerVars
<1>1. UNCHANGED <<inVars, readerVars, heap, frozen>>
  BY WriterFrame
<1>2. Pending' = Pending /\ \A b \in Bufs : Unread(b)' = Unread(b)
  BY <1>1 DEF Pending, NotLoaded, NextToLoad, Unread, ElementAt
<1>3. ASSUME NEW b \in Bufs, FlushDirect(b)
      PROVE  x \in Held'
  <2>1. out_buffer[b] \in Seq(Elements) /\ file \in Seq(Elements)
    BY DEF TypeOK
  <2>2. Range(file') = Range(file) \cup Range(out_buffer[b])
    BY <1>3, <2>1, RangeConcat DEF FlushDirect
  <2>3. \A c \in Bufs \ {b} : out_buffer'[c] = out_buffer[c]
    BY <1>3 DEF FlushDirect, TypeOK
  <2> QED
    BY <1>1, <1>2, <2>2, <2>3, HeldMembers
<1>4. CASE Flush
  BY <1>3, <1>4 DEF Flush, TypeOK
<1>5. CASE DrainRest
  <2>1. CASE HasRest(drained)
    BY <1>3, <1>5, <2>1 DEF DrainRest, TypeOK
  <2>2. CASE ~HasRest(drained)
    <3>1. UNCHANGED <<file, out_buffer>>
      BY <1>5, <2>2 DEF DrainRest
    <3> QED
      BY <1>1, <1>2, <3>1, HeldMembers
  <2> QED
    BY <2>1, <2>2
<1>6. CASE ~(Flush \/ DrainRest)
  <2>1. UNCHANGED <<file, out_buffer>>
    BY <1>6 DEF Writer, WriterLoop, AwaitBatch, AwaitDone, Recheck,
                ReleaseOutput, DrainRelease
  <2> QED
    BY <1>1, <1>2, <2>1, HeldMembers
<1> QED
  BY <1>4, <1>5, <1>6

(* Only elements are held. *)
LEMMA HeldElements ==
    ASSUME TypeOK, NEW x \in Held
    PROVE  x \in Elements
<1>1. x \in Pending => x \in Elements
  BY TaskFacts DEF Pending, NotLoaded, NextToLoad, NextToLoad
<1>2. ASSUME NEW b \in Bufs, x \in Unread(b)
      PROVE  x \in Elements
  <2>1. /\ loaded[b] # 0 /\ loaded[b] \in 0 .. Len(Tasks)
        /\ consumed[b] \in Nat
    BY <1>2 DEF Unread, TypeOK
  <2>2. loaded[b] \in 1 .. Len(Tasks)
    BY <2>1, TaskFacts
  <2>3. PICK i \in consumed[b] .. Tasks[loaded[b]].count - 1 :
           x = <<Tasks[loaded[b]].run_id, Tasks[loaded[b]].offset + i>>
    BY <1>2, <2>1 DEF Unread, ElementAt
  <2>4. i \in 0 .. Tasks[loaded[b]].count - 1
    BY <2>1, <2>2, TaskFacts
  <2>5. x \in Chunk(Tasks[loaded[b]])
    BY <2>2, <2>3, <2>4, FreshChunk
  <2> QED
    BY <2>2, <2>5, TaskFacts
<1>3. \A b \in Bufs : Range(out_buffer[b]) \subseteq Elements
  <2> TAKE b \in Bufs
  <2>1. out_buffer[b] \in Seq(Elements)
    BY DEF TypeOK
  <2> QED
    BY <2>1, RangeOfSeq
<1>4. Range(file) \subseteq Elements
  BY RangeOfSeq DEF TypeOK
<1>5. heap \subseteq Elements /\ frozen \subseteq Elements
  BY DEF TypeOK
<1> QED
  BY <1>1, <1>2, <1>3, <1>4, <1>5, HeldMembers

(* No thread drops an element, for any tasks, values and interleaving. *)
THEOREM ElementsKept == Spec => []NothingDropped
<1> DEFINE Kept == Elements \subseteq Held
<1>1. Init => Kept
  <2> SUFFICES ASSUME Init PROVE Kept
    OBVIOUS
  <2>1. NotLoaded = DOMAIN Tasks
    BY TaskFacts DEF Init, NotLoaded, NextToLoad
  <2>2. Pending = Elements
    BY <2>1 DEF Pending, Elements
  <2> QED
    BY <2>2 DEF Held
<1>2. ControlInv /\ Kept /\ [Next]_vars => Kept'
  <2> SUFFICES ASSUME ControlInv, Kept, [Next]_vars, NEW x \in Elements
               PROVE  x \in Held'
    OBVIOUS
  <2>1. x \in Held
    OBVIOUS
  <2>2. CASE Reader
    BY <2>1, <2>2, ReaderDropsNothing DEF ControlInv
  <2>3. CASE Sorter
    BY <2>1, <2>3, SorterDropsNothing DEF ControlInv
  <2>4. CASE Writer
    BY <2>1, <2>4, WriterDropsNothing DEF ControlInv
  <2>5. CASE UNCHANGED vars
    <3>1. Held' = Held
      BY <2>5 DEF vars, inVars, outVars, readerVars, sorterVars, writerVars,
           Held, InMemory, Pending, NotLoaded, NextToLoad, Unread, ElementAt
    <3> QED
      BY <2>1, <3>1
  <2> QED
    BY <2>2, <2>3, <2>4, <2>5 DEF Next, Joined
<1>3. ControlInv /\ Kept => NothingDropped
  BY HeldElements DEF ControlInv, NothingDropped, Held
<1> HIDE DEF Kept
<1> QED
  BY <1>1, <1>2, <1>3, ControlInvariant, PTL DEF Spec

(* When the threads have ended, an element that is not in the file is in an     *)
(* input buffer, unread: the drain leaves no batch behind.                      *)
THEOREM MissingIsUnread == Spec => []OnlyUnreadIsMissing
<1>1. ASSUME ControlInv, NothingDropped, Terminated
      PROVE  Elements = Range(file) \cup Unread(0) \cup Unread(1)
  <2>1. Pending = {}
    <3>1. NotLoaded = {}
      BY <1>1, TaskFacts DEF ControlInv, ReaderInv, TypeOK, Terminated, NotLoaded, NextToLoad
    <3> QED
      BY <3>1 DEF Pending
  <2>2. heap = {} /\ frozen = {}
    BY <1>1 DEF ControlInv, SorterInv, Terminated
  <2>3. Range(out_buffer[0]) = {} /\ Range(out_buffer[1]) = {}
    BY <1>1 DEF ControlInv, WriterInv, Terminated, Bufs, Range
  <2> QED
    BY <1>1, <2>1, <2>2, <2>3 DEF NothingDropped, InMemory
<1>2. ControlInv /\ NothingDropped => OnlyUnreadIsMissing
  BY <1>1 DEF OnlyUnreadIsMissing
<1> QED
  BY <1>2, ControlInvariant, ElementsKept, PTL

----------------------------------------------------------------------------
(* Batches keep their order *)

(* Whose turn it is: writer waits for the older batch, which is the one in the    *)
(* current buffer exactly when both or none of the buffers are active.            *)
TurnInv ==
    ~done_sorting =>
        (use_buffer = cur_out <=> out_active[cur_out] = out_active[Other(cur_out)])

LEMMA TurnInvStep ==
    ASSUME TypeOK, SorterInv, WriterInv, BatchInv, TurnInv, [Next]_vars
    PROVE  TurnInv'
<1> USE DEF inVars, outVars, readerVars, sorterVars, writerVars
<1>1. /\ out_active \in [Bufs -> BOOLEAN] /\ cur_out \in Bufs /\ use_buffer \in Bufs
      /\ done_sorting \in BOOLEAN
  BY DEF TypeOK
<1>2. /\ Other(cur_out) \in Bufs /\ Other(cur_out) # cur_out
      /\ Other(Other(cur_out)) = cur_out
      /\ use_buffer = cur_out \/ use_buffer = Other(cur_out)
      /\ Other(use_buffer) \in Bufs /\ Other(use_buffer) # use_buffer
  BY <1>1 DEF Bufs, Other
<1>3. CASE PublishOutput
  <2>1. /\ out_active' = [out_active EXCEPT ![cur_out] = TRUE] /\ cur_out' = Other(cur_out)
        /\ UNCHANGED <<use_buffer, done_sorting>> /\ ~out_active[cur_out]
    BY <1>3 DEF PublishOutput, SorterInv
  <2>2. out_active'[cur_out] = TRUE /\ out_active'[Other(cur_out)] = out_active[Other(cur_out)]
    BY <1>1, <1>2, <2>1
  <2> QED
    BY <1>1, <1>2, <2>1, <2>2 DEF TurnInv
<1>4. CASE ReleaseOutput
  <2>1. /\ out_active' = [out_active EXCEPT ![use_buffer] = FALSE]
        /\ use_buffer' = Other(use_buffer) /\ UNCHANGED <<cur_out, done_sorting>>
        /\ out_active[use_buffer]
    BY <1>4 DEF ReleaseOutput, WriterInv
  <2>2. /\ out_active'[use_buffer] = FALSE
        /\ \A b \in Bufs : b # use_buffer => out_active'[b] = out_active[b]
    BY <1>1, <2>1
  <2> QED
    BY <1>1, <1>2, <2>1, <2>2 DEF TurnInv
<1>5. CASE ~(PublishOutput \/ ReleaseOutput)
  <2>1. done_sorting' \/ UNCHANGED <<out_active, cur_out, use_buffer, done_sorting>>
    <3>1. CASE Reader
      BY <3>1, ReaderFrame
    <3>2. CASE Sorter
      BY <1>5, <3>2 DEF Sorter, Scan0, Scan1, CheckDone, SetDoneSorting, FillHeap, ReleaseInput,
         AwaitOutput, Emit, FindRefill, Absorb, PublishRest, SorterInv
    <3>3. CASE Writer
      BY <1>5, <3>3 DEF Writer, WriterLoop, AwaitBatch, AwaitDone, Recheck, Flush, DrainRest,
         DrainRelease, WriterInv
    <3>4. CASE UNCHANGED vars
      BY <3>4 DEF vars
    <3> QED
      BY <3>1, <3>2, <3>3, <3>4 DEF Next, Joined
  <2> QED
    BY <2>1 DEF TurnInv
<1> QED
  BY <1>3, <1>4, <1>5

LEMMA Concatenations ==
    ASSUME NEW f \in Seq(Elements), NEW s \in Seq(Elements), NEW t \in Seq(Elements)
    PROVE  /\ f \o (s \o t) = (f \o s) \o (<< >> \o t)
           /\ s = << >> \/ t = << >> => s \o t = t \o s
<1>1. f \o (s \o t) = (f \o s) \o t
  BY ConcatAssociative
<1>2. << >> \o t = t /\ t \o << >> = t /\ << >> \o s = s /\ s \o << >> = s
  BY ConcatEmptySeq
<1> QED
  BY <1>1, <1>2

LEMMA OneMore ==
    ASSUME NEW f \in Seq(Elements), NEW s \in Seq(Elements), NEW t \in Seq(Elements),
           NEW e \in Elements
    PROVE  f \o (s \o Append(t, e)) = Append(f \o (s \o t), e)
<1>1. /\ <<e>> \in Seq(Elements) /\ s \o t \in Seq(Elements)
      /\ f \o (s \o t) \in Seq(Elements)
  BY ConcatProperties
<1>2. Append(t, e) = t \o <<e>> /\ Append(f \o (s \o t), e) = (f \o (s \o t)) \o <<e>>
  BY <1>1, AppendIsConcat
<1>3. s \o (t \o <<e>>) = (s \o t) \o <<e>>
  BY <1>1, ConcatAssociative
<1>4. f \o ((s \o t) \o <<e>>) = (f \o (s \o t)) \o <<e>>
  BY <1>1, ConcatAssociative
<1> QED
  BY <1>2, <1>3, <1>4

(* Emit adds the top of the heap to the produced elements; the frozen ones      *)
(* become the heap when it was the last.                                        *)
LEMMA EmitProduces ==
    ASSUME TypeOK, SorterInv, BatchInv, Emit
    PROVE  \E e \in heap :
             /\ e \in Elements /\ IsTop(e) /\ last_output' = key[e]
             /\ Produced' = Append(Produced, e)
             /\ \/ /\ spc' = "publish" /\ heap' = heap \ {e} /\ frozen' = frozen
                \/ /\ spc' = "emit" /\ heap # {e} /\ heap' = heap \ {e} /\ frozen' = frozen
                \/ /\ spc' = "refill0" /\ heap = {e} /\ heap' = frozen /\ frozen' = {}
<1> USE DEF inVars, outVars, readerVars, sorterVars, writerVars
<1> DEFINE cur == out_buffer[cur_out]  oth == out_buffer[Other(cur_out)]
<1>1. /\ out_active \in [Bufs -> BOOLEAN] /\ cur_out \in Bufs /\ use_buffer \in Bufs
      /\ out_buffer \in [Bufs -> Seq(Elements)] /\ file \in Seq(Elements)
  BY DEF TypeOK
<1>2. /\ Other(cur_out) \in Bufs /\ Other(cur_out) # cur_out
      /\ Other(Other(cur_out)) = cur_out
      /\ use_buffer = cur_out \/ use_buffer = Other(cur_out)
  BY <1>1 DEF Bufs, Other
<1>3. cur \in Seq(Elements) /\ oth \in Seq(Elements)
  BY <1>1, <1>2
<1>4. PICK e \in heap :
        /\ e \in Elements /\ UNCHANGED file /\ IsTop(e) /\ last_output' = key[e]
        /\ out_buffer' = [out_buffer EXCEPT ![cur_out] = Append(out_buffer[cur_out], e)]
        /\ \/ /\ spc' = "publish" /\ heap' = heap \ {e} /\ frozen' = frozen
           \/ /\ spc' = "emit" /\ heap # {e} /\ heap' = heap \ {e} /\ frozen' = frozen
           \/ /\ spc' = "refill0" /\ heap = {e} /\ heap' = frozen /\ frozen' = {}
  BY EmitAdds
<1>5. UNCHANGED <<out_active, cur_out>> /\ ~out_active[cur_out]
  BY DEF Emit, SorterInv
<1>6. out_buffer'[cur_out] = Append(cur, e) /\ out_buffer'[Other(cur_out)] = oth
  BY <1>1, <1>2, <1>4
<1>7. Produced = file \o (oth \o cur) /\ Produced' = file \o (oth \o Append(cur, e))
  BY <1>4, <1>5, <1>6 DEF Produced
<1> HIDE DEF cur, oth
<1>8. file \o (oth \o Append(cur, e)) = Append(file \o (oth \o cur), e)
  BY <1>1, <1>3, <1>4, OneMore
<1>9. Produced' = Append(Produced, e)
  BY <1>7, <1>8
<1> QED
  BY <1>4, <1>9

(* The other steps leave the produced elements as they are. *)
LEMMA OthersKeepProduced ==
    ASSUME TypeOK, SorterInv, WriterInv, BatchInv, TurnInv, ~done_sorting,
           [Next]_vars, ~Emit
    PROVE  Produced' = Produced
<1> USE DEF inVars, outVars, readerVars, sorterVars, writerVars
<1> DEFINE cur == out_buffer[cur_out]  oth == out_buffer[Other(cur_out)]
<1>1. /\ out_active \in [Bufs -> BOOLEAN] /\ cur_out \in Bufs /\ use_buffer \in Bufs
      /\ out_buffer \in [Bufs -> Seq(Elements)] /\ file \in Seq(Elements)
  BY DEF TypeOK
<1>2. /\ Other(cur_out) \in Bufs /\ Other(cur_out) # cur_out
      /\ Other(Other(cur_out)) = cur_out
      /\ use_buffer = cur_out \/ use_buffer = Other(cur_out)
  BY <1>1 DEF Bufs, Other
<1>3. cur \in Seq(Elements) /\ oth \in Seq(Elements)
  BY <1>1, <1>2
<1>4. CASE PublishOutput
  <2>1. /\ cur_out' = Other(cur_out) /\ UNCHANGED <<file, out_buffer>> /\ ~out_active[cur_out]
        /\ out_active' = [out_active EXCEPT ![cur_out] = TRUE]
    BY <1>4 DEF PublishOutput, SorterInv
  <2>2. out_active'[Other(cur_out)] = out_active[Other(cur_out)]
    BY <1>1, <1>2, <2>1
  <2>3. Produced = file \o (oth \o cur)
    BY <2>1 DEF Produced
  <2>4. Produced' = IF out_active[Other(cur_out)] THEN file \o (oth \o cur)
                                                  ELSE file \o (cur \o oth)
    BY <1>2, <2>1, <2>2 DEF Produced
  <2>5. ~out_active[Other(cur_out)] => oth = << >>
    BY DEF BatchInv
  <2>6. oth = << >> => cur \o oth = oth \o cur
    BY <1>1, <1>3, Concatenations
  <2> QED
    BY <2>3, <2>4, <2>5, <2>6
<1>5. CASE Flush
  <2>1. /\ file' = file \o out_buffer[use_buffer] /\ out_active[use_buffer]
        /\ out_buffer' = [out_buffer EXCEPT ![use_buffer] = << >>]
        /\ UNCHANGED <<out_active, cur_out>>
    BY <1>5 DEF Flush, FlushDirect, WriterInv
  <2>2. /\ out_buffer'[use_buffer] = << >>
        /\ \A b \in Bufs : b # use_buffer => out_buffer'[b] = out_buffer[b]
    BY <1>1, <2>1
  <2>3. CASE use_buffer = cur_out
    <3>1. out_active[cur_out] /\ out_buffer'[Other(cur_out)] = oth /\ out_buffer'[cur_out] = << >>
      BY <1>2, <2>1, <2>2, <2>3
    <3>2. Produced = file \o (cur \o oth) /\ Produced' = (file \o cur) \o (<< >> \o oth)
      BY <2>1, <2>3, <3>1 DEF Produced
    <3> HIDE DEF cur, oth
    <3> QED
      BY <1>1, <1>3, <3>2, Concatenations, SMTT(60)
  <2>4. CASE use_buffer = Other(cur_out)
    <3>1. /\ ~out_active[cur_out]
          /\ out_buffer'[Other(cur_out)] = << >> /\ out_buffer'[cur_out] = cur
      BY <1>1, <1>2, <2>1, <2>2, <2>4 DEF TurnInv
    <3>2. Produced = file \o (oth \o cur) /\ Produced' = (file \o oth) \o (<< >> \o cur)
      BY <2>1, <2>4, <3>1 DEF Produced
    <3> HIDE DEF cur, oth
    <3> QED
      BY <1>1, <1>3, <3>2, Concatenations, ZenonT(60)
  <2> QED
    BY <1>2, <2>3, <2>4
<1>6. CASE ReleaseOutput
  <2>1. /\ out_active' = [out_active EXCEPT ![use_buffer] = FALSE]
        /\ out_buffer[use_buffer] = << >> /\ UNCHANGED <<file, out_buffer, cur_out>>
    BY <1>6 DEF ReleaseOutput, WriterInv
  <2>2. cur = << >> \/ oth = << >> => cur \o oth = oth \o cur
    BY <1>1, <1>3, Concatenations
  <2>3. cur = << >> \/ oth = << >>
    BY <1>2, <2>1
  <2>4. Produced' = file \o (cur \o oth) \/ Produced' = file \o (oth \o cur)
    BY <2>1 DEF Produced
  <2>5. Produced = file \o (cur \o oth) \/ Produced = file \o (oth \o cur)
    BY DEF Produced
  <2> DEFINE co == cur \o oth  oc == oth \o cur
  <2>6. co = oc
    BY <2>2, <2>3
  <2> HIDE DEF co, oc
  <2>7. (Produced = file \o co \/ Produced = file \o oc)
        /\ (Produced' = file \o co \/ Produced' = file \o oc)
    BY <2>4, <2>5 DEF co, oc
  <2> QED
    BY <2>6, <2>7
<1>7. CASE ~(PublishOutput \/ Flush \/ ReleaseOutput)
  <2>1. UNCHANGED <<out_active, cur_out, out_buffer, file>>
    <3>1. CASE Reader
      BY <3>1, ReaderFrame
    <3>2. CASE Sorter
      BY <1>7, <3>2 DEF Sorter, Scan0, Scan1, CheckDone, SetDoneSorting, FillHeap, ReleaseInput,
         AwaitOutput, FindRefill, Absorb, PublishRest, SorterInv
    <3>3. CASE Writer
      BY <1>7, <3>3 DEF Writer, WriterLoop, AwaitBatch, AwaitDone, Recheck, DrainRest,
         DrainRelease, WriterInv
    <3>4. CASE UNCHANGED vars
      BY <3>4 DEF vars
    <3> QED
      BY <3>1, <3>2, <3>3, <3>4 DEF Next, Joined
  <2> QED
    BY <2>1 DEF Produced
<1> QED
  BY <1>4, <1>5, <1>6, <1>7

(* A step leaves the produced elements as they are or adds one at their end:    *)
(* the two output buffers are written in the order in which sorter fills them,   *)
(* for any tasks, sizes and interleaving (sorter, writer).                       *)
THEOREM OrderKept == Spec => BatchesInOrder
<1>1. Init => TurnInv
  BY DEF Init, TurnInv, Bufs, Other
<1>2. ControlInv /\ TurnInv /\ [Next]_vars => TurnInv'
  BY TurnInvStep DEF ControlInv
<1>3. ControlInv /\ TurnInv /\ [Next]_vars =>
          (~done_sorting => \/ Produced' = Produced
                            \/ \E e \in Elements : Produced' = Append(Produced, e))
  BY EmitProduces, OthersKeepProduced DEF ControlInv
<1>4. Spec => []TurnInv
  BY <1>1, <1>2, ControlInvariant, PTL DEF Spec
<1> QED
  BY <1>3, <1>4, ControlInvariant, PTL DEF Spec, BatchesInOrder

----------------------------------------------------------------------------
(* No element is duplicated *)

LEMMA ChunkFinite ==
    ASSUME NEW i \in 1 .. Len(Tasks)
    PROVE  IsFiniteSet(Chunk(Tasks[i]))
<1> DEFINE S == Tasks[i].offset .. Tasks[i].offset + Tasks[i].count - 1
           f == [p \in S |-> <<Tasks[i].run_id, p>>]
<1>1. IsFiniteSet(S)
  <2>1. Tasks[i].offset \in Int /\ Tasks[i].offset + Tasks[i].count - 1 \in Int
    BY TaskFacts
  <2> QED
    BY <2>1, FS_Interval
<1>2. f \in Surjection(S, Chunk(Tasks[i]))
  <2>1. f \in [S -> Chunk(Tasks[i])]
    BY DEF Chunk
  <2>2. \A x \in Chunk(Tasks[i]) : \E p \in S : f[p] = x
    BY DEF Chunk
  <2> QED
    BY <2>1, <2>2 DEF Surjection
<1> HIDE DEF S, f
<1> QED
  BY <1>1, <1>2, FS_Surjection

(* Only finitely many elements are to be sorted. *)
LEMMA ElementsFinite == IsFiniteSet(Elements)
<1> DEFINE S == {Chunk(Tasks[i]) : i \in DOMAIN Tasks}
           f == [i \in 1 .. Len(Tasks) |-> Chunk(Tasks[i])]
<1>1. DOMAIN Tasks = 1 .. Len(Tasks) /\ Len(Tasks) \in Nat
  BY TaskFacts
<1>2. IsFiniteSet(1 .. Len(Tasks))
  BY <1>1, FS_Interval
<1>3. f \in Surjection(1 .. Len(Tasks), S)
  BY <1>1 DEF Surjection
<1>4. \A T \in S : IsFiniteSet(T)
  BY <1>1, ChunkFinite
<1>5. Elements = UNION S
  BY DEF Elements
<1> HIDE DEF S, f
<1>6. IsFiniteSet(S)
  BY <1>2, <1>3, FS_Surjection
<1> QED
  BY <1>4, <1>5, <1>6, FS_UNION

LEMMA FinitePart ==
    ASSUME NEW S, S \subseteq Elements
    PROVE  IsFiniteSet(S) /\ Cardinality(S) \in Nat
BY ElementsFinite, FS_Subset, FS_CardinalityType

(* A sequence has no more different members than places. *)
LEMMA RangeBound ==
    ASSUME NEW s \in Seq(Elements)
    PROVE  /\ Range(s) \subseteq Elements
           /\ Cardinality(Range(s)) \in Nat /\ Cardinality(Range(s)) <= Len(s)
<1>1. Len(s) \in Nat /\ DOMAIN s = 1 .. Len(s) /\ s \in [1 .. Len(s) -> Elements]
  OBVIOUS
<1>2. Range(s) \subseteq Elements
  BY RangeOfSeq
<1>3. s \in Surjection(1 .. Len(s), Range(s))
  BY <1>1 DEF Surjection, Range
<1>4. IsFiniteSet(1 .. Len(s)) /\ Cardinality(1 .. Len(s)) = Len(s)
  BY <1>1, FS_Interval
<1>5. Cardinality(Range(s)) <= Cardinality(1 .. Len(s))
  BY <1>3, <1>4, FS_Surjection
<1> QED
  BY <1>2, <1>4, <1>5, FinitePart

LEMMA UnionBound ==
    ASSUME NEW S, S \subseteq Elements, NEW T, T \subseteq Elements
    PROVE  /\ S \cup T \subseteq Elements
           /\ Cardinality(S) \in Nat /\ Cardinality(T) \in Nat
           /\ Cardinality(S \cup T) \in Nat
           /\ Cardinality(S \cup T) <= Cardinality(S) + Cardinality(T)
           /\ S \cap T = {} => Cardinality(S \cup T) = Cardinality(S) + Cardinality(T)
<1>1. /\ IsFiniteSet(S) /\ IsFiniteSet(T) /\ IsFiniteSet(S \cap T)
      /\ Cardinality(S) \in Nat /\ Cardinality(T) \in Nat
      /\ Cardinality(S \cap T) \in Nat /\ Cardinality(S \cup T) \in Nat
  <2>1. S \cup T \subseteq Elements /\ S \cap T \subseteq Elements
    OBVIOUS
  <2> QED
    BY <2>1, FinitePart
<1>2. Cardinality(S \cup T) = Cardinality(S) + Cardinality(T) - Cardinality(S \cap T)
  BY <1>1, FS_Union
<1>3. S \cap T = {} => Cardinality(S \cap T) = 0
  BY FS_EmptySet
<1> QED
  BY <1>1, <1>2, <1>3

(* How many elements there are in each place, and in all of them. *)
Waiting == Cardinality(Pending)
Unread0 == Cardinality(Unread(0))
Unread1 == Cardinality(Unread(1))
InHeap == Cardinality(heap)
InFrozen == Cardinality(frozen)
Out0 == Len(out_buffer[0])
Out1 == Len(out_buffer[1])
Written == Len(file)

Total == Waiting + Unread0 + Unread1 + InHeap + InFrozen + Out0 + Out1 + Written

PlacesInv ==
    /\ Pending \subseteq Elements
    /\ \A b \in Bufs : Unread(b) \subseteq Elements
    /\ Waiting \in Nat /\ Unread0 \in Nat /\ Unread1 \in Nat
    /\ InHeap \in Nat /\ InFrozen \in Nat
    /\ Out0 \in Nat /\ Out1 \in Nat /\ Written \in Nat

LEMMA Places == TypeOK => PlacesInv
<1> SUFFICES ASSUME TypeOK PROVE PlacesInv
  OBVIOUS
<1>1. Pending \subseteq Elements /\ \A b \in Bufs : Unread(b) \subseteq Elements
  BY HeldElements, HeldMembers
<1>2. heap \subseteq Elements /\ frozen \subseteq Elements
  BY DEF TypeOK
<1>3. 0 \in Bufs /\ 1 \in Bufs
  BY DEF Bufs
<1>4. Waiting \in Nat /\ Unread0 \in Nat /\ Unread1 \in Nat /\ InHeap \in Nat /\ InFrozen \in Nat
  BY <1>1, <1>2, <1>3, FinitePart DEF Waiting, Unread0, Unread1, InHeap, InFrozen
<1>5. file \in Seq(Elements) /\ out_buffer \in [Bufs -> Seq(Elements)]
  BY DEF TypeOK
<1>6. out_buffer[0] \in Seq(Elements) /\ out_buffer[1] \in Seq(Elements)
  BY <1>3, <1>5
<1>7. Out0 \in Nat /\ Out1 \in Nat /\ Written \in Nat
  BY <1>5, <1>6 DEF Out0, Out1, Written
<1> QED
  BY <1>1, <1>4, <1>7 DEF PlacesInv

LEMMA ReaderDuplicatesNothing ==
    ASSUME TypeOK, ReaderInv, PlacesInv, PlacesInv', Reader
    PROVE  Total' <= Total
<1> USE DEF inVars, outVars, readerVars, sorterVars, writerVars
<1>1. /\ InHeap' = InHeap /\ InFrozen' = InFrozen
      /\ Out0' = Out0 /\ Out1' = Out1 /\ Written' = Written
  BY ReaderFrame DEF InHeap, InFrozen, Out0, Out1, Written
<1>4. /\ Waiting \in Nat /\ Unread0 \in Nat /\ Unread1 \in Nat /\ InHeap \in Nat
      /\ InFrozen \in Nat /\ Out0 \in Nat /\ Out1 \in Nat /\ Written \in Nat
      /\ Waiting' \in Nat
  BY DEF PlacesInv
<1>2. CASE LoadChunk
  <2>1. /\ idx \in 1 .. Len(Tasks) /\ next_task = idx + 1
        /\ input \in Bufs /\ rpc = "load" /\ idx \in Int
    BY <1>2, TaskFacts DEF LoadChunk, ReaderInv, TypeOK
  <2>2. /\ loaded'[input] = idx /\ consumed'[input] = 0
        /\ \A b \in Bufs \ {input} :
             loaded'[b] = loaded[b] /\ consumed'[b] = consumed[b]
        /\ UNCHANGED <<next_task, idx, input>> /\ rpc' = "publish"
    BY <1>2, <2>1 DEF LoadChunk, TypeOK
  <2>3. \A b \in Bufs \ {input} : Unread(b)' = Unread(b)
    BY <2>2 DEF Unread, ElementAt
  <2>4. Unread(input)' = Chunk(Tasks[idx])
    <3>1. idx # 0
      BY <2>1
    <3>2. Unread(input)' = {<<Tasks[idx].run_id, Tasks[idx].offset + j>> :
                               j \in 0 .. Tasks[idx].count - 1}
      BY <2>2, <3>1 DEF Unread, ElementAt
    <3> QED
      BY <2>1, <3>2, FreshChunk
  <2>5. /\ NotLoaded = {i \in 1 .. Len(Tasks) : i >= idx}
        /\ NotLoaded' = {i \in 1 .. Len(Tasks) : i >= idx + 1}
    BY <2>1, <2>2, TaskFacts DEF NotLoaded, NextToLoad
  <2>6. Pending' \subseteq Pending /\ Chunk(Tasks[idx]) \subseteq Pending
    <3>1. idx \in NotLoaded /\ NotLoaded' \subseteq NotLoaded
      BY <2>1, <2>5
    <3> QED
      BY <3>1 DEF Pending
  <2>7. Pending' \cap Chunk(Tasks[idx]) = {}
    <3>1. \A i \in NotLoaded' : i \in DOMAIN Tasks /\ idx \in DOMAIN Tasks /\ i # idx
      BY <2>1, <2>5, TaskFacts
    <3>2. \A i \in NotLoaded' : Chunk(Tasks[i]) \cap Chunk(Tasks[idx]) = {}
      BY <3>1, TasksAssumption DEF ValidTasks
    <3> QED
      BY <3>2 DEF Pending
  <2>8. /\ Waiting' + Cardinality(Chunk(Tasks[idx])) <= Waiting
        /\ Cardinality(Chunk(Tasks[idx])) \in Nat
    <3>1. /\ Pending' \subseteq Elements /\ Chunk(Tasks[idx]) \subseteq Elements
          /\ Pending \subseteq Elements
      BY <2>6 DEF PlacesInv
    <3>2. /\ Cardinality(Pending' \cup Chunk(Tasks[idx]))
               = Cardinality(Pending') + Cardinality(Chunk(Tasks[idx]))
          /\ Cardinality(Chunk(Tasks[idx])) \in Nat
      BY <2>7, <3>1, UnionBound
    <3>3. Cardinality(Pending' \cup Chunk(Tasks[idx])) <= Cardinality(Pending)
      BY <2>6, <3>1, FinitePart, FS_Subset
    <3> QED
      BY <3>2, <3>3 DEF Waiting
  <2>9. CASE input = 0
    <3>1. 0 \in Bufs /\ 1 \in Bufs \ {input}
      BY <2>9 DEF Bufs
    <3>2. Unread(0)' = Chunk(Tasks[idx])
      <4>1. Unread(input)' = Unread(0)'
        BY <2>2, <2>9 DEF Unread, ElementAt
      <4> QED
        BY <2>4, <4>1
    <3>3. Unread0' = Cardinality(Chunk(Tasks[idx])) /\ Unread1' = Unread1
      BY <2>3, <3>1, <3>2 DEF Unread0, Unread1
    <3> QED
      BY <1>1, <1>4, <2>8, <3>3 DEF Total
  <2>10. CASE input = 1
    <3>1. 1 \in Bufs /\ 0 \in Bufs \ {input}
      BY <2>10 DEF Bufs
    <3>2. Unread(1)' = Chunk(Tasks[idx])
      <4>1. Unread(input)' = Unread(1)'
        BY <2>2, <2>10 DEF Unread, ElementAt
      <4> QED
        BY <2>4, <4>1
    <3>3. Unread1' = Cardinality(Chunk(Tasks[idx])) /\ Unread0' = Unread0
      BY <2>3, <3>1, <3>2 DEF Unread0, Unread1
    <3> QED
      BY <1>1, <1>4, <2>8, <3>3 DEF Total
  <2> QED
    BY <2>1, <2>9, <2>10 DEF Bufs
<1>3. CASE ~LoadChunk
  <2>1. UNCHANGED <<loaded, consumed>>
    BY <1>3 DEF Reader, Fetch, FindFree, PublishInput, FinishReading
  <2>2. Unread0' = Unread0 /\ Unread1' = Unread1
    BY <2>1 DEF Unread0, Unread1, Unread, ElementAt
  <2>3. NotLoaded' \subseteq NotLoaded
    <3>1. CASE Fetch
      <4>1. /\ next_task \in Nat /\ rpc = "fetch" /\ rpc' \in {"finish", "find0"}
            /\ idx' = next_task /\ next_task' = next_task + 1
        BY <3>1 DEF Fetch, TypeOK
      <4>2. NextToLoad = next_task /\ NextToLoad' \in {next_task, next_task + 1}
        BY <4>1 DEF NextToLoad
      <4> QED
        BY <4>1, <4>2, TaskFacts DEF NotLoaded
    <3>2. CASE FindFree(0, "find0", "find1") \/ FindFree(1, "find1", "find0")
      BY <3>2 DEF FindFree, NotLoaded, NextToLoad
    <3>3. CASE PublishInput \/ FinishReading
      BY <3>3 DEF PublishInput, FinishReading, NotLoaded, NextToLoad
    <3> QED
      BY <1>3, <3>1, <3>2, <3>3 DEF Reader
  <2>4. Pending' \subseteq Pending
    BY <2>3 DEF Pending
  <2>5. Waiting' <= Waiting
    <3>1. IsFiniteSet(Pending)
      BY FinitePart DEF PlacesInv
    <3> QED
      BY <2>4, <3>1, FS_Subset DEF Waiting
  <2>6. Total' = Waiting' + Unread0 + Unread1 + InHeap + InFrozen + Out0 + Out1 + Written
    BY <1>1, <2>2 DEF Total
  <2> QED
    BY <1>4, <2>5, <2>6 DEF Total
<1> QED
  BY <1>2, <1>3

(* Reading one element makes the unread ones fewer. *)
LEMMA FewerUnread ==
    ASSUME TypeOK, NEW b \in Bufs, HasNext(b), loaded' = loaded,
           consumed' = [consumed EXCEPT ![b] = @ + 1],
           Unread(b) \subseteq Elements
    PROVE  /\ Cardinality(Unread(b)) \in Nat /\ Cardinality(Unread(b)') \in Nat
           /\ Cardinality(Unread(b)') <= Cardinality(Unread(b)) - 1
<1> DEFINE e == ElementAt(b, consumed[b])
<1>1. /\ consumed[b] \in Nat /\ loaded[b] \in 1 .. Len(Tasks)
      /\ Tasks[loaded[b]].count \in Nat /\ Tasks[loaded[b]].offset \in Nat
      /\ consumed[b] < Tasks[loaded[b]].count
      /\ consumed'[b] = consumed[b] + 1 /\ loaded[b] # 0
  <2>1. /\ consumed[b] \in Nat /\ loaded[b] \in 1 .. Len(Tasks)
        /\ consumed[b] < Tasks[loaded[b]].count
    BY NextIsElement
  <2>2. consumed'[b] = consumed[b] + 1
    BY DEF TypeOK
  <2> QED
    BY <2>1, <2>2, TaskFacts
<1>2. /\ Unread(b) = {ElementAt(b, i) : i \in consumed[b] .. Tasks[loaded[b]].count - 1}
      /\ Unread(b)' = {ElementAt(b, i) : i \in consumed[b] + 1 .. Tasks[loaded[b]].count - 1}
  BY <1>1 DEF Unread, ElementAt
<1>3. e \in Unread(b) /\ Unread(b)' \subseteq Unread(b)
  <2>1. /\ consumed[b] \in consumed[b] .. Tasks[loaded[b]].count - 1
        /\ \A i \in consumed[b] + 1 .. Tasks[loaded[b]].count - 1 :
              i \in consumed[b] .. Tasks[loaded[b]].count - 1
    BY <1>1
  <2> QED
    BY <1>2, <2>1
<1>4. e \notin Unread(b)'
  <2>1. \A i \in consumed[b] + 1 .. Tasks[loaded[b]].count - 1 :
           Tasks[loaded[b]].offset + i # Tasks[loaded[b]].offset + consumed[b]
    BY <1>1
  <2> QED
    BY <1>2, <2>1 DEF ElementAt
<1> HIDE DEF e
<1>5. IsFiniteSet(Unread(b)) /\ Cardinality(Unread(b)) \in Nat
  BY FinitePart
<1>6. IsFiniteSet(Unread(b) \ {e}) /\ Cardinality(Unread(b) \ {e}) = Cardinality(Unread(b)) - 1
  BY <1>3, <1>5, FS_RemoveElement
<1>7. Unread(b)' \in SUBSET (Unread(b) \ {e})
  BY <1>3, <1>4
<1>8. /\ Cardinality(Unread(b)') <= Cardinality(Unread(b) \ {e})
      /\ Cardinality(Unread(b)') \in Nat
  BY <1>6, <1>7, FS_Subset, FS_CardinalityType
<1> QED
  BY <1>5, <1>6, <1>8

LEMMA SorterDuplicatesNothing ==
    ASSUME TypeOK, SorterInv, HeapInv, BatchInv, PlacesInv, PlacesInv', Sorter
    PROVE  Total' <= Total
<1> USE DEF inVars, outVars, readerVars, sorterVars, writerVars
<1> DEFINE u0 == Unread0'  u1 == Unread1'  h == InHeap'  f == InFrozen'  o0 == Out0'  o1 == Out1'
<1>1. UNCHANGED <<readerVars, loaded>> /\ Waiting' = Waiting
  <2>1. UNCHANGED <<readerVars, loaded>>
    BY SorterFrame
  <2> QED
    BY <2>1 DEF Waiting, Pending, NotLoaded, NextToLoad
<1>2. /\ Waiting \in Nat /\ Unread0 \in Nat /\ Unread1 \in Nat /\ InHeap \in Nat
      /\ InFrozen \in Nat /\ Out0 \in Nat /\ Out1 \in Nat /\ Written \in Nat
      /\ u0 \in Nat /\ u1 \in Nat /\ h \in Nat /\ f \in Nat /\ o0 \in Nat /\ o1 \in Nat
  BY DEF PlacesInv
<1> HIDE DEF u0, u1, h, f, o0, o1
<1>3. 0 \in Bufs /\ 1 \in Bufs /\ cur_out \in {0, 1} /\ src \in {0, 1}
      /\ IsFiniteSet(heap) /\ IsFiniteSet(frozen)
  BY DEF Bufs, TypeOK, HeapInv
<1>4. CASE Emit
  <2>1. PICK e \in heap :
          /\ e \in Elements
          /\ out_buffer' = [out_buffer EXCEPT ![cur_out] = Append(out_buffer[cur_out], e)]
          /\ file' = file
          /\ \/ heap' = heap \ {e} /\ frozen' = frozen
             \/ heap = {e} /\ heap' = frozen /\ frozen' = {}
    BY <1>4, EmitAdds
  <2>2. UNCHANGED inVars
    BY <1>4 DEF Emit
  <2>3. u0 = Unread0 /\ u1 = Unread1 /\ Written' = Written
    BY <2>1, <2>2 DEF Unread0, Unread1, Unread, ElementAt, Written, u0, u1
  <2>4. h + f = InHeap + InFrozen - 1
    <3>1. CASE heap' = heap \ {e} /\ frozen' = frozen
      <4>1. Cardinality(heap \ {e}) = Cardinality(heap) - 1
        BY <1>3, <2>1, FS_RemoveElement
      <4>2. h = InHeap - 1 /\ f = InFrozen
        BY <3>1, <4>1 DEF InHeap, InFrozen, h, f
      <4> QED
        BY <1>2, <4>2
    <3>2. CASE heap = {e} /\ heap' = frozen /\ frozen' = {}
      <4>1. InHeap = 1 /\ h = InFrozen /\ f = 0
        BY <3>2, FS_Singleton, FS_EmptySet DEF InHeap, InFrozen, h, f
      <4> QED
        BY <1>2, <4>1
    <3> QED
      BY <2>1, <3>1, <3>2
  <2>5. o0 + o1 = Out0 + Out1 + 1
    <3>1. out_buffer \in [Bufs -> Seq(Elements)] /\ cur_out \in Bufs
      BY DEF TypeOK
    <3>2. /\ Len(out_buffer'[cur_out]) = Len(out_buffer[cur_out]) + 1
          /\ \A b \in Bufs : b # cur_out => out_buffer'[b] = out_buffer[b]
      <4>1. out_buffer[cur_out] \in Seq(Elements)
        BY <3>1
      <4> QED
        BY <2>1, <3>1, <4>1
    <3>3. \/ o0 = Out0 + 1 /\ o1 = Out1
          \/ o1 = Out1 + 1 /\ o0 = Out0
      BY <1>3, <3>2 DEF Out0, Out1, o0, o1
    <3> QED
      BY <1>2, <3>3
  <2>6. Total' = Waiting + Unread0 + Unread1 + h + f + o0 + o1 + Written
    BY <1>1, <2>3 DEF Total, u0, u1, h, f, o0, o1
  <2> QED
    BY <1>2, <2>4, <2>5, <2>6 DEF Total
<1>5. CASE FillHeap \/ Absorb
  <2>1. UNCHANGED <<outVars, src>> /\ src \in Bufs
    BY <1>5 DEF FillHeap, Absorb, TypeOK
  <2>2. o0 = Out0 /\ o1 = Out1 /\ Written' = Written
    BY <2>1 DEF Out0, Out1, Written, o0, o1
  <2>3. CASE HasNext(src) /\ Cardinality(heap) < OUT_SWITCH_THRESHOLD
    <3> DEFINE e == ElementAt(src, consumed[src])
    <3>1. consumed' = [consumed EXCEPT ![src] = @ + 1]
      BY <1>5, <2>3 DEF FillHeap, Absorb
    <3>2. \/ heap' = heap \cup {e} /\ frozen' = frozen
          \/ heap' = heap /\ frozen' = frozen \cup {e}
      BY <1>5, <2>3 DEF FillHeap, Absorb
    <3> HIDE DEF e
    <3>3. h + f <= InHeap + InFrozen + 1
      <4>1. /\ Cardinality(heap \cup {e}) <= Cardinality(heap) + 1
            /\ Cardinality(frozen \cup {e}) <= Cardinality(frozen) + 1
        BY <1>3, AddOne
      <4>2. \/ h <= InHeap + 1 /\ f = InFrozen
            \/ f <= InFrozen + 1 /\ h = InHeap
        BY <3>2, <4>1 DEF InHeap, InFrozen, h, f
      <4> QED
        BY <1>2, <4>2
    <3>4. loaded' = loaded /\ HasNext(src)
      BY <1>1, <2>3
    <3>5. /\ Cardinality(Unread(src)') <= Cardinality(Unread(src)) - 1
          /\ \A c \in Bufs \ {src} : Unread(c)' = Unread(c)
      BY <2>1, <3>1, <3>4, FewerUnread, UnreadAfterNext DEF PlacesInv
    <3>6. u0 + u1 <= Unread0 + Unread1 - 1
      <4>1. CASE src = 0
        <5>1. Unread(src)' = Unread(0)' /\ Unread(src) = Unread(0)
          BY <2>1, <4>1 DEF Unread, ElementAt
        <5>2. u0 <= Unread0 - 1 /\ u1 = Unread1
          BY <1>3, <3>5, <4>1, <5>1 DEF Unread0, Unread1, u0, u1
        <5> QED
          BY <1>2, <5>2
      <4>2. CASE src = 1
        <5>1. Unread(src)' = Unread(1)' /\ Unread(src) = Unread(1)
          BY <2>1, <4>2 DEF Unread, ElementAt
        <5>2. u1 <= Unread1 - 1 /\ u0 = Unread0
          BY <1>3, <3>5, <4>2, <5>1 DEF Unread0, Unread1, u0, u1
        <5> QED
          BY <1>2, <5>2
      <4> QED
        BY <1>3, <4>1, <4>2
    <3>7. Total' = Waiting + u0 + u1 + h + f + Out0 + Out1 + Written
      BY <1>1, <2>2 DEF Total, u0, u1, h, f, o0, o1
    <3> QED
      BY <1>2, <3>3, <3>6, <3>7 DEF Total
  <2>4. CASE ~(HasNext(src) /\ Cardinality(heap) < OUT_SWITCH_THRESHOLD)
    <3>1. UNCHANGED <<heap, frozen, consumed>>
      BY <1>5, <2>4 DEF FillHeap, Absorb
    <3>2. u0 = Unread0 /\ u1 = Unread1 /\ h = InHeap /\ f = InFrozen
      BY <1>1, <3>1 DEF Unread0, Unread1, Unread, ElementAt, InHeap, InFrozen, h, f, u0, u1
    <3>3. Total' = Total
      BY <1>1, <2>2, <3>2 DEF Total, u0, u1, h, f, o0, o1
    <3> QED
      BY <1>2, <3>3 DEF Total
  <2> QED
    BY <2>3, <2>4
<1>6. CASE ~(Emit \/ FillHeap \/ Absorb)
  <2>1. UNCHANGED <<consumed, out_buffer, file>>
    BY <1>6 DEF Sorter, Scan0, Scan1, CheckDone, SetDoneSorting, ReleaseInput,
         AwaitOutput, PublishOutput, FindRefill, PublishRest
  <2>2. /\ u0 = Unread0 /\ u1 = Unread1
        /\ o0 = Out0 /\ o1 = Out1 /\ Written' = Written
    BY <1>1, <2>1 DEF Unread0, Unread1, Unread, ElementAt, Out0, Out1, Written, u0, u1, o0, o1
  <2>3. \/ heap' = heap /\ frozen' = frozen
        \/ heap = {} /\ heap' = frozen /\ frozen' = {}
    <3>1. CASE Scan1
      BY <3>1 DEF Scan1, SorterInv
    <3>2. CASE PublishOutput
      BY <3>2 DEF PublishOutput, AfterOutput
    <3>3. CASE ~(Scan1 \/ PublishOutput)
      BY <1>6, <3>3 DEF Sorter, Scan0, CheckDone, SetDoneSorting, ReleaseInput,
           AwaitOutput, FindRefill, PublishRest
    <3> QED
      BY <3>1, <3>2, <3>3
  <2>4. \/ h = InHeap /\ f = InFrozen
        \/ InHeap = 0 /\ h = InFrozen /\ f = 0
    BY <2>3, FS_EmptySet DEF InHeap, InFrozen, h, f
  <2>5. h + f = InHeap + InFrozen
    BY <1>2, <2>4
  <2>6. Total' = Waiting + Unread0 + Unread1 + h + f + Out0 + Out1 + Written
    BY <1>1, <2>2 DEF Total, u0, u1, h, f, o0, o1
  <2> QED
    BY <1>2, <2>5, <2>6 DEF Total
<1> QED
  BY <1>4, <1>5, <1>6

LEMMA WriterDuplicatesNothing ==
    ASSUME TypeOK, PlacesInv, PlacesInv', Writer
    PROVE  Total' <= Total
<1> USE DEF inVars, outVars, readerVars, sorterVars, writerVars
<1> DEFINE o0 == Out0'  o1 == Out1'  w == Written'
<1>1. UNCHANGED <<inVars, readerVars, heap, frozen>>
  BY WriterFrame
<1>2. /\ Waiting' = Waiting /\ Unread0' = Unread0 /\ Unread1' = Unread1
      /\ InHeap' = InHeap /\ InFrozen' = InFrozen
  BY <1>1 DEF Waiting, Pending, NotLoaded, NextToLoad, Unread0, Unread1, Unread, ElementAt,
              InHeap, InFrozen
<1>3. /\ Waiting \in Nat /\ Unread0 \in Nat /\ Unread1 \in Nat /\ InHeap \in Nat
      /\ InFrozen \in Nat /\ Out0 \in Nat /\ Out1 \in Nat /\ Written \in Nat
      /\ o0 \in Nat /\ o1 \in Nat /\ w \in Nat
  BY DEF PlacesInv
<1> HIDE DEF o0, o1, w
<1>4. ASSUME NEW b \in Bufs, FlushDirect(b)
      PROVE  o0 + o1 + w = Out0 + Out1 + Written
  <2>1. /\ out_buffer \in [Bufs -> Seq(Elements)] /\ file \in Seq(Elements)
        /\ out_buffer[b] \in Seq(Elements)
    BY DEF TypeOK
  <2>2. Len(file') = Len(file) + Len(out_buffer[b])
    BY <1>4, <2>1, ConcatProperties DEF FlushDirect
  <2>3. out_buffer'[b] = << >> /\ \A c \in Bufs : c # b => out_buffer'[c] = out_buffer[c]
    BY <1>4, <2>1 DEF FlushDirect
  <2>4. Len(out_buffer'[b]) = 0
    BY <2>3
  <2>5. b \in {0, 1} /\ 0 \in Bufs /\ 1 \in Bufs
    BY DEF Bufs
  <2>6. \/ o0 = 0 /\ o1 = Out1 /\ w = Written + Out0
        \/ o1 = 0 /\ o0 = Out0 /\ w = Written + Out1
    BY <2>2, <2>3, <2>4, <2>5 DEF Out0, Out1, Written, o0, o1, w
  <2> QED
    BY <1>3, <2>6
<1>5. o0 + o1 + w = Out0 + Out1 + Written
  <2>1. CASE Flush
    BY <1>4, <2>1 DEF Flush, TypeOK
  <2>2. CASE DrainRest /\ HasRest(drained)
    BY <1>4, <2>2 DEF DrainRest, TypeOK
  <2>3. CASE ~Flush /\ ~(DrainRest /\ HasRest(drained))
    <3>1. UNCHANGED <<file, out_buffer>>
      BY <2>3 DEF Writer, WriterLoop, AwaitBatch, AwaitDone, Recheck, ReleaseOutput,
                  DrainRelease, DrainRest
    <3> QED
      BY <1>3, <3>1 DEF Out0, Out1, Written, o0, o1, w
  <2> QED
    BY <2>1, <2>2, <2>3
<1>6. Total' = Waiting + Unread0 + Unread1 + InHeap + InFrozen + o0 + o1 + w
  BY <1>2 DEF Total, o0, o1, w
<1> QED
  BY <1>3, <1>5, <1>6 DEF Total

(* The places together hold at most as many different elements as elements. *)
LEMMA HeldBound ==
    ASSUME TypeOK, PlacesInv
    PROVE  Cardinality(Held) <= Total
<1> DEFINE R0 == Range(out_buffer[0])  R1 == Range(out_buffer[1])  RF == Range(file)
           s1 == Pending \cup Unread(0)
           s2 == s1 \cup Unread(1)
           s3 == s2 \cup heap
           s4 == s3 \cup frozen
           s5 == s4 \cup R0
           s6 == s5 \cup R1
           s7 == s6 \cup RF
<1>1. Held = s7
  BY DEF Held, InMemory
<1>2. 0 \in Bufs /\ 1 \in Bufs
  BY DEF Bufs
<1>3. out_buffer[0] \in Seq(Elements) /\ out_buffer[1] \in Seq(Elements) /\ file \in Seq(Elements)
  BY <1>2 DEF TypeOK
<1>4. /\ R0 \subseteq Elements /\ Cardinality(R0) \in Nat /\ Cardinality(R0) <= Out0
      /\ R1 \subseteq Elements /\ Cardinality(R1) \in Nat /\ Cardinality(R1) <= Out1
      /\ RF \subseteq Elements /\ Cardinality(RF) \in Nat /\ Cardinality(RF) <= Written
  BY <1>3, RangeBound DEF Out0, Out1, Written
<1> HIDE DEF R0, R1, RF
<1>5. /\ Pending \subseteq Elements /\ Unread(0) \subseteq Elements /\ Unread(1) \subseteq Elements
      /\ heap \subseteq Elements /\ frozen \subseteq Elements
  BY <1>2 DEF PlacesInv, TypeOK
<1>6. /\ s1 \subseteq Elements /\ Cardinality(s1) \in Nat /\ Cardinality(s1) <= Waiting + Unread0
  BY <1>5, UnionBound DEF Waiting, Unread0
<1> HIDE DEF s1
<1>7. /\ s2 \subseteq Elements /\ Cardinality(s2) \in Nat
      /\ Cardinality(s2) <= Cardinality(s1) + Unread1
  BY <1>5, <1>6, UnionBound DEF Unread1
<1> HIDE DEF s2
<1>8. /\ s3 \subseteq Elements /\ Cardinality(s3) \in Nat
      /\ Cardinality(s3) <= Cardinality(s2) + InHeap
  BY <1>5, <1>7, UnionBound DEF InHeap
<1> HIDE DEF s3
<1>9. /\ s4 \subseteq Elements /\ Cardinality(s4) \in Nat
      /\ Cardinality(s4) <= Cardinality(s3) + InFrozen
  BY <1>5, <1>8, UnionBound DEF InFrozen
<1> HIDE DEF s4
<1>10. /\ s5 \subseteq Elements /\ Cardinality(s5) \in Nat
       /\ Cardinality(s5) <= Cardinality(s4) + Cardinality(R0)
  BY <1>4, <1>9, UnionBound
<1> HIDE DEF s5
<1>11. /\ s6 \subseteq Elements /\ Cardinality(s6) \in Nat
       /\ Cardinality(s6) <= Cardinality(s5) + Cardinality(R1)
  BY <1>4, <1>10, UnionBound
<1> HIDE DEF s6
<1>12. /\ Cardinality(s7) \in Nat /\ Cardinality(s7) <= Cardinality(s6) + Cardinality(RF)
  BY <1>4, <1>11, UnionBound
<1> HIDE DEF s7
<1>13. /\ Waiting \in Nat /\ Unread0 \in Nat /\ Unread1 \in Nat /\ InHeap \in Nat
       /\ InFrozen \in Nat /\ Out0 \in Nat /\ Out1 \in Nat /\ Written \in Nat
  BY DEF PlacesInv
<1>14. Cardinality(s7) <= Total
  BY <1>4, <1>6, <1>7, <1>8, <1>9, <1>10, <1>11, <1>12, <1>13 DEF Total
<1> QED
  BY <1>1, <1>14

(* No thread takes an element twice, for any tasks, values and interleaving:     *)
(* no step adds to the places together, and they always hold every element.      *)
THEOREM ElementsOnce == Spec => []NothingDuplicated
<1> DEFINE All == Cardinality(Elements)  Enough == Total <= All
<1>1. All \in Nat
  BY ElementsFinite, FS_CardinalityType
<1>2. TypeOK => PlacesInv
  BY Places
<1> DEFINE Counted == Total \in Nat
<1>3. PlacesInv => Counted
  BY DEF PlacesInv, Total
<1> HIDE DEF Counted
<1>4. PlacesInv' => Counted'
  BY <1>3, PTL
<1> USE DEF Counted
<1>5. Init => Enough
  <2> SUFFICES ASSUME Init PROVE Enough
    OBVIOUS
  <2>1. NotLoaded = DOMAIN Tasks
    BY TaskFacts DEF Init, NotLoaded, NextToLoad
  <2>2. Pending = Elements
    BY <2>1 DEF Pending, Elements
  <2>3. Unread(0) = {} /\ Unread(1) = {} /\ heap = {} /\ frozen = {}
    BY DEF Init, Unread, Bufs
  <2>4. out_buffer[0] = << >> /\ out_buffer[1] = << >> /\ file = << >>
    BY DEF Init, Bufs
  <2>5. /\ Waiting = All /\ Unread0 = 0 /\ Unread1 = 0 /\ InHeap = 0 /\ InFrozen = 0
        /\ Out0 = 0 /\ Out1 = 0 /\ Written = 0
    BY <2>2, <2>3, <2>4, FS_EmptySet
       DEF Waiting, Unread0, Unread1, InHeap, InFrozen, Out0, Out1, Written
  <2> HIDE DEF All
  <2> QED
    BY <1>1, <2>5 DEF Total
<1>6. ControlInv /\ PlacesInv /\ PlacesInv' /\ Enough /\ [Next]_vars => Enough'
  <2> SUFFICES ASSUME ControlInv, PlacesInv, PlacesInv', Enough, [Next]_vars
               PROVE  Enough'
    OBVIOUS
  <2> DEFINE t == Total'
  <2>1. t <= Total
    <3>1. CASE Reader
      BY <3>1, ReaderDuplicatesNothing DEF ControlInv
    <3>2. CASE Sorter
      BY <3>2, SorterDuplicatesNothing DEF ControlInv
    <3>3. CASE Writer
      BY <3>3, WriterDuplicatesNothing DEF ControlInv
    <3>4. CASE UNCHANGED vars
      <4>1. Total' = Total
        BY <3>4 DEF vars, inVars, outVars, readerVars, sorterVars, writerVars, Total, Waiting,
             Unread0, Unread1, InHeap, InFrozen, Out0, Out1, Written, Pending, NotLoaded,
             NextToLoad, Unread, ElementAt
      <4> QED
        BY <1>3, <4>1
    <3> QED
      BY <3>1, <3>2, <3>3, <3>4 DEF Next, Joined
  <2>2. t \in Nat /\ Total \in Nat
    BY <1>3, <1>4
  <2> HIDE DEF t, All
  <2>3. t <= All
    BY <1>1, <2>1, <2>2
  <2> QED
    BY <2>3 DEF t, All
<1>7. ControlInv /\ PlacesInv /\ NothingDropped /\ Enough => NothingDuplicated
  <2> SUFFICES ASSUME ControlInv, PlacesInv, NothingDropped, Enough
               PROVE  NothingDuplicated
    OBVIOUS
  <2>1. Held = Elements
    BY DEF NothingDropped, Held
  <2>2. All <= Total
    BY <2>1, HeldBound DEF ControlInv
  <2>3. Total \in Nat
    BY <1>3
  <2> HIDE DEF All
  <2>4. All = Total
    BY <1>1, <2>2, <2>3
  <2> QED
    BY <2>4 DEF NothingDuplicated, Total, All, Waiting, Unread0, Unread1, InHeap, InFrozen,
                Out0, Out1, Written
<1>8. ControlInv => PlacesInv
  BY <1>2 DEF ControlInv
<1> HIDE DEF Enough
<1>9. Spec => []Enough
  BY <1>5, <1>6, <1>8, ControlInvariant, PTL DEF Spec
<1> QED
  BY <1>7, <1>8, <1>9, ControlInvariant, ElementsKept, PTL

----------------------------------------------------------------------------
(* What the initial runs cost *)

Last(s) == s[Len(s)]

(* The elements of S can all follow what has been produced, in the same run. *)
Follow(S) == Produced # << >> /\ \A o \in S : key[Last(Produced)] <= key[o]

(* Chunks loaded and read to their end. *)
Open(b) == IF HasNext(b) THEN 1 ELSE 0
Loaded == Len(Tasks) - Cardinality(NotLoaded)
ReadUp == Loaded - Open(0) - Open(1)

(* Runs begun, and those the heap and the frozen area are going to begin. *)
Runs == RunCount(Produced)
HeapRuns == IF heap = {} \/ Follow(heap) THEN 0 ELSE 1
FrozenRuns == IF frozen = {} THEN 0 ELSE 1
Length == Len(Produced)

(* A number of runs is paid for by the chunks read to their end and by the n    *)
(* elements that have gone through full heaps.                                  *)
Paid(runs, n) ==
    OUT_SWITCH_THRESHOLD * runs <= OUT_SWITCH_THRESHOLD * ReadUp + n

(* What is paid at each point of sorter.  A refilled heap has been paid for by  *)
(* its predecessor; the elements in it pay for what its absorbing freezes.      *)
PaidInv ==
    /\ spc \in {"publish", "refill0", "refill1", "absorb"} =>
          Produced # << >> /\ last_output = key[Last(Produced)]
    /\ spc \in {"await_out", "emit"} => heap # {}
    /\ spc \notin {"refill0", "refill1", "absorb", "fill"} =>
          Paid(Runs + HeapRuns + FrozenRuns, Length + InHeap)
    /\ spc \in {"refill0", "refill1"} => Paid(Runs + HeapRuns, Length)
    /\ spc = "absorb" /\ HasNext(src) => Paid(Runs + HeapRuns, Length)
    /\ spc = "absorb" /\ ~HasNext(src) => Paid(Runs + HeapRuns + 1, Length)
    /\ spc = "fill" /\ HasNext(src) => Paid(Runs + FrozenRuns, Length)
    /\ spc = "fill" /\ ~HasNext(src) => Paid(Runs + HeapRuns + FrozenRuns, Length)

NumbersInv ==
    /\ Produced \in Seq(Elements)
    /\ Runs \in Nat /\ HeapRuns \in {0, 1} /\ FrozenRuns \in {0, 1}
    /\ Length \in Nat /\ InHeap \in Nat /\ ReadUp \in Int

(* A longer sequence has one more run at most, none if it goes on rising. *)
LEMMA RunCountGrows ==
    ASSUME TypeOK, NEW s \in Seq(Elements), NEW e \in Elements
    PROVE  /\ RunCount(s) \in Nat
           /\ RunCount(Append(s, e)) \in Nat
           /\ RunCount(Append(s, e)) <= RunCount(s) + 1
           /\ s # << >> /\ key[Last(s)] <= key[e] => RunCount(Append(s, e)) <= RunCount(s)
<1> DEFINE n == Len(s)  t == Append(s, e)
           D == {i \in 1 .. n - 1 : key[s[i]] > key[s[i + 1]]}
           E == {i \in 1 .. n : key[t[i]] > key[t[i + 1]]}
<1>1. /\ n \in Nat /\ Len(t) = n + 1 /\ t # << >> /\ t[n + 1] = e
      /\ \A i \in 1 .. n : t[i] = s[i]
      /\ s = << >> <=> n = 0
  OBVIOUS
<1>2. /\ RunCount(s) = IF n = 0 THEN 0 ELSE 1 + Cardinality(D)
      /\ RunCount(t) = 1 + Cardinality(E)
  <2>1. Len(t) - 1 = n
    BY <1>1
  <2> QED
    BY <1>1, <2>1 DEF RunCount
<1>3. E \subseteq D \cup {n} /\ D \subseteq 1 .. n - 1 /\ n \notin D
  <2>1. ASSUME NEW i \in 1 .. n, i # n PROVE i \in 1 .. n - 1 /\ t[i] = s[i] /\ t[i + 1] = s[i + 1]
    <3>1. i \in 1 .. n - 1 /\ i + 1 \in 1 .. n
      BY <1>1, <2>1
    <3> QED
      BY <1>1, <3>1
  <2>2. n \notin 1 .. n - 1
    BY <1>1
  <2> QED
    BY <2>1, <2>2
<1>4. n # 0 /\ key[Last(s)] <= key[e] => n \notin E
  <2>1. SUFFICES ASSUME n # 0, key[Last(s)] <= key[e] PROVE ~(key[t[n]] > key[t[n + 1]])
    OBVIOUS
  <2>2. t[n] = Last(s) /\ t[n + 1] = e /\ Last(s) \in Elements
    BY <1>1, <2>1 DEF Last
  <2>3. key[Last(s)] \in Int /\ key[e] \in Int
    BY <2>2, KeysAssumption DEF TypeOK
  <2> QED
    BY <2>1, <2>2, <2>3
<1>5. n = 0 => E = {}
  BY <1>1
<1> HIDE DEF D, E, t
<1>6. IsFiniteSet(D) /\ Cardinality(D) \in Nat
  <2>1. n - 1 \in Int /\ 1 \in Int
    BY <1>1
  <2>2. IsFiniteSet(1 .. n - 1)
    BY <2>1, FS_Interval
  <2> QED
    BY <1>3, <2>2, FS_Subset, FS_CardinalityType
<1>7. IsFiniteSet(D \cup {n}) /\ Cardinality(D \cup {n}) = Cardinality(D) + 1
  BY <1>3, <1>6, FS_AddElement
<1>8. IsFiniteSet(E) /\ Cardinality(E) \in Nat /\ Cardinality(E) <= Cardinality(D) + 1
  BY <1>3, <1>7, FS_Subset, FS_CardinalityType
<1>9. n # 0 /\ key[Last(s)] <= key[e] => Cardinality(E) <= Cardinality(D)
  <2>1. n \notin E => E \subseteq D
    BY <1>3
  <2> QED
    BY <1>4, <1>6, <2>1, FS_Subset
<1>10. n = 0 => Cardinality(E) = 0
  BY <1>5, FS_EmptySet
<1>11. s # << >> => n # 0
  BY <1>1
<1> HIDE DEF n
<1>12. /\ RunCount(s) \in Nat /\ RunCount(t) \in Nat /\ RunCount(t) <= RunCount(s) + 1
  BY <1>2, <1>6, <1>8, <1>10
<1>13. n # 0 /\ key[Last(s)] <= key[e] => RunCount(t) <= RunCount(s)
  BY <1>2, <1>6, <1>8, <1>9
<1> QED
  BY <1>11, <1>12, <1>13 DEF t

LEMMA TimesMonotone ==
    ASSUME NEW t \in Nat, NEW a \in Int, NEW b \in Int, a <= b
    PROVE  t * a <= t * b
OBVIOUS

(* Fewer runs, more chunks or more elements are paid for as well. *)
LEMMA PaidStill ==
    ASSUME NEW t \in Nat, NEW r \in Int, NEW q \in Int, NEW n \in Int,
           NEW r2 \in Int, NEW q2 \in Int, NEW n2 \in Int,
           t * r <= t * q + n, r2 - q2 <= r - q, n <= n2
    PROVE  t * r2 <= t * q2 + n2
<1>1. t * (r2 - q2) <= t * (r - q)
  <2>1. r2 - q2 \in Int /\ r - q \in Int
    OBVIOUS
  <2> QED
    BY <2>1, TimesMonotone
<1>2. t * (r2 - q2) = t * r2 - t * q2 /\ t * (r - q) = t * r - t * q
  OBVIOUS
<1>3. t * r \in Int /\ t * q \in Int /\ t * r2 \in Int /\ t * q2 \in Int
  OBVIOUS
<1> DEFINE tr == t * r  tq == t * q  tr2 == t * r2  tq2 == t * q2
<1>4. tr2 - tq2 <= tr - tq /\ tr <= tq + n
  BY <1>1, <1>2
<1> HIDE DEF tr, tq, tr2, tq2
<1>5. tr2 <= tq2 + n2
  BY <1>3, <1>4 DEF tr, tq, tr2, tq2
<1> QED
  BY <1>5 DEF tr2, tq2

(* A full heap pays for one run more. *)
LEMMA FullHeapPays ==
    ASSUME NEW t \in Nat, NEW r \in Int, NEW q \in Int, NEW n \in Int, NEW c \in Int,
           t * r <= t * q + n, t <= c
    PROVE  t * (r + 1) <= t * q + (n + c)
<1>1. t * (r + 1) = t * r + t /\ t * r \in Int /\ t * q \in Int
  OBVIOUS
<1> DEFINE tr == t * r  tq == t * q
<1>2. tr \in Int /\ tq \in Int /\ tr <= tq + n
  BY <1>1
<1> HIDE DEF tr, tq
<1>3. tr + t <= tq + (n + c)
  BY <1>2
<1> QED
  BY <1>1, <1>3 DEF tr, tq


LEMMA Numbers == TypeOK /\ HeapInv => NumbersInv
<1> SUFFICES ASSUME TypeOK, HeapInv PROVE NumbersInv
  OBVIOUS
<1>1. /\ out_buffer \in [Bufs -> Seq(Elements)] /\ file \in Seq(Elements)
      /\ cur_out \in Bufs /\ Other(cur_out) \in Bufs
  BY OtherBuf DEF TypeOK
<1>2. Produced \in Seq(Elements)
  <2>1. out_buffer[cur_out] \in Seq(Elements) /\ out_buffer[Other(cur_out)] \in Seq(Elements)
    BY <1>1
  <2> DEFINE a == out_buffer[cur_out]  b == out_buffer[Other(cur_out)]
  <2>2. Produced = file \o (a \o b) \/ Produced = file \o (b \o a)
    BY DEF Produced
  <2> HIDE DEF a, b
  <2>3. a \in Seq(Elements) /\ b \in Seq(Elements)
    BY <2>1 DEF a, b
  <2>4. a \o b \in Seq(Elements) /\ b \o a \in Seq(Elements)
    BY <2>3, ConcatProperties
  <2>5. file \o (a \o b) \in Seq(Elements) /\ file \o (b \o a) \in Seq(Elements)
    BY <1>1, <2>4, ConcatProperties
  <2> QED
    BY <2>2, <2>5
<1>3. Length \in Nat
  BY <1>2 DEF Length
<1>4. Runs \in Nat
  <2>1. 1 .. Len(Produced) - 1 \subseteq 1 .. Len(Produced)
    BY <1>2
  <2>2. IsFiniteSet(1 .. Len(Produced) - 1)
    <3>1. Len(Produced) - 1 \in Int /\ 1 \in Int
      BY <1>2
    <3> QED
      BY <3>1, FS_Interval
  <2> DEFINE D == {i \in 1 .. Len(Produced) - 1 : key[Produced[i]] > key[Produced[i + 1]]}
  <2>3. D \subseteq 1 .. Len(Produced) - 1
    OBVIOUS
  <2>4. Runs = IF Produced = << >> THEN 0 ELSE 1 + Cardinality(D)
    BY DEF Runs, RunCount
  <2> HIDE DEF D
  <2>5. Cardinality(D) \in Nat
    BY <2>2, <2>3, FS_Subset, FS_CardinalityType
  <2> QED
    BY <2>4, <2>5
<1>5. InHeap \in Nat
  BY FS_CardinalityType DEF HeapInv, InHeap
<1>6. ReadUp \in Int
  <2>1. NotLoaded \subseteq 1 .. Len(Tasks)
    BY TaskFacts DEF NotLoaded
  <2>2. IsFiniteSet(1 .. Len(Tasks))
    BY TaskFacts, FS_Interval
  <2>3. Cardinality(NotLoaded) \in Nat
    BY <2>1, <2>2, FS_Subset, FS_CardinalityType
  <2>4. Open(0) \in Int /\ Open(1) \in Int
    BY DEF Open
  <2> QED
    BY <2>3, <2>4, TaskFacts DEF ReadUp, Loaded
<1> QED
  BY <1>2, <1>3, <1>4, <1>5, <1>6 DEF NumbersInv, HeapRuns, FrozenRuns

(* Emitting the top of the heap begins a run only if the heap was to begin one. *)
LEMMA EmitPays ==
    ASSUME TypeOK, SorterInv, HeapInv, BatchInv, NumbersInv, NumbersInv', PaidInv, Emit
    PROVE  PaidInv'
<1> DEFINE t == OUT_SWITCH_THRESHOLD  q == ReadUp
           r2 == Runs'  h2 == HeapRuns'  f2 == FrozenRuns'  n2 == Length'  c2 == InHeap'
<1>1. PICK e \in heap :
        /\ e \in Elements /\ IsTop(e) /\ last_output' = key[e]
        /\ Produced' = Append(Produced, e)
        /\ \/ /\ spc' = "publish" /\ heap' = heap \ {e} /\ frozen' = frozen
           \/ /\ spc' = "emit" /\ heap # {e} /\ heap' = heap \ {e} /\ frozen' = frozen
           \/ /\ spc' = "refill0" /\ heap = {e} /\ heap' = frozen /\ frozen' = {}
  BY EmitProduces
<1>2. /\ spc = "emit" /\ key' = key /\ UNCHANGED <<inVars, readerVars>>
  BY DEF Emit
<1>3. ReadUp' = q
  BY <1>2 DEF inVars, readerVars, ReadUp, Loaded, Open, HasNext, NotLoaded, NextToLoad
<1>4. /\ Produced \in Seq(Elements) /\ Runs \in Nat /\ HeapRuns \in {0, 1}
      /\ FrozenRuns \in {0, 1} /\ Length \in Nat /\ InHeap \in Nat /\ q \in Int /\ t \in Nat
      /\ r2 \in Nat /\ h2 \in {0, 1} /\ f2 \in {0, 1} /\ n2 \in Nat /\ c2 \in Nat
  BY SizesAssumption DEF NumbersInv
<1>5. t * (Runs + HeapRuns + FrozenRuns) <= t * q + (Length + InHeap)
  BY <1>2 DEF PaidInv, Paid
<1>6. /\ Produced' # << >> /\ Last(Produced') = e /\ Len(Produced') = Len(Produced) + 1
  BY <1>1, <1>4 DEF Last
<1>7. r2 <= Runs + HeapRuns
  <2>1. /\ RunCount(Append(Produced, e)) \in Nat
        /\ RunCount(Append(Produced, e)) <= RunCount(Produced) + 1
        /\ Produced # << >> /\ key[Last(Produced)] <= key[e] =>
             RunCount(Append(Produced, e)) <= RunCount(Produced)
    BY <1>1, <1>4, RunCountGrows
  <2>2. Runs' = RunCount(Append(Produced, e))
    BY <1>1, <1>2 DEF Runs, RunCount
  <2>3. HeapRuns = 0 => Produced # << >> /\ key[Last(Produced)] <= key[e]
    BY <1>1 DEF HeapRuns, Follow
  <2> HIDE DEF r2
  <2>4. r2 = RunCount(Append(Produced, e)) /\ Runs = RunCount(Produced)
    BY <2>2 DEF r2, Runs
  <2> QED
    BY <1>4, <2>1, <2>3, <2>4
<1>8. n2 = Length + 1
  BY <1>6 DEF Length
<1>9. IsFiniteSet(heap) /\ InHeap = Cardinality(heap) /\ c2 = Cardinality(heap')
  BY DEF HeapInv, InHeap
<1>10. Produced' # << >> /\ last_output' = key'[Last(Produced')]
  BY <1>1, <1>2, <1>6
<1>11. ASSUME heap' = heap \ {e}, frozen' = frozen
       PROVE  t * (r2 + h2 + f2) <= t * q + (n2 + c2)
  <2>1. \A o \in heap' : key'[Last(Produced')] <= key'[o]
    BY <1>1, <1>2, <1>6, <1>11 DEF IsTop
  <2>2. h2 = 0
    BY <1>6, <2>1 DEF HeapRuns, Follow, Last
  <2>3. c2 = InHeap - 1
    BY <1>9, <1>11, FS_RemoveElement
  <2>4. f2 = FrozenRuns
    BY <1>11 DEF FrozenRuns
  <2> HIDE DEF r2, h2, f2, n2, c2, t, q
  <2>5. /\ (r2 + h2 + f2) - q <= (Runs + HeapRuns + FrozenRuns) - q
        /\ Length + InHeap <= n2 + c2
        /\ r2 + h2 + f2 \in Int /\ Runs + HeapRuns + FrozenRuns \in Int
        /\ n2 + c2 \in Int /\ Length + InHeap \in Int
    BY <1>4, <1>7, <1>8, <2>2, <2>3, <2>4
  <2> QED
    BY <1>4, <1>5, <2>5, PaidStill
<1>12. ASSUME heap = {e}, heap' = frozen, frozen' = {}
       PROVE  t * (r2 + h2) <= t * q + n2
  <2>1. InHeap = 1
    BY <1>9, <1>12, FS_Singleton
  <2>2. h2 <= FrozenRuns
    <3>1. h2 \in {0, 1} /\ (heap' = {} => h2 = 0)
      BY <1>4 DEF HeapRuns
    <3>2. heap' = {} \/ FrozenRuns = 1
      BY <1>12 DEF FrozenRuns
    <3> HIDE DEF h2
    <3> QED
      BY <1>4, <3>1, <3>2
  <2> HIDE DEF r2, h2, f2, n2, c2, t, q
  <2>3. /\ (r2 + h2) - q <= (Runs + HeapRuns + FrozenRuns) - q
        /\ Length + InHeap <= n2
        /\ r2 + h2 \in Int /\ Runs + HeapRuns + FrozenRuns \in Int
        /\ Length + InHeap \in Int
    BY <1>4, <1>7, <1>8, <2>1, <2>2
  <2> QED
    BY <1>4, <1>5, <2>3, PaidStill
<1> HIDE DEF r2, h2, f2, n2, c2, t, q
<1>13. CASE spc' \in {"publish", "emit"} /\ heap' = heap \ {e} /\ frozen' = frozen
  <2>1. Paid(Runs + HeapRuns + FrozenRuns, Length + InHeap)'
    BY <1>3, <1>11, <1>13 DEF Paid, r2, h2, f2, n2, c2, t
  <2>2. spc' \in {"await_out", "emit"} => heap' # {}
    <3>1. heap # {e} => heap \ {e} # {}
      OBVIOUS
    <3>2. spc' = "emit" => heap # {e}
      BY <1>1
    <3> QED
      BY <1>13, <3>1, <3>2
  <2>3. spc' \notin {"refill0", "refill1", "absorb", "fill"}
    BY <1>13
  <2> QED
    BY <1>10, <2>1, <2>2, <2>3 DEF PaidInv
<1>14. CASE spc' = "refill0" /\ heap = {e} /\ heap' = frozen /\ frozen' = {}
  <2>1. Paid(Runs + HeapRuns, Length)'
    BY <1>3, <1>12, <1>14 DEF Paid, r2, h2, n2, t
  <2> QED
    BY <1>10, <1>14, <2>1 DEF PaidInv
<1> QED
  BY <1>1, <1>13, <1>14


LEMMA SameRuns ==
    ASSUME UNCHANGED <<key, heap, frozen>>, Produced' = Produced
    PROVE  /\ Runs' = Runs /\ HeapRuns' = HeapRuns /\ FrozenRuns' = FrozenRuns
           /\ Length' = Length /\ InHeap' = InHeap
BY DEF Runs, RunCount, HeapRuns, FrozenRuns, Follow, Length, InHeap, Last

(* The frozen elements become the heap when it is empty. *)
LEMMA MovePays ==
    ASSUME NumbersInv, NumbersInv', heap = {}, heap' = frozen, frozen' = {},
           key' = key, Produced' = Produced, ReadUp' = ReadUp,
           Paid(Runs + HeapRuns + FrozenRuns, Length + InHeap)
    PROVE  /\ Paid(Runs + HeapRuns, Length)'
           /\ Paid(Runs + HeapRuns + FrozenRuns, Length + InHeap)'
<1> DEFINE t == OUT_SWITCH_THRESHOLD  q == ReadUp
           h2 == HeapRuns'  f2 == FrozenRuns'  c2 == InHeap'
<1>1. Runs' = Runs /\ Length' = Length
  BY DEF Runs, RunCount, Length
<1>2. /\ Runs \in Nat /\ HeapRuns \in {0, 1}
      /\ FrozenRuns \in {0, 1} /\ Length \in Nat /\ InHeap \in Nat /\ q \in Int /\ t \in Nat
      /\ h2 \in {0, 1} /\ f2 \in {0, 1} /\ c2 \in Nat
  BY SizesAssumption DEF NumbersInv
<1>3. HeapRuns = 0 /\ InHeap = 0 /\ f2 = 0
  BY FS_EmptySet DEF HeapRuns, InHeap, FrozenRuns
<1>4. h2 <= FrozenRuns
  <2>1. h2 \in {0, 1} /\ (heap' = {} => h2 = 0)
    BY <1>2 DEF HeapRuns
  <2>2. heap' = {} \/ FrozenRuns = 1
    BY DEF FrozenRuns
  <2> HIDE DEF h2
  <2> QED
    BY <1>2, <2>1, <2>2
<1>5. t * (Runs + HeapRuns + FrozenRuns) <= t * q + (Length + InHeap)
  BY DEF Paid
<1> HIDE DEF t, q, h2, f2, c2
<1>6. t * (Runs + h2) <= t * q + Length
  <2>1. /\ (Runs + h2) - q <= (Runs + HeapRuns + FrozenRuns) - q
        /\ Length + InHeap <= Length
        /\ Runs + h2 \in Int /\ Runs + HeapRuns + FrozenRuns \in Int
        /\ Length + InHeap \in Int
    BY <1>2, <1>3, <1>4
  <2> QED
    BY <1>2, <1>5, <2>1, PaidStill
<1>7. t * (Runs + h2 + f2) <= t * q + (Length + c2)
  <2>1. /\ (Runs + h2 + f2) - q <= (Runs + HeapRuns + FrozenRuns) - q
        /\ Length + InHeap <= Length + c2
        /\ Runs + h2 + f2 \in Int /\ Runs + HeapRuns + FrozenRuns \in Int
        /\ Length + InHeap \in Int /\ Length + c2 \in Int
    BY <1>2, <1>3, <1>4
  <2> QED
    BY <1>2, <1>5, <2>1, PaidStill
<1> QED
  BY <1>1, <1>6, <1>7 DEF Paid, t, q, h2, f2, c2

(* Publishing an input loads a chunk and opens it. *)
LEMMA ReaderReadUp ==
    ASSUME TypeOK, ReaderInv, InputInv, Reader
    PROVE  /\ ReadUp' = ReadUp
           /\ \A b \in Bufs : in_active[b] => HasNext(b)' = HasNext(b)
<1> USE DEF inVars, outVars, readerVars, sorterVars, writerVars
<1>1. CASE LoadChunk
  <2>1. /\ idx \in 1 .. Len(Tasks) /\ next_task = idx + 1 /\ idx \in Int
        /\ ~in_active[input] /\ input \in Bufs /\ rpc = "load"
    BY <1>1, TaskFacts DEF LoadChunk, ReaderInv, TypeOK
  <2>2. /\ loaded'[input] = idx /\ consumed'[input] = 0
        /\ \A b \in Bufs \ {input} :
             loaded'[b] = loaded[b] /\ consumed'[b] = consumed[b]
        /\ UNCHANGED <<next_task, idx, input>> /\ rpc' = "publish"
    BY <1>1, <2>1 DEF LoadChunk, TypeOK
  <2>3. \A b \in Bufs \ {input} : HasNext(b)' = HasNext(b)
    BY <2>2 DEF HasNext
  <2>4. ~HasNext(input)
    BY <2>1 DEF InputInv
  <2>5. idx # 0 /\ 0 < Tasks[idx].count
    BY <2>1, TaskFacts
  <2>6. loaded'[input] # 0 /\ consumed'[input] < Tasks[loaded'[input]].count
    BY <2>2, <2>5
  <2>7. \A b \in Bufs : b = input => HasNext(b)'
    BY <2>6 DEF HasNext
  <2>8. NotLoaded = idx .. Len(Tasks) /\ NotLoaded' = idx + 1 .. Len(Tasks)
    <3>1. /\ NotLoaded = {i \in 1 .. Len(Tasks) : i >= idx}
          /\ NotLoaded' = {i \in 1 .. Len(Tasks) : i >= idx + 1}
      BY <2>1, <2>2, TaskFacts DEF NotLoaded, NextToLoad
    <3> QED
      BY <2>1, <3>1, TaskFacts
  <2>9. /\ Cardinality(NotLoaded) = Len(Tasks) - idx + 1
        /\ Cardinality(NotLoaded') = Len(Tasks) - idx
    <3>1. idx + 1 \in Int /\ Len(Tasks) \in Int /\ idx <= Len(Tasks)
      BY <2>1, TaskFacts
    <3>2. /\ Cardinality(idx .. Len(Tasks)) =
               IF idx > Len(Tasks) THEN 0 ELSE Len(Tasks) - idx + 1
          /\ Cardinality(idx + 1 .. Len(Tasks)) =
               IF idx + 1 > Len(Tasks) THEN 0 ELSE Len(Tasks) - (idx + 1) + 1
      BY <2>1, <3>1, FS_Interval
    <3> QED
      BY <2>1, <2>8, <3>1, <3>2
  <2> DEFINE l2 == Loaded'  a0 == Open(0)'  a1 == Open(1)'
  <2>10. Loaded = idx - 1 /\ l2 = idx
    BY <2>1, <2>9, TaskFacts DEF Loaded
  <2>11. \/ a0 = Open(0) + 1 /\ a1 = Open(1)
         \/ a1 = Open(1) + 1 /\ a0 = Open(0)
    <3>1. CASE input = 0
      <4>1. ~HasNext(0) /\ HasNext(0)' /\ HasNext(1)' = HasNext(1)
        BY <2>3, <2>4, <2>7, <3>1 DEF Bufs
      <4> QED
        BY <4>1 DEF Open
    <3>2. CASE input = 1
      <4>1. ~HasNext(1) /\ HasNext(1)' /\ HasNext(0)' = HasNext(0)
        BY <2>3, <2>4, <2>7, <3>2 DEF Bufs
      <4> QED
        BY <4>1 DEF Open
    <3> QED
      BY <2>1, <3>1, <3>2 DEF Bufs
  <2>12. Open(0) \in Nat /\ Open(1) \in Nat
    BY DEF Open
  <2>13. ReadUp = Loaded - Open(0) - Open(1) /\ ReadUp' = l2 - a0 - a1
    BY DEF ReadUp
  <2> HIDE DEF l2, a0, a1
  <2>14. ReadUp' = ReadUp
    BY <2>1, <2>10, <2>11, <2>12, <2>13
  <2>15. \A b \in Bufs : in_active[b] => b # input
    BY <2>1
  <2> QED
    BY <2>3, <2>14, <2>15
<1>2. CASE ~LoadChunk
  <2>1. UNCHANGED <<loaded, consumed>>
    BY <1>2 DEF Reader, Fetch, FindFree, PublishInput, FinishReading
  <2>2. HasNext(0)' = HasNext(0) /\ HasNext(1)' = HasNext(1) /\ \A b \in Bufs : HasNext(b)' = HasNext(b)
    BY <2>1 DEF HasNext
  <2>3. NotLoaded' = NotLoaded
    <3>1. CASE Fetch
      <4>1. /\ next_task \in Nat /\ rpc = "fetch" /\ rpc' \in {"finish", "find0"}
            /\ idx' = next_task /\ next_task' = next_task + 1
            /\ rpc' = "finish" => next_task > Len(Tasks)
        BY <3>1 DEF Fetch, TypeOK
      <4>2. NextToLoad = next_task
        BY <4>1 DEF NextToLoad
      <4>3. CASE rpc' = "finish"
        <5>1. NextToLoad' = next_task + 1
          BY <4>1, <4>3 DEF NextToLoad
        <5>2. \A i \in DOMAIN Tasks : ~(i >= next_task) /\ ~(i >= next_task + 1)
          BY <4>1, <4>3, TaskFacts
        <5> QED
          BY <4>2, <5>1, <5>2 DEF NotLoaded
      <4>4. CASE rpc' = "find0"
        <5>1. NextToLoad' = next_task
          BY <4>1, <4>4 DEF NextToLoad
        <5> QED
          BY <4>2, <5>1 DEF NotLoaded
      <4> QED
        BY <4>1, <4>3, <4>4
    <3>2. CASE FindFree(0, "find0", "find1") \/ FindFree(1, "find1", "find0")
      BY <3>2 DEF FindFree, NotLoaded, NextToLoad
    <3>3. CASE PublishInput \/ FinishReading
      BY <3>3 DEF PublishInput, FinishReading, NotLoaded, NextToLoad
    <3> QED
      BY <1>2, <3>1, <3>2, <3>3 DEF Reader
  <2> QED
    BY <2>2, <2>3 DEF ReadUp, Loaded, Open
<1> QED
  BY <1>1, <1>2


(* Reading the last element of a chunk reads it up. *)
LEMMA NextReadUp ==
    ASSUME TypeOK, NEW b \in Bufs, HasNext(b), UNCHANGED <<loaded, readerVars>>,
           consumed' = [consumed EXCEPT ![b] = @ + 1], ReadUp \in Int
    PROVE  /\ HasNext(b)' => ReadUp' = ReadUp
           /\ ~HasNext(b)' => ReadUp' = ReadUp + 1
<1> DEFINE a0 == Open(0)'  a1 == Open(1)'
<1>1. \A c \in Bufs : c # b => consumed'[c] = consumed[c]
  BY DEF TypeOK
<1>2. \A c \in Bufs : c # b => HasNext(c)' = HasNext(c)
  BY <1>1 DEF HasNext
<1>3. Loaded' = Loaded
  BY DEF readerVars, Loaded, NotLoaded, NextToLoad
<1>4. /\ ReadUp = Loaded - Open(0) - Open(1) /\ ReadUp' = Loaded - a0 - a1
      /\ Open(0) \in {0, 1} /\ Open(1) \in {0, 1} /\ a0 \in {0, 1} /\ a1 \in {0, 1}
  BY <1>3 DEF ReadUp, Open
<1>5. Loaded \in Int
  <2>1. NotLoaded \subseteq 1 .. Len(Tasks) /\ IsFiniteSet(1 .. Len(Tasks))
    BY TaskFacts, FS_Interval DEF NotLoaded
  <2>2. Cardinality(NotLoaded) \in Nat
    BY <2>1, FS_Subset, FS_CardinalityType
  <2> QED
    BY <2>2, TaskFacts DEF Loaded
<1>6. CASE HasNext(b)'
  <2>1. HasNext(0)' = HasNext(0) /\ HasNext(1)' = HasNext(1)
    <3>1. \A c \in Bufs : HasNext(c) = HasNext(c)'
      <4> TAKE c \in Bufs
      <4>1. CASE c = b
        <5>1. HasNext(c)' = HasNext(b)' /\ HasNext(c) = HasNext(b)
          BY <4>1 DEF HasNext
        <5> QED
          BY <1>6, <5>1
      <4> QED
        BY <1>2, <4>1
    <3> QED
      BY <3>1 DEF Bufs
  <2>2. a0 = Open(0) /\ a1 = Open(1)
    BY <2>1 DEF Open
  <2> QED
    BY <1>4, <1>6, <2>2
<1>7. CASE ~HasNext(b)'
  <2>1. \/ a0 = Open(0) - 1 /\ a1 = Open(1)
        \/ a1 = Open(1) - 1 /\ a0 = Open(0)
    <3>1. CASE b = 0
      <4>1. HasNext(0) /\ ~HasNext(0)' /\ HasNext(1)' = HasNext(1)
        BY <1>2, <1>7, <3>1 DEF Bufs, HasNext
      <4> QED
        BY <4>1 DEF Open
    <3>2. CASE b = 1
      <4>1. HasNext(1) /\ ~HasNext(1)' /\ HasNext(0)' = HasNext(0)
        BY <1>2, <1>7, <3>2 DEF Bufs, HasNext
      <4> QED
        BY <4>1 DEF Open
    <3> QED
      BY <3>1, <3>2 DEF Bufs
  <2> HIDE DEF a0, a1
  <2>2. ReadUp' = ReadUp + 1
    <3> DEFINE ld == Loaded  o0 == Open(0)  o1 == Open(1)  ru == ReadUp  ru1 == ReadUp'
    <3>1. /\ ru1 = ld - a0 - a1 /\ ru = ld - o0 - o1
          /\ ld \in Int /\ o0 \in Nat /\ o1 \in Nat
      BY <1>4, <1>5
    <3>2. \/ a0 = o0 - 1 /\ a1 = o1
          \/ a1 = o1 - 1 /\ a0 = o0
      BY <2>1
    <3> HIDE DEF ld, o0, o1, ru, ru1
    <3>3. ru1 = ru + 1
      BY <3>1, <3>2
    <3> QED
      BY <3>3 DEF ru, ru1
  <2> QED
    BY <1>7, <2>2
<1> QED
  BY <1>6, <1>7

(* A step of filling an empty heap. *)
LEMMA FillPays ==
    ASSUME TypeOK, SorterInv, SorterInv', NumbersInv, NumbersInv', PaidInv, FillHeap,
           Produced' = Produced
    PROVE  PaidInv'
<1> DEFINE t == OUT_SWITCH_THRESHOLD  q == ReadUp  q2 == ReadUp'
           h2 == HeapRuns'
<1>1. /\ spc = "fill" /\ UNCHANGED <<key, loaded, readerVars, frozen, src>> /\ src \in Bufs
  BY DEF FillHeap, TypeOK
<1>2. /\ Runs \in Nat /\ HeapRuns \in {0, 1}
      /\ FrozenRuns \in {0, 1} /\ Length \in Nat /\ InHeap \in Nat /\ q \in Int /\ t \in Nat
      /\ h2 \in {0, 1} /\ q2 \in Int
  BY SizesAssumption DEF NumbersInv
<1>3. Runs' = Runs /\ Length' = Length /\ FrozenRuns' = FrozenRuns
  BY <1>1 DEF Runs, RunCount, Length, FrozenRuns
<1>4. CASE HasNext(src) /\ Cardinality(heap) < OUT_SWITCH_THRESHOLD
  <2>1. consumed' = [consumed EXCEPT ![src] = @ + 1] /\ spc' = "fill"
    BY <1>1, <1>4 DEF FillHeap
  <2>2. /\ HasNext(src)' => q2 = q
        /\ ~HasNext(src)' => q2 = q + 1
    BY <1>1, <1>2, <1>4, <2>1, NextReadUp
  <2>3. t * (Runs + FrozenRuns) <= t * q + Length
    BY <1>1, <1>4 DEF PaidInv, Paid
  <2> HIDE DEF t, q, q2, h2
  <2>4. ~HasNext(src)' => t * (Runs + h2 + FrozenRuns) <= t * q2 + Length
    <3>1. SUFFICES ASSUME q2 = q + 1 PROVE t * (Runs + h2 + FrozenRuns) <= t * q2 + Length
      BY <2>2
    <3>2. /\ (Runs + h2 + FrozenRuns) - q2 <= (Runs + FrozenRuns) - q
          /\ Runs + h2 + FrozenRuns \in Int /\ Runs + FrozenRuns \in Int
          /\ Length \in Int /\ Length <= Length
      BY <1>2, <3>1
    <3> QED
      BY <1>2, <2>3, <3>2, PaidStill
  <2>5. HasNext(src)' => Paid(Runs + FrozenRuns, Length)'
    BY <1>3, <2>2, <2>3 DEF Paid, t, q, q2
  <2>6. ~HasNext(src)' => Paid(Runs + HeapRuns + FrozenRuns, Length)'
    BY <1>3, <2>4 DEF Paid, t, q2, h2
  <2> QED
    BY <2>1, <2>5, <2>6 DEF PaidInv
<1>5. CASE ~(HasNext(src) /\ Cardinality(heap) < OUT_SWITCH_THRESHOLD)
  <2>1. UNCHANGED <<heap, consumed>> /\ spc' = "release"
    BY <1>1, <1>5 DEF FillHeap
  <2>2. ~HasNext(src)' /\ HasNext(src)' = HasNext(src)
    BY <1>1, <2>1 DEF SorterInv, HasNext
  <2>3. HeapRuns' = HeapRuns /\ InHeap' = InHeap /\ ReadUp' = ReadUp
    BY <1>1, <2>1 DEF HeapRuns, Follow, Last, InHeap, ReadUp, Loaded, Open, HasNext, readerVars,
                      NotLoaded, NextToLoad
  <2>4. t * (Runs + HeapRuns + FrozenRuns) <= t * q + Length
    BY <1>1, <2>2 DEF PaidInv, Paid
  <2> HIDE DEF t, q, q2, h2
  <2>5. t * (Runs + HeapRuns + FrozenRuns) <= t * q + (Length + InHeap)
    <3>1. /\ (Runs + HeapRuns + FrozenRuns) - q <= (Runs + HeapRuns + FrozenRuns) - q
          /\ Runs + HeapRuns + FrozenRuns \in Int
          /\ Length \in Int /\ Length + InHeap \in Int /\ Length <= Length + InHeap
      BY <1>2
    <3> QED
      BY <1>2, <2>4, <3>1, PaidStill
  <2>6. Paid(Runs + HeapRuns + FrozenRuns, Length + InHeap)'
    BY <1>3, <2>3, <2>5 DEF Paid, t, q
  <2> QED
    BY <2>1, <2>6 DEF PaidInv
<1> QED
  BY <1>4, <1>5

(* A step of absorbing: an element that can follow joins the heap, another one  *)
(* waits frozen, to begin a run paid for by the chunk or by the full heap.      *)
LEMMA AbsorbPays ==
    ASSUME TypeOK, SorterInv, HeapInv, WithinLimits', NumbersInv, NumbersInv', PaidInv, Absorb,
           Produced' = Produced
    PROVE  PaidInv'
<1> DEFINE t == OUT_SWITCH_THRESHOLD  q == ReadUp  q2 == ReadUp'
           h2 == HeapRuns'
<1>1. /\ spc = "absorb" /\ UNCHANGED <<key, loaded, readerVars, src, last_output>> /\ src \in Bufs
      /\ Produced # << >> /\ last_output = key[Last(Produced)]
  BY DEF Absorb, TypeOK, PaidInv
<1>2. /\ Runs \in Nat /\ HeapRuns \in {0, 1}
      /\ FrozenRuns \in {0, 1} /\ Length \in Nat /\ InHeap \in Nat /\ q \in Int /\ t \in Nat
      /\ h2 \in {0, 1} /\ q2 \in Int
  BY SizesAssumption DEF NumbersInv
<1>3. Runs' = Runs /\ Length' = Length
  BY <1>1 DEF Runs, RunCount, Length
<1>4. CASE HasNext(src) /\ Cardinality(heap) < OUT_SWITCH_THRESHOLD
  <2> DEFINE e == ElementAt(src, consumed[src])
  <2>1. consumed' = [consumed EXCEPT ![src] = @ + 1]
    BY <1>1, <1>4 DEF Absorb
  <2>2. e \in Elements
    BY <1>1, <1>4, NextIsElement
  <2>3. /\ \/ /\ key[e] >= last_output /\ heap' = heap \cup {e} /\ spc' = spc
           \/ /\ heap' = heap /\ spc' = IF frozen_input' THEN LoopHead(heap) ELSE spc
    BY <1>1, <1>4 DEF Absorb
  <2>4. ~frozen_input'
    BY DEF WithinLimits
  <2>5. spc' = "absorb"
    BY <1>1, <2>3, <2>4
  <2>6. /\ HasNext(src)' => q2 = q
        /\ ~HasNext(src)' => q2 = q + 1
    BY <1>1, <1>2, <1>4, <2>1, NextReadUp
  <2>7. t * (Runs + HeapRuns) <= t * q + Length
    BY <1>1, <1>4 DEF PaidInv, Paid
  <2>8. h2 <= HeapRuns
    <3>1. HeapRuns = 0 => h2 = 0
      <4>1. SUFFICES ASSUME heap = {} \/ Follow(heap) PROVE heap' = {} \/ Follow(heap)'
        BY DEF HeapRuns
      <4>2. key[Last(Produced)] \in Int /\ key[e] \in Int
        <5>1. Last(Produced) \in Elements
          BY <1>1 DEF NumbersInv, Last
        <5> QED
          BY <2>2, <5>1, KeysAssumption DEF TypeOK
      <4>3. key[e] >= last_output => key[Last(Produced)] <= key[e]
        BY <1>1, <4>2
      <4> HIDE DEF e
      <4>4. \A o \in heap : key[Last(Produced)] <= key[o]
        BY <4>1 DEF Follow
      <4>5. \/ heap' = heap
            \/ \A o \in heap' : key[Last(Produced)] <= key[o]
        BY <2>3, <4>3, <4>4
      <4> QED
        BY <1>1, <4>1, <4>5 DEF Follow, Last
    <3> HIDE DEF h2
    <3> QED
      BY <1>2, <3>1
  <2> HIDE DEF t, q, q2, h2
  <2>9. HasNext(src)' => t * (Runs + h2) <= t * q2 + Length
    <3>1. SUFFICES ASSUME q2 = q PROVE t * (Runs + h2) <= t * q2 + Length
      BY <2>6
    <3>2. /\ (Runs + h2) - q2 <= (Runs + HeapRuns) - q
          /\ Runs + h2 \in Int /\ Runs + HeapRuns \in Int
          /\ Length \in Int /\ Length <= Length
      BY <1>2, <2>8, <3>1
    <3> QED
      BY <1>2, <2>7, <3>2, PaidStill
  <2>10. ~HasNext(src)' => t * (Runs + h2 + 1) <= t * q2 + Length
    <3>1. SUFFICES ASSUME q2 = q + 1 PROVE t * (Runs + h2 + 1) <= t * q2 + Length
      BY <2>6
    <3>2. /\ (Runs + h2 + 1) - q2 <= (Runs + HeapRuns) - q
          /\ Runs + h2 + 1 \in Int /\ Runs + HeapRuns \in Int
          /\ Length \in Int /\ Length <= Length
      BY <1>2, <2>8, <3>1
    <3> QED
      BY <1>2, <2>7, <3>2, PaidStill
  <2>11. HasNext(src)' => Paid(Runs + HeapRuns, Length)'
    BY <1>3, <2>9 DEF Paid, t, q2, h2
  <2>12. ~HasNext(src)' => Paid(Runs + HeapRuns + 1, Length)'
    BY <1>3, <2>10 DEF Paid, t, q2, h2
  <2>13. Produced' # << >> /\ last_output' = key'[Last(Produced')]
    BY <1>1
  <2> QED
    BY <2>5, <2>11, <2>12, <2>13 DEF PaidInv
<1>5. CASE ~(HasNext(src) /\ Cardinality(heap) < OUT_SWITCH_THRESHOLD)
  <2>1. UNCHANGED <<heap, frozen, consumed>> /\ spc' = LoopHead(heap)
    BY <1>1, <1>5 DEF Absorb
  <2>2. /\ HeapRuns' = HeapRuns /\ InHeap' = InHeap /\ ReadUp' = ReadUp
        /\ FrozenRuns' = FrozenRuns
    BY <1>1, <2>1 DEF HeapRuns, FrozenRuns, Follow, Last, InHeap, ReadUp, Loaded, Open, HasNext,
                      readerVars, NotLoaded, NextToLoad
  <2>3. t * (Runs + HeapRuns + 1) <= t * q + (Length + InHeap)
    <3>1. CASE ~HasNext(src)
      <4>1. t * (Runs + HeapRuns + 1) <= t * q + Length
        BY <1>1, <3>1 DEF PaidInv, Paid
      <4> HIDE DEF t, q, q2, h2
      <4>2. /\ (Runs + HeapRuns + 1) - q <= (Runs + HeapRuns + 1) - q
            /\ Runs + HeapRuns + 1 \in Int
            /\ Length \in Int /\ Length + InHeap \in Int /\ Length <= Length + InHeap
        BY <1>2
      <4> QED
        BY <1>2, <4>1, <4>2, PaidStill
    <3>2. CASE HasNext(src)
      <4>1. t * (Runs + HeapRuns) <= t * q + Length
        BY <1>1, <3>2 DEF PaidInv, Paid
      <4>2. t <= InHeap
        <5>1. ~(InHeap < t)
          BY <1>5, <3>2 DEF InHeap
        <5> HIDE DEF t
        <5> QED
          BY <1>2, <5>1
      <4> HIDE DEF t, q, q2, h2
      <4>3. Runs + HeapRuns \in Int /\ Length \in Int /\ InHeap \in Int
        BY <1>2
      <4> QED
        BY <1>2, <4>1, <4>2, <4>3, FullHeapPays
    <3> QED
      BY <3>1, <3>2
  <2> HIDE DEF t, q, q2, h2
  <2>4. t * (Runs + HeapRuns + FrozenRuns) <= t * q + (Length + InHeap)
    <3>1. /\ (Runs + HeapRuns + FrozenRuns) - q <= (Runs + HeapRuns + 1) - q
          /\ Runs + HeapRuns + FrozenRuns \in Int /\ Runs + HeapRuns + 1 \in Int
          /\ Length + InHeap \in Int /\ Length + InHeap <= Length + InHeap
      BY <1>2
    <3> QED
      BY <1>2, <2>3, <3>1, PaidStill
  <2>5. Paid(Runs + HeapRuns + FrozenRuns, Length + InHeap)'
    BY <1>3, <2>2, <2>4 DEF Paid, t, q
  <2>6. spc' \in {"scan0", "await_out"} /\ (spc' = "await_out" => heap' # {})
    BY <2>1 DEF LoopHead
  <2> QED
    BY <2>5, <2>6 DEF PaidInv
<1> QED
  BY <1>4, <1>5


(* The steps of sorter that move no element, and those that only look. *)
LEMMA OtherSorterPays ==
    ASSUME TypeOK, SorterInv, HeapInv, WithinLimits, NumbersInv, NumbersInv', PaidInv,
           Sorter, ~(Emit \/ FillHeap \/ Absorb), Produced' = Produced
    PROVE  PaidInv'
<1> USE DEF inVars, outVars, readerVars, sorterVars, writerVars
<1>1. /\ UNCHANGED <<key, loaded, consumed, readerVars>>
  BY DEF Sorter, Scan0, Scan1, CheckDone, SetDoneSorting, ReleaseInput,
         AwaitOutput, PublishOutput, FindRefill, PublishRest
<1>2. ReadUp' = ReadUp
  BY <1>1 DEF ReadUp, Loaded, Open, HasNext, NotLoaded, NextToLoad
<1>3. CASE UNCHANGED <<heap, frozen>>
  <2>1. /\ Runs' = Runs /\ HeapRuns' = HeapRuns /\ FrozenRuns' = FrozenRuns
        /\ Length' = Length /\ InHeap' = InHeap
    BY <1>1, <1>3, SameRuns
  <2>2. Paid(Runs + HeapRuns + FrozenRuns, Length + InHeap)
          => Paid(Runs + HeapRuns + FrozenRuns, Length + InHeap)'
    BY <1>2, <2>1 DEF Paid
  <2>3. Paid(Runs + HeapRuns, Length) => Paid(Runs + HeapRuns, Length)'
    BY <1>2, <2>1 DEF Paid
  <2>4. CASE Scan0 \/ Scan1
    <3>1. /\ heap = {} /\ spc \in {"scan0", "scan1"}
          /\ spc' \in {"fill", "scan1", "await_out", "check_done"}
      BY <2>4 DEF Scan0, Scan1, SorterInv
    <3>2. Paid(Runs + HeapRuns + FrozenRuns, Length + InHeap)
      BY <3>1 DEF PaidInv
    <3>3. CASE spc' = "fill"
      <4>1. HeapRuns = 0 /\ InHeap = 0
        BY <3>1, FS_EmptySet DEF HeapRuns, InHeap
      <4>2. Runs + 0 + FrozenRuns = Runs + FrozenRuns /\ Length + 0 = Length
        BY DEF NumbersInv
      <4>3. Paid(Runs + FrozenRuns, Length) /\ Paid(Runs + HeapRuns + FrozenRuns, Length)
        BY <3>2, <4>1, <4>2
      <4>4. Paid(Runs + FrozenRuns, Length)' /\ Paid(Runs + HeapRuns + FrozenRuns, Length)'
        BY <1>2, <2>1, <4>3 DEF Paid
      <4> QED
        BY <3>3, <4>4 DEF PaidInv
    <3>4. CASE spc' \in {"scan1", "check_done"}
      BY <2>2, <3>2, <3>4 DEF PaidInv
    <3>5. CASE spc' = "await_out"
      <4>1. frozen # {} /\ heap' = frozen
        BY <2>4, <3>5 DEF Scan0, Scan1
      <4> QED
        BY <1>3, <3>1, <4>1
    <3> QED
      BY <3>1, <3>3, <3>4, <3>5
  <2>5. CASE CheckDone \/ SetDoneSorting \/ PublishRest
    <3>1. /\ spc \in {"check_done", "set_done", "final"}
          /\ spc' \in {"scan0", "set_done", "final", "done"}
      BY <2>5 DEF CheckDone, SetDoneSorting, PublishRest
    <3>2. Paid(Runs + HeapRuns + FrozenRuns, Length + InHeap)
      BY <3>1 DEF PaidInv
    <3> QED
      BY <2>2, <3>1, <3>2 DEF PaidInv
  <2>6. CASE ReleaseInput \/ AwaitOutput
    <3>1. /\ spc \in {"release", "await_out"}
          /\ spc' \in {"scan0", "await_out", "emit"}
          /\ spc' \in {"await_out", "emit"} => heap' # {}
      BY <1>3, <2>6 DEF ReleaseInput, AwaitOutput, LoopHead, PaidInv
    <3>2. Paid(Runs + HeapRuns + FrozenRuns, Length + InHeap)
      BY <3>1 DEF PaidInv
    <3> QED
      BY <2>2, <3>1, <3>2 DEF PaidInv
  <2>7. CASE PublishOutput
    <3>1. /\ spc = "publish" /\ spc' \in {"scan0", "await_out", "refill0"}
          /\ spc' = "await_out" => heap' # {}
          /\ spc' = "refill0" => heap = {} /\ heap' = frozen /\ frozen' = {}
          /\ last_output' = last_output
      BY <1>3, <2>7 DEF PublishOutput, AfterOutput, LoopHead
    <3>2. Paid(Runs + HeapRuns + FrozenRuns, Length + InHeap)
      BY <3>1 DEF PaidInv
    <3>3. CASE spc' = "refill0"
      <4>1. Paid(Runs + HeapRuns, Length)'
        BY <1>1, <1>2, <3>1, <3>2, <3>3, MovePays
      <4>2. Produced' # << >> /\ last_output' = key'[Last(Produced')]
        BY <1>1, <3>1 DEF PaidInv
      <4> QED
        BY <3>3, <4>1, <4>2 DEF PaidInv
    <3> QED
      BY <2>2, <3>1, <3>2, <3>3 DEF PaidInv
  <2>8. CASE FindRefill(0, "refill0", "refill1") \/ FindRefill(1, "refill1", LoopHead(heap))
    <3>1. /\ spc \in {"refill0", "refill1"} /\ last_output' = last_output
          /\ spc' \in {"absorb", "refill1", "scan0", "await_out"}
          /\ spc' = "await_out" => heap' # {}
      BY <1>3, <2>8 DEF FindRefill, LoopHead
    <3>2. Paid(Runs + HeapRuns, Length)
      BY <3>1 DEF PaidInv
    <3>3. Produced' # << >> /\ last_output' = key'[Last(Produced')]
      BY <1>1, <3>1 DEF PaidInv
    <3>4. CASE spc' = "absorb"
      <4>1. HasNext(src')
        BY <2>8, <3>1, <3>4 DEF FindRefill, LoopHead
      <4>2. HasNext(src)'
        BY <1>1, <4>1 DEF HasNext
      <4> QED
        BY <2>3, <3>2, <3>3, <3>4, <4>2 DEF PaidInv
    <3>5. CASE spc' = "refill1"
      BY <2>3, <3>2, <3>3, <3>5 DEF PaidInv
    <3>6. CASE spc' \in {"scan0", "await_out"}
      <4>1. FrozenRuns = 0
        BY <3>1 DEF HeapInv, FrozenRuns
      <4> DEFINE t == OUT_SWITCH_THRESHOLD  q == ReadUp
      <4>2. /\ Runs \in Nat /\ HeapRuns \in {0, 1} /\ Length \in Nat /\ InHeap \in Nat
            /\ q \in Int /\ t \in Nat
        BY SizesAssumption DEF NumbersInv
      <4>3. t * (Runs + HeapRuns) <= t * q + Length
        BY <3>2 DEF Paid
      <4> HIDE DEF t, q
      <4>4. t * (Runs + HeapRuns + FrozenRuns) <= t * q + (Length + InHeap)
        <5>1. /\ (Runs + HeapRuns + FrozenRuns) - q <= (Runs + HeapRuns) - q
              /\ Runs + HeapRuns + FrozenRuns \in Int /\ Runs + HeapRuns \in Int
              /\ Length \in Int /\ Length + InHeap \in Int /\ Length <= Length + InHeap
          BY <4>1, <4>2
        <5> QED
          BY <4>2, <4>3, <5>1, PaidStill
      <4>5. Paid(Runs + HeapRuns + FrozenRuns, Length + InHeap)'
        BY <2>2, <4>4 DEF Paid, t, q
      <4> QED
        BY <3>1, <3>6, <4>5 DEF PaidInv
    <3> QED
      BY <3>1, <3>4, <3>5, <3>6
  <2> QED
    BY <2>4, <2>5, <2>6, <2>7, <2>8 DEF Sorter
<1>4. CASE ~UNCHANGED <<heap, frozen>>
  <2>1. /\ spc \in {"scan1", "publish"} /\ heap = {} /\ heap' = frozen /\ frozen' = {}
        /\ \/ /\ spc' = "await_out" /\ frozen # {}
           \/ /\ spc = "publish" /\ spc' = "refill0" /\ last_output' = last_output
    BY <1>4 DEF Sorter, Scan0, Scan1, CheckDone, SetDoneSorting, ReleaseInput, AwaitOutput,
                PublishOutput, AfterOutput, FindRefill, PublishRest, SorterInv
  <2>2. Paid(Runs + HeapRuns + FrozenRuns, Length + InHeap)
    BY <2>1 DEF PaidInv
  <2>3. Paid(Runs + HeapRuns, Length)' /\ Paid(Runs + HeapRuns + FrozenRuns, Length + InHeap)'
    BY <1>1, <1>2, <2>1, <2>2, MovePays
  <2>4. CASE spc' = "await_out" /\ frozen # {}
    BY <2>1, <2>3, <2>4 DEF PaidInv
  <2>5. CASE spc = "publish" /\ spc' = "refill0" /\ last_output' = last_output
    <3>1. Produced' # << >> /\ last_output' = key'[Last(Produced')]
      BY <1>1, <2>5 DEF PaidInv
    <3> QED
      BY <2>3, <2>5, <3>1 DEF PaidInv
  <2> QED
    BY <2>1, <2>4, <2>5
<1> QED
  BY <1>3, <1>4

(* The steps of reader and writer. *)
LEMMA OthersPay ==
    ASSUME TypeOK, ReaderInv, InputInv, SorterInv, PaidInv, Produced' = Produced,
           Reader \/ Writer \/ UNCHANGED vars
    PROVE  PaidInv'
<1>1. UNCHANGED <<key, sorterVars>>
  BY ReaderFrame, WriterFrame DEF vars
<1>2. /\ ReadUp' = ReadUp
      /\ \A b \in Bufs : in_active[b] => HasNext(b)' = HasNext(b)
  <2>1. CASE Reader
    BY <2>1, ReaderReadUp
  <2>2. CASE Writer \/ UNCHANGED vars
    <3>1. UNCHANGED <<inVars, readerVars>>
      BY <2>2, WriterFrame
    <3> QED
      BY <3>1 DEF inVars, readerVars, ReadUp, Loaded, Open, HasNext, NotLoaded, NextToLoad
  <2> QED
    BY <2>1, <2>2
<1>3. /\ UNCHANGED <<spc, heap, frozen, last_output, src>>
  BY <1>1 DEF sorterVars
<1>4. /\ Runs' = Runs /\ HeapRuns' = HeapRuns /\ FrozenRuns' = FrozenRuns
      /\ Length' = Length /\ InHeap' = InHeap
  BY <1>1, <1>3, SameRuns
<1>5. spc \in {"fill", "absorb"} => HasNext(src)' = HasNext(src)
  <2>1. spc \in {"fill", "absorb"} => in_active[src] /\ src \in Bufs
    BY DEF SorterInv, TypeOK
  <2>2. ASSUME NEW b \in Bufs, b = src, HasNext(b)' = HasNext(b)
        PROVE  HasNext(src)' = HasNext(src)
    BY <1>3, <2>2 DEF HasNext
  <2> QED
    BY <1>2, <2>1, <2>2
<1> QED
  BY <1>1, <1>2, <1>3, <1>4, <1>5 DEF PaidInv, Paid


(* What has been read up has been loaded, so the runs made are paid for by the  *)
(* chunks loaded.                                                               *)
LEMMA PaidByLoaded ==
    ASSUME NumbersInv, PaidInv
    PROVE  Paid(Runs, Length + InHeap)
<1> DEFINE t == OUT_SWITCH_THRESHOLD  q == ReadUp  h == HeapRuns  f == FrozenRuns
<1>1. /\ Runs \in Nat /\ h \in Nat /\ f \in Nat /\ Length \in Nat /\ InHeap \in Nat
      /\ q \in Int /\ t \in Nat
  BY SizesAssumption DEF NumbersInv
<1> DEFINE Case(r, n) == r \in Int /\ n \in Int /\ Runs <= r /\ n <= Length + InHeap /\ t * r <= t * q + n
<1>2. \E r \in Int, n \in Int : Case(r, n)
  <2>1. CASE spc \notin {"refill0", "refill1", "absorb", "fill"}
    <3>1. Paid(Runs + h + f, Length + InHeap)
      BY <2>1 DEF PaidInv
    <3> DEFINE r == Runs + h + f  n == Length + InHeap
    <3>2. t * r <= t * q + n
      BY <3>1 DEF Paid
    <3>3. r \in Int /\ n \in Int /\ Runs <= r /\ n <= Length + InHeap
      BY <1>1
    <3> QED
      BY <3>2, <3>3
  <2>2. CASE \/ spc \in {"refill0", "refill1"}
             \/ spc = "absorb" /\ HasNext(src)
    <3>1. Paid(Runs + h, Length)
      BY <2>2 DEF PaidInv
    <3> DEFINE r == Runs + h  n == Length
    <3>2. t * r <= t * q + n
      BY <3>1 DEF Paid
    <3>3. r \in Int /\ n \in Int /\ Runs <= r /\ n <= Length + InHeap
      BY <1>1
    <3> QED
      BY <3>2, <3>3
  <2>3. CASE spc = "absorb" /\ ~HasNext(src)
    <3>1. Paid(Runs + h + 1, Length)
      BY <2>3 DEF PaidInv
    <3> DEFINE r == Runs + h + 1  n == Length
    <3>2. t * r <= t * q + n
      BY <3>1 DEF Paid
    <3>3. r \in Int /\ n \in Int /\ Runs <= r /\ n <= Length + InHeap
      BY <1>1
    <3> QED
      BY <3>2, <3>3
  <2>4. CASE spc = "fill" /\ HasNext(src)
    <3>1. Paid(Runs + f, Length)
      BY <2>4 DEF PaidInv
    <3> DEFINE r == Runs + f  n == Length
    <3>2. t * r <= t * q + n
      BY <3>1 DEF Paid
    <3>3. r \in Int /\ n \in Int /\ Runs <= r /\ n <= Length + InHeap
      BY <1>1
    <3> QED
      BY <3>2, <3>3
  <2>5. CASE spc = "fill" /\ ~HasNext(src)
    <3>1. Paid(Runs + h + f, Length)
      BY <2>5 DEF PaidInv
    <3> DEFINE r == Runs + h + f  n == Length
    <3>2. t * r <= t * q + n
      BY <3>1 DEF Paid
    <3>3. r \in Int /\ n \in Int /\ Runs <= r /\ n <= Length + InHeap
      BY <1>1
    <3> QED
      BY <3>2, <3>3
  <2> HIDE DEF Case
  <2> QED
    BY <2>1, <2>2, <2>3, <2>4, <2>5
<1> HIDE DEF t, q
<1>3. PICK r \in Int, n \in Int : Case(r, n)
  BY <1>2
<1>4. Runs - q <= r - q
  BY <1>1, <1>3
<1>5. Runs \in Int /\ Length + InHeap \in Int
  BY <1>1
<1>6. t * Runs <= t * q + (Length + InHeap)
  BY <1>1, <1>3, <1>4, <1>5, PaidStill
<1> QED
  BY <1>6 DEF Paid, t, q

(* Sorter makes no more runs than it was given chunks, plus one for every time  *)
(* it has emptied a heap of OUT_SWITCH_THRESHOLD elements, for any tasks, keys,  *)
(* sizes and interleaving (sorter, Heap_t).                                     *)
THEOREM RunsPaid == Spec => []RunsArePaidFor
<1> DEFINE Busy == ~done_sorting => PaidInv
<1>1. ControlInv => NumbersInv
  BY Numbers DEF ControlInv
<1> HIDE DEF Busy
<1>2. ControlInv' => NumbersInv'
  BY <1>1, PTL
<1> USE DEF Busy
<1>3. Init => Busy
  <2> SUFFICES ASSUME Init PROVE PaidInv
    OBVIOUS
  <2>1. /\ spc = "scan0" /\ heap = {} /\ frozen = {} /\ file = << >>
        /\ out_buffer[0] = << >> /\ out_buffer[1] = << >> /\ cur_out = 0
        /\ loaded[0] = 0 /\ loaded[1] = 0
    BY DEF Init, Bufs
  <2>2. Produced = << >>
    BY <2>1 DEF Produced, Other, Bufs
  <2>3. Runs = 0 /\ HeapRuns = 0 /\ FrozenRuns = 0 /\ Length = 0 /\ InHeap = 0
    BY <2>1, <2>2, FS_EmptySet DEF Runs, RunCount, HeapRuns, FrozenRuns, Length, InHeap
  <2>4. ReadUp = 0
    <3>1. NotLoaded = 1 .. Len(Tasks)
      BY TaskFacts DEF Init, NotLoaded, NextToLoad
    <3>2. Len(Tasks) \in Nat /\ Len(Tasks) \in Int /\ 1 \in Int
      BY TaskFacts
    <3>3. Cardinality(1 .. Len(Tasks)) = IF 1 > Len(Tasks) THEN 0 ELSE Len(Tasks) - 1 + 1
      BY <3>2, FS_Interval
    <3>4. Cardinality(1 .. Len(Tasks)) = Len(Tasks)
      BY <3>2, <3>3
    <3>5. Open(0) = 0 /\ Open(1) = 0
      BY <2>1 DEF Open, HasNext
    <3> QED
      BY <3>1, <3>2, <3>4, <3>5 DEF ReadUp, Loaded
  <2>5. Paid(Runs + HeapRuns + FrozenRuns, Length + InHeap)
    BY <2>3, <2>4, SizesAssumption DEF Paid
  <2> QED
    BY <2>1, <2>5 DEF PaidInv
<1>4. ControlInv /\ ControlInv' /\ TurnInv /\ NumbersInv /\ NumbersInv' /\ Busy /\ [Next]_vars
          => Busy'
  <2> SUFFICES ASSUME ControlInv, ControlInv', TurnInv, NumbersInv, NumbersInv', Busy,
                      [Next]_vars, ~done_sorting'
               PROVE  PaidInv'
    OBVIOUS
  <2>1. ~done_sorting /\ PaidInv
    <3>1. done_sorting => done_sorting'
      BY ReaderFrame, WriterFrame
         DEF Next, Joined, vars, sorterVars, outVars, inVars, Sorter, Scan0, Scan1, CheckDone,
             SetDoneSorting, ReleaseInput, AwaitOutput, PublishOutput, FindRefill, PublishRest,
             FillHeap, Absorb, Emit, readerVars, writerVars, Reader, Writer
    <3> QED
      BY <3>1
  <2>2. ~Emit => Produced' = Produced
    BY <2>1, OthersKeepProduced DEF ControlInv
  <2>3. CASE Emit
    BY <2>1, <2>3, EmitPays DEF ControlInv
  <2>4. CASE FillHeap
    <3>1. ~Emit
      BY <2>4 DEF FillHeap, Emit
    <3> QED
      BY <2>1, <2>2, <2>4, <3>1, FillPays DEF ControlInv
  <2>5. CASE Absorb
    <3>1. ~Emit
      BY <2>5 DEF Absorb, Emit
    <3> QED
      BY <2>1, <2>2, <2>5, <3>1, AbsorbPays DEF ControlInv
  <2>6. CASE Sorter /\ ~(Emit \/ FillHeap \/ Absorb)
    BY <2>1, <2>2, <2>6, OtherSorterPays DEF ControlInv
  <2>7. CASE ~Sorter
    <3>1. ~Emit
      BY <2>7 DEF Sorter
    <3>2. Reader \/ Writer \/ UNCHANGED vars
      BY <2>7 DEF Next, Joined
    <3> QED
      BY <2>1, <2>2, <3>1, <3>2, OthersPay DEF ControlInv
  <2> QED
    BY <2>3, <2>4, <2>5, <2>6, <2>7
<1>5. NumbersInv /\ Busy /\ ControlInv => RunsArePaidFor
  <2> SUFFICES ASSUME NumbersInv, PaidInv, ControlInv
               PROVE  OUT_SWITCH_THRESHOLD * RunCount(Produced)
                        <= OUT_SWITCH_THRESHOLD * (Len(Tasks) - Cardinality(NotLoaded))
                           + Len(Produced) + Cardinality(heap)
    BY DEF RunsArePaidFor
  <2> DEFINE t == OUT_SWITCH_THRESHOLD  q == ReadUp  l == Loaded  r == Runs
             n == Length  c == InHeap
  <2>1. t * r <= t * q + (n + c)
    BY PaidByLoaded DEF Paid
  <2>2. Cardinality(NotLoaded) \in Nat
    <3>1. NotLoaded \subseteq 1 .. Len(Tasks)
      BY TaskFacts DEF NotLoaded
    <3>2. Len(Tasks) \in Int /\ 1 \in Int
      BY TaskFacts
    <3>3. IsFiniteSet(1 .. Len(Tasks))
      BY <3>2, FS_Interval
    <3> QED
      BY <3>1, <3>3, FS_Subset, FS_CardinalityType
  <2>3. l \in Int /\ q <= l
    BY <2>2, TaskFacts DEF ReadUp, Loaded, Open
  <2>4. t \in Nat /\ q \in Int /\ r \in Int /\ n \in Int /\ c \in Int
    BY SizesAssumption DEF NumbersInv
  <2> HIDE DEF t, q, l, r, n, c
  <2>5. r - l <= r - q /\ n + c \in Int /\ n + c <= n + c
    BY <2>3, <2>4
  <2>6. t * r <= t * l + (n + c)
    BY <2>1, <2>3, <2>4, <2>5, PaidStill
  <2>7. t * l \in Int
    BY <2>3, <2>4
  <2>8. t * l + (n + c) = t * l + n + c
    BY <2>4, <2>7
  <2> QED
    BY <2>6, <2>8 DEF t, l, r, n, c, Runs, Loaded, Length, InHeap
<1>6. Init => TurnInv
  BY DEF Init, TurnInv, Bufs, Other
<1>7. ControlInv /\ TurnInv /\ [Next]_vars => TurnInv'
  BY TurnInvStep DEF ControlInv
<1> HIDE DEF Busy
<1> QED
  BY <1>1, <1>2, <1>3, <1>4, <1>5, <1>6, <1>7, ControlInvariant, PTL DEF Spec
=============================================================================
