--------------------------- MODULE KWayMergeProofs ---------------------------
(***************************************************************************)
(* Theorems about KWayMerge, for every K, every list of rounds that        *)
(* generate_task may return, every size of runs, chunks and buffers, and   *)
(* every assignment of values to the elements.                             *)
(***************************************************************************)
EXTENDS KWayMerge, SequenceTheorems, TLAPS

InitialCount == Len(InitialSizes)

Refilling == {"scan", "scan_queue", "get", "add", "count"}
Preparing == {"clean", "heap_take", "heap_install", "begin"}
Scanning  == {"scan", "scan_next", "take", "install", "wait"}
Ending    == {"final", "set_done", "done"}

(* `inited` is what the two threads know of each other: it is true from when    *)
(* the queues are filled for a round until the merge thread has left it.        *)
RoundInv ==
    /\ ipc \in InputLoading => round = cur_task /\ mpc = "await" /\ ~inited
    /\ ipc \in Refilling => round = cur_task /\ inited
    /\ ipc = "round" => round = IF inited THEN cur_task + 1 ELSE cur_task
    /\ inited => mpc \in {"await", "next"} \cup Preparing \cup Merging
    /\ ~inited => mpc \in {"await"} \cup Ending
    /\ mpc \in Ending <=> cur_task = Len(Rounds) + 1
    /\ done_sorting <=> mpc = "done"
    /\ wpc # "loop" => done_sorting

(* A round adds one run to the file; the runs that are complete have elements.  *)
FileInv ==
    /\ in_run <=> mpc \in Merging
    /\ RunCount = InitialCount + cur_task - 1 +
                  (IF mpc \in Merging \cup {"next"} THEN 1 ELSE 0)
    /\ \A r \in 1 .. (IF in_run THEN RunCount - 1 ELSE RunCount) : runs[r] # << >>

(* The queues that initializeRound has given their first buffer, and those whose *)
(* first chunk it has counted.                                                   *)
HasFirst(q) == \/ ipc \in {"publish"} \cup Refilling /\ q \in DOMAIN Task
               \/ ipc \in {"reset", "init_get", "init_add"} /\ q \in 1 .. slot - 1
               \/ ipc = "init_count" /\ q \in 1 .. slot
Counted(q) == \/ ipc = "publish" /\ q \in DOMAIN Task
              \/ ipc \in InputLoading \ {"publish"} /\ q \in 1 .. slot - 1

(* How much of each run has been loaded and counted ...                          *)
FirstInv ==
    /\ \A q \in Queues :
          HasFirst(q) => run_size[q] = Len(runs[Task[q] + 1]) /\ run_size[q] > 0
    /\ \A q \in Queues : Counted(q) => elements_read[q] = Smaller(run_size[q], CHUNK)
    /\ ipc = "init_count" => elements_read[slot] = 0
RefillInv ==
    ipc \in Refilling =>
        /\ \A q \in DOMAIN Task :
              /\ run_offsets[q] <= run_size[q]
              /\ ~(ipc = "count" /\ q = min_index) => elements_read[q] = run_offsets[q]
        /\ \E q \in DOMAIN Task : elements_read[q] < run_size[q]

(* ... and a queue that is chosen for the next buffer has something left to load. *)
ChosenInv ==
    /\ (ipc \in {"scan", "scan_queue"} /\ min_index # Null) \/ ipc \in {"get", "add"} =>
          min_index \in DOMAIN Task /\ run_offsets[min_index] < run_size[min_index]
    /\ ipc = "count" =>
          min_index \in DOMAIN Task /\ elements_read[min_index] < run_offsets[min_index]

LoadInv ==
    /\ ipc \in InputLoading \cup {"scan", "scan_queue"} => slot \in DOMAIN Task
    /\ hand # Null <=> ipc \in {"init_add", "add"}
    /\ FirstInv /\ RefillInv /\ ChosenInv

(* Sources that the merge thread has counted as finished stay so.                *)
ScanInv ==
    /\ mpc \in Scanning \cup {"heap_take", "heap_install", "sweep"} => i <= queue_num
    /\ mpc \in Scanning =>
          /\ finished <= i - 1
          /\ finished = i - 1 =>
                \A q \in 1 .. i - 1 : ~HasNext(q) /\ current_buffers[q] = Null
    /\ mpc \in {"finish", "await_writer"} =>
          \A q \in 1 .. queue_num : ~HasNext(q) /\ current_buffers[q] = Null
    /\ mpc = "next" => \A q \in 1 .. queue_num : ~HasNext(q)

(* The heap holds at most one element of a source, and only of one whose current *)
(* buffer it came from.                                                          *)
HeapInv ==
    /\ \A e \in pq : e[2] <= queue_num /\ current_buffers[e[2]] # Null
    /\ \A e, f \in pq : e[2] = f[2] => e = f
    /\ mpc \in {"await", "clean", "sweep", "finish", "await_writer", "next"} \cup Ending =>
          pq = {}
    /\ mpc \in {"heap_take", "heap_install"} => \A e \in pq : e[2] < i
    /\ mpc \in {"scan_next", "take", "install", "wait"} => current_buffers[i] = Null
    /\ mpc \in {"give_back", "clear"} =>
          current_buffers[src] # Null /\ \A e \in pq : e[2] # src

(* Buffers that wait in queues have elements, and a source has a buffer when the *)
(* merge thread takes one.                                                       *)
QueueInv ==
    /\ \A q \in Queues : \A n \in DOMAIN queue[q] : content[queue[q][n]] # << >>
    /\ \A q \in Queues : ipc \in InputLoading /\ HasFirst(q) => queue[q] # << >>
    /\ inited /\ mpc \in {"await", "clean"} => \A q \in 1 .. queue_num : queue[q] # << >>
    /\ mpc = "heap_take" => \A q \in i .. queue_num : queue[q] # << >>
    /\ mpc = "heap_install" => \A q \in i + 1 .. queue_num : queue[q] # << >>
    /\ mpc = "scan_next" /\ ~is_empty => queue[i] # << >>
    /\ mpc = "take" => queue[i] # << >>
    /\ taken # Null <=> mpc \in {"heap_install", "install"}
    /\ taken # Null => content[taken] # << >>

(* The run that is being written will not be empty.                              *)
NonEmptyInv ==
    /\ mpc \in {"heap_take", "heap_install"} /\ i > 1 => pq # {}
    /\ mpc = "begin" => pq # {}
    /\ mpc \in Merging => \/ pq # {} \/ runs[RunCount] # << >>
                          \/ out_buffer[0] # << >> \/ out_buffer[1] # << >>

ControlInv ==
    /\ TypeOK /\ RoundInv /\ FileInv /\ LoadInv /\ ScanInv /\ HeapInv /\ QueueInv
    /\ NonEmptyInv /\ BuffersUnique

----------------------------------------------------------------------------
(* Facts about the data *)

LEMMA ConstantFacts ==
    /\ K \in Nat /\ K >= 2 /\ CHUNK \in Nat /\ CHUNK >= 1
    /\ OUT_SWITCH_THRESHOLD \in Nat /\ OUT_SWITCH_THRESHOLD >= 1
    /\ InitialCount \in Nat
    /\ Null \notin Nat /\ Null \notin Buffers /\ Null \notin Queues
    /\ \A b : b \in Buffers <=> b \in 1 .. 2 * K
    /\ \A q : q \in Queues <=> q \in 1 .. K
    /\ \A o : o \in Outs <=> o = 0 \/ o = 1
    /\ Rounds \in Seq(Seq(Nat)) /\ Len(Rounds) \in Nat
BY SizesAssumption, RunsAssumption, RoundsAssumption
   DEF Buffers, Queues, Outs, InitialCount, ValidRounds

(* A round reads two to K runs, all of them older than the round. *)
LEMMA RoundFacts ==
    ASSUME NEW t \in 1 .. Len(Rounds)
    PROVE  /\ Rounds[t] \in Seq(Nat) /\ Len(Rounds[t]) \in 2 .. K
           /\ DOMAIN Rounds[t] = 1 .. Len(Rounds[t])
           /\ \A q \in DOMAIN Rounds[t] :
                 q \in Queues /\ Rounds[t][q] \in Nat /\ Rounds[t][q] < InitialCount + t - 1
<1>1. /\ Rounds \in Seq(Seq(Nat)) /\ RoundSizes(K, Rounds)
      /\ ExistingRuns(InitialCount, Rounds)
  BY RoundsAssumption DEF ValidRounds, InitialCount
<1>2. Rounds[t] \in Seq(Nat) /\ t \in DOMAIN Rounds
  BY <1>1
<1>3. Len(Rounds[t]) \in 2 .. K
  BY <1>1, <1>2 DEF RoundSizes
<1>4. \A q \in DOMAIN Rounds[t] : Rounds[t][q] < InitialCount + t - 1
  BY <1>1, <1>2 DEF ExistingRuns
<1> DEFINE s == Rounds[t]
<1>5. /\ s \in Seq(Nat) /\ Len(s) \in 2 .. K
      /\ \A q \in DOMAIN s : s[q] < InitialCount + t - 1
  BY <1>2, <1>3, <1>4
<1> HIDE DEF s
<1>6. DOMAIN s = 1 .. Len(s) /\ \A q \in DOMAIN s : q \in 1 .. K /\ s[q] \in Nat
  BY <1>5, ConstantFacts
<1> QED
  BY <1>5, <1>6, ConstantFacts DEF s

LEMMA ChunkFacts ==
    ASSUME runs \in Seq(Seq(Elements)), NEW id \in Nat, id < RunCount,
           NEW offset \in Nat, NEW count \in Nat, offset + count <= Len(runs[id + 1])
    PROVE  /\ Chunk(id, offset, count) \in Seq(Elements)
           /\ Len(Chunk(id, offset, count)) = count
           /\ \A n \in 1 .. count : Chunk(id, offset, count)[n] = runs[id + 1][offset + n]
<1>1. id + 1 \in 1 .. RunCount /\ runs[id + 1] \in Seq(Elements)
  BY DEF RunCount
<1> DEFINE s == runs[id + 1]
<1>2. s \in Seq(Elements) /\ Len(s) \in Nat
  BY <1>1
<1> HIDE DEF s
<1>3. offset + 1 \in 1 .. Len(s) + 1 /\ offset + count \in offset .. Len(s)
  BY <1>2 DEF s
<1>4. SubSeq(s, offset + 1, offset + count) \in Seq(Elements)
      /\ Len(SubSeq(s, offset + 1, offset + count)) = count
      /\ \A n \in 1 .. count :
            SubSeq(s, offset + 1, offset + count)[n] = s[offset + n]
  BY <1>2, <1>3
<1> QED
  BY <1>4 DEF s, Chunk

----------------------------------------------------------------------------
(* What the parts of the invariant say of the round of a thread *)

LEMMA InputRound ==
    ASSUME TypeOK, RoundInv, FileInv, ipc # "round"
    PROVE  /\ round = cur_task /\ round \in 1 .. Len(Rounds)
           /\ Task \in Seq(Nat) /\ Len(Task) \in 2 .. K /\ DOMAIN Task = 1 .. Len(Task)
           /\ \A q \in DOMAIN Task :
                 /\ q \in Queues /\ Task[q] \in Nat /\ Task[q] < RunCount
                 /\ Task[q] + 1 < RunCount \/ ~in_run
                 /\ runs[Task[q] + 1] \in Seq(Elements) \ {<< >>}
<1>1. ipc \in InputLoading \cup Refilling
  BY DEF TypeOK, Refilling
<1>2. round = cur_task /\ round \in 1 .. Len(Rounds)
  <2>1. round = cur_task /\ mpc \notin Ending
    BY <1>1 DEF RoundInv, Ending, Preparing, Merging
  <2>2. cur_task \in 1 .. Len(Rounds) + 1 /\ cur_task # Len(Rounds) + 1
    BY <2>1 DEF TypeOK, RoundInv
  <2> QED
    BY <2>1, <2>2, ConstantFacts
<1>3. /\ Task \in Seq(Nat) /\ Len(Task) \in 2 .. K /\ DOMAIN Task = 1 .. Len(Task)
      /\ \A q \in DOMAIN Task :
            q \in Queues /\ Task[q] \in Nat /\ Task[q] < InitialCount + cur_task - 1
  BY <1>2, RoundFacts DEF Task
<1>4. /\ runs \in Seq(Seq(Elements)) /\ RunCount \in Nat /\ cur_task \in Nat
      /\ RunCount >= InitialCount + cur_task - 1
      /\ in_run => RunCount = InitialCount + cur_task - 1 + 1
      /\ \A r \in 1 .. (IF in_run THEN RunCount - 1 ELSE RunCount) : runs[r] # << >>
  <2>1. runs \in Seq(Seq(Elements)) /\ cur_task \in Nat
    BY DEF TypeOK
  <2>2. RunCount \in Nat
    BY <2>1 DEF RunCount
  <2>3. /\ RunCount \in {InitialCount + cur_task - 1 + 1, InitialCount + cur_task - 1 + 0}
        /\ in_run => RunCount = InitialCount + cur_task - 1 + 1
    BY DEF FileInv
  <2> QED
    BY <2>1, <2>2, <2>3, ConstantFacts DEF FileInv
<1>5. ASSUME NEW q \in DOMAIN Task
      PROVE  /\ Task[q] < RunCount /\ (Task[q] + 1 < RunCount \/ ~in_run)
             /\ runs[Task[q] + 1] \in Seq(Elements) \ {<< >>}
  <2>1. Task[q] \in Nat /\ Task[q] < InitialCount + cur_task - 1
    BY <1>3
  <2>2. Task[q] < RunCount /\ (Task[q] + 1 < RunCount \/ ~in_run)
    BY <1>4, <2>1, ConstantFacts
  <2>3. Task[q] + 1 \in 1 .. Len(runs)
    BY <1>4, <2>1, <2>2 DEF RunCount
  <2>4. runs[Task[q] + 1] # << >>
    BY <1>4, <2>1, <2>2
  <2>5. runs[Task[q] + 1] \in Seq(Elements)
    BY <1>4, <2>3
  <2> QED
    BY <2>2, <2>4, <2>5
<1> QED
  BY <1>2, <1>3, <1>5

LEMMA MergeRound ==
    ASSUME TypeOK, RoundInv, FileInv, mpc \notin Ending
    PROVE  /\ cur_task \in 1 .. Len(Rounds)
           /\ queue_num \in 2 .. K /\ DOMAIN Rounds[cur_task] = 1 .. queue_num
           /\ \A q \in 1 .. queue_num :
                 /\ q \in Queues /\ Rounds[cur_task][q] \in Nat
                 /\ Rounds[cur_task][q] < InitialCount + cur_task - 1
<1>1. cur_task \in 1 .. Len(Rounds)
  <2>1. cur_task \in 1 .. Len(Rounds) + 1 /\ cur_task # Len(Rounds) + 1
    BY DEF TypeOK, RoundInv
  <2> QED
    BY <2>1, ConstantFacts
<1> DEFINE s == Rounds[cur_task]
<1>2. /\ Len(s) \in 2 .. K /\ DOMAIN s = 1 .. Len(s)
      /\ \A q \in DOMAIN s :
            q \in Queues /\ s[q] \in Nat /\ s[q] < InitialCount + cur_task - 1
  BY <1>1, RoundFacts
<1> HIDE DEF s
<1>3. queue_num = Len(s)
  BY DEF queue_num, s
<1> QED
  BY <1>1, <1>2, <1>3 DEF s

(* The run that is being written is the last one. *)
LEMMA WritingRun ==
    ASSUME TypeOK, FileInv, mpc \in Merging
    PROVE  /\ RunCount \in Nat \ {0} /\ RunCount = Len(runs) /\ in_run
           /\ runs[RunCount] \in Seq(Elements)
<1>1. runs \in Seq(Seq(Elements)) /\ cur_task \in Nat \ {0}
  BY DEF TypeOK
<1>2. RunCount \in Nat \ {0} /\ in_run
  BY <1>1, ConstantFacts DEF FileInv, RunCount
<1> QED
  BY <1>1, <1>2 DEF RunCount

----------------------------------------------------------------------------
(* Type correctness *)

LEMMA SmallerFacts ==
    ASSUME NEW a \in Int, NEW b \in Int
    PROVE  Smaller(a, b) \in {a, b} /\ Smaller(a, b) <= a /\ Smaller(a, b) <= b
BY DEF Smaller

LEMMA LastOfPool ==
    ASSUME NEW s \in Seq(Buffers), s # << >>
    PROVE  /\ Last(s) \in Buffers /\ Front(s) \in Seq(Buffers) /\ Len(s) \in Nat \ {0}
           /\ Len(Front(s)) = Len(s) - 1 /\ Last(s) = s[Len(s)]
           /\ \A n \in 1 .. Len(s) - 1 : Front(s)[n] = s[n]
<1>1. Len(s) \in Nat \ {0}
  OBVIOUS
<1> DEFINE m == Len(s) - 1
<1>2. m \in Nat /\ \A n \in 1 .. m : n \in 1 .. Len(s) /\ s[n] \in Buffers
  BY <1>1
<1>3. /\ SubSeq(s, 1, m) \in Seq(Buffers)
      /\ Len(SubSeq(s, 1, m)) = m
      /\ \A n \in 1 .. m : SubSeq(s, 1, m)[n] = s[n]
  <2> HIDE DEF m
  <2>1. /\ SubSeq(s, 1, m) \in Seq(Buffers)
        /\ Len(SubSeq(s, 1, m)) = IF 1 <= m THEN m - 1 + 1 ELSE 0
        /\ \A n \in 1 .. m - 1 + 1 : SubSeq(s, 1, m)[n] = s[1 + n - 1]
    BY <1>2, SubSeqProperties
  <2> QED
    BY <1>2, <2>1
<1>4. s[Len(s)] \in Buffers
  BY <1>1
<1> QED
  BY <1>1, <1>3, <1>4 DEF Last, Front

(* What the input thread gives a buffer lies within the run. *)
LEMMA FirstChunk ==
    ASSUME TypeOK, RoundInv, FileInv, LoadInv, ipc = "init_add"
    PROVE  LET size == Len(runs[Task[slot] + 1])
               chunk == Chunk(Task[slot], 0, Smaller(size, CHUNK))
           IN  /\ slot \in DOMAIN Task /\ slot \in Queues /\ hand \in Buffers
               /\ size \in Nat \ {0}
               /\ chunk \in Seq(Elements) \ {<< >>}
               /\ Len(chunk) = Smaller(size, CHUNK)
<1> DEFINE size == Len(runs[Task[slot] + 1])
           count == Smaller(size, CHUNK)
<1>1. slot \in DOMAIN Task /\ hand \in Buffers
  BY DEF LoadInv, TypeOK, InputLoading
<1>2. /\ Task[slot] \in Nat /\ Task[slot] < RunCount /\ slot \in Queues
      /\ runs[Task[slot] + 1] \in Seq(Elements) \ {<< >>}
  BY <1>1, InputRound
<1>3. size \in Nat \ {0}
  BY <1>2
<1> HIDE DEF size
<1>4. count \in Nat \ {0} /\ 0 + count <= size
  BY <1>3, ConstantFacts DEF Smaller
<1> HIDE DEF count
<1>5. runs \in Seq(Seq(Elements))
  BY DEF TypeOK
<1>6. Chunk(Task[slot], 0, count) \in Seq(Elements) /\ Len(Chunk(Task[slot], 0, count)) = count
  BY <1>2, <1>4, <1>5, ChunkFacts DEF size
<1>7. Chunk(Task[slot], 0, count) # << >>
  BY <1>4, <1>6
<1> QED
  BY <1>1, <1>2, <1>3, <1>6, <1>7 DEF size, count

LEMMA NextChunk ==
    ASSUME TypeOK, RoundInv, FileInv, LoadInv, ipc = "add"
    PROVE  LET chunk == Chunk(Task[min_index], run_offsets[min_index], ChunkSize(min_index))
           IN  /\ min_index \in DOMAIN Task /\ min_index \in Queues /\ hand \in Buffers
               /\ run_offsets[min_index] \in Nat /\ ChunkSize(min_index) \in Nat \ {0}
               /\ NextOffset(min_index) \in Nat
               /\ run_offsets[min_index] < NextOffset(min_index)
               /\ NextOffset(min_index) <= run_size[min_index]
               /\ run_size[min_index] = Len(runs[Task[min_index] + 1])
               /\ chunk \in Seq(Elements) \ {<< >>}
               /\ Len(chunk) = ChunkSize(min_index)
<1> DEFINE q == min_index
           size == run_size[q]
           offset == run_offsets[q]
           count == ChunkSize(q)
<1>1. q \in DOMAIN Task /\ hand \in Buffers /\ offset < size
  BY DEF LoadInv, ChosenInv, TypeOK
<1>2. /\ Task[q] \in Nat /\ Task[q] < RunCount /\ q \in Queues
      /\ runs[Task[q] + 1] \in Seq(Elements) \ {<< >>}
  BY <1>1, InputRound
<1>3. size \in Nat /\ offset \in Nat
  BY <1>2 DEF TypeOK
<1>4. size = Len(runs[Task[q] + 1])
  <2>1. HasFirst(q)
    BY <1>1 DEF HasFirst, Refilling
  <2> QED
    BY <1>2, <2>1 DEF LoadInv, FirstInv
<1>5. count = Smaller(size - offset, CHUNK)
  BY DEF ChunkSize
<1>6. runs \in Seq(Seq(Elements))
  BY DEF TypeOK
<1>7. NextOffset(q) = offset + count
  BY DEF NextOffset
<1> HIDE DEF q, size, offset, count
<1>8. count \in Nat \ {0} /\ offset + count <= size /\ offset < offset + count
  BY <1>1, <1>3, <1>5, ConstantFacts DEF Smaller
<1>9. Chunk(Task[q], offset, count) \in Seq(Elements) /\ Len(Chunk(Task[q], offset, count)) = count
  BY <1>2, <1>3, <1>4, <1>6, <1>8, ChunkFacts, ZenonT(60)
<1>10. Chunk(Task[q], offset, count) # << >>
  BY <1>8, <1>9
<1> QED
  BY <1>1, <1>2, <1>3, <1>4, <1>7, <1>8, <1>9, <1>10 DEF q, size, offset, count

(* TypeOK in four parts. *)
FileTypes ==
    /\ key \in [Elements -> Keys]
    /\ runs \in Seq(Seq(Elements)) /\ in_run \in BOOLEAN /\ stray \in Seq(Elements)
    /\ out_active \in [Outs -> BOOLEAN] /\ out_buffer \in [Outs -> Seq(Elements)]
    /\ wpc \in {"loop", "drain0", "drain1", "done"}

StoreTypes ==
    /\ pool \in Seq(Buffers)
    /\ content \in [Buffers -> Seq(Elements)]
    /\ queue \in [Queues -> Seq(Buffers)]
    /\ run_size \in [Queues -> Nat] /\ elements_read \in [Queues -> Nat]
    /\ current_buffers \in [Queues -> Buffers \cup {Null}]
    /\ inited \in BOOLEAN /\ done_sorting \in BOOLEAN

LoadTypes ==
    /\ ipc \in InputLoading \cup {"round", "scan", "scan_queue", "get", "add", "count"}
    /\ round \in 1 .. Len(Rounds) + 1 /\ slot \in Queues
    /\ hand \in Buffers \cup {Null}
    /\ run_offsets \in [Queues -> Nat] /\ last_key \in [Queues -> Nat]
    /\ min_index \in Queues \cup {Null} /\ min_key \in Nat \cup {Null}

MergeTypes ==
    /\ mpc \in Merging \cup {"await", "clean", "heap_take", "heap_install", "begin",
                             "next", "final", "set_done", "done"}
    /\ cur_task \in 1 .. Len(Rounds) + 1 /\ i \in Queues
    /\ pq \in SUBSET (Elements \X Queues)
    /\ is_empty \in BOOLEAN /\ finished \in 0 .. K
    /\ taken \in Buffers \cup {Null} /\ src \in Queues
    /\ cur_out \in Outs /\ cur_out_count \in 0 .. OUT_SWITCH_THRESHOLD - 1

LEMMA TypeParts == TypeOK <=> FileTypes /\ StoreTypes /\ LoadTypes /\ MergeTypes
BY DEF TypeOK, FileTypes, StoreTypes, LoadTypes, MergeTypes

LEMMA TypePartsNext ==
    TypeOK' <=> FileTypes' /\ StoreTypes' /\ LoadTypes' /\ MergeTypes'
BY DEF TypeOK, FileTypes, StoreTypes, LoadTypes, MergeTypes

(* Where the input thread may go on. *)
LEMMA NextSlot ==
    ASSUME TypeOK, RoundInv, FileInv, ipc # "round"
    PROVE  /\ slot < Len(Task) => slot + 1 \in Queues
           /\ round + 1 \in 1 .. Len(Rounds) + 1
           /\ 1 \in Queues
<1>1. Len(Task) \in 2 .. K /\ round \in 1 .. Len(Rounds)
  BY InputRound
<1>2. slot \in Queues
  BY DEF TypeOK
<1>3. slot \in 1 .. K
  BY <1>2, ConstantFacts
<1> DEFINE n == Len(Task)
<1>4. n \in 2 .. K
  BY <1>1
<1> HIDE DEF n
<1>5. /\ slot < n => slot + 1 \in 1 .. K
      /\ round + 1 \in 1 .. Len(Rounds) + 1
      /\ 1 \in 1 .. K
  <2>1. K \in Nat /\ K >= 2 /\ Len(Rounds) \in Nat
    BY ConstantFacts
  <2> QED
    BY <1>1, <1>3, <1>4, <2>1
<1> QED
  BY <1>5, ConstantFacts DEF n

(* What no step of the input thread changes, written out. *)
LEMMA InputFrame ==
    ASSUME Input
    PROVE  UNCHANGED <<key, runs, in_run, stray, current_buffers, out_active, out_buffer,
                       done_sorting, mpc, cur_task, i, pq, is_empty, finished, taken, src,
                       cur_out, cur_out_count, wpc>>
BY DEF Input, AwaitRound, ResetQueue, GetBuffer, AddFirst, CountFirst, PublishRound,
       ScanCurrent, ScanQueue, AddNext, CountNext, inputKeeps, fileVars, outVars, mergeVars

LEMMA MergeFrame ==
    ASSUME Merge
    PROVE  UNCHANGED <<key, stray, run_size, elements_read, ipc, round, slot, hand,
                       run_offsets, last_key, min_index, min_key, wpc>>
BY DEF Merge, AwaitInited, ReturnLeft, Take, Install, BeginRun, ScanEmpty, ScanNext,
       AwaitInput, Emit, GiveBack, ClearCurrent, Drained, FinishRound, EndRun, NextRound,
       SetDone, mergeKeeps, inputVars

LEMMA WriterFrame ==
    ASSUME Writer
    PROVE  UNCHANGED <<key, runs, in_run, pool, content, queue, run_size, elements_read,
                       current_buffers, inited, done_sorting, ipc, round, slot, hand,
                       run_offsets, last_key, min_index, min_key, mpc, cur_task, i, pq,
                       is_empty, finished, taken, src, cur_out, cur_out_count>>
BY DEF Writer, WriterClear, WriterLeave, WriterDrain, writerKeeps, mergeKeeps, mergeVars,
       runVars, poolVars, queueVars, scanVars, countVars, inputVars

LEMMA InputTypeStep ==
    ASSUME TypeOK, RoundInv, FileInv, LoadInv, Input
    PROVE  TypeOK'
<1>0. FileTypes /\ StoreTypes /\ LoadTypes /\ MergeTypes
  BY TypeParts
<1>12. UNCHANGED inputKeeps
  BY DEF Input, AwaitRound, ResetQueue, GetBuffer, AddFirst, CountFirst, PublishRound,
         ScanCurrent, ScanQueue, AddNext, CountNext
<1>13. FileTypes' /\ MergeTypes'
  BY <1>0, <1>12 DEF FileTypes, MergeTypes, inputKeeps, fileVars, outVars, mergeVars
<1>14. UNCHANGED <<current_buffers, done_sorting>>
  BY <1>12 DEF inputKeeps
<1> SUFFICES StoreTypes' /\ LoadTypes'
  BY <1>13, TypePartsNext
<1> USE <1>0, <1>14 DEF poolVars, queueVars, offsetVars, choiceVars
<1>1. CASE AwaitRound
  <2>1. run_offsets' \in [Queues -> Nat] /\ slot' \in Queues
    BY <1>1, ConstantFacts DEF AwaitRound
  <2> QED
    BY <1>1, <2>1 DEF AwaitRound, StoreTypes, LoadTypes, InputLoading
<1>2. CASE ResetQueue
  <2>1. queue' \in [Queues -> Seq(Buffers)] /\ elements_read' \in [Queues -> Nat]
    BY <1>2 DEF ResetQueue, StoreTypes, LoadTypes
  <2> QED
    BY <1>2, <2>1 DEF ResetQueue, StoreTypes, LoadTypes, InputLoading
<1>3. CASE GetBuffer
  <2>1. hand' \in Buffers /\ pool' \in Seq(Buffers)
    BY <1>3, LastOfPool DEF GetBuffer, StoreTypes, LoadTypes
  <2> QED
    BY <1>3, <2>1 DEF GetBuffer, StoreTypes, LoadTypes, InputLoading
<1>4. CASE AddFirst
  <2>1. /\ run_size' \in [Queues -> Nat] /\ elements_read' \in [Queues -> Nat]
        /\ content' \in [Buffers -> Seq(Elements)] /\ queue' \in [Queues -> Seq(Buffers)]
    <3>1. /\ hand \in Buffers /\ slot \in Queues /\ Len(runs[Task[slot] + 1]) \in Nat
          /\ Chunk(Task[slot], 0, Smaller(Len(runs[Task[slot] + 1]), CHUNK)) \in Seq(Elements)
      BY <1>4, FirstChunk DEF AddFirst
    <3>2. queue' \in [Queues -> Seq(Buffers)]
      BY <1>4, <3>1 DEF AddFirst, StoreTypes, LoadTypes, Enqueue
    <3> QED
      BY <1>4, <3>1, <3>2 DEF AddFirst, StoreTypes, LoadTypes
  <2> QED
    BY <1>4, <2>1 DEF AddFirst, StoreTypes, LoadTypes, InputLoading
<1>5. CASE CountFirst
  <2>1. elements_read' \in [Queues -> Nat]
    <3>1. Smaller(run_size[slot], CHUNK) \in Nat
      BY ConstantFacts DEF StoreTypes, LoadTypes, Smaller
    <3> QED
      BY <1>5, <3>1 DEF CountFirst, StoreTypes, LoadTypes
  <2>2. slot' \in Queues
    <3>1. slot < Len(Task) => slot + 1 \in Queues
      BY <1>5, NextSlot DEF CountFirst
    <3> QED
      BY <1>5, <3>1 DEF CountFirst, StoreTypes, LoadTypes
  <2> QED
    BY <1>5, <2>1, <2>2 DEF CountFirst, StoreTypes, LoadTypes, InputLoading
<1>6. CASE PublishRound
  <2>1. run_offsets' \in [Queues -> Nat] /\ last_key' \in [Queues -> Nat]
    BY <1>6, ConstantFacts DEF PublishRound, StoreTypes, LoadTypes, Smaller
  <2>2. /\ round' \in 1 .. Len(Rounds) + 1 /\ slot' \in Queues
        /\ min_index' \in Queues \cup {Null} /\ min_key' \in Nat \cup {Null}
        /\ ipc' \in {"round", "scan"}
    <3>1. round + 1 \in 1 .. Len(Rounds) + 1 /\ 1 \in Queues
      BY <1>6, NextSlot DEF PublishRound
    <3> QED
      BY <1>6, <3>1 DEF PublishRound, NextRefill, StoreTypes, LoadTypes
  <2> QED
    BY <1>6, <2>1, <2>2 DEF PublishRound, StoreTypes, LoadTypes
<1>7. ASSUME ipc \in {"scan", "scan_queue"}, ConsiderLeastRead
      PROVE  /\ round' \in 1 .. Len(Rounds) + 1 /\ slot' \in Queues
             /\ min_index' \in Queues \cup {Null} /\ min_key' \in Nat \cup {Null}
             /\ ipc' \in {"round", "scan", "get"}
  <2>1. /\ slot < Len(Task) => slot + 1 \in Queues
        /\ round + 1 \in 1 .. Len(Rounds) + 1
    BY <1>7, NextSlot
  <2> QED
    BY <1>7, <2>1 DEF ConsiderLeastRead, StoreTypes, LoadTypes
<1>8. CASE ScanCurrent
  <2>1. /\ round' \in 1 .. Len(Rounds) + 1 /\ slot' \in Queues
        /\ min_index' \in Queues \cup {Null} /\ min_key' \in Nat \cup {Null}
        /\ ipc' \in {"round", "scan", "scan_queue", "get"}
    BY <1>7, <1>8 DEF ScanCurrent, StoreTypes, LoadTypes
  <2> QED
    BY <1>8, <2>1 DEF ScanCurrent, StoreTypes, LoadTypes
<1>9. CASE ScanQueue
  <2>1. /\ round' \in 1 .. Len(Rounds) + 1 /\ slot' \in Queues
        /\ min_index' \in Queues \cup {Null} /\ min_key' \in Nat \cup {Null}
        /\ ipc' \in {"round", "scan", "scan_queue", "get"}
    BY <1>7, <1>9 DEF ScanQueue, StoreTypes, LoadTypes
  <2> QED
    BY <1>9, <2>1 DEF ScanQueue, StoreTypes, LoadTypes
<1>10. CASE AddNext
  <2>1. /\ content' \in [Buffers -> Seq(Elements)] /\ queue' \in [Queues -> Seq(Buffers)]
        /\ run_offsets' \in [Queues -> Nat] /\ last_key' \in [Queues -> Nat]
    <3>1. /\ hand \in Buffers /\ min_index \in Queues /\ NextOffset(min_index) \in Nat
          /\ Chunk(Task[min_index], run_offsets[min_index], ChunkSize(min_index)) \in Seq(Elements)
      BY <1>10, NextChunk DEF AddNext
    <3>2. queue' \in [Queues -> Seq(Buffers)]
      BY <1>10, <3>1 DEF AddNext, StoreTypes, LoadTypes, Enqueue
    <3> QED
      BY <1>10, <3>1, <3>2 DEF AddNext, StoreTypes, LoadTypes
  <2> QED
    BY <1>10, <2>1 DEF AddNext, StoreTypes, LoadTypes
<1>11. CASE CountNext
  <2>1. elements_read' \in [Queues -> Nat]
    <3>1. min_index \in Queues
      <4>1. min_index \in DOMAIN Task
        BY <1>11 DEF CountNext, LoadInv, ChosenInv
      <4> QED
        BY <1>11, <4>1, InputRound DEF CountNext
    <3> QED
      BY <1>11, <3>1 DEF CountNext, StoreTypes, LoadTypes
  <2>2. /\ round' \in 1 .. Len(Rounds) + 1 /\ slot' \in Queues
        /\ min_index' \in Queues \cup {Null} /\ min_key' \in Nat \cup {Null}
        /\ ipc' \in {"round", "scan"}
    <3>1. round + 1 \in 1 .. Len(Rounds) + 1 /\ 1 \in Queues
      BY <1>11, NextSlot DEF CountNext
    <3> QED
      BY <1>11, <3>1 DEF CountNext, NextRefill, StoreTypes, LoadTypes
  <2> QED
    BY <1>11, <2>1, <2>2 DEF CountNext, StoreTypes, LoadTypes
<1> QED
  BY <1>1, <1>2, <1>3, <1>4, <1>5, <1>6, <1>8, <1>9, <1>10, <1>11 DEF Input

(* Where the merge thread may go on. *)
LEMMA NextIndex ==
    ASSUME TypeOK, RoundInv, FileInv
    PROVE  /\ 1 \in Queues
           /\ mpc \notin Ending =>
                 /\ i < queue_num => i + 1 \in Queues
                 /\ cur_task + 1 \in 1 .. Len(Rounds) + 1
           /\ i < K => i + 1 \in Queues
<1>1. i \in Queues
  BY DEF TypeOK
<1>2. i \in 1 .. K
  BY <1>1, ConstantFacts
<1> DEFINE n == queue_num
<1>3. mpc \notin Ending => n \in 2 .. K /\ cur_task \in 1 .. Len(Rounds)
  BY MergeRound
<1> HIDE DEF n
<1>4. /\ 1 \in 1 .. K
      /\ mpc \notin Ending =>
            /\ i < n => i + 1 \in 1 .. K
            /\ cur_task + 1 \in 1 .. Len(Rounds) + 1
      /\ i < K => i + 1 \in 1 .. K
  <2>1. K \in Nat /\ K >= 2 /\ Len(Rounds) \in Nat
    BY ConstantFacts
  <2> QED
    BY <1>2, <1>3, <2>1
<1> QED
  BY <1>4, ConstantFacts DEF n

(* An entry of the heap comes from a buffer of Buffers. *)
LEMMA HeapSource ==
    ASSUME TypeOK, HeapInv, NEW e \in pq
    PROVE  /\ e[1] \in Elements /\ e[2] \in Queues /\ e = <<e[1], e[2]>>
           /\ current_buffers[e[2]] \in Buffers
           /\ content[current_buffers[e[2]]] \in Seq(Elements)
<1>1. e \in Elements \X Queues
  BY DEF TypeOK
<1>2. e[1] \in Elements /\ e[2] \in Queues /\ e = <<e[1], e[2]>>
  BY <1>1
<1>3. current_buffers[e[2]] \in Buffers \cup {Null} /\ current_buffers[e[2]] # Null
  BY <1>2 DEF TypeOK, HeapInv
<1> QED
  BY <1>2, <1>3 DEF TypeOK

LEMMA EmitFacts ==
    ASSUME TypeOK, FileInv, HeapInv, mpc = "drain", NEW e \in pq
    PROVE  /\ Added(e[1]) \in Seq(Elements)
           /\ Kept(e[1]) \in Seq(Elements) /\ Written(e[1]) \in Seq(Elements)
           /\ cur_out \in Outs /\ OtherOut \in Outs
           /\ cur_out_count + 1 < OUT_SWITCH_THRESHOLD =>
                 cur_out_count + 1 \in 0 .. OUT_SWITCH_THRESHOLD - 1
           /\ 0 \in 0 .. OUT_SWITCH_THRESHOLD - 1
<1>1. cur_out \in Outs /\ out_buffer[cur_out] \in Seq(Elements)
  BY DEF TypeOK
<1>2. e[1] \in Elements
  BY HeapSource
<1>3. Added(e[1]) \in Seq(Elements)
  BY <1>1, <1>2 DEF Added
<1>4. Kept(e[1]) \in Seq(Elements) /\ Written(e[1]) \in Seq(Elements)
  BY <1>3 DEF Kept, Written
<1>5. OtherOut \in Outs
  BY <1>1 DEF OtherOut, Outs
<1>6. cur_out_count \in 0 .. OUT_SWITCH_THRESHOLD - 1
  BY DEF TypeOK
<1>7. /\ cur_out_count + 1 < OUT_SWITCH_THRESHOLD =>
            cur_out_count + 1 \in 0 .. OUT_SWITCH_THRESHOLD - 1
      /\ 0 \in 0 .. OUT_SWITCH_THRESHOLD - 1
  <2>1. OUT_SWITCH_THRESHOLD \in Nat /\ OUT_SWITCH_THRESHOLD >= 1
    BY ConstantFacts
  <2> QED
    BY <1>6, <2>1
<1> QED
  BY <1>1, <1>3, <1>4, <1>5, <1>7

(* Appending to the last run keeps the list a list of runs. *)
LEMMA AppendToRunType ==
    ASSUME TypeOK, FileInv, mpc \in Merging, NEW s \in Seq(Elements)
    PROVE  /\ AppendToRun(s) \in Seq(Seq(Elements))
           /\ Len(AppendToRun(s)) = RunCount
           /\ AppendToRun(s)[RunCount] = runs[RunCount] \o s
           /\ \A r \in 1 .. RunCount - 1 : AppendToRun(s)[r] = runs[r]
<1>1. /\ RunCount \in Nat \ {0} /\ RunCount = Len(runs)
      /\ runs[RunCount] \in Seq(Elements)
  BY WritingRun
<1>2. runs \in Seq(Seq(Elements))
  BY DEF TypeOK
<1>3. runs[RunCount] \o s \in Seq(Elements)
  BY <1>1
<1> DEFINE n == RunCount
<1>4. AppendToRun(s) = [runs EXCEPT ![n] = runs[n] \o s]
  BY DEF AppendToRun
<1>5. n \in 1 .. Len(runs)
  BY <1>1
<1> HIDE DEF n
<1> DEFINE new == [runs EXCEPT ![n] = runs[n] \o s]
<1>6. new \in Seq(Seq(Elements)) /\ Len(new) = Len(runs)
  BY <1>2, <1>3, <1>5, ExceptSeq DEF n
<1>7. new[n] = runs[n] \o s /\ \A r \in 1 .. n - 1 : new[r] = runs[r]
  BY <1>2, <1>5
<1> QED
  BY <1>1, <1>4, <1>6, <1>7 DEF n

LEMMA MergeTypeStep ==
    ASSUME TypeOK, RoundInv, FileInv, ScanInv, HeapInv, Merge
    PROVE  TypeOK'
<1>0. FileTypes /\ StoreTypes /\ LoadTypes /\ MergeTypes
  BY TypeParts
<1>17. UNCHANGED mergeKeeps
  BY DEF Merge, AwaitInited, ReturnLeft, Take, Install, BeginRun, ScanEmpty, ScanNext,
         AwaitInput, Emit, GiveBack, ClearCurrent, Drained, FinishRound, EndRun, NextRound,
         SetDone
<1>18. LoadTypes'
  BY <1>0, <1>17 DEF LoadTypes, mergeKeeps, inputVars
<1>19. UNCHANGED <<key, stray, run_size, elements_read, wpc>>
  BY <1>17 DEF mergeKeeps
<1> SUFFICES FileTypes' /\ StoreTypes' /\ MergeTypes'
  BY <1>18, TypePartsNext
<1> USE <1>0, <1>19 DEF runVars, poolVars, outVars, scanVars, countVars
<1>20. 0 \in 0 .. K
  BY ConstantFacts
<1>1. CASE AwaitInited
  BY <1>1, NextIndex DEF AwaitInited, FileTypes, StoreTypes, MergeTypes
<1>2. CASE ReturnLeft
  <2>1. pool' \in Seq(Buffers) /\ current_buffers' \in [Queues -> Buffers \cup {Null}]
    <3>1. i \in Queues /\ current_buffers[i] \in Buffers \cup {Null}
      BY DEF StoreTypes, MergeTypes
    <3>2. CASE MustReturn
      <4>1. current_buffers[i] \in Buffers
        BY <3>1, <3>2 DEF MustReturn
      <4>2. Append(pool, current_buffers[i]) \in Seq(Buffers)
        BY <4>1 DEF StoreTypes
      <4> QED
        BY <1>2, <3>2, <4>2 DEF ReturnLeft, StoreTypes
    <3>3. CASE ~MustReturn
      BY <1>2, <3>3 DEF ReturnLeft, StoreTypes
    <3> QED
      BY <3>2, <3>3
  <2>2. i' \in Queues /\ finished' \in 0 .. K
    <3>1. mpc = "sweep" => mpc \notin Ending
      BY DEF Ending
    <3> QED
      BY <1>2, <1>20, <3>1, NextIndex DEF ReturnLeft, MergeTypes
  <2>3. mpc' \in {mpc, "heap_take", "scan", "set_done"}
    BY <1>2 DEF ReturnLeft
  <2>4. FileTypes' /\ StoreTypes'
    BY <1>2, <2>1 DEF ReturnLeft, FileTypes, StoreTypes
  <2>5. MergeTypes'
    BY <1>2, <2>2, <2>3 DEF ReturnLeft, MergeTypes, Merging
  <2> QED
    BY <2>4, <2>5
<1>3. CASE Take
  <2>1. taken' \in Buffers \cup {Null} /\ queue' \in [Queues -> Seq(Buffers)]
    <3>1. i \in Queues /\ queue[i] \in Seq(Buffers)
      BY DEF StoreTypes, MergeTypes
    <3>2. CASE Empty(i)
      BY <1>3, <3>2 DEF Take, StoreTypes
    <3>3. CASE ~Empty(i)
      <4>1. Head(queue[i]) \in Buffers /\ Tail(queue[i]) \in Seq(Buffers)
        BY <3>1, <3>3 DEF Empty
      <4> QED
        BY <1>3, <3>1, <3>3, <4>1 DEF Take, StoreTypes
    <3> QED
      BY <3>2, <3>3
  <2>2. mpc' \in {"install", "heap_install"}
    BY <1>3 DEF Take
  <2>3. FileTypes' /\ StoreTypes'
    BY <1>3, <2>1 DEF Take, FileTypes, StoreTypes
  <2>4. MergeTypes'
    BY <1>3, <2>1, <2>2 DEF Take, MergeTypes, Merging
  <2> QED
    BY <2>3, <2>4
<1>4. CASE Install
  <2>1. current_buffers' \in [Queues -> Buffers \cup {Null}]
    BY <1>4 DEF Install, StoreTypes, MergeTypes
  <2>2. content' \in [Buffers -> Seq(Elements)] /\ pq' \in SUBSET (Elements \X Queues)
    <3>1. CASE taken # Null /\ content[taken] # << >>
      <4>1. content[taken] \in Seq(Elements) /\ i \in Queues
        BY <3>1 DEF StoreTypes, MergeTypes
      <4>2. Head(content[taken]) \in Elements /\ Tail(content[taken]) \in Seq(Elements)
        BY <3>1, <4>1
      <4>3. /\ pq' = pq \cup {<<Head(content[taken]), i>>}
            /\ content' = [content EXCEPT ![taken] = Tail(content[taken])]
        BY <1>4, <3>1 DEF Install
      <4>4. content' \in [Buffers -> Seq(Elements)]
        BY <4>2, <4>3 DEF StoreTypes
      <4>5. <<Head(content[taken]), i>> \in Elements \X Queues
        BY <4>1, <4>2
      <4> QED
        BY <4>3, <4>4, <4>5 DEF MergeTypes
    <3>2. CASE ~(taken # Null /\ content[taken] # << >>)
      BY <1>4, <3>2 DEF Install, StoreTypes, MergeTypes
    <3> QED
      BY <3>1, <3>2
  <2>3. i' \in Queues /\ mpc' \in {"scan", "finish", "drain", "heap_take", "begin"}
    <3>1. mpc \notin Ending
      BY <1>4 DEF Install, Ending
    <3> QED
      BY <1>4, <3>1, NextIndex DEF Install, ToNextQueue, MergeTypes
  <2>4. FileTypes' /\ StoreTypes'
    BY <1>4, <2>1, <2>2 DEF Install, FileTypes, StoreTypes
  <2>5. MergeTypes'
    BY <1>4, <2>2, <2>3 DEF Install, MergeTypes, Merging
  <2> QED
    BY <2>4, <2>5
<1>5. CASE BeginRun
  <2>1. runs' \in Seq(Seq(Elements))
    <3>1. << >> \in Seq(Elements)
      OBVIOUS
    <3> QED
      BY <1>5, <3>1 DEF BeginRun, FileTypes
  <2>2. FileTypes' /\ StoreTypes'
    BY <1>5, <2>1 DEF BeginRun, FileTypes, StoreTypes
  <2>3. MergeTypes'
    BY <1>5, <1>20, NextIndex DEF BeginRun, MergeTypes, Merging
  <2> QED
    BY <2>2, <2>3
<1>6. CASE ScanEmpty
  <2>1. i' \in Queues /\ mpc' \in {"scan", "finish", "drain", "scan_next"} /\ is_empty' \in BOOLEAN
    <3>1. mpc \notin Ending
      BY <1>6 DEF ScanEmpty, Ending
    <3> QED
      BY <1>6, <3>1, NextIndex DEF ScanEmpty, ToNextQueue, MergeTypes, Empty
  <2>2. FileTypes' /\ StoreTypes'
    BY <1>6 DEF ScanEmpty, FileTypes, StoreTypes
  <2>3. MergeTypes'
    BY <1>6, <2>1 DEF ScanEmpty, MergeTypes, Merging
  <2> QED
    BY <2>2, <2>3
<1>8. CASE AwaitInput
  BY <1>8 DEF AwaitInput, FileTypes, StoreTypes, MergeTypes, Merging
<1>10. CASE GiveBack
  <2>1. pool' \in Seq(Buffers)
    <3>1. current_buffers[src] \in Buffers
      BY <1>10 DEF GiveBack, HeapInv, StoreTypes, MergeTypes
    <3> QED
      BY <1>10, <3>1 DEF GiveBack, StoreTypes
  <2> QED
    BY <1>10, <2>1 DEF GiveBack, FileTypes, StoreTypes, MergeTypes, Merging
<1>11. CASE ClearCurrent
  <2>1. current_buffers' \in [Queues -> Buffers \cup {Null}]
    BY <1>11 DEF ClearCurrent, Cleared, StoreTypes
  <2> QED
    BY <1>11, <2>1 DEF ClearCurrent, FileTypes, StoreTypes, MergeTypes, Merging
<1>12. CASE Drained
  BY <1>12, NextIndex DEF Drained, FileTypes, StoreTypes, MergeTypes, Merging
<1>13. CASE FinishRound
  <2>1. out_active' \in [Outs -> BOOLEAN]
    BY <1>13 DEF FinishRound, FileTypes, MergeTypes
  <2> QED
    BY <1>13, <2>1 DEF FinishRound, FileTypes, StoreTypes, MergeTypes, Merging
<1>14. CASE EndRun
  <2>1. runs' \in Seq(Seq(Elements))
    <3>1. FlushOrder \in Seq(Elements)
      BY DEF FlushOrder, FileTypes, Outs
    <3>2. mpc \in Merging
      BY <1>14 DEF EndRun, Merging
    <3> QED
      BY <1>14, <3>1, <3>2, AppendToRunType DEF EndRun
  <2>2. out_buffer' \in [Outs -> Seq(Elements)]
    BY <1>14 DEF EndRun, AfterFlush
  <2>3. FileTypes' /\ StoreTypes'
    BY <1>14, <2>1, <2>2 DEF EndRun, FileTypes, StoreTypes
  <2>4. MergeTypes'
    BY <1>14 DEF EndRun, MergeTypes
  <2> QED
    BY <2>3, <2>4
<1>15. CASE NextRound
  <2>1. cur_task' \in 1 .. Len(Rounds) + 1 /\ i' \in Queues
    <3>1. mpc \notin Ending
      BY <1>15 DEF NextRound, Ending
    <3> QED
      BY <1>15, <3>1, NextIndex DEF NextRound
  <2> QED
    BY <1>15, <2>1 DEF NextRound, FileTypes, StoreTypes, MergeTypes
<1>16. CASE SetDone
  BY <1>16 DEF SetDone, FileTypes, StoreTypes, MergeTypes
<1>7. CASE ScanNext
  <2>1. /\ i' \in Queues /\ mpc' \in {"scan", "finish", "drain", "wait", "take"}
    <3>1. mpc \notin Ending
      BY <1>7 DEF ScanNext, Ending
    <3> QED
      BY <1>7, <3>1, NextIndex DEF ScanNext, ToNextQueue, MergeTypes
  <2>2. FileTypes' /\ StoreTypes'
    BY <1>7 DEF ScanNext, FileTypes, StoreTypes
  <2>3. finished' \in 0 .. K
    <3>1. finished <= i - 1 /\ finished \in 0 .. K /\ i \in Queues
      BY <1>7 DEF ScanNext, ScanInv, Scanning, MergeTypes
    <3>2. finished + 1 \in 0 .. K
      BY <3>1, ConstantFacts
    <3> QED
      BY <1>7, <3>1, <3>2 DEF ScanNext
  <2>4. MergeTypes'
    BY <1>7, <2>1, <2>3 DEF ScanNext, MergeTypes, Merging
  <2> QED
    BY <2>2, <2>4
<1>9. CASE Emit
  <2>1. PICK e \in pq :
          LET b == current_buffers[e[2]]
              full == cur_out_count + 1 >= OUT_SWITCH_THRESHOLD
          IN
          /\ runs' = AppendToRun(Written(e[1]))
          /\ out_buffer' = [out_buffer EXCEPT ![cur_out] = Kept(e[1])]
          /\ out_active' = [out_active EXCEPT ![cur_out] = full]
          /\ cur_out' = IF full THEN OtherOut ELSE cur_out
          /\ cur_out_count' = IF full THEN 0 ELSE cur_out_count + 1
          /\ src' = e[2]
          /\ IF HasMore(b)
             THEN /\ pq' = (pq \ {e}) \cup {<<Head(content[b]), e[2]>>}
                  /\ content' = [content EXCEPT ![b] = Tail(content[b])]
                  /\ mpc' = "drain"
             ELSE /\ pq' = pq \ {e}
                  /\ mpc' = "give_back"
                  /\ UNCHANGED content
    BY <1>9 DEF Emit
  <2>2. mpc = "drain" /\ mpc \in Merging
    BY <1>9 DEF Emit, Merging
  <2>3. /\ Kept(e[1]) \in Seq(Elements) /\ Written(e[1]) \in Seq(Elements)
        /\ cur_out \in Outs /\ OtherOut \in Outs
        /\ cur_out_count + 1 < OUT_SWITCH_THRESHOLD =>
              cur_out_count + 1 \in 0 .. OUT_SWITCH_THRESHOLD - 1
        /\ 0 \in 0 .. OUT_SWITCH_THRESHOLD - 1
    BY <2>2, EmitFacts
  <2>4. FileTypes'
    <3>1. runs' \in Seq(Seq(Elements))
      BY <2>1, <2>2, <2>3, AppendToRunType
    <3>2. out_active' \in [Outs -> BOOLEAN] /\ out_buffer' \in [Outs -> Seq(Elements)]
      BY <2>1, <2>3 DEF FileTypes
    <3>3. UNCHANGED in_run
      BY <1>9 DEF Emit
    <3> QED
      BY <3>1, <3>2, <3>3 DEF FileTypes
  <2>5. cur_out' \in Outs /\ cur_out_count' \in 0 .. OUT_SWITCH_THRESHOLD - 1
    <3>1. cur_out_count \in Nat /\ OUT_SWITCH_THRESHOLD \in Nat
      BY ConstantFacts DEF MergeTypes
    <3> QED
      BY <2>1, <2>3, <3>1
  <2> DEFINE b == current_buffers[e[2]]
  <2>6. /\ e[2] \in Queues /\ b \in Buffers /\ content[b] \in Seq(Elements)
    BY HeapSource
  <2>7. content' \in [Buffers -> Seq(Elements)] /\ pq' \in SUBSET (Elements \X Queues)
    <3> HIDE DEF b
    <3>1. CASE HasMore(b)
      <4>1. Head(content[b]) \in Elements /\ Tail(content[b]) \in Seq(Elements)
        BY <2>6, <3>1 DEF HasMore
      <4>2. /\ pq' = (pq \ {e}) \cup {<<Head(content[b]), e[2]>>}
            /\ content' = [content EXCEPT ![b] = Tail(content[b])]
        BY <2>1, <3>1 DEF b
      <4>3. content \in [Buffers -> Seq(Elements)] /\ pq \in SUBSET (Elements \X Queues)
        BY DEF StoreTypes, MergeTypes
      <4> DEFINE head == Head(content[b])
                 tail == Tail(content[b])
      <4> HIDE DEF head, tail
      <4>4. content' \in [Buffers -> Seq(Elements)]
        BY <4>1, <4>2, <4>3 DEF tail
      <4>5. <<head, e[2]>> \in Elements \X Queues /\ pq' = (pq \ {e}) \cup {<<head, e[2]>>}
        BY <2>6, <4>1, <4>2 DEF head
      <4> QED
        BY <4>3, <4>4, <4>5
    <3>2. CASE ~HasMore(b)
      BY <2>1, <3>2 DEF StoreTypes, MergeTypes, b
    <3> QED
      BY <3>1, <3>2
  <2>8. mpc' \in {"drain", "give_back"} /\ src' \in Queues
    BY <2>1, <2>6
  <2>9. StoreTypes'
    BY <1>9, <2>7 DEF Emit, StoreTypes
  <2>10. MergeTypes'
    BY <1>9, <2>5, <2>7, <2>8 DEF Emit, MergeTypes, Merging
  <2> QED
    BY <2>4, <2>9, <2>10
<1> QED
  BY <1>1, <1>2, <1>3, <1>4, <1>5, <1>6, <1>7, <1>8, <1>9, <1>10, <1>11, <1>12, <1>13,
     <1>14, <1>15, <1>16 DEF Merge

LEMMA WriterTypeStep ==
    ASSUME TypeOK, Writer
    PROVE  TypeOK'
<1>0. FileTypes /\ StoreTypes /\ LoadTypes /\ MergeTypes
  BY TypeParts
<1>1. StoreTypes'
  BY <1>0, WriterFrame DEF StoreTypes
<1>2. LoadTypes' /\ MergeTypes'
  <2>1. LoadTypes'
    BY <1>0, WriterFrame DEF LoadTypes
  <2>2. MergeTypes'
    BY <1>0, WriterFrame DEF MergeTypes
  <2> QED
    BY <2>1, <2>2
<1>3. UNCHANGED <<key, runs, in_run>>
  BY WriterFrame
<1>4. /\ out_active' \in [Outs -> BOOLEAN] /\ out_buffer' \in [Outs -> Seq(Elements)]
      /\ stray' \in Seq(Elements) /\ wpc' \in {"loop", "drain0", "drain1", "done"}
  <2>1. CASE WriterClear
    BY <1>0, <2>1 DEF WriterClear, FileTypes, mergeKeeps
  <2>2. CASE WriterLeave
    BY <1>0, <2>2 DEF WriterLeave, FileTypes, outVars
  <2>3. CASE WriterDrain(0, "drain0", "drain1")
    BY <1>0, <2>3 DEF WriterDrain, FileTypes, Outs
  <2>4. CASE WriterDrain(1, "drain1", "done")
    BY <1>0, <2>4 DEF WriterDrain, FileTypes, Outs
  <2> QED
    BY <2>1, <2>2, <2>3, <2>4 DEF Writer
<1>5. FileTypes'
  BY <1>0, <1>3, <1>4 DEF FileTypes
<1> QED
  BY <1>1, <1>2, <1>5, TypePartsNext

(* The initial runs are runs of elements, and none is empty. *)
LEMMA InitialRunsType ==
    /\ InitialRuns \in Seq(Seq(Elements)) /\ Len(InitialRuns) = InitialCount
    /\ \A r \in 1 .. InitialCount : InitialRuns[r] # << >>
<1> DEFINE n == InitialCount
           run(r) == [p \in 1 .. InitialSizes[r] |-> <<r, p>>]
<1>1. DOMAIN InitialSizes = 1 .. n /\ n \in Nat /\ \A r \in 1 .. n : InitialSizes[r] \in Nat \ {0}
  BY RunsAssumption DEF InitialCount
<1>2. ASSUME NEW r \in 1 .. n
      PROVE  run(r) \in Seq(Elements) /\ run(r) # << >>
  <2>1. \A p \in 1 .. InitialSizes[r] : <<r, p>> \in Elements
    BY <1>1 DEF Elements
  <2>2. run(r) \in [1 .. InitialSizes[r] -> Elements]
    BY <2>1
  <2>3. run(r) \in Seq(Elements)
    BY <1>1, <2>2
  <2>4. DOMAIN run(r) = 1 .. InitialSizes[r] /\ 1 \in 1 .. InitialSizes[r]
    BY <1>1
  <2>5. 1 \notin DOMAIN << >>
    OBVIOUS
  <2> QED
    BY <2>3, <2>4, <2>5
<1>3. InitialRuns = [r \in 1 .. n |-> run(r)]
  BY <1>1 DEF InitialRuns
<1> HIDE DEF n, run
<1>4. InitialRuns \in [1 .. n -> Seq(Elements)]
  BY <1>2, <1>3
<1>5. InitialRuns \in Seq(Seq(Elements)) /\ Len(InitialRuns) = n
  BY <1>1, <1>4
<1>6. \A r \in 1 .. n : InitialRuns[r] = run(r)
  BY <1>3
<1> QED
  BY <1>2, <1>5, <1>6 DEF n

LEMMA InitTypes == Init => TypeOK
<1> SUFFICES ASSUME Init PROVE TypeOK
  OBVIOUS
<1>1. FileTypes
  <2>1. key \in [Elements -> Keys] /\ runs \in Seq(Seq(Elements)) /\ stray \in Seq(Elements)
    BY InitialRunsType DEF Init
  <2>2. out_active \in [Outs -> BOOLEAN] /\ out_buffer \in [Outs -> Seq(Elements)]
    BY DEF Init
  <2> QED
    BY <2>1, <2>2 DEF Init, FileTypes
<1>2. StoreTypes
  <2>1. pool \in Seq(Buffers)
    <3>1. pool = [b \in 1 .. 2 * K |-> b] /\ 2 * K \in Nat
      BY ConstantFacts DEF Init, Buffers
    <3> QED
      BY <3>1 DEF Buffers
  <2>2. /\ content \in [Buffers -> Seq(Elements)] /\ queue \in [Queues -> Seq(Buffers)]
        /\ run_size \in [Queues -> Nat] /\ elements_read \in [Queues -> Nat]
        /\ current_buffers \in [Queues -> Buffers \cup {Null}]
    BY DEF Init
  <2> QED
    BY <2>1, <2>2 DEF Init, StoreTypes
<1>3. 1 \in Queues /\ 1 \in 1 .. Len(Rounds) + 1
  BY ConstantFacts
<1>4. LoadTypes
  BY <1>3 DEF Init, LoadTypes
<1>5. MergeTypes
  <2>1. 0 \in 0 .. K /\ 0 \in 0 .. OUT_SWITCH_THRESHOLD - 1 /\ 0 \in Outs
    BY ConstantFacts
  <2> QED
    BY <1>3, <2>1 DEF Init, MergeTypes
<1> QED
  BY <1>1, <1>2, <1>4, <1>5, TypeParts

----------------------------------------------------------------------------
(* The rounds of the two threads *)

(* A merge step that is not the end of a round stays in the round. *)
LEMMA MergeStages ==
    ASSUME Merge, ~NextRound
    PROVE  /\ UNCHANGED <<inited, cur_task>>
           /\ \/ mpc = "await" /\ inited /\ mpc' = "clean"
              \/ mpc \in Preparing /\ mpc' \in Preparing
              \/ mpc = "begin" /\ mpc' = "scan"
              \/ mpc \in Merging /\ mpc' \in Merging
              \/ mpc = "await_writer" /\ mpc' = "next"
              \/ mpc = "final" /\ mpc' \in {"final", "set_done"}
              \/ mpc = "set_done" /\ mpc' = "done"
           /\ IF mpc = "set_done" THEN done_sorting' = TRUE ELSE UNCHANGED done_sorting
<1> USE DEF Preparing, Merging
<1>1. CASE AwaitInited
  BY <1>1 DEF AwaitInited
<1>2. CASE ReturnLeft
  BY <1>2 DEF ReturnLeft
<1>3. CASE Take
  BY <1>3 DEF Take
<1>4. CASE Install
  BY <1>4 DEF Install, ToNextQueue
<1>5. CASE BeginRun
  BY <1>5 DEF BeginRun
<1>6. CASE ScanEmpty
  BY <1>6 DEF ScanEmpty, ToNextQueue
<1>7. CASE ScanNext
  BY <1>7 DEF ScanNext, ToNextQueue
<1>8. CASE AwaitInput
  BY <1>8 DEF AwaitInput
<1>9. CASE Emit
  BY <1>9 DEF Emit
<1>10. CASE GiveBack
  BY <1>10 DEF GiveBack
<1>11. CASE ClearCurrent
  BY <1>11 DEF ClearCurrent
<1>12. CASE Drained
  BY <1>12 DEF Drained
<1>13. CASE FinishRound
  BY <1>13 DEF FinishRound
<1>14. CASE EndRun
  BY <1>14 DEF EndRun
<1>15. CASE SetDone
  BY <1>15 DEF SetDone
<1> QED
  BY <1>1, <1>2, <1>3, <1>4, <1>5, <1>6, <1>7, <1>8, <1>9, <1>10, <1>11, <1>12, <1>13,
     <1>14, <1>15 DEF Merge

(* Where the input thread goes from where. *)
LEMMA InputStages ==
    ASSUME Input
    PROVE  \/ /\ ipc = "round" /\ ~inited /\ ipc' = "reset" /\ round <= Len(Rounds)
              /\ UNCHANGED <<inited, round>>
           \/ ipc \in InputLoading /\ ipc' \in InputLoading /\ UNCHANGED <<inited, round>>
           \/ /\ ipc = "publish" /\ inited'
              /\ \/ ipc' = "scan" /\ UNCHANGED round
                 \/ ipc' = "round" /\ round' = round + 1
           \/ /\ ipc \in Refilling /\ UNCHANGED inited
              /\ \/ ipc' \in Refilling /\ UNCHANGED round
                 \/ ipc' = "round" /\ round' = round + 1
<1> USE DEF InputLoading, Refilling
<1>1. CASE AwaitRound
  BY <1>1 DEF AwaitRound, LastRoundOver
<1>2. CASE ResetQueue
  BY <1>2 DEF ResetQueue
<1>3. CASE GetBuffer
  BY <1>3 DEF GetBuffer
<1>4. CASE AddFirst
  BY <1>4 DEF AddFirst
<1>5. CASE CountFirst
  BY <1>5 DEF CountFirst
<1>6. CASE PublishRound
  BY <1>6 DEF PublishRound, NextRefill
<1>7. CASE ScanCurrent
  BY <1>7 DEF ScanCurrent, ConsiderLeastRead
<1>8. CASE ScanQueue
  BY <1>8 DEF ScanQueue, ConsiderLeastRead
<1>9. CASE AddNext
  BY <1>9 DEF AddNext
<1>10. CASE CountNext
  BY <1>10 DEF CountNext, NextRefill
<1> QED
  BY <1>1, <1>2, <1>3, <1>4, <1>5, <1>6, <1>7, <1>8, <1>9, <1>10 DEF Input

(* While the input thread refills there is something left to merge, so that the  *)
(* merge thread does not leave the round.                                        *)
LEMMA NoLeaveWhileRefilling ==
    ASSUME TypeOK, RoundInv, FileInv, LoadInv, ScanInv, mpc \in {"finish", "await_writer", "next"}
    PROVE  ipc = "round"
<1> SUFFICES ASSUME ipc # "round" PROVE FALSE
  OBVIOUS
<1>1. ipc \in Refilling
  BY DEF TypeOK, RoundInv, Refilling
<1>2. round = cur_task
  BY <1>1 DEF RoundInv
<1>3. PICK q \in DOMAIN Task : elements_read[q] < run_size[q]
  BY <1>1 DEF LoadInv, RefillInv
<1>4. q \in 1 .. queue_num
  BY <1>2, <1>3, InputRound DEF queue_num, Task
<1>5. ~HasNext(q)
  BY <1>4 DEF ScanInv
<1> QED
  BY <1>3, <1>5 DEF HasNext

LEMMA RoundInvStep ==
    ASSUME TypeOK, RoundInv, FileInv, LoadInv, ScanInv, Input \/ Merge \/ Writer
    PROVE  RoundInv'
<1>1. cur_task \in 1 .. Len(Rounds) + 1 /\ round \in 1 .. Len(Rounds) + 1 /\ Len(Rounds) \in Nat
      /\ inited \in BOOLEAN /\ done_sorting \in BOOLEAN
  BY ConstantFacts DEF TypeOK
<1>2. CASE Input
  <2>1. UNCHANGED <<mpc, cur_task, done_sorting, wpc>>
    BY <1>2, InputFrame
  <2>2. CASE ipc = "round" /\ ~inited /\ ipc' = "reset" /\ round <= Len(Rounds)
             /\ UNCHANGED <<inited, round>>
    <3>1. mpc = "await" /\ round = cur_task
      BY <1>1, <2>2 DEF RoundInv
    <3> QED
      BY <2>1, <2>2, <3>1 DEF RoundInv, Refilling
  <2>3. CASE ipc \in InputLoading /\ ipc' \in InputLoading /\ UNCHANGED <<inited, round>>
    BY <2>1, <2>3 DEF RoundInv, InputLoading, Refilling
  <2>4. CASE /\ ipc = "publish" /\ inited'
             /\ \/ ipc' = "scan" /\ UNCHANGED round
                \/ ipc' = "round" /\ round' = round + 1
    BY <2>1, <2>4 DEF RoundInv, InputLoading, Refilling
  <2>5. CASE /\ ipc \in Refilling /\ UNCHANGED inited
             /\ \/ ipc' \in Refilling /\ UNCHANGED round
                \/ ipc' = "round" /\ round' = round + 1
    BY <2>1, <2>5 DEF RoundInv, InputLoading, Refilling
  <2> QED
    BY <1>2, <2>2, <2>3, <2>4, <2>5, InputStages
<1>3. CASE Merge
  <2>1. UNCHANGED <<ipc, round, wpc>>
    BY <1>3, MergeFrame
  <2>2. CASE NextRound
    <3>1. /\ mpc = "next" /\ inited' = FALSE /\ cur_task' = cur_task + 1
          /\ mpc' = IF cur_task < Len(Rounds) THEN "await" ELSE "final"
          /\ UNCHANGED done_sorting
      BY <2>2 DEF NextRound
    <3>2. ipc = "round"
      BY <3>1, NoLeaveWhileRefilling
    <3>3. round = cur_task + 1 /\ cur_task # Len(Rounds) + 1
      BY <3>1, <3>2 DEF RoundInv, Ending
    <3> QED
      BY <1>1, <2>1, <3>1, <3>2, <3>3
         DEF RoundInv, Ending, Preparing, Merging, InputLoading, Refilling
  <2>3. CASE ~NextRound
    <3>1. UNCHANGED <<inited, cur_task>>
      BY <1>3, <2>3, MergeStages
    <3>2. mpc = "await" <=> mpc' = "await" \/ (mpc = "await" /\ inited)
      BY <1>3, <2>3, MergeStages DEF Preparing, Merging
    <3>3. mpc' \in Ending <=> mpc \in Ending
      BY <1>3, <2>3, MergeStages DEF Preparing, Merging, Ending
    <3>4. /\ inited => mpc' \in {"await", "next"} \cup Preparing \cup Merging
          /\ ~inited => mpc' \in {"await"} \cup Ending
      BY <1>3, <2>3, MergeStages DEF Preparing, Merging, Ending, RoundInv
    <3>5. /\ done_sorting' <=> mpc' = "done"
          /\ done_sorting => done_sorting'
      BY <1>3, <2>3, MergeStages DEF Preparing, Merging, RoundInv
    <3> QED
      BY <2>1, <3>1, <3>2, <3>3, <3>4, <3>5 DEF RoundInv
  <2> QED
    BY <2>2, <2>3
<1>4. CASE Writer
  <2>1. UNCHANGED <<inited, done_sorting, ipc, round, mpc, cur_task>>
    BY <1>4, WriterFrame
  <2>2. wpc' # "loop" => done_sorting
    BY <1>4 DEF Writer, WriterClear, WriterLeave, WriterDrain, mergeKeeps, RoundInv
  <2> QED
    BY <2>1, <2>2 DEF RoundInv
<1> QED
  BY <1>2, <1>3, <1>4

(* The runs of the file change by what the merge thread appends to the last one, *)
(* and by the run that it begins.                                                *)
LEMMA FileStep ==
    ASSUME TypeOK, FileInv, HeapInv, Input \/ Merge \/ Writer
    PROVE  \/ UNCHANGED <<runs, in_run>>
           \/ runs' = Append(runs, << >>) /\ in_run' = TRUE /\ BeginRun
           \/ /\ mpc \in {"drain", "await_writer"}
              /\ RunCount' = RunCount
              /\ \E s \in Seq(Elements) : runs'[RunCount] = runs[RunCount] \o s
              /\ \A r \in 1 .. RunCount - 1 : runs'[r] = runs[r]
              /\ \/ Emit /\ UNCHANGED in_run
                 \/ EndRun /\ in_run' = FALSE
<1>1. CASE Input
  BY <1>1, InputFrame
<1>2. CASE Writer
  BY <1>2, WriterFrame
<1>3. CASE Emit
  <2>1. PICK e \in pq : runs' = AppendToRun(Written(e[1]))
    BY <1>3 DEF Emit
  <2>2. mpc = "drain" /\ mpc \in Merging /\ UNCHANGED in_run
    BY <1>3 DEF Emit, Merging
  <2>3. Written(e[1]) \in Seq(Elements)
    BY <2>2, EmitFacts
  <2>4. /\ Len(runs') = RunCount /\ runs'[RunCount] = runs[RunCount] \o Written(e[1])
        /\ \A r \in 1 .. RunCount - 1 : runs'[r] = runs[r]
    BY <2>1, <2>2, <2>3, AppendToRunType
  <2> QED
    BY <1>3, <2>2, <2>3, <2>4 DEF RunCount
<1>4. CASE EndRun
  <2>1. runs' = AppendToRun(FlushOrder) /\ in_run' = FALSE /\ mpc = "await_writer"
        /\ mpc \in Merging
    BY <1>4 DEF EndRun, Merging
  <2>2. FlushOrder \in Seq(Elements)
    <3>1. out_buffer[0] \in Seq(Elements) /\ out_buffer[1] \in Seq(Elements)
      BY DEF TypeOK, Outs
    <3> QED
      BY <3>1 DEF FlushOrder
  <2>3. /\ Len(runs') = RunCount /\ runs'[RunCount] = runs[RunCount] \o FlushOrder
        /\ \A r \in 1 .. RunCount - 1 : runs'[r] = runs[r]
    BY <2>1, <2>2, AppendToRunType
  <2> QED
    BY <1>4, <2>1, <2>2, <2>3 DEF RunCount
<1>5. CASE BeginRun
  BY <1>5 DEF BeginRun
<1>6. CASE Merge /\ ~Emit /\ ~EndRun /\ ~BeginRun
  BY <1>6 DEF Merge, AwaitInited, ReturnLeft, Take, Install, ScanEmpty, ScanNext,
       AwaitInput, GiveBack, ClearCurrent, Drained, FinishRound, NextRound, SetDone, runVars
<1> QED
  BY <1>1, <1>2, <1>3, <1>4, <1>5, <1>6

(* A round that somebody reads has all its runs complete: nothing is appended to  *)
(* them.                                                                         *)
LEMMA TaskRunsKept ==
    ASSUME TypeOK, RoundInv, FileInv, HeapInv, Input \/ Merge \/ Writer, ipc # "round"
    PROVE  /\ \A q \in DOMAIN Task : runs'[Task[q] + 1] = runs[Task[q] + 1]
           /\ Len(runs') \in Nat
<1> SUFFICES ASSUME NEW q \in DOMAIN Task
             PROVE  runs'[Task[q] + 1] = runs[Task[q] + 1] /\ Len(runs') \in Nat
  BY InputRound
<1>1. /\ Task[q] \in Nat /\ Task[q] < RunCount
      /\ Task[q] + 1 < RunCount \/ ~in_run
  BY InputRound
<1>2. runs \in Seq(Seq(Elements)) /\ RunCount = Len(runs) /\ RunCount \in Nat
  BY DEF TypeOK, RunCount
<1>3. CASE UNCHANGED runs
  BY <1>2, <1>3
<1>4. CASE runs' = Append(runs, << >>)
  <2>1. Task[q] + 1 \in 1 .. Len(runs)
    BY <1>1, <1>2
  <2>2. runs' \in Seq(Seq(Elements)) /\ \A r \in 1 .. Len(runs) : runs'[r] = runs[r]
    BY <1>2, <1>4
  <2> QED
    BY <2>1, <2>2
<1>5. CASE /\ mpc \in {"drain", "await_writer"} /\ RunCount' = RunCount
           /\ \A r \in 1 .. RunCount - 1 : runs'[r] = runs[r]
  <2>1. in_run
    BY <1>5 DEF FileInv, Merging
  <2>2. Task[q] + 1 \in 1 .. RunCount - 1
    BY <1>1, <1>2, <2>1
  <2> QED
    BY <1>2, <1>5, <2>2 DEF RunCount
<1> QED
  BY <1>3, <1>4, <1>5, FileStep

LEMMA FileInvStep ==
    ASSUME TypeOK, RoundInv, FileInv, HeapInv, NonEmptyInv, Input \/ Merge \/ Writer
    PROVE  FileInv'
<1>1. /\ runs \in Seq(Seq(Elements)) /\ RunCount = Len(runs) /\ RunCount \in Nat
      /\ cur_task \in Nat /\ InitialCount \in Nat /\ in_run \in BOOLEAN
      /\ RunCount' = Len(runs')
  BY ConstantFacts DEF TypeOK, RunCount
<1>2. CASE UNCHANGED <<runs, in_run>>
  <2>1. CASE Merge /\ NextRound
    BY <1>1, <1>2, <2>1 DEF NextRound, FileInv, Merging
  <2>2. CASE Merge /\ ~NextRound
    <3>1. /\ UNCHANGED cur_task
          /\ mpc' \in Merging \cup {"next"} <=> mpc \in Merging \cup {"next"}
          /\ mpc' \in Merging <=> mpc \in Merging
      <4>1. ~BeginRun /\ ~EndRun
        BY <1>1, <1>2 DEF BeginRun, EndRun, FileInv, Merging
      <4>2. mpc # "begin" \/ mpc' # "scan"
        BY <2>2, <4>1, SMTT(60) DEF Merge, AwaitInited, ReturnLeft, Take, Install, ScanEmpty, ScanNext,
             AwaitInput, Emit, GiveBack, ClearCurrent, Drained, FinishRound, NextRound, SetDone
      <4>3. mpc # "await_writer" \/ mpc' # "next"
        BY <2>2, <4>1 DEF Merge, AwaitInited, ReturnLeft, Take, Install, ScanEmpty, ScanNext,
             AwaitInput, Emit, GiveBack, ClearCurrent, Drained, FinishRound, NextRound, SetDone
      <4> QED
        BY <2>2, <4>2, <4>3, MergeStages DEF Preparing, Merging
    <3> QED
      BY <1>1, <1>2, <3>1 DEF FileInv
  <2>3. CASE Input \/ Writer
    <3>1. UNCHANGED <<mpc, cur_task>>
      BY <2>3, InputFrame, WriterFrame
    <3> QED
      BY <1>1, <1>2, <3>1 DEF FileInv
  <2> QED
    BY <2>1, <2>2, <2>3
<1>3. CASE BeginRun
  <2>1. /\ mpc = "begin" /\ mpc' = "scan" /\ runs' = Append(runs, << >>) /\ in_run' = TRUE
        /\ UNCHANGED cur_task
    BY <1>3 DEF BeginRun
  <2>2. Len(runs') = RunCount + 1 /\ \A r \in 1 .. RunCount : runs'[r] = runs[r]
    BY <1>1, <2>1
  <2>3. ~in_run /\ RunCount = InitialCount + cur_task - 1
    BY <1>1, <2>1 DEF FileInv, Merging
  <2> QED
    BY <1>1, <2>1, <2>2, <2>3 DEF FileInv, Merging
<1>4. CASE Emit /\ UNCHANGED in_run
  <2>1. mpc = "drain" /\ mpc' \in {"drain", "give_back"} /\ UNCHANGED cur_task
    BY <1>4 DEF Emit
  <2>2. /\ RunCount' = RunCount
        /\ \A r \in 1 .. RunCount - 1 : runs'[r] = runs[r]
    <3>1. ~BeginRun
      BY <2>1 DEF BeginRun
    <3> QED
      BY <1>1, <3>1, FileStep
  <2>3. in_run
    BY <2>1 DEF FileInv, Merging
  <2> QED
    BY <1>1, <1>4, <2>1, <2>2, <2>3 DEF FileInv, Merging
<1>5. CASE EndRun
  <2>1. /\ mpc = "await_writer" /\ mpc' = "next" /\ UNCHANGED cur_task /\ in_run' = FALSE
        /\ runs' = AppendToRun(FlushOrder)
    BY <1>5 DEF EndRun
  <2>2. mpc \in Merging /\ in_run
    BY <2>1 DEF Merging, FileInv
  <2>3. /\ out_buffer[0] \in Seq(Elements) /\ out_buffer[1] \in Seq(Elements)
        /\ runs[RunCount] \in Seq(Elements)
    BY <2>2, WritingRun DEF TypeOK, Outs
  <2>4. FlushOrder \in Seq(Elements)
    BY <2>3 DEF FlushOrder
  <2>5. /\ Len(runs') = RunCount /\ runs'[RunCount] = runs[RunCount] \o FlushOrder
        /\ \A r \in 1 .. RunCount - 1 : runs'[r] = runs[r]
    BY <2>1, <2>2, <2>4, AppendToRunType
  <2>6. \/ runs[RunCount] # << >> \/ out_buffer[0] # << >> \/ out_buffer[1] # << >>
    BY <2>1, <2>2 DEF HeapInv, NonEmptyInv
  <2>7. runs[RunCount] \o FlushOrder # << >>
    BY <2>3, <2>6 DEF FlushOrder
  <2>8. \A r \in 1 .. RunCount : runs'[r] # << >>
    BY <1>1, <2>2, <2>5, <2>7 DEF FileInv
  <2> QED
    BY <1>1, <2>1, <2>2, <2>5, <2>8 DEF FileInv, Merging
<1> QED
  BY <1>2, <1>3, <1>4, <1>5, FileStep

----------------------------------------------------------------------------
(* What has been loaded *)

(* A step of another thread. *)
LEMMA LoadInvKept ==
    ASSUME TypeOK, RoundInv, FileInv, HeapInv, LoadInv, Merge \/ Writer
    PROVE  LoadInv'
<1>1. UNCHANGED <<run_size, elements_read, ipc, round, slot, hand, run_offsets, min_index>>
  BY MergeFrame, WriterFrame
<1>2. UNCHANGED Task
  BY <1>1 DEF Task
<1>3. ASSUME NEW q \in Queues
      PROVE  (HasFirst(q)' <=> HasFirst(q)) /\ (Counted(q)' <=> Counted(q))
  BY <1>1, <1>2 DEF HasFirst, Counted
<1>4. ASSUME NEW q \in Queues, HasFirst(q)
      PROVE  runs'[Task[q] + 1] = runs[Task[q] + 1]
  <2>1. ipc # "round" /\ q \in DOMAIN Task
    <3>1. ipc # "round"
      BY <1>4 DEF HasFirst, Refilling
    <3>2. ipc \in InputLoading => slot \in DOMAIN Task
      BY DEF LoadInv
    <3>3. Len(Task) \in Nat /\ DOMAIN Task = 1 .. Len(Task)
      BY <3>1, InputRound
    <3> QED
      BY <1>4, <3>1, <3>2, <3>3, ConstantFacts DEF HasFirst, InputLoading
  <2> QED
    BY <2>1, TaskRunsKept
<1>5. FirstInv'
  BY <1>1, <1>2, <1>3, <1>4 DEF LoadInv, FirstInv
<1>6. RefillInv' /\ ChosenInv'
  BY <1>1, <1>2 DEF LoadInv, RefillInv, ChosenInv
<1> QED
  BY <1>1, <1>2, <1>5, <1>6 DEF LoadInv

LEMMA LoadInvStep ==
    ASSUME TypeOK, RoundInv, FileInv, LoadInv, Input
    PROVE  LoadInv'
<1>0. UNCHANGED <<runs, current_buffers>>
  BY InputFrame
<1>20. /\ run_size \in [Queues -> Nat] /\ elements_read \in [Queues -> Nat]
       /\ run_offsets \in [Queues -> Nat] /\ slot \in Queues /\ slot \in Nat
       /\ \A q \in Queues : q \in Nat
  <2>1. /\ run_size \in [Queues -> Nat] /\ elements_read \in [Queues -> Nat]
        /\ run_offsets \in [Queues -> Nat] /\ slot \in Queues
    BY DEF TypeOK
  <2>2. \A q \in Queues : q \in Nat
    BY ConstantFacts
  <2> QED
    BY <2>1, <2>2
<1>21. ipc # "round" =>
          /\ DOMAIN Task = 1 .. Len(Task) /\ Len(Task) \in Nat \ {0}
          /\ \A q \in DOMAIN Task : q \in Queues
  <2> DEFINE n == Len(Task)
  <2>1. ipc # "round" =>
           DOMAIN Task = 1 .. n /\ n \in 2 .. K /\ \A q \in DOMAIN Task : q \in Queues
    BY InputRound
  <2> HIDE DEF n
  <2>2. n \in 2 .. K => n \in Nat \ {0}
    BY ConstantFacts
  <2> QED
    BY <2>1, <2>2 DEF n
<1>22. UNCHANGED round => UNCHANGED Task
  BY DEF Task
<1> USE DEF queueVars, offsetVars, choiceVars, poolVars
<1>1. CASE AwaitRound
  <2>1. /\ ipc = "round" /\ ipc' = "reset" /\ slot' = 1 /\ UNCHANGED <<round, hand>>
        /\ round <= Len(Rounds)
    BY <1>1 DEF AwaitRound
  <2>2. 1 \in DOMAIN Task
    <3>1. round \in 1 .. Len(Rounds)
      BY <2>1, ConstantFacts DEF TypeOK
    <3>2. Len(Task) \in 2 .. K /\ DOMAIN Task = 1 .. Len(Task)
      BY <3>1, RoundFacts DEF Task
    <3> QED
      BY <3>2, ConstantFacts
  <2>3. \A q \in Queues : ~HasFirst(q)' /\ ~Counted(q)'
    BY <1>20, <2>1 DEF HasFirst, Counted, Refilling
  <2>4. FirstInv' /\ RefillInv' /\ ChosenInv'
    BY <2>1, <2>3 DEF FirstInv, RefillInv, ChosenInv, Refilling
  <2> QED
    BY <1>22, <2>1, <2>2, <2>4 DEF LoadInv
<1>2. CASE ResetQueue
  <2>1. /\ ipc = "reset" /\ ipc' = "init_get"
        /\ elements_read' = [elements_read EXCEPT ![slot] = 0]
        /\ UNCHANGED <<round, hand, slot, run_size, Task>>
    BY <1>2, <1>22 DEF ResetQueue
  <2>2. ASSUME NEW q \in Queues
        PROVE  /\ HasFirst(q)' <=> HasFirst(q)
               /\ Counted(q)' <=> Counted(q)
               /\ Counted(q) => q # slot
    BY <1>20, <2>1 DEF HasFirst, Counted, InputLoading, Refilling
  <2>3. FirstInv'
    BY <1>0, <1>20, <2>1, <2>2 DEF LoadInv, FirstInv
  <2>4. RefillInv' /\ ChosenInv'
    BY <2>1 DEF RefillInv, ChosenInv, Refilling
  <2> QED
    BY <2>1, <2>3, <2>4 DEF LoadInv, InputLoading
<1>3. CASE GetBuffer
  <2>1. /\ \/ ipc = "init_get" /\ ipc' = "init_add"
           \/ ipc = "get" /\ ipc' = "add"
        /\ UNCHANGED <<round, slot, run_size, elements_read, run_offsets, min_index, Task>>
    BY <1>3, <1>22 DEF GetBuffer
  <2>2. hand' # Null
    BY <1>3, LastOfPool, ConstantFacts DEF GetBuffer, TypeOK
  <2>3. ASSUME NEW q \in Queues
        PROVE  (HasFirst(q)' <=> HasFirst(q)) /\ (Counted(q)' <=> Counted(q))
    BY <2>1 DEF HasFirst, Counted, InputLoading, Refilling
  <2>4. FirstInv'
    BY <1>0, <2>1, <2>3 DEF LoadInv, FirstInv
  <2>5. RefillInv' /\ ChosenInv'
    BY <2>1 DEF LoadInv, RefillInv, ChosenInv, Refilling
  <2> QED
    BY <2>1, <2>2, <2>4, <2>5 DEF LoadInv, InputLoading
<1>4. CASE AddFirst
  <2>1. /\ ipc = "init_add" /\ ipc' = "init_count"
        /\ run_size' = [run_size EXCEPT ![slot] = Len(runs[Task[slot] + 1])]
        /\ elements_read' = [elements_read EXCEPT ![slot] = 0]
        /\ hand' = Null
        /\ UNCHANGED <<round, slot, Task>>
    BY <1>4, <1>22 DEF AddFirst
  <2>2. Len(runs[Task[slot] + 1]) \in Nat \ {0}
    BY <2>1, FirstChunk
  <2>3. ASSUME NEW q \in Queues
        PROVE  /\ HasFirst(q)' => HasFirst(q) \/ q = slot
               /\ HasFirst(q) \/ Counted(q) => q # slot
               /\ Counted(q)' <=> Counted(q)
    BY <1>20, <2>1 DEF HasFirst, Counted, InputLoading, Refilling
  <2>4. FirstInv'
    BY <1>0, <1>20, <2>1, <2>2, <2>3 DEF LoadInv, FirstInv
  <2>5. RefillInv' /\ ChosenInv'
    BY <2>1 DEF RefillInv, ChosenInv, Refilling
  <2> QED
    BY <2>1, <2>4, <2>5 DEF LoadInv, InputLoading
<1>5. CASE CountFirst
  <2>1. /\ ipc = "init_count"
        /\ elements_read' = [elements_read EXCEPT
                               ![slot] = elements_read[slot] + Smaller(run_size[slot], CHUNK)]
        /\ \/ slot < Len(Task) /\ ipc' = "reset" /\ slot' = slot + 1
           \/ slot >= Len(Task) /\ ipc' = "publish" /\ UNCHANGED slot
        /\ UNCHANGED <<round, hand, run_size, Task>>
    BY <1>5, <1>20, <1>21, <1>22 DEF CountFirst
  <2>2. slot \in DOMAIN Task /\ elements_read[slot] = 0
    BY <2>1 DEF LoadInv, FirstInv, InputLoading
  <2>3. ASSUME NEW q \in Queues
        PROVE  /\ HasFirst(q)' => HasFirst(q)
               /\ Counted(q)' => Counted(q) \/ q = slot
               /\ Counted(q) => q # slot
    BY <1>20, <1>21, <2>1, <2>2 DEF HasFirst, Counted, InputLoading, Refilling
  <2>4. elements_read'[slot] = Smaller(run_size[slot], CHUNK)
    <3>1. Smaller(run_size[slot], CHUNK) \in Nat
      BY <1>20, ConstantFacts DEF Smaller
    <3> QED
      BY <1>20, <2>1, <2>2, <3>1
  <2>5. \A q \in Queues : q # slot => elements_read'[q] = elements_read[q]
    BY <1>20, <2>1
  <2>6. FirstInv'
    BY <1>0, <1>20, <2>1, <2>3, <2>4, <2>5 DEF LoadInv, FirstInv
  <2>7. RefillInv' /\ ChosenInv'
    BY <2>1 DEF RefillInv, ChosenInv, Refilling
  <2>8. slot' \in DOMAIN Task
    BY <1>21, <2>1, <2>2
  <2> QED
    BY <2>1, <2>6, <2>7, <2>8 DEF LoadInv, InputLoading

<1>6. CASE PublishRound
  <2>1. /\ ipc = "publish"
        /\ run_offsets' = [q \in Queues |->
              IF q \in DOMAIN Task THEN Smaller(run_size[q], CHUNK) ELSE run_offsets[q]]
        /\ UNCHANGED <<hand, run_size, elements_read>>
        /\ NextRefill(run_offsets')
    BY <1>6 DEF PublishRound
  <2>2. \A q \in DOMAIN Task :
           /\ run_offsets'[q] = elements_read[q] /\ run_offsets'[q] <= run_size[q]
           /\ run_size[q] = Len(runs[Task[q] + 1]) /\ run_size[q] > 0
    <3> SUFFICES ASSUME NEW q \in DOMAIN Task
                 PROVE  /\ run_offsets'[q] = elements_read[q] /\ run_offsets'[q] <= run_size[q]
                        /\ run_size[q] = Len(runs[Task[q] + 1]) /\ run_size[q] > 0
      OBVIOUS
    <3>1. q \in Queues /\ HasFirst(q) /\ Counted(q)
      BY <1>21, <2>1 DEF HasFirst, Counted
    <3>2. Smaller(run_size[q], CHUNK) <= run_size[q]
      BY <1>20, <3>1, ConstantFacts, SmallerFacts
    <3> QED
      BY <2>1, <3>1, <3>2 DEF LoadInv, FirstInv
  <2>3. CASE ipc' = "round"
    <3>1. \A q \in Queues : ~HasFirst(q)' /\ ~Counted(q)'
      BY <2>3 DEF HasFirst, Counted, InputLoading, Refilling
    <3>2. FirstInv' /\ RefillInv' /\ ChosenInv'
      BY <2>3, <3>1 DEF FirstInv, RefillInv, ChosenInv, Refilling
    <3>3. hand = Null
      BY <2>1 DEF LoadInv
    <3> QED
      BY <2>1, <2>3, <3>2, <3>3 DEF LoadInv, InputLoading
  <2>4. CASE ipc' # "round"
    <3>1. /\ ipc' = "scan" /\ slot' = 1 /\ min_index' = Null /\ UNCHANGED round
          /\ \E q \in DOMAIN Task : ~(run_offsets'[q] >= run_size[q])
      BY <2>1, <2>4 DEF NextRefill
    <3>2. UNCHANGED Task /\ slot' \in DOMAIN Task /\ hand = Null
      BY <1>21, <1>22, <2>1, <3>1 DEF LoadInv
    <3>3. \E q \in DOMAIN Task : elements_read[q] < run_size[q]
      <4>1. PICK q \in DOMAIN Task : ~(run_offsets'[q] >= run_size[q])
        BY <3>1
      <4>2. q \in Queues /\ run_offsets'[q] = elements_read[q]
        BY <1>21, <2>1, <2>2
      <4>3. elements_read[q] \in Nat /\ run_size[q] \in Nat
        BY <1>20, <4>2
      <4> QED
        BY <4>1, <4>2, <4>3
    <3>4. FirstInv'
      <4>1. \A q \in Queues : HasFirst(q)' => q \in DOMAIN Task
        BY <3>1, <3>2 DEF HasFirst
      <4>2. \A q \in Queues : ~Counted(q)'
        BY <3>1 DEF Counted, InputLoading
      <4> QED
        BY <1>0, <2>1, <2>2, <3>1, <3>2, <4>1, <4>2 DEF FirstInv
    <3>5. RefillInv' /\ ChosenInv'
      BY <2>1, <2>2, <3>1, <3>2, <3>3 DEF RefillInv, ChosenInv, Refilling
    <3> QED
      BY <2>1, <3>1, <3>2, <3>4, <3>5 DEF LoadInv
  <2> QED
    BY <2>3, <2>4
(* A step of the search for the next queue.                                      *)
<1>7. ASSUME ipc \in {"scan", "scan_queue"}, ConsiderLeastRead \/
                /\ ipc' \in {"scan_queue"} /\ UNCHANGED <<slot, round, min_index>>,
             UNCHANGED <<run_size, elements_read, run_offsets, hand>>
      PROVE  LoadInv'
  <2>1. slot \in DOMAIN Task /\ hand = Null /\ ipc \in Refilling
    BY <1>7 DEF LoadInv, Refilling
  <2>2. CASE ipc' = "round"
    <3>1. \A q \in Queues : ~HasFirst(q)' /\ ~Counted(q)'
      BY <2>2 DEF HasFirst, Counted, InputLoading, Refilling
    <3>2. FirstInv' /\ RefillInv' /\ ChosenInv'
      BY <2>2, <3>1 DEF FirstInv, RefillInv, ChosenInv, Refilling
    <3> QED
      BY <1>7, <2>1, <2>2, <3>2 DEF LoadInv, InputLoading
  <2>3. CASE ipc' # "round"
    <3>1. /\ ipc' \in {"scan", "scan_queue", "get"} /\ UNCHANGED round
          /\ ipc' \in {"scan", "scan_queue"} => slot' \in DOMAIN Task
      BY <1>7, <1>20, <1>21, <2>1, <2>3 DEF ConsiderLeastRead
    <3>2. UNCHANGED Task
      BY <1>22, <3>1
    <3>3. min_index' # Null \/ ipc' = "get" =>
             min_index' \in DOMAIN Task /\ run_offsets[min_index'] < run_size[min_index']
      <4>1. CASE min_index' = min_index
        <5>1. ipc' = "get" => min_index # Null
          BY <1>7, <2>3, <4>1 DEF ConsiderLeastRead
        <5> QED
          BY <1>7, <4>1, <5>1 DEF LoadInv, ChosenInv
      <4>2. CASE LeastRead(slot) /\ min_index' = slot
        BY <2>1, <4>2 DEF LeastRead
      <4> QED
        BY <1>7, <4>1, <4>2 DEF ConsiderLeastRead
    <3>4. ASSUME NEW q \in Queues
          PROVE  (HasFirst(q)' <=> HasFirst(q)) /\ ~Counted(q)'
      BY <2>1, <3>1, <3>2 DEF HasFirst, Counted, InputLoading, Refilling
    <3>5. FirstInv'
      BY <1>0, <1>7, <3>1, <3>2, <3>4 DEF LoadInv, FirstInv
    <3>6. RefillInv'
      BY <1>7, <2>1, <3>1, <3>2 DEF LoadInv, RefillInv, Refilling
    <3>7. ChosenInv'
      BY <1>7, <3>1, <3>2, <3>3 DEF ChosenInv
    <3> QED
      BY <1>7, <2>1, <3>1, <3>2, <3>5, <3>6, <3>7 DEF LoadInv, InputLoading
  <2> QED
    BY <2>2, <2>3
<1>8. CASE ScanCurrent
  <2>1. ipc \in {"scan", "scan_queue"} /\ UNCHANGED <<run_size, elements_read, run_offsets, hand>>
    BY <1>8 DEF ScanCurrent
  <2>2. CASE current_buffers[slot] = Null
    <3>1. ipc' \in {"scan_queue"} /\ UNCHANGED <<slot, round, min_index>>
      BY <1>8, <2>2 DEF ScanCurrent
    <3> QED
      BY <1>7, <2>1, <3>1
  <2>3. CASE ConsiderLeastRead
    BY <1>7, <2>1, <2>3
  <2> QED
    BY <1>8, <2>2, <2>3 DEF ScanCurrent
<1>9. CASE ScanQueue
  <2>1. ipc = "scan_queue" /\ UNCHANGED <<run_size, elements_read, run_offsets, hand>>
    BY <1>9 DEF ScanQueue
  <2>2. CASE ConsiderLeastRead
    BY <1>7, <2>1, <2>2
  <2>3. CASE /\ Empty(slot) /\ HasNext(slot)
             /\ min_index' = slot /\ ipc' = "get" /\ UNCHANGED <<slot, round>>
    <3>1. slot \in DOMAIN Task /\ hand = Null /\ UNCHANGED Task
      BY <1>22, <2>1, <2>3 DEF LoadInv
    <3>2. run_offsets[slot] < run_size[slot]
      BY <2>1, <2>3, <3>1 DEF HasNext, LoadInv, RefillInv, Refilling
    <3>3. ASSUME NEW q \in Queues
          PROVE  (HasFirst(q)' <=> HasFirst(q)) /\ ~Counted(q)'
      BY <2>1, <2>3, <3>1 DEF HasFirst, Counted, InputLoading, Refilling
    <3>4. FirstInv'
      BY <1>0, <2>1, <2>3, <3>1, <3>3 DEF LoadInv, FirstInv
    <3>5. RefillInv' /\ ChosenInv'
      BY <2>1, <2>3, <3>1, <3>2 DEF LoadInv, RefillInv, ChosenInv, Refilling
    <3> QED
      BY <2>1, <2>3, <3>1, <3>4, <3>5 DEF LoadInv, InputLoading
  <2> QED
    BY <1>9, <2>2, <2>3 DEF ScanQueue
<1>10. CASE AddNext
  <2>1. /\ ipc = "add" /\ ipc' = "count" /\ hand' = Null
        /\ run_offsets' = [run_offsets EXCEPT ![min_index] = NextOffset(min_index)]
        /\ UNCHANGED <<round, slot, run_size, elements_read, min_index, Task>>
    BY <1>10, <1>22 DEF AddNext
  <2>2. /\ min_index \in DOMAIN Task /\ min_index \in Queues
        /\ NextOffset(min_index) \in Nat /\ run_offsets[min_index] < NextOffset(min_index)
        /\ NextOffset(min_index) <= run_size[min_index]
    BY <2>1, NextChunk
  <2>3. ASSUME NEW q \in Queues
        PROVE  (HasFirst(q)' <=> HasFirst(q)) /\ ~Counted(q)'
    BY <2>1 DEF HasFirst, Counted, InputLoading, Refilling
  <2>4. FirstInv'
    BY <1>0, <2>1, <2>3 DEF LoadInv, FirstInv
  <2>5. /\ run_offsets'[min_index] = NextOffset(min_index)
        /\ \A q \in Queues : q # min_index => run_offsets'[q] = run_offsets[q]
    BY <1>20, <2>1, <2>2
  <2>6. elements_read[min_index] = run_offsets[min_index]
    BY <2>1, <2>2 DEF LoadInv, RefillInv, Refilling
  <2>7. RefillInv'
    BY <1>21, <2>1, <2>2, <2>5 DEF LoadInv, RefillInv, Refilling
  <2>8. ChosenInv'
    BY <2>1, <2>2, <2>5, <2>6 DEF ChosenInv
  <2> QED
    BY <2>1, <2>4, <2>7, <2>8 DEF LoadInv, InputLoading
<1>11. CASE CountNext
  <2>1. /\ ipc = "count"
        /\ elements_read' = [elements_read EXCEPT ![min_index] = run_offsets[min_index]]
        /\ UNCHANGED <<hand, run_size, run_offsets>>
        /\ NextRefill(run_offsets)
    BY <1>11 DEF CountNext
  <2>2. /\ min_index \in DOMAIN Task /\ min_index \in Queues /\ hand = Null
        /\ \A q \in DOMAIN Task :
              /\ run_offsets[q] <= run_size[q]
              /\ q # min_index => elements_read[q] = run_offsets[q]
    BY <1>21, <2>1 DEF LoadInv, ChosenInv, RefillInv, Refilling
  <2>3. \A q \in DOMAIN Task : elements_read'[q] = run_offsets[q]
    BY <1>20, <1>21, <2>1, <2>2
  <2>4. CASE ipc' = "round"
    <3>1. \A q \in Queues : ~HasFirst(q)' /\ ~Counted(q)'
      BY <2>4 DEF HasFirst, Counted, InputLoading, Refilling
    <3>2. FirstInv' /\ RefillInv' /\ ChosenInv'
      BY <2>4, <3>1 DEF FirstInv, RefillInv, ChosenInv, Refilling
    <3> QED
      BY <2>1, <2>2, <2>4, <3>2 DEF LoadInv, InputLoading
  <2>5. CASE ipc' # "round"
    <3>1. /\ ipc' = "scan" /\ slot' = 1 /\ min_index' = Null /\ UNCHANGED round
          /\ \E q \in DOMAIN Task : ~(run_offsets[q] >= run_size[q])
      BY <2>1, <2>5 DEF NextRefill
    <3>2. UNCHANGED Task /\ slot' \in DOMAIN Task
      BY <1>21, <1>22, <2>1, <3>1
    <3>3. \E q \in DOMAIN Task : elements_read'[q] < run_size[q]
      <4>1. PICK q \in DOMAIN Task : ~(run_offsets[q] >= run_size[q])
        BY <3>1
      <4>2. q \in Queues /\ elements_read'[q] = run_offsets[q]
        BY <1>21, <2>1, <2>3
      <4>3. run_offsets[q] \in Nat /\ run_size[q] \in Nat
        BY <1>20, <4>2
      <4> QED
        BY <4>1, <4>2, <4>3
    <3>4. ASSUME NEW q \in Queues
          PROVE  (HasFirst(q)' <=> HasFirst(q)) /\ ~Counted(q)'
      BY <2>1, <3>1, <3>2 DEF HasFirst, Counted, InputLoading, Refilling
    <3>5. FirstInv'
      BY <1>0, <2>1, <3>1, <3>2, <3>4 DEF LoadInv, FirstInv
    <3>6. RefillInv' /\ ChosenInv'
      BY <2>1, <2>2, <2>3, <3>1, <3>2, <3>3 DEF RefillInv, ChosenInv, Refilling
    <3> QED
      BY <2>1, <2>2, <3>1, <3>2, <3>5, <3>6 DEF LoadInv
  <2> QED
    BY <2>4, <2>5
<1> QED
  BY <1>1, <1>2, <1>3, <1>4, <1>5, <1>6, <1>8, <1>9, <1>10, <1>11 DEF Input

----------------------------------------------------------------------------
(* The loop over the queues, and the heap *)

(* A queue of a round that has been read to the end stays so until the merge      *)
(* thread has left the round.                                                    *)
LEMMA EndStays ==
    ASSUME TypeOK, RoundInv, LoadInv, Input \/ Merge \/ Writer, NEW q \in Queues, ~HasNext(q),
           mpc \in Merging \cup {"next"}
    PROVE  ~HasNext(q)'
<1>1. CASE Merge \/ Writer
  BY <1>1, MergeFrame, WriterFrame DEF HasNext
<1>2. CASE Input
  <2>1. inited /\ ipc \notin InputLoading
    BY DEF RoundInv, Merging, Ending
  <2>2. CASE CountNext
    <3>1. /\ elements_read' = [elements_read EXCEPT ![min_index] = run_offsets[min_index]]
          /\ UNCHANGED run_size /\ ipc = "count"
      BY <2>2 DEF CountNext
    <3>2. /\ min_index \in DOMAIN Task /\ elements_read[min_index] < run_offsets[min_index]
          /\ run_offsets[min_index] <= run_size[min_index]
      BY <3>1 DEF LoadInv, ChosenInv, RefillInv, Refilling
    <3>3. q # min_index
      <4>1. SUFFICES ASSUME q = min_index PROVE FALSE
        OBVIOUS
      <4>2. elements_read[q] \in Nat /\ run_offsets[q] \in Nat /\ run_size[q] \in Nat
        BY DEF TypeOK
      <4> QED
        BY <3>2, <4>1, <4>2 DEF HasNext
    <3> QED
      BY <3>1, <3>3 DEF HasNext, TypeOK
  <2>3. CASE ~CountNext
    <3>1. UNCHANGED <<run_size, elements_read>>
      BY <1>2, <2>1, <2>3 DEF Input, AwaitRound, ResetQueue, GetBuffer, AddFirst, CountFirst,
         PublishRound, ScanCurrent, ScanQueue, AddNext, queueVars, InputLoading
    <3> QED
      BY <3>1 DEF HasNext
  <2> QED
    BY <2>2, <2>3
<1> QED
  BY <1>1, <1>2

(* ToNextQueue ends the loop with "finish" only after the last queue, and only if *)
(* as many queues have ended as there are.                                       *)
LEMMA LoopNumbers ==
    ASSUME TypeOK, RoundInv, FileInv, ScanInv, mpc \in Scanning
    PROVE  /\ queue_num \in Nat /\ queue_num >= 2 /\ i \in Nat \ {0} /\ finished \in Nat
           /\ i <= queue_num /\ finished <= i - 1
           /\ \A q : q \in 1 .. queue_num => q \in Queues
<1>1. mpc \notin Ending
  BY DEF Scanning, Ending
<1>2. queue_num \in 2 .. K /\ \A q \in 1 .. queue_num : q \in Queues
  BY <1>1, MergeRound
<1>3. i \in Queues /\ finished \in 0 .. K
  BY DEF TypeOK
<1>4. i <= queue_num /\ finished <= i - 1
  BY DEF ScanInv
<1> HIDE DEF queue_num
<1> QED
  BY <1>2, <1>3, <1>4, ConstantFacts

LEMMA ScanInvStep ==
    ASSUME TypeOK, RoundInv, FileInv, LoadInv, ScanInv, HeapInv, QueueInv,
           Input \/ Merge \/ Writer
    PROVE  ScanInv'
<1>0. \A q \in Queues : mpc \in Merging \cup {"next"} /\ ~HasNext(q) => ~HasNext(q)'
  BY EndStays
<1>30. mpc \notin Ending =>
          queue_num \in Nat /\ queue_num >= 2 /\ \A q \in 1 .. queue_num : q \in Queues
  <2> DEFINE n == queue_num
  <2>1. mpc \notin Ending => n \in 2 .. K /\ \A q \in 1 .. n : q \in Queues
    BY MergeRound
  <2> HIDE DEF n
  <2>2. K \in Nat
    BY ConstantFacts
  <2> QED
    BY <2>1, <2>2 DEF n
<1>31. UNCHANGED cur_task => UNCHANGED queue_num
  BY DEF queue_num
<1>20. CASE Input \/ Writer
  <2>1. UNCHANGED <<mpc, i, finished, current_buffers, queue_num>>
    BY <1>20, <1>31, InputFrame, WriterFrame
  <2>2. ScanInv => ScanInv'
    <3>1. mpc \in Scanning => mpc \in Merging /\ \A q \in 1 .. i - 1 : q \in Queues
      <4>1. mpc \in Scanning => mpc \in Merging
        BY DEF Scanning, Merging
      <4>2. i \in Queues
        BY DEF TypeOK
      <4> QED
        BY <4>1, <4>2, ConstantFacts
    <3>2. mpc \in {"finish", "await_writer", "next"} =>
             mpc \in Merging \cup {"next"} /\ \A q \in 1 .. queue_num : q \in Queues
      BY <1>30 DEF Merging, Ending
    <3> QED
      BY <1>0, <2>1, <3>1, <3>2 DEF ScanInv
  <2> QED
    BY <2>2
<1>21. CASE Merge
  <2>0. UNCHANGED <<run_size, elements_read>> /\ \A q : HasNext(q)' = HasNext(q)
    BY <1>21, MergeFrame DEF HasNext
  <2>1. CASE AwaitInited \/ Emit \/ GiveBack \/ ClearCurrent
    <3>1. mpc' \in {"clean", "drain", "give_back", "clear"}
      BY <2>1 DEF AwaitInited, Emit, GiveBack, ClearCurrent
    <3> QED
      BY <3>1 DEF ScanInv, Scanning
  <2>2. CASE ReturnLeft
    <3>1. /\ UNCHANGED cur_task
          /\ \/ mpc' \in {"clean", "final", "set_done"}
             \/ mpc = "clean" /\ mpc' = "heap_take" /\ i' = 1
             \/ mpc = "sweep" /\ mpc' = "sweep" /\ i < queue_num /\ i' = i + 1
             \/ mpc = "sweep" /\ mpc' = "scan" /\ i' = 1 /\ finished' = 0
      BY <2>2 DEF ReturnLeft
    <3>2. i \in Nat
      <4>1. i \in Queues
        BY DEF TypeOK
      <4> QED
        BY <4>1, ConstantFacts
    <3>3. mpc \in {"clean", "sweep"} => queue_num \in Nat /\ queue_num >= 2
      BY <1>30 DEF Ending
    <3>4. CASE mpc' \in {"clean", "final", "set_done"}
      BY <3>4 DEF ScanInv, Scanning
    <3>5. CASE mpc' \notin {"clean", "final", "set_done"}
      BY <1>31, <3>1, <3>2, <3>3, <3>5 DEF ScanInv, Scanning
    <3> QED
      BY <3>4, <3>5
  <2>3. CASE Take
    <3>1. UNCHANGED <<cur_task, i, finished, current_buffers>> /\
          \/ mpc = "take" /\ mpc' = "install"
          \/ mpc = "heap_take" /\ mpc' = "heap_install"
      BY <2>3 DEF Take
    <3> QED
      BY <1>31, <2>0, <3>1 DEF ScanInv, Scanning
  <2>4. CASE Install
    <3>1. /\ UNCHANGED <<cur_task, finished>>
          /\ taken # Null
      BY <2>4 DEF Install, QueueInv
    <3>2. CASE mpc = "install"
      <4>1. /\ queue_num \in Nat /\ i \in Nat \ {0} /\ finished \in Nat
            /\ i <= queue_num /\ finished <= i - 1
        BY <3>2, LoopNumbers DEF Scanning
      <4>2. ToNextQueue(finished)
        BY <2>4, <3>2 DEF Install
      <4>3. \/ i < queue_num /\ i' = i + 1 /\ mpc' = "scan"
            \/ mpc' = "drain"
        BY <4>1, <4>2 DEF ToNextQueue
      <4> QED
        BY <1>31, <3>1, <4>1, <4>3 DEF ScanInv, Scanning
    <3>3. CASE mpc = "heap_install"
      <4>1. \/ i < queue_num /\ i' = i + 1 /\ mpc' = "heap_take"
            \/ mpc' = "begin"
        BY <2>4, <3>3 DEF Install
      <4>2. i \in Nat /\ queue_num \in Nat
        <5>1. i \in Queues /\ mpc \notin Ending
          BY <3>3 DEF TypeOK, Ending
        <5> QED
          BY <1>30, <5>1, ConstantFacts
      <4> QED
        BY <1>31, <3>1, <4>1, <4>2 DEF ScanInv, Scanning
    <3> QED
      BY <2>4, <3>2, <3>3 DEF Install
  <2>5. CASE BeginRun
    <3>1. mpc = "begin" /\ mpc' = "scan" /\ i' = 1 /\ finished' = 0 /\ UNCHANGED cur_task
      BY <2>5 DEF BeginRun
    <3> QED
      BY <1>30, <1>31, <3>1 DEF ScanInv, Scanning, Ending
  <2>6. CASE ScanEmpty
    <3>1. mpc = "scan" /\ UNCHANGED <<cur_task, finished, current_buffers>>
      BY <2>6 DEF ScanEmpty
    <3>2. /\ queue_num \in Nat /\ i \in Nat \ {0} /\ finished \in Nat
          /\ i <= queue_num /\ finished <= i - 1
      BY <3>1, LoopNumbers DEF Scanning
    <3>3. CASE current_buffers[i] # Null
      <4>1. \/ i < queue_num /\ i' = i + 1 /\ mpc' = "scan"
            \/ mpc' = "drain"
        BY <2>6, <3>2, <3>3 DEF ScanEmpty, ToNextQueue
      <4> QED
        BY <1>31, <3>1, <3>2, <4>1 DEF ScanInv, Scanning
    <3>4. CASE mpc' = "scan_next" /\ UNCHANGED i
      BY <1>31, <2>0, <3>1, <3>4 DEF ScanInv, Scanning
    <3> QED
      BY <2>6, <3>3, <3>4 DEF ScanEmpty
  <2>7. CASE ScanNext
    <3>1. mpc = "scan_next" /\ UNCHANGED <<cur_task, current_buffers>>
      BY <2>7 DEF ScanNext
    <3>2. /\ queue_num \in Nat /\ i \in Nat \ {0} /\ finished \in Nat
          /\ i <= queue_num /\ finished <= i - 1
      BY <3>1, LoopNumbers DEF Scanning
    <3>3. CASE ~HasNext(i) /\ finished' = finished + 1 /\ ToNextQueue(finished + 1)
      <4>1. finished + 1 = i => \A q \in 1 .. i : ~HasNext(q)' /\ current_buffers'[q] = Null
        BY <2>0, <3>1, <3>2, <3>3 DEF ScanInv, Scanning, HeapInv
      <4>2. \/ i < queue_num /\ i' = i + 1 /\ mpc' = "scan"
            \/ i = queue_num /\ mpc' = "finish" /\ finished + 1 = queue_num
            \/ mpc' = "drain"
        BY <3>2, <3>3 DEF ToNextQueue
      <4> QED
        BY <1>31, <3>1, <3>2, <3>3, <4>1, <4>2 DEF ScanInv, Scanning
    <3>4. CASE mpc' \in {"wait", "take"} /\ UNCHANGED <<i, finished>>
      BY <1>31, <2>0, <3>1, <3>4 DEF ScanInv, Scanning
    <3> QED
      BY <2>7, <3>3, <3>4 DEF ScanNext
  <2>8. CASE AwaitInput
    <3>1. /\ mpc = "wait" /\ mpc' = "scan"
          /\ UNCHANGED <<cur_task, i, finished, current_buffers>>
      BY <2>8 DEF AwaitInput, scanVars
    <3> QED
      BY <1>31, <2>0, <3>1 DEF ScanInv, Scanning
  <2>9. CASE Drained
    <3>1. mpc = "drain" /\ mpc' = "sweep" /\ i' = 1 /\ UNCHANGED cur_task
      BY <2>9 DEF Drained
    <3> QED
      BY <1>30, <1>31, <3>1 DEF ScanInv, Scanning, Ending
  <2>10. CASE FinishRound \/ EndRun
    <3>1. /\ \/ mpc = "finish" /\ mpc' = "await_writer"
             \/ mpc = "await_writer" /\ mpc' = "next"
          /\ UNCHANGED <<cur_task, current_buffers>>
      BY <2>10 DEF FinishRound, EndRun
    <3> QED
      BY <1>31, <2>0, <3>1 DEF ScanInv, Scanning
  <2>11. CASE NextRound \/ SetDone
    <3>1. mpc' \in {"await", "final", "done"}
      BY <2>11 DEF NextRound, SetDone
    <3> QED
      BY <3>1 DEF ScanInv, Scanning
  <2> QED
    BY <1>21, <2>1, <2>2, <2>3, <2>4, <2>5, <2>6, <2>7, <2>8, <2>9, <2>10, <2>11 DEF Merge
<1> QED
  BY <1>20, <1>21

LEMMA HeapInvStep ==
    ASSUME TypeOK, RoundInv, FileInv, LoadInv, ScanInv, HeapInv, QueueInv,
           Input \/ Merge \/ Writer
    PROVE  HeapInv'
<1>31. UNCHANGED cur_task => UNCHANGED queue_num
  BY DEF queue_num
<1>20. CASE Input \/ Writer
  <2>1. UNCHANGED <<mpc, i, pq, src, current_buffers, queue_num>>
    BY <1>20, <1>31, InputFrame, WriterFrame
  <2> QED
    BY <2>1 DEF HeapInv
<1>21. CASE Merge
  <2>21. /\ current_buffers \in [Queues -> Buffers \cup {Null}] /\ i \in Queues /\ i \in Nat
         /\ \A e \in pq : e[2] \in Queues /\ e[2] \in Nat
    <3>1. current_buffers \in [Queues -> Buffers \cup {Null}] /\ i \in Queues
      BY DEF TypeOK
    <3>2. \A e \in pq : e[2] \in Queues
      BY HeapSource
    <3> QED
      BY <3>1, <3>2, ConstantFacts
  <2>1. CASE AwaitInited \/ FinishRound \/ EndRun \/ NextRound \/ SetDone
    <3>1. pq = {}
      BY <2>1 DEF AwaitInited, FinishRound, EndRun, NextRound, SetDone, HeapInv, Ending
    <3>2. UNCHANGED pq /\ mpc' \in {"clean", "await_writer", "next", "await", "final", "done"}
      BY <2>1 DEF AwaitInited, FinishRound, EndRun, NextRound, SetDone
    <3> QED
      BY <3>1, <3>2 DEF HeapInv
  <2>2. CASE ReturnLeft
    <3>1. pq = {}
      BY <2>2 DEF ReturnLeft, HeapInv, Ending
    <3>2. UNCHANGED pq /\ mpc' \in {"clean", "sweep", "final", "heap_take", "scan", "set_done"}
      BY <2>2 DEF ReturnLeft
    <3> QED
      BY <3>1, <3>2 DEF HeapInv
  <2>3. CASE Take
    <3>1. /\ UNCHANGED <<cur_task, i, pq, current_buffers>>
          /\ \/ mpc = "take" /\ mpc' = "install"
             \/ mpc = "heap_take" /\ mpc' = "heap_install"
      BY <2>3 DEF Take
    <3> QED
      BY <1>31, <3>1 DEF HeapInv, Ending
  <2>4. CASE Install
    <3> DEFINE new == <<Head(content[taken]), i>>
    <3>1. /\ taken # Null /\ UNCHANGED cur_task /\ pq' = pq \cup {new}
          /\ current_buffers' = [current_buffers EXCEPT ![i] = taken]
          /\ mpc \in {"heap_install", "install"}
      BY <2>4 DEF Install, QueueInv
    <3>2. new[2] = i
      OBVIOUS
    <3> HIDE DEF new
    <3>3. i <= queue_num /\ \A e \in pq : e[2] # i
      BY <2>21, <3>1 DEF ScanInv, Scanning, HeapInv
    <3>4. /\ current_buffers'[i] # Null
          /\ \A q \in Queues : q # i => current_buffers'[q] = current_buffers[q]
      BY <2>21, <3>1
    <3>5. \/ mpc' = "heap_take" /\ i' = i + 1 /\ mpc = "heap_install"
          \/ mpc' \in {"begin", "scan", "drain"}
      <4>1. CASE mpc = "install"
        <5>1. ToNextQueue(finished)
          BY <2>4, <4>1 DEF Install
        <5>2. /\ queue_num \in Nat /\ i \in Nat \ {0} /\ finished \in Nat
              /\ i <= queue_num /\ finished <= i - 1
          BY <4>1, LoopNumbers DEF Scanning
        <5> QED
          BY <5>1, <5>2 DEF ToNextQueue
      <4>2. CASE mpc = "heap_install"
        BY <2>4, <4>2 DEF Install
      <4> QED
        BY <3>1, <4>1, <4>2
    <3>6. \A e \in pq' : e[2] <= queue_num /\ current_buffers'[e[2]] # Null
      BY <2>21, <3>1, <3>2, <3>3, <3>4 DEF HeapInv
    <3>7. \A e, f \in pq' : e[2] = f[2] => e = f
      BY <3>1, <3>2, <3>3 DEF HeapInv
    <3>8. mpc' = "heap_take" => \A e \in pq' : e[2] < i'
      BY <2>21, <3>1, <3>2, <3>5 DEF HeapInv
    <3> QED
      BY <1>31, <3>1, <3>5, <3>6, <3>7, <3>8 DEF HeapInv, Ending
  <2>5. CASE BeginRun \/ AwaitInput
    <3>1. mpc' = "scan" /\ UNCHANGED <<cur_task, pq, current_buffers>>
      BY <2>5 DEF BeginRun, AwaitInput
    <3> QED
      BY <1>31, <3>1 DEF HeapInv, Ending
  <2>6. CASE ScanEmpty
    <3>1. mpc = "scan" /\ UNCHANGED <<cur_task, pq, current_buffers, finished>>
      BY <2>6 DEF ScanEmpty
    <3>2. \/ mpc' \in {"scan", "drain"}
          \/ mpc' = "scan_next" /\ UNCHANGED i /\ current_buffers[i] = Null
      <4>1. /\ queue_num \in Nat /\ i \in Nat \ {0} /\ finished \in Nat
            /\ i <= queue_num /\ finished <= i - 1
        BY <3>1, LoopNumbers DEF Scanning
      <4> QED
        BY <2>6, <4>1 DEF ScanEmpty, ToNextQueue
    <3> QED
      BY <1>31, <3>1, <3>2 DEF HeapInv, Ending
  <2>7. CASE ScanNext
    <3>1. mpc = "scan_next" /\ UNCHANGED <<cur_task, pq, current_buffers>>
      BY <2>7 DEF ScanNext
    <3>2. CASE mpc' = "finish"
      <4>1. ScanInv'
        BY ScanInvStep
      <4>2. \A q \in 1 .. queue_num : current_buffers[q] = Null
        BY <1>31, <3>1, <3>2, <4>1 DEF ScanInv
      <4>3. pq = {}
        <5>1. SUFFICES ASSUME NEW e \in pq PROVE FALSE
          OBVIOUS
        <5>2. e[2] \in 1 .. queue_num /\ current_buffers[e[2]] # Null
          BY <2>21, ConstantFacts DEF HeapInv
        <5> QED
          BY <4>2, <5>2
      <4> QED
        BY <1>31, <3>1, <3>2, <4>3 DEF HeapInv
    <3>3. CASE mpc' # "finish"
      <4>1. mpc' \in {"scan", "drain"} \/ (mpc' \in {"wait", "take"} /\ UNCHANGED i)
        <5>1. CASE ToNextQueue(finished + 1)
          BY <3>3, <5>1 DEF ToNextQueue
        <5>2. CASE mpc' \in {"wait", "take"} /\ UNCHANGED i
          BY <5>2
        <5> QED
          BY <2>7, <5>1, <5>2 DEF ScanNext
      <4> QED
        BY <1>31, <3>1, <4>1 DEF HeapInv, Ending
    <3> QED
      BY <3>2, <3>3
  <2>8. CASE Emit
    <3>1. PICK e \in pq :
             /\ UNCHANGED <<cur_task, current_buffers>> /\ src' = e[2]
             /\ \/ /\ mpc' = "drain"
                   /\ pq' = (pq \ {e}) \cup {<<Head(content[current_buffers[e[2]]]), e[2]>>}
                \/ mpc' = "give_back" /\ pq' = pq \ {e}
      BY <2>8 DEF Emit
    <3>2. CASE mpc' = "drain"
      <4> DEFINE new == <<Head(content[current_buffers[e[2]]]), e[2]>>
      <4>1. new[2] = e[2] /\ pq' = (pq \ {e}) \cup {new}
        BY <3>1, <3>2
      <4> HIDE DEF new
      <4> QED
        BY <1>31, <3>1, <3>2, <4>1 DEF HeapInv, Ending
    <3>3. CASE mpc' = "give_back"
      BY <1>31, <3>1, <3>3 DEF HeapInv, Ending
    <3> QED
      BY <3>1, <3>2, <3>3
  <2>9. CASE GiveBack
    <3>1. mpc = "give_back" /\ mpc' = "clear" /\ UNCHANGED <<cur_task, pq, current_buffers, src>>
      BY <2>9 DEF GiveBack
    <3> QED
      BY <1>31, <3>1 DEF HeapInv, Ending
  <2>10. CASE ClearCurrent
    <3>1. /\ mpc = "clear" /\ mpc' = "drain" /\ UNCHANGED <<cur_task, pq>>
          /\ current_buffers' = [current_buffers EXCEPT ![src] = Null]
      BY <2>10 DEF ClearCurrent, Cleared
    <3>2. \A e \in pq : current_buffers'[e[2]] = current_buffers[e[2]]
      BY <2>21, <3>1 DEF HeapInv
    <3> QED
      BY <1>31, <3>1, <3>2 DEF HeapInv, Ending
  <2>11. CASE Drained
    <3>1. pq = {} /\ mpc' = "sweep" /\ UNCHANGED pq
      BY <2>11 DEF Drained
    <3> QED
      BY <3>1 DEF HeapInv
  <2> QED
    BY <1>21, <2>1, <2>2, <2>3, <2>4, <2>5, <2>6, <2>7, <2>8, <2>9, <2>10, <2>11 DEF Merge
<1> QED
  BY <1>20, <1>21

(* The element that is popped goes to the output buffer or to the run; the merge  *)
(* goes on to the end of the run only when one of them has something.            *)
LEMMA NonEmptyStep ==
    ASSUME TypeOK, RoundInv, FileInv, ScanInv, HeapInv, QueueInv, NonEmptyInv,
           Input \/ Merge \/ Writer
    PROVE  NonEmptyInv'
<1> DEFINE some == \/ pq # {} \/ runs[RunCount] # << >>
                   \/ out_buffer[0] # << >> \/ out_buffer[1] # << >>
<1>20. CASE Input
  <2>1. UNCHANGED <<mpc, i, pq, runs, out_buffer>>
    BY <1>20, InputFrame
  <2> QED
    BY <2>1 DEF NonEmptyInv, RunCount
<1>22. CASE Writer
  <2>1. UNCHANGED <<mpc, i, pq, runs, done_sorting>>
    BY <1>22, WriterFrame
  <2>2. mpc \in Merging => UNCHANGED out_buffer
    <3>1. mpc \in Merging => wpc = "loop"
      BY DEF RoundInv, Merging
    <3> QED
      BY <1>22, <3>1 DEF Writer, WriterClear, WriterLeave, WriterDrain, outVars
  <2> QED
    BY <2>1, <2>2 DEF NonEmptyInv, RunCount
<1>21. CASE Merge
  <2>1. CASE Emit
    <3>1. PICK e \in pq :
             /\ runs' = AppendToRun(Written(e[1]))
             /\ out_buffer' = [out_buffer EXCEPT ![cur_out] = Kept(e[1])]
      BY <2>1 DEF Emit
    <3>2. mpc = "drain" /\ mpc' \in {"drain", "give_back"}
      BY <2>1 DEF Emit
    <3>3. /\ Added(e[1]) \in Seq(Elements) /\ Added(e[1]) # << >>
          /\ Written(e[1]) \in Seq(Elements) /\ cur_out \in Outs
      <4>1. Added(e[1]) \in Seq(Elements) /\ Written(e[1]) \in Seq(Elements) /\ cur_out \in Outs
        BY <3>2, EmitFacts
      <4>2. out_buffer[cur_out] \in Seq(Elements) /\ e[1] \in Elements
        BY <4>1, HeapSource DEF TypeOK
      <4> QED
        BY <4>1, <4>2 DEF Added
    <3>4. /\ RunCount' = RunCount /\ runs'[RunCount] = runs[RunCount] \o Written(e[1])
          /\ runs[RunCount] \in Seq(Elements)
      <4>1. mpc \in Merging
        BY <3>2 DEF Merging
      <4> QED
        BY <3>1, <3>3, <4>1, AppendToRunType, WritingRun DEF RunCount
    <3>5. Written(e[1]) # << >> => runs'[RunCount] # << >>
      BY <3>3, <3>4
    <3>6. Written(e[1]) # << >> \/ Kept(e[1]) # << >>
      BY <3>3 DEF Written, Kept
    <3>7. out_buffer'[cur_out] = Kept(e[1])
      BY <3>1, <3>3 DEF TypeOK
    <3>8. some'
      BY <3>3, <3>4, <3>5, <3>6, <3>7 DEF Outs
    <3> QED
      BY <3>2, <3>8 DEF NonEmptyInv
  <2>2. CASE Install
    <3>1. pq' = pq \cup {<<Head(content[taken]), i>>}
      BY <2>2 DEF Install, QueueInv
    <3>2. pq' # {}
      BY <3>1
    <3> QED
      BY <3>2 DEF NonEmptyInv
  <2>3. CASE BeginRun
    <3>1. pq # {} /\ UNCHANGED pq
      BY <2>3 DEF BeginRun, NonEmptyInv
    <3> QED
      BY <3>1 DEF NonEmptyInv
  <2>4. CASE EndRun \/ NextRound \/ SetDone \/ AwaitInited
    <3>1. mpc' \in {"next", "await", "final", "done", "clean"}
      BY <2>4 DEF EndRun, NextRound, SetDone, AwaitInited
    <3> QED
      BY <3>1 DEF NonEmptyInv, Merging
  <2>5. CASE ReturnLeft
    <3>1. /\ UNCHANGED <<pq, runs, out_buffer>>
          /\ \/ mpc' \in {"clean", "final", "set_done"}
             \/ mpc' = "heap_take" /\ i' = 1
             \/ mpc = "sweep" /\ mpc' \in {"sweep", "scan"}
      BY <2>5 DEF ReturnLeft, runVars, outVars
    <3> QED
      BY <3>1 DEF NonEmptyInv, Merging, RunCount
  <2>6. CASE Take
    <3>1. /\ UNCHANGED <<pq, runs, out_buffer, i>>
          /\ \/ mpc = "heap_take" /\ mpc' = "heap_install"
             \/ mpc = "take" /\ mpc' = "install"
      BY <2>6 DEF Take, runVars, outVars
    <3> QED
      BY <3>1 DEF NonEmptyInv, Merging, RunCount
  <2>7. CASE ScanEmpty \/ ScanNext \/ AwaitInput \/ GiveBack \/ ClearCurrent \/ Drained
             \/ FinishRound
    <3>1. UNCHANGED <<pq, runs, out_buffer>> /\ mpc \in Merging /\ mpc' \in Merging
      <4>1. mpc \in Merging
        BY <2>7 DEF ScanEmpty, ScanNext, AwaitInput, GiveBack, ClearCurrent, Drained,
                    FinishRound, Merging
      <4>2. mpc' \in Merging
        BY <2>7 DEF ScanEmpty, ScanNext, AwaitInput, GiveBack, ClearCurrent, Drained,
                    FinishRound, Merging, ToNextQueue
      <4>3. UNCHANGED <<pq, runs, out_buffer>>
        BY <2>7 DEF ScanEmpty, ScanNext, AwaitInput, GiveBack, ClearCurrent, Drained,
                    FinishRound, runVars, outVars
      <4> QED
        BY <4>1, <4>2, <4>3
    <3> QED
      BY <3>1 DEF NonEmptyInv, Merging, RunCount
  <2> QED
    BY <1>21, <2>1, <2>2, <2>3, <2>4, <2>5, <2>6, <2>7 DEF Merge
<1> QED
  BY <1>20, <1>21, <1>22

----------------------------------------------------------------------------
(* Where the buffers are *)

(* The place (k, q, n) holds buffer b. *)
At(b, k, q, n) ==
    \/ k = "pool" /\ q = 0 /\ n \in 1 .. Len(pool) /\ pool[n] = b
    \/ k = "queue" /\ q \in Queues /\ n \in 1 .. Len(queue[q]) /\ queue[q][n] = b
    \/ /\ k = "current" /\ q \in Queues /\ n = 0 /\ current_buffers[q] = b
       /\ ~(mpc = "clear" /\ q = src)
    \/ k = "hand" /\ q = 0 /\ n = 0 /\ hand = b
    \/ k = "taken" /\ q = 0 /\ n = 0 /\ taken = b

InOnePlace ==
    \A b \in Buffers : \A k, q, n, l, r, m :
        At(b, k, q, n) /\ At(b, l, r, m) => k = l /\ q = r /\ n = m

LEMMA HeldMembers ==
    ASSUME NEW h
    PROVE  h \in Held <=>
             \/ \E n \in DOMAIN pool : h = <<"pool", 0, n, pool[n]>>
             \/ \E q \in Queues : \E n \in DOMAIN queue[q] : h = <<"queue", q, n, queue[q][n]>>
             \/ \E q \in Queues : ~(mpc = "clear" /\ q = src)
                                 /\ h = <<"current", q, 0, current_buffers[q]>>
             \/ h = <<"hand", 0, 0, hand>>
             \/ h = <<"taken", 0, 0, taken>>
<1> DEFINE P == {<<"pool", 0, n, pool[n]>> : n \in DOMAIN pool}
           Q == UNION {{<<"queue", q, n, queue[q][n]>> : n \in DOMAIN queue[q]} : q \in Queues}
           C == {<<"current", q, 0, current_buffers[q]>> :
                    q \in {r \in Queues : ~(mpc = "clear" /\ r = src)}}
           H == {<<"hand", 0, 0, hand>>, <<"taken", 0, 0, taken>>}
<1>1. h \in P <=> \E n \in DOMAIN pool : h = <<"pool", 0, n, pool[n]>>
  OBVIOUS
<1>2. h \in Q <=>
      \E q \in Queues : \E n \in DOMAIN queue[q] : h = <<"queue", q, n, queue[q][n]>>
  OBVIOUS
<1>3. h \in C <=>
      \E q \in Queues : ~(mpc = "clear" /\ q = src)
                      /\ h = <<"current", q, 0, current_buffers[q]>>
  OBVIOUS
<1>4. h \in H <=> h = <<"hand", 0, 0, hand>> \/ h = <<"taken", 0, 0, taken>>
  OBVIOUS
<1>5. h \in Held <=> h \in P \/ h \in Q \/ h \in C \/ h \in H
  BY Zenon DEF Held
<1> HIDE DEF P, Q, C, H
<1> QED
  BY <1>1, <1>2, <1>3, <1>4, <1>5

(* InOnePlace says the same as BuffersUnique, in a form that is easier to use. *)
LEMMA HeldPlaces ==
    ASSUME TypeOK
    PROVE  /\ \A h \in Held : h = <<h[1], h[2], h[3], h[4]>> /\ h[4] \in Buffers \cup {Null}
                              /\ At(h[4], h[1], h[2], h[3])
           /\ \A b, k, q, n : At(b, k, q, n) => <<k, q, n, b>> \in Held
<1>1. /\ pool \in Seq(Buffers) /\ queue \in [Queues -> Seq(Buffers)]
      /\ current_buffers \in [Queues -> Buffers \cup {Null}]
      /\ hand \in Buffers \cup {Null} /\ taken \in Buffers \cup {Null}
  BY DEF TypeOK
<1>2. /\ DOMAIN pool = 1 .. Len(pool)
      /\ \A q \in Queues : queue[q] \in Seq(Buffers) /\ DOMAIN queue[q] = 1 .. Len(queue[q])
  BY <1>1
<1>3. ASSUME NEW h \in Held
      PROVE  /\ h = <<h[1], h[2], h[3], h[4]>> /\ h[4] \in Buffers \cup {Null}
             /\ At(h[4], h[1], h[2], h[3])
  <2>1. CASE \E n \in DOMAIN pool : h = <<"pool", 0, n, pool[n]>>
    BY <1>1, <1>2, <2>1 DEF At
  <2>2. CASE \E q \in Queues : \E n \in DOMAIN queue[q] : h = <<"queue", q, n, queue[q][n]>>
    BY <1>1, <1>2, <2>2 DEF At
  <2>3. CASE \E q \in {r \in Queues : ~(mpc = "clear" /\ r = src)} :
                h = <<"current", q, 0, current_buffers[q]>>
    BY <1>1, <2>3 DEF At
  <2>4. CASE h = <<"hand", 0, 0, hand>>
    <3>1. h[1] = "hand" /\ h[2] = 0 /\ h[3] = 0 /\ h[4] = hand
      BY <2>4
    <3> QED
      BY <1>1, <2>4, <3>1 DEF At
  <2>7. CASE h = <<"taken", 0, 0, taken>>
    <3>1. h[1] = "taken" /\ h[2] = 0 /\ h[3] = 0 /\ h[4] = taken
      BY <2>7
    <3> QED
      BY <1>1, <2>7, <3>1 DEF At
  <2> QED
    BY <2>1, <2>2, <2>3, <2>4, <2>7, HeldMembers
<1>4. ASSUME NEW b, NEW k, NEW q, NEW n, At(b, k, q, n)
      PROVE  <<k, q, n, b>> \in Held
  <2>1. CASE k = "pool" /\ q = 0 /\ n \in 1 .. Len(pool) /\ pool[n] = b
    BY <1>2, <2>1, HeldMembers
  <2>2. CASE k = "queue" /\ q \in Queues /\ n \in 1 .. Len(queue[q]) /\ queue[q][n] = b
    BY <1>2, <2>2, HeldMembers
  <2>3. CASE /\ k = "current" /\ q \in Queues /\ n = 0 /\ current_buffers[q] = b
             /\ ~(mpc = "clear" /\ q = src)
    BY <2>3, HeldMembers
  <2>4. CASE k = "hand" /\ q = 0 /\ n = 0 /\ hand = b
    BY <2>4, HeldMembers
  <2>5. CASE k = "taken" /\ q = 0 /\ n = 0 /\ taken = b
    BY <2>5, HeldMembers
  <2> QED
    BY <1>4, <2>1, <2>2, <2>3, <2>4, <2>5 DEF At
<1> QED
  BY <1>3, <1>4

LEMMA UniqueMeansOnePlace ==
    ASSUME TypeOK, BuffersUnique
    PROVE  InOnePlace
<1> SUFFICES ASSUME NEW b \in Buffers, NEW k, NEW q, NEW n, NEW l, NEW r, NEW m,
                    At(b, k, q, n), At(b, l, r, m)
             PROVE  k = l /\ q = r /\ n = m
  BY DEF InOnePlace
<1>1. <<k, q, n, b>> \in Held /\ <<l, r, m, b>> \in Held
  BY HeldPlaces
<1>2. b # Null
  BY ConstantFacts
<1>3. <<k, q, n, b>> = <<l, r, m, b>>
  BY <1>1, <1>2 DEF BuffersUnique
<1> QED
  BY <1>3

(* The same for the next state. *)
LEMMA HeldMembersNext ==
    ASSUME NEW h
    PROVE  h \in Held' <=>
             \/ \E n \in DOMAIN pool' : h = <<"pool", 0, n, pool'[n]>>
             \/ \E q \in Queues : \E n \in DOMAIN queue'[q] : h = <<"queue", q, n, queue'[q][n]>>
             \/ \E q \in Queues : ~(mpc' = "clear" /\ q = src')
                                 /\ h = <<"current", q, 0, current_buffers'[q]>>
             \/ h = <<"hand", 0, 0, hand'>>
             \/ h = <<"taken", 0, 0, taken'>>
<1> DEFINE P == {<<"pool", 0, n, pool'[n]>> : n \in DOMAIN pool'}
           Q == UNION {{<<"queue", q, n, queue'[q][n]>> : n \in DOMAIN queue'[q]} : q \in Queues}
           C == {<<"current", q, 0, current_buffers'[q]>> :
                    q \in {r \in Queues : ~(mpc' = "clear" /\ r = src')}}
           H == {<<"hand", 0, 0, hand'>>, <<"taken", 0, 0, taken'>>}
<1>1. h \in P <=> \E n \in DOMAIN pool' : h = <<"pool", 0, n, pool'[n]>>
  OBVIOUS
<1>2. h \in Q <=>
      \E q \in Queues : \E n \in DOMAIN queue'[q] : h = <<"queue", q, n, queue'[q][n]>>
  OBVIOUS
<1>3. h \in C <=>
      \E q \in Queues : ~(mpc' = "clear" /\ q = src')
                      /\ h = <<"current", q, 0, current_buffers'[q]>>
  OBVIOUS
<1>4. h \in H <=> h = <<"hand", 0, 0, hand'>> \/ h = <<"taken", 0, 0, taken'>>
  OBVIOUS
<1>5. h \in Held' <=> h \in P \/ h \in Q \/ h \in C \/ h \in H
  BY Zenon DEF Held
<1> HIDE DEF P, Q, C, H
<1> QED
  BY <1>1, <1>2, <1>3, <1>4, <1>5

LEMMA OnePlaceNext ==
    ASSUME TypeOK', InOnePlace'
    PROVE  BuffersUnique'
<1>1. ASSUME NEW h \in Held'
      PROVE  /\ h = <<h[1], h[2], h[3], h[4]>> /\ h[4] \in Buffers \cup {Null}
             /\ At(h[4], h[1], h[2], h[3])'
  <2>1. /\ pool' \in Seq(Buffers) /\ queue' \in [Queues -> Seq(Buffers)]
        /\ current_buffers' \in [Queues -> Buffers \cup {Null}]
        /\ hand' \in Buffers \cup {Null} /\ taken' \in Buffers \cup {Null}
    BY DEF TypeOK
  <2>2. /\ DOMAIN pool' = 1 .. Len(pool')
        /\ \A q \in Queues : queue'[q] \in Seq(Buffers) /\ DOMAIN queue'[q] = 1 .. Len(queue'[q])
    BY <2>1
  <2>3. CASE \E n \in DOMAIN pool' : h = <<"pool", 0, n, pool'[n]>>
    BY <2>1, <2>2, <2>3 DEF At
  <2>4. CASE \E q \in Queues : \E n \in DOMAIN queue'[q] : h = <<"queue", q, n, queue'[q][n]>>
    BY <2>1, <2>2, <2>4 DEF At
  <2>5. CASE \E q \in {r \in Queues : ~(mpc' = "clear" /\ r = src')} :
                h = <<"current", q, 0, current_buffers'[q]>>
    BY <2>1, <2>5 DEF At
  <2>6. CASE h = <<"hand", 0, 0, hand'>>
    <3>1. h[1] = "hand" /\ h[2] = 0 /\ h[3] = 0 /\ h[4] = hand'
      BY <2>6
    <3> QED
      BY <2>1, <2>6, <3>1 DEF At
  <2>7. CASE h = <<"taken", 0, 0, taken'>>
    <3>1. h[1] = "taken" /\ h[2] = 0 /\ h[3] = 0 /\ h[4] = taken'
      BY <2>7
    <3> QED
      BY <2>1, <2>7, <3>1 DEF At
  <2> QED
    BY <2>3, <2>4, <2>5, <2>6, <2>7, HeldMembersNext
<1>2. ASSUME NEW g \in Held', NEW h \in Held', g[4] = h[4], g[4] # Null
      PROVE  g = h
  <2>1. g[4] \in Buffers
    BY <1>1, <1>2
  <2>2. At(g[4], g[1], g[2], g[3])' /\ At(g[4], h[1], h[2], h[3])'
    BY <1>1, <1>2
  <2>3. g[1] = h[1] /\ g[2] = h[2] /\ g[3] = h[3]
    BY <2>1, <2>2 DEF InOnePlace
  <2> QED
    BY <1>1, <1>2, <2>3
<1> QED
  BY <1>2 DEF BuffersUnique

(* A step that puts no buffer into a new place ... *)
LEMMA PlacesKept ==
    ASSUME InOnePlace,
           \A b \in Buffers : \A k, q, n : At(b, k, q, n)' => At(b, k, q, n)
    PROVE  InOnePlace'
<1> SUFFICES ASSUME NEW b \in Buffers, NEW k, NEW q, NEW n, NEW l, NEW r, NEW m,
                    At(b, k, q, n)', At(b, l, r, m)'
             PROVE  k = l /\ q = r /\ n = m
  BY DEF InOnePlace
<1>1. At(b, k, q, n) /\ At(b, l, r, m)
  OBVIOUS
<1> HIDE DEF At
<1> QED
  BY <1>1 DEF InOnePlace

(* ... or moves one buffer from a place to another.                              *)
LEMMA BufferMoved ==
    ASSUME InOnePlace,
           NEW c \in Buffers, NEW k0, NEW q0, NEW n0, At(c, k0, q0, n0), NEW k1, NEW q1, NEW n1,
           \A b \in Buffers : \A k, q, n : At(b, k, q, n)' =>
               \/ At(b, k, q, n) /\ ~(k = k0 /\ q = q0 /\ n = n0)
               \/ b = c /\ k = k1 /\ q = q1 /\ n = n1
    PROVE  InOnePlace'
<1> SUFFICES ASSUME NEW b \in Buffers, NEW k, NEW q, NEW n, NEW l, NEW r, NEW m,
                    At(b, k, q, n)', At(b, l, r, m)'
             PROVE  k = l /\ q = r /\ n = m
  BY DEF InOnePlace
<1>1. /\ \/ At(b, k, q, n) /\ ~(k = k0 /\ q = q0 /\ n = n0)
         \/ b = c /\ k = k1 /\ q = q1 /\ n = n1
      /\ \/ At(b, l, r, m) /\ ~(l = k0 /\ r = q0 /\ m = n0)
         \/ b = c /\ l = k1 /\ r = q1 /\ m = n1
  OBVIOUS
<1>2. \A x, y, z : At(c, x, y, z) => x = k0 /\ y = q0 /\ z = n0
  BY DEF InOnePlace
<1>3. At(b, k, q, n) /\ At(b, l, r, m) => k = l /\ q = r /\ n = m
  BY DEF InOnePlace
<1> HIDE DEF At
<1> QED
  BY <1>1, <1>2, <1>3

LEMMA OnePlaceInput ==
    ASSUME TypeOK, RoundInv, FileInv, LoadInv, InOnePlace, Input
    PROVE  InOnePlace'
<1>1. /\ pool \in Seq(Buffers) /\ queue \in [Queues -> Seq(Buffers)]
      /\ hand \in Buffers \cup {Null} /\ slot \in Queues
  BY DEF TypeOK
<1>2. UNCHANGED <<current_buffers, taken, mpc, src>>
  BY InputFrame
<1>3. Null \notin Buffers
  BY ConstantFacts
<1>4. CASE AwaitRound \/ CountFirst \/ PublishRound \/ ScanCurrent \/ ScanQueue \/ CountNext
  <2>1. UNCHANGED <<pool, queue, hand>>
    BY <1>4 DEF AwaitRound, CountFirst, PublishRound, ScanCurrent, ScanQueue, CountNext,
                poolVars, queueVars
  <2>2. \A b \in Buffers : \A k, q, n : At(b, k, q, n)' => At(b, k, q, n)
    BY <1>2, <2>1 DEF At
  <2> QED
    BY <2>2, PlacesKept
<1>5. CASE ResetQueue
  <2>1. UNCHANGED <<pool, hand>> /\ queue' = [queue EXCEPT ![slot] = << >>]
    BY <1>5 DEF ResetQueue, poolVars
  <2>2. /\ Len(queue'[slot]) = 0
        /\ \A q \in Queues : q # slot => queue'[q] = queue[q]
    BY <1>1, <2>1
  <2>4. \A n : n \notin 1 .. Len(queue'[slot])
    BY <2>2
  <2>3. \A b \in Buffers : \A k, q, n : At(b, k, q, n)' => At(b, k, q, n)
    BY <1>2, <2>1, <2>2, <2>4 DEF At
  <2> QED
    BY <2>3, PlacesKept
<1>6. CASE GetBuffer
  <2>1. /\ pool # << >> /\ hand' = Last(pool) /\ pool' = Front(pool) /\ UNCHANGED queue
    BY <1>6 DEF GetBuffer, queueVars
  <2>2. /\ Last(pool) \in Buffers /\ Len(pool) \in Nat \ {0}
        /\ Len(Front(pool)) = Len(pool) - 1 /\ Last(pool) = pool[Len(pool)]
        /\ \A n \in 1 .. Len(pool) - 1 : Front(pool)[n] = pool[n]
    BY <1>1, <2>1, LastOfPool
  <2> DEFINE c == Last(pool)  len == Len(pool)
  <2>3. /\ c \in Buffers /\ len \in Nat \ {0} /\ Len(pool') = len - 1 /\ c = pool[len]
        /\ \A n \in 1 .. len - 1 : pool'[n] = pool[n]
        /\ hand' = c /\ len = Len(pool)
    BY <2>1, <2>2
  <2> HIDE DEF c, len
  <2>4. At(c, "pool", 0, len)
    BY <2>3 DEF At
  <2>5. ASSUME NEW b \in Buffers, NEW k, NEW q, NEW n, At(b, k, q, n)'
        PROVE  \/ At(b, k, q, n) /\ ~(k = "pool" /\ q = 0 /\ n = len)
               \/ b = c /\ k = "hand" /\ q = 0 /\ n = 0
    <3>1. CASE k = "pool"
      <4>1. q = 0 /\ n \in 1 .. len - 1 /\ pool'[n] = b
        BY <2>3, <2>5, <3>1 DEF At
      <4>2. n \in 1 .. len /\ n # len /\ pool[n] = b
        BY <2>3, <4>1
      <4> QED
        BY <2>3, <3>1, <4>1, <4>2 DEF At
    <3>2. CASE k # "pool"
      BY <1>2, <2>1, <2>3, <2>5, <3>2 DEF At
    <3> QED
      BY <3>1, <3>2
  <2>6. c \in Buffers
    BY <2>3
  <2> QED
    BY <2>4, <2>5, <2>6, BufferMoved
<1>7. ASSUME NEW p \in Queues, hand \in Buffers, hand' = Null, UNCHANGED pool,
             queue' = [queue EXCEPT ![p] = Append(@, hand)]
      PROVE  InOnePlace'
  <2> DEFINE len == Len(queue[p])
  <2>1. /\ len \in Nat /\ Len(queue'[p]) = len + 1 /\ queue'[p][len + 1] = hand
        /\ \A n \in 1 .. len : queue'[p][n] = queue[p][n]
        /\ \A q \in Queues : q # p => queue'[q] = queue[q]
    BY <1>1, <1>7
  <2> HIDE DEF len
  <2>2. At(hand, "hand", 0, 0)
    BY DEF At
  <2>3. ASSUME NEW b \in Buffers, NEW k, NEW q, NEW n, At(b, k, q, n)'
        PROVE  \/ At(b, k, q, n) /\ ~(k = "hand" /\ q = 0 /\ n = 0)
               \/ b = hand /\ k = "queue" /\ q = p /\ n = len + 1
    <3>1. CASE k = "queue"
      <4>1. q \in Queues /\ n \in 1 .. Len(queue'[q]) /\ queue'[q][n] = b
        BY <2>3, <3>1 DEF At
      <4>2. CASE q = p
        <5>1. n \in 1 .. len \/ n = len + 1
          BY <2>1, <4>1, <4>2
        <5>2. n \in 1 .. len => queue[p][n] = b
          BY <2>1, <4>1, <4>2
        <5> QED
          BY <2>1, <3>1, <4>1, <4>2, <5>1, <5>2 DEF At, len
      <4>3. CASE q # p
        BY <2>1, <3>1, <4>1, <4>3 DEF At
      <4> QED
        BY <4>2, <4>3
    <3>2. CASE k # "queue"
      BY <1>2, <1>3, <1>7, <2>3, <3>2 DEF At
    <3> QED
      BY <3>1, <3>2
  <2> QED
    BY <1>7, <2>2, <2>3, BufferMoved
<1>8. CASE AddFirst
  <2>1. /\ queue' = [queue EXCEPT ![slot] = Append(@, hand)] /\ hand' = Null /\ UNCHANGED pool
        /\ hand \in Buffers
    BY <1>1, <1>8 DEF AddFirst, Enqueue, LoadInv
  <2> QED
    BY <1>1, <1>7, <2>1
<1>9. CASE AddNext
  <2>1. /\ queue' = [queue EXCEPT ![min_index] = Append(@, hand)] /\ hand' = Null
        /\ UNCHANGED pool /\ ipc = "add"
    BY <1>9 DEF AddNext, Enqueue
  <2>2. min_index \in Queues /\ hand \in Buffers
    BY <2>1, NextChunk
  <2> QED
    BY <1>7, <2>1, <2>2
<1> QED
  BY <1>4, <1>5, <1>6, <1>8, <1>9 DEF Input

LEMMA OnePlaceMerge ==
    ASSUME TypeOK, HeapInv, QueueInv, InOnePlace, Merge
    PROVE  InOnePlace'
<1>1. /\ pool \in Seq(Buffers) /\ queue \in [Queues -> Seq(Buffers)]
      /\ current_buffers \in [Queues -> Buffers \cup {Null}]
      /\ taken \in Buffers \cup {Null} /\ i \in Queues /\ src \in Queues
  BY DEF TypeOK
<1>2. UNCHANGED hand
  BY MergeFrame
<1>3. Null \notin Buffers
  BY ConstantFacts
<1>4. ASSUME UNCHANGED <<pool, queue, taken>>, mpc' # "clear",
             \A q \in Queues : \/ current_buffers'[q] = Null
                               \/ /\ current_buffers'[q] = current_buffers[q]
                                  /\ ~(mpc = "clear" /\ q = src)
      PROVE  InOnePlace'
  <2>1. \A b \in Buffers : \A k, q, n : At(b, k, q, n)' => At(b, k, q, n)
    BY <1>2, <1>3, <1>4 DEF At
  <2> QED
    BY <2>1, PlacesKept
(* A buffer goes from current_buffers to the back of the pool. *)
<1>5. ASSUME NEW p \in Queues, current_buffers[p] \in Buffers, mpc # "clear",
             UNCHANGED <<queue, taken>>, pool' = Append(pool, current_buffers[p]),
             \A q \in Queues : q # p => current_buffers'[q] = current_buffers[q],
             (mpc' = "clear" /\ src' = p) \/ (mpc' # "clear" /\ current_buffers'[p] = Null)
      PROVE  InOnePlace'
  <2> DEFINE len == Len(pool)  c == current_buffers[p]
  <2>1. /\ len \in Nat /\ Len(pool') = len + 1 /\ pool'[len + 1] = c
        /\ \A n \in 1 .. len : pool'[n] = pool[n]
    BY <1>1, <1>5
  <2>2. c \in Buffers /\ At(c, "current", p, 0)
    BY <1>5 DEF At
  <2> HIDE DEF len, c
  <2>3. ASSUME NEW b \in Buffers, NEW k, NEW q, NEW n, At(b, k, q, n)'
        PROVE  \/ At(b, k, q, n) /\ ~(k = "current" /\ q = p /\ n = 0)
               \/ b = c /\ k = "pool" /\ q = 0 /\ n = len + 1
    <3>1. CASE k = "pool"
      <4>1. q = 0 /\ n \in 1 .. len + 1 /\ pool'[n] = b
        BY <2>1, <2>3, <3>1 DEF At
      <4>2. n \in 1 .. len \/ n = len + 1
        BY <2>1, <4>1
      <4> QED
        BY <2>1, <3>1, <4>1, <4>2 DEF At, len
    <3>2. CASE k # "pool"
      BY <1>2, <1>3, <1>5, <2>3, <3>2 DEF At
    <3> QED
      BY <3>1, <3>2
  <2> QED
    BY <2>2, <2>3, BufferMoved
<1>6. CASE AwaitInited \/ BeginRun \/ ScanEmpty \/ ScanNext \/ AwaitInput \/ Drained
             \/ FinishRound \/ EndRun \/ NextRound \/ SetDone
  <2>1. UNCHANGED <<pool, queue, taken, current_buffers>>
    BY <1>6 DEF AwaitInited, BeginRun, ScanEmpty, ScanNext, AwaitInput, Drained, FinishRound,
                EndRun, NextRound, SetDone, poolVars, scanVars
  <2>2. mpc # "clear"
    BY <1>6 DEF AwaitInited, BeginRun, ScanEmpty, ScanNext, AwaitInput, Drained, FinishRound,
                EndRun, NextRound, SetDone
  <2>3. mpc' # "clear"
    BY <1>6 DEF AwaitInited, BeginRun, ScanEmpty, ScanNext, AwaitInput, Drained, FinishRound,
                EndRun, NextRound, SetDone, ToNextQueue
  <2> QED
    BY <1>4, <2>1, <2>2, <2>3
<1>7. CASE Emit
  <2>1. UNCHANGED <<pool, queue, taken, current_buffers>> /\ mpc = "drain" /\ mpc' # "clear"
    BY <1>7 DEF Emit, scanVars
  <2> QED
    BY <1>4, <2>1
<1>8. CASE ClearCurrent
  <2>1. /\ UNCHANGED <<pool, queue, taken>> /\ mpc' # "clear"
        /\ current_buffers' = [current_buffers EXCEPT ![src] = Null]
    BY <1>8 DEF ClearCurrent, Cleared, poolVars, scanVars
  <2>2. /\ current_buffers'[src] = Null
        /\ \A q \in Queues : q # src => current_buffers'[q] = current_buffers[q]
    BY <1>1, <2>1
  <2> QED
    BY <1>4, <2>1, <2>2
<1>9. CASE ReturnLeft
  <2>1. UNCHANGED <<queue, taken>> /\ mpc # "clear" /\ mpc' # "clear"
    BY <1>9 DEF ReturnLeft
  <2>2. CASE MustReturn
    <3>1. /\ pool' = Append(pool, current_buffers[i])
          /\ current_buffers' = [current_buffers EXCEPT ![i] = Null]
          /\ current_buffers[i] \in Buffers
      BY <1>1, <1>9, <2>2 DEF ReturnLeft, MustReturn
    <3>2. /\ current_buffers'[i] = Null
          /\ \A q \in Queues : q # i => current_buffers'[q] = current_buffers[q]
      BY <1>1, <3>1
    <3> QED
      BY <1>1, <1>5, <2>1, <3>1, <3>2
  <2>3. CASE ~MustReturn
    <3>1. UNCHANGED <<pool, current_buffers>>
      BY <1>9, <2>3 DEF ReturnLeft
    <3> QED
      BY <1>4, <2>1, <3>1
  <2> QED
    BY <2>2, <2>3
<1>10. CASE GiveBack
  <2>1. /\ pool' = Append(pool, current_buffers[src]) /\ mpc = "give_back" /\ mpc' = "clear"
        /\ UNCHANGED <<queue, taken, current_buffers, src>>
    BY <1>10 DEF GiveBack, scanVars
  <2>2. current_buffers[src] \in Buffers
    BY <1>1, <2>1 DEF HeapInv
  <2> QED
    BY <1>1, <1>5, <2>1, <2>2
<1>11. CASE Install
  <2>1. /\ mpc \in {"heap_install", "install"} /\ mpc' # "clear" /\ taken' = Null
        /\ current_buffers' = [current_buffers EXCEPT ![i] = taken]
        /\ UNCHANGED <<pool, queue>>
    BY <1>11 DEF Install, ToNextQueue
  <2>2. taken \in Buffers /\ At(taken, "taken", 0, 0)
    BY <1>1, <2>1 DEF QueueInv, At
  <2>3. /\ current_buffers'[i] = taken
        /\ \A q \in Queues : q # i => current_buffers'[q] = current_buffers[q]
    BY <1>1, <2>1
  <2>4. ASSUME NEW b \in Buffers, NEW k, NEW q, NEW n, At(b, k, q, n)'
        PROVE  \/ At(b, k, q, n) /\ ~(k = "taken" /\ q = 0 /\ n = 0)
               \/ b = taken /\ k = "current" /\ q = i /\ n = 0
    BY <1>1, <1>2, <1>3, <2>1, <2>3, <2>4 DEF At
  <2> QED
    BY <2>2, <2>4, BufferMoved
<1>12. CASE Take
  <2>1. mpc # "clear" /\ mpc' # "clear" /\ UNCHANGED <<pool, current_buffers, src, i>>
    BY <1>12 DEF Take, poolVars
  <2>2. taken = Null
    BY <1>12 DEF Take, QueueInv
  <2>3. CASE Empty(i)
    <3>1. UNCHANGED <<queue, taken>>
      BY <1>12, <2>2, <2>3 DEF Take
    <3> QED
      BY <1>4, <2>1, <3>1
  <2>4. CASE ~Empty(i)
    <3> DEFINE s == queue[i]
    <3>1. /\ taken' = Head(s) /\ queue' = [queue EXCEPT ![i] = Tail(s)]
          /\ s \in Seq(Buffers) /\ s # << >>
      BY <1>1, <1>12, <2>4 DEF Take, Empty
    <3> HIDE DEF s
    <3> DEFINE c == Head(s)  len == Len(s)
    <3>2. /\ c \in Buffers /\ len \in Nat \ {0} /\ c = s[1]
          /\ Len(Tail(s)) = len - 1
          /\ \A n \in 1 .. len - 1 : Tail(s)[n] = s[n + 1]
      BY <3>1
    <3>3. /\ queue'[i] = Tail(s)
          /\ \A q \in Queues : q # i => queue'[q] = queue[q]
      BY <1>1, <3>1
    <3>4. At(c, "queue", i, 1)
      BY <1>1, <3>2 DEF At, s
    <3>5. \A x, y, z : At(c, x, y, z) => x = "queue" /\ y = i /\ z = 1
      BY <3>2, <3>4 DEF InOnePlace
    <3> HIDE DEF c, len
    (* The buffers behind the head move up. *)
    <3> DEFINE before(k, q, n) == IF k = "queue" /\ q = i THEN n + 1 ELSE n
    <3>6. ASSUME NEW b \in Buffers, NEW k, NEW q, NEW n, At(b, k, q, n)'
          PROVE  \/ /\ At(b, k, q, before(k, q, n)) /\ b # c
                    /\ k = "queue" => n \in Nat \ {0}
                 \/ b = c /\ k = "taken" /\ q = 0 /\ n = 0
      <4>1. CASE k = "queue" /\ q = i
        <5>1. n \in 1 .. len - 1 /\ s[n + 1] = b
          BY <3>2, <3>3, <3>6, <4>1 DEF At
        <5>2. n + 1 \in 1 .. len /\ n \in Nat \ {0} /\ n + 1 # 1
          BY <3>2, <5>1
        <5>3. At(b, k, q, n + 1)
          BY <1>1, <4>1, <5>1, <5>2 DEF At, s, len
        <5>4. b # c
          BY <3>5, <5>2, <5>3
        <5> QED
          BY <4>1, <5>2, <5>3, <5>4
      <4>2. CASE k = "queue" /\ q # i
        <5>1. At(b, k, q, n) /\ n \in Nat \ {0}
          <6>1. q \in Queues /\ n \in 1 .. Len(queue[q]) /\ queue[q][n] = b
            BY <3>3, <3>6, <4>2 DEF At
          <6>2. Len(queue[q]) \in Nat
            BY <1>1, <6>1
          <6> QED
            BY <4>2, <6>1, <6>2 DEF At
        <5>2. b # c
          BY <3>5, <4>2, <5>1
        <5> QED
          BY <4>2, <5>1, <5>2
      <4>3. CASE k = "taken"
        BY <3>1, <3>6, <4>3 DEF At, c
      <4>4. CASE k # "queue" /\ k # "taken"
        <5>1. At(b, k, q, n)
          BY <1>2, <2>1, <3>6, <4>4 DEF At
        <5>2. b # c
          BY <3>5, <4>4, <5>1
        <5> QED
          BY <4>4, <5>1, <5>2
      <4> QED
        BY <4>1, <4>2, <4>3, <4>4
    <3>7. ASSUME NEW b \in Buffers, NEW k, NEW q, NEW n, NEW l, NEW r, NEW m,
                 At(b, k, q, n)', At(b, l, r, m)'
          PROVE  k = l /\ q = r /\ n = m
      <4>1. CASE b = c
        BY <3>6, <3>7, <4>1
      <4>2. CASE b # c
        <5>1. /\ At(b, k, q, before(k, q, n)) /\ At(b, l, r, before(l, r, m))
              /\ k = "queue" => n \in Nat
              /\ l = "queue" => m \in Nat
          BY <3>6, <3>7, <4>2
        <5>2. k = l /\ q = r /\ before(k, q, n) = before(l, r, m)
          BY <5>1 DEF InOnePlace
        <5> QED
          BY <5>1, <5>2
      <4> QED
        BY <4>1, <4>2
    <3> QED
      BY <3>7 DEF InOnePlace
  <2> QED
    BY <2>3, <2>4
<1> QED
  BY <1>6, <1>7, <1>8, <1>9, <1>10, <1>11, <1>12 DEF Merge

LEMMA OnePlaceStep ==
    ASSUME TypeOK, RoundInv, FileInv, LoadInv, HeapInv, QueueInv, InOnePlace,
           Input \/ Merge \/ Writer
    PROVE  InOnePlace'
<1>1. CASE Writer
  <2>1. UNCHANGED <<pool, queue, current_buffers, hand, taken, mpc, src>>
    BY <1>1, WriterFrame
  <2>2. \A b \in Buffers : \A k, q, n : At(b, k, q, n)' => At(b, k, q, n)
    BY <2>1 DEF At
  <2> QED
    BY <2>2, PlacesKept
<1> QED
  BY <1>1, OnePlaceInput, OnePlaceMerge

----------------------------------------------------------------------------
(* What is in the queues *)

(* Only initializeRound empties a queue, and what the input thread puts into a   *)
(* buffer is not empty.                                                          *)
LEMMA QueuesGrow ==
    ASSUME TypeOK, RoundInv, FileInv, LoadInv, Input
    PROVE  /\ ~ResetQueue => \A q \in Queues : queue[q] # << >> => queue'[q] # << >>
           /\ \A b \in Buffers : content[b] # << >> => content'[b] # << >>
           /\ \/ UNCHANGED queue
              \/ ResetQueue /\ queue' = [queue EXCEPT ![slot] = << >>]
              \/ /\ hand \in Buffers /\ content'[hand] # << >>
                 /\ \E q \in Queues : /\ queue' = [queue EXCEPT ![q] = Append(@, hand)]
                                      /\ (AddFirst /\ q = slot) \/ AddNext
<1>1. /\ queue \in [Queues -> Seq(Buffers)] /\ content \in [Buffers -> Seq(Elements)]
      /\ slot \in Queues
  BY DEF TypeOK
<1>2. CASE ~(AddFirst \/ AddNext)
  <2>1. UNCHANGED content
    BY <1>2 DEF Input, AwaitRound, ResetQueue, GetBuffer, CountFirst, PublishRound, ScanCurrent,
                ScanQueue, CountNext, poolVars
  <2>2. CASE ResetQueue
    BY <2>1, <2>2 DEF ResetQueue
  <2>3. CASE ~ResetQueue
    <3>1. UNCHANGED queue
      BY <1>2, <2>3 DEF Input, AwaitRound, GetBuffer, CountFirst, PublishRound, ScanCurrent,
                  ScanQueue, CountNext, queueVars
    <3> QED
      BY <2>1, <3>1
  <2> QED
    BY <2>2, <2>3
<1>3. ASSUME NEW q \in Queues, hand \in Buffers, NEW chunk \in Seq(Elements) \ {<< >>},
             queue' = [queue EXCEPT ![q] = Append(@, hand)],
             content' = [content EXCEPT ![hand] = chunk]
      PROVE  /\ \A p \in Queues : queue[p] # << >> => queue'[p] # << >>
             /\ \A b \in Buffers : content[b] # << >> => content'[b] # << >>
             /\ content'[hand] # << >>
  <2>1. content'[hand] = chunk /\ \A b \in Buffers : b # hand => content'[b] = content[b]
    BY <1>1, <1>3
  <2>2. queue'[q] = Append(queue[q], hand) /\ \A p \in Queues : p # q => queue'[p] = queue[p]
    BY <1>1, <1>3
  <2>3. Append(queue[q], hand) # << >>
    BY <1>1, <1>3
  <2> QED
    BY <2>1, <2>2, <2>3
<1>4. CASE AddFirst
  <2> DEFINE chunk == Chunk(Task[slot], 0, Smaller(Len(runs[Task[slot] + 1]), CHUNK))
  <2>1. ipc = "init_add"
    BY <1>4 DEF AddFirst
  <2>2. hand \in Buffers /\ chunk \in Seq(Elements) \ {<< >>}
    BY <2>1, FirstChunk
  <2>3. /\ queue' = [queue EXCEPT ![slot] = Append(@, hand)]
        /\ content' = [content EXCEPT ![hand] = chunk]
    BY <1>4 DEF AddFirst, Enqueue
  <2> HIDE DEF chunk
  <2> QED
    BY <1>1, <1>3, <1>4, <2>2, <2>3
<1>5. CASE AddNext
  <2> DEFINE chunk == Chunk(Task[min_index], run_offsets[min_index], ChunkSize(min_index))
  <2>1. ipc = "add"
    BY <1>5 DEF AddNext
  <2>2. min_index \in Queues /\ hand \in Buffers /\ chunk \in Seq(Elements) \ {<< >>}
    BY <2>1, NextChunk
  <2>3. /\ queue' = [queue EXCEPT ![min_index] = Append(@, hand)]
        /\ content' = [content EXCEPT ![hand] = chunk]
    BY <1>5 DEF AddNext, Enqueue
  <2> HIDE DEF chunk
  <2> QED
    BY <1>1, <1>3, <1>5, <2>2, <2>3
<1> QED
  BY <1>2, <1>4, <1>5

(* initializeRound gives a queue its first buffer in AddFirst only. *)
LEMMA FirstBuffers ==
    ASSUME TypeOK, RoundInv, FileInv, LoadInv, Input, ipc' \in InputLoading, NEW q \in Queues,
           HasFirst(q)'
    PROVE  /\ HasFirst(q) \/ (AddFirst /\ q = slot)
           /\ ResetQueue => q # slot
           /\ ipc \in InputLoading
<1>1. slot \in Nat \ {0} /\ q \in Nat \ {0}
  <2>1. slot \in Queues
    BY DEF TypeOK
  <2> QED
    BY <2>1, ConstantFacts
<1>2. CASE AwaitRound
  <2>1. ipc' = "reset" /\ slot' = 1
    BY <1>2 DEF AwaitRound
  <2> QED
    BY <1>1, <2>1 DEF HasFirst, Refilling
<1>3. CASE ResetQueue
  <2>1. ipc = "reset" /\ ipc' = "init_get" /\ UNCHANGED slot
    BY <1>3 DEF ResetQueue
  <2> QED
    BY <1>1, <2>1 DEF HasFirst, Refilling, InputLoading
<1>4. CASE GetBuffer
  <2>1. ipc = "init_get" /\ ipc' = "init_add" /\ UNCHANGED slot
    BY <1>4 DEF GetBuffer, InputLoading
  <2> QED
    BY <1>1, <2>1 DEF HasFirst, Refilling, InputLoading, GetBuffer, ResetQueue
<1>5. CASE AddFirst
  <2>1. ipc = "init_add" /\ ipc' = "init_count" /\ UNCHANGED slot
    BY <1>5 DEF AddFirst
  <2> QED
    BY <1>1, <1>5, <2>1 DEF HasFirst, Refilling, InputLoading, ResetQueue
<1>6. CASE CountFirst
  <2>1. /\ ipc = "init_count" /\ UNCHANGED <<round, Task>>
        /\ \/ ipc' = "reset" /\ slot' = slot + 1
           \/ ipc' = "publish" /\ ~(slot < Len(Task)) /\ slot' = slot
    BY <1>6 DEF CountFirst, Task
  <2>2. Len(Task) \in Nat /\ DOMAIN Task = 1 .. Len(Task)
    BY <2>1, InputRound
  <2>3. q \in 1 .. slot
    <3>1. CASE ipc' = "reset"
      BY <1>1, <2>1, <3>1 DEF HasFirst, Refilling
    <3>2. CASE ipc' = "publish"
      <4>1. q \in DOMAIN Task
        BY <2>1, <3>2 DEF HasFirst, Refilling
      <4> DEFINE n == Len(Task)
      <4>2. q <= n /\ n <= slot /\ n \in Nat
        BY <1>1, <2>1, <2>2, <3>2, <4>1
      <4> HIDE DEF n
      <4> QED
        BY <1>1, <4>2
    <3> QED
      BY <2>1, <3>1, <3>2
  <2> QED
    BY <2>1, <2>3 DEF HasFirst, InputLoading, ResetQueue
<1>7. CASE PublishRound \/ ScanCurrent \/ ScanQueue \/ AddNext \/ CountNext
  <2>1. ipc' \in Refilling \cup {"round"}
    BY <1>7 DEF PublishRound, ScanCurrent, ScanQueue, AddNext, CountNext, NextRefill,
                ConsiderLeastRead, Refilling
  <2> QED
    BY <2>1 DEF Refilling, InputLoading
<1> QED
  BY <1>2, <1>3, <1>4, <1>5, <1>6, <1>7 DEF Input

(* A queue of the round that the merge thread is about to take a buffer from has  *)
(* one.                                                                           *)
LEMMA NextBuffer ==
    ASSUME TypeOK, RoundInv, FileInv, ScanInv, QueueInv, mpc \in {"heap_take", "take"}
    PROVE  /\ queue[i] # << >> /\ Head(queue[i]) \in Buffers /\ Tail(queue[i]) \in Seq(Buffers)
           /\ content[Head(queue[i])] # << >>
           /\ \A n \in DOMAIN Tail(queue[i]) :
                 n + 1 \in DOMAIN queue[i] /\ Tail(queue[i])[n] = queue[i][n + 1]
<1>1. queue[i] \in Seq(Buffers) /\ i \in Queues /\ i \in Nat
  <2>1. queue \in [Queues -> Seq(Buffers)] /\ i \in Queues
    BY DEF TypeOK
  <2> QED
    BY <2>1, ConstantFacts
<1>2. queue[i] # << >>
  <2>1. CASE mpc = "take"
    BY <2>1 DEF QueueInv
  <2>2. CASE mpc = "heap_take"
    <3>1. i <= queue_num /\ \A q \in i .. queue_num : queue[q] # << >>
      BY <2>2 DEF ScanInv, QueueInv
    <3>2. queue_num \in Nat
      BY <2>2, MergeRound DEF Ending
    <3> QED
      BY <1>1, <3>1, <3>2
  <2> QED
    BY <2>1, <2>2
<1> DEFINE s == queue[i]
<1>3. /\ Head(s) \in Buffers /\ Tail(s) \in Seq(Buffers) /\ 1 \in DOMAIN s /\ Head(s) = s[1]
      /\ \A n \in DOMAIN Tail(s) : n + 1 \in DOMAIN s /\ Tail(s)[n] = s[n + 1]
  BY <1>1, <1>2
<1>4. content[queue[i][1]] # << >>
  BY <1>1, <1>3 DEF QueueInv
<1> QED
  BY <1>2, <1>3, <1>4

LEMMA QueueInvInput ==
    ASSUME TypeOK, RoundInv, FileInv, LoadInv, QueueInv, Input
    PROVE  QueueInv'
<1>1. /\ queue \in [Queues -> Seq(Buffers)] /\ slot \in Queues /\ hand \in Buffers \cup {Null}
      /\ taken \in Buffers \cup {Null}
  BY DEF TypeOK
<1>2. UNCHANGED <<mpc, i, cur_task, is_empty, taken>> /\ UNCHANGED queue_num
  BY InputFrame DEF queue_num
<1>3. \A b \in Buffers : content[b] # << >> => content'[b] # << >>
  BY QueuesGrow
<1>4. ResetQueue => ~inited /\ mpc = "await"
  BY DEF ResetQueue, RoundInv, InputLoading
<1>5. ASSUME NEW q \in Queues, NEW n \in DOMAIN queue'[q]
      PROVE  content'[queue'[q][n]] # << >>
  <2>1. CASE UNCHANGED queue
    BY <1>1, <1>3, <1>5, <2>1 DEF QueueInv
  <2>2. CASE queue' = [queue EXCEPT ![slot] = << >>]
    <3>1. q # slot
      <4>1. queue'[slot] = << >>
        BY <1>1, <2>2
      <4>2. << >> \in Seq(Buffers) /\ Len(<< >>) = 0
        OBVIOUS
      <4>3. \A m : m \notin DOMAIN << >>
        BY <4>2
      <4> QED
        BY <1>5, <4>1, <4>3
    <3>2. queue'[q] = queue[q]
      BY <1>1, <2>2, <3>1
    <3> QED
      BY <1>1, <1>3, <1>5, <3>2 DEF QueueInv
  <2>3. ASSUME NEW p \in Queues, queue' = [queue EXCEPT ![p] = Append(@, hand)],
               hand \in Buffers, content'[hand] # << >>
        PROVE  content'[queue'[q][n]] # << >>
    <3>1. CASE q = p
      <4>1. queue'[q] = Append(queue[q], hand)
        BY <1>1, <2>3, <3>1
      <4>2. (n \in DOMAIN queue[q] /\ queue'[q][n] = queue[q][n]) \/ queue'[q][n] = hand
        BY <1>1, <1>5, <4>1
      <4> QED
        BY <1>1, <1>3, <2>3, <4>2, SMTT(60) DEF QueueInv
    <3>2. CASE q # p
      <4>1. queue'[q] = queue[q]
        BY <1>1, <2>3, <3>2
      <4> QED
        BY <1>1, <1>3, <1>5, <4>1 DEF QueueInv
    <3> QED
      BY <3>1, <3>2
  <2> QED
    BY <2>1, <2>2, <2>3, QueuesGrow
<1>6. ASSUME NEW q \in Queues, ipc' \in InputLoading, HasFirst(q)'
      PROVE  queue'[q] # << >>
  <2>1. CASE ResetQueue
    <3>1. q # slot /\ HasFirst(q) /\ ipc \in InputLoading
      BY <1>6, <2>1, FirstBuffers DEF ResetQueue, AddFirst
    <3>2. queue'[q] = queue[q]
      BY <1>1, <2>1, <3>1 DEF ResetQueue
    <3> QED
      BY <3>1, <3>2 DEF QueueInv
  <2>2. CASE AddFirst /\ q = slot
    <3>1. queue' = [queue EXCEPT ![slot] = Append(@, hand)] /\ hand \in Buffers
      BY <1>1, <2>2 DEF AddFirst, Enqueue, LoadInv
    <3>2. queue'[q] = Append(queue[q], hand)
      BY <1>1, <2>2, <3>1
    <3> QED
      BY <1>1, <3>1, <3>2
  <2>3. CASE ~ResetQueue /\ HasFirst(q)
    BY <1>6, <2>3, QueuesGrow, FirstBuffers DEF QueueInv
  <2> QED
    BY <1>6, <2>1, <2>2, <2>3, FirstBuffers
<1>7. ASSUME inited, NEW q \in Queues, queue[q] # << >>
      PROVE  queue'[q] # << >>
  BY <1>4, <1>7, QueuesGrow
<1>8. inited' => inited \/ PublishRound
  BY DEF Input, AwaitRound, ResetQueue, GetBuffer, AddFirst, CountFirst, PublishRound,
         ScanCurrent, ScanQueue, AddNext, CountNext
<1>9. mpc \notin Ending =>
         /\ queue_num \in Nat /\ \A q \in 1 .. queue_num : q \in Queues
         /\ i \in Nat \ {0} /\ \A q \in i .. queue_num : q \in 1 .. queue_num
         /\ \A q \in i + 1 .. queue_num : q \in 1 .. queue_num
  <2>1. i \in Nat \ {0}
    <3>1. i \in Queues
      BY DEF TypeOK
    <3> QED
      BY <3>1, ConstantFacts
  <2>2. mpc \notin Ending => queue_num \in Nat /\ \A q \in 1 .. queue_num : q \in Queues
    BY MergeRound
  <2> DEFINE n == queue_num
  <2> HIDE DEF n
  <2>3. n \in Nat => /\ \A q \in i .. n : q \in 1 .. n
                     /\ \A q \in i + 1 .. n : q \in 1 .. n
    BY <2>1
  <2> QED
    BY <2>1, <2>2, <2>3 DEF n
<1>10. ASSUME inited', mpc \in {"await", "clean"}, NEW q \in 1 .. queue_num
       PROVE  queue'[q] # << >>
  <2>1. q \in Queues
    BY <1>9, <1>10 DEF Ending
  <2>2. CASE inited
    BY <1>7, <1>10, <2>1, <2>2 DEF QueueInv
  <2>3. CASE PublishRound
    <3>1. ipc = "publish" /\ UNCHANGED queue
      BY <2>3 DEF PublishRound, queueVars
    <3>2. round = cur_task /\ DOMAIN Task = 1 .. Len(Task)
      BY <3>1, InputRound
    <3>3. q \in DOMAIN Task
      BY <1>10, <3>2 DEF queue_num, Task
    <3> QED
      BY <2>1, <3>1, <3>3 DEF QueueInv, HasFirst, InputLoading
  <2> QED
    BY <1>8, <1>10, <2>2, <2>3
<1>11. mpc \in {"heap_take", "heap_install", "scan_next", "take"} => inited /\ mpc \notin Ending
  BY DEF RoundInv, Ending
<1>12. mpc = "heap_take" => \A q \in i .. queue_num : queue'[q] # << >>
  BY <1>7, <1>9, <1>11 DEF QueueInv
<1>13. mpc = "heap_install" => \A q \in i + 1 .. queue_num : queue'[q] # << >>
  BY <1>7, <1>9, <1>11 DEF QueueInv
<1>14. (mpc = "scan_next" /\ ~is_empty) \/ mpc = "take" => queue'[i] # << >>
  <2>1. i \in Queues
    BY DEF TypeOK
  <2> QED
    BY <1>7, <1>11, <2>1 DEF QueueInv
<1>15. taken # Null => content'[taken] # << >>
  BY <1>1, <1>3 DEF QueueInv
<1>16. taken # Null <=> mpc \in {"heap_install", "install"}
  BY DEF QueueInv
<1> QED
  BY <1>2, <1>5, <1>6, <1>10, <1>12, <1>13, <1>14, <1>15, <1>16 DEF QueueInv

LEMMA QueueInvMerge ==
    ASSUME TypeOK, RoundInv, FileInv, ScanInv, HeapInv, QueueInv, InOnePlace, Merge
    PROVE  QueueInv'
<1>1. /\ queue \in [Queues -> Seq(Buffers)] /\ content \in [Buffers -> Seq(Elements)]
      /\ taken \in Buffers \cup {Null} /\ current_buffers \in [Queues -> Buffers \cup {Null}]
      /\ i \in Queues
  BY DEF TypeOK
<1>2. UNCHANGED <<ipc, slot, round>> /\ UNCHANGED Task
  BY MergeFrame DEF Task
<1>3. UNCHANGED cur_task => UNCHANGED queue_num
  BY DEF queue_num
<1>4. \A q \in Queues : HasFirst(q)' <=> HasFirst(q)
  BY <1>2 DEF HasFirst
<1>5. taken # Null <=> mpc \in {"heap_install", "install"}
  BY DEF QueueInv
(* What the merge thread reads of buffers, it does not read of queued ones. *)
<1>6. ASSUME NEW b \in Buffers, NEW k \in {"taken", "current"}, NEW p, At(b, k, p, 0),
             NEW q \in Queues, NEW n \in DOMAIN queue[q]
      PROVE  queue[q][n] # b
  <2>1. n \in 1 .. Len(queue[q])
    BY <1>1
  <2>2. queue[q][n] = b => At(b, "queue", q, n)
    BY <2>1 DEF At
  <2>3. k # "queue"
    OBVIOUS
  <2> HIDE DEF At
  <2> QED
    BY <1>6, <2>2, <2>3 DEF InOnePlace
<1>7. CASE Take
  <2>1. /\ queue[i] # << >> /\ Head(queue[i]) \in Buffers /\ Tail(queue[i]) \in Seq(Buffers)
        /\ content[Head(queue[i])] # << >>
        /\ \A n \in DOMAIN Tail(queue[i]) :
              n + 1 \in DOMAIN queue[i] /\ Tail(queue[i])[n] = queue[i][n + 1]
    BY <1>7, NextBuffer DEF Take
  <2>2. /\ taken' = Head(queue[i]) /\ queue' = [queue EXCEPT ![i] = Tail(@)]
        /\ UNCHANGED <<content, cur_task, i>>
        /\ \/ mpc = "take" /\ mpc' = "install"
           \/ mpc = "heap_take" /\ mpc' = "heap_install"
    BY <1>7, <2>1 DEF Take, Empty, poolVars
  <2>3. queue'[i] = Tail(queue[i]) /\ \A q \in Queues : q # i => queue'[q] = queue[q]
    BY <1>1, <2>2
  <2>4. ASSUME NEW q \in Queues, NEW n \in DOMAIN queue'[q]
        PROVE  content'[queue'[q][n]] # << >>
    <3>1. CASE q = i
      BY <1>1, <2>1, <2>2, <2>3, <2>4, <3>1 DEF QueueInv
    <3>2. CASE q # i
      BY <2>2, <2>3, <2>4, <3>2 DEF QueueInv
    <3> QED
      BY <3>1, <3>2
  <2>5. ipc \notin InputLoading
    BY <2>2 DEF RoundInv
  <2>6. taken' # Null /\ content'[taken'] # << >>
    BY <2>1, <2>2, ConstantFacts
  <2>7. mpc' = "heap_install" => \A q \in i + 1 .. queue_num : queue'[q] # << >>
    <3>1. CASE mpc = "heap_take"
      <4>1. /\ queue_num \in Nat /\ \A q \in 1 .. queue_num : q \in Queues
        BY <3>1, MergeRound DEF Ending
      <4>2. i \in Nat \ {0}
        BY <1>1, ConstantFacts
      <4> DEFINE m == queue_num
      <4>3. m \in Nat
        BY <4>1
      <4> HIDE DEF m
      <4>4. \A q \in i + 1 .. m : q \in i .. m /\ q \in 1 .. m /\ q # i
        BY <4>2, <4>3
      <4> QED
        BY <2>3, <3>1, <4>1, <4>4 DEF QueueInv, m
    <3> QED
      BY <2>2, <3>1
  <2> QED
    BY <1>2, <1>3, <2>2, <2>4, <2>5, <2>6, <2>7 DEF QueueInv
<1>8. CASE Install
  <2>1. /\ mpc \in {"heap_install", "install"} /\ taken \in Buffers /\ taken' = Null
        /\ content[taken] # << >> /\ content' = [content EXCEPT ![taken] = Tail(@)]
        /\ UNCHANGED <<queue, cur_task>>
    BY <1>1, <1>8 DEF Install, QueueInv
  <2>2. At(taken, "taken", 0, 0)
    BY DEF At
  <2>3. ASSUME NEW q \in Queues, NEW n \in DOMAIN queue'[q]
        PROVE  content'[queue'[q][n]] # << >>
    <3>1. queue[q][n] # taken
      BY <1>6, <2>1, <2>2, <2>3
    <3> QED
      BY <1>1, <2>1, <2>3, <3>1 DEF QueueInv
  <2>4. \/ mpc = "heap_install" /\ mpc' = "heap_take" /\ i' = i + 1
        \/ mpc' \in {"begin", "scan", "finish", "drain"}
    BY <1>8 DEF Install, ToNextQueue
  <2> QED
    BY <1>2, <1>3, <1>4, <2>1, <2>3, <2>4 DEF QueueInv
<1>9. CASE Emit
  <2>1. PICK e \in pq :
           /\ UNCHANGED content \/ content' = [content EXCEPT ![current_buffers[e[2]]] = Tail(@)]
           /\ mpc = "drain" /\ mpc' \in {"drain", "give_back"}
           /\ UNCHANGED <<queue, cur_task, taken>>
    BY <1>9 DEF Emit, scanVars
  <2>2. e[2] \in Queues /\ current_buffers[e[2]] \in Buffers
    BY HeapSource
  <2>3. At(current_buffers[e[2]], "current", e[2], 0)
    BY <2>1, <2>2 DEF At
  <2>4. ASSUME NEW q \in Queues, NEW n \in DOMAIN queue'[q]
        PROVE  content'[queue'[q][n]] # << >>
    <3>1. queue[q][n] # current_buffers[e[2]]
      BY <1>6, <2>1, <2>2, <2>3, <2>4
    <3>2. content'[queue[q][n]] = content[queue[q][n]]
      BY <1>1, <2>1, <2>4, <3>1
    <3> QED
      BY <2>1, <2>4, <3>2 DEF QueueInv
  <2> QED
    BY <1>2, <1>3, <1>4, <1>5, <2>1, <2>4 DEF QueueInv
<1>10. CASE ReturnLeft
  <2>1. UNCHANGED <<queue, content, taken, cur_task, inited>>
    BY <1>10 DEF ReturnLeft
  <2>2. \/ UNCHANGED mpc /\ mpc \in {"clean", "sweep", "final"}
        \/ mpc = "clean" /\ mpc' = "heap_take" /\ i' = 1
        \/ mpc' \in {"scan", "set_done"} /\ mpc \in {"sweep", "final"}
    BY <1>10 DEF ReturnLeft
  <2>3. mpc = "clean" => inited
    BY DEF RoundInv, Ending
  <2> QED
    BY <1>2, <1>3, <1>4, <1>5, <2>1, <2>2, <2>3 DEF QueueInv
<1>11. ASSUME UNCHANGED <<queue, content, taken>>, taken = Null,
              mpc' \notin {"heap_take", "heap_install", "install"},
              (inited' /\ mpc' \in {"await", "clean"}) =>
                  (inited /\ mpc \in {"await", "clean"} /\ UNCHANGED queue_num),
              (mpc' = "scan_next" /\ ~is_empty') => queue[i'] # << >>,
              mpc' = "take" => queue[i'] # << >>
       PROVE  QueueInv'
  BY <1>2, <1>4, <1>11 DEF QueueInv
<1>12. CASE AwaitInited
  <2>1. /\ UNCHANGED <<queue, content, taken, cur_task>> /\ mpc = "await" /\ inited
        /\ mpc' = "clean"
    BY <1>12 DEF AwaitInited, scanVars, poolVars
  <2> QED
    BY <1>3, <1>5, <1>11, <2>1
<1>13. CASE ScanEmpty
  <2>1. /\ UNCHANGED <<queue, content, taken>> /\ mpc = "scan"
        /\ \/ mpc' \in {"scan", "finish", "drain"}
           \/ mpc' = "scan_next" /\ is_empty' = (queue[i] = << >>) /\ i' = i
    BY <1>13 DEF ScanEmpty, ToNextQueue, Empty, poolVars
  <2> QED
    BY <1>5, <1>11, <2>1
<1>14. CASE ScanNext
  <2>1. UNCHANGED <<queue, content, taken>> /\ mpc = "scan_next"
    BY <1>14 DEF ScanNext, poolVars
  <2>2. \/ mpc' \in {"scan", "finish", "drain", "wait"}
        \/ mpc' = "take" /\ ~is_empty /\ i' = i
    BY <1>14 DEF ScanNext, ToNextQueue
  <2>3. ~is_empty => queue[i] # << >>
    BY <2>1 DEF QueueInv
  <2> QED
    BY <1>5, <1>11, <2>1, <2>2, <2>3
<1>15. CASE NextRound
  <2>1. /\ UNCHANGED <<queue, content, taken>> /\ mpc = "next" /\ ~inited'
        /\ mpc' \in {"await", "final"}
    BY <1>15 DEF NextRound, scanVars, poolVars
  <2> QED
    BY <1>5, <1>11, <2>1
<1>16. CASE BeginRun \/ AwaitInput \/ GiveBack \/ ClearCurrent \/ Drained \/ FinishRound
              \/ EndRun \/ SetDone
  <2>1. UNCHANGED <<queue, content, taken>>
    BY <1>16 DEF BeginRun, AwaitInput, GiveBack, ClearCurrent, Drained, FinishRound, EndRun,
                 SetDone, scanVars, poolVars
  <2>2. /\ mpc \notin {"heap_install", "install"}
        /\ mpc' \in {"scan", "clear", "drain", "sweep", "await_writer", "next", "done"}
    BY <1>16 DEF BeginRun, AwaitInput, GiveBack, ClearCurrent, Drained, FinishRound, EndRun,
                 SetDone
  <2> QED
    BY <1>5, <1>11, <2>1, <2>2
<1> QED
  BY <1>7, <1>8, <1>9, <1>10, <1>12, <1>13, <1>14, <1>15, <1>16 DEF Merge

LEMMA QueueInvStep ==
    ASSUME TypeOK, RoundInv, FileInv, LoadInv, ScanInv, HeapInv, QueueInv, InOnePlace,
           Input \/ Merge \/ Writer
    PROVE  QueueInv'
<1>1. CASE Writer
  <2>1. UNCHANGED <<mpc, i, cur_task, is_empty, taken, queue, content, ipc, slot, round, inited>>
    BY <1>1, WriterFrame
  <2>2. UNCHANGED <<Task, queue_num>>
    BY <2>1 DEF Task, queue_num
  <2>3. \A q \in Queues : HasFirst(q)' <=> HasFirst(q)
    BY <2>1, <2>2 DEF HasFirst
  <2> QED
    BY <2>1, <2>2, <2>3 DEF QueueInv
<1> QED
  BY <1>1, QueueInvInput, QueueInvMerge

----------------------------------------------------------------------------
(* The invariant *)

LEMMA OnePlaceHere ==
    ASSUME TypeOK, InOnePlace
    PROVE  BuffersUnique
<1>1. ASSUME NEW g \in Held, NEW h \in Held, g[4] = h[4], g[4] # Null
      PROVE  g = h
  <2>1. /\ g = <<g[1], g[2], g[3], g[4]>> /\ h = <<h[1], h[2], h[3], h[4]>>
        /\ g[4] \in Buffers /\ At(g[4], g[1], g[2], g[3]) /\ At(h[4], h[1], h[2], h[3])
    BY <1>1, HeldPlaces
  <2>2. g[1] = h[1] /\ g[2] = h[2] /\ g[3] = h[3]
    BY <1>1, <2>1 DEF InOnePlace
  <2> QED
    BY <1>1, <2>1, <2>2
<1> QED
  BY <1>1 DEF BuffersUnique

LEMMA ControlInit == Init => ControlInv
<1> SUFFICES ASSUME Init PROVE ControlInv
  OBVIOUS
<1>1. TypeOK
  BY InitTypes
<1>2. /\ ipc = "round" /\ round = 1 /\ cur_task = 1 /\ inited = FALSE /\ wpc = "loop"
      /\ mpc = (IF Rounds = << >> THEN "final" ELSE "await") /\ done_sorting = FALSE
      /\ pq = {} /\ hand = Null /\ taken = Null /\ is_empty = FALSE /\ in_run = FALSE
      /\ runs = InitialRuns /\ pool = [b \in Buffers |-> b]
      /\ queue = [q \in Queues |-> << >>] /\ current_buffers = [q \in Queues |-> Null]
  BY DEF Init
<1>3. Len(Rounds) \in Nat /\ (Rounds = << >> <=> Len(Rounds) = 0)
  <2>1. Rounds \in Seq(Seq(Nat))
    BY ConstantFacts
  <2> QED
    BY <2>1
<1>4. RoundInv
  BY <1>2, <1>3 DEF RoundInv, InputLoading, Refilling, Preparing, Merging, Ending
<1>5. FileInv
  <2>1. InitialCount \in Nat /\ Len(InitialRuns) = InitialCount
    BY ConstantFacts, InitialRunsType
  <2>2. mpc \notin Merging /\ mpc # "next"
    BY <1>2 DEF Merging
  <2> QED
    BY <1>2, <2>1, <2>2, InitialRunsType DEF FileInv, RunCount
<1>6. LoadInv
  BY <1>2 DEF LoadInv, FirstInv, RefillInv, ChosenInv, HasFirst, Counted, InputLoading, Refilling
<1>7. ScanInv
  BY <1>2 DEF ScanInv, Scanning
<1>8. HeapInv
  BY <1>2 DEF HeapInv
<1>9. QueueInv
  <2>1. \A q \in Queues : queue[q] = << >>
    BY <1>2
  <2>2. << >> \in Seq(Nat) /\ Len(<< >>) = 0
    OBVIOUS
  <2>3. \A n : n \notin DOMAIN << >>
    BY <2>2
  <2> QED
    BY <1>2, <2>1, <2>3 DEF QueueInv, InputLoading
<1>10. NonEmptyInv
  BY <1>2 DEF NonEmptyInv, Merging
<1>11. InOnePlace
  <2>1. ASSUME NEW b \in Buffers, NEW k, NEW q, NEW n, At(b, k, q, n)
        PROVE  k = "pool" /\ q = 0 /\ n = b
    <3>1. Null \notin Buffers
      BY ConstantFacts
    <3>2. \A p \in Queues : Len(queue[p]) = 0
      BY <1>2
    <3>3. k # "queue"
      <4>1. k = "queue" => q \in Queues /\ n \in 1 .. Len(queue[q])
        BY <2>1 DEF At
      <4>2. n \notin 1 .. 0
        OBVIOUS
      <4> QED
        BY <3>2, <4>1, <4>2
    <3>4. k = "pool" /\ q = 0 /\ n \in 1 .. Len(pool) /\ pool[n] = b
      BY <1>2, <2>1, <3>1, <3>3 DEF At
    <3>5. n \in DOMAIN pool
      <4>1. pool \in Seq(Buffers)
        BY <1>1 DEF TypeOK
      <4>2. DOMAIN pool = 1 .. Len(pool)
        BY <4>1
      <4> QED
        BY <3>4, <4>2
    <3> QED
      BY <1>2, <3>4, <3>5
  <2> QED
    BY <2>1 DEF InOnePlace
<1> QED
  BY <1>1, <1>4, <1>5, <1>6, <1>7, <1>8, <1>9, <1>10, <1>11, OnePlaceHere DEF ControlInv

LEMMA ControlStutter ==
    ASSUME ControlInv, UNCHANGED vars
    PROVE  ControlInv'
<1>1. /\ UNCHANGED <<key, runs, in_run, stray, pool, content, queue, run_size, elements_read,
                     current_buffers, inited, out_active, out_buffer, done_sorting>>
      /\ UNCHANGED <<ipc, round, slot, hand, run_offsets, last_key, min_index, min_key, wpc>>
      /\ UNCHANGED <<mpc, cur_task, i, pq, is_empty, finished, taken, src, cur_out,
                     cur_out_count>>
  BY DEF vars, fileVars, poolVars, queueVars, outVars, inputVars, mergeVars
<1>2. UNCHANGED <<Task, queue_num, RunCount>>
  BY <1>1 DEF Task, queue_num, RunCount
<1>3. \A q : /\ HasNext(q)' <=> HasNext(q)
             /\ HasFirst(q)' <=> HasFirst(q)
             /\ Counted(q)' <=> Counted(q)
  BY <1>1, <1>2 DEF HasNext, HasFirst, Counted
<1>4. TypeOK'
  <2>1. FileTypes /\ StoreTypes /\ LoadTypes /\ MergeTypes
    BY TypeParts DEF ControlInv
  <2>2. FileTypes' /\ StoreTypes'
    BY <1>1, <2>1 DEF FileTypes, StoreTypes
  <2>3. LoadTypes'
    BY <1>1, <2>1 DEF LoadTypes
  <2>4. MergeTypes'
    BY <1>1, <2>1 DEF MergeTypes
  <2> QED
    BY <2>2, <2>3, <2>4, TypePartsNext
<1>5. RoundInv' /\ FileInv'
  BY <1>1, <1>2 DEF ControlInv, RoundInv, FileInv
<1>6. LoadInv'
  BY <1>1, <1>2, <1>3 DEF ControlInv, LoadInv, FirstInv, RefillInv, ChosenInv
<1>7. ScanInv' /\ HeapInv' /\ QueueInv' /\ NonEmptyInv'
  BY <1>1, <1>2, <1>3 DEF ControlInv, ScanInv, HeapInv, QueueInv, NonEmptyInv
<1>8. InOnePlace'
  <2>1. InOnePlace
    BY UniqueMeansOnePlace DEF ControlInv
  <2>2. \A b \in Buffers : \A k, q, n : At(b, k, q, n)' => At(b, k, q, n)
    BY <1>1 DEF At
  <2> QED
    BY <2>1, <2>2, PlacesKept
<1> QED
  BY <1>4, <1>5, <1>6, <1>7, <1>8, OnePlaceNext DEF ControlInv

LEMMA ControlStep == ControlInv /\ [Next]_vars => ControlInv'
<1> SUFFICES ASSUME ControlInv, [Next]_vars PROVE ControlInv'
  OBVIOUS
<1>1. CASE UNCHANGED vars
  BY <1>1, ControlStutter
<1>2. CASE Input \/ Merge \/ Writer
  <2>1. /\ TypeOK /\ RoundInv /\ FileInv /\ LoadInv /\ ScanInv /\ HeapInv /\ QueueInv
        /\ NonEmptyInv /\ BuffersUnique
    BY DEF ControlInv
  <2>2. InOnePlace
    BY <2>1, UniqueMeansOnePlace
  <2>3. TypeOK'
    BY <1>2, <2>1, InputTypeStep, MergeTypeStep, WriterTypeStep
  <2>4. RoundInv'
    BY <1>2, <2>1, RoundInvStep
  <2>5. FileInv'
    BY <1>2, <2>1, FileInvStep
  <2>6. LoadInv'
    BY <1>2, <2>1, LoadInvStep, LoadInvKept
  <2>7. ScanInv'
    BY <1>2, <2>1, ScanInvStep
  <2>8. HeapInv'
    BY <1>2, <2>1, HeapInvStep
  <2>9. QueueInv'
    BY <1>2, <2>1, <2>2, QueueInvStep
  <2>10. NonEmptyInv'
    BY <1>2, <2>1, NonEmptyStep
  <2>11. BuffersUnique'
    BY <1>2, <2>1, <2>2, <2>3, OnePlaceStep, OnePlaceNext
  <2> QED
    BY <2>3, <2>4, <2>5, <2>6, <2>7, <2>8, <2>9, <2>10, <2>11 DEF ControlInv
<1> QED
  BY <1>1, <1>2 DEF Next, Joined

(* What the three threads keep to, all of it together: each conjunct needs the   *)
(* others to be preserved (inputRun, kWayMerge, writer_p).                       *)
THEOREM ControlInvariant == Spec => []ControlInv
<1>1. Init => ControlInv
  BY ControlInit
<1>2. ControlInv /\ [Next]_vars => ControlInv'
  BY ControlStep
<1> QED
  BY <1>1, <1>2, PTL DEF Spec

(* The counters, indexes and containers of the three threads stay in their types. *)
THEOREM TypeCorrect == Spec => []TypeOK
<1>1. ControlInv => TypeOK
  BY DEF ControlInv
<1> QED
  BY <1>1, ControlInvariant, PTL

(* No buffer is in two places: the input thread loads none that the merge thread  *)
(* reads, and none is returned to the pool twice (getBuffer, returnBuffer,        *)
(* addBuffer).                                                                    *)
THEOREM BuffersInOnePlace == Spec => []BuffersUnique
<1>1. ControlInv => BuffersUnique
  BY DEF ControlInv
<1> QED
  BY <1>1, ControlInvariant, PTL

(* The queues are filled for a round only while the merge thread waits for it,    *)
(* when every run the round reads is complete (inputRun, kWayMerge: `inited`).    *)
THEOREM RoundsInStepAlways == Spec => []RoundsInStep
<1>1. ControlInv => RoundsInStep
  <2> SUFFICES ASSUME ControlInv PROVE RoundsInStep
    OBVIOUS
  <2>1. TypeOK /\ RoundInv /\ FileInv
    BY DEF ControlInv
  <2>2. ASSUME ipc \in InputLoading
        PROVE  /\ mpc = "await" /\ cur_task = round
               /\ \A q \in DOMAIN Task : Task[q] < RunCount
               /\ ~in_run
    <3>1. ipc # "round"
      BY <2>2 DEF InputLoading
    <3>2. \A q \in DOMAIN Task : Task[q] < RunCount
      BY <2>1, <3>1, InputRound
    <3>3. mpc = "await" /\ cur_task = round /\ ~in_run
      BY <2>1, <2>2 DEF RoundInv, FileInv, Merging
    <3> QED
      BY <3>2, <3>3
  <2>3. ASSUME mpc \in Merging
        PROVE  round \in {cur_task, cur_task + 1}
    <3>1. ipc \in InputLoading \cup Refilling \cup {"round"}
      BY <2>1 DEF TypeOK, Refilling
    <3> QED
      BY <2>1, <2>3, <3>1 DEF RoundInv
  <2> QED
    BY <2>2, <2>3 DEF RoundsInStep
<1> QED
  BY <1>1, ControlInvariant, PTL

(* No null pointer is followed through current_buffers, and next() is called on   *)
(* a buffer that has an element: each heap entry has its source's buffer behind   *)
(* it, and a round begins with a non-empty buffer in each queue (kWayMerge).      *)
THEOREM HeapBackedAlways == Spec => []HeapBacked
<1>1. ControlInv => HeapBacked
  <2> SUFFICES ASSUME ControlInv PROVE HeapBacked
    OBVIOUS
  <2>1. mpc \in {"heap_take", "take"} => queue[i] # << >> /\ content[Head(queue[i])] # << >>
    BY NextBuffer DEF ControlInv
  <2>2. /\ \A e \in pq : current_buffers[e[2]] # Null
        /\ \A e, f \in pq : e[2] = f[2] => e = f
    BY DEF ControlInv, HeapInv
  <2> QED
    BY <2>1, <2>2 DEF HeapBacked, Empty
<1> QED
  BY <1>1, ControlInvariant, PTL
=============================================================================
