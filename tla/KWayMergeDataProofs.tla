------------------------ MODULE KWayMergeDataProofs ------------------------
(***************************************************************************)
(* Theorems about what KWayMerge does with the elements, for every K,      *)
(* every list of rounds that generate_task may return, every size of runs, *)
(* chunks and buffers, and every interleaving.  The control invariant of   *)
(* KWayMergeProofs says where buffers and threads are; this module says    *)
(* what is in the buffers.                                                 *)
(***************************************************************************)
EXTENDS KWayMergeProofs, FiniteSetTheorems

(* x comes before y in the sequence s. *)
Before(s, x, y) == \E u, v \in DOMAIN s : u < v /\ s[u] = x /\ s[v] = y

Ascending(s, c) == \A m, n \in DOMAIN c : m < n => Before(s, c[m], c[n])
Precede(s, A, B) == \A x \in A, y \in B : Before(s, x, y)

(* The run that is read through queue q in this round. *)
Source(q) == runs[Rounds[cur_task][q] + 1]

(* The queues that have been given their first chunk of this round. *)
Fresh(q) == mpc \notin Ending /\ q \in 1 .. queue_num /\ (inited \/ HasFirst(q))

(* What has been read of its run. *)
Off(q) == IF inited THEN run_offsets[q] ELSE Smaller(run_size[q], CHUNK)

(* The way of the elements of a source: its queue, the buffer the merge thread   *)
(* has taken from it, the heap, the new run.                                     *)
Contents(f, t) == [n \in DOMAIN t |-> f[t[n]]]
Waiting(q) == Contents(content, queue[q])
HandBuffers(q) ==
    {b \in Buffers : \/ current_buffers[q] = b /\ ~(mpc = "clear" /\ q = src)
                     \/ taken = b /\ i = q}
InHand(q) == {content[b] : b \in HandBuffers(q)}
InHeap(q) == {e[1] : e \in {f \in pq : f[2] = q}}
InRun == IF mpc \in Merging \cup {"next"}
         THEN Range(runs[RunCount]) \cup Range(out_buffer[0]) \cup Range(out_buffer[1])
         ELSE {}
EmittedOf(q) == InRun \cap Range(Source(q))

(* Nothing overtakes on this way, and all that has been loaded is on it.         *)
InSeqs(C) == UNION {Range(c) : c \in C}
Stream(s, off, written, top, held, waiting) ==
    /\ Precede(s, written, top \cup InSeqs(held) \cup InSeqs(Range(waiting)))
    /\ Precede(s, top, InSeqs(held) \cup InSeqs(Range(waiting)))
    /\ Precede(s, InSeqs(held), InSeqs(Range(waiting)))
    /\ \A m, n \in DOMAIN waiting : m < n => Precede(s, Range(waiting[m]), Range(waiting[n]))
    /\ \A c \in held \cup Range(waiting) : Ascending(s, c)
    /\ {s[u] : u \in 1 .. off} = written \cup top \cup InSeqs(held) \cup InSeqs(Range(waiting))
StreamInv(q) == Stream(Source(q), Off(q), EmittedOf(q), InHeap(q), InHand(q), Waiting(q))

StreamsInv == \A q \in 1 .. K : Fresh(q) => StreamInv(q)

(* What has been read of the runs of the round. *)
OffsetInv ==
    inited => \A q \in 1 .. queue_num :
        /\ run_size[q] = Len(Source(q))
        /\ run_offsets[q] <= run_size[q] /\ elements_read[q] <= run_offsets[q]

(* Between two rounds the merge thread has no buffer, a buffer that it gives back *)
(* is empty, and so is a queue that is going to be filled.                        *)
NoCurrent ==
    /\ mpc \notin Merging \cup {"heap_take", "heap_install", "begin"} =>
          \A q \in Queues : current_buffers[q] = Null
    /\ mpc \in {"heap_take", "heap_install"} => \A q \in i .. K : current_buffers[q] = Null
    /\ mpc \in Merging \cup {"begin"} => \A q \in queue_num + 1 .. K : current_buffers[q] = Null
IdleInv ==
    /\ NoCurrent
    /\ mpc = "give_back" => content[current_buffers[src]] = << >>
    /\ ipc \in {"init_get", "init_add"} => queue[slot] = << >>
    /\ mpc \notin Merging => \A o \in Outs : out_buffer[o] = << >>

(* The new run and the output buffers have no element twice, only elements of     *)
(* this round, and in each buffer those of a source in their order.               *)
InOrder(s, c) ==
    \A m, n \in DOMAIN c :
        m < n /\ c[m] \in Range(s) /\ c[n] \in Range(s) => Before(s, c[m], c[n])
EmittedInv ==
    mpc \in Merging \cup {"next"} =>
        /\ IsInjective(runs[RunCount])
        /\ \A o \in Outs : /\ IsInjective(out_buffer[o])
                           /\ Range(runs[RunCount]) \cap Range(out_buffer[o]) = {}
        /\ Range(out_buffer[0]) \cap Range(out_buffer[1]) = {}
        /\ InRun \subseteq UNION {Range(Source(q)) : q \in 1 .. queue_num}
        /\ \A q \in 1 .. queue_num : \A o \in Outs : InOrder(Source(q), out_buffer[o])

(* The complete runs that no finished round has read are disjoint.                *)
Used == UNION {{Rounds[t][q] + 1 : q \in DOMAIN Rounds[t]} :
                 t \in {u \in 1 .. Len(Rounds) : u < cur_task \/ (u = cur_task /\ mpc = "next")}}
Complete == IF mpc \in Merging THEN RunCount - 1 ELSE RunCount
Live == (1 .. Complete) \ Used

LiveInv ==
    /\ \A r \in Live : IsInjective(runs[r])
    /\ \A r, s \in Live : r # s => Range(runs[r]) \cap Range(runs[s]) = {}


----------------------------------------------------------------------------
(* The runs of the round *)

LEMMA SourceFacts ==
    ASSUME TypeOK, RoundInv, FileInv, mpc \notin Ending, NEW q \in 1 .. queue_num
    PROVE  /\ q \in Queues /\ Source(q) \in Seq(Elements) \ {<< >>}
           /\ Rounds[cur_task][q] + 1 \in 1 .. Complete
           /\ Rounds[cur_task][q] + 1 \in 1 .. Len(runs)
           /\ Complete \in Nat /\ Complete <= Len(runs)
           /\ mpc \in Merging => Complete = Len(runs) - 1
<1> DEFINE id == Rounds[cur_task][q]
<1>1. /\ cur_task \in 1 .. Len(Rounds) /\ q \in Queues
      /\ id \in Nat /\ id < InitialCount + cur_task - 1
  BY MergeRound
<1> HIDE DEF id
<1>2. runs \in Seq(Seq(Elements)) /\ RunCount = Len(runs) /\ RunCount \in Nat
  BY DEF TypeOK, RunCount
<1>3. /\ RunCount \in {InitialCount + cur_task - 1 + 1, InitialCount + cur_task - 1 + 0}
      /\ in_run => RunCount = InitialCount + cur_task - 1 + 1
      /\ \A r \in 1 .. (IF in_run THEN RunCount - 1 ELSE RunCount) : runs[r] # << >>
      /\ in_run <=> mpc \in Merging
  BY DEF FileInv
<1>4. /\ Complete = IF in_run THEN RunCount - 1 ELSE RunCount
      /\ mpc \in Merging => Complete = Len(runs) - 1
  BY <1>2, <1>3 DEF Complete
<1>5. Complete \in Nat /\ Complete <= Len(runs) /\ id + 1 \in 1 .. Complete
      /\ id + 1 \in 1 .. Len(runs)
  BY <1>1, <1>2, <1>3, <1>4, ConstantFacts, SMTT(60)
<1>6. runs[id + 1] # << >>
  BY <1>3, <1>4, <1>5
<1>7. runs[id + 1] \in Seq(Elements)
  BY <1>2, <1>5
<1> QED
  BY <1>1, <1>4, <1>5, <1>6, <1>7 DEF Source, id

(* They are not read by another round, or through another queue. *)
LEMMA SourcesLive ==
    ASSUME TypeOK, RoundInv, FileInv, mpc \notin Ending \cup {"next"}
    PROVE  /\ \A q \in 1 .. queue_num : Rounds[cur_task][q] + 1 \in Live
           /\ \A q, r \in 1 .. queue_num :
                 q # r => Rounds[cur_task][q] + 1 # Rounds[cur_task][r] + 1
<1>1. /\ cur_task \in 1 .. Len(Rounds) /\ DOMAIN Rounds[cur_task] = 1 .. queue_num
      /\ \A q \in 1 .. queue_num : Rounds[cur_task][q] \in Nat
  BY MergeRound
<1>2. /\ DOMAIN Rounds = 1 .. Len(Rounds) /\ Len(Rounds) \in Nat
      /\ ReadOnce(Rounds)
  BY ConstantFacts, RoundsAssumption DEF ValidRounds
<1>3. ASSUME NEW q \in 1 .. queue_num
      PROVE  Rounds[cur_task][q] + 1 \in Live
  <2>1. Rounds[cur_task][q] + 1 \in 1 .. Complete
    BY <1>3, SourceFacts
  <2>2. ASSUME NEW t \in 1 .. Len(Rounds), t < cur_task \/ (t = cur_task /\ mpc = "next"),
               NEW r \in DOMAIN Rounds[t], Rounds[cur_task][q] + 1 = Rounds[t][r] + 1
        PROVE  FALSE
    <3>1. t # cur_task
      BY <1>1, <2>2
    <3>2. Rounds[t][r] \in Nat
      BY RoundFacts
    <3>3. Rounds[cur_task][q] = Rounds[t][r]
      BY <1>1, <2>2, <3>2
    <3> QED
      BY <1>1, <1>2, <3>1, <3>3 DEF ReadOnce
  <2>3. Rounds[cur_task][q] + 1 \notin Used
    BY <2>2 DEF Used
  <2> QED
    BY <2>1, <2>3 DEF Live
<1>4. ASSUME NEW q \in 1 .. queue_num, NEW r \in 1 .. queue_num,
             Rounds[cur_task][q] + 1 = Rounds[cur_task][r] + 1
      PROVE  q = r
  <2>1. Rounds[cur_task][q] = Rounds[cur_task][r]
    BY <1>1, <1>4
  <2> QED
    BY <1>1, <1>2, <2>1 DEF ReadOnce
<1> QED
  BY <1>3, <1>4

(* So they have no element in common, and none twice. *)
LEMMA SourcesDisjoint ==
    ASSUME TypeOK, RoundInv, FileInv, LiveInv, mpc \notin Ending \cup {"next"}
    PROVE  /\ \A q \in 1 .. queue_num : IsInjective(Source(q))
           /\ \A q, r \in 1 .. queue_num :
                 q # r => Range(Source(q)) \cap Range(Source(r)) = {}
BY SourcesLive DEF LiveInv, Source

LEMMA BeforeFacts ==
    ASSUME NEW s \in Seq(Elements), NEW x, NEW y, Before(s, x, y)
    PROVE  /\ x \in Range(s) /\ y \in Range(s)
           /\ IsInjective(s) => /\ x # y
                                /\ \A u, v \in DOMAIN s : s[u] = x /\ s[v] = y => u < v
<1>1. PICK u \in DOMAIN s, v \in DOMAIN s : u < v /\ s[u] = x /\ s[v] = y
  BY DEF Before
<1>2. x \in Range(s) /\ y \in Range(s)
  BY <1>1 DEF Range
<1>3. ASSUME IsInjective(s), NEW m \in DOMAIN s, NEW n \in DOMAIN s, s[m] = x, s[n] = y
      PROVE  m < n
  BY <1>1, <1>3 DEF IsInjective
<1>4. ASSUME IsInjective(s), x = y
      PROVE  FALSE
  <2>1. u = v
    BY <1>1, <1>4 DEF IsInjective
  <2> QED
    BY <1>1, <2>1
<1> QED
  BY <1>2, <1>3, <1>4


----------------------------------------------------------------------------
(* What a step leaves alone *)

(* The runs of the round are complete. *)
LEMMA SourceKept ==
    ASSUME TypeOK, RoundInv, FileInv, HeapInv, Input \/ Merge \/ Writer, ~NextRound,
           mpc \notin Ending
    PROVE  /\ cur_task' = cur_task /\ queue_num' = queue_num
           /\ \A q \in 1 .. queue_num : Source(q)' = Source(q)
<1>1. cur_task' = cur_task
  BY InputFrame, WriterFrame, MergeStages
<1>2. queue_num' = queue_num
  BY <1>1 DEF queue_num
<1>3. ASSUME NEW q \in 1 .. queue_num
      PROVE  Source(q)' = Source(q)
  <2> DEFINE r == Rounds[cur_task][q] + 1
  <2>1. /\ r \in 1 .. Len(runs) /\ r \in 1 .. Complete /\ Complete \in Nat
        /\ mpc \in Merging => Complete = Len(runs) - 1
    BY <1>3, SourceFacts
  <2>2. Source(q) = runs[r] /\ Source(q)' = runs'[r]
    BY <1>1 DEF Source
  <2>3. runs \in Seq(Seq(Elements))
    BY DEF TypeOK
  <2> HIDE DEF r
  <2>4. CASE UNCHANGED runs
    BY <2>2, <2>4
  <2>5. CASE runs' = Append(runs, << >>)
    BY <2>1, <2>2, <2>3, <2>5
  <2>6. CASE /\ mpc \in {"drain", "await_writer"} /\ RunCount' = RunCount
             /\ \A p \in 1 .. RunCount - 1 : runs'[p] = runs[p]
    <3>1. r \in 1 .. RunCount - 1
      BY <2>1, <2>6 DEF RunCount, Merging
    <3> QED
      BY <2>2, <2>6, <3>1
  <2> QED
    BY <2>4, <2>5, <2>6, FileStep
<1> QED
  BY <1>1, <1>2, <1>3

(* A queue becomes fresh by its first chunk only. *)
LEMMA FreshStep ==
    ASSUME TypeOK, RoundInv, FileInv, LoadInv, ScanInv, HeapInv, RoundInv',
           Input \/ Merge \/ Writer, NEW q, Fresh(q)'
    PROVE  /\ ~NextRound /\ mpc \notin Ending /\ q \in 1 .. queue_num
           /\ Fresh(q) \/ (AddFirst /\ q = slot)
<1>1. mpc' \notin Ending /\ q \in 1 .. queue_num' /\ (inited' \/ HasFirst(q)')
  BY DEF Fresh
<1>2. ASSUME NextRound PROVE FALSE
  <2>1. /\ ~inited' /\ mpc = "next" /\ ipc' = ipc
    BY <1>2 DEF NextRound, mergeKeeps, inputVars
  <2>2. ipc = "round"
    BY <2>1, NoLeaveWhileRefilling
  <2>3. ~HasFirst(q)'
    BY <2>1, <2>2 DEF HasFirst, Refilling
  <2> QED
    BY <1>1, <2>1, <2>3
<1>3. mpc \notin Ending
  <2>1. Merge => mpc \notin Ending
    BY <1>1, <1>2, MergeStages DEF Ending, Preparing, Merging
  <2>2. Input \/ Writer => mpc' = mpc
    BY InputFrame, WriterFrame
  <2> QED
    BY <1>1, <2>1, <2>2
<1>4. cur_task' = cur_task /\ queue_num' = queue_num /\ q \in 1 .. queue_num
  BY <1>1, <1>2, <1>3, SourceKept
<1>5. CASE Merge \/ Writer
  <2>1. inited' = inited
    BY <1>2, <1>5, MergeStages, WriterFrame
  <2>2. UNCHANGED <<ipc, slot, round>>
    BY <1>5, MergeFrame, WriterFrame
  <2>3. HasFirst(q)' <=> HasFirst(q)
    BY <2>2 DEF HasFirst, Task
  <2> QED
    BY <1>1, <1>2, <1>3, <1>4, <2>1, <2>3 DEF Fresh
<1>6. CASE Input
  <2>1. CASE inited
    BY <1>2, <1>3, <1>4, <2>1 DEF Fresh
  <2>2. CASE ~inited
    <3>1. CASE PublishRound
      <4>1. ipc = "publish"
        BY <3>1 DEF PublishRound
      <4>2. round = cur_task /\ DOMAIN Task = 1 .. Len(Task)
        BY <4>1, InputRound
      <4>3. q \in DOMAIN Task
        BY <1>4, <4>2 DEF queue_num, Task
      <4>4. HasFirst(q)
        BY <4>1, <4>3 DEF HasFirst
      <4> QED
        BY <1>2, <1>3, <1>4, <4>4 DEF Fresh
    <3>2. CASE ~PublishRound
      <4>1. ipc \in InputLoading \cup {"round"}
        BY <2>2 DEF TypeOK, RoundInv, Refilling
      <4>2. /\ ipc' \in InputLoading /\ ~inited'
            /\ \/ HasFirst(q)' => HasFirst(q)
               \/ AddFirst /\ (HasFirst(q)' => HasFirst(q) \/ q = slot)
        <5>1. slot \in Nat /\ slot \in Int
          <6>1. slot \in Queues
            BY DEF TypeOK
          <6>2. slot \in 1 .. K /\ K \in Nat
            BY <6>1, ConstantFacts
          <6> QED
            BY <6>2
        <5>2. CASE AwaitRound
          <6>1. ipc' = "reset" /\ slot' = 1 /\ inited' = inited
            BY <5>2 DEF AwaitRound
          <6>2. q \notin 1 .. 1 - 1
            BY <1>4 DEF queue_num
          <6>3. ~HasFirst(q)'
            BY <6>1, <6>2 DEF HasFirst, Refilling
          <6> QED
            BY <2>2, <6>1, <6>3 DEF InputLoading
        <5>3. CASE ResetQueue \/ GetBuffer
          <6>1. /\ (ipc = "reset" /\ ipc' = "init_get") \/ ipc \in {"init_get", "get"}
                /\ ipc = "init_get" => ipc' = "init_add"
                /\ slot' = slot /\ inited' = inited
            BY <5>3 DEF ResetQueue, GetBuffer
          <6>2. ipc # "get"
            BY <4>1 DEF InputLoading
          <6> QED
            BY <2>2, <6>1, <6>2 DEF HasFirst, InputLoading, Refilling
        <5>4. CASE AddFirst
          <6>1. ipc = "init_add" /\ ipc' = "init_count" /\ slot' = slot /\ inited' = inited
            BY <5>4 DEF AddFirst
          <6>2. q \in 1 .. slot => q \in 1 .. slot - 1 \/ q = slot
            BY <5>1
          <6> QED
            BY <2>2, <5>4, <6>1, <6>2 DEF HasFirst, InputLoading, Refilling
        <5>5. CASE CountFirst
          <6>1. /\ ipc = "init_count" /\ inited' = inited /\ round' = round
                /\ \/ ipc' = "reset" /\ slot' = slot + 1 /\ slot < Len(Task)
                   \/ ipc' = "publish" /\ slot' = slot /\ ~(slot < Len(Task))
            BY <5>5 DEF CountFirst
          <6>2. Task' = Task /\ DOMAIN Task = 1 .. Len(Task) /\ Len(Task) \in Nat
            BY <6>1, InputRound DEF Task
          <6>3. slot + 1 - 1 = slot /\ (~(slot < Len(Task)) => \A p \in 1 .. Len(Task) : p \in 1 .. slot)
            BY <5>1, <6>2
          <6>4. CASE slot < Len(Task)
            <7>1. ipc' = "reset" /\ slot' = slot + 1
              BY <6>1, <6>4
            <7>2. slot' - 1 = slot
              BY <5>1, <7>1
            <7> QED
              BY <2>2, <6>1, <7>1, <7>2 DEF HasFirst, InputLoading, Refilling
          <6>5. CASE ~(slot < Len(Task))
            <7>1. ipc' = "publish"
              BY <6>1, <6>5
            <7>2. HasFirst(q)' => q \in 1 .. slot
              BY <6>2, <6>3, <6>5, <7>1 DEF HasFirst, Refilling
            <7> QED
              BY <2>2, <6>1, <7>1, <7>2 DEF HasFirst, InputLoading
          <6> QED
            BY <6>4, <6>5
        <5>6. CASE ScanCurrent \/ ScanQueue \/ AddNext \/ CountNext
          BY <4>1, <5>6 DEF ScanCurrent, ScanQueue, AddNext, CountNext, InputLoading
        <5> QED
          BY <1>6, <3>2, <5>2, <5>3, <5>4, <5>5, <5>6 DEF Input
      <4> QED
        BY <1>1, <1>2, <1>3, <1>4, <4>2 DEF Fresh
    <3> QED
      BY <3>1, <3>2
  <2> QED
    BY <2>1, <2>2
<1> QED
  BY <1>2, <1>3, <1>4, <1>5, <1>6


----------------------------------------------------------------------------
(* The stages of the way *)

LEMMA HeadAndTail ==
    ASSUME NEW S, NEW c \in Seq(S), c # << >>
    PROVE  /\ Head(c) \in S /\ Tail(c) \in Seq(S) /\ Len(c) \in Nat \ {0}
           /\ Head(c) = c[1] /\ 1 \in DOMAIN c
           /\ \A n \in DOMAIN Tail(c) : n + 1 \in DOMAIN c /\ Tail(c)[n] = c[n + 1]
           /\ \A n \in DOMAIN c : n = 1 \/ (n - 1 \in DOMAIN Tail(c) /\ c[n] = Tail(c)[n - 1])
           /\ Range(c) = {Head(c)} \cup Range(Tail(c))
<1>1. /\ Len(c) \in Nat \ {0} /\ DOMAIN c = 1 .. Len(c) /\ Head(c) = c[1]
      /\ \A n \in 1 .. Len(c) : c[n] \in S
  OBVIOUS
<1>2. /\ Tail(c) \in Seq(S) /\ DOMAIN Tail(c) = 1 .. Len(c) - 1
      /\ \A n \in 1 .. Len(c) - 1 : Tail(c)[n] = c[n + 1]
  OBVIOUS
<1>3. \A n \in 1 .. Len(c) - 1 : n + 1 \in 1 .. Len(c)
  BY <1>1
<1>4. \A n \in 1 .. Len(c) : n = 1 \/ (n - 1 \in 1 .. Len(c) - 1 /\ (n - 1) + 1 = n)
  BY <1>1
<1>5. 1 \in DOMAIN c
  BY <1>1
<1>6. \A n \in DOMAIN c : n = 1 \/ (n - 1 \in DOMAIN Tail(c) /\ c[n] = Tail(c)[n - 1])
  BY <1>1, <1>2, <1>4
<1>7. Range(c) = {Head(c)} \cup Range(Tail(c))
  <2>1. ASSUME NEW x \in Range(c) PROVE x \in {Head(c)} \cup Range(Tail(c))
    BY <1>1, <1>6, <2>1 DEF Range
  <2>2. ASSUME NEW x \in Range(Tail(c)) PROVE x \in Range(c)
    BY <1>1, <1>2, <1>3, <2>2 DEF Range
  <2>3. Head(c) \in Range(c)
    BY <1>1, <1>5 DEF Range
  <2> QED
    BY <2>1, <2>2, <2>3
<1> QED
  BY <1>1, <1>2, <1>3, <1>5, <1>6, <1>7

LEMMA AscendingTail ==
    ASSUME NEW s, NEW S, NEW c \in Seq(S), c # << >>, Ascending(s, c)
    PROVE  Ascending(s, Tail(c)) /\ Precede(s, {Head(c)}, Range(Tail(c)))
<1>1. ASSUME NEW m \in DOMAIN Tail(c), NEW n \in DOMAIN Tail(c), m < n
      PROVE  Before(s, Tail(c)[m], Tail(c)[n])
  <2>1. /\ m + 1 \in DOMAIN c /\ Tail(c)[m] = c[m + 1]
        /\ n + 1 \in DOMAIN c /\ Tail(c)[n] = c[n + 1]
    BY HeadAndTail
  <2>2. m + 1 < n + 1
    <3>1. m \in Nat /\ n \in Nat
      OBVIOUS
    <3> QED
      BY <1>1, <3>1
  <2> QED
    BY <2>1, <2>2 DEF Ascending
<1>2. ASSUME NEW n \in DOMAIN Tail(c)
      PROVE  Before(s, Head(c), Tail(c)[n])
  <2>1. n + 1 \in DOMAIN c /\ Tail(c)[n] = c[n + 1] /\ Head(c) = c[1] /\ 1 \in DOMAIN c
    BY HeadAndTail
  <2>2. 1 < n + 1
    <3>1. n \in Nat \ {0}
      OBVIOUS
    <3> QED
      BY <3>1
  <2> QED
    BY <2>1, <2>2 DEF Ascending
<1> QED
  BY <1>1, <1>2 DEF Ascending, Precede, Range

LEMMA PrecedeParts ==
    ASSUME NEW s, NEW A, NEW B, NEW C
    PROVE  /\ Precede(s, A, B \cup C) <=> Precede(s, A, B) /\ Precede(s, A, C)
           /\ Precede(s, A \cup B, C) <=> Precede(s, A, C) /\ Precede(s, B, C)
           /\ B \subseteq C /\ Precede(s, A, C) => Precede(s, A, B)
           /\ Precede(s, {}, A) /\ Precede(s, A, {})
BY DEF Precede

LEMMA InSeqsParts ==
    ASSUME NEW A, NEW B, NEW c
    PROVE  /\ InSeqs({}) = {} /\ InSeqs({c}) = Range(c)
           /\ InSeqs(A \cup B) = InSeqs(A) \cup InSeqs(B)
BY DEF InSeqs

LEMMA MapOfAppend ==
    ASSUME NEW f \in [Buffers -> Seq(Elements)], NEW t \in Seq(Buffers), NEW x \in Buffers
    PROVE  /\ Contents(f, t) \in Seq(Seq(Elements))
           /\ Contents(f, Append(t, x)) = Append(Contents(f, t), f[x])
<1> DEFINE u == Append(t, x)
           w == Contents(f, t)
           v == Contents(f, u)
<1>1. /\ u \in Seq(Buffers) /\ Len(t) \in Nat /\ DOMAIN t = 1 .. Len(t)
      /\ DOMAIN u = 1 .. Len(t) + 1 /\ u[Len(t) + 1] = x
      /\ \A n \in 1 .. Len(t) : u[n] = t[n] /\ t[n] \in Buffers
  OBVIOUS
<1>2. w \in Seq(Seq(Elements)) /\ Len(w) = Len(t) /\ \A n \in 1 .. Len(t) : w[n] = f[t[n]]
  BY <1>1 DEF Contents
<1> HIDE DEF w, u
<1>3. v \in Seq(Seq(Elements)) /\ Len(v) = Len(t) + 1 /\ \A n \in 1 .. Len(t) + 1 : v[n] = f[u[n]]
  <2>1. \A n \in 1 .. Len(t) + 1 : u[n] \in Buffers
    BY <1>1
  <2> QED
    BY <1>1, <2>1 DEF Contents
<1> HIDE DEF v
<1>4. /\ Append(w, f[x]) \in Seq(Seq(Elements)) /\ Len(Append(w, f[x])) = Len(t) + 1
      /\ Append(w, f[x])[Len(t) + 1] = f[x]
      /\ \A n \in 1 .. Len(t) : Append(w, f[x])[n] = w[n]
  BY <1>2
<1>5. \A n \in 1 .. Len(t) + 1 : n \in 1 .. Len(t) \/ n = Len(t) + 1
  BY <1>1
<1>6. \A n \in 1 .. Len(t) + 1 : v[n] = Append(w, f[x])[n]
  BY <1>1, <1>2, <1>3, <1>4, <1>5
<1>7. v = Append(w, f[x])
  BY <1>3, <1>4, <1>6, SeqEqual
<1> QED
  BY <1>2, <1>7 DEF u, v, w

LEMMA MapOfTail ==
    ASSUME NEW f \in [Buffers -> Seq(Elements)], NEW t \in Seq(Buffers), t # << >>
    PROVE  /\ Contents(f, t) \in Seq(Seq(Elements)) /\ Contents(f, t) # << >>
           /\ Head(Contents(f, t)) = f[Head(t)] /\ Contents(f, Tail(t)) = Tail(Contents(f, t))
<1> DEFINE u == Tail(t)
           w == Contents(f, t)
           v == Contents(f, u)
<1>1. /\ u \in Seq(Buffers) /\ Len(t) \in Nat \ {0} /\ DOMAIN t = 1 .. Len(t)
      /\ DOMAIN u = 1 .. Len(t) - 1 /\ Head(t) = t[1]
      /\ \A n \in 1 .. Len(t) - 1 : u[n] = t[n + 1]
      /\ \A n \in 1 .. Len(t) : t[n] \in Buffers
  OBVIOUS
<1>2. w \in Seq(Seq(Elements)) /\ Len(w) = Len(t) /\ \A n \in 1 .. Len(t) : w[n] = f[t[n]]
  BY <1>1 DEF Contents
<1> HIDE DEF w, u
<1>3. v \in Seq(Seq(Elements)) /\ Len(v) = Len(t) - 1 /\ \A n \in 1 .. Len(t) - 1 : v[n] = f[u[n]]
  <2>1. \A n \in 1 .. Len(t) - 1 : u[n] \in Buffers /\ n \in DOMAIN u
    BY <1>1
  <2> QED
    BY <1>1, <2>1 DEF Contents
<1> HIDE DEF v
<1>4. /\ Tail(w) \in Seq(Seq(Elements)) /\ Len(Tail(w)) = Len(t) - 1 /\ w # << >> /\ Head(w) = w[1]
      /\ \A n \in 1 .. Len(t) - 1 : Tail(w)[n] = w[n + 1]
  BY <1>1, <1>2
<1>5. \A n \in 1 .. Len(t) - 1 : n + 1 \in 1 .. Len(t)
  BY <1>1
<1>6. \A n \in 1 .. Len(t) - 1 : v[n] = Tail(w)[n]
  BY <1>1, <1>2, <1>3, <1>4, <1>5
<1>7. v = Tail(w)
  BY <1>3, <1>4, <1>6, SeqEqual
<1>8. Head(w) = f[Head(t)]
  BY <1>1, <1>2, <1>4
<1> QED
  BY <1>2, <1>4, <1>7, <1>8 DEF u, v, w

LEMMA RangeOfConcat ==
    ASSUME NEW S, NEW a \in Seq(S), NEW b \in Seq(S), NEW c \in Seq(S)
    PROVE  /\ Range(a \o b) = Range(a) \cup Range(b)
           /\ Range(a \o (b \o c)) = Range(a) \cup Range(b) \cup Range(c)
<1>1. ASSUME NEW d \in Seq(S), NEW e \in Seq(S)
      PROVE  Range(d \o e) = Range(d) \cup Range(e)
  <2>1. /\ Len(d \o e) = Len(d) + Len(e) /\ DOMAIN (d \o e) = 1 .. Len(d) + Len(e)
        /\ \A n \in 1 .. Len(d) : (d \o e)[n] = d[n]
        /\ \A n \in 1 .. Len(e) : (d \o e)[Len(d) + n] = e[n]
        /\ DOMAIN d = 1 .. Len(d) /\ DOMAIN e = 1 .. Len(e)
        /\ Len(d) \in Nat /\ Len(e) \in Nat
    OBVIOUS
  <2>2. \A n \in 1 .. Len(d) + Len(e) :
            n \in 1 .. Len(d) \/ (n - Len(d) \in 1 .. Len(e) /\ n = Len(d) + (n - Len(d)))
    BY <2>1
  <2>3. /\ \A n \in 1 .. Len(d) : n \in 1 .. Len(d) + Len(e)
        /\ \A n \in 1 .. Len(e) : Len(d) + n \in 1 .. Len(d) + Len(e)
    BY <2>1
  <2>4. ASSUME NEW x \in Range(d \o e) PROVE x \in Range(d) \cup Range(e)
    BY <2>1, <2>2, <2>4 DEF Range
  <2>5. ASSUME NEW x \in Range(d) \cup Range(e) PROVE x \in Range(d \o e)
    BY <2>1, <2>3, <2>5, ZenonT(60) DEF Range
  <2> QED
    BY <2>4, <2>5
<1>2. b \o c \in Seq(S)
  OBVIOUS
<1>3. Range(a \o (b \o c)) = Range(a) \cup Range(b \o c) /\ Range(b \o c) = Range(b) \cup Range(c)
  BY <1>1, <1>2
<1>4. Range(a \o b) = Range(a) \cup Range(b)
  BY <1>1
<1> QED
  BY <1>3, <1>4

(* initializeRound puts the first chunk into an empty queue. *)
LEMMA FirstStream ==
    ASSUME NEW s \in Seq(Elements), NEW count \in Nat, count <= Len(s),
           NEW c \in Seq(Elements), Len(c) = count, \A n \in 1 .. count : c[n] = s[n]
    PROVE  Stream(s, count, {}, {}, {}, << c >>)
<1>1. DOMAIN c = 1 .. count /\ \A n \in 1 .. count : n \in DOMAIN s
  OBVIOUS
<1>2. Ascending(s, c)
  BY <1>1 DEF Ascending, Before
<1>3. {s[u] : u \in 1 .. count} = Range(c)
  BY <1>1 DEF Range
<1>4. DOMAIN << c >> = {1} /\ Range(<< c >>) = {c}
  BY DEF Range
<1>5. InSeqs({}) = {} /\ InSeqs(Range(<< c >>)) = Range(c)
  BY <1>4, InSeqsParts
<1>6. \A m, n \in DOMAIN << c >> : ~(m < n)
  BY <1>4
<1> QED
  BY <1>2, <1>3, <1>4, <1>5, <1>6, PrecedeParts DEF Stream

(* The refill loop puts the next chunk behind what has been loaded. *)
LEMMA StreamGrows ==
    ASSUME NEW s \in Seq(Elements), NEW off \in Nat, NEW count \in Nat, off + count <= Len(s),
           NEW c \in Seq(Elements), Len(c) = count, \A n \in 1 .. count : c[n] = s[off + n],
           NEW written, NEW top, NEW held, NEW waiting \in Seq(Seq(Elements)),
           Stream(s, off, written, top, held, waiting)
    PROVE  Stream(s, off + count, written, top, held, Append(waiting, c))
<1> DEFINE w == Append(waiting, c)
<1>1. /\ DOMAIN c = 1 .. count /\ DOMAIN s = 1 .. Len(s) /\ Len(s) \in Nat
      /\ DOMAIN waiting = 1 .. Len(waiting) /\ Len(waiting) \in Nat
  OBVIOUS
<1>2. /\ DOMAIN w = 1 .. Len(waiting) + 1 /\ w[Len(waiting) + 1] = c
      /\ \A n \in 1 .. Len(waiting) : w[n] = waiting[n]
  BY <1>1
<1> HIDE DEF w
<1>3. Range(w) = Range(waiting) \cup {c}
  <2>1. \A n : n \in 1 .. Len(waiting) + 1 <=> n \in 1 .. Len(waiting) \/ n = Len(waiting) + 1
    BY <1>1
  <2>2. ASSUME NEW d \in Range(w) PROVE d \in Range(waiting) \cup {c}
    BY <1>1, <1>2, <2>1, <2>2, SMTT(60) DEF Range
  <2>3. ASSUME NEW d \in Range(waiting) PROVE d \in Range(w)
    BY <1>1, <1>2, <2>1, <2>3 DEF Range
  <2>4. c \in Range(w)
    BY <1>2, <2>1 DEF Range
  <2> QED
    BY <2>2, <2>3, <2>4
<1>4. InSeqs(Range(w)) = InSeqs(Range(waiting)) \cup Range(c)
  <2>1. InSeqs(Range(waiting) \cup {c}) = InSeqs(Range(waiting)) \cup InSeqs({c})
    BY InSeqsParts
  <2>2. InSeqs({c}) = Range(c)
    BY InSeqsParts
  <2> QED
    BY <1>3, <2>1, <2>2
<1>5. \A n \in 1 .. count : off + n \in DOMAIN s /\ off < off + n
  BY <1>1
<1>6. \A u \in 1 .. off : u \in DOMAIN s
  BY <1>1
<1>7. ASSUME NEW x \in {s[u] : u \in 1 .. off}, NEW y \in Range(c)
      PROVE  Before(s, x, y)
  <2>1. PICK u \in 1 .. off : x = s[u]
    OBVIOUS
  <2>2. PICK n \in 1 .. count : y = s[off + n]
    BY <1>1 DEF Range
  <2>3. u < off + n
    BY <2>1, <2>2
  <2> QED
    BY <1>5, <1>6, <2>1, <2>2, <2>3 DEF Before
<1>8. Ascending(s, c)
  <2>1. ASSUME NEW m \in 1 .. count, NEW n \in 1 .. count, m < n
        PROVE  Before(s, c[m], c[n])
    <3>1. off + m < off + n
      BY <2>1
    <3> QED
      BY <1>5, <3>1 DEF Before
  <2> QED
    BY <1>1, <2>1 DEF Ascending
<1>9. {s[u] : u \in 1 .. off + count} = {s[u] : u \in 1 .. off} \cup Range(c)
  <2>1. \A u \in 1 .. off + count : u \in 1 .. off \/ (u - off \in 1 .. count /\ u = off + (u - off))
    OBVIOUS
  <2>2. \A n \in 1 .. count : off + n \in 1 .. off + count
    OBVIOUS
  <2>3. \A u \in 1 .. off : u \in 1 .. off + count
    OBVIOUS
  <2>4. ASSUME NEW u \in 1 .. off + count
        PROVE  s[u] \in {s[v] : v \in 1 .. off} \cup Range(c)
    BY <1>1, <2>1 DEF Range
  <2>5. ASSUME NEW y \in Range(c)
        PROVE  y \in {s[u] : u \in 1 .. off + count}
    BY <1>1, <2>2 DEF Range
  <2> QED
    BY <2>3, <2>4, <2>5
<1>10. /\ Precede(s, written, Range(c)) /\ Precede(s, top, Range(c))
       /\ Precede(s, InSeqs(held), Range(c)) /\ Precede(s, InSeqs(Range(waiting)), Range(c))
  BY <1>7 DEF Stream, Precede
<1>11. ASSUME NEW m \in DOMAIN w, NEW n \in DOMAIN w, m < n
       PROVE  Precede(s, Range(w[m]), Range(w[n]))
  <2>1. m \in 1 .. Len(waiting) /\ (n \in 1 .. Len(waiting) \/ n = Len(waiting) + 1)
    BY <1>1, <1>2, <1>11
  <2>2. CASE n \in 1 .. Len(waiting)
    BY <1>1, <1>2, <1>11, <2>1, <2>2 DEF Stream
  <2>3. CASE n = Len(waiting) + 1
    <3> DEFINE d == w[m]
    <3>1. d \in Range(waiting)
      BY <1>1, <1>2, <2>1 DEF Range
    <3> HIDE DEF d
    <3>2. Range(d) \subseteq InSeqs(Range(waiting))
      BY <3>1 DEF InSeqs
    <3>3. Precede(s, Range(d), Range(c))
      BY <1>10, <3>2 DEF Precede
    <3> QED
      BY <1>2, <2>3, <3>3 DEF d
  <2> QED
    BY <2>1, <2>2, <2>3
<1>12. Stream(s, off + count, written, top, held, w)
  <2>1. /\ Precede(s, written, top \cup InSeqs(held) \cup InSeqs(Range(w)))
        /\ Precede(s, top, InSeqs(held) \cup InSeqs(Range(w)))
        /\ Precede(s, InSeqs(held), InSeqs(Range(w)))
    BY <1>4, <1>10 DEF Precede, Stream
  <2>2. \A d \in held \cup Range(w) : Ascending(s, d)
    BY <1>3, <1>8 DEF Stream
  <2>3. {s[u] : u \in 1 .. off + count} = written \cup top \cup InSeqs(held) \cup InSeqs(Range(w))
    BY <1>4, <1>9 DEF Stream
  <2> QED
    BY <1>11, <2>1, <2>2, <2>3 DEF Stream
<1> QED
  BY <1>12 DEF w

(* qs[i]->getBuffer() *)
LEMMA StreamTaken ==
    ASSUME NEW s, NEW off, NEW written, NEW top, NEW waiting \in Seq(Seq(Elements)),
           waiting # << >>, Stream(s, off, written, top, {}, waiting)
    PROVE  Stream(s, off, written, top, {Head(waiting)}, Tail(waiting))
<1> DEFINE c == Head(waiting)
           w == Tail(waiting)
<1>1. /\ c = waiting[1] /\ 1 \in DOMAIN waiting
      /\ \A n \in DOMAIN w : n + 1 \in DOMAIN waiting /\ w[n] = waiting[n + 1]
      /\ Range(waiting) = {c} \cup Range(w)
  BY HeadAndTail
<1>10. w \in Seq(Seq(Elements))
  BY HeadAndTail
<1> HIDE DEF c, w
<1>2. InSeqs(Range(waiting)) = Range(c) \cup InSeqs(Range(w)) /\ InSeqs({c}) = Range(c)
      /\ InSeqs({}) = {}
  <2>1. InSeqs({c} \cup Range(w)) = InSeqs({c}) \cup InSeqs(Range(w))
    BY InSeqsParts
  <2>2. InSeqs({c}) = Range(c) /\ InSeqs({}) = {}
    BY InSeqsParts
  <2> QED
    BY <1>1, <2>1, <2>2
<1>3. \A n \in DOMAIN w : n \in Nat \ {0}
  BY <1>10
<1>4. ASSUME NEW n \in DOMAIN w PROVE Precede(s, Range(c), Range(w[n]))
  <2>1. 1 < n + 1
    BY <1>3
  <2> QED
    BY <1>1, <2>1 DEF Stream
<1>5. Precede(s, Range(c), InSeqs(Range(w)))
  BY <1>4 DEF Precede, InSeqs, Range
<1>6. ASSUME NEW m \in DOMAIN w, NEW n \in DOMAIN w, m < n
      PROVE  Precede(s, Range(w[m]), Range(w[n]))
  <2>1. m + 1 < n + 1
    BY <1>3, <1>6
  <2> QED
    BY <1>1, <2>1 DEF Stream
<1>7. /\ Precede(s, written, top \cup InSeqs({c}) \cup InSeqs(Range(w)))
      /\ Precede(s, top, InSeqs({c}) \cup InSeqs(Range(w)))
  BY <1>2 DEF Stream, Precede
<1>8. \A d \in {c} \cup Range(w) : Ascending(s, d)
  BY <1>1 DEF Stream
<1>9. {s[u] : u \in 1 .. off} = written \cup top \cup InSeqs({c}) \cup InSeqs(Range(w))
  BY <1>2 DEF Stream
<1> QED
  BY <1>2, <1>5, <1>6, <1>7, <1>8, <1>9 DEF Stream, c, w

(* The next element of the buffer goes into the heap. *)
LEMMA StreamInstalled ==
    ASSUME NEW s, NEW off, NEW written, NEW c \in Seq(Elements), c # << >>, NEW waiting,
           Stream(s, off, written, {}, {c}, waiting)
    PROVE  Stream(s, off, written, {Head(c)}, {Tail(c)}, waiting)
<1> DEFINE h == Head(c)
           d == Tail(c)
           W == InSeqs(Range(waiting))
<1>1. Range(c) = {h} \cup Range(d)
  BY HeadAndTail
<1>2. InSeqs({c}) = Range(c) /\ InSeqs({d}) = Range(d)
  BY InSeqsParts
<1>3. Ascending(s, c)
  BY DEF Stream
<1>4. Ascending(s, d) /\ Precede(s, {h}, Range(d))
  BY <1>3, AscendingTail
<1> HIDE DEF h, d
<1>5. /\ Precede(s, written, {} \cup InSeqs({c}) \cup W)
      /\ Precede(s, InSeqs({c}), W)
      /\ {s[u] : u \in 1 .. off} = written \cup {} \cup InSeqs({c}) \cup W
  BY DEF Stream
<1>6. /\ \A m, n \in DOMAIN waiting : m < n => Precede(s, Range(waiting[m]), Range(waiting[n]))
      /\ \A e \in {d} \cup Range(waiting) : Ascending(s, e)
  BY <1>4 DEF Stream
<1> HIDE DEF W
<1>7. InSeqs({c}) = {h} \cup InSeqs({d})
  BY <1>1, <1>2
<1>8. /\ Precede(s, written, {h} \cup InSeqs({d}) \cup W)
      /\ Precede(s, {h}, InSeqs({d}) \cup W)
      /\ Precede(s, InSeqs({d}), W)
      /\ {s[u] : u \in 1 .. off} = written \cup {h} \cup InSeqs({d}) \cup W
  BY <1>2, <1>4, <1>5, <1>7 DEF Precede
<1> QED
  BY <1>6, <1>8 DEF Stream, h, d, W

(* The top of the heap goes into the run. *)
LEMMA StreamEmitted ==
    ASSUME NEW s, NEW off, NEW written, NEW x, NEW held, NEW waiting,
           Stream(s, off, written, {x}, held, waiting)
    PROVE  Stream(s, off, written \cup {x}, {}, held, waiting)
BY DEF Stream, Precede

(* An empty buffer goes back to the pool. *)
LEMMA StreamReturned ==
    ASSUME NEW s, NEW off, NEW written, NEW top, NEW waiting,
           Stream(s, off, written, top, {<< >>}, waiting)
    PROVE  Stream(s, off, written, top, {}, waiting)
<1>1. InSeqs({<< >>}) = {} /\ InSeqs({}) = {}
  BY DEF InSeqs, Range
<1> QED
  BY <1>1 DEF Stream, Precede


----------------------------------------------------------------------------
(* Where the elements of a source are *)

LEMMA StreamSame ==
    ASSUME NEW q, StreamInv(q), Source(q)' = Source(q), Off(q)' = Off(q),
           EmittedOf(q)' = EmittedOf(q), InHeap(q)' = InHeap(q), InHand(q)' = InHand(q),
           Waiting(q)' = Waiting(q)
    PROVE  StreamInv(q)'
BY DEF StreamInv

LEMMA WhereBuffersAre ==
    ASSUME TypeOK, InOnePlace, NEW q \in Queues
    PROVE  /\ \A n \in DOMAIN queue[q] : queue[q][n] \in Buffers /\ At(queue[q][n], "queue", q, n)
           /\ \A b \in HandBuffers(q) : /\ b \in Buffers
                                        /\ \/ At(b, "current", q, 0)
                                           \/ At(b, "taken", 0, 0) /\ q = i
<1>1. queue[q] \in Seq(Buffers)
  BY DEF TypeOK
<1> QED
  BY <1>1 DEF At, HandBuffers

(* What the input thread holds is on no source's way, and what is on one way is   *)
(* not on another.                                                                *)
LEMMA WaysApart ==
    ASSUME TypeOK, InOnePlace, NEW q \in Queues
    PROVE  /\ hand # Null => /\ hand \notin HandBuffers(q)
                             /\ \A n \in DOMAIN queue[q] : queue[q][n] # hand
           /\ \A r \in Queues : \A b \in HandBuffers(r) :
                 /\ \A n \in DOMAIN queue[q] : queue[q][n] # b
                 /\ q # r => b \notin HandBuffers(q)
<1>1. hand # Null => hand \in Buffers /\ At(hand, "hand", 0, 0)
  BY DEF TypeOK, At
<1>2. /\ \A n \in DOMAIN queue[q] : queue[q][n] \in Buffers /\ At(queue[q][n], "queue", q, n)
      /\ \A b \in HandBuffers(q) : /\ b \in Buffers
                                   /\ \/ At(b, "current", q, 0)
                                      \/ At(b, "taken", 0, 0) /\ q = i
  BY WhereBuffersAre
<1>3. ASSUME NEW r \in Queues, NEW b \in HandBuffers(r)
      PROVE  b \in Buffers /\ (At(b, "current", r, 0) \/ (At(b, "taken", 0, 0) /\ r = i))
  BY WhereBuffersAre
<1> QED
  BY <1>1, <1>2, <1>3 DEF InOnePlace

LEMMA WayKept ==
    ASSUME NEW q, queue'[q] = queue[q], HandBuffers(q)' = HandBuffers(q),
           \A n \in DOMAIN queue[q] : content'[queue[q][n]] = content[queue[q][n]],
           \A b \in HandBuffers(q) : content'[b] = content[b]
    PROVE  InHand(q)' = InHand(q) /\ Waiting(q)' = Waiting(q)
BY DEF InHand, Waiting, Contents

(* Where the merge thread has no buffer of a source in its hand. *)
LEMMA NoBufferInHand ==
    ASSUME TypeOK, NEW q \in Queues, current_buffers[q] = Null \/ (mpc = "clear" /\ q = src),
           taken = Null \/ i # q
    PROVE  HandBuffers(q) = {} /\ InHand(q) = {}
<1>1. Null \notin Buffers
  BY ConstantFacts
<1> QED
  BY <1>1 DEF HandBuffers, InHand

(* ... and where it has one. *)
LEMMA CurrentInHand ==
    ASSUME TypeOK, NEW q \in Queues, current_buffers[q] # Null, ~(mpc = "clear" /\ q = src),
           taken = Null
    PROVE  /\ HandBuffers(q) = {current_buffers[q]} /\ InHand(q) = {content[current_buffers[q]]}
           /\ current_buffers[q] \in Buffers
<1>1. current_buffers[q] \in Buffers /\ Null \notin Buffers
  BY ConstantFacts DEF TypeOK
<1> QED
  BY <1>1 DEF HandBuffers, InHand

(* The new run and the output buffers change when an element is popped. *)
LEMMA RunKept ==
    ASSUME TypeOK, RoundInv, FileInv, IdleInv, Input \/ (Merge /\ ~Emit) \/ Writer, ~NextRound,
           mpc \notin Ending
    PROVE  InRun' = InRun
<1>1. CASE UNCHANGED <<runs, out_buffer>> /\ (mpc' \in Merging \cup {"next"} <=> mpc \in Merging \cup {"next"})
  BY <1>1 DEF InRun, RunCount
<1>2. CASE Input
  BY <1>1, <1>2, InputFrame
<1>3. CASE Writer
  <2>1. wpc = "loop"
    BY DEF RoundInv, Ending
  <2>2. UNCHANGED <<runs, out_buffer, mpc>>
    BY <1>3, <2>1 DEF Writer, WriterClear, WriterLeave, WriterDrain, writerKeeps, runVars,
                     mergeVars, outVars
  <2> QED
    BY <1>1, <2>2
<1>4. CASE BeginRun
  <2>1. runs' = Append(runs, << >>) /\ out_buffer' = out_buffer /\ mpc = "begin" /\ mpc' = "scan"
    BY <1>4 DEF BeginRun, outVars
  <2>2. runs \in Seq(Seq(Elements))
    BY DEF TypeOK
  <2>3. runs'[Len(runs')] = << >>
    BY <2>1, <2>2
  <2>4. out_buffer[0] = << >> /\ out_buffer[1] = << >>
    BY <2>1 DEF IdleInv, NoCurrent, Merging, Outs
  <2>5. Range(<< >>) = {}
    BY DEF Range
  <2>6. InRun = {}
    BY <2>1 DEF InRun, Merging
  <2>7. InRun' = Range(runs'[Len(runs')]) \cup Range(out_buffer[0]) \cup Range(out_buffer[1])
    BY <2>1 DEF InRun, Merging, RunCount
  <2> QED
    BY <2>3, <2>4, <2>5, <2>6, <2>7
<1>5. CASE EndRun
  <2>1. /\ mpc = "await_writer" /\ mpc' = "next" /\ runs' = AppendToRun(FlushOrder)
        /\ out_buffer' = AfterFlush
    BY <1>5 DEF EndRun
  <2> DEFINE a == runs[RunCount]  b == out_buffer[0]  c == out_buffer[1]
  <2>2. a \in Seq(Elements) /\ b \in Seq(Elements) /\ c \in Seq(Elements) /\ 0 \in Outs /\ 1 \in Outs
    BY <2>1, WritingRun DEF TypeOK, Merging, Outs
  <2>3. b \o c \in Seq(Elements)
    BY <2>2
  <2>4. RunCount' = RunCount /\ runs'[RunCount] = a \o (b \o c)
    BY <2>1, <2>3, AppendToRunType DEF Merging, FlushOrder, RunCount
  <2>5. out_buffer'[0] = << >> /\ out_buffer'[1] = << >>
    BY <2>1, <2>2 DEF AfterFlush
  <2>6. InRun = Range(a) \cup Range(b) \cup Range(c)
    BY <2>1 DEF InRun, Merging
  <2>7. InRun' = Range(runs'[RunCount]) \cup Range(<< >>) \cup Range(<< >>)
    BY <2>1, <2>4, <2>5 DEF InRun
  <2> HIDE DEF a, b, c
  <2>8. Range(a \o (b \o c)) = Range(a) \cup Range(b) \cup Range(c)
    BY <2>2, RangeOfConcat
  <2>9. Range(<< >>) = {}
    BY DEF Range
  <2> QED
    BY <2>4, <2>6, <2>7, <2>8, <2>9
<1>6. CASE Merge /\ ~Emit /\ ~BeginRun /\ ~EndRun
  <2>1. UNCHANGED <<runs, out_buffer>>
    BY <1>6, ZenonT(60) DEF Merge, AwaitInited, ReturnLeft, Take, Install, BeginRun, ScanEmpty, ScanNext,
                AwaitInput, Emit, GiveBack, ClearCurrent, Drained, FinishRound, EndRun, NextRound,
                SetDone, runVars, outVars
  <2>2. mpc # "begin" \/ mpc' # "scan"
    BY <1>6, ZenonT(60) DEF Merge, AwaitInited, ReturnLeft, Take, Install, BeginRun, ScanEmpty, ScanNext,
                AwaitInput, Emit, GiveBack, ClearCurrent, Drained, FinishRound, EndRun, NextRound,
                SetDone
  <2>3. mpc' \in Merging \cup {"next"} <=> mpc \in Merging \cup {"next"}
    <3>1. \/ mpc = "await" /\ mpc' = "clean"
          \/ mpc \in Preparing /\ mpc' \in Preparing
          \/ mpc \in Merging /\ mpc' \in Merging
          \/ mpc = "await_writer" /\ mpc' = "next"
      BY <1>6, <2>2, MergeStages DEF Ending
    <3> QED
      BY <3>1 DEF Merging, Preparing
  <2> QED
    BY <1>1, <2>1, <2>3, SMTT(60)
<1> QED
  BY <1>2, <1>3, <1>4, <1>5, <1>6


(* What the input thread leaves alone. *)
LEMMA InputMoves ==
    ASSUME TypeOK, RoundInv, FileInv, LoadInv, Input, NEW q \in 1 .. queue_num, Fresh(q),
           ~(AddFirst /\ q = slot), ~(AddNext /\ q = min_index)
    PROVE  /\ queue'[q] = queue[q] /\ Off(q)' = Off(q)
           /\ \A b \in Buffers : b # hand => content'[b] = content[b]
<1>1. /\ queue \in [Queues -> Seq(Buffers)] /\ content \in [Buffers -> Seq(Elements)]
      /\ run_size \in [Queues -> Nat] /\ run_offsets \in [Queues -> Nat]
  BY DEF TypeOK
<1>2. q \in Queues /\ mpc \notin Ending
  BY MergeRound DEF Fresh
<1>3. inited \/ HasFirst(q)
  BY DEF Fresh
<1>4. ASSUME UNCHANGED <<queue, content, run_size, run_offsets, inited>>
      PROVE  /\ queue'[q] = queue[q] /\ Off(q)' = Off(q)
             /\ \A b \in Buffers : b # hand => content'[b] = content[b]
  BY <1>4 DEF Off
<1>5. CASE AwaitRound
  <2>1. ~inited /\ ipc = "round"
    BY <1>5 DEF AwaitRound, LastRoundOver
  <2> QED
    BY <1>3, <2>1 DEF HasFirst, Refilling
<1>6. CASE ResetQueue
  <2>1. /\ ipc = "reset" /\ queue' = [queue EXCEPT ![slot] = << >>]
        /\ UNCHANGED <<content, run_size, run_offsets, inited>>
    BY <1>6 DEF ResetQueue, poolVars, offsetVars
  <2>2. ~inited
    BY <2>1 DEF RoundInv, InputLoading
  <2>3. q \in 1 .. slot - 1
    BY <1>3, <2>1, <2>2 DEF HasFirst, Refilling
  <2>4. q # slot
    <3>1. slot \in Queues
      BY DEF TypeOK
    <3>2. slot \in Nat
      BY <3>1, ConstantFacts
    <3> QED
      BY <2>3, <3>2
  <2> QED
    BY <1>1, <1>2, <2>1, <2>4 DEF Off
<1>7. CASE GetBuffer \/ ScanCurrent \/ ScanQueue
  BY <1>4, <1>7 DEF GetBuffer, ScanCurrent, ScanQueue, poolVars, queueVars, offsetVars
<1>8. CASE AddFirst
  <2>1. /\ content' = [content EXCEPT ![hand] = content'[hand]]
        /\ queue' = [queue EXCEPT ![slot] = Append(@, hand)]
        /\ run_size' = [run_size EXCEPT ![slot] = run_size'[slot]]
        /\ UNCHANGED <<run_offsets, inited>>
    <3>1. hand \in Buffers /\ slot \in Queues
      BY <1>8, FirstChunk DEF AddFirst
    <3> QED
      BY <1>1, <1>8, <3>1 DEF AddFirst, Enqueue, offsetVars
  <2> QED
    BY <1>1, <1>2, <1>8, <2>1 DEF Off
<1>9. CASE CountFirst \/ CountNext
  BY <1>4, <1>9 DEF CountFirst, CountNext, poolVars, offsetVars
<1>10. CASE PublishRound
  <2>1. /\ ipc = "publish" /\ inited' = TRUE /\ UNCHANGED <<queue, content, run_size>>
        /\ run_offsets' = [p \in Queues |->
              IF p \in DOMAIN Task THEN Smaller(run_size[p], CHUNK) ELSE run_offsets[p]]
    BY <1>10 DEF PublishRound, poolVars, queueVars
  <2>2. ~inited
    BY <2>1 DEF RoundInv, InputLoading
  <2>3. q \in DOMAIN Task
    BY <1>3, <2>1, <2>2 DEF HasFirst
  <2> QED
    BY <1>2, <2>1, <2>2, <2>3 DEF Off
<1>11. CASE AddNext
  <2>1. /\ content' = [content EXCEPT ![hand] = content'[hand]]
        /\ queue' = [queue EXCEPT ![min_index] = Append(@, hand)]
        /\ run_offsets' = [run_offsets EXCEPT ![min_index] = NextOffset(min_index)]
        /\ UNCHANGED <<run_size, inited>> /\ ipc = "add"
    <3>1. hand \in Buffers
      BY <1>11, NextChunk DEF AddNext
    <3> QED
      BY <1>1, <1>11, <3>1 DEF AddNext, Enqueue
  <2>2. inited
    BY <2>1 DEF RoundInv, Refilling
  <2> QED
    BY <1>1, <1>2, <1>11, <2>1, <2>2 DEF Off
<1> QED
  BY <1>5, <1>6, <1>7, <1>8, <1>9, <1>10, <1>11 DEF Input

(* The source of a queue is the run that the input thread reads for it. *)
LEMMA SourceOfTask ==
    ASSUME TypeOK, RoundInv, FileInv, ipc # "round", NEW q \in DOMAIN Task
    PROVE  /\ mpc \notin Ending /\ q \in 1 .. queue_num /\ q \in Queues
           /\ Source(q) = runs[Task[q] + 1]
<1>1. /\ round = cur_task /\ round \in 1 .. Len(Rounds) /\ Task \in Seq(Nat) /\ q \in Queues
  BY InputRound
<1>2. cur_task # Len(Rounds) + 1
  BY <1>1, ConstantFacts
<1> QED
  BY <1>1, <1>2 DEF RoundInv, Task, queue_num, Source

(* The first chunk of a round. *)
LEMMA StreamBegins ==
    ASSUME TypeOK, RoundInv, FileInv, LoadInv, HeapInv, QueueInv, IdleInv, AddFirst
    PROVE  StreamInv(slot)'
<1> DEFINE s == Source(slot)
           count == Smaller(Len(s), CHUNK)
           c == Chunk(Task[slot], 0, count)
<1>1. /\ ipc = "init_add" /\ run_size' = [run_size EXCEPT ![slot] = Len(runs[Task[slot] + 1])]
      /\ content' = [content EXCEPT ![hand] = Chunk(Task[slot], 0, Smaller(Len(runs[Task[slot] + 1]), CHUNK))]
      /\ queue' = [queue EXCEPT ![slot] = Append(@, hand)] /\ UNCHANGED inited
  BY DEF AddFirst, Enqueue
<1>2. /\ slot \in DOMAIN Task /\ slot \in Queues /\ hand \in Buffers
      /\ Len(runs[Task[slot] + 1]) \in Nat \ {0}
  BY <1>1, FirstChunk
<1>3. mpc = "await" /\ ~inited
  BY <1>1 DEF RoundInv, InputLoading
<1>4. s = runs[Task[slot] + 1] /\ slot \in 1 .. queue_num /\ mpc \notin Ending
  BY <1>1, <1>2, SourceOfTask
<1>5. s \in Seq(Elements)
  BY <1>4, SourceFacts
<1>6. /\ Task[slot] \in Nat /\ Task[slot] < RunCount
  BY <1>1, <1>2, InputRound
<1>7. count \in Nat /\ 0 + count <= Len(s)
  BY <1>2, <1>4, ConstantFacts DEF Smaller
<1>8. /\ c \in Seq(Elements) /\ Len(c) = count
      /\ \A n \in 1 .. count : c[n] = s[0 + n]
  <2>1. runs \in Seq(Seq(Elements))
    BY DEF TypeOK
  <2> HIDE DEF count
  <2>2. 0 \in Nat /\ 0 + count <= Len(runs[Task[slot] + 1])
    BY <1>4, <1>7
  <2>3. /\ c \in Seq(Elements) /\ Len(c) = count
        /\ \A n \in 1 .. count : c[n] = runs[Task[slot] + 1][0 + n]
    BY <1>6, <1>7, <2>1, <2>2, ChunkFacts
  <2> QED
    BY <1>4, <2>3
<1>9. \A n \in 1 .. count : c[n] = s[n]
  BY <1>8
<1>10. content'[hand] = c /\ Source(slot)' = s /\ Off(slot)' = count
  <2>1. content'[hand] = c
    BY <1>1, <1>2, <1>4 DEF TypeOK
  <2>2. UNCHANGED <<runs, cur_task, CHUNK>>
    BY InputFrame DEF Input
  <2>3. UNCHANGED slot
    BY DEF AddFirst
  <2>4. Source(slot)' = s
    BY <2>2, <2>3 DEF Source
  <2>5. run_size'[slot] = Len(s)
    BY <1>1, <1>2, <1>4 DEF TypeOK
  <2>6. Off(slot)' = count
    BY <1>1, <1>3, <2>3, <2>5 DEF Off
  <2> QED
    BY <2>1, <2>4, <2>6
<1>11. UNCHANGED <<slot, mpc, pq, current_buffers, taken, i, src, out_buffer, runs>>
  BY InputFrame DEF Input, AddFirst
<1>12. EmittedOf(slot)' = {} /\ InHeap(slot)' = {} /\ InHand(slot)' = {}
  <2>1. InRun' = {}
    BY <1>3, <1>11 DEF InRun, Merging
  <2>2. pq' = {}
    BY <1>3, <1>11 DEF HeapInv
  <2>3. current_buffers'[slot] = Null /\ taken' = Null
    BY <1>2, <1>3, <1>11 DEF IdleInv, NoCurrent, QueueInv, Merging
  <2>4. HandBuffers(slot)' = {}
    <3>1. Null \notin Buffers
      BY ConstantFacts
    <3> QED
      BY <1>11, <2>3, <3>1 DEF HandBuffers
  <2> QED
    BY <2>1, <2>2, <2>4 DEF EmittedOf, InHeap, InHand
<1>13. Waiting(slot)' = << c >>
  <2>1. queue[slot] = << >>
    BY <1>1 DEF IdleInv, NoCurrent
  <2>2. queue'[slot] = << hand >>
    <3>1. queue'[slot] = Append(<< >>, hand)
      BY <1>1, <1>2, <2>1 DEF TypeOK
    <3>2. Append(<< >>, hand) = << hand >>
      OBVIOUS
    <3> QED
      BY <3>1, <3>2
  <2> DEFINE t == << hand >>
  <2>3. DOMAIN t = {1} /\ t[1] = hand
    OBVIOUS
  <2>4. Waiting(slot)' = Contents(content', t)
    BY <1>11, <2>2 DEF Waiting
  <2> HIDE DEF t, c
  <2>5. Contents(content', t) = [n \in {1} |-> c]
    BY <1>10, <2>3 DEF Contents
  <2>6. << c >> = [n \in {1} |-> c]
    OBVIOUS
  <2> QED
    BY <2>4, <2>5, <2>6
<1> HIDE DEF s, count, c
<1>14. Stream(s, count, {}, {}, {}, << c >>)
  BY <1>5, <1>7, <1>8, <1>9, FirstStream
<1> QED
  BY <1>10, <1>12, <1>13, <1>14 DEF StreamInv

(* A chunk of the refill loop. *)
LEMMA StreamGoesOn ==
    ASSUME TypeOK, RoundInv, FileInv, LoadInv, HeapInv, IdleInv, InOnePlace, AddNext,
           StreamInv(min_index)
    PROVE  StreamInv(min_index)'
<1> DEFINE q == min_index
           s == Source(q)
           off == run_offsets[q]
           count == ChunkSize(q)
           c == Chunk(Task[q], off, count)
<1>1. /\ ipc = "add" /\ content' = [content EXCEPT ![hand] = c]
      /\ run_offsets' = [run_offsets EXCEPT ![q] = NextOffset(q)]
      /\ queue' = [queue EXCEPT ![q] = Append(@, hand)]
      /\ UNCHANGED <<inited, min_index>>
  BY DEF AddNext, Enqueue, choiceVars
<1>2. /\ q \in DOMAIN Task /\ q \in Queues /\ hand \in Buffers /\ off \in Nat /\ count \in Nat \ {0}
      /\ NextOffset(q) \in Nat /\ NextOffset(q) <= run_size[q]
      /\ run_size[q] = Len(runs[Task[q] + 1])
      /\ c \in Seq(Elements) /\ Len(c) = count
  BY <1>1, NextChunk
<1>3. inited
  BY <1>1 DEF RoundInv, Refilling
<1>4. s = runs[Task[q] + 1] /\ q \in 1 .. queue_num /\ mpc \notin Ending
  BY <1>1, <1>2, SourceOfTask
<1>5. s \in Seq(Elements)
  BY <1>4, SourceFacts
<1>6. off + count <= Len(s) /\ NextOffset(q) = off + count
  BY <1>2, <1>4 DEF NextOffset
<1>7. \A n \in 1 .. count : c[n] = s[off + n]
  <2>1. runs \in Seq(Seq(Elements))
    BY DEF TypeOK
  <2>2. Task[q] \in Nat /\ Task[q] < RunCount
    BY <1>1, <1>2, InputRound
  <2>3. count \in Nat /\ off + count <= Len(runs[Task[q] + 1])
    BY <1>2, <1>4, <1>6
  <2>5. off \in Nat
    BY <1>2
  <2> HIDE DEF off, count
  <2>4. \A n \in 1 .. count : c[n] = runs[Task[q] + 1][off + n]
    BY <2>1, <2>2, <2>3, <2>5, ChunkFacts
  <2> QED
    BY <1>4, <2>4
<1>8. content'[hand] = c /\ \A b \in Buffers : b # hand => content'[b] = content[b]
  BY <1>1, <1>2 DEF TypeOK
<1>9. Source(q)' = s /\ Off(q)' = off + count /\ Off(q) = off
  <2>1. UNCHANGED <<runs, cur_task>>
    BY InputFrame DEF Input
  <2>2. run_offsets'[q] = off + count
    BY <1>1, <1>2, <1>6 DEF TypeOK
  <2> QED
    BY <1>1, <1>3, <2>1, <2>2 DEF Source, Off
<1>10. UNCHANGED <<mpc, pq, current_buffers, taken, i, src, out_buffer, runs>>
  BY InputFrame DEF Input
<1>11. hand # Null
  BY <1>2, ConstantFacts
<1>12. EmittedOf(q)' = EmittedOf(q) /\ InHeap(q)' = InHeap(q) /\ InHand(q)' = InHand(q)
  <2>1. EmittedOf(q)' = EmittedOf(q) /\ InHeap(q)' = InHeap(q)
    BY <1>1, <1>9, <1>10 DEF EmittedOf, InRun, RunCount, InHeap
  <2>2. HandBuffers(q)' = HandBuffers(q)
    BY <1>1, <1>10 DEF HandBuffers
  <2>3. \A b \in HandBuffers(q) : content'[b] = content[b]
    BY <1>2, <1>8, <1>11, WaysApart, WhereBuffersAre
  <2> QED
    BY <2>1, <2>2, <2>3 DEF InHand
<1>13. Waiting(q)' = Append(Waiting(q), c) /\ Waiting(q) \in Seq(Seq(Elements))
  <2> DEFINE t == queue[q]
  <2>1. /\ t \in Seq(Buffers) /\ content \in [Buffers -> Seq(Elements)]
        /\ content' \in [Buffers -> Seq(Elements)]
    BY <1>1, <1>2 DEF TypeOK
  <2>2. \A n \in DOMAIN t : t[n] \in Buffers /\ t[n] # hand
    BY <1>2, <1>11, WaysApart, WhereBuffersAre
  <2>3. queue'[q] = Append(t, hand)
    BY <1>1, <1>2 DEF TypeOK
  <2>4. Waiting(q)' = Contents(content', Append(t, hand)) /\ Waiting(q) = Contents(content, t)
    BY <1>1, <2>3 DEF Waiting
  <2> HIDE DEF t, c
  <2>5. Contents(content, t) = Contents(content', t)
    BY <1>8, <2>2 DEF Contents
  <2>6. /\ Contents(content', t) \in Seq(Seq(Elements))
        /\ Contents(content', Append(t, hand)) = Append(Contents(content', t), content'[hand])
    <3>1. content' \in [Buffers -> Seq(Elements)] /\ t \in Seq(Buffers) /\ hand \in Buffers
      BY <1>2, <2>1
    <3> QED
      BY <3>1, MapOfAppend
  <2> QED
    BY <1>8, <2>4, <2>5, <2>6
<1>14. Stream(s, off, EmittedOf(q), InHeap(q), InHand(q), Waiting(q))
  BY <1>9 DEF StreamInv
<1>15. UNCHANGED q
  BY <1>1
<1> HIDE DEF s, off, count, c, q
<1>16. Stream(s, off + count, EmittedOf(q), InHeap(q), InHand(q), Append(Waiting(q), c))
  <2>1. count \in Nat
    BY <1>2
  <2> QED
    BY <1>2, <1>5, <1>6, <1>7, <1>13, <1>14, <2>1, StreamGrows
<1>17. StreamInv(q)'
  BY <1>9, <1>12, <1>13, <1>15, <1>16 DEF StreamInv
<1> QED
  BY <1>17 DEF q

LEMMA StreamsInput ==
    ASSUME TypeOK, RoundInv, FileInv, LoadInv, ScanInv, HeapInv, QueueInv, RoundInv', InOnePlace,
           StreamsInv, IdleInv, Input, NEW q, Fresh(q)'
    PROVE  StreamInv(q)'
<1>1. /\ ~NextRound /\ mpc \notin Ending /\ q \in 1 .. queue_num
      /\ Fresh(q) \/ (AddFirst /\ q = slot)
  BY FreshStep
<1>2. q \in Queues /\ q \in 1 .. K
  <2>1. q \in Queues
    BY <1>1, MergeRound
  <2> QED
    BY <2>1, ConstantFacts
<1>3. CASE AddFirst /\ q = slot
  <2>1. slot' = slot
    BY <1>3 DEF AddFirst
  <2>2. StreamInv(slot)'
    BY <1>3, StreamBegins
  <2> QED
    BY <1>3, <2>1, <2>2
<1>4. CASE Fresh(q) /\ AddNext /\ q = min_index
  <2>1. StreamInv(min_index)
    BY <1>2, <1>4 DEF StreamsInv
  <2>2. StreamInv(min_index)' /\ min_index' = min_index
    BY <1>4, <2>1, StreamGoesOn DEF AddNext, choiceVars
  <2> QED
    BY <1>4, <2>2
<1>5. CASE Fresh(q) /\ ~(AddFirst /\ q = slot) /\ ~(AddNext /\ q = min_index)
  <2>1. StreamInv(q)
    BY <1>2, <1>5 DEF StreamsInv
  <2>2. /\ queue'[q] = queue[q] /\ Off(q)' = Off(q)
        /\ \A b \in Buffers : b # hand => content'[b] = content[b]
    BY <1>1, <1>5, InputMoves
  <2>3. Source(q)' = Source(q) /\ InRun' = InRun
    BY <1>1, SourceKept, RunKept
  <2>4. UNCHANGED <<mpc, pq, current_buffers, taken, i, src>>
    BY InputFrame
  <2>5. EmittedOf(q)' = EmittedOf(q) /\ InHeap(q)' = InHeap(q) /\ HandBuffers(q)' = HandBuffers(q)
    BY <2>3, <2>4 DEF EmittedOf, InHeap, HandBuffers
  <2>6. /\ \A n \in DOMAIN queue[q] : content'[queue[q][n]] = content[queue[q][n]]
        /\ \A b \in HandBuffers(q) : content'[b] = content[b]
    <3>1. hand = Null => \A b \in Buffers : b # hand
      BY ConstantFacts
    <3>2. /\ \A n \in DOMAIN queue[q] : queue[q][n] \in Buffers /\ queue[q][n] # hand
          /\ \A b \in HandBuffers(q) : b \in Buffers /\ b # hand
      BY <1>2, <3>1, WhereBuffersAre, WaysApart
    <3> QED
      BY <2>2, <3>2
  <2>7. InHand(q)' = InHand(q) /\ Waiting(q)' = Waiting(q)
    BY <2>2, <2>5, <2>6, WayKept
  <2> QED
    BY <2>1, <2>2, <2>3, <2>5, <2>7, StreamSame
<1> QED
  BY <1>1, <1>3, <1>4, <1>5


(* What the merge thread has in its hand is the same before and after.  *)
LEMMA HandKept ==
    ASSUME NEW q, current_buffers'[q] = current_buffers[q], i' = i \/ taken = Null, taken' = taken,
           (mpc = "clear" /\ q = src) <=> (mpc' = "clear" /\ q = src')
    PROVE  HandBuffers(q)' = HandBuffers(q)
<1>1. Null \notin Buffers
  BY ConstantFacts
<1> QED
  BY <1>1 DEF HandBuffers

LEMMA StreamsWriter ==
    ASSUME TypeOK, RoundInv, FileInv, IdleInv, HeapInv, Writer, NEW q \in 1 .. queue_num,
           mpc \notin Ending, StreamInv(q)
    PROVE  StreamInv(q)'
<1>1. UNCHANGED <<pool, content, queue, run_size, current_buffers, inited, run_offsets, mpc, i,
                  pq, taken, src>>
  BY WriterFrame
<1>2. ~NextRound
  <2>1. NextRound => cur_task' = cur_task + 1
    BY DEF NextRound
  <2>2. cur_task' = cur_task /\ cur_task \in Nat
    BY WriterFrame DEF TypeOK
  <2> QED
    BY <2>1, <2>2
<1>3. Source(q)' = Source(q) /\ InRun' = InRun
  BY <1>2, SourceKept, RunKept
<1> QED
  BY <1>1, <1>3, StreamSame DEF Off, EmittedOf, InHeap, InHand, HandBuffers, Waiting, Contents

(* What the merge thread never touches. *)
LEMMA MergeKeepsOffsets ==
    ASSUME TypeOK, RoundInv, FileInv, HeapInv, IdleInv, Merge, ~NextRound, mpc \notin Ending,
           NEW q \in 1 .. queue_num
    PROVE  /\ Source(q)' = Source(q) /\ Off(q)' = Off(q)
           /\ ~Emit => EmittedOf(q)' = EmittedOf(q)
           /\ q \in Queues
<1>1. Source(q)' = Source(q) /\ q \in Queues
  BY SourceKept, MergeRound
<1>2. ~Emit => InRun' = InRun
  BY RunKept
<1>3. UNCHANGED <<run_offsets, run_size, inited>>
  BY MergeFrame, MergeStages
<1> QED
  BY <1>1, <1>2, <1>3 DEF Off, EmittedOf

(* Steps of the merge thread that move no buffer and no element of a source. *)
LEMMA StreamsQuiet ==
    ASSUME TypeOK, RoundInv, FileInv, HeapInv, QueueInv, IdleInv, Merge, ~NextRound,
           mpc \notin Ending, NEW q \in 1 .. queue_num, StreamInv(q),
           UNCHANGED <<queue, content, pq, taken>>, mpc \notin {"heap_install", "install"}, ~Emit,
           \/ /\ current_buffers'[q] = current_buffers[q]
              /\ (mpc = "clear" /\ q = src) <=> (mpc' = "clear" /\ q = src')
           \/ mpc = "clear" /\ q = src /\ current_buffers'[q] = Null
    PROVE  StreamInv(q)'
<1>1. Source(q)' = Source(q) /\ Off(q)' = Off(q) /\ EmittedOf(q)' = EmittedOf(q) /\ q \in Queues
  BY MergeKeepsOffsets
<1>2. taken = Null
  BY DEF QueueInv
<1>3. HandBuffers(q)' = HandBuffers(q)
  <2>1. CASE /\ current_buffers'[q] = current_buffers[q]
             /\ (mpc = "clear" /\ q = src) <=> (mpc' = "clear" /\ q = src')
    BY <1>2, <2>1, HandKept
  <2>2. CASE mpc = "clear" /\ q = src /\ current_buffers'[q] = Null
    <3>1. Null \notin Buffers
      BY ConstantFacts
    <3> QED
      BY <1>2, <2>2, <3>1 DEF HandBuffers
  <2> QED
    BY <2>1, <2>2
<1>4. InHand(q)' = InHand(q) /\ Waiting(q)' = Waiting(q)
  BY <1>3, WayKept
<1>5. InHeap(q)' = InHeap(q)
  BY DEF InHeap
<1> QED
  BY <1>1, <1>4, <1>5, StreamSame

(* An empty buffer leaves the hand of the merge thread. *)
LEMMA StreamsEmptied ==
    ASSUME TypeOK, RoundInv, FileInv, HeapInv, QueueInv, IdleInv, Merge, ~NextRound, ~Emit,
           mpc \notin Ending \cup {"heap_install", "install", "clear"},
           NEW q \in 1 .. queue_num, StreamInv(q), UNCHANGED <<queue, content, pq, taken>>,
           current_buffers[q] # Null, content[current_buffers[q]] = << >>,
           current_buffers'[q] = Null \/ (mpc' = "clear" /\ q = src')
    PROVE  StreamInv(q)'
<1>1. Source(q)' = Source(q) /\ Off(q)' = Off(q) /\ EmittedOf(q)' = EmittedOf(q) /\ q \in Queues
  BY MergeKeepsOffsets
<1>2. taken = Null
  BY DEF QueueInv
<1>3. InHand(q) = {<< >>}
  BY <1>1, <1>2, CurrentInHand
<1>4. InHand(q)' = {}
  <2>1. HandBuffers(q)' = {}
    <3>1. Null \notin Buffers
      BY ConstantFacts
    <3> QED
      BY <1>2, <3>1 DEF HandBuffers
  <2> QED
    BY <2>1 DEF InHand
<1>5. InHeap(q)' = InHeap(q) /\ Waiting(q)' = Waiting(q)
  BY DEF InHeap, Waiting, Contents
<1>6. Stream(Source(q), Off(q), EmittedOf(q), InHeap(q), {<< >>}, Waiting(q))
  BY <1>3 DEF StreamInv
<1>7. Stream(Source(q), Off(q), EmittedOf(q), InHeap(q), {}, Waiting(q))
  BY <1>6, StreamReturned
<1> QED
  BY <1>1, <1>4, <1>5, <1>7 DEF StreamInv

LEMMA StreamsTake ==
    ASSUME TypeOK, RoundInv, FileInv, ScanInv, HeapInv, QueueInv, IdleInv, Take,
           NEW q \in 1 .. queue_num, StreamInv(q)
    PROVE  StreamInv(q)'
<1>1. /\ mpc \in {"heap_take", "take"} /\ UNCHANGED <<i, content, pq, current_buffers>>
      /\ mpc' # "clear"
  BY DEF Take, poolVars
<1>2. Merge /\ ~NextRound /\ ~Emit /\ mpc \notin Ending
  BY <1>1 DEF Merge, NextRound, Emit, Ending
<1>3. /\ queue[i] # << >> /\ Head(queue[i]) \in Buffers
      /\ taken' = Head(queue[i]) /\ queue' = [queue EXCEPT ![i] = Tail(queue[i])]
  BY <1>1, NextBuffer DEF Take, Empty
<1>4. Source(q)' = Source(q) /\ Off(q)' = Off(q) /\ EmittedOf(q)' = EmittedOf(q) /\ q \in Queues
  BY <1>2, MergeKeepsOffsets
<1>5. InHeap(q)' = InHeap(q)
  BY <1>1 DEF InHeap
<1>6. taken = Null /\ i \in Queues /\ queue \in [Queues -> Seq(Buffers)]
      /\ content \in [Buffers -> Seq(Elements)] /\ Null \notin Buffers
  BY <1>1, ConstantFacts DEF QueueInv, TypeOK
<1>7. CASE q # i
  <2>1. queue'[q] = queue[q]
    BY <1>3, <1>4, <1>6, <1>7
  <2>2. HandBuffers(q)' = HandBuffers(q)
    BY <1>1, <1>6, <1>7 DEF HandBuffers
  <2>3. InHand(q)' = InHand(q) /\ Waiting(q)' = Waiting(q)
    BY <1>1, <2>1, <2>2, WayKept
  <2> QED
    BY <1>4, <1>5, <2>3, StreamSame
<1>8. CASE q = i
  <2> DEFINE t == queue[i]
  <2>1. current_buffers[i] = Null
    <3>1. i \in i .. K
      BY <1>6, ConstantFacts
    <3> QED
      BY <1>1, <3>1 DEF IdleInv, NoCurrent, HeapInv
  <2>2. InHand(q) = {}
    BY <1>6, <1>8, <2>1, NoBufferInHand
  <2>3. InHand(q)' = {content[Head(t)]}
    <3>1. HandBuffers(q)' = {Head(t)}
      BY <1>1, <1>3, <1>6, <1>8, <2>1 DEF HandBuffers
    <3> QED
      BY <1>1, <3>1 DEF InHand
  <2>4. Waiting(q) = Contents(content, t) /\ Waiting(q)' = Contents(content, Tail(t))
    BY <1>1, <1>3, <1>6, <1>8 DEF Waiting
  <2>5. t \in Seq(Buffers) /\ t # << >>
    BY <1>3, <1>6
  <2> HIDE DEF t
  <2>6. /\ Contents(content, t) \in Seq(Seq(Elements)) /\ Contents(content, t) # << >>
        /\ Head(Contents(content, t)) = content[Head(t)]
        /\ Contents(content, Tail(t)) = Tail(Contents(content, t))
    BY <1>6, <2>5, MapOfTail
  <2> DEFINE w == Contents(content, t)
  <2>7. w \in Seq(Seq(Elements)) /\ w # << >>
        /\ Stream(Source(q), Off(q), EmittedOf(q), InHeap(q), {}, w)
    BY <2>2, <2>4, <2>6 DEF StreamInv
  <2>8. InHand(q)' = {Head(w)} /\ Waiting(q)' = Tail(w)
    BY <2>3, <2>4, <2>6
  <2> HIDE DEF w
  <2>9. Stream(Source(q), Off(q), EmittedOf(q), InHeap(q), {Head(w)}, Tail(w))
    BY <2>7, StreamTaken
  <2> QED
    BY <1>4, <1>5, <2>8, <2>9 DEF StreamInv
<1> QED
  BY <1>7, <1>8

LEMMA StreamsInstall ==
    ASSUME TypeOK, RoundInv, FileInv, ScanInv, HeapInv, QueueInv, IdleInv, InOnePlace, Install,
           NEW q \in 1 .. queue_num, StreamInv(q)
    PROVE  StreamInv(q)'
<1>1. /\ mpc \in {"heap_install", "install"} /\ mpc' # "clear"
      /\ current_buffers' = [current_buffers EXCEPT ![i] = taken] /\ taken' = Null
      /\ UNCHANGED queue
  BY DEF Install, ToNextQueue
<1>2. Merge /\ ~NextRound /\ ~Emit /\ mpc \notin Ending
  BY <1>1 DEF Merge, NextRound, Emit, Ending
<1>3. taken # Null /\ taken \in Buffers /\ content[taken] # << >>
  BY <1>1 DEF QueueInv, TypeOK
<1>4. /\ pq' = pq \cup {<<Head(content[taken]), i>>}
      /\ content' = [content EXCEPT ![taken] = Tail(content[taken])]
  BY <1>3 DEF Install
<1>5. Source(q)' = Source(q) /\ Off(q)' = Off(q) /\ EmittedOf(q)' = EmittedOf(q) /\ q \in Queues
  BY <1>2, MergeKeepsOffsets
<1>6. /\ i \in Queues /\ current_buffers \in [Queues -> Buffers \cup {Null}]
      /\ content \in [Buffers -> Seq(Elements)] /\ Null \notin Buffers
  BY ConstantFacts DEF TypeOK
<1>7. current_buffers[i] = Null
  <2>1. i \in i .. K
    BY <1>6, ConstantFacts
  <2> QED
    BY <1>1, <2>1 DEF IdleInv, NoCurrent, HeapInv
<1>8. taken \in HandBuffers(i)
  BY <1>3 DEF HandBuffers
<1>9. \A n \in DOMAIN queue[q] : queue[q][n] \in Buffers /\ queue[q][n] # taken
  BY <1>5, <1>6, <1>8, WaysApart, WhereBuffersAre
<1>10. Waiting(q)' = Waiting(q)
  BY <1>1, <1>4, <1>6, <1>9 DEF Waiting, Contents
<1>11. CASE q # i
  <2>1. InHeap(q)' = InHeap(q)
    BY <1>4, <1>11 DEF InHeap
  <2>2. HandBuffers(q)' = HandBuffers(q)
    BY <1>1, <1>5, <1>6, <1>11 DEF HandBuffers
  <2>3. \A b \in HandBuffers(q) : b \in Buffers /\ b # taken
    BY <1>5, <1>6, <1>8, <1>11, WaysApart, WhereBuffersAre
  <2>4. InHand(q)' = InHand(q)
    BY <1>4, <1>6, <2>2, <2>3 DEF InHand
  <2> QED
    BY <1>5, <1>10, <2>1, <2>4, StreamSame
<1>12. CASE q = i
  <2> DEFINE c == content[taken]
  <2>9. \A e \in pq : e[2] # i
    BY <1>7 DEF HeapInv
  <2>1. InHeap(q) = {}
    BY <1>12, <2>9 DEF InHeap
  <2>2. InHeap(q)' = {Head(c)}
    <3>1. InHeap(q)' = {e[1] : e \in {f \in pq' : f[2] = q}}
      BY DEF InHeap
    <3> DEFINE x == <<Head(c), i>>
    <3>2. x[1] = Head(c) /\ x[2] = i /\ pq' = pq \cup {x}
      BY <1>4
    <3> HIDE DEF x
    <3>3. {f \in pq' : f[2] = q} = {x}
      BY <1>12, <2>9, <3>2
    <3> QED
      BY <3>1, <3>2, <3>3
  <2>3. InHand(q) = {c}
    <3>1. HandBuffers(q) = {taken}
      BY <1>1, <1>3, <1>6, <1>7, <1>12 DEF HandBuffers
    <3> QED
      BY <3>1 DEF InHand
  <2>4. InHand(q)' = {Tail(c)}
    <3>1. current_buffers'[q] = taken
      BY <1>1, <1>6, <1>12
    <3>2. HandBuffers(q)' = {taken}
      <4>1. ~(mpc' = "clear" /\ q = src') /\ taken' = Null
        BY <1>1
      <4> QED
        BY <1>3, <1>6, <3>1, <4>1 DEF HandBuffers
    <3>3. content'[taken] = Tail(c)
      BY <1>3, <1>4, <1>6
    <3> DEFINE B == HandBuffers(q)'
               f == content'
    <3>4. InHand(q)' = {f[b] : b \in B}
      BY DEF InHand
    <3> HIDE DEF B, f
    <3>5. {f[b] : b \in B} = {f[taken]}
      BY <3>2 DEF B
    <3> QED
      BY <3>3, <3>4, <3>5 DEF f
  <2>5. c \in Seq(Elements) /\ c # << >>
        /\ Stream(Source(q), Off(q), EmittedOf(q), {}, {c}, Waiting(q))
    BY <1>3, <1>6, <2>1, <2>3 DEF StreamInv
  <2> HIDE DEF c
  <2>6. Stream(Source(q), Off(q), EmittedOf(q), {Head(c)}, {Tail(c)}, Waiting(q))
    BY <2>5, StreamInstalled
  <2> QED
    BY <1>5, <1>10, <2>2, <2>4, <2>6 DEF StreamInv
<1> QED
  BY <1>11, <1>12


(* The element e of the heap is popped. *)
Pops(e) ==
    LET b == current_buffers[e[2]]
    IN
    /\ mpc = "drain" /\ e \in pq
    /\ runs' = AppendToRun(Written(e[1]))
    /\ out_buffer' = [out_buffer EXCEPT ![cur_out] = Kept(e[1])]
    /\ UNCHANGED <<queue, current_buffers, taken, i>>
    /\ \/ /\ content[b] # << >> /\ mpc' = "drain"
          /\ pq' = (pq \ {e}) \cup {<<Head(content[b]), e[2]>>}
          /\ content' = [content EXCEPT ![b] = Tail(content[b])]
       \/ /\ content[b] = << >> /\ mpc' = "give_back" /\ src' = e[2]
          /\ pq' = pq \ {e} /\ content' = content

LEMMA EmitPops ==
    ASSUME Emit
    PROVE  \E e \in pq : Pops(e)
<1>1. PICK e \in pq :
          LET b == current_buffers[e[2]]
          IN
          /\ runs' = AppendToRun(Written(e[1]))
          /\ out_buffer' = [out_buffer EXCEPT ![cur_out] = Kept(e[1])]
          /\ src' = e[2]
          /\ IF HasMore(b)
             THEN /\ pq' = (pq \ {e}) \cup {<<Head(content[b]), e[2]>>}
                  /\ content' = [content EXCEPT ![b] = Tail(content[b])]
                  /\ mpc' = "drain"
             ELSE /\ pq' = pq \ {e}
                  /\ mpc' = "give_back"
                  /\ UNCHANGED content
  BY DEF Emit
<1>2. mpc = "drain" /\ UNCHANGED <<queue, current_buffers, taken, i>>
  BY DEF Emit, scanVars
<1>3. Pops(e)
  BY <1>1, <1>2 DEF Pops, HasMore
<1> QED
  BY <1>3

(* The element goes to the output buffer, or with what is there to the run.       *)
LEMMA PoppedPlace ==
    ASSUME TypeOK, FileInv, HeapInv, NEW e \in pq, Pops(e)
    PROVE  /\ cur_out \in Outs /\ RunCount' = RunCount
           /\ runs[RunCount] \in Seq(Elements) /\ e[1] \in Elements
           /\ \A o \in Outs : out_buffer[o] \in Seq(Elements)
           /\ \A o \in Outs : o # cur_out => out_buffer'[o] = out_buffer[o]
           /\ \/ /\ runs'[RunCount] = runs[RunCount]
                 /\ out_buffer'[cur_out] = Append(out_buffer[cur_out], e[1])
              \/ /\ runs'[RunCount] = runs[RunCount] \o Append(out_buffer[cur_out], e[1])
                 /\ out_buffer'[cur_out] = << >>
<1>1. /\ mpc = "drain" /\ mpc \in Merging /\ runs' = AppendToRun(Written(e[1]))
      /\ out_buffer' = [out_buffer EXCEPT ![cur_out] = Kept(e[1])]
  BY DEF Pops, Merging
<1>2. /\ Written(e[1]) \in Seq(Elements) /\ cur_out \in Outs
  BY <1>1, EmitFacts
<1>3. /\ runs[RunCount] \in Seq(Elements)
      /\ Len(runs') = RunCount /\ runs'[RunCount] = runs[RunCount] \o Written(e[1])
  BY <1>1, <1>2, AppendToRunType, WritingRun
<1>4. /\ out_buffer \in [Outs -> Seq(Elements)] /\ e[1] \in Elements
  BY HeapSource DEF TypeOK
<1>5. /\ out_buffer'[cur_out] = Kept(e[1])
      /\ \A o \in Outs : o # cur_out => out_buffer'[o] = out_buffer[o]
  BY <1>1, <1>2, <1>4
<1>6. runs[RunCount] \o << >> = runs[RunCount]
  BY <1>3
<1>7. \/ Kept(e[1]) = << >> /\ Written(e[1]) = Append(out_buffer[cur_out], e[1])
      \/ Kept(e[1]) = Append(out_buffer[cur_out], e[1]) /\ Written(e[1]) = << >>
  BY DEF Kept, Written, Added
<1> QED
  BY <1>2, <1>3, <1>4, <1>5, <1>6, <1>7 DEF RunCount

LEMMA RangeOfAppend ==
    ASSUME NEW S, NEW c \in Seq(S), NEW x \in S
    PROVE  Append(c, x) \in Seq(S) /\ Range(Append(c, x)) = Range(c) \cup {x}
<1> DEFINE y == << x >>
<1>1. /\ Append(c, x) = c \o y /\ y \in Seq(S) /\ Append(c, x) \in Seq(S)
      /\ DOMAIN y = {1} /\ y[1] = x
  OBVIOUS
<1> HIDE DEF y
<1>2. Range(y) = {x}
  BY <1>1 DEF Range
<1>3. Range(c \o y) = Range(c) \cup Range(y)
  BY <1>1, RangeOfConcat
<1> QED
  BY <1>1, <1>2, <1>3

LEMMA RunGetsOne ==
    ASSUME TypeOK, FileInv, HeapInv, NEW e \in pq, Pops(e)
    PROVE  InRun' = InRun \cup {e[1]}
<1> DEFINE a == runs[RunCount]
           x == e[1]
           c == out_buffer[cur_out]
           ca == Append(c, x)
<1>1. /\ cur_out \in Outs /\ RunCount' = RunCount /\ a \in Seq(Elements) /\ x \in Elements
      /\ c \in Seq(Elements)
      /\ \A o \in Outs : o # cur_out => out_buffer'[o] = out_buffer[o]
      /\ \/ runs'[RunCount] = a /\ out_buffer'[cur_out] = ca
         \/ runs'[RunCount] = a \o ca /\ out_buffer'[cur_out] = << >>
  BY PoppedPlace
<1>2. mpc \in Merging /\ mpc' \in Merging
  BY DEF Pops, Merging
<1>3. /\ InRun = Range(a) \cup Range(out_buffer[0]) \cup Range(out_buffer[1])
      /\ InRun' = Range(runs'[RunCount]) \cup Range(out_buffer'[0]) \cup Range(out_buffer'[1])
  BY <1>1, <1>2 DEF InRun
<1>4. DEFINE d == out_buffer[1 - cur_out]
<1>5. /\ InRun = Range(a) \cup Range(c) \cup Range(d)
      /\ InRun' = Range(runs'[RunCount]) \cup Range(out_buffer'[cur_out]) \cup Range(d)
  <2>1. CASE cur_out = 0
    <3>1. 1 - cur_out = 1 /\ out_buffer'[1] = out_buffer[1]
      BY <1>1, <2>1 DEF Outs
    <3> QED
      BY <1>3, <2>1, <3>1
  <2>2. CASE cur_out = 1
    <3>1. 1 - cur_out = 0 /\ out_buffer'[0] = out_buffer[0]
      BY <1>1, <2>2 DEF Outs
    <3> QED
      BY <1>3, <2>2, <3>1
  <2> QED
    BY <1>1, <2>1, <2>2 DEF Outs
<1> HIDE DEF a, x, c, d
<1>6. ca \in Seq(Elements) /\ Range(ca) = Range(c) \cup {x}
  BY <1>1, RangeOfAppend
<1> HIDE DEF ca
<1>7. Range(a \o ca) = Range(a) \cup Range(ca) /\ Range(<< >>) = {}
  <2>1. Range(<< >>) = {}
    BY DEF Range
  <2> QED
    BY <1>1, <1>6, <2>1, RangeOfConcat
<1>8. InRun' = InRun \cup {x}
  BY <1>1, <1>5, <1>6, <1>7
<1> QED
  BY <1>8 DEF x

(* All that has been loaded of a source is an element of it. *)
LEMMA StreamElements ==
    ASSUME TypeOK, RoundInv, FileInv, OffsetInv, inited, mpc \notin Ending,
           NEW q \in 1 .. queue_num, StreamInv(q)
    PROVE  /\ InHeap(q) \subseteq Range(Source(q))
           /\ InSeqs(InHand(q)) \subseteq Range(Source(q))
           /\ InSeqs(Range(Waiting(q))) \subseteq Range(Source(q))
<1>1. Off(q) \in Nat /\ Off(q) <= Len(Source(q)) /\ Source(q) \in Seq(Elements)
  <2>1. q \in Queues /\ Source(q) \in Seq(Elements)
    BY SourceFacts
  <2>2. run_offsets[q] \in Nat /\ run_offsets[q] <= run_size[q] /\ run_size[q] = Len(Source(q))
    BY <2>1 DEF OffsetInv, TypeOK
  <2> QED
    BY <2>1, <2>2 DEF Off
<1>2. \A u \in 1 .. Off(q) : u \in DOMAIN Source(q)
  BY <1>1
<1>3. {Source(q)[u] : u \in 1 .. Off(q)} \subseteq Range(Source(q))
  BY <1>2 DEF Range
<1> QED
  BY <1>3 DEF StreamInv, Stream

LEMMA StreamsEmit ==
    ASSUME TypeOK, RoundInv, FileInv, HeapInv, QueueInv, IdleInv, OffsetInv, LiveInv, InOnePlace,
           Emit, NEW q \in 1 .. queue_num, \A r \in 1 .. queue_num : StreamInv(r)
    PROVE  StreamInv(q)'
<1>1. PICK e \in pq : Pops(e)
  BY EmitPops
<1> DEFINE x == e[1]
           p == e[2]
           b == current_buffers[p]
           c == content[b]
<1>2. /\ mpc = "drain" /\ UNCHANGED <<queue, current_buffers, taken, i>> /\ taken = Null
      /\ mpc' # "clear" /\ mpc' \in {"drain", "give_back"}
      /\ \/ /\ c # << >> /\ pq' = (pq \ {e}) \cup {<<Head(c), p>>}
            /\ content' = [content EXCEPT ![b] = Tail(c)]
         \/ c = << >> /\ pq' = pq \ {e} /\ content' = content
  BY <1>1 DEF Pops, QueueInv
<1>3. Merge /\ ~NextRound /\ mpc \notin Ending /\ inited
  BY <1>2 DEF Merge, NextRound, Ending, RoundInv
<1>4. /\ p \in Queues /\ b \in Buffers /\ c \in Seq(Elements) /\ x \in Elements
      /\ content \in [Buffers -> Seq(Elements)] /\ b # Null
      /\ \A f \in pq : f[2] = p => f = e
      /\ e = <<x, p>>
  BY HeapSource, ConstantFacts DEF TypeOK, HeapInv
<1>5. p \in 1 .. queue_num
  <2>1. p \in Nat \ {0} /\ p <= queue_num
    BY <1>4, ConstantFacts DEF HeapInv
  <2>2. queue_num \in Nat
    BY <1>3, MergeRound
  <2> QED
    BY <2>1, <2>2
<1>6. Source(q)' = Source(q) /\ Off(q)' = Off(q) /\ q \in Queues
  BY <1>3, MergeKeepsOffsets
<1>7. InRun' = InRun \cup {x}
  BY <1>1, RunGetsOne
<1>8. x \in Range(Source(p))
  <2>1. x \in InHeap(p)
    BY DEF InHeap
  <2>2. StreamInv(p)
    BY <1>5
  <2> QED
    BY <1>3, <1>5, <2>1, <2>2, StreamElements
<1>9. b \in HandBuffers(p) /\ HandBuffers(p) = {b}
  BY <1>2, <1>4, CurrentInHand
<1>10. \A n \in DOMAIN queue[q] : queue[q][n] \in Buffers /\ queue[q][n] # b
  BY <1>4, <1>6, <1>9, WaysApart, WhereBuffersAre
<1>11. \A d \in Buffers : d # b => content'[d] = content[d]
  BY <1>2, <1>4
<1>12. Waiting(q)' = Waiting(q)
  BY <1>2, <1>10, <1>11 DEF Waiting, Contents
<1>13. HandBuffers(q)' = HandBuffers(q)
  BY <1>2, HandKept
<1>14. CASE q # p
  <2>1. InHeap(q)' = InHeap(q)
    <3>1. InHeap(q)' = {f[1] : f \in {g \in pq' : g[2] = q}}
      BY DEF InHeap
    <3> DEFINE new == <<Head(c), p>>
    <3>2. new[2] = p /\ (pq' = (pq \ {e}) \cup {new} \/ pq' = pq \ {e})
      BY <1>2
    <3> HIDE DEF new
    <3>3. {g \in pq' : g[2] = q} = {g \in pq : g[2] = q}
      BY <1>14, <3>2
    <3> QED
      BY <3>1, <3>3 DEF InHeap
  <2>2. EmittedOf(q)' = EmittedOf(q)
    <3>1. x \notin Range(Source(q))
      BY <1>2, <1>3, <1>5, <1>8, <1>14, SourcesDisjoint
    <3> QED
      BY <1>6, <1>7, <3>1 DEF EmittedOf
  <2>3. \A d \in HandBuffers(q) : d \in Buffers /\ d # b
    BY <1>4, <1>6, <1>9, <1>14, WaysApart, WhereBuffersAre
  <2>4. InHand(q)' = InHand(q)
    BY <1>11, <1>13, <2>3 DEF InHand
  <2> QED
    BY <1>6, <1>12, <2>1, <2>2, <2>4, StreamSame
<1>15. CASE q = p
  <2>1. InHeap(q) = {x}
    BY <1>4, <1>15 DEF InHeap
  <2>2. InHand(q) = {c}
    BY <1>9, <1>15 DEF InHand
  <2>3. EmittedOf(q)' = EmittedOf(q) \cup {x}
    BY <1>6, <1>7, <1>8, <1>15 DEF EmittedOf
  <2> DEFINE W == EmittedOf(q)
  <2>4. Stream(Source(q), Off(q), W, {x}, {c}, Waiting(q))
    BY <2>1, <2>2 DEF StreamInv
  <2>5. Stream(Source(q), Off(q), W \cup {x}, {}, {c}, Waiting(q))
    BY <2>4, StreamEmitted
  <2>6. InHand(q)' = {content'[b]}
    <3> DEFINE B == HandBuffers(q)'
               f == content'
    <3>1. InHand(q)' = {f[d] : d \in B}
      BY DEF InHand
    <3>2. B = {b}
      BY <1>9, <1>13, <1>15
    <3> HIDE DEF B, f
    <3>3. InHand(q)' = {f[b]}
      BY <3>1, <3>2
    <3> QED
      BY <3>3 DEF f
  <2>7. InHeap(q)' = {f[1] : f \in {g \in pq' : g[2] = q}}
    BY DEF InHeap
  <2>8. CASE c # << >>
    <3> DEFINE new == <<Head(c), p>>
    <3>1. new[1] = Head(c) /\ new[2] = p /\ pq' = (pq \ {e}) \cup {new}
      BY <1>2, <2>8
    <3> HIDE DEF new
    <3>2. {g \in pq' : g[2] = q} = {new}
      BY <1>4, <1>15, <3>1
    <3>3. InHeap(q)' = {Head(c)}
      BY <2>7, <3>1, <3>2
    <3>4. content'[b] = Tail(c)
      BY <1>2, <1>4, <2>8
    <3> DEFINE V == W \cup {x}
    <3>5. Stream(Source(q), Off(q), V, {}, {c}, Waiting(q))
      BY <2>5
    <3>6. c \in Seq(Elements)
      BY <1>4
    <3> HIDE DEF V, c
    <3>7. Stream(Source(q), Off(q), V, {Head(c)}, {Tail(c)}, Waiting(q))
      BY <2>8, <3>5, <3>6, StreamInstalled
    <3> QED
      BY <1>6, <1>12, <2>3, <2>6, <3>3, <3>4, <3>7 DEF StreamInv, V
  <2>9. CASE c = << >>
    <3>1. pq' = pq \ {e} /\ content' = content
      BY <1>2, <2>9
    <3>2. {g \in pq' : g[2] = q} = {}
      BY <1>4, <1>15, <3>1
    <3>3. InHeap(q)' = {}
      BY <2>7, <3>2
    <3>4. content'[b] = c
      BY <3>1
    <3> QED
      BY <1>6, <1>12, <2>3, <2>5, <2>6, <3>3, <3>4 DEF StreamInv
  <2> QED
    BY <2>8, <2>9
<1> QED
  BY <1>14, <1>15


LEMMA StreamsMerge ==
    ASSUME TypeOK, RoundInv, FileInv, ScanInv, HeapInv, QueueInv, IdleInv, OffsetInv, LiveInv,
           InOnePlace, StreamsInv, Merge, ~NextRound, mpc \notin Ending,
           NEW q \in 1 .. queue_num, Fresh(q)
    PROVE  StreamInv(q)'
<1>1. /\ q \in Queues /\ \A r \in 1 .. queue_num : r \in 1 .. K
      /\ i \in Queues /\ src \in Queues /\ current_buffers \in [Queues -> Buffers \cup {Null}]
      /\ Null \notin Buffers
  BY MergeRound, ConstantFacts DEF TypeOK
<1>2. StreamInv(q)
  BY <1>1 DEF StreamsInv
<1>3. ASSUME UNCHANGED <<queue, content, pq, taken, current_buffers>>, ~Emit,
             mpc \notin {"heap_install", "install", "clear"}, mpc' # "clear"
      PROVE  StreamInv(q)'
  BY <1>2, <1>3, StreamsQuiet
<1>4. CASE AwaitInited \/ BeginRun \/ ScanEmpty \/ ScanNext \/ AwaitInput \/ Drained
             \/ FinishRound \/ EndRun \/ SetDone
  <2>1. UNCHANGED <<queue, content, pq, taken, current_buffers>>
    BY <1>4 DEF AwaitInited, BeginRun, ScanEmpty, ScanNext, AwaitInput, Drained, FinishRound,
                EndRun, SetDone, poolVars, scanVars
  <2>2. mpc \notin {"heap_install", "install", "clear"} /\ mpc' # "clear"
    BY <1>4 DEF AwaitInited, BeginRun, ScanEmpty, ScanNext, AwaitInput, Drained, FinishRound,
                EndRun, SetDone, ToNextQueue
  <2>3. mpc = "drain" => ~Emit
    <3>1. CASE Drained
      BY <3>1 DEF Drained, Emit
    <3>2. CASE ~Drained
      BY <1>4, <3>2 DEF AwaitInited, BeginRun, ScanEmpty, ScanNext, AwaitInput, FinishRound,
                        EndRun, SetDone
    <3> QED
      BY <3>1, <3>2
  <2>4. ~Emit
    BY <2>3 DEF Emit
  <2> QED
    BY <1>3, <2>1, <2>2, <2>4
<1>5. CASE ReturnLeft
  <2>1. /\ UNCHANGED <<queue, content, pq, taken>> /\ mpc \in {"clean", "sweep"} /\ mpc' # "clear"
        /\ ~Emit
    BY <1>5 DEF ReturnLeft, Ending, Emit
  <2>2. CASE ~MustReturn
    <3>1. UNCHANGED current_buffers
      BY <1>5, <2>2 DEF ReturnLeft
    <3> QED
      BY <1>3, <2>1, <3>1
  <2>3. CASE MustReturn
    <3>1. /\ current_buffers[i] # Null /\ current_buffers' = [current_buffers EXCEPT ![i] = Null]
          /\ mpc = "sweep" => content[current_buffers[i]] = << >>
      BY <1>5, <2>3 DEF ReturnLeft, MustReturn
    <3>2. mpc = "sweep"
      BY <1>1, <2>1, <3>1 DEF IdleInv, NoCurrent, Merging
    <3>3. CASE q = i
      <4>1. current_buffers'[q] = Null
        BY <1>1, <3>1, <3>3
      <4>2. mpc \notin Ending \cup {"heap_install", "install", "clear"}
        BY <3>2 DEF Ending
      <4> QED
        BY <1>2, <2>1, <3>1, <3>2, <3>3, <4>1, <4>2, StreamsEmptied
    <3>4. CASE q # i
      <4>1. current_buffers'[q] = current_buffers[q]
        BY <1>1, <3>1, <3>4
      <4> QED
        BY <1>2, <2>1, <4>1, StreamsQuiet
    <3> QED
      BY <3>3, <3>4
  <2> QED
    BY <2>2, <2>3
<1>6. CASE GiveBack
  <2>1. /\ mpc = "give_back" /\ mpc' = "clear" /\ ~Emit
        /\ UNCHANGED <<queue, content, pq, taken, current_buffers, src>>
    BY <1>6 DEF GiveBack, scanVars, Emit
  <2>2. CASE q = src
    <3>1. current_buffers[q] # Null /\ content[current_buffers[q]] = << >>
      BY <2>1, <2>2 DEF HeapInv, IdleInv, NoCurrent
    <3>2. mpc \notin Ending \cup {"heap_install", "install", "clear"}
      BY <2>1 DEF Ending
    <3> QED
      BY <1>2, <2>1, <2>2, <3>1, <3>2, StreamsEmptied
  <2>3. CASE q # src
    BY <1>2, <2>1, <2>3, StreamsQuiet
  <2> QED
    BY <2>2, <2>3
<1>7. CASE ClearCurrent
  <2>1. /\ mpc = "clear" /\ mpc' = "drain" /\ ~Emit
        /\ UNCHANGED <<queue, content, pq, taken, src>>
        /\ current_buffers' = [current_buffers EXCEPT ![src] = Null]
    BY <1>7 DEF ClearCurrent, scanVars, poolVars, Emit, Cleared
  <2>2. CASE q = src
    <3>1. current_buffers'[q] = Null
      BY <1>1, <2>1, <2>2
    <3> QED
      BY <1>2, <2>1, <2>2, <3>1, StreamsQuiet
  <2>3. CASE q # src
    <3>1. current_buffers'[q] = current_buffers[q]
      BY <1>1, <2>1, <2>3
    <3> QED
      BY <1>2, <2>1, <2>3, <3>1, StreamsQuiet
  <2> QED
    BY <2>2, <2>3
<1>8. CASE Take
  BY <1>2, <1>8, StreamsTake
<1>9. CASE Install
  BY <1>2, <1>9, StreamsInstall
<1>10. CASE Emit
  <2>1. inited
    BY <1>10 DEF Emit, RoundInv, Ending
  <2>2. \A r \in 1 .. queue_num : StreamInv(r)
    BY <1>1, <2>1 DEF StreamsInv, Fresh
  <2> QED
    BY <1>10, <2>2, StreamsEmit
<1> QED
  BY <1>4, <1>5, <1>6, <1>7, <1>8, <1>9, <1>10 DEF Merge

LEMMA StreamsStep ==
    ASSUME TypeOK, RoundInv, FileInv, LoadInv, ScanInv, HeapInv, QueueInv, RoundInv', InOnePlace,
           StreamsInv, OffsetInv, IdleInv, LiveInv, Input \/ Merge \/ Writer
    PROVE  StreamsInv'
<1>1. ASSUME NEW q \in 1 .. K, Fresh(q)'
      PROVE  StreamInv(q)'
  <2>1. /\ ~NextRound /\ mpc \notin Ending /\ q \in 1 .. queue_num
        /\ Fresh(q) \/ (AddFirst /\ q = slot)
    BY <1>1, FreshStep
  <2>2. CASE Input
    BY <1>1, <2>2, StreamsInput
  <2>3. CASE ~Input
    <3>1. Fresh(q)
      BY <2>1, <2>3 DEF Input
    <3>2. StreamInv(q)
      BY <3>1 DEF StreamsInv
    <3>3. CASE Merge
      BY <2>1, <3>1, <3>3, StreamsMerge
    <3>4. CASE Writer
      BY <2>1, <3>2, <3>4, StreamsWriter
    <3> QED
      BY <2>3, <3>3, <3>4
  <2> QED
    BY <2>2, <2>3
<1> QED
  BY <1>1 DEF StreamsInv


----------------------------------------------------------------------------
(* What has been read, and when nothing is on the way *)

LEMMA OffsetPublish ==
    ASSUME TypeOK, RoundInv, FileInv, LoadInv, PublishRound
    PROVE  \A q \in 1 .. queue_num :
              /\ run_size'[q] = Len(Source(q))
              /\ run_offsets'[q] <= run_size'[q] /\ elements_read'[q] <= run_offsets'[q]
<1> SUFFICES ASSUME NEW q \in 1 .. queue_num
             PROVE  /\ run_size'[q] = Len(Source(q))
                    /\ run_offsets'[q] <= run_size'[q] /\ elements_read'[q] <= run_offsets'[q]
  OBVIOUS
<1>1. /\ ipc = "publish" /\ UNCHANGED <<run_size, elements_read>>
      /\ run_offsets' = [p \in Queues |->
              IF p \in DOMAIN Task THEN Smaller(run_size[p], CHUNK) ELSE run_offsets[p]]
  BY DEF PublishRound, queueVars
<1>2. round = cur_task /\ DOMAIN Task = 1 .. Len(Task)
  BY <1>1, InputRound
<1>3. q \in DOMAIN Task
  BY <1>2 DEF queue_num, Task
<1>4. Source(q) = runs[Task[q] + 1] /\ q \in Queues
  BY <1>1, <1>3, SourceOfTask
<1>5. HasFirst(q) /\ Counted(q)
  BY <1>1, <1>3 DEF HasFirst, Counted
<1>6. /\ run_size[q] = Len(Source(q)) /\ elements_read[q] = Smaller(run_size[q], CHUNK)
      /\ run_offsets'[q] = Smaller(run_size[q], CHUNK)
  BY <1>1, <1>3, <1>4, <1>5 DEF LoadInv, FirstInv
<1>7. run_size[q] \in Nat /\ CHUNK \in Nat
  BY <1>4, ConstantFacts DEF TypeOK
<1>8. Smaller(run_size[q], CHUNK) \in Nat /\ Smaller(run_size[q], CHUNK) <= run_size[q]
  BY <1>7 DEF Smaller
<1> QED
  BY <1>1, <1>6, <1>8

LEMMA OffsetStep ==
    ASSUME TypeOK, RoundInv, FileInv, LoadInv, HeapInv, OffsetInv, RoundInv',
           Input \/ Merge \/ Writer
    PROVE  OffsetInv'
<1> SUFFICES ASSUME inited' PROVE OffsetInv'
  BY DEF OffsetInv
<1>1. ~NextRound
  BY DEF NextRound
<1>2. mpc \notin Ending
  <2>1. mpc' \in {"await", "next"} \cup Preparing \cup Merging
    BY DEF RoundInv
  <2>2. Merge => mpc \notin Ending
    BY <1>1, <2>1, MergeStages DEF Ending, Preparing, Merging
  <2>3. Input \/ Writer => mpc' = mpc
    BY InputFrame, WriterFrame
  <2> QED
    BY <2>1, <2>2, <2>3 DEF Ending, Preparing, Merging
<1>3. /\ queue_num' = queue_num /\ \A q \in 1 .. queue_num : Source(q)' = Source(q) /\ q \in Queues
  BY <1>1, <1>2, SourceKept, MergeRound
<1>4. ASSUME \A q \in 1 .. queue_num :
                /\ run_size'[q] = Len(Source(q))
                /\ run_offsets'[q] <= run_size'[q] /\ elements_read'[q] <= run_offsets'[q]
      PROVE  OffsetInv'
  BY <1>3, <1>4 DEF OffsetInv
<1>5. ASSUME UNCHANGED <<inited, run_size, run_offsets, elements_read>>
      PROVE  OffsetInv'
  BY <1>4, <1>5 DEF OffsetInv
<1>6. CASE Merge \/ Writer
  <2>1. UNCHANGED inited
    BY <1>1, <1>6, MergeStages, WriterFrame
  <2>2. UNCHANGED <<run_size, run_offsets, elements_read>>
    BY <1>6, MergeFrame, WriterFrame
  <2> QED
    BY <1>5, <2>1, <2>2
<1>7. CASE AwaitRound \/ ResetQueue \/ AddFirst \/ CountFirst
  <2>1. (ipc \in InputLoading \/ (AwaitRound /\ ~inited)) /\ UNCHANGED inited
    BY <1>7 DEF AwaitRound, ResetQueue, AddFirst, CountFirst, InputLoading, LastRoundOver
  <2> QED
    BY <2>1 DEF RoundInv
<1>8. CASE GetBuffer \/ ScanCurrent \/ ScanQueue
  BY <1>5, <1>8 DEF GetBuffer, ScanCurrent, ScanQueue, queueVars, offsetVars
<1>9. CASE PublishRound
  BY <1>4, <1>9, OffsetPublish
<1>10. CASE AddNext
  <2> DEFINE m == min_index
  <2>1. /\ ipc = "add" /\ UNCHANGED <<inited, run_size, elements_read>>
        /\ run_offsets' = [run_offsets EXCEPT ![m] = NextOffset(m)]
    BY <1>10 DEF AddNext
  <2>2. /\ m \in Queues /\ run_offsets[m] \in Nat /\ NextOffset(m) \in Nat
        /\ run_offsets[m] < NextOffset(m) /\ NextOffset(m) <= run_size[m]
    BY <2>1, NextChunk
  <2>3. /\ run_offsets \in [Queues -> Nat] /\ elements_read \in [Queues -> Nat]
        /\ run_size \in [Queues -> Nat]
    BY DEF TypeOK
  <2>4. /\ run_offsets'[m] = NextOffset(m)
        /\ \A q \in Queues : q # m => run_offsets'[q] = run_offsets[q]
    BY <2>1, <2>2, <2>3
  <2> HIDE DEF m
  <2>5. ASSUME NEW q \in 1 .. queue_num
        PROVE  /\ run_size'[q] = Len(Source(q))
               /\ run_offsets'[q] <= run_size'[q] /\ elements_read'[q] <= run_offsets'[q]
    <3>1. /\ run_size[q] = Len(Source(q)) /\ q \in Queues
          /\ run_offsets[q] <= run_size[q] /\ elements_read[q] <= run_offsets[q]
      BY <1>3, <2>1, <2>5 DEF OffsetInv
    <3>2. CASE q # m
      BY <2>1, <2>4, <3>1, <3>2
    <3>3. CASE q = m
      <4>1. elements_read[q] \in Nat /\ run_offsets'[q] = NextOffset(m)
        BY <2>3, <2>4, <3>1, <3>3
      <4>2. elements_read[q] <= NextOffset(m)
        BY <2>2, <3>1, <3>3, <4>1
      <4> QED
        BY <2>1, <2>2, <3>1, <3>3, <4>1, <4>2
    <3> QED
      BY <3>2, <3>3
  <2> QED
    BY <1>4, <2>5
<1>11. CASE CountNext
  <2> DEFINE m == min_index
  <2>1. /\ ipc = "count" /\ UNCHANGED <<inited, run_size, run_offsets>>
        /\ elements_read' = [elements_read EXCEPT ![m] = run_offsets[m]]
    BY <1>11 DEF CountNext, offsetVars
  <2>2. elements_read \in [Queues -> Nat] /\ run_offsets \in [Queues -> Nat]
    BY DEF TypeOK
  <2>3. ASSUME NEW q \in 1 .. queue_num
        PROVE  /\ run_size'[q] = Len(Source(q))
               /\ run_offsets'[q] <= run_size'[q] /\ elements_read'[q] <= run_offsets'[q]
    <3>1. /\ run_size[q] = Len(Source(q)) /\ q \in Queues
          /\ run_offsets[q] <= run_size[q] /\ elements_read[q] <= run_offsets[q]
      BY <1>3, <2>1, <2>3 DEF OffsetInv
    <3>2. elements_read'[q] \in {elements_read[q], run_offsets[q]}
      BY <2>1, <2>2, <3>1
    <3>3. run_offsets[q] \in Nat
      BY <2>2, <3>1
    <3>4. run_offsets[q] <= run_offsets[q]
      BY <3>3
    <3> QED
      BY <2>1, <3>1, <3>2, <3>4
  <2> QED
    BY <1>4, <2>3
<1> QED
  BY <1>6, <1>7, <1>8, <1>9, <1>10, <1>11 DEF Input

(* current_buffers *)
LEMMA NoCurrentStep ==
    ASSUME TypeOK, RoundInv, FileInv, ScanInv, QueueInv, HeapInv, NoCurrent, Input \/ Merge \/ Writer
    PROVE  NoCurrent'
<1>1. UNCHANGED cur_task => UNCHANGED queue_num
  BY DEF queue_num
<1>2. /\ i \in Queues /\ i \in Nat \ {0} /\ src \in Queues /\ K \in Nat /\ Queues = 1 .. K
      /\ current_buffers \in [Queues -> Buffers \cup {Null}]
  <2>1. /\ i \in Queues /\ src \in Queues /\ current_buffers \in [Queues -> Buffers \cup {Null}]
    BY DEF TypeOK
  <2>2. K \in Nat /\ Queues = 1 .. K
    BY ConstantFacts DEF Queues
  <2>3. i \in Nat \ {0}
    BY <2>1, <2>2
  <2> QED
    BY <2>1, <2>2, <2>3
<1>3. mpc \notin Ending => queue_num \in Nat /\ queue_num <= K /\ queue_num >= 2
  <2> DEFINE n == queue_num
  <2>1. mpc \notin Ending => n \in 2 .. K
    BY MergeRound
  <2> HIDE DEF n
  <2>2. mpc \notin Ending => n \in Nat /\ n <= K /\ n >= 2
    BY <1>2, <2>1
  <2> QED
    BY <2>2 DEF n
<1>4. CASE Input \/ Writer
  <2>1. UNCHANGED <<mpc, i, cur_task, current_buffers>>
    BY <1>4, InputFrame, WriterFrame
  <2> QED
    BY <1>1, <2>1 DEF NoCurrent
<1>5. CASE AwaitInited \/ NextRound \/ SetDone
  <2>1. /\ UNCHANGED current_buffers
        /\ mpc \notin Merging \cup {"heap_take", "heap_install", "begin"}
        /\ mpc' \notin Merging \cup {"heap_take", "heap_install", "begin"}
    BY <1>5 DEF AwaitInited, NextRound, SetDone, Merging
  <2> QED
    BY <2>1 DEF NoCurrent
<1>6. CASE BeginRun \/ ScanEmpty \/ ScanNext \/ AwaitInput \/ Emit \/ GiveBack \/ Drained \/ FinishRound
  <2>1. /\ UNCHANGED <<cur_task, current_buffers>>
        /\ mpc \in Merging \cup {"begin"} /\ mpc' \in Merging
    BY <1>6 DEF BeginRun, ScanEmpty, ScanNext, AwaitInput, Emit, GiveBack, Drained, FinishRound,
                ToNextQueue, Merging
  <2>2. mpc' \notin {"heap_take", "heap_install"}
    BY <2>1 DEF Merging
  <2> QED
    BY <1>1, <2>1, <2>2 DEF NoCurrent
<1>7. CASE ReturnLeft
  <2>1. /\ UNCHANGED cur_task /\ mpc \in {"clean", "sweep", "final"}
        /\ \A q \in Queues : current_buffers[q] = Null => current_buffers'[q] = Null
        /\ \/ mpc' = mpc
           \/ mpc = "clean" /\ mpc' = "heap_take"
           \/ mpc = "sweep" /\ mpc' = "scan"
           \/ mpc = "final" /\ mpc' = "set_done"
    BY <1>2, <1>7 DEF ReturnLeft
  <2>2. CASE mpc = "sweep"
    <3>1. mpc' \in {"sweep", "scan"} /\ \A q \in queue_num + 1 .. K : q \in Queues
      BY <1>2, <1>3, <2>1, <2>2 DEF Ending
    <3>2. \A q \in queue_num + 1 .. K : current_buffers'[q] = Null
      BY <2>1, <2>2, <3>1 DEF NoCurrent, Merging
    <3> QED
      BY <1>1, <2>1, <3>1, <3>2 DEF NoCurrent, Merging
  <2>3. CASE mpc # "sweep"
    <3>1. mpc \in {"clean", "final"} /\ mpc' \in {"clean", "final", "heap_take", "set_done"}
      BY <2>1, <2>3
    <3>2. \A q \in Queues : current_buffers'[q] = Null
      BY <2>1, <3>1 DEF NoCurrent, Merging
    <3>3. i' \in Nat \ {0}
      BY <1>2, <1>7 DEF ReturnLeft
    <3>4. \A q \in i' .. K : q \in Queues
      BY <1>2, <3>3
    <3> QED
      BY <3>1, <3>2, <3>4 DEF NoCurrent, Merging
  <2> QED
    BY <2>2, <2>3
<1>8. CASE Take
  <2>1. /\ UNCHANGED <<cur_task, current_buffers, i>>
        /\ \/ mpc = "heap_take" /\ mpc' = "heap_install"
           \/ mpc = "take" /\ mpc' = "install"
    BY <1>8 DEF Take
  <2> QED
    BY <1>1, <2>1 DEF NoCurrent, Merging
<1>9. CASE Install
  <2>1. /\ UNCHANGED cur_task /\ mpc \in {"heap_install", "install"}
        /\ \A q \in Queues : q # i => current_buffers'[q] = current_buffers[q]
        /\ \/ mpc = "install" /\ mpc' \in {"scan", "finish", "drain"}
           \/ mpc = "heap_install" /\ mpc' = "heap_take" /\ i' = i + 1
           \/ mpc = "heap_install" /\ mpc' = "begin" /\ ~(i < queue_num)
    BY <1>2, <1>9 DEF Install, ToNextQueue
  <2>2. i <= queue_num /\ mpc \notin Ending
    BY <2>1 DEF ScanInv, Scanning, Ending
  <2> DEFINE n == queue_num
  <2>3. n \in Nat /\ n <= K /\ i <= n
    BY <1>3, <2>2
  <2>4. (\A q \in n + 1 .. K : current_buffers[q] = Null) \/ mpc # "install"
    BY <2>1 DEF NoCurrent, Merging
  <2>5. (\A q \in i .. K : current_buffers[q] = Null) \/ mpc # "heap_install"
    BY <2>1 DEF NoCurrent
  <2> HIDE DEF n
  <2>6. /\ \A q \in n + 1 .. K : q \in Queues /\ q # i /\ q \in i .. K
        /\ \A q \in i + 1 .. K : q \in Queues /\ q # i /\ q \in i .. K
    BY <1>2, <2>3
  <2>7. CASE mpc' \in {"scan", "finish", "drain", "begin"}
    <3>1. \A q \in n + 1 .. K : current_buffers'[q] = Null
      BY <2>1, <2>4, <2>5, <2>6
    <3> QED
      BY <1>1, <2>1, <2>7, <3>1 DEF NoCurrent, Merging, n
  <2>8. CASE mpc' = "heap_take"
    <3>1. i' = i + 1 /\ \A q \in i + 1 .. K : current_buffers'[q] = Null
      BY <2>1, <2>5, <2>6, <2>8
    <3>2. \A q \in i' .. K : current_buffers'[q] = Null
      BY <3>1
    <3> QED
      BY <2>8, <3>2 DEF NoCurrent, Merging
  <2> QED
    BY <2>1, <2>7, <2>8
<1>10. CASE ClearCurrent
  <2>1. /\ UNCHANGED cur_task /\ mpc = "clear" /\ mpc' = "drain"
        /\ current_buffers' = [current_buffers EXCEPT ![src] = Null]
    BY <1>10 DEF ClearCurrent, Cleared
  <2>2. \A q \in queue_num + 1 .. K : q \in Queues
    BY <1>2, <1>3, <2>1 DEF Ending
  <2>3. \A q \in queue_num + 1 .. K : current_buffers'[q] = Null
    BY <1>2, <2>1, <2>2 DEF NoCurrent, Merging
  <2> QED
    BY <1>1, <2>1, <2>3 DEF NoCurrent, Merging
<1>11. CASE EndRun
  <2>1. UNCHANGED current_buffers /\ mpc = "await_writer" /\ mpc' = "next"
    BY <1>11 DEF EndRun
  <2>2. \A q \in 1 .. queue_num : current_buffers[q] = Null
    BY <2>1 DEF ScanInv
  <2>3. \A q \in queue_num + 1 .. K : current_buffers[q] = Null
    BY <2>1 DEF NoCurrent, Merging
  <2> DEFINE n == queue_num
  <2>4. n \in Nat
    BY <1>3, <2>1 DEF Ending
  <2> HIDE DEF n
  <2>5. \A q \in 1 .. K : q \in 1 .. n \/ q \in n + 1 .. K
    BY <1>2, <2>4
  <2>6. \A q \in Queues : current_buffers'[q] = Null
    BY <1>2, <2>1, <2>2, <2>3, <2>5 DEF n
  <2> QED
    BY <2>1, <2>6 DEF NoCurrent, Merging
<1> QED
  BY <1>4, <1>5, <1>6, <1>7, <1>8, <1>9, <1>10, <1>11 DEF Merge

LEMMA IdleStep ==
    ASSUME TypeOK, RoundInv, FileInv, LoadInv, ScanInv, HeapInv, QueueInv, RoundInv', InOnePlace,
           IdleInv, Input \/ Merge \/ Writer
    PROVE  IdleInv'
<1>1. NoCurrent'
  <2>1. NoCurrent
    BY DEF IdleInv
  <2> QED
    BY <2>1, NoCurrentStep
<1>2. mpc' = "give_back" => content'[current_buffers'[src']] = << >>
  <2> SUFFICES ASSUME mpc' = "give_back" PROVE content'[current_buffers'[src']] = << >>
    OBVIOUS
  <2>1. CASE Emit
    <3>1. PICK e \in pq : Pops(e)
      BY <2>1, EmitPops
    <3>2. /\ content[current_buffers[e[2]]] = << >> /\ src' = e[2]
          /\ UNCHANGED <<content, current_buffers>>
      BY <3>1 DEF Pops
    <3> QED
      BY <3>2
  <2>2. CASE Merge /\ ~Emit
    <3>1. mpc' # "give_back"
      BY <2>2 DEF Merge, AwaitInited, ReturnLeft, Take, Install, BeginRun, ScanEmpty, ScanNext,
                  AwaitInput, GiveBack, ClearCurrent, Drained, FinishRound, EndRun, NextRound,
                  SetDone, ToNextQueue
    <3> QED
      BY <3>1
  <2>3. CASE Writer
    <3>1. UNCHANGED <<mpc, content, current_buffers, src>>
      BY <2>3, WriterFrame
    <3> QED
      BY <3>1 DEF IdleInv
  <2>4. CASE Input
    <3>1. UNCHANGED <<mpc, current_buffers, src>>
      BY <2>4, InputFrame
    <3> DEFINE b == current_buffers[src]
    <3>2. /\ b \in Buffers /\ At(b, "current", src, 0) /\ content[b] = << >>
      BY <3>1 DEF TypeOK, HeapInv, At, IdleInv
    <3>3. hand = b => At(b, "hand", 0, 0)
      BY DEF At
    <3>4. b # hand
      BY <3>2, <3>3 DEF InOnePlace
    <3>5. content'[b] = content[b]
      <4>1. content \in [Buffers -> Seq(Elements)]
        BY DEF TypeOK
      <4>2. \/ UNCHANGED content
            \/ content' = [content EXCEPT ![hand] = content'[hand]]
        <5>1. CASE AddFirst
          BY <4>1, <5>1, FirstChunk DEF AddFirst
        <5>2. CASE AddNext
          BY <4>1, <5>2, NextChunk DEF AddNext
        <5>3. CASE ~AddFirst /\ ~AddNext
          BY <2>4, <5>3 DEF Input, AwaitRound, ResetQueue, GetBuffer, CountFirst, PublishRound,
                            ScanCurrent, ScanQueue, CountNext, poolVars
        <5> QED
          BY <5>1, <5>2, <5>3
      <4> QED
        BY <3>2, <3>4, <4>1, <4>2
    <3> QED
      BY <3>1, <3>2, <3>5
  <2> QED
    BY <2>1, <2>2, <2>3, <2>4
<1>3. ipc' \in {"init_get", "init_add"} => queue'[slot'] = << >>
  <2> SUFFICES ASSUME ipc' \in {"init_get", "init_add"} PROVE queue'[slot'] = << >>
    OBVIOUS
  <2>1. CASE Merge
    <3>1. ipc' = ipc
      BY <2>1, MergeFrame
    <3>2. mpc = "await" /\ ~inited /\ mpc' = "await"
      BY <3>1 DEF RoundInv, InputLoading
    <3>3. ~NextRound
      BY <3>2 DEF NextRound
    <3> QED
      BY <2>1, <3>2, <3>3, MergeStages DEF Preparing, Merging
  <2>2. CASE Writer
    <3>1. UNCHANGED <<ipc, queue, slot>>
      BY <2>2, WriterFrame
    <3> QED
      BY <3>1 DEF IdleInv
  <2>3. CASE ResetQueue
    BY <2>3 DEF ResetQueue, TypeOK
  <2>4. CASE GetBuffer
    <3>1. ipc = "init_get" /\ UNCHANGED <<queue, slot>>
      BY <2>4 DEF GetBuffer, queueVars
    <3> QED
      BY <3>1 DEF IdleInv
  <2>5. CASE Input /\ ~ResetQueue /\ ~GetBuffer
    <3>1. ipc' \notin {"init_get", "init_add"}
      BY <2>5 DEF Input, AwaitRound, AddFirst, CountFirst, PublishRound, ScanCurrent, ScanQueue,
                  AddNext, CountNext, NextRefill, ConsiderLeastRead
    <3> QED
      BY <3>1
  <2> QED
    BY <2>1, <2>2, <2>3, <2>4, <2>5
<1>4. mpc' \notin Merging => \A o \in Outs : out_buffer'[o] = << >>
  <2> SUFFICES ASSUME mpc' \notin Merging, NEW o \in Outs PROVE out_buffer'[o] = << >>
    OBVIOUS
  <2>1. out_buffer \in [Outs -> Seq(Elements)]
    BY DEF TypeOK
  <2>2. CASE Input
    <3>1. UNCHANGED <<mpc, out_buffer>>
      BY <2>2, InputFrame
    <3> QED
      BY <3>1 DEF IdleInv
  <2>3. CASE Writer
    <3>1. mpc' = mpc
      BY <2>3, WriterFrame
    <3>2. out_buffer[o] = << >>
      BY <3>1 DEF IdleInv
    <3>3. out_buffer'[o] \in {out_buffer[o], << >>}
      BY <2>1, <2>3 DEF Writer, WriterClear, WriterLeave, WriterDrain, outVars
    <3> QED
      BY <3>2, <3>3
  <2>4. CASE EndRun
    BY <2>4 DEF EndRun, AfterFlush
  <2>5. CASE Emit
    BY <2>5 DEF Emit, Merging
  <2>6. CASE Merge /\ ~EndRun /\ ~Emit
    <3>1. UNCHANGED out_buffer
      BY <2>6 DEF Merge, AwaitInited, ReturnLeft, Take, Install, BeginRun, ScanEmpty, ScanNext,
                  AwaitInput, GiveBack, ClearCurrent, Drained, FinishRound, NextRound,
                  SetDone, outVars
    <3>2. mpc \notin Merging
      <4>1. CASE NextRound
        BY <4>1 DEF NextRound, Merging
      <4>2. CASE ~NextRound
        <5>1. mpc # "await_writer" \/ mpc' # "next"
          BY <2>6 DEF Merge, AwaitInited, ReturnLeft, Take, Install, BeginRun, ScanEmpty, ScanNext,
                      AwaitInput, GiveBack, ClearCurrent, Drained, FinishRound, NextRound,
                      SetDone
        <5> QED
          BY <2>6, <4>2, <5>1, MergeStages DEF Merging, Preparing
      <4> QED
        BY <4>1, <4>2
    <3> QED
      BY <3>1, <3>2 DEF IdleInv
  <2> QED
    BY <2>2, <2>3, <2>4, <2>5, <2>6
<1> QED
  BY <1>1, <1>2, <1>3, <1>4 DEF IdleInv


----------------------------------------------------------------------------
(* The new run *)

LEMMA InjectiveConcat ==
    ASSUME NEW S, NEW a \in Seq(S), NEW b \in Seq(S), IsInjective(a), IsInjective(b),
           Range(a) \cap Range(b) = {}
    PROVE  IsInjective(a \o b)
<1> DEFINE c == a \o b
<1>1. /\ DOMAIN a = 1 .. Len(a) /\ DOMAIN b = 1 .. Len(b) /\ Len(a) \in Nat /\ Len(b) \in Nat
      /\ DOMAIN c = 1 .. Len(a) + Len(b)
      /\ \A n \in 1 .. Len(a) + Len(b) : c[n] = IF n <= Len(a) THEN a[n] ELSE b[n - Len(a)]
  OBVIOUS
<1> HIDE DEF c
<1>2. \A n \in DOMAIN c : \/ n \in DOMAIN a /\ c[n] = a[n]
                          \/ n - Len(a) \in DOMAIN b /\ c[n] = b[n - Len(a)]
  BY <1>1
<1>3. ASSUME NEW m \in DOMAIN c, NEW n \in DOMAIN c, c[m] = c[n]
      PROVE  m = n
  <2>1. CASE m \in DOMAIN a /\ c[m] = a[m] /\ n \in DOMAIN a /\ c[n] = a[n]
    BY <1>3, <2>1 DEF IsInjective
  <2>2. CASE m - Len(a) \in DOMAIN b /\ c[m] = b[m - Len(a)]
             /\ n - Len(a) \in DOMAIN b /\ c[n] = b[n - Len(a)]
    <3>1. m - Len(a) = n - Len(a)
      BY <1>3, <2>2 DEF IsInjective
    <3>2. m \in Int /\ n \in Int /\ Len(a) \in Int
      BY <1>1, <1>3
    <3> QED
      BY <3>1, <3>2
  <2>3. CASE (m \in DOMAIN a /\ c[m] = a[m]) /\ (n - Len(a) \in DOMAIN b /\ c[n] = b[n - Len(a)])
    <3>1. c[m] \in Range(a) /\ c[n] \in Range(b)
      BY <2>3 DEF Range
    <3> QED
      BY <1>3, <3>1
  <2>4. CASE (n \in DOMAIN a /\ c[n] = a[n]) /\ (m - Len(a) \in DOMAIN b /\ c[m] = b[m - Len(a)])
    <3>1. c[n] \in Range(a) /\ c[m] \in Range(b)
      BY <2>4 DEF Range
    <3> QED
      BY <1>3, <3>1
  <2> QED
    BY <1>2, <1>3, <2>1, <2>2, <2>3, <2>4
<1> QED
  BY <1>3 DEF IsInjective, c

LEMMA InjectiveAppend ==
    ASSUME NEW S, NEW c \in Seq(S), NEW x \in S, IsInjective(c), x \notin Range(c)
    PROVE  IsInjective(Append(c, x))
<1> DEFINE d == Append(c, x)
<1>1. /\ DOMAIN c = 1 .. Len(c) /\ Len(c) \in Nat
      /\ DOMAIN d = 1 .. Len(c) + 1
      /\ d[Len(c) + 1] = x /\ \A n \in 1 .. Len(c) : d[n] = c[n]
  OBVIOUS
<1> HIDE DEF d
<1>2. \A n \in DOMAIN d : (n \in DOMAIN c /\ d[n] = c[n]) \/ (n = Len(c) + 1 /\ d[n] = x)
  BY <1>1
<1>3. \A n \in DOMAIN c : c[n] # x
  BY DEF Range
<1>4. ASSUME NEW m \in DOMAIN d, NEW n \in DOMAIN d, d[m] = d[n]
      PROVE  m = n
  BY <1>2, <1>3, <1>4 DEF IsInjective
<1> QED
  BY <1>4 DEF IsInjective, d

LEMMA InOrderAppend ==
    ASSUME NEW S, NEW s, NEW c \in Seq(S), NEW x \in S, InOrder(s, c),
           \A y \in Range(c) : x \in Range(s) /\ y \in Range(s) => Before(s, y, x)
    PROVE  InOrder(s, Append(c, x))
<1> DEFINE d == Append(c, x)
<1>1. /\ DOMAIN c = 1 .. Len(c) /\ Len(c) \in Nat
      /\ DOMAIN d = 1 .. Len(c) + 1
      /\ d[Len(c) + 1] = x /\ \A n \in 1 .. Len(c) : d[n] = c[n]
  OBVIOUS
<1> HIDE DEF d
<1>2. ASSUME NEW m \in DOMAIN d, NEW n \in DOMAIN d, m < n, d[m] \in Range(s), d[n] \in Range(s)
      PROVE  Before(s, d[m], d[n])
  <2>1. m \in DOMAIN c /\ d[m] = c[m]
    BY <1>1, <1>2
  <2>2. CASE n \in DOMAIN c
    <3>1. d[n] = c[n]
      BY <1>1, <2>2
    <3> QED
      BY <1>2, <2>1, <2>2, <3>1 DEF InOrder
  <2>3. CASE n = Len(c) + 1
    <3>1. d[n] = x /\ c[m] \in Range(c)
      BY <1>1, <2>1, <2>3 DEF Range
    <3> QED
      BY <1>2, <2>1, <3>1
  <2> QED
    BY <1>1, <1>2, <2>2, <2>3
<1> QED
  BY <1>2 DEF InOrder, d

(* An element that is popped has not been written before, and comes after those   *)
(* of its source that have.                                                       *)
LEMMA PoppedIsNew ==
    ASSUME TypeOK, RoundInv, FileInv, HeapInv, OffsetInv, LiveInv, NEW e \in pq, Pops(e),
           \A q \in 1 .. queue_num : StreamInv(q)
    PROVE  /\ e[2] \in 1 .. queue_num /\ e[1] \in Range(Source(e[2]))
           /\ e[1] \notin InRun
           /\ \A q \in 1 .. queue_num : e[1] \in Range(Source(q)) =>
                 \A y \in InRun \cap Range(Source(q)) : Before(Source(q), y, e[1])
<1> DEFINE x == e[1]
           p == e[2]
<1>1. mpc = "drain" /\ mpc \notin Ending \cup {"next"} /\ inited
  BY DEF Pops, Ending, RoundInv
<1>2. p \in 1 .. queue_num
  <2>1. p \in Queues /\ p <= queue_num
    BY HeapSource DEF HeapInv
  <2>2. p \in Nat \ {0}
    BY <2>1, ConstantFacts
  <2>3. queue_num \in Nat
    BY <1>1, MergeRound
  <2> QED
    BY <2>1, <2>2, <2>3
<1>3. x \in InHeap(p) /\ StreamInv(p)
  BY <1>2 DEF InHeap
<1>4. x \in Range(Source(p))
  BY <1>1, <1>2, <1>3, StreamElements
<1>5. \A y \in EmittedOf(p) : Before(Source(p), y, x)
  BY <1>3 DEF StreamInv, Stream, Precede
<1>6. /\ IsInjective(Source(p)) /\ Source(p) \in Seq(Elements)
      /\ \A q \in 1 .. queue_num : q # p => x \notin Range(Source(q))
  BY <1>1, <1>2, <1>4, SourcesDisjoint, SourceFacts
<1>7. x \notin InRun
  <2> SUFFICES ASSUME x \in InRun PROVE FALSE
    OBVIOUS
  <2>1. Before(Source(p), x, x)
    BY <1>4, <1>5 DEF EmittedOf
  <2> QED
    BY <1>6, <2>1, BeforeFacts
<1>8. ASSUME NEW q \in 1 .. queue_num, x \in Range(Source(q)), NEW y \in InRun \cap Range(Source(q))
      PROVE  Before(Source(q), y, x)
  <2>1. q = p
    BY <1>6, <1>8
  <2>2. y \in EmittedOf(p)
    BY <1>8, <2>1 DEF EmittedOf
  <2> QED
    BY <1>5, <2>1, <2>2
<1> QED
  BY <1>2, <1>4, <1>7, <1>8


LEMMA EmittedKept ==
    ASSUME TypeOK, RoundInv, FileInv, HeapInv, EmittedInv, Input \/ Merge \/ Writer, ~NextRound,
           mpc \notin Ending, UNCHANGED <<runs, out_buffer>>,
           mpc' \in Merging \cup {"next"} => mpc \in Merging \cup {"next"}
    PROVE  EmittedInv'
<1> SUFFICES ASSUME mpc' \in Merging \cup {"next"} PROVE EmittedInv'
  BY DEF EmittedInv
<1>1. mpc \in Merging \cup {"next"}
  OBVIOUS
<1>2. /\ queue_num' = queue_num
      /\ \A q \in 1 .. queue_num : Source(q)' = Source(q)
  BY SourceKept
<1>3. RunCount' = RunCount /\ runs' = runs /\ out_buffer' = out_buffer
  BY DEF RunCount
<1>4. InRun' = InRun
  BY <1>1, <1>3 DEF InRun
<1> DEFINE all == UNION {Range(Source(q)) : q \in 1 .. queue_num}
<1>5. all' = all
  BY <1>2
<1>6. /\ IsInjective(runs[RunCount])
      /\ \A o \in Outs : /\ IsInjective(out_buffer[o])
                         /\ Range(runs[RunCount]) \cap Range(out_buffer[o]) = {}
      /\ Range(out_buffer[0]) \cap Range(out_buffer[1]) = {}
      /\ InRun \subseteq all
      /\ \A q \in 1 .. queue_num : \A o \in Outs : InOrder(Source(q), out_buffer[o])
  BY <1>1 DEF EmittedInv
<1>7. (InRun \subseteq all)'
  BY <1>4, <1>5, <1>6
<1>8. \A q \in 1 .. queue_num' : \A o \in Outs : InOrder(Source(q)', out_buffer'[o])
  BY <1>2, <1>3, <1>6
<1> QED
  BY <1>3, <1>6, <1>7, <1>8 DEF EmittedInv

LEMMA EmittedByEmit ==
    ASSUME TypeOK, RoundInv, FileInv, HeapInv, OffsetInv, LiveInv, EmittedInv, Emit,
           \A q \in 1 .. queue_num : StreamInv(q)
    PROVE  EmittedInv'
<1>1. PICK e \in pq : Pops(e)
  BY EmitPops
<1> DEFINE x == e[1]
           a == runs[RunCount]
           c == out_buffer[cur_out]
           d == out_buffer[1 - cur_out]
           all == UNION {Range(Source(q)) : q \in 1 .. queue_num}
<1>2. /\ mpc = "drain" /\ mpc \in Merging /\ mpc \notin Ending /\ ~NextRound /\ Merge
  BY <1>1 DEF Pops, Merging, Ending, NextRound, Merge
<1>3. /\ e[2] \in 1 .. queue_num /\ x \in Range(Source(e[2])) /\ x \notin InRun
      /\ \A q \in 1 .. queue_num : x \in Range(Source(q)) =>
            \A y \in InRun \cap Range(Source(q)) : Before(Source(q), y, x)
  BY <1>1, PoppedIsNew
<1>4. /\ queue_num' = queue_num
      /\ \A q \in 1 .. queue_num : Source(q)' = Source(q)
  BY <1>2, SourceKept
<1>5. /\ cur_out \in Outs /\ RunCount' = RunCount
      /\ a \in Seq(Elements) /\ x \in Elements
      /\ \A o \in Outs : out_buffer[o] \in Seq(Elements)
      /\ \A o \in Outs : o # cur_out => out_buffer'[o] = out_buffer[o]
      /\ \/ /\ runs'[RunCount] = a
            /\ out_buffer'[cur_out] = Append(c, x)
         \/ /\ runs'[RunCount] = a \o Append(c, x)
            /\ out_buffer'[cur_out] = << >>
  BY <1>1, PoppedPlace
<1>6. /\ 1 - cur_out \in Outs /\ 1 - cur_out # cur_out
      /\ \A o \in Outs : o = cur_out \/ o = 1 - cur_out
      /\ Outs = {0, 1}
  BY <1>5 DEF Outs
<1>7. /\ c \in Seq(Elements) /\ d \in Seq(Elements) /\ out_buffer'[1 - cur_out] = d
  BY <1>5, <1>6
<1>8. /\ IsInjective(a) /\ IsInjective(c) /\ IsInjective(d)
      /\ Range(a) \cap Range(c) = {} /\ Range(a) \cap Range(d) = {} /\ Range(c) \cap Range(d) = {}
      /\ InRun \subseteq all
      /\ \A q \in 1 .. queue_num : InOrder(Source(q), c) /\ InOrder(Source(q), d)
  <2>1. Range(c) \cap Range(d) = {}
    BY <1>2, <1>5 DEF EmittedInv, Outs
  <2> QED
    BY <1>2, <1>5, <1>6, <2>1 DEF EmittedInv
<1>9. InRun = Range(a) \cup Range(c) \cup Range(d)
  BY <1>2, <1>5 DEF InRun, Outs
<1>10. InRun' = InRun \cup {x}
  BY <1>1, RunGetsOne
<1>11. (InRun \subseteq all)'
  <2>1. all' = all
    BY <1>4
  <2>2. x \in all
    BY <1>3
  <2> QED
    BY <1>8, <1>10, <2>1, <2>2
<1> DEFINE ca == Append(c, x)
<1>12. ca \in Seq(Elements) /\ Range(ca) = Range(c) \cup {x} /\ IsInjective(ca)
  BY <1>3, <1>5, <1>7, <1>8, <1>9, InjectiveAppend, RangeOfAppend
<1>13. \A q \in 1 .. queue_num : InOrder(Source(q), ca)
  BY <1>3, <1>5, <1>7, <1>8, <1>9, InOrderAppend
<1>14. Range(a) \cap Range(ca) = {} /\ Range(ca) \cap Range(d) = {}
  BY <1>3, <1>8, <1>9, <1>12
<1> DEFINE na == runs'[RunCount]
           nc == out_buffer'[cur_out]
<1>15. /\ IsInjective(na) /\ IsInjective(nc)
       /\ Range(na) \cap Range(nc) = {} /\ Range(na) \cap Range(d) = {}
       /\ Range(nc) \cap Range(d) = {}
       /\ \A q \in 1 .. queue_num : InOrder(Source(q), nc)
  <2>1. CASE na = a /\ nc = ca
    BY <1>8, <1>12, <1>13, <1>14, <2>1
  <2>2. CASE na = a \o ca /\ nc = << >>
    <3> HIDE DEF a, ca, d, na, nc
    <3>1. IsInjective(na)
      BY <1>5, <1>8, <1>12, <1>14, <2>2, InjectiveConcat
    <3>2. Range(na) = Range(a) \cup Range(ca)
      BY <1>5, <1>12, <2>2, RangeOfConcat
    <3>3. IsInjective(nc) /\ Range(nc) = {} /\ \A q : InOrder(Source(q), nc)
      BY <2>2 DEF IsInjective, Range, InOrder
    <3> QED
      BY <1>8, <1>14, <3>1, <3>2, <3>3
  <2> QED
    BY <1>5, <2>1, <2>2
<1>16. IsInjective(runs[RunCount])'
  BY <1>5, <1>15
<1>17. (\A o \in Outs : /\ IsInjective(out_buffer[o])
                        /\ Range(runs[RunCount]) \cap Range(out_buffer[o]) = {})'
  BY <1>5, <1>6, <1>7, <1>8, <1>15
<1>18. (Range(out_buffer[0]) \cap Range(out_buffer[1]) = {})'
  BY <1>5, <1>6, <1>7, <1>15 DEF Outs
<1>19. (\A q \in 1 .. queue_num : \A o \in Outs : InOrder(Source(q), out_buffer[o]))'
  <2>1. \A q \in 1 .. queue_num : \A o \in Outs : InOrder(Source(q), out_buffer'[o])
    BY <1>6, <1>7, <1>8, <1>15
  <2> QED
    BY <1>4, <2>1
<1> QED
  BY <1>11, <1>16, <1>17, <1>18, <1>19 DEF EmittedInv

LEMMA EmittedByEnd ==
    ASSUME TypeOK, RoundInv, FileInv, HeapInv, IdleInv, EmittedInv, EndRun
    PROVE  EmittedInv'
<1> DEFINE a == runs[RunCount]  b == out_buffer[0]  c == out_buffer[1]
           all == UNION {Range(Source(q)) : q \in 1 .. queue_num}
<1>1. /\ mpc = "await_writer" /\ mpc \in Merging /\ mpc \notin Ending /\ ~NextRound /\ Merge
      /\ runs' = AppendToRun(FlushOrder) /\ out_buffer' = AfterFlush /\ ~Emit
  BY DEF EndRun, Merging, Ending, NextRound, Merge, Emit
<1>2. a \in Seq(Elements) /\ b \in Seq(Elements) /\ c \in Seq(Elements) /\ 0 \in Outs /\ 1 \in Outs
  BY <1>1, WritingRun DEF TypeOK, Outs
<1>3. b \o c \in Seq(Elements)
  BY <1>2
<1>4. RunCount' = RunCount /\ runs'[RunCount] = a \o (b \o c)
  BY <1>1, <1>3, AppendToRunType DEF FlushOrder, RunCount
<1>5. \A o \in Outs : out_buffer'[o] = << >>
  BY <1>1 DEF AfterFlush
<1>6. /\ queue_num' = queue_num
      /\ \A q \in 1 .. queue_num : Source(q)' = Source(q)
  BY <1>1, SourceKept
<1>7. InRun' = InRun
  BY <1>1, RunKept
<1>8. /\ IsInjective(a) /\ IsInjective(b) /\ IsInjective(c)
      /\ Range(a) \cap Range(b) = {} /\ Range(a) \cap Range(c) = {} /\ Range(b) \cap Range(c) = {}
      /\ InRun \subseteq all
  BY <1>1, <1>2 DEF EmittedInv
<1> HIDE DEF a, b, c
<1>9. IsInjective(b \o c) /\ Range(b \o c) = Range(b) \cup Range(c)
  BY <1>2, <1>8, InjectiveConcat, RangeOfConcat
<1>10. Range(a) \cap Range(b \o c) = {}
  BY <1>8, <1>9
<1>11. IsInjective(a \o (b \o c))
  BY <1>2, <1>3, <1>8, <1>9, <1>10, InjectiveConcat
<1>12. IsInjective(<< >>) /\ Range(<< >>) = {} /\ \A s : InOrder(s, << >>)
  BY DEF IsInjective, Range, InOrder
<1>13. (InRun \subseteq all)'
  <2>1. all' = all
    BY <1>6
  <2> QED
    BY <1>7, <1>8, <2>1
<1>14. IsInjective(runs[RunCount])'
  BY <1>4, <1>11
<1>15. (\A o \in Outs : /\ IsInjective(out_buffer[o])
                        /\ Range(runs[RunCount]) \cap Range(out_buffer[o]) = {})'
  BY <1>5, <1>12
<1>16. (Range(out_buffer[0]) \cap Range(out_buffer[1]) = {})'
  BY <1>2, <1>5, <1>12
<1>17. (\A q \in 1 .. queue_num : \A o \in Outs : InOrder(Source(q), out_buffer[o]))'
  BY <1>5, <1>12
<1> QED
  BY <1>13, <1>14, <1>15, <1>16, <1>17 DEF EmittedInv


LEMMA EmittedByBegin ==
    ASSUME TypeOK, RoundInv, FileInv, HeapInv, IdleInv, BeginRun
    PROVE  EmittedInv'
<1>1. /\ mpc = "begin" /\ mpc \notin Ending /\ ~NextRound /\ Merge /\ ~Emit
      /\ runs' = Append(runs, << >>) /\ out_buffer' = out_buffer
  BY DEF BeginRun, Ending, NextRound, Merge, Emit, outVars
<1>2. runs'[RunCount'] = << >>
  <2>1. runs \in Seq(Seq(Elements))
    BY DEF TypeOK
  <2> QED
    BY <1>1, <2>1 DEF RunCount
<1>3. \A o \in Outs : out_buffer'[o] = << >>
  BY <1>1 DEF IdleInv, Merging
<1>4. 0 \in Outs /\ 1 \in Outs
  BY DEF Outs
<1>5. InRun = {}
  BY <1>1 DEF InRun, Merging
<1>6. InRun' = InRun
  BY <1>1, RunKept
<1>7. IsInjective(<< >>) /\ Range(<< >>) = {} /\ \A s : InOrder(s, << >>)
  BY DEF IsInjective, Range, InOrder
<1>8. IsInjective(runs[RunCount])'
  BY <1>2, <1>7
<1>9. (\A o \in Outs : /\ IsInjective(out_buffer[o])
                       /\ Range(runs[RunCount]) \cap Range(out_buffer[o]) = {})'
  BY <1>3, <1>7
<1>10. (Range(out_buffer[0]) \cap Range(out_buffer[1]) = {})'
  BY <1>3, <1>4, <1>7
<1>11. (\A q \in 1 .. queue_num : \A o \in Outs : InOrder(Source(q), out_buffer[o]))'
  BY <1>3, <1>7
<1>12. (InRun \subseteq UNION {Range(Source(q)) : q \in 1 .. queue_num})'
  BY <1>5, <1>6
<1> QED
  BY <1>8, <1>9, <1>10, <1>11, <1>12 DEF EmittedInv

LEMMA EmittedStep ==
    ASSUME TypeOK, RoundInv, FileInv, HeapInv, IdleInv, OffsetInv, LiveInv, EmittedInv, StreamsInv,
           Input \/ Merge \/ Writer
    PROVE  EmittedInv'
<1>1. CASE mpc' \notin Merging \cup {"next"}
  BY <1>1 DEF EmittedInv
<1>2. CASE mpc' \in Merging \cup {"next"} /\ mpc \in Ending
  <2>1. mpc' \in Ending
    <3>1. Input \/ Writer => mpc' = mpc
      BY InputFrame, WriterFrame
    <3>2. ~NextRound
      BY <1>2 DEF NextRound, Ending
    <3>3. Merge => mpc' \in Ending
      BY <1>2, <3>2, MergeStages DEF Ending, Preparing, Merging
    <3> QED
      BY <1>2, <3>1, <3>3
  <2> QED
    BY <1>2, <2>1 DEF Ending, Merging
<1>3. CASE mpc' \in Merging \cup {"next"} /\ mpc \notin Ending
  <2>1. ~NextRound
    BY <1>3 DEF NextRound, Merging
  <2>2. CASE Input \/ Writer
    <3>1. mpc' = mpc /\ UNCHANGED runs
      BY <2>2, InputFrame, WriterFrame
    <3>2. UNCHANGED out_buffer
      <4>1. wpc = "loop"
        BY <1>3 DEF RoundInv, Ending
      <4>2. Writer => UNCHANGED out_buffer
        BY <4>1 DEF Writer, WriterClear, WriterLeave, WriterDrain, outVars
      <4> QED
        BY <2>2, <4>2, InputFrame
    <3> QED
      BY <1>3, <2>1, <3>1, <3>2, EmittedKept
  <2>3. CASE Emit
    <3>1. mpc \notin Ending /\ inited /\ \A q \in 1 .. queue_num : q \in 1 .. K
      <4>1. mpc = "drain"
        BY <2>3 DEF Emit
      <4>2. inited
        BY <4>1 DEF RoundInv, Ending
      <4>3. \A q \in 1 .. queue_num : q \in 1 .. K
        BY <1>3, MergeRound, ConstantFacts
      <4> QED
        BY <1>3, <4>2, <4>3
    <3>2. \A q \in 1 .. queue_num : StreamInv(q)
      BY <3>1 DEF StreamsInv, Fresh
    <3> QED
      BY <2>3, <3>2, EmittedByEmit
  <2>4. CASE EndRun
    BY <2>4, EmittedByEnd
  <2>5. CASE BeginRun
    BY <2>5, EmittedByBegin
  <2>6. CASE Merge /\ ~Emit /\ ~EndRun /\ ~BeginRun
    <3>1. UNCHANGED <<runs, out_buffer>>
      BY <2>6 DEF Merge, AwaitInited, ReturnLeft, Take, Install, ScanEmpty, ScanNext,
                  AwaitInput, GiveBack, ClearCurrent, Drained, FinishRound, NextRound,
                  SetDone, runVars, outVars
    <3>2. mpc # "begin" \/ mpc' # "scan"
      BY <2>6 DEF Merge, AwaitInited, ReturnLeft, Take, Install, ScanEmpty, ScanNext,
                  AwaitInput, GiveBack, ClearCurrent, Drained, FinishRound, NextRound,
                  SetDone
    <3>3. mpc \in Merging \cup {"next"}
      <4>1. \/ mpc = "await" /\ mpc' = "clean"
            \/ mpc \in Preparing /\ mpc' \in Preparing
            \/ mpc \in Merging
            \/ mpc = "await_writer"
        BY <1>3, <2>1, <2>6, <3>2, MergeStages DEF Ending
      <4> QED
        BY <1>3, <4>1 DEF Merging, Preparing
    <3> QED
      BY <1>3, <2>1, <2>6, <3>1, <3>3, EmittedKept
  <2> QED
    BY <2>2, <2>3, <2>4, <2>5, <2>6
<1> QED
  BY <1>1, <1>2, <1>3


----------------------------------------------------------------------------
(* The complete runs *)

LEMMA LiveKept ==
    ASSUME LiveInv, Live' \subseteq Live, \A r \in 1 .. Complete : runs'[r] = runs[r]
    PROVE  LiveInv'
<1>1. \A r \in Live' : r \in Live /\ runs'[r] = runs[r]
  BY DEF Live
<1> DEFINE A == Live'
<1> HIDE DEF A
<1>2. \A r \in A : r \in Live /\ runs'[r] = runs[r]
  BY <1>1 DEF A
<1>3. \A r \in A : IsInjective(runs'[r])
  BY <1>2 DEF LiveInv
<1>4. \A r, s \in A : r # s => Range(runs'[r]) \cap Range(runs'[s]) = {}
  BY <1>2 DEF LiveInv
<1> QED
  BY <1>3, <1>4 DEF LiveInv, A

LEMMA LiveByEnd ==
    ASSUME TypeOK, RoundInv, FileInv, HeapInv, LiveInv, EmittedInv', EndRun
    PROVE  LiveInv'
<1>1. /\ mpc = "await_writer" /\ mpc' = "next" /\ mpc \in Merging /\ mpc \notin Ending \cup {"next"}
      /\ cur_task' = cur_task /\ ~NextRound /\ Merge /\ ~Emit
  BY DEF EndRun, Merging, Ending, NextRound, Merge, Emit
<1>2. /\ RunCount' = RunCount /\ RunCount \in Nat \ {0} /\ RunCount = Len(runs)
      /\ \A r \in 1 .. RunCount - 1 : runs'[r] = runs[r]
  <2>1. RunCount \in Nat \ {0} /\ RunCount = Len(runs)
    BY <1>1, WritingRun
  <2>2. ~(UNCHANGED <<runs, in_run>>) /\ ~BeginRun
    <3>1. in_run /\ in_run' = FALSE
      BY <1>1 DEF FileInv, EndRun
    <3> QED
      BY <1>1, <3>1 DEF BeginRun
  <2> QED
    BY <1>1, <2>1, <2>2, FileStep
<1>3. /\ queue_num' = queue_num
      /\ \A q \in 1 .. queue_num : Source(q)' = Source(q)
  BY <1>1, SourceKept
<1>4. Complete = RunCount - 1 /\ Complete' = RunCount
  BY <1>1, <1>2 DEF Complete, Merging
<1>5. /\ \A q \in 1 .. queue_num : Rounds[cur_task][q] + 1 \in Live
      /\ cur_task \in 1 .. Len(Rounds) /\ DOMAIN Rounds[cur_task] = 1 .. queue_num
  BY <1>1, SourcesLive, MergeRound
<1>6. /\ IsInjective(runs'[RunCount])
      /\ Range(runs'[RunCount]) \subseteq UNION {Range(Source(q)) : q \in 1 .. queue_num}
  <2> DEFINE all == UNION {Range(Source(q)) : q \in 1 .. queue_num}
  <2>1. IsInjective(runs[RunCount])' /\ (InRun \subseteq all)'
    BY <1>1 DEF EmittedInv
  <2>2. all' = all
    BY <1>3
  <2>3. Range(runs'[RunCount]) \subseteq InRun'
    BY <1>1, <1>2 DEF InRun
  <2> QED
    BY <1>2, <2>1, <2>2, <2>3
<1>7. ASSUME NEW r \in Live', r # RunCount
      PROVE  /\ r \in Live /\ runs'[r] = runs[r]
             /\ \A q \in 1 .. queue_num : r # Rounds[cur_task][q] + 1
  <2>1. r \in 1 .. RunCount /\ r \notin Used'
    BY <1>4 DEF Live
  <2>2. r \in 1 .. RunCount - 1
    BY <1>2, <1>7, <2>1
  <2>3. \A t \in 1 .. Len(Rounds) : t < cur_task \/ t = cur_task =>
            \A q \in DOMAIN Rounds[t] : r # Rounds[t][q] + 1
    BY <1>1, <2>1 DEF Used
  <2>4. r \notin Used
    BY <2>3 DEF Used
  <2> QED
    BY <1>2, <1>4, <1>5, <2>2, <2>3, <2>4 DEF Live
<1>8. ASSUME NEW r \in Live', r # RunCount
      PROVE  Range(runs'[r]) \cap Range(runs'[RunCount]) = {}
  <2>1. /\ r \in Live /\ runs'[r] = runs[r]
        /\ \A q \in 1 .. queue_num : r # Rounds[cur_task][q] + 1
    BY <1>7, <1>8
  <2>2. \A q \in 1 .. queue_num : Range(runs[r]) \cap Range(Source(q)) = {}
    BY <1>5, <2>1 DEF LiveInv, Source
  <2> QED
    BY <1>6, <2>1, <2>2
<1> DEFINE A == Live'
           w == runs'
<1>9. /\ \A r \in A : r = RunCount \/ (r \in Live /\ w[r] = runs[r])
      /\ \A r \in A : r # RunCount => Range(w[r]) \cap Range(w[RunCount]) = {}
      /\ IsInjective(w[RunCount])
  BY <1>6, <1>7, <1>8
<1> HIDE DEF A, w
<1>10. \A r \in A : IsInjective(w[r])
  BY <1>9 DEF LiveInv
<1>11. ASSUME NEW r \in A, NEW s \in A, r # s
       PROVE  Range(w[r]) \cap Range(w[s]) = {}
  <2>1. CASE r # RunCount /\ s # RunCount
    BY <1>9, <1>11, <2>1 DEF LiveInv
  <2>2. CASE r = RunCount
    BY <1>9, <1>11, <2>2
  <2>3. CASE s = RunCount
    BY <1>9, <1>11, <2>3
  <2> QED
    BY <2>1, <2>2, <2>3
<1> QED
  BY <1>10, <1>11 DEF LiveInv, A, w

(* All steps but the end of a run leave the complete runs as they are. *)
LEMMA LiveSame ==
    ASSUME TypeOK, FileInv, HeapInv, Input \/ Merge \/ Writer, ~EndRun
    PROVE  /\ Live' = Live
           /\ \A r \in 1 .. Complete : runs'[r] = runs[r]
<1>1. runs \in Seq(Seq(Elements)) /\ RunCount = Len(runs) /\ RunCount \in Nat
      /\ cur_task \in Nat
  BY DEF TypeOK, RunCount
<1>2. CASE Input \/ Writer
  <2>1. UNCHANGED <<mpc, cur_task, runs>>
    BY <1>2, InputFrame, WriterFrame
  <2>2. Complete' = Complete
    BY <2>1 DEF Complete, RunCount
  <2>3. Used' = Used
    BY <2>1 DEF Used
  <2> QED
    BY <2>1, <2>2, <2>3 DEF Live
<1>3. CASE NextRound
  <2>1. /\ mpc = "next" /\ cur_task' = cur_task + 1 /\ UNCHANGED runs
        /\ mpc' \in {"await", "final"}
    BY <1>3 DEF NextRound, runVars
  <2>2. Complete' = Complete
    BY <2>1 DEF Complete, RunCount, Merging
  <2>3. \A t \in 1 .. Len(Rounds) :
            t < cur_task \/ (t = cur_task /\ mpc = "next")
            <=> t < cur_task' \/ (t = cur_task' /\ mpc' = "next")
    BY <1>1, <2>1
  <2>4. Used' = Used
    BY <2>3 DEF Used
  <2> QED
    BY <2>1, <2>2, <2>4 DEF Live
<1>4. CASE BeginRun
  <2>1. /\ mpc = "begin" /\ mpc' = "scan" /\ cur_task' = cur_task
        /\ runs' = Append(runs, << >>)
    BY <1>4 DEF BeginRun
  <2>2. Complete = RunCount /\ Complete' = Len(runs') - 1
    BY <2>1 DEF Complete, RunCount, Merging
  <2>3. Len(runs') = RunCount + 1 /\ \A r \in 1 .. RunCount : runs'[r] = runs[r]
    BY <1>1, <2>1
  <2>4. Complete' = Complete /\ \A r \in 1 .. Complete : runs'[r] = runs[r]
    BY <1>1, <2>2, <2>3
  <2>5. Used' = Used
    BY <2>1, SMTT(60) DEF Used
  <2> QED
    BY <2>4, <2>5 DEF Live
<1>5. CASE Merge /\ ~NextRound /\ ~EndRun /\ ~BeginRun
  <2>1. cur_task' = cur_task /\ (mpc' \in Merging <=> mpc \in Merging) /\ mpc # "next" /\ mpc' # "next"
    BY <1>5 DEF Merge, AwaitInited, ReturnLeft, Take, Install, ScanEmpty, ScanNext,
                AwaitInput, Emit, GiveBack, ClearCurrent, Drained, FinishRound, SetDone,
                ToNextQueue, Merging
  <2>2. \/ UNCHANGED runs
        \/ /\ RunCount' = RunCount /\ mpc \in Merging
           /\ \A r \in 1 .. RunCount - 1 : runs'[r] = runs[r]
    BY <1>5, FileStep DEF Merging
  <2>3. Complete' = Complete /\ \A r \in 1 .. Complete : runs'[r] = runs[r]
    BY <2>1, <2>2 DEF Complete, RunCount
  <2>4. Used' = Used
    BY <2>1 DEF Used
  <2> QED
    BY <2>3, <2>4 DEF Live
<1> QED
  BY <1>2, <1>3, <1>4, <1>5

LEMMA LiveStep ==
    ASSUME TypeOK, RoundInv, FileInv, HeapInv, LiveInv, EmittedInv', Input \/ Merge \/ Writer
    PROVE  LiveInv'
<1>1. CASE EndRun
  BY <1>1, LiveByEnd
<1>2. CASE ~EndRun
  BY <1>2, LiveSame, LiveKept
<1> QED
  BY <1>1, <1>2


----------------------------------------------------------------------------
(* The inductive invariant *)

DataInv == StreamsInv /\ OffsetInv /\ IdleInv /\ EmittedInv /\ LiveInv

LEMMA DataInit == Init => DataInv
<1> SUFFICES ASSUME Init PROVE DataInv
  OBVIOUS
<1>1. /\ runs = InitialRuns /\ inited = FALSE /\ ipc = "round" /\ mpc \in {"await", "final"}
      /\ current_buffers = [q \in Queues |-> Null] /\ out_buffer = [o \in Outs |-> << >>]
      /\ cur_task = 1
  BY DEF Init
<1>2. StreamsInv
  <2>1. \A q : ~Fresh(q)
    BY <1>1 DEF Fresh, HasFirst, Refilling
  <2> QED
    BY <2>1 DEF StreamsInv
<1>3. OffsetInv
  BY <1>1 DEF OffsetInv
<1>4. IdleInv
  <2>1. mpc \notin Merging \cup {"heap_take", "heap_install", "begin", "give_back"}
    BY <1>1 DEF Merging
  <2>2. NoCurrent
    BY <1>1, <2>1 DEF NoCurrent
  <2> QED
    BY <1>1, <2>1, <2>2 DEF IdleInv
<1>5. EmittedInv
  BY <1>1 DEF EmittedInv, Merging
<1>6. LiveInv
  <2>1. \A r \in Live : r \in DOMAIN InitialSizes
    <3>1. Complete = Len(InitialRuns)
      BY <1>1 DEF Complete, RunCount, Merging
    <3>2. Complete = InitialCount
      BY <3>1, InitialRunsType
    <3> QED
      BY <3>2, RunsAssumption DEF Live, InitialCount
  <2> DEFINE run(r) == [p \in 1 .. InitialSizes[r] |-> <<r, p>>]
  <2>2. \A r \in Live : runs[r] = run(r)
    BY <1>1, <2>1 DEF InitialRuns
  <2>3. ASSUME NEW r
        PROVE  IsInjective(run(r)) /\ \A x \in Range(run(r)) : x[1] = r
    <3> DEFINE w == run(r)
    <3>1. \A p \in DOMAIN w : w[p] = <<r, p>>
      OBVIOUS
    <3> HIDE DEF w
    <3>2. IsInjective(w)
      BY <3>1 DEF IsInjective
    <3>3. \A x \in Range(w) : x[1] = r
      BY <3>1 DEF Range
    <3> QED
      BY <3>2, <3>3 DEF w
  <2> HIDE DEF run
  <2>4. \A r, s : r # s => Range(run(r)) \cap Range(run(s)) = {}
    BY <2>3
  <2> QED
    BY <2>2, <2>3, <2>4 DEF LiveInv
<1> QED
  BY <1>2, <1>3, <1>4, <1>5, <1>6 DEF DataInv

LEMMA DataStutter ==
    ASSUME DataInv, UNCHANGED vars
    PROVE  DataInv'
<1>1. /\ UNCHANGED <<key, runs, in_run, stray, pool, content, queue, run_size, elements_read,
                     current_buffers, inited, out_active, out_buffer, done_sorting>>
      /\ UNCHANGED <<ipc, round, slot, hand, run_offsets, last_key, min_index, min_key, wpc>>
      /\ UNCHANGED <<mpc, cur_task, i, pq, is_empty, finished, taken, src, cur_out,
                     cur_out_count>>
  BY DEF vars, fileVars, poolVars, queueVars, outVars, inputVars, mergeVars
<1>2. UNCHANGED <<Task, queue_num, RunCount, InRun>>
  BY <1>1 DEF Task, queue_num, RunCount, InRun
<1>3. \A q : /\ HasFirst(q)' <=> HasFirst(q)
             /\ Fresh(q)' <=> Fresh(q)
             /\ Source(q)' = Source(q) /\ Off(q)' = Off(q)
             /\ InHeap(q)' = InHeap(q) /\ Waiting(q)' = Waiting(q)
  BY <1>1, <1>2 DEF HasFirst, Fresh, Source, Off, InHeap, Waiting, Contents
<1>4. \A q : HandBuffers(q)' = HandBuffers(q)
  BY <1>1 DEF HandBuffers
<1>5. \A q : InHand(q)' = InHand(q)
  BY <1>1, <1>4 DEF InHand
<1>6. \A q : EmittedOf(q)' = EmittedOf(q)
  BY <1>2, <1>3 DEF EmittedOf
<1>7. StreamsInv'
  <2>1. ASSUME NEW q \in 1 .. K, Fresh(q)'
        PROVE  StreamInv(q)'
    <3>1. StreamInv(q)
      BY <1>3, <2>1 DEF DataInv, StreamsInv
    <3> QED
      BY <1>3, <1>5, <1>6, <3>1, StreamSame
  <2> QED
    BY <2>1 DEF StreamsInv
<1>8. OffsetInv'
  BY <1>1, <1>2, <1>3 DEF DataInv, OffsetInv
<1>9. IdleInv'
  BY <1>1, <1>2 DEF DataInv, IdleInv, NoCurrent
<1>10. EmittedInv'
  <2> DEFINE all == UNION {Range(Source(q)) : q \in 1 .. queue_num}
  <2>1. all' = all
    BY <1>2, <1>3
  <2> SUFFICES ASSUME mpc' \in Merging \cup {"next"} PROVE EmittedInv'
    BY DEF EmittedInv
  <2>2. mpc \in Merging \cup {"next"}
    BY <1>1
  <2>3. (InRun \subseteq all)'
    BY <1>2, <2>1, <2>2 DEF DataInv, EmittedInv
  <2>4. (\A q \in 1 .. queue_num : \A o \in Outs : InOrder(Source(q), out_buffer[o]))'
    BY <1>1, <1>2, <1>3, <2>2 DEF DataInv, EmittedInv
  <2> QED
    BY <1>1, <1>2, <2>2, <2>3, <2>4 DEF DataInv, EmittedInv
<1>11. LiveInv'
  <2>1. Complete' = Complete
    BY <1>1 DEF Complete, RunCount
  <2>2. Used' = Used
    BY <1>1 DEF Used
  <2>3. Live' = Live
    BY <2>1, <2>2 DEF Live
  <2> QED
    BY <1>1, <2>3, LiveKept DEF DataInv
<1> QED
  BY <1>7, <1>8, <1>9, <1>10, <1>11 DEF DataInv

LEMMA DataStep == ControlInv /\ DataInv /\ [Next]_vars => DataInv'
<1> SUFFICES ASSUME ControlInv, DataInv, [Next]_vars PROVE DataInv'
  OBVIOUS
<1>1. CASE UNCHANGED vars
  BY <1>1, DataStutter
<1>2. CASE Input \/ Merge \/ Writer
  <2>1. /\ TypeOK /\ RoundInv /\ FileInv /\ LoadInv /\ ScanInv /\ HeapInv /\ QueueInv
        /\ BuffersUnique
        /\ StreamsInv /\ OffsetInv /\ IdleInv /\ EmittedInv /\ LiveInv
    BY DEF ControlInv, DataInv
  <2>2. InOnePlace
    BY <2>1, UniqueMeansOnePlace
  <2>3. RoundInv'
    BY <1>2, <2>1, RoundInvStep
  <2>4. StreamsInv'
    BY <1>2, <2>1, <2>2, <2>3, StreamsStep
  <2>5. OffsetInv'
    BY <1>2, <2>1, <2>3, OffsetStep
  <2>6. IdleInv'
    BY <1>2, <2>1, <2>2, <2>3, IdleStep
  <2>7. EmittedInv'
    BY <1>2, <2>1, EmittedStep
  <2>8. LiveInv'
    BY <1>2, <2>1, <2>7, LiveStep
  <2> QED
    BY <2>4, <2>5, <2>6, <2>7, <2>8 DEF DataInv
<1> QED
  BY <1>1, <1>2 DEF Next, Joined

(* Where the elements are: what has been read of a run is in the new run, in the   *)
(* heap, in the hands of the merge thread or in a queue, each in the order of the  *)
(* run, and nothing of it twice (inputRun, kWayMerge).                             *)
THEOREM DataInvariant == Spec => [](ControlInv /\ DataInv)
<1>1. Init => ControlInv /\ DataInv
  BY ControlInit, DataInit
<1>2. ControlInv /\ DataInv /\ [Next]_vars => (ControlInv /\ DataInv)'
  BY ControlStep, DataStep
<1> QED
  BY <1>1, <1>2, PTL DEF Spec


----------------------------------------------------------------------------
(* What the runs check *)

LEMMA InRunOnce ==
    ASSUME ControlInv, DataInv, mpc \in Merging, NEW q \in 1 .. queue_num
    PROVE  /\ StreamInv(q) /\ IsInjective(Source(q)) /\ Source(q) \in Seq(Elements)
           /\ InRun \cap (InHeap(q) \cup InSeqs(Range(Waiting(q)))) = {}
<1>1. /\ TypeOK /\ RoundInv /\ FileInv /\ OffsetInv /\ LiveInv /\ StreamsInv
      /\ mpc \notin Ending \cup {"next"} /\ inited
  BY DEF ControlInv, DataInv, RoundInv, Ending, Merging
<1>2. q \in 1 .. K
  BY <1>1, MergeRound, ConstantFacts
<1>3. StreamInv(q)
  BY <1>1, <1>2 DEF StreamsInv, Fresh
<1>4. IsInjective(Source(q)) /\ Source(q) \in Seq(Elements)
  BY <1>1, SourcesDisjoint, SourceFacts
<1>5. ASSUME NEW x \in InRun, x \in InHeap(q) \cup InSeqs(Range(Waiting(q)))
      PROVE  FALSE
  <2>1. x \in Range(Source(q))
    BY <1>1, <1>3, <1>5, StreamElements
  <2>2. x \in EmittedOf(q)
    BY <1>5, <2>1 DEF EmittedOf
  <2>3. Before(Source(q), x, x)
    BY <1>3, <1>5, <2>2 DEF StreamInv, Stream, Precede
  <2> QED
    BY <1>4, <2>3, BeforeFacts
<1> QED
  BY <1>3, <1>4, <1>5

LEMMA QueuedIsWaiting == QueuedElements = UNION {InSeqs(Range(Waiting(q))) : q \in 1 .. queue_num}
<1>1. ASSUME NEW q
      PROVE  InSeqs(Range(Waiting(q))) = UNION {Range(content[queue[q][n]]) : n \in DOMAIN queue[q]}
  <2>1. Range(Waiting(q)) = {content[queue[q][n]] : n \in DOMAIN queue[q]}
    BY DEF Waiting, Contents, Range
  <2> QED
    BY <2>1 DEF InSeqs
<1> QED
  BY <1>1 DEF QueuedElements

(* No element is written twice, and none that is written is still in the heap or  *)
(* in a buffer of a queue (load_chunk's offsets, the reuse of buffers).           *)
THEOREM ElementsOnce == Spec => []NothingDuplicated
<1>1. ControlInv /\ DataInv => NothingDuplicated
  <2> SUFFICES ASSUME ControlInv, DataInv, mpc \in Merging
               PROVE  /\ IsInjective(Emitted)
                      /\ Range(Emitted) \cap ({e[1] : e \in pq} \cup QueuedElements) = {}
    BY DEF NothingDuplicated
  <2> DEFINE a == runs[RunCount]  b == out_buffer[0]  c == out_buffer[1]
  <2>1. a \in Seq(Elements) /\ b \in Seq(Elements) /\ c \in Seq(Elements) /\ 0 \in Outs /\ 1 \in Outs
    BY WritingRun DEF ControlInv, TypeOK, Outs
  <2>2. /\ IsInjective(a) /\ IsInjective(b) /\ IsInjective(c)
        /\ Range(a) \cap Range(b) = {} /\ Range(a) \cap Range(c) = {} /\ Range(b) \cap Range(c) = {}
    BY <2>1 DEF DataInv, EmittedInv
  <2>3. InRun = Range(a) \cup Range(b) \cup Range(c) /\ Emitted = (a \o b) \o c
    BY DEF InRun, Emitted
  <2> HIDE DEF a, b, c
  <2>4. /\ a \o b \in Seq(Elements) /\ IsInjective(a \o b)
        /\ Range(a \o b) = Range(a) \cup Range(b)
    BY <2>1, <2>2, InjectiveConcat, RangeOfConcat
  <2>5. Range(a \o b) \cap Range(c) = {}
    BY <2>2, <2>4
  <2>6. IsInjective(Emitted) /\ Range(Emitted) = InRun
    <3> DEFINE ab == a \o b
    <3> HIDE DEF ab
    <3>1. /\ ab \in Seq(Elements) /\ IsInjective(ab) /\ Range(ab) \cap Range(c) = {}
          /\ InRun = Range(ab) \cup Range(c) /\ Emitted = ab \o c
      BY <2>3, <2>4, <2>5 DEF ab
    <3>2. IsInjective(ab \o c)
      BY <2>1, <2>2, <3>1, InjectiveConcat
    <3>3. Range(ab \o c) = Range(ab) \cup Range(c)
      BY <2>1, <3>1, RangeOfConcat
    <3> QED
      BY <3>1, <3>2, <3>3
  <2>7. ASSUME NEW e \in pq PROVE e[1] \notin InRun
    <3>1. e[2] \in Queues /\ e[2] <= queue_num
      BY HeapSource DEF ControlInv, HeapInv
    <3>2. e[2] \in Nat \ {0}
      BY <3>1, ConstantFacts
    <3>3. queue_num \in Nat
      <4>1. mpc \notin Ending
        BY DEF Ending, Merging
      <4> QED
        BY <4>1, MergeRound DEF ControlInv
    <3>4. e[2] \in 1 .. queue_num
      BY <3>1, <3>2, <3>3
    <3>5. e[1] \in InHeap(e[2])
      BY DEF InHeap
    <3> QED
      BY <3>4, <3>5, InRunOnce
  <2>8. QueuedElements \cap InRun = {}
    BY InRunOnce, QueuedIsWaiting
  <2> QED
    BY <2>6, <2>7, <2>8
<1> QED
  BY <1>1, DataInvariant, PTL

(* The elements of one source reach an output buffer in the order of their run    *)
(* (addBuffer, getBuffer, the heap).                                              *)
THEOREM OrderOfSources == Spec => []SourceOrderKept
<1>1. ControlInv /\ DataInv => SourceOrderKept
  <2> SUFFICES ASSUME ControlInv, DataInv, mpc \in Merging,
                      NEW o \in Outs, NEW m \in DOMAIN out_buffer[o], NEW n \in DOMAIN out_buffer[o],
                      m < n, NEW r \in Sources, NEW u \in DOMAIN runs[r], NEW v \in DOMAIN runs[r],
                      runs[r][u] = out_buffer[o][m], runs[r][v] = out_buffer[o][n]
               PROVE  u < v
    BY DEF SourceOrderKept
  <2>1. PICK q \in 1 .. queue_num : r = Rounds[cur_task][q] + 1
    BY DEF Sources
  <2>2. Source(q) = runs[r] /\ IsInjective(Source(q)) /\ Source(q) \in Seq(Elements)
    BY <2>1, InRunOnce DEF Source
  <2>3. InOrder(Source(q), out_buffer[o])
    BY DEF DataInv, EmittedInv
  <2>4. out_buffer[o][m] \in Range(Source(q)) /\ out_buffer[o][n] \in Range(Source(q))
    BY <2>2 DEF Range
  <2>5. Before(Source(q), out_buffer[o][m], out_buffer[o][n])
    BY <2>3, <2>4 DEF InOrder
  <2> QED
    BY <2>2, <2>5, BeforeFacts
<1> QED
  BY <1>1, DataInvariant, PTL

(* At the end of a round the new run has every element of the runs it has read    *)
(* but those of buffers left in queues, which reset() will forget.                *)
LEMMA RoundTakesAll ==
    ASSUME ControlInv, DataInv, mpc = "next", NEW q \in 1 .. queue_num
    PROVE  Range(Source(q)) = (Range(runs[RunCount]) \cap Range(Source(q)))
                              \cup InSeqs(Range(Waiting(q)))
<1>1. /\ TypeOK /\ RoundInv /\ FileInv /\ ScanInv /\ QueueInv /\ HeapInv
      /\ OffsetInv /\ StreamsInv /\ IdleInv /\ NoCurrent
      /\ mpc \notin Ending /\ mpc \notin Merging /\ mpc \notin Merging \cup {"heap_take", "heap_install", "begin"}
      /\ inited
  BY DEF ControlInv, DataInv, RoundInv, Ending, Merging, IdleInv
<1>2. q \in 1 .. K /\ q \in Queues /\ Source(q) \in Seq(Elements)
  BY <1>1, SourceFacts, ConstantFacts
<1>3. StreamInv(q)
  BY <1>1, <1>2 DEF StreamsInv, Fresh
<1>4. Off(q) = Len(Source(q))
  <2>1. /\ run_offsets[q] \in Nat /\ run_size[q] \in Nat /\ elements_read[q] \in Nat
    BY <1>1, <1>2 DEF TypeOK
  <2>2. /\ run_size[q] = Len(Source(q)) /\ run_offsets[q] <= run_size[q]
        /\ elements_read[q] <= run_offsets[q]
    BY <1>1 DEF OffsetInv
  <2>3. ~(elements_read[q] < run_size[q])
    BY <1>1 DEF ScanInv, HasNext
  <2> QED
    BY <1>1, <2>1, <2>2, <2>3 DEF Off
<1>5. InHeap(q) = {}
  BY <1>1 DEF HeapInv, InHeap
<1>6. InHand(q) = {}
  <2>1. current_buffers[q] = Null /\ taken = Null
    BY <1>1, <1>2 DEF NoCurrent, QueueInv
  <2> QED
    BY <1>1, <1>2, <2>1, NoBufferInHand
<1>7. EmittedOf(q) = Range(runs[RunCount]) \cap Range(Source(q))
  <2>1. out_buffer[0] = << >> /\ out_buffer[1] = << >>
    BY <1>1 DEF IdleInv, Outs
  <2>2. Range(<< >>) = {}
    BY DEF Range
  <2> QED
    BY <2>1, <2>2 DEF EmittedOf, InRun
<1>8. {Source(q)[u] : u \in 1 .. Len(Source(q))} = Range(Source(q))
  BY <1>2 DEF Range
<1>9. InSeqs(InHand(q)) = {}
  BY <1>6 DEF InSeqs
<1> QED
  BY <1>3, <1>4, <1>5, <1>7, <1>8, <1>9 DEF StreamInv, Stream

LEMMA OnlyQueued == ControlInv /\ DataInv => OnlyQueuedIsLost
<1> SUFFICES ASSUME ControlInv, DataInv, mpc = "next"
             PROVE  Range(runs[RunCount]) \cup QueuedElements
                      = UNION {Range(runs[r]) : r \in Sources}
  BY DEF OnlyQueuedIsLost
<1> DEFINE all == UNION {Range(Source(q)) : q \in 1 .. queue_num}
           new == Range(runs[RunCount])
<1>1. UNION {Range(runs[r]) : r \in Sources} = all
  BY DEF Sources, Source
<1>2. new \subseteq all
  BY DEF DataInv, EmittedInv, InRun
<1>3. \A q \in 1 .. queue_num :
          Range(Source(q)) = (new \cap Range(Source(q))) \cup InSeqs(Range(Waiting(q)))
  BY RoundTakesAll
<1>4. QueuedElements = UNION {InSeqs(Range(Waiting(q))) : q \in 1 .. queue_num}
  BY QueuedIsWaiting
<1> HIDE DEF new
<1>5. new \cup QueuedElements = all
  BY <1>2, <1>3, <1>4
<1> QED
  BY <1>1, <1>5 DEF new

(* A round loses nothing but what is left in a queue (kWayMerge, reset).          *)
THEOREM RoundsLoseOnlyQueued == Spec => []OnlyQueuedIsLost
BY OnlyQueued, DataInvariant, PTL

----------------------------------------------------------------------------
(* What the merge may lose: an element disappears only together with a      *)
(* buffer that reset() has dropped, and that the pool never gets back.      *)

(* The buffer is neither in the pool nor in a queue, and no thread has it.         *)
Nowhere(b) ==
    /\ \A n \in DOMAIN pool : pool[n] # b
    /\ \A q \in Queues : \A n \in DOMAIN queue[q] : queue[q][n] # b
    /\ \A q \in Queues : current_buffers[q] = b => mpc = "clear" /\ q = src
    /\ hand # b /\ taken # b

(* Nothing is left for this round in a queue that is not fresh: what it still has *)
(* comes from an earlier round.                                                   *)
Stale(q) == mpc = "next" \/ ~Fresh(q)
Stranded == \E q \in Queues : queue[q] # << >> /\ Stale(q)

Whole == Elements = UNION {Range(runs[r]) : r \in Live}

(* An element is in a run that is still to be read, or a buffer is lost, or one   *)
(* will be when its queue is reset.                                               *)
LossInv == Whole \/ Stranded \/ \E b \in Buffers : Nowhere(b)

StrayInv == stray = << >>


----------------------------------------------------------------------------
(* A buffer that is nowhere stays so *)

LEMMA NotInAppend ==
    ASSUME NEW S, NEW s \in Seq(S), NEW x \in S, NEW b, x # b, \A n \in DOMAIN s : s[n] # b
    PROVE  \A n \in DOMAIN Append(s, x) : Append(s, x)[n] # b
<1>1. /\ DOMAIN s = 1 .. Len(s) /\ Len(s) \in Nat
      /\ DOMAIN Append(s, x) = 1 .. Len(s) + 1
      /\ \A n \in 1 .. Len(s) + 1 : Append(s, x)[n] = IF n = Len(s) + 1 THEN x ELSE s[n]
  OBVIOUS
<1>2. \A n \in 1 .. Len(s) + 1 : n = Len(s) + 1 \/ n \in 1 .. Len(s)
  BY <1>1
<1> QED
  BY <1>1, <1>2

LEMMA NowhereInput ==
    ASSUME TypeOK, RoundInv, FileInv, LoadInv, Input, NEW b \in Buffers, Nowhere(b)
    PROVE  Nowhere(b)'
<1>1. /\ pool \in Seq(Buffers) /\ queue \in [Queues -> Seq(Buffers)] /\ slot \in Queues
      /\ hand \in Buffers \cup {Null}
  BY DEF TypeOK
<1>2. UNCHANGED <<current_buffers, taken, mpc, src>>
  BY InputFrame
<1>3. Null # b
  BY ConstantFacts
<1>4. CASE AwaitRound \/ CountFirst \/ PublishRound \/ ScanCurrent \/ ScanQueue \/ CountNext
  <2>1. UNCHANGED <<pool, queue, hand>>
    BY <1>4 DEF AwaitRound, CountFirst, PublishRound, ScanCurrent, ScanQueue, CountNext,
                poolVars, queueVars
  <2> QED
    BY <1>2, <2>1 DEF Nowhere
<1>5. CASE ResetQueue
  <2>1. UNCHANGED <<pool, hand>> /\ queue' = [queue EXCEPT ![slot] = << >>]
    BY <1>5 DEF ResetQueue, poolVars
  <2>2. /\ \A n : n \notin DOMAIN << >>
        /\ queue'[slot] = << >>
        /\ \A q \in Queues : q # slot => queue'[q] = queue[q]
    BY <1>1, <2>1
  <2>3. \A q \in Queues : \A n \in DOMAIN queue'[q] : queue'[q][n] # b
    BY <2>2 DEF Nowhere
  <2> QED
    BY <1>2, <2>1, <2>3 DEF Nowhere
<1>6. CASE GetBuffer
  <2>1. /\ pool # << >> /\ hand' = Last(pool) /\ pool' = Front(pool) /\ UNCHANGED queue
    BY <1>6 DEF GetBuffer, queueVars
  <2>2. /\ Last(pool) = pool[Len(pool)] /\ Len(pool) \in Nat \ {0}
        /\ Front(pool) \in Seq(Buffers) /\ Len(Front(pool)) = Len(pool) - 1
        /\ \A n \in 1 .. Len(pool) - 1 : Front(pool)[n] = pool[n]
    BY <1>1, <2>1, LastOfPool
  <2>3. /\ Len(pool) \in DOMAIN pool /\ DOMAIN pool = 1 .. Len(pool)
        /\ DOMAIN Front(pool) = 1 .. Len(pool) - 1
        /\ \A n \in 1 .. Len(pool) - 1 : n \in DOMAIN pool
    BY <1>1, <2>2
  <2>4. hand' # b /\ \A n \in DOMAIN pool' : pool'[n] # b
    BY <2>1, <2>2, <2>3 DEF Nowhere
  <2> QED
    BY <1>2, <2>1, <2>4 DEF Nowhere
<1>7. ASSUME NEW p \in Queues, hand \in Buffers, hand' = Null, UNCHANGED pool,
             queue' = [queue EXCEPT ![p] = Append(@, hand)]
      PROVE  Nowhere(b)'
  <2>1. /\ queue'[p] = Append(queue[p], hand) /\ queue[p] \in Seq(Buffers)
        /\ \A q \in Queues : q # p => queue'[q] = queue[q]
    BY <1>1, <1>7
  <2>2. hand # b /\ \A n \in DOMAIN queue[p] : queue[p][n] # b
    BY DEF Nowhere
  <2>3. \A n \in DOMAIN queue'[p] : queue'[p][n] # b
    BY <1>7, <2>1, <2>2, NotInAppend
  <2>4. \A q \in Queues : \A n \in DOMAIN queue'[q] : queue'[q][n] # b
    BY <2>1, <2>3 DEF Nowhere
  <2> QED
    BY <1>2, <1>3, <1>7, <2>4 DEF Nowhere
<1>8. CASE AddFirst
  <2>1. /\ queue' = [queue EXCEPT ![slot] = Append(@, hand)] /\ hand' = Null /\ UNCHANGED pool
        /\ hand \in Buffers
    BY <1>1, <1>8 DEF AddFirst, Enqueue, LoadInv
  <2> QED
    BY <1>1, <1>7, <2>1
<1>9. CASE AddNext
  <2>1. /\ queue' = [queue EXCEPT ![min_index] = Append(@, hand)] /\ hand' = Null
        /\ UNCHANGED pool /\ ipc = "add"
    BY <1>9 DEF AddNext, Enqueue
  <2>2. min_index \in Queues /\ hand \in Buffers
    BY <2>1, NextChunk
  <2> QED
    BY <1>7, <2>1, <2>2
<1> QED
  BY <1>4, <1>5, <1>6, <1>8, <1>9 DEF Input

LEMMA NowhereMerge ==
    ASSUME TypeOK, HeapInv, QueueInv, Merge, NEW b \in Buffers, Nowhere(b)
    PROVE  Nowhere(b)'
<1>1. /\ pool \in Seq(Buffers) /\ queue \in [Queues -> Seq(Buffers)]
      /\ current_buffers \in [Queues -> Buffers \cup {Null}]
      /\ taken \in Buffers \cup {Null} /\ i \in Queues /\ src \in Queues
  BY DEF TypeOK
<1>2. UNCHANGED hand
  BY MergeFrame
<1>3. Null # b
  BY ConstantFacts
<1>4. CASE AwaitInited \/ BeginRun \/ ScanEmpty \/ ScanNext \/ AwaitInput \/ Drained
             \/ FinishRound \/ EndRun \/ NextRound \/ SetDone \/ Emit
  <2>1. UNCHANGED <<pool, queue, taken, current_buffers>>
    BY <1>4 DEF AwaitInited, BeginRun, ScanEmpty, ScanNext, AwaitInput, Drained, FinishRound,
                EndRun, NextRound, SetDone, Emit, poolVars, scanVars
  <2>2. mpc # "clear"
    BY <1>4 DEF AwaitInited, BeginRun, ScanEmpty, ScanNext, AwaitInput, Drained, FinishRound,
                EndRun, NextRound, SetDone, Emit
  <2>3. \A q \in Queues : current_buffers[q] # b
    BY <2>2 DEF Nowhere
  <2> QED
    BY <1>2, <2>1, <2>3 DEF Nowhere
<1>5. CASE ClearCurrent
  <2>1. /\ UNCHANGED <<pool, queue, taken>>
        /\ current_buffers' = [current_buffers EXCEPT ![src] = Null]
    BY <1>5 DEF ClearCurrent, Cleared, poolVars, scanVars
  <2>2. /\ current_buffers'[src] = Null
        /\ \A q \in Queues : q # src => current_buffers'[q] = current_buffers[q]
    BY <1>1, <2>1
  <2>3. \A q \in Queues : current_buffers'[q] # b
    BY <1>3, <2>2 DEF Nowhere
  <2> QED
    BY <1>2, <2>1, <2>3 DEF Nowhere
(* A buffer goes from current_buffers to the back of the pool. *)
<1>6. ASSUME NEW p \in Queues, current_buffers[p] \in Buffers, mpc # "clear",
             UNCHANGED <<queue, taken>>, pool' = Append(pool, current_buffers[p]),
             \A q \in Queues : current_buffers'[q] \in {current_buffers[q], Null}
      PROVE  Nowhere(b)'
  <2>1. \A q \in Queues : current_buffers[q] # b
    BY <1>6 DEF Nowhere
  <2>2. \A n \in DOMAIN pool : pool[n] # b
    BY DEF Nowhere
  <2>3. \A n \in DOMAIN pool' : pool'[n] # b
    BY <1>1, <1>6, <2>1, <2>2, NotInAppend
  <2>4. \A q \in Queues : current_buffers'[q] # b
    BY <1>3, <1>6, <2>1
  <2> QED
    BY <1>2, <1>6, <2>3, <2>4 DEF Nowhere
<1>7. CASE ReturnLeft
  <2>1. UNCHANGED <<queue, taken>> /\ mpc # "clear"
    BY <1>7 DEF ReturnLeft
  <2>2. CASE MustReturn
    <3>1. /\ pool' = Append(pool, current_buffers[i])
          /\ current_buffers' = [current_buffers EXCEPT ![i] = Null]
          /\ current_buffers[i] \in Buffers
      BY <1>1, <1>7, <2>2 DEF ReturnLeft, MustReturn
    <3>2. \A q \in Queues : current_buffers'[q] \in {current_buffers[q], Null}
      BY <1>1, <3>1
    <3> QED
      BY <1>1, <1>6, <2>1, <3>1, <3>2
  <2>3. CASE ~MustReturn
    <3>1. UNCHANGED <<pool, current_buffers>>
      BY <1>7, <2>3 DEF ReturnLeft
    <3>2. \A q \in Queues : current_buffers[q] # b
      BY <2>1 DEF Nowhere
    <3> QED
      BY <1>2, <2>1, <3>1, <3>2 DEF Nowhere
  <2> QED
    BY <2>2, <2>3
<1>8. CASE GiveBack
  <2>1. /\ pool' = Append(pool, current_buffers[src]) /\ mpc = "give_back"
        /\ UNCHANGED <<queue, taken, current_buffers>>
    BY <1>8 DEF GiveBack, scanVars
  <2>2. current_buffers[src] \in Buffers
    BY <1>1, <2>1 DEF HeapInv
  <2> QED
    BY <1>1, <1>6, <2>1, <2>2
<1>9. CASE Install
  <2>1. /\ mpc \in {"heap_install", "install"} /\ taken' = Null
        /\ current_buffers' = [current_buffers EXCEPT ![i] = taken]
        /\ UNCHANGED <<pool, queue>>
    BY <1>9 DEF Install
  <2>2. \A q \in Queues : current_buffers[q] # b /\ taken # b
    BY <2>1 DEF Nowhere
  <2>3. \A q \in Queues : current_buffers'[q] # b
    BY <1>1, <2>1, <2>2
  <2> QED
    BY <1>2, <1>3, <2>1, <2>3 DEF Nowhere
<1>10. CASE Take
  <2>1. mpc # "clear" /\ UNCHANGED <<pool, current_buffers>>
    BY <1>10 DEF Take, poolVars
  <2>2. \A q \in Queues : current_buffers[q] # b
    BY <2>1 DEF Nowhere
  <2>3. CASE Empty(i)
    <3>1. UNCHANGED queue /\ taken' = Null
      BY <1>10, <2>3 DEF Take
    <3> QED
      BY <1>2, <1>3, <2>1, <2>2, <3>1 DEF Nowhere
  <2>4. CASE ~Empty(i)
    <3> DEFINE s == queue[i]
    <3>1. /\ taken' = Head(s) /\ queue' = [queue EXCEPT ![i] = Tail(s)]
          /\ s \in Seq(Buffers) /\ s # << >> /\ \A n \in DOMAIN s : s[n] # b
      BY <1>1, <1>10, <2>4 DEF Take, Empty, Nowhere
    <3>2. /\ queue'[i] = Tail(s)
          /\ \A q \in Queues : q # i => queue'[q] = queue[q]
      BY <1>1, <3>1
    <3> HIDE DEF s
    <3>3. /\ Head(s) = s[1] /\ 1 \in DOMAIN s
          /\ \A n \in DOMAIN Tail(s) : n + 1 \in DOMAIN s /\ Tail(s)[n] = s[n + 1]
      BY <3>1, HeadAndTail
    <3>4. taken' # b /\ \A n \in DOMAIN Tail(s) : Tail(s)[n] # b
      BY <3>1, <3>3
    <3>5. \A q \in Queues : \A n \in DOMAIN queue'[q] : queue'[q][n] # b
      BY <3>2, <3>4 DEF Nowhere
    <3> QED
      BY <1>2, <2>1, <2>2, <3>4, <3>5 DEF Nowhere
  <2> QED
    BY <2>3, <2>4
<1> QED
  BY <1>4, <1>5, <1>7, <1>8, <1>9, <1>10 DEF Merge

LEMMA NowhereStays ==
    ASSUME TypeOK, RoundInv, FileInv, LoadInv, HeapInv, QueueInv, Input \/ Merge \/ Writer,
           NEW b \in Buffers, Nowhere(b)
    PROVE  Nowhere(b)'
<1>1. CASE Writer
  <2>1. UNCHANGED <<pool, queue, current_buffers, hand, taken, mpc, src>>
    BY <1>1, WriterFrame
  <2> QED
    BY <2>1 DEF Nowhere
<1> QED
  BY <1>1, NowhereInput, NowhereMerge



----------------------------------------------------------------------------
(* Buffers that are left in queues *)

(* A queue that is reset drops its buffers. *)
LEMMA ResetDrops ==
    ASSUME TypeOK, InOnePlace, ResetQueue, queue[slot] # << >>
    PROVE  \E b \in Buffers : Nowhere(b)'
<1>1. /\ pool \in Seq(Buffers) /\ queue \in [Queues -> Seq(Buffers)] /\ slot \in Queues
      /\ current_buffers \in [Queues -> Buffers \cup {Null}]
  BY DEF TypeOK
<1>2. queue[slot] \in Seq(Buffers) /\ Len(queue[slot]) \in Nat \ {0}
  BY <1>1
<1>3. queue[slot][1] \in Buffers /\ 1 \in 1 .. Len(queue[slot])
  BY <1>2
<1>4. PICK b \in Buffers : At(b, "queue", slot, 1)
  BY <1>1, <1>3 DEF At
<1>5. \A k, q, n : At(b, k, q, n) => k = "queue" /\ q = slot
  BY <1>4 DEF InOnePlace
<1>6. /\ UNCHANGED <<pool, hand, current_buffers, taken, mpc, src>>
      /\ queue' = [queue EXCEPT ![slot] = << >>]
  BY DEF ResetQueue, poolVars, inputKeeps, mergeVars
<1>7. \A n \in DOMAIN pool : pool[n] # b
  <2>1. \A n \in DOMAIN pool : pool[n] = b => At(b, "pool", 0, n)
    BY <1>1 DEF At
  <2> QED
    BY <1>5, <2>1
<1>8. \A q \in Queues : \A n \in DOMAIN queue'[q] : queue'[q][n] # b
  <2>1. /\ queue'[slot] = << >> /\ \A n : n \notin DOMAIN << >>
        /\ \A q \in Queues : q # slot => queue'[q] = queue[q]
    BY <1>1, <1>6
  <2>2. \A q \in Queues : \A n \in DOMAIN queue[q] : queue[q][n] = b => At(b, "queue", q, n)
    BY <1>1 DEF At
  <2> QED
    BY <1>5, <2>1, <2>2
<1>9. \A q \in Queues : current_buffers[q] = b => mpc = "clear" /\ q = src
  <2>1. \A q \in Queues : current_buffers[q] = b => (mpc = "clear" /\ q = src) \/ At(b, "current", q, 0)
    BY DEF At
  <2> QED
    BY <1>5, <2>1
<1>10. hand # b /\ taken # b
  <2>1. (hand = b => At(b, "hand", 0, 0)) /\ (taken = b => At(b, "taken", 0, 0))
    BY DEF At
  <2> QED
    BY <1>5, <2>1
<1>11. Nowhere(b)'
  BY <1>6, <1>7, <1>8, <1>9, <1>10 DEF Nowhere
<1> QED
  BY <1>11

(* A queue that is not of this round, or not yet, keeps what it has until then.   *)
LEMMA StrandedStep ==
    ASSUME TypeOK, RoundInv, FileInv, LoadInv, ScanInv, HeapInv, QueueInv, IdleInv, RoundInv',
           InOnePlace, Stranded, Input \/ Merge \/ Writer
    PROVE  Stranded' \/ \E b \in Buffers : Nowhere(b)'
<1>1. PICK q \in Queues : queue[q] # << >> /\ Stale(q)
  BY DEF Stranded
<1>2. queue \in [Queues -> Seq(Buffers)] /\ i \in Queues /\ slot \in Queues
  BY DEF TypeOK
<1>3. CASE ResetQueue /\ slot = q
  BY <1>1, <1>3, ResetDrops
<1>4. CASE ~(ResetQueue /\ slot = q)
  <2>1. queue'[q] # << >>
    <3>1. CASE Input
      <4>1. CASE ResetQueue
        <5>1. queue' = [queue EXCEPT ![slot] = << >>]
          BY <4>1 DEF ResetQueue
        <5>2. queue'[q] = queue[q]
          BY <1>2, <1>4, <4>1, <5>1
        <5> QED
          BY <1>1, <5>2
      <4>2. CASE ~ResetQueue
        BY <1>1, <3>1, <4>2, QueuesGrow
      <4> QED
        BY <4>1, <4>2
    <3>2. CASE Take
      <4>1. mpc \in {"heap_take", "take"} /\ \A p \in Queues : p # i => queue'[p] = queue[p]
        <5>1. queue' = queue \/ queue' = [queue EXCEPT ![i] = Tail(queue[i])]
          BY <3>2 DEF Take
        <5>2. \A p \in Queues : p # i => queue'[p] = queue[p]
          BY <1>2, <5>1
        <5> QED
          BY <3>2, <5>2 DEF Take
      <4>2. inited /\ mpc \notin Ending /\ mpc # "next"
        BY <4>1 DEF RoundInv, Ending
      <4>3. i \in 1 .. queue_num
        <5>1. i <= queue_num
          BY <4>1 DEF ScanInv, Scanning
        <5>2. i \in Nat \ {0}
          BY <1>2, ConstantFacts
        <5>3. queue_num \in Nat
          BY <4>2, MergeRound
        <5> QED
          BY <5>1, <5>2, <5>3
      <4>4. Fresh(i)
        BY <4>2, <4>3 DEF Fresh
      <4>5. q # i
        BY <1>1, <4>2, <4>4 DEF Stale
      <4> QED
        BY <1>1, <4>1, <4>5
    <3>3. CASE Merge /\ ~Take
      <4>1. UNCHANGED queue
        BY <3>3 DEF Merge, AwaitInited, ReturnLeft, Install, BeginRun, ScanEmpty, ScanNext,
                    AwaitInput, Emit, GiveBack, ClearCurrent, Drained, FinishRound, EndRun,
                    NextRound, SetDone
      <4> QED
        BY <1>1, <4>1, SMTT(60)
    <3>4. CASE Writer
      BY <1>1, <3>4, WriterFrame
    <3> QED
      BY <3>1, <3>2, <3>3, <3>4
  <2>2. Stale(q)'
    <3> SUFFICES ASSUME mpc' # "next", Fresh(q)' PROVE FALSE
      BY DEF Stale
    <3>1. ~NextRound /\ (Fresh(q) \/ (AddFirst /\ q = slot))
      BY FreshStep
    <3>2. CASE Fresh(q)
      <4>1. mpc = "next"
        BY <1>1, <3>2 DEF Stale
      <4>2. Merge
        BY <4>1, InputFrame, WriterFrame
      <4> QED
        BY <3>1, <4>1, <4>2, MergeStages DEF Preparing, Merging
    <3>3. CASE AddFirst /\ q = slot
      <4>1. queue[slot] = << >>
        BY <3>3 DEF AddFirst, IdleInv
      <4> QED
        BY <1>1, <3>3, <4>1
    <3> QED
      BY <3>1, <3>2, <3>3
  <2> QED
    BY <2>1, <2>2 DEF Stranded
<1> QED
  BY <1>3, <1>4



----------------------------------------------------------------------------
(* The elements *)

(* The elements of the runs that a round reads are in its new run, if no buffer    *)
(* is left in a queue.                                                             *)
LEMMA WholeByEnd ==
    ASSUME ControlInv, DataInv, Whole, ControlInv', DataInv', EndRun
    PROVE  Whole' \/ Stranded'
<1> SUFFICES ASSUME ~Stranded' PROVE Whole'
  OBVIOUS
<1>1. /\ TypeOK /\ RoundInv /\ FileInv /\ HeapInv
      /\ mpc = "await_writer" /\ mpc' = "next" /\ mpc \in Merging /\ mpc \notin Ending \cup {"next"}
      /\ cur_task' = cur_task /\ ~NextRound /\ Merge
  BY DEF ControlInv, EndRun, Merging, Ending, NextRound, Merge
<1>2. /\ RunCount' = RunCount /\ RunCount \in Nat \ {0} /\ RunCount = Len(runs)
      /\ \A r \in 1 .. RunCount - 1 : runs'[r] = runs[r]
  <2>1. RunCount \in Nat \ {0} /\ RunCount = Len(runs)
    BY <1>1, WritingRun
  <2>2. ~(UNCHANGED <<runs, in_run>>) /\ ~BeginRun
    <3>1. in_run /\ in_run' = FALSE
      BY <1>1 DEF FileInv, EndRun
    <3> QED
      BY <1>1, <3>1 DEF BeginRun
  <2> QED
    BY <1>1, <2>1, <2>2, FileStep
<1>3. /\ queue_num' = queue_num /\ queue_num \in 2 .. K
      /\ cur_task \in 1 .. Len(Rounds) /\ DOMAIN Rounds[cur_task] = 1 .. queue_num
      /\ \A q \in 1 .. queue_num : Source(q)' = Source(q) /\ q \in Queues
  BY <1>1, SourceKept, MergeRound
<1>4. Complete = RunCount - 1 /\ Complete' = RunCount
  BY <1>1, <1>2 DEF Complete, Merging
<1>5. QueuedElements' = {}
  <2>1. ASSUME NEW q \in 1 .. queue_num', NEW n \in DOMAIN queue'[q] PROVE FALSE
    <3>1. q \in Queues /\ queue'[q] # << >>
      BY <1>3, <2>1
    <3> QED
      BY <1>1, <3>1 DEF Stranded, Stale
  <2> QED
    BY <2>1 DEF QueuedElements
<1> DEFINE all == UNION {Range(Source(q)) : q \in 1 .. queue_num}
           new == Range(runs'[RunCount])
<1>6. new = all
  <2>1. OnlyQueuedIsLost'
    BY OnlyQueued, PTL
  <2>2. Range(runs'[RunCount']) \cup QueuedElements' = (UNION {Range(runs[r]) : r \in Sources})'
    BY <1>1, <2>1 DEF OnlyQueuedIsLost
  <2>3. (UNION {Range(runs[r]) : r \in Sources})' = all'
    BY DEF Sources, Source
  <2>4. all' = all
    BY <1>3
  <2> QED
    BY <1>2, <1>5, <2>2, <2>3, <2>4
<1>7. RunCount \in Live'
  <2>1. RunCount = InitialCount + cur_task
    <3>1. InitialCount \in Nat /\ cur_task \in Nat
      BY <1>3, ConstantFacts
    <3>2. RunCount = InitialCount + cur_task - 1 + 1
      BY <1>1 DEF FileInv
    <3> QED
      BY <3>1, <3>2
  <2>2. ASSUME NEW t \in 1 .. Len(Rounds), t < cur_task \/ t = cur_task, NEW q \in DOMAIN Rounds[t]
        PROVE  RunCount # Rounds[t][q] + 1
    <3>1. Rounds[t][q] \in Nat /\ Rounds[t][q] < InitialCount + t - 1
      BY RoundFacts
    <3>2. InitialCount \in Nat /\ cur_task \in Nat /\ t \in Nat /\ t <= cur_task
      BY <1>3, <2>2, ConstantFacts
    <3> QED
      BY <2>1, <3>1, <3>2
  <2>3. RunCount \notin Used'
    BY <1>1, <2>2 DEF Used
  <2> QED
    BY <1>2, <1>4, <2>3 DEF Live
<1>8. ASSUME NEW r \in Live
      PROVE  (\E q \in 1 .. queue_num : runs[r] = Source(q)) \/ (r \in Live' /\ runs'[r] = runs[r])
  <2>1. r \in 1 .. RunCount - 1 /\ r \notin Used
    BY <1>4 DEF Live
  <2>2. runs'[r] = runs[r] /\ r \in 1 .. RunCount
    BY <1>2, <2>1
  <2>3. CASE \E q \in 1 .. queue_num : r = Rounds[cur_task][q] + 1
    BY <2>3 DEF Source
  <2>4. CASE ~\E q \in 1 .. queue_num : r = Rounds[cur_task][q] + 1
    <3>1. \A t \in 1 .. Len(Rounds) : t < cur_task => \A q \in DOMAIN Rounds[t] : r # Rounds[t][q] + 1
      BY <2>1 DEF Used
    <3>2. r \notin Used'
      BY <1>1, <1>3, <2>4, <3>1 DEF Used
    <3> QED
      BY <1>4, <2>2, <3>2 DEF Live
  <2> QED
    BY <2>3, <2>4
<1>9. ASSUME NEW r \in Live'
      PROVE  Range(runs'[r]) \subseteq Elements
  <2>1. runs' \in Seq(Seq(Elements))
    BY DEF ControlInv, TypeOK
  <2>2. r \in 1 .. Len(runs')
    BY <1>2, <1>4, <1>9 DEF Live, RunCount
  <2>3. runs'[r] \in Seq(Elements)
    BY <2>1, <2>2
  <2> QED
    BY <2>3 DEF Range
<1> DEFINE A == Live'
           w == runs'
<1>10. /\ RunCount \in A /\ Range(w[RunCount]) = all
       /\ \A r \in Live : (\E q \in 1 .. queue_num : runs[r] = Source(q)) \/ (r \in A /\ w[r] = runs[r])
       /\ \A r \in A : Range(w[r]) \subseteq Elements
  BY <1>6, <1>7, <1>8, <1>9
<1> HIDE DEF A, w
<1>11. ASSUME NEW x \in Elements PROVE \E r \in A : x \in Range(w[r])
  <2>1. PICK r \in Live : x \in Range(runs[r])
    BY <1>11 DEF Whole
  <2>2. CASE \E q \in 1 .. queue_num : runs[r] = Source(q)
    BY <1>10, <2>1, <2>2
  <2>3. CASE r \in A /\ w[r] = runs[r]
    BY <2>1, <2>3
  <2> QED
    BY <1>10, <2>2, <2>3
<1>12. Elements = UNION {Range(w[r]) : r \in A}
  BY <1>10, <1>11
<1> QED
  BY <1>12 DEF Whole, A, w

LEMMA WholeStep ==
    ASSUME ControlInv, DataInv, Whole, ControlInv', DataInv', Input \/ Merge \/ Writer
    PROVE  Whole' \/ Stranded'
<1>1. CASE EndRun
  BY <1>1, WholeByEnd
<1>2. CASE ~EndRun
  <2>1. Live' = Live /\ \A r \in 1 .. Complete : runs'[r] = runs[r]
    BY <1>2, LiveSame DEF ControlInv
  <2>2. \A r \in Live : runs'[r] = runs[r]
    BY <2>1 DEF Live
  <2> DEFINE w == runs'
  <2>3. \A r \in Live : w[r] = runs[r]
    BY <2>2
  <2> HIDE DEF w
  <2>4. UNION {Range(w[r]) : r \in Live} = UNION {Range(runs[r]) : r \in Live}
    BY <2>3
  <2>5. Elements = UNION {Range(w[r]) : r \in Live}
    BY <2>4 DEF Whole
  <2> QED
    BY <2>1, <2>5 DEF Whole, w
<1> QED
  BY <1>1, <1>2

(* writer_p's flush_direct finds the output buffers empty. *)
LEMMA StrayStep ==
    ASSUME ControlInv, DataInv, StrayInv, Input \/ Merge \/ Writer
    PROVE  StrayInv'
<1>1. CASE Input \/ Merge
  BY <1>1, InputFrame, MergeFrame DEF StrayInv
<1>2. CASE WriterClear \/ WriterLeave
  BY <1>2 DEF WriterClear, WriterLeave, mergeKeeps, StrayInv
<1>3. ASSUME NEW o \in Outs, stray' = stray \o out_buffer[o], wpc # "loop"
      PROVE  StrayInv'
  <2>1. mpc = "done"
    BY <1>3 DEF ControlInv, RoundInv
  <2>2. out_buffer[o] = << >>
    BY <2>1 DEF DataInv, IdleInv, Merging
  <2> QED
    BY <1>3, <2>2 DEF StrayInv
<1>4. CASE Writer /\ ~WriterClear /\ ~WriterLeave
  <2>1. 0 \in Outs /\ 1 \in Outs
    BY DEF Outs
  <2>2. \E o \in Outs : stray' = stray \o out_buffer[o] /\ wpc # "loop"
    BY <1>4, <2>1 DEF Writer, WriterDrain
  <2> QED
    BY <1>3, <2>2
<1> QED
  BY <1>1, <1>2, <1>4

LEMMA LossInit == Init => LossInv /\ StrayInv
<1> SUFFICES ASSUME Init PROVE Whole /\ StrayInv
  BY DEF LossInv
<1>1. runs = InitialRuns /\ stray = << >> /\ mpc \in {"await", "final"} /\ cur_task = 1
  BY DEF Init
<1>2. Complete = InitialCount
  <2>1. Complete = Len(InitialRuns)
    BY <1>1 DEF Complete, RunCount, Merging
  <2> QED
    BY <2>1, InitialRunsType
<1>3. Used = {}
  BY <1>1 DEF Used
<1>4. Live = DOMAIN InitialSizes
  BY <1>2, <1>3, RunsAssumption DEF Live, InitialCount
<1>5. ASSUME NEW r \in DOMAIN InitialSizes
      PROVE  Range(InitialRuns[r]) = {<<r, p>> : p \in 1 .. InitialSizes[r]}
  <2> DEFINE w == InitialRuns[r]
  <2>1. w = [p \in 1 .. InitialSizes[r] |-> <<r, p>>]
    BY DEF InitialRuns
  <2>2. DOMAIN w = 1 .. InitialSizes[r] /\ \A p \in 1 .. InitialSizes[r] : w[p] = <<r, p>>
    BY <2>1
  <2> HIDE DEF w
  <2>3. Range(w) = {<<r, p>> : p \in 1 .. InitialSizes[r]}
    BY <2>2 DEF Range
  <2> QED
    BY <2>3 DEF w
<1>6. Whole
  BY <1>1, <1>4, <1>5 DEF Whole, Elements
<1> QED
  BY <1>1, <1>6 DEF StrayInv

LEMMA LossStep ==
    ASSUME ControlInv, DataInv, LossInv, ControlInv', DataInv', Input \/ Merge \/ Writer
    PROVE  LossInv'
<1>1. /\ TypeOK /\ RoundInv /\ FileInv /\ LoadInv /\ ScanInv /\ HeapInv /\ QueueInv /\ IdleInv
      /\ RoundInv'
  BY DEF ControlInv, DataInv
<1>2. InOnePlace
  BY UniqueMeansOnePlace DEF ControlInv
<1>3. CASE Whole
  <2>1. Whole' \/ Stranded'
    BY <1>3, WholeStep
  <2> QED
    BY <2>1 DEF LossInv
<1>4. CASE Stranded
  <2>1. Stranded' \/ \E b \in Buffers : Nowhere(b)'
    BY <1>1, <1>2, <1>4, StrandedStep
  <2> QED
    BY <2>1 DEF LossInv
<1>5. CASE \E b \in Buffers : Nowhere(b)
  <2>1. PICK b \in Buffers : Nowhere(b)
    BY <1>5
  <2>2. Nowhere(b)'
    BY <1>1, <2>1, NowhereStays
  <2> QED
    BY <2>2 DEF LossInv
<1> QED
  BY <1>3, <1>4, <1>5 DEF LossInv

LEMMA LossStutter ==
    ASSUME LossInv, StrayInv, UNCHANGED vars
    PROVE  LossInv' /\ StrayInv'
<1>1. /\ UNCHANGED <<runs, stray, pool, queue, current_buffers, inited>>
      /\ UNCHANGED <<ipc, round, slot, hand, mpc, cur_task, taken, src>>
  BY DEF vars, fileVars, poolVars, queueVars, inputVars, mergeVars
<1>2. UNCHANGED <<Task, queue_num, Complete>>
  BY <1>1 DEF Task, queue_num, Complete, RunCount
<1>3. \A q : Fresh(q)' <=> Fresh(q)
  BY <1>1, <1>2 DEF Fresh, HasFirst
<1>4. \A b : Nowhere(b)' <=> Nowhere(b)
  BY <1>1 DEF Nowhere
<1>5. Stranded' <=> Stranded
  BY <1>1, <1>3 DEF Stranded, Stale
<1>6. Live' = Live
  <2>1. Used' = Used
    BY <1>1 DEF Used
  <2> QED
    BY <1>2, <2>1 DEF Live
<1>7. Whole' <=> Whole
  BY <1>1, <1>6 DEF Whole
<1> QED
  BY <1>1, <1>4, <1>5, <1>7 DEF LossInv, StrayInv

(* An element that is in no run which is still to be read was in a buffer that a   *)
(* queue has kept, or has dropped (reset); nothing is appended outside a run       *)
(* (flush_direct).                                                                 *)
THEOREM LossInvariant == Spec => [](ControlInv /\ DataInv /\ LossInv /\ StrayInv)
<1>1. Init => ControlInv /\ DataInv /\ LossInv /\ StrayInv
  BY ControlInit, DataInit, LossInit
<1>2. ControlInv /\ DataInv /\ LossInv /\ StrayInv /\ [Next]_vars
         => (ControlInv /\ DataInv /\ LossInv /\ StrayInv)'
  <2> SUFFICES ASSUME ControlInv, DataInv, LossInv, StrayInv, [Next]_vars
               PROVE  ControlInv' /\ DataInv' /\ LossInv' /\ StrayInv'
    OBVIOUS
  <2>1. ControlInv' /\ DataInv'
    BY ControlStep, DataStep
  <2>2. CASE UNCHANGED vars
    BY <2>1, <2>2, LossStutter
  <2>3. CASE Input \/ Merge \/ Writer
    BY <2>1, <2>3, LossStep, StrayStep
  <2> QED
    BY <2>2, <2>3 DEF Next, Joined
<1> QED
  BY <1>1, <1>2, PTL DEF Spec


----------------------------------------------------------------------------
(* When the threads have ended *)

(* A full pool is all the buffers: none is left anywhere else. *)
LEMMA FullPool ==
    ASSUME TypeOK, InOnePlace, Len(pool) = 2 * K, NEW b \in Buffers
    PROVE  \E n \in DOMAIN pool : pool[n] = b /\ At(b, "pool", 0, n)
<1>1. /\ pool \in [1 .. 2 * K -> Buffers] /\ DOMAIN pool = 1 .. 2 * K
      /\ pool \in Seq(Buffers) /\ K \in Nat
  BY ConstantFacts DEF TypeOK
<1>2. ASSUME NEW m \in 1 .. 2 * K, NEW n \in 1 .. 2 * K, pool[m] = pool[n]
      PROVE  m = n
  <2>1. pool[n] \in Buffers /\ At(pool[n], "pool", 0, m) /\ At(pool[n], "pool", 0, n)
    BY <1>1, <1>2 DEF At
  <2> QED
    BY <2>1 DEF InOnePlace
<1>3. Buffers = 1 .. 2 * K
  BY DEF Buffers
<1>4. IsFiniteSet(1 .. 2 * K)
  BY <1>1, FS_Interval
<1> DEFINE p == pool
           S == 1 .. 2 * K
<1>5. p \in Injection(S, S) /\ IsFiniteSet(S)
  <2>1. p \in [S -> S] /\ \A m, n \in S : p[m] = p[n] => m = n
    BY <1>1, <1>2, <1>3
  <2>2. IsFiniteSet(S)
    BY <1>4
  <2> HIDE DEF p, S
  <2> QED
    BY <2>1, <2>2 DEF Injection, IsInjective
<1> HIDE DEF p, S
<1>6. p \in Surjection(S, S)
  BY <1>5, FS_Injection
<1>7. \E n \in 1 .. 2 * K : pool[n] = b
  BY <1>3, <1>6 DEF Surjection, p, S
<1> QED
  BY <1>1, <1>7 DEF At

(* If the pool has all its buffers again, none has been dropped. *)
LEMMA NothingLost ==
    ASSUME TypeOK, InOnePlace, LossInv, Len(pool) = 2 * K
    PROVE  Whole
<1>1. ASSUME NEW b \in Buffers, Nowhere(b) PROVE FALSE
  BY <1>1, FullPool DEF Nowhere
<1>2. ASSUME NEW q \in Queues, queue[q] # << >> PROVE FALSE
  <2>1. queue[q] \in Seq(Buffers)
    BY DEF TypeOK
  <2>2. 1 \in 1 .. Len(queue[q]) /\ queue[q][1] \in Buffers
    BY <1>2, <2>1
  <2>3. At(queue[q][1], "queue", q, 1)
    BY <2>2 DEF At
  <2>4. \E n : At(queue[q][1], "pool", 0, n)
    BY <2>2, FullPool
  <2>5. "queue" = "pool"
    BY <2>2, <2>3, <2>4 DEF InOnePlace
  <2> QED
    BY <2>5
<1> QED
  BY <1>1, <1>2 DEF LossInv, Stranded

(* Every run but the last has been read. *)
LEMMA OneRunLeft ==
    ASSUME TypeOK, RoundInv, FileInv, mpc = "done", NEW r \in Live
    PROVE  r = RunCount
<1>1. cur_task = Len(Rounds) + 1 /\ mpc \notin Merging \cup {"next"}
  BY DEF RoundInv, Ending, Merging
<1>2. InitialCount \in Nat /\ Len(Rounds) \in Nat
  BY ConstantFacts
<1>3. RunCount = InitialCount + Len(Rounds)
  <2>1. RunCount = InitialCount + cur_task - 1 + 0
    BY <1>1 DEF FileInv
  <2> QED
    BY <1>1, <1>2, <2>1
<1>4. r \in 1 .. RunCount /\ r \notin Used
  BY <1>1 DEF Live, Complete
<1> SUFFICES ASSUME r # RunCount PROVE FALSE
  OBVIOUS
<1>5. r - 1 \in 0 .. InitialCount + Len(Rounds) - 2
  BY <1>2, <1>3, <1>4
<1>6. AllButLastRead(InitialCount, Rounds) /\ Rounds \in Seq(Seq(Nat))
  BY RoundsAssumption DEF ValidRounds, InitialCount
<1>7. PICK t \in DOMAIN Rounds : \E j \in DOMAIN Rounds[t] : Rounds[t][j] = r - 1
  BY <1>5, <1>6 DEF AllButLastRead
<1>8. PICK j \in DOMAIN Rounds[t] : Rounds[t][j] = r - 1
  BY <1>7
<1>9. t \in 1 .. Len(Rounds) /\ t < cur_task /\ r = Rounds[t][j] + 1
  <2>1. DOMAIN Rounds = 1 .. Len(Rounds)
    BY <1>6
  <2>2. r \in Int
    BY <1>4
  <2> QED
    BY <1>1, <1>2, <1>8, <2>1, <2>2
<1>10. r \in Used
  BY <1>8, <1>9 DEF Used
<1> QED
  BY <1>4, <1>10

(* When the threads have ended, writer_p has appended nothing outside a run, and  *)
(* if the pool has all its buffers the last run is a permutation of all elements  *)
(* (inputRun, kWayMerge, writer_p).                                               *)
THEOREM SortedFileIsComplete == Spec => []LastRunComplete
<1>1. ControlInv /\ DataInv /\ LossInv /\ StrayInv => LastRunComplete
  <2> SUFFICES ASSUME ControlInv, DataInv, LossInv, StrayInv, Terminated
               PROVE  /\ stray = << >>
                      /\ Len(pool) = 2 * K /\ Elements # {} =>
                            IsInjective(runs[RunCount]) /\ Range(runs[RunCount]) = Elements
    BY DEF LastRunComplete
  <2>1. ASSUME Len(pool) = 2 * K, Elements # {}
        PROVE  IsInjective(runs[RunCount]) /\ Range(runs[RunCount]) = Elements
    <3>1. InOnePlace
      BY UniqueMeansOnePlace DEF ControlInv
    <3>2. Whole
      BY <2>1, <3>1, NothingLost DEF ControlInv
    <3>3. \A r \in Live : r = RunCount
      BY OneRunLeft DEF ControlInv, Terminated
    <3>4. Live = {RunCount}
      BY <2>1, <3>2, <3>3 DEF Whole
    <3> QED
      BY <3>2, <3>4 DEF Whole, DataInv, LiveInv
  <2> QED
    BY <2>1 DEF StrayInv
<1> QED
  BY <1>1, LossInvariant, PTL
=============================================================================
