------------------------- MODULE ExternalMergeSort -------------------------
(* The sort of the first design (src/old): genRun cuts a raw file into sorted *)
(* segments, and TwoWayMerger::ExternalMergeSort merges neighbouring segments *)
(* pass by pass, from one file into the next, until one segment is left.      *)
(*                                                                            *)
(* `setup` is what the run is called with: the raw keys, the block size given *)
(* to genRun and the one given to ExternalMergeSort, how many keys an earlier *)
(* sort left in every pass_N.msrt (0: no such file), and whether the build    *)
(* compiles assert away.  InputBuffer objects read the metadata they found    *)
(* when they were opened; their file is not written during the pass, so the   *)
(* metadata in the file is what they hold.                                    *)
EXTENDS MergeSortFile, FiniteSets, SequencesExt

CONSTANTS
  KeySequences,    \* the raw data the runs are cut from
  BlockSizes,      \* the block sizes given to genRun and to ExternalMergeSort
  Leftovers,       \* numbers of keys found in the pass files of an earlier sort
  MaxPass          \* bound: pass files are named 0..MaxPass-1
ASSUME MaxPassAssumption == MaxPass \in Nat \ {0}

VARIABLES setup, raw, runFile, passFile, pass, i, ins, out, pc
vars == <<setup, raw, runFile, passFile, pass, i, ins, out, pc>>

Item(key, id) == [key |-> key, id |-> id]
\* A metadata slot read as data is some int; it is taken as the smallest.
KeyOf(cell) == IF "key" \in DOMAIN cell THEN cell.key ELSE 0
SortedRun(chunk) == SortSeq(chunk, LAMBDA x, y : KeyOf(x) < KeyOf(y))

OlderFile(n) == IF n = 0 THEN NoFile
                ELSE Append2Last(Created(NoFile, TRUE), [k \in 1..n |-> Item(1, -k)])

Init ==
  /\ setup \in [keys : KeySequences, runBlock : BlockSizes, sortBlock : BlockSizes,
                left : Leftovers, ndebug : BOOLEAN]
  /\ raw = AppendSegment(Created(NoFile, FALSE),
                         [k \in DOMAIN setup.keys |-> Item(setup.keys[k], k)])
  /\ runFile = Created(NoFile, FALSE)
  /\ passFile = [p \in 0..(MaxPass - 1) |-> OlderFile(setup.left)]
  /\ pass = 0 /\ i = 0 /\ ins = <<>> /\ out = <<>>
  /\ pc = "genRun"

(* genRun: one sorted segment per chunk of the raw file; false without data.  *)
GenRun ==
  /\ pc = "genRun"
  /\ LET chunk == ReadSegmentChunk(raw, 0, i, setup.runBlock)
     IN  IF chunk # <<>>
         THEN /\ runFile' = AppendSegment(runFile, SortedRun(chunk))
              /\ i' = i + setup.runBlock
              /\ UNCHANGED pc
         ELSE /\ pc' = IF i = 0 THEN "failed" ELSE "pass"
              /\ UNCHANGED <<runFile, i>>
  /\ UNCHANGED <<setup, raw, passFile, pass, ins, out>>

InputFile == IF pass = 0 THEN runFile ELSE passFile[pass - 1]
BufferSizeAhead == setup.sortBlock * 2^(pass + 1)                  \* mutant
BufferSize == setup.sortBlock * 2^pass

(* InputBuffer.  index is never set back: once a buffer's worth of items has  *)
(* been taken the buffer stays empty() whatever is read into it.              *)
NewInput(s) == [seg |-> s, buffer |-> <<>>, index |-> 0, offset |-> 0, finish |-> FALSE,
                has |-> FALSE, item |-> Zero, threw |-> FALSE]
EmptyIn(b) == b.index = BufferSize

NextOffsetSame(b) == b.offset                                      \* mutant
NextOffset(b) == b.offset + BufferSize
Fill(b) ==
  LET chunk == ReadSegmentChunk(InputFile, b.seg, b.offset, BufferSize)
  IN  [b EXCEPT !.buffer = chunk, !.offset = NextOffset(b),
                !.finish = b.finish \/ chunk = <<>>]
Refilled(b) == IF EmptyIn(b) /\ ~b.finish THEN Fill(b) ELSE b

\* getFromBuffer: vector::at throws behind the end of a short chunk.
Taken(b) == IF b.index < Len(b.buffer)
            THEN [b EXCEPT !.item = b.buffer[b.index + 1], !.index = b.index + 1, !.has = TRUE]
            ELSE [b EXCEPT !.threw = TRUE]
\* The next item, if the buffer or one more fill has one.
Fetched(b) == LET f == Refilled([b EXCEPT !.has = FALSE])
              IN  IF EmptyIn(f) THEN f ELSE Taken(f)

Exhausted(b) == b.finish /\ EmptyIn(b)
Wins(a, w) ==
  /\ a[w].has
  /\ LET o == a[3 - w]
     IN  o.has => IF w = 1 THEN KeyOf(a[w].item) <= KeyOf(o.item)
                  ELSE KeyOf(a[w].item) < KeyOf(o.item)

(* One pass: its file is created with one empty segment, and the output       *)
(* buffer starts full of zeros.                                               *)
BeginPass ==
  /\ pc = "pass"
  /\ IF InputFile.numSegments <= 1
     THEN pc' = "done" /\ UNCHANGED <<passFile, out>>
     ELSE /\ passFile' = [passFile EXCEPT ![pass] = Created(@, TRUE)]
          /\ out' = [k \in 1..BufferSize |-> Zero]
          /\ pc' = "pair"
  /\ i' = 0
  /\ UNCHANGED <<setup, raw, runFile, pass, ins>>

\* MergeInMem up to its loop.
BeginMerge ==
  /\ pc = "pair" /\ i + 1 < InputFile.numSegments
  /\ ins' = [w \in 1..2 |-> Taken(Fill(NewInput(i + w - 1)))]
  /\ out' = <<>>
  /\ pc' = IF \E w \in 1..2 : ins'[w].threw THEN "threw" ELSE "merge"
  /\ UNCHANGED <<setup, raw, runFile, passFile, pass, i>>

\* createNewSeg: the buffered items as a segment if there are any, and then in
\* any case an empty one.
CreateNewSeg(f, buffer) ==
  AppendSegment(IF buffer = <<>> THEN f ELSE AppendSegment(f, buffer), <<>>)

\* The rest of the output is written, the pair is left, and the next one gets a
\* segment of its own if there is a next one.
AfterPair ==
  IF i + 2 < InputFile.numSegments
  THEN i' = i + 2 /\ pc' = "pair" /\ UNCHANGED pass
  ELSE pass' = pass + 1 /\ pc' = "pass" /\ UNCHANGED i
EndMerge ==
  LET f == Append2Last(passFile[pass], out)
  IN  /\ passFile' = [passFile EXCEPT ![pass] =
                        IF i + 2 = InputFile.numSegments THEN f ELSE CreateNewSeg(f, <<>>)]
      /\ out' = <<>>
      /\ AfterPair

\* The buffer goes to the file when it is full; the call stands inside assert.
KeptAll(buffer) == buffer                                          \* mutant
Kept(buffer) == <<>>
Push(item) ==
  LET buffer == Append(out, item)
  IN  IF setup.ndebug \/ Len(buffer) # BufferSize
      THEN out' = buffer /\ UNCHANGED passFile
      ELSE /\ out' = Kept(buffer)
           /\ passFile' = [passFile EXCEPT ![pass] = Append2Last(@, buffer)]

MergeLoop ==
  /\ pc = "merge"
  /\ LET a == [w \in 1..2 |-> Refilled(ins[w])]
     IN  \/ \E w \in 1..2 :
              /\ Wins(a, w)
              /\ ins' = [a EXCEPT ![w] = Fetched(a[w])]
              /\ IF ins'[w].threw
                 THEN /\ pc' = "threw"
                      /\ out' = Append(out, a[w].item)
                      /\ UNCHANGED passFile
                 ELSE Push(a[w].item) /\ UNCHANGED pc
              /\ UNCHANGED <<pass, i>>
         \/ /\ \A w \in 1..2 : ~a[w].has
            /\ LET b == [w \in 1..2 |-> Fetched(a[w])]
               IN  /\ ins' = b
                   /\ IF \A w \in 1..2 : Exhausted(b[w]) THEN EndMerge
                      ELSE UNCHANGED <<passFile, out, pc, pass, i>>
  /\ UNCHANGED <<setup, raw, runFile>>

\* The segment without a neighbour is copied.
CopyLast ==
  /\ pc = "pair" /\ i + 1 = InputFile.numSegments
  /\ LET b == Fill(NewInput(i))
     IN  IF Len(b.buffer) < BufferSize
         THEN pc' = "threw" /\ out' = out \o b.buffer /\ UNCHANGED <<passFile, pass, i>>
         ELSE /\ passFile' = [passFile EXCEPT ![pass] = Append2Last(@, out \o b.buffer)]
              /\ out' = <<>>
              /\ AfterPair
  /\ UNCHANGED <<setup, raw, runFile, ins>>

Next == GenRun \/ BeginPass \/ BeginMerge \/ MergeLoop \/ CopyLast
\* One thread and no wait: whatever can go on does.
Spec == Init /\ [][Next]_vars /\ WF_vars(Next)

----------------------------------------------------------------------------
Runs == (Len(setup.keys) + setup.runBlock - 1) \div setup.runBlock
IsPowerOf2(n) == \E k \in 0..n : n = 2^k

\* What the code silently takes for granted: equal segments, a power of two of
\* them, the same block size twice, room in the table, no older pass files.
Even == /\ Len(setup.keys) = Runs * setup.runBlock
        /\ IsPowerOf2(Runs)
        /\ setup.sortBlock = setup.runBlock
Fits == Runs <= Reserved + 1
Fresh == setup.left = 0

\* The file testExternalMergeSort looks at: the last of pass_0, pass_1, ...
LastPassFile ==
  passFile[CHOOSE p \in 0..(MaxPass - 1) :
             /\ \A q \in 0..p : Exists(passFile[q])
             /\ p + 1 < MaxPass => ~Exists(passFile[p + 1])]
Result == ReadSegment(LastPassFile, 0)

\* With no older pass files, equal segments, a power of two of them, the block
\* size of genRun and a table that holds them, ExternalMergeSort leaves one
\* segment that holds every key of the raw file in ascending order.
EvenInputIsSorted ==
  pc = "done" /\ Even /\ Fits /\ Fresh /\ Runs > 1 =>
    /\ LastPassFile.numSegments = 1
    /\ Len(Result) = Len(setup.keys)
    /\ ToSet(Result) = {Item(setup.keys[k], k) : k \in DOMAIN setup.keys}
    /\ \A k \in 1..(Len(Result) - 1) : KeyOf(Result[k]) <= KeyOf(Result[k + 1])

\* getFromBuffer throws out of range only on an input that breaks the comment
\* "assume all segments have the same size" (in this pass or a later one).
ThrowsOnUnevenInput == pc = "threw" => ~Even

\* Whatever the block sizes, a sort that found no older pass files and whose
\* segments fit the table can lose keys, but what it leaves are keys of the raw
\* file, none of them twice.
NothingInvented ==
  pc = "done" /\ Fits /\ Fresh /\ Runs > 1 =>
    /\ ToSet(Result) \subseteq {Item(setup.keys[k], k) : k \in DOMAIN setup.keys}
    /\ Cardinality(ToSet(Result)) = Len(Result)

\* Every call comes to an end: sorted, with an exception, or (no data) refused.
Ends == <>(pc \in {"done", "threw", "failed"})
=============================================================================
