---------------------------- MODULE MultiRunFile ----------------------------
(***************************************************************************)
(* The multi-run file: a header of two words, runs padded to whole blocks, *)
(* and behind them, when it has been flushed, the directory, three words   *)
(* for each run.  New data overwrites the directory on the disk, which is  *)
(* written again behind it.  One action is one call of RunStore.           *)
(*                                                                         *)
(* The file is a sequence of 64-bit words, the words of keys, of zero      *)
(* padding, of header and of directory alike, so that whatever is read at  *)
(* a wrong offset is a number of some kind.  Offsets are bytes, as in the  *)
(* code.  The disk does not fail and is not full.                          *)
(***************************************************************************)
EXTENDS Integers, Sequences

CONSTANTS
    BLOCK,            \* header_.block_sz, in bytes; the mask of the code needs a power of two
    Payloads,         \* the sequences of keys one call may write
    MaxRuns, MaxKeys, \* bounds: runs in a file, keys in a run or before create_entries
    Null

WORD == 8             \* sizeof(int64_t)
HEADER == 2 * WORD    \* sizeof(Header): block_sz and run_count share a word
ENTRY_WORDS == 3      \* sizeof(RunEntry) in words

(* Callers give no empty sequence to add_run, append_to_run or append. *)
ASSUME FileAssumption ==
    /\ BLOCK \in Nat \ {0}
    /\ Payloads \subseteq Seq(Int) \ {<<>>}
    /\ MaxRuns \in Nat /\ MaxKeys \in Nat
    /\ Null \notin [offset : Nat, start : Nat, count : Nat] /\ Null \notin Seq(Int)

VARIABLES
    file,                           \* the words on the disk
    open,                           \* a MultiRunFile object exists
    \* members of the object
    header_, directory_, write_offset_, in_run_, current_run_,
    scan,                           \* the locals of create_entries, or Null
    \* how the file is used: "raw" by append, "runs" after create_entries or by runs
    use,
    thrown                          \* append_to_run has thrown

objectVars == <<header_, directory_, write_offset_, in_run_, current_run_>>
vars == <<file, open, objectVars, scan, use, thrown>>

----------------------------------------------------------------------------
(* The stream. *)

(* Seek to byte `at` and write; a seek behind the end leaves a gap of zeros. *)
Write(f, at, words) ==
    LET from == at \div WORD
        upto == from + Len(words)
    IN IF words = <<>> THEN f
       ELSE [w \in 1 .. (IF upto > Len(f) THEN upto ELSE Len(f)) |->
                IF w > from /\ w <= upto THEN words[w - from]
                ELSE IF w <= Len(f) THEN f[w] ELSE 0]

(* Read `bytes` bytes from byte `at` on. *)
Read(f, at, bytes) == SubSeq(f, at \div WORD + 1, (at + bytes) \div WORD)

AlignDown(bytes) == bytes - (bytes % BLOCK)   \* the mask without the addition before it

AlignUp(bytes) == bytes + ((-bytes) % BLOCK)

ZeroPad(bytes) == [w \in 1 .. bytes \div WORD |-> 0]

HeaderWords(h) == <<h.run_count, h.directory_offset>>

EntryWords(e) == <<e.offset, e.keys, e.bytes>>

DirectoryWords(d) ==
    [w \in 1 .. ENTRY_WORDS * Len(d) |->
        EntryWords(d[((w - 1) \div ENTRY_WORDS) + 1])[((w - 1) % ENTRY_WORDS) + 1]]

(* What the constructor reads from a file that exists. *)
HeaderOf(f) == [run_count |-> f[1], directory_offset |-> f[2]]

DirectoryOf(f) ==
    LET at == f[2] \div WORD
    IN [r \in 1 .. f[1] |->
          [offset |-> f[at + ENTRY_WORDS * (r - 1) + 1],
           keys   |-> f[at + ENTRY_WORDS * (r - 1) + 2],
           bytes  |-> f[at + ENTRY_WORDS * (r - 1) + 3]]]

(* The end of the data area, which the constructor takes from the last entry. *)
EndOfData(d) ==
    IF d = <<>> THEN HEADER
    ELSE d[Len(d)].offset + AlignUp(d[Len(d)].bytes)

FlushedInPlace(f, h, d, at) ==   \* the directory stays where it was first written
    LET to == IF h.directory_offset = 0 THEN at ELSE h.directory_offset
    IN Write(Write(f, 0, HeaderWords([h EXCEPT !.directory_offset = to])), to, DirectoryWords(d))

(* flush_directory: the directory goes behind the data. *)
Flushed(f, h, d, at) ==
    Write(Write(f, 0, HeaderWords([h EXCEPT !.directory_offset = at])), at, DirectoryWords(d))

----------------------------------------------------------------------------
(* A new file, by the constructor with new_file = true. *)
Init ==
    /\ header_ = [run_count |-> 0, directory_offset |-> 0]
    /\ file = HeaderWords(header_)
    /\ directory_ = <<>>
    /\ write_offset_ = HEADER
    /\ in_run_ = FALSE /\ current_run_ = 0
    /\ open = TRUE /\ scan = Null /\ use = "fresh" /\ thrown = FALSE

Ready == open /\ scan = Null /\ ~thrown

Entry(offset, keys) == [offset |-> offset, keys |-> keys, bytes |-> keys * WORD]

CountedLater(h) == h   \* the count is left to end_run

Counted(h) == [h EXCEPT !.run_count = @ + 1]

AppendRun(keys) ==
    LET bytes   == Len(keys) * WORD
        aligned == AlignUp(bytes)
    IN /\ file' = Write(file, write_offset_, keys \o ZeroPad(aligned - bytes))
       /\ directory_' = Append(directory_, Entry(write_offset_, Len(keys)))
       /\ write_offset_' = write_offset_ + aligned
       /\ header_' = Counted(header_)

UseForRuns == use # "raw" /\ use' = "runs"

AddRun(keys) ==
    /\ Ready /\ UseForRuns
    /\ Len(directory_) < MaxRuns
    /\ AppendRun(keys)
    /\ UNCHANGED <<open, in_run_, current_run_, scan, thrown>>

BeginRun ==
    /\ Ready /\ UseForRuns
    /\ Len(directory_) < MaxRuns
    /\ AppendRun(<<>>)
    /\ in_run_' = TRUE
    /\ current_run_' = header_'.run_count - 1
    /\ UNCHANGED <<open, scan, thrown>>

AtEndAnyway(e) == TRUE   \* no check

(* The open run is the last one in the data area, so that it may grow. *)
AtEnd(e) == e.offset + AlignUp(e.bytes) = write_offset_

Longer(e, n) == [e EXCEPT !.keys = e.keys + n, !.bytes = e.bytes + n * WORD]

(* append_to_run writes first and then sees whether there was room. *)
AppendToRun(keys) ==
    LET entry       == directory_[current_run_ + 1]
        total       == entry.bytes + Len(keys) * WORD
        old_aligned == AlignUp(entry.bytes)
        new_aligned == AlignUp(total)
        grows       == new_aligned > old_aligned
        pad         == IF AtEnd(entry) /\ grows THEN ZeroPad(new_aligned - total) ELSE <<>>
    IN /\ Ready /\ in_run_
       /\ entry.keys + Len(keys) <= MaxKeys
       /\ file' = Write(file, entry.offset + entry.bytes, keys \o pad)
       /\ \/ /\ AtEnd(entry) \/ ~grows
             /\ write_offset_' = IF AtEnd(entry) /\ grows
                                 THEN write_offset_ + (new_aligned - old_aligned)
                                 ELSE write_offset_
             /\ directory_' = [directory_ EXCEPT ![current_run_ + 1] = Longer(entry, Len(keys))]
             /\ UNCHANGED thrown
          \/ /\ ~AtEnd(entry) /\ grows
             /\ thrown' = TRUE
             /\ UNCHANGED <<write_offset_, directory_>>
       /\ UNCHANGED <<open, header_, in_run_, current_run_, scan, use>>

EndRun ==
    /\ Ready /\ in_run_
    /\ in_run_' = FALSE
    /\ header_' = [header_ EXCEPT !.run_count = Len(directory_)]
    /\ UNCHANGED <<file, open, directory_, write_offset_, current_run_, scan, use, thrown>>

(* append: at the end of the file, without an entry, by the writer thread. *)
AppendDirect(keys) ==
    /\ Ready /\ use \in {"fresh", "raw"}
    /\ Len(file) + Len(keys) <= HEADER \div WORD + MaxKeys
    /\ file' = Write(file, Len(file) * WORD, keys)
    /\ use' = "raw"
    /\ UNCHANGED <<open, objectVars, scan, thrown>>

FlushDirectory ==
    /\ Ready /\ use = "runs"
    /\ file' = Flushed(file, header_, directory_, write_offset_)
    /\ header_' = [header_ EXCEPT !.directory_offset = write_offset_]
    /\ UNCHANGED <<open, directory_, write_offset_, in_run_, current_run_, scan, use, thrown>>

----------------------------------------------------------------------------
(* create_entries, one key a step: the keys from `start` on, `count` of them, are *)
(* a run so far, and `offset` is the next to be read.                             *)

BeginScan ==
    /\ Ready /\ use = "raw"
    /\ directory_' = <<>>
    /\ scan' = [offset |-> HEADER, start |-> HEADER, count |-> 0]
    /\ UNCHANGED <<file, open, header_, write_offset_, in_run_, current_run_, use, thrown>>

WordAt(offset) == file[offset \div WORD + 1]

NewRunAtEqual ==   \* <= for <
    scan.count = 0 \/ WordAt(scan.offset) <= WordAt(scan.offset - WORD)

NewRunStarts == scan.count = 0 \/ WordAt(scan.offset) < WordAt(scan.offset - WORD)

EndOfRun ==
    IF scan.count > 0 THEN Append(directory_, Entry(scan.start, scan.count)) ELSE directory_

ScanKey ==
    /\ scan # Null
    /\ scan.offset < Len(file) * WORD
    /\ \/ /\ NewRunStarts
          /\ directory_' = EndOfRun
          /\ scan' = [offset |-> scan.offset + WORD, start |-> scan.offset, count |-> 1]
       \/ /\ ~NewRunStarts
          /\ scan' = [offset |-> scan.offset + WORD, start |-> scan.start,
                      count |-> scan.count + 1]
          /\ UNCHANGED directory_
    /\ UNCHANGED <<file, open, header_, write_offset_, in_run_, current_run_, use, thrown>>

FinishScan ==
    /\ scan # Null
    /\ scan.offset >= Len(file) * WORD
    /\ directory_' = EndOfRun
    /\ write_offset_' = scan.offset
    /\ header_' = [run_count |-> Len(directory_'), directory_offset |-> write_offset_']
    /\ file' = Flushed(file, header_', directory_', write_offset_')
    /\ scan' = Null
    /\ use' = "runs"
    /\ UNCHANGED <<open, in_run_, current_run_, thrown>>

----------------------------------------------------------------------------
(* The destructor flushes a directory that is not empty. *)
Close ==
    /\ Ready
    /\ open' = FALSE
    /\ file' = IF directory_ = <<>> THEN file
               ELSE Flushed(file, header_, directory_, write_offset_)
    /\ header_' = [run_count |-> 0, directory_offset |-> 0]
    /\ directory_' = <<>>
    /\ write_offset_' = HEADER
    /\ in_run_' = FALSE /\ current_run_' = 0
    /\ UNCHANGED <<scan, use, thrown>>

(* The constructor with new_file = false.  in_run_ is not initialised; no caller *)
(* calls append_to_run before begin_run, so that its value does not matter.      *)
Reopen ==
    /\ ~open
    /\ open' = TRUE
    /\ header_' = HeaderOf(file)
    /\ directory_' = DirectoryOf(file)
    /\ write_offset_' = EndOfData(directory_')
    /\ UNCHANGED <<file, in_run_, current_run_, scan, use, thrown>>

(* RunStore forwards each call of its users to the file. *)
RunStoreCall ==
    \/ \E keys \in Payloads : AddRun(keys) \/ AppendToRun(keys) \/ AppendDirect(keys)
    \/ BeginRun
    \/ EndRun
    \/ FlushDirectory
    \/ BeginScan

CreateEntries == ScanKey \/ FinishScan

Next == RunStoreCall \/ CreateEntries \/ Close \/ Reopen

Spec == Init /\ [][Next]_vars

----------------------------------------------------------------------------
(* Reading: map_run. *)

MapRun(f, d, id) == Read(f, d[id + 1].offset, d[id + 1].bytes)

(* The directory that a reader of the file gets: the object's, or the one on the disk. *)
CurrentDirectory == IF open THEN directory_ ELSE DirectoryOf(file)

(* Type correctness; header and directory always agree on the number of runs,  *)
(* although two statements change them.                                        *)
TypeOK ==
    /\ file \in Seq(Int) /\ Len(file) >= HEADER \div WORD
    /\ open \in BOOLEAN /\ thrown \in BOOLEAN /\ in_run_ \in BOOLEAN
    /\ use \in {"fresh", "raw", "runs"}
    /\ header_ \in [run_count : Nat, directory_offset : Nat]
    /\ directory_ \in Seq([offset : Nat, keys : Nat, bytes : Nat])
    /\ write_offset_ \in Nat
    /\ current_run_ \in Nat
    /\ scan = Null \/ scan \in [offset : Nat, start : Nat, count : Nat]
    /\ scan = Null => header_.run_count = Len(directory_)
    /\ in_run_ => current_run_ < Len(directory_)

(* The runs of a directory lie one behind the other and behind the header. *)
Ordered(d) ==
    /\ \A r \in DOMAIN d : HEADER <= d[r].offset
    /\ \A r, s \in DOMAIN d : r < s => d[r].offset + d[r].bytes <= d[s].offset

(* No byte belongs to two runs or to a run and the header, and what is written *)
(* next at write_offset_ destroys no run, whatever was appended, cut by        *)
(* create_entries without padding, closed and opened again before.             *)
RegionsDisjoint ==
    open /\ scan = Null =>
        /\ Ordered(directory_)
        /\ HEADER <= write_offset_
        /\ \A r \in DOMAIN directory_ :
              directory_[r].offset + directory_[r].bytes <= write_offset_

(* A file that has been closed can be opened: the directory its header points  *)
(* to is complete, and lies behind every run it names.                         *)
ClosedFileReadable ==
    ~open =>
        LET d == DirectoryOf(file)
        IN /\ file[1] > 0 =>
                /\ file[2] \div WORD + ENTRY_WORDS * file[1] <= Len(file)
                /\ \A r \in DOMAIN d : d[r].offset + d[r].bytes <= file[2]
           /\ Ordered(d)

----------------------------------------------------------------------------
(* An object that is scanning has no complete list of runs yet. *)
ListedRuns ==
    LET d == CurrentDirectory
    IN IF scan # Null THEN <<>> ELSE [r \in 1 .. Len(d) |-> MapRun(file, d, r - 1)]

AppendedRaw == IF use = "raw" THEN SubSeq(file, HEADER \div WORD + 1, Len(file)) ELSE <<>>

GrowingRun == IF in_run_ THEN current_run_ + 1 ELSE 0

List == INSTANCE RunList WITH raw <- AppendedRaw, runs <- ListedRuns,
    growing <- GrowingRun, failed <- thrown

(* The file implements the list of runs: a run reads back as it was appended,  *)
(* through padding, growth, runs added behind it, an overwritten and moved     *)
(* directory, closing and reopening; create_entries cuts what was appended     *)
(* into maximal sorted runs without losing a key; and append_to_run throws,    *)
(* with the run behind it already overwritten, only for a run that is not the  *)
(* last one.                                                                   *)
ImplementsRunList == List!Spec
=============================================================================
