------------------------------ MODULE FileCrash ------------------------------
(***************************************************************************)
(* A process that writes a multi-run file may be killed at any time.  What *)
(* is left is the file as the operating system has it, for a constructor   *)
(* with new_file = false to read: a std::fstream keeps what was written    *)
(* since its last seek in a buffer, and MultiRunFile never flushes it.     *)
(* Every call seeks before it writes, so that it pushes out what the call  *)
(* before it has written, and flush_directory, which seeks between header  *)
(* and directory, pushes out the header and keeps the directory.           *)
(*                                                                         *)
(* A write that is larger than the buffer goes out at once, in parts, so   *)
(* that a kill may leave any part of it, from its start on.  The header is *)
(* one small write, and no word is written by halves.                      *)
(***************************************************************************)
EXTENDS MultiRunFile

VARIABLES
    os,       \* the file without the writes that may still be in the buffer
    disk,     \* the file after a crash; Null while there was none
    \* history, [directory, runs] as they were flushed, or Null:
    written,  \* the directory that is the last thing the stream has been given
    saved     \* a directory that has left the process and is still in the file

crashVars == <<os, written, saved>>
allVars == <<vars, crashVars, disk>>

CrashInit == Init /\ os = <<>> /\ disk = Null /\ written = Null /\ saved = Null

Flush(d) == [directory |-> d, runs |-> [r \in DOMAIN d |-> MapRun(file, d, r - 1)]]

(* What a seek makes of the directory that was flushed last. *)
Left == IF written # Null THEN written ELSE saved

(* New data overwrites the directory, wherever it is in the file. *)
SeekAndWrite ==
    /\ \/ \E keys \in Payloads : AddRun(keys) \/ AppendToRun(keys) \/ AppendDirect(keys)
       \/ BeginRun
       \/ BeginScan
    /\ os' = file
    /\ saved' = IF write_offset_' = write_offset_ /\ ~thrown' THEN Left ELSE Null
    /\ written' = Null

(* map_run, and map_run_range *)
ReadRun ==
    /\ Ready /\ header_.run_count > 0
    /\ os' = file
    /\ saved' = Left
    /\ written' = Null
    /\ UNCHANGED vars

DirectoryOut(f, h, d) == Write(f, h.directory_offset, DirectoryWords(d))   \* swapped

(* What has left the process when flush_directory returns. *)
HeaderOut(f, h, d) == Write(f, 0, HeaderWords(h))

(* From when another header is out, the directory behind the old one is lost. *)
FlushAndReturn ==
    /\ FlushDirectory
    /\ os' = HeaderOut(file, header_', directory_)
    /\ written' = Flush(directory_)
    /\ saved' = IF header_' = HeaderOf(file) THEN Left ELSE Null

(* The destructor closes the stream after the flush, create_entries seeks. *)
FlushAndLeave ==
    /\ \/ FinishScan /\ saved' = Flush(directory_')
       \/ Close /\ saved' = IF directory_ = <<>> THEN Left ELSE Flush(directory_)
    /\ os' = file'
    /\ written' = Null

(* Only members are changed, or the stream has no write in its buffer. *)
WithoutStream == (EndRun \/ ScanKey \/ Reopen) /\ UNCHANGED crashVars

Call ==
    /\ SeekAndWrite \/ ReadRun \/ FlushAndReturn \/ FlushAndLeave \/ WithoutStream
    /\ UNCHANGED disk

(* The first n words of g and what f has behind them. *)
Torn(f, g, n) ==
    [w \in 1 .. (IF n > Len(f) THEN n ELSE Len(f)) |-> IF w <= n THEN g[w] ELSE f[w]]

Killed ==
    /\ \E n \in 0 .. Len(file) : disk' = Torn(os, file, n)
    /\ UNCHANGED <<vars, crashVars>>

(* In create_entries, before its last seek.  (In the destructor it is as after *)
(* flush_directory.)                                                           *)
KilledInScan ==
    /\ FinishScan
    /\ os' = HeaderOut(file, header_', directory_')
    /\ written' = Flush(directory_')
    /\ saved' = Null
    /\ \E n \in 0 .. Len(file') : disk' = Torn(os', file', n)

Crash == Killed \/ KilledInScan

CrashNext == disk = Null /\ (Call \/ Crash)

CrashSpec == CrashInit /\ [][CrashNext]_allVars

----------------------------------------------------------------------------
(* The constructor throws: "read header" or "read directories". *)
Refused(f) ==
    \/ Len(f) < HEADER \div WORD
    \/ f[1] > 0 /\ f[2] \div WORD + ENTRY_WORDS * f[1] > Len(f)

(* f has the runs of a flush, with the keys they had then. *)
HasRuns(f, flush) ==
    /\ Len(DirectoryOf(f)) = Len(flush.directory)
    /\ \A r \in DOMAIN flush.directory :
          /\ DirectoryOf(f)[r].offset = flush.directory[r].offset
          /\ MapRun(f, flush.directory, r - 1) = flush.runs[r]

(* A directory that has left the process, with the next seek after               *)
(* flush_directory, survives a kill with all its runs, even inside append_to_run *)
(* or inside the next flush, until a run is added that takes a block or the      *)
(* header of another directory is written: the runs may only have grown.         *)
FlushedSurvives ==
    disk # Null /\ saved # Null =>
        /\ ~Refused(disk) /\ HasRuns(disk, saved)
        /\ \A r \in DOMAIN saved.directory :
              DirectoryOf(disk)[r].bytes >= saved.directory[r].bytes

(* A kill after the new header and before the whole directory has left the       *)
(* process is noticed: the constructor throws, or it finds the runs of this      *)
(* flush, at their offsets with the keys they have, and lists of each at most    *)
(* the bytes it has (fewer when an entry is still that of the flush before).  So *)
(* no key is taken for an entry, also when the directory has moved because runs  *)
(* were added or because the constructor has rounded write_offset_ up.           *)
TornFlushNoticed ==
    disk # Null /\ written # Null /\ ~Refused(disk) =>
        /\ HasRuns(disk, written)
        /\ \A r \in DOMAIN written.directory :
              DirectoryOf(disk)[r].bytes <= written.directory[r].bytes
=============================================================================
