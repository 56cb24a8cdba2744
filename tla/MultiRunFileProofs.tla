------------------------- MODULE MultiRunFileProofs -------------------------
(***************************************************************************)
(* Theorems about MultiRunFile, for every block size and every sequence of *)
(* calls: runs never overlap, a file that is closed can be opened, and the *)
(* file is a list of runs (RunList).                                       *)
(***************************************************************************)
EXTENDS MultiRunFile, SequenceTheorems, TLAPS

Entries == [offset : Nat, keys : Nat, bytes : Nat]

LEMMA AlignUpBounds ==
    ASSUME NEW b \in Nat
    PROVE  AlignUp(b) \in Nat /\ b <= AlignUp(b)
BY FileAssumption DEF AlignUp

(* Where a write leaves which words. *)
LEMMA WriteWords ==
    ASSUME NEW f \in Seq(Int), NEW at \in Nat, NEW words \in Seq(Int)
    PROVE  /\ Write(f, at, words) \in Seq(Int)
           /\ Len(Write(f, at, words)) >= Len(f)
           /\ words # <<>> => Len(Write(f, at, words)) >= at \div WORD + Len(words)
           /\ \A w \in 1 .. Len(f) :
                 w <= at \div WORD => Write(f, at, words)[w] = f[w]
           /\ \A w \in 1 .. Len(words) :
                 Write(f, at, words)[at \div WORD + w] = words[w]
<1> DEFINE from == at \div WORD
           upto == from + Len(words)
           len == IF upto > Len(f) THEN upto ELSE Len(f)
           g == [w \in 1 .. len |-> IF w > from /\ w <= upto THEN words[w - from]
                                    ELSE IF w <= Len(f) THEN f[w] ELSE 0]
<1>1. from \in Nat
  BY DEF WORD
<1>2. CASE words = <<>>
  BY <1>2 DEF Write
<1>3. CASE words # <<>>
  <2>1. Write(f, at, words) = g
    BY <1>3 DEF Write
  <2> HIDE DEF from
  <2>2. len \in Nat /\ len >= Len(f) /\ len >= upto /\ upto \in Nat
    BY <1>1
  <2>3. \A w \in 1 .. len : g[w] \in Int
    <3> SUFFICES ASSUME NEW w \in 1 .. len PROVE g[w] \in Int
      OBVIOUS
    <3>1. CASE w > from /\ w <= upto
      BY <3>1, <1>1, <2>2
    <3>2. CASE ~(w > from /\ w <= upto)
      BY <3>2, <1>1, <2>2
    <3> QED BY <3>1, <3>2
  <2>4. g \in [1 .. len -> Int]
    BY <2>3
  <2>5. \A w \in 1 .. len :
            g[w] = IF w > from /\ w <= upto THEN words[w - from]
                   ELSE IF w <= Len(f) THEN f[w] ELSE 0
    OBVIOUS
  <2> HIDE DEF g, len
  <2>6. g \in Seq(Int) /\ Len(g) = len
    BY <2>2, <2>4
  <2>7. \A w \in 1 .. Len(f) : w <= from => g[w] = f[w]
    BY <1>1, <2>2, <2>5
  <2>8. \A w \in 1 .. Len(words) : g[from + w] = words[w]
    BY <1>1, <2>2, <2>5
  <2> QED BY <2>1, <2>2, <2>6, <2>7, <2>8 DEF from
<1> QED BY <1>2, <1>3

LEMMA DirectoryWordsOf ==
    ASSUME NEW d \in Seq(Entries)
    PROVE  /\ DirectoryWords(d) \in Seq(Int)
           /\ Len(DirectoryWords(d)) = 3 * Len(d)
           /\ \A r \in 1 .. Len(d) :
                 /\ DirectoryWords(d)[3 * (r - 1) + 1] = d[r].offset
                 /\ DirectoryWords(d)[3 * (r - 1) + 2] = d[r].keys
                 /\ DirectoryWords(d)[3 * (r - 1) + 3] = d[r].bytes
<1> DEFINE n == 3 * Len(d)
           word(w) == EntryWords(d[((w - 1) \div 3) + 1])[((w - 1) % 3) + 1]
           g == [w \in 1 .. n |-> word(w)]
<1>1. DirectoryWords(d) = g
  BY DEF DirectoryWords, ENTRY_WORDS
<1>2. n \in Nat /\ Len(d) \in Nat
  OBVIOUS
<1>3. \A r \in 1 .. Len(d) : d[r] \in Entries
  OBVIOUS
<1>4. \A e \in Entries : EntryWords(e) \in [1 .. 3 -> Int]
  BY DEF Entries, EntryWords
<1>5. \A w \in 1 .. n : ((w - 1) \div 3) + 1 \in 1 .. Len(d) /\ ((w - 1) % 3) + 1 \in 1 .. 3
  BY <1>2
<1>6. \A w \in 1 .. n : word(w) \in Int
  <2> SUFFICES ASSUME NEW w \in 1 .. n PROVE word(w) \in Int
    OBVIOUS
  <2> DEFINE i == ((w - 1) \div 3) + 1
             j == ((w - 1) % 3) + 1
  <2>1. i \in 1 .. Len(d) /\ j \in 1 .. 3
    BY <1>5
  <2> HIDE DEF i, j
  <2>2. EntryWords(d[i])[j] \in Int
    BY <1>3, <1>4, <2>1
  <2> QED BY <2>2 DEF i, j
<1>7. g \in [1 .. n -> Int]
  BY <1>6
<1>8. \A w \in 1 .. n : g[w] = word(w)
  OBVIOUS
<1> HIDE DEF g
<1>9. g \in Seq(Int) /\ Len(g) = n
  BY <1>2, <1>7
<1>10. ASSUME NEW r \in 1 .. Len(d)
       PROVE  /\ g[3 * (r - 1) + 1] = d[r].offset
              /\ g[3 * (r - 1) + 2] = d[r].keys
              /\ g[3 * (r - 1) + 3] = d[r].bytes
  <2>1. EntryWords(d[r])[1] = d[r].offset /\ EntryWords(d[r])[2] = d[r].keys
        /\ EntryWords(d[r])[3] = d[r].bytes
    BY DEF EntryWords
  <2>2. ASSUME NEW j \in 1 .. 3
        PROVE  g[3 * (r - 1) + j] = EntryWords(d[r])[j]
    <3> DEFINE w == 3 * (r - 1) + j
    <3>1. w \in 1 .. n /\ ((w - 1) \div 3) + 1 = r /\ ((w - 1) % 3) + 1 = j
      BY <1>2
    <3> HIDE DEF w, n
    <3>2. g[w] = EntryWords(d[r])[j]
      BY <1>8, <3>1
    <3> QED BY <3>2 DEF w
  <2>3. 1 \in 1 .. 3 /\ 2 \in 1 .. 3 /\ 3 \in 1 .. 3
    OBVIOUS
  <2> QED BY <2>1, <2>2, <2>3
<1> QED BY <1>1, <1>9, <1>10

(* A directory that has been flushed is what the constructor reads back. *)
LEMMA FlushedFile ==
    ASSUME NEW f \in Seq(Int), Len(f) >= 2,
           NEW d \in Seq(Entries), NEW at \in Nat, HEADER <= at,
           NEW h \in [run_count : Nat, directory_offset : Nat], h.run_count = Len(d)
    PROVE  /\ Flushed(f, h, d, at) \in Seq(Int)
           /\ Len(Flushed(f, h, d, at)) >= 2
           /\ HeaderOf(Flushed(f, h, d, at)) =
                 [run_count |-> Len(d), directory_offset |-> at]
           /\ Flushed(f, h, d, at)[1] = Len(d)
           /\ Flushed(f, h, d, at)[2] = at
           /\ DirectoryOf(Flushed(f, h, d, at)) = d
           /\ Len(d) > 0 => at \div WORD + 3 * Len(d) <= Len(Flushed(f, h, d, at))
<1> DEFINE hw == HeaderWords([h EXCEPT !.directory_offset = at])
           g1 == Write(f, 0, hw)
           dw == DirectoryWords(d)
           g2 == Write(g1, at, dw)
           from == at \div WORD
<1>1. hw = <<Len(d), at>>
  BY DEF HeaderWords
<1>2. hw \in Seq(Int) /\ Len(hw) = 2 /\ hw[1] = Len(d) /\ hw[2] = at
  <2> HIDE DEF hw
  <2> QED BY <1>1
<1>3. 0 \div WORD = 0 /\ from \in Nat /\ from >= 2
  BY DEF WORD, HEADER
<1> HIDE DEF hw
<1>4. g1 \in Seq(Int) /\ Len(g1) >= 2
      /\ \A w \in 1 .. Len(hw) : Write(f, 0, hw)[0 \div WORD + w] = hw[w]
  <2>1. 0 \in Nat
    OBVIOUS
  <2>2. /\ g1 \in Seq(Int)
        /\ Len(g1) >= Len(f)
        /\ \A w \in 1 .. Len(hw) : Write(f, 0, hw)[0 \div WORD + w] = hw[w]
    BY <1>2, <2>1, WriteWords
  <2>3. Len(f) \in Nat /\ Len(g1) \in Nat
    BY <2>2
  <2> HIDE DEF g1
  <2> QED BY <2>2, <2>3, SMTT(60)
<1>5. g1[1] = Len(d) /\ g1[2] = at
  BY <1>2, <1>3, <1>4, SMTT(60)
<1>6. /\ dw \in Seq(Int) /\ Len(dw) = 3 * Len(d)
      /\ \A r \in 1 .. Len(d) :
            /\ dw[3 * (r - 1) + 1] = d[r].offset
            /\ dw[3 * (r - 1) + 2] = d[r].keys
            /\ dw[3 * (r - 1) + 3] = d[r].bytes
  BY DirectoryWordsOf
<1> HIDE DEF g1, dw
<1>7. /\ g2 \in Seq(Int)
      /\ Len(g2) >= Len(g1)
      /\ dw # <<>> => Len(g2) >= from + Len(dw)
      /\ \A w \in 1 .. Len(g1) : w <= from => g2[w] = g1[w]
      /\ \A w \in 1 .. Len(dw) : g2[from + w] = dw[w]
  BY <1>4, <1>6, WriteWords
<1>8. Flushed(f, h, d, at) = g2
  BY DEF Flushed, g1, hw, dw
<1> HIDE DEF g2, from
<1>9. g2[1] = Len(d) /\ g2[2] = at
  <2>1. 1 \in 1 .. Len(g1) /\ 2 \in 1 .. Len(g1) /\ 1 <= from /\ 2 <= from
    BY <1>3, <1>4
  <2> QED BY <1>5, <1>7, <2>1
<1>10. \A r \in 1 .. Len(d) :
          /\ g2[from + 3 * (r - 1) + 1] = d[r].offset
          /\ g2[from + 3 * (r - 1) + 2] = d[r].keys
          /\ g2[from + 3 * (r - 1) + 3] = d[r].bytes
  <2> SUFFICES ASSUME NEW r \in 1 .. Len(d)
               PROVE  /\ g2[from + 3 * (r - 1) + 1] = d[r].offset
                      /\ g2[from + 3 * (r - 1) + 2] = d[r].keys
                      /\ g2[from + 3 * (r - 1) + 3] = d[r].bytes
    OBVIOUS
  <2> DEFINE k == 3 * (r - 1)
  <2>1. k \in Nat /\ k + 3 <= Len(dw) /\ Len(dw) \in Nat
    BY <1>6
  <2>2. dw[k + 1] = d[r].offset /\ dw[k + 2] = d[r].keys /\ dw[k + 3] = d[r].bytes
    BY <1>6
  <2> HIDE DEF k
  <2>3. g2[from + (k + 1)] = dw[k + 1] /\ g2[from + (k + 2)] = dw[k + 2]
        /\ g2[from + (k + 3)] = dw[k + 3]
    <3>1. k + 1 \in 1 .. Len(dw) /\ k + 2 \in 1 .. Len(dw) /\ k + 3 \in 1 .. Len(dw)
      BY <2>1
    <3> QED BY <1>7, <3>1
  <2>4. from + (k + 1) = from + k + 1 /\ from + (k + 2) = from + k + 2
        /\ from + (k + 3) = from + k + 3
    BY <1>3, <2>1
  <2> QED BY <2>2, <2>3, <2>4 DEF k
<1>11. DirectoryOf(g2) = d
  <2>1. DirectoryOf(g2) = [r \in 1 .. Len(d) |->
            [offset |-> g2[from + 3 * (r - 1) + 1],
             keys   |-> g2[from + 3 * (r - 1) + 2],
             bytes  |-> g2[from + 3 * (r - 1) + 3]]]
    BY <1>9 DEF DirectoryOf, ENTRY_WORDS, from
  <2>2. \A r \in 1 .. Len(d) :
           d[r] = [offset |-> d[r].offset, keys |-> d[r].keys, bytes |-> d[r].bytes]
    <3>1. \A e \in Entries : e = [offset |-> e.offset, keys |-> e.keys, bytes |-> e.bytes]
      BY DEF Entries
    <3>2. \A r \in 1 .. Len(d) : d[r] \in Entries
      OBVIOUS
    <3> QED BY <3>1, <3>2
  <2>3. DirectoryOf(g2) = [r \in 1 .. Len(d) |-> d[r]]
    BY <2>1, <2>2, <1>10
  <2>4. d = [r \in 1 .. Len(d) |-> d[r]]
    OBVIOUS
  <2> QED BY <2>3, <2>4
<1>12. Len(d) > 0 => from + 3 * Len(d) <= Len(g2)
  <2>1. Len(d) > 0 => dw # <<>>
    BY <1>6
  <2> QED BY <2>1, <1>3, <1>6, <1>7
<1>13. HeaderOf(g2) = [run_count |-> Len(d), directory_offset |-> at]
  BY <1>9 DEF HeaderOf
<1> QED BY <1>4, <1>7, <1>8, <1>9, <1>11, <1>12, <1>13 DEF from
----------------------------------------------------------------------------
(* The inductive invariant. *)

FileInv ==
    /\ file \in Seq(Int) /\ Len(file) >= 2
    /\ file[1] \in Nat /\ file[2] \in Nat

ObjectInv ==
    /\ header_ \in [run_count : Nat, directory_offset : Nat]
    /\ directory_ \in Seq(Entries)
    /\ write_offset_ \in Nat /\ HEADER <= write_offset_
    /\ current_run_ \in Nat
    /\ open \in BOOLEAN /\ thrown \in BOOLEAN /\ in_run_ \in BOOLEAN
    /\ use \in {"fresh", "raw", "runs"}
    /\ scan = Null \/ scan \in [offset : Nat, start : Nat, count : Nat]

(* A file of `append` has no directory, in memory or on the disk, until it is cut. *)
UseInv ==
    /\ use # "runs" => ~in_run_
    /\ use # "runs" /\ open /\ scan = Null => directory_ = <<>>
    /\ use # "runs" /\ ~open => file[1] = 0
    /\ scan # Null => open /\ use = "raw"
    /\ ~open => ~in_run_

Behind(d, at) == \A r \in DOMAIN d : d[r].offset + d[r].bytes <= at

DataInv ==
    open /\ scan = Null =>
        /\ header_.run_count = Len(directory_)
        /\ Ordered(directory_)
        /\ Behind(directory_, write_offset_)
        /\ directory_ = <<>> => file[1] = 0

(* The open run owns whole blocks: what is behind it is behind its last block, and *)
(* if there is something, the run does not end at write_offset_.                   *)
RunInv ==
    in_run_ =>
        LET c == current_run_ + 1
            upto == directory_[c].offset + AlignUp(directory_[c].bytes)
        IN /\ c <= Len(directory_)
           /\ upto <= write_offset_
           /\ \A s \in DOMAIN directory_ :
                 s > c => upto <= directory_[s].offset /\ directory_[s].offset < write_offset_

(* The run that create_entries is in ends where it reads. *)
ScanInv ==
    scan # Null =>
        /\ HEADER <= scan.start
        /\ scan.start + scan.count * WORD = scan.offset
        /\ Ordered(directory_)
        /\ Behind(directory_, scan.start)

ClosedInv ==
    ~open =>
        /\ header_.run_count = Len(directory_)
        /\ DirectoryOf(file) \in Seq(Entries)
        /\ Ordered(DirectoryOf(file))
        /\ Behind(DirectoryOf(file), file[2])
        /\ file[1] > 0 => file[2] \div WORD + 3 * file[1] <= Len(file)

Inv == FileInv /\ ObjectInv /\ UseInv /\ DataInv /\ RunInv /\ ScanInv /\ ClosedInv

----------------------------------------------------------------------------
(* Writing behind the header keeps the header. *)
LEMMA HeaderKept ==
    ASSUME FileInv, NEW at \in Nat, HEADER <= at, NEW words \in Seq(Int)
    PROVE  LET g == Write(file, at, words)
           IN g \in Seq(Int) /\ Len(g) >= 2 /\ g[1] = file[1] /\ g[2] = file[2]
<1> DEFINE g == Write(file, at, words)
           from == at \div WORD
<1>1. from \in Nat /\ from >= 2
  BY DEF WORD, HEADER
<1>2. file \in Seq(Int) /\ Len(file) >= 2
  BY DEF FileInv
<1>3. /\ g \in Seq(Int)
      /\ Len(g) >= Len(file)
      /\ \A w \in 1 .. Len(file) : w <= from => g[w] = file[w]
  BY <1>2, WriteWords
<1> HIDE DEF g, from
<1>4. Len(g) \in Nat /\ Len(file) \in Nat
  BY <1>2, <1>3
<1>5. 1 \in 1 .. Len(file) /\ 2 \in 1 .. Len(file)
  BY <1>2, <1>4
<1> QED BY <1>1, <1>2, <1>3, <1>4, <1>5 DEF g

LEMMA EntryType ==
    ASSUME NEW at \in Nat, NEW n \in Nat
    PROVE  /\ Entry(at, n) \in Entries
           /\ Entry(at, n).offset = at
           /\ Entry(at, n).bytes = n * WORD
BY DEF Entry, Entries, WORD

LEMMA EntryFields ==
    ASSUME NEW d \in Seq(Entries)
    PROVE  /\ Len(d) \in Nat /\ DOMAIN d = 1 .. Len(d)
           /\ \A r \in DOMAIN d :
                 d[r].offset \in Nat /\ d[r].keys \in Nat /\ d[r].bytes \in Nat
<1>1. \A r \in DOMAIN d : d[r] \in Entries
  OBVIOUS
<1>2. \A e \in Entries : e.offset \in Nat /\ e.keys \in Nat /\ e.bytes \in Nat
  BY DEF Entries
<1> QED BY <1>1, <1>2

(* A run put behind all others keeps them in order. *)
LEMMA AppendOrdered ==
    ASSUME NEW d \in Seq(Entries), Ordered(d),
           NEW at \in Nat, HEADER <= at, Behind(d, at),
           NEW n \in Nat, NEW to \in Nat, at + n * WORD <= to
    PROVE  LET a == Append(d, Entry(at, n))
           IN /\ a \in Seq(Entries) /\ Len(a) = Len(d) + 1
              /\ \A r \in 1 .. Len(d) : a[r] = d[r]
              /\ a[Len(d) + 1] = Entry(at, n)
              /\ Ordered(a) /\ Behind(a, to)
<1> DEFINE e == Entry(at, n)
           a == Append(d, e)
<1>1. e \in Entries /\ e.offset = at /\ e.bytes = n * WORD
  BY EntryType
<1> HIDE DEF e
<1>2. /\ a \in Seq(Entries) /\ Len(a) = Len(d) + 1 /\ Len(d) \in Nat
      /\ \A r \in 1 .. Len(d) : a[r] = d[r]
      /\ a[Len(d) + 1] = e
  BY <1>1
<1> HIDE DEF a
<1>3. DOMAIN a = 1 .. Len(d) + 1 /\ DOMAIN d = 1 .. Len(d)
  BY <1>2
<1>4. \A r \in 1 .. Len(d) : d[r].offset \in Nat /\ d[r].bytes \in Nat
  BY EntryFields
<1>5. \A r \in 1 .. Len(d) : HEADER <= d[r].offset /\ d[r].offset + d[r].bytes <= at
  BY <1>3 DEF Ordered, Behind
<1>6. n * WORD \in Nat
  BY DEF WORD
<1>7. ASSUME NEW r \in 1 .. Len(d) + 1
      PROVE  HEADER <= a[r].offset /\ a[r].offset + a[r].bytes <= to
  <2>1. at <= to
    BY <1>6
  <2>2. CASE r \in 1 .. Len(d)
    <3>1. d[r].offset \in Nat /\ d[r].bytes \in Nat /\ a[r] = d[r]
      BY <1>2, <1>4, <2>2
    <3>2. HEADER <= d[r].offset /\ d[r].offset + d[r].bytes <= at
      BY <1>5, <2>2
    <3>3. d[r].offset + d[r].bytes <= to
      BY <2>1, <3>1, <3>2
    <3> QED
      BY <3>1, <3>2, <3>3
  <2>3. CASE r = Len(d) + 1
    BY <1>1, <1>2, <2>3
  <2> QED
    BY <1>2, <2>2, <2>3
<1>8. ASSUME NEW r \in 1 .. Len(d) + 1, NEW s \in 1 .. Len(d) + 1, r < s
      PROVE  a[r].offset + a[r].bytes <= a[s].offset
  <2>1. r \in 1 .. Len(d)
    BY <1>2, <1>8
  <2>2. CASE s \in 1 .. Len(d)
    BY <2>1, <2>2, <1>2, <1>3, <1>8 DEF Ordered
  <2>3. CASE s = Len(d) + 1
    BY <2>1, <2>3, <1>1, <1>2, <1>5
  <2> QED BY <2>2, <2>3, <1>2
<1>9. Ordered(a)
  BY <1>3, <1>7, <1>8 DEF Ordered
<1>10. Behind(a, to)
  BY <1>3, <1>7 DEF Behind
<1> QED BY <1>2, <1>9, <1>10 DEF a, e
(* append_run: the new run is the last, and whole blocks are set aside for it. *)
LEMMA AppendRunStep ==
    ASSUME Inv, open, scan = Null, NEW keys \in Seq(Int), AppendRun(keys)
    PROVE  /\ FileInv'
           /\ header_' \in [run_count : Nat, directory_offset : Nat]
           /\ header_'.run_count = Len(directory_')
           /\ directory_' \in Seq(Entries) /\ Len(directory_') = Len(directory_) + 1
           /\ \A r \in 1 .. Len(directory_) : directory_'[r] = directory_[r]
           /\ directory_'[Len(directory_) + 1] = Entry(write_offset_, Len(keys))
           /\ Ordered(directory_') /\ Behind(directory_', write_offset_')
           /\ write_offset_' \in Nat /\ write_offset_ <= write_offset_'
           /\ write_offset_' = write_offset_ + AlignUp(Len(keys) * WORD)
<1> DEFINE bytes == Len(keys) * WORD
           aligned == AlignUp(bytes)
           words == keys \o ZeroPad(aligned - bytes)
<1>1. Len(keys) \in Nat /\ bytes \in Nat
  BY DEF WORD
<1>2. aligned \in Nat /\ bytes <= aligned
  BY <1>1, AlignUpBounds
<1>3. ZeroPad(aligned - bytes) \in Seq(Int)
  <2> DEFINE n == (aligned - bytes) \div WORD
  <2>1. n \in Nat
    BY <1>1, <1>2 DEF WORD
  <2> HIDE DEF n
  <2>2. [w \in 1 .. n |-> 0] \in Seq(Int)
    BY <2>1
  <2> QED BY <2>2 DEF ZeroPad, n
<1>4. words \in Seq(Int)
  BY <1>3
<1>5. /\ file' = Write(file, write_offset_, words)
      /\ directory_' = Append(directory_, Entry(write_offset_, Len(keys)))
      /\ write_offset_' = write_offset_ + aligned
      /\ header_' = [header_ EXCEPT !.run_count = @ + 1]
  BY DEF AppendRun, Counted
<1>6. /\ FileInv
      /\ header_ \in [run_count : Nat, directory_offset : Nat]
      /\ header_.run_count = Len(directory_)
      /\ directory_ \in Seq(Entries)
      /\ write_offset_ \in Nat /\ HEADER <= write_offset_
      /\ Ordered(directory_) /\ Behind(directory_, write_offset_)
  BY DEF Inv, ObjectInv, DataInv
<1> HIDE DEF words
<1>7. FileInv'
  <2>1. file' \in Seq(Int) /\ Len(file') >= 2 /\ file'[1] = file[1] /\ file'[2] = file[2]
    BY <1>4, <1>5, <1>6, HeaderKept
  <2> QED BY <2>1, <1>6 DEF FileInv
<1> HIDE DEF aligned
<1>8. write_offset_ + Len(keys) * WORD <= write_offset_' /\ write_offset_' \in Nat
  BY <1>1, <1>2, <1>5, <1>6
<1>9. /\ directory_' \in Seq(Entries) /\ Len(directory_') = Len(directory_) + 1
      /\ \A r \in 1 .. Len(directory_) : directory_'[r] = directory_[r]
      /\ directory_'[Len(directory_) + 1] = Entry(write_offset_, Len(keys))
      /\ Ordered(directory_') /\ Behind(directory_', write_offset_')
  BY <1>1, <1>5, <1>6, <1>8, AppendOrdered, SMTT(60)
<1>10. header_' \in [run_count : Nat, directory_offset : Nat]
       /\ header_'.run_count = Len(directory_')
  BY <1>5, <1>6, <1>9, SMTT(60)
<1>11. write_offset_ <= write_offset_'
  BY <1>1, <1>8, <1>6, <1>2, <1>5
<1> QED BY <1>5, <1>7, <1>8, <1>9, <1>10, <1>11 DEF aligned

LEMMA AddRunInv ==
    ASSUME Inv, NEW keys \in Payloads, AddRun(keys)
    PROVE  Inv'
<1>1. keys \in Seq(Int) /\ Len(keys) \in Nat \ {0}
  BY FileAssumption
<1>2. /\ open /\ scan = Null /\ AppendRun(keys)
      /\ open' = open /\ scan' = scan /\ thrown' = thrown
      /\ in_run_' = in_run_ /\ current_run_' = current_run_
      /\ use' = "runs"
  BY DEF AddRun, Ready, UseForRuns
<1>3. /\ FileInv'
      /\ header_' \in [run_count : Nat, directory_offset : Nat]
      /\ header_'.run_count = Len(directory_')
      /\ directory_' \in Seq(Entries) /\ Len(directory_') = Len(directory_) + 1
      /\ \A r \in 1 .. Len(directory_) : directory_'[r] = directory_[r]
      /\ directory_'[Len(directory_) + 1] = Entry(write_offset_, Len(keys))
      /\ Ordered(directory_') /\ Behind(directory_', write_offset_')
      /\ write_offset_' \in Nat /\ write_offset_ <= write_offset_'
      /\ write_offset_' = write_offset_ + AlignUp(Len(keys) * WORD)
  BY <1>1, <1>2, AppendRunStep
<1>4. directory_ \in Seq(Entries) /\ Len(directory_) \in Nat
      /\ DOMAIN directory_' = 1 .. Len(directory_) + 1
      /\ DOMAIN directory_ = 1 .. Len(directory_)
  BY <1>3, EntryFields DEF Inv, ObjectInv
<1>5. ObjectInv'
  BY <1>2, <1>3 DEF Inv, ObjectInv, HEADER, WORD
<1>6. UseInv' /\ ScanInv' /\ ClosedInv'
  BY <1>2 DEF Inv, UseInv, ScanInv, ClosedInv
<1>7. DataInv'
  BY <1>3, <1>4 DEF DataInv
<1>8. RunInv'
  <2> SUFFICES ASSUME in_run_' PROVE RunInv!2'
    BY DEF RunInv
  <2> DEFINE c == current_run_ + 1
             upto == directory_[c].offset + AlignUp(directory_[c].bytes)
  <2>1. c \in 1 .. Len(directory_) /\ upto <= write_offset_
        /\ \A s \in DOMAIN directory_ :
              s > c => upto <= directory_[s].offset /\ directory_[s].offset < write_offset_
    BY <1>2 DEF Inv, RunInv, ObjectInv
  <2>2. directory_'[c] = directory_[c]
    BY <2>1, <1>3
  <2>3. upto \in Nat
    <3>1. directory_[c].offset \in Nat /\ directory_[c].bytes \in Nat
      BY <2>1, <1>4, EntryFields
    <3> QED BY <3>1, AlignUpBounds
  <2>4. write_offset_ < write_offset_' /\ write_offset_ \in Nat
    <3>1. write_offset_ \in Nat
      BY DEF Inv, ObjectInv
    <3>2. Len(keys) * WORD \in Nat /\ 0 < Len(keys) * WORD
      BY <1>1 DEF WORD
    <3> DEFINE bytes == Len(keys) * WORD
    <3>3. AlignUp(bytes) \in Nat /\ bytes <= AlignUp(bytes)
      BY <3>2, AlignUpBounds
    <3> HIDE DEF bytes
    <3>4. 0 < bytes /\ bytes \in Nat /\ write_offset_' = write_offset_ + AlignUp(bytes)
      BY <3>2, <1>3 DEF bytes
    <3> QED BY <3>1, <3>3, <3>4
  <2>5. directory_'[Len(directory_) + 1].offset = write_offset_
    BY <1>3 DEF Entry
  <2> HIDE DEF upto
  <2>6. ASSUME NEW s \in DOMAIN directory_', s > c
        PROVE  upto <= directory_'[s].offset /\ directory_'[s].offset < write_offset_'
    <3>1. CASE s \in 1 .. Len(directory_)
      <4>1. directory_'[s] = directory_[s] /\ directory_[s].offset \in Nat
        BY <3>1, <1>3, <1>4, EntryFields
      <4> QED BY <3>1, <4>1, <2>1, <2>4, <2>6, <1>3, <1>4
    <3>2. CASE s = Len(directory_) + 1
      BY <3>2, <2>1, <2>4, <2>5
    <3> QED BY <3>1, <3>2, <1>4
  <2> QED BY <1>2, <1>3, <1>4, <2>1, <2>2, <2>3, <2>4, <2>6 DEF upto
<1> QED BY <1>3, <1>5, <1>6, <1>7, <1>8 DEF Inv
LEMMA BeginRunInv ==
    ASSUME Inv, BeginRun
    PROVE  Inv'
<1>1. /\ open /\ scan = Null /\ AppendRun(<<>>)
      /\ open' = open /\ scan' = scan /\ thrown' = thrown
      /\ in_run_' = TRUE /\ current_run_' = header_'.run_count - 1
      /\ use' = "runs"
  BY DEF BeginRun, Ready, UseForRuns
<1>2. <<>> \in Seq(Int) /\ Len(<<>>) = 0 /\ Len(<<>>) * WORD = 0
  BY DEF WORD
<1>3. /\ FileInv'
      /\ header_' \in [run_count : Nat, directory_offset : Nat]
      /\ header_'.run_count = Len(directory_')
      /\ directory_' \in Seq(Entries) /\ Len(directory_') = Len(directory_) + 1
      /\ directory_'[Len(directory_) + 1] = Entry(write_offset_, 0)
      /\ Ordered(directory_') /\ Behind(directory_', write_offset_')
      /\ write_offset_' \in Nat /\ write_offset_ <= write_offset_'
      /\ write_offset_' = write_offset_ + AlignUp(0)
  <2> HIDE DEF Inv
  <2> QED BY <1>1, <1>2, AppendRunStep
<1>4. directory_ \in Seq(Entries) /\ Len(directory_) \in Nat
      /\ DOMAIN directory_' = 1 .. Len(directory_) + 1
  BY <1>3, EntryFields DEF Inv, ObjectInv
<1>5. current_run_' = Len(directory_)
  BY <1>1, <1>3, <1>4
<1>6. ObjectInv'
  BY <1>1, <1>3, <1>4, <1>5 DEF Inv, ObjectInv, HEADER, WORD
<1>7. UseInv' /\ ScanInv' /\ ClosedInv'
  BY <1>1 DEF Inv, UseInv, ScanInv, ClosedInv
<1>8. DataInv'
  BY <1>3, <1>4 DEF DataInv
<1>9. RunInv'
  <2>1. directory_'[current_run_' + 1].offset = write_offset_
        /\ directory_'[current_run_' + 1].bytes = 0
    BY <1>3, <1>5 DEF Entry, WORD
  <2>2. current_run_' + 1 = Len(directory_) + 1 /\ Len(directory_') = Len(directory_) + 1
    BY <1>3, <1>5
  <2> QED BY <1>3, <1>4, <2>1, <2>2 DEF RunInv
<1> QED BY <1>3, <1>6, <1>7, <1>8, <1>9 DEF Inv

(* append_to_run that does not throw: the run still ends before the next one. *)
LEMMA AppendToRunInv ==
    ASSUME Inv, NEW keys \in Payloads, AppendToRun(keys)
    PROVE  Inv'
<1> DEFINE c == current_run_ + 1
           entry == directory_[c]
           total == entry.bytes + Len(keys) * WORD
           old_aligned == AlignUp(entry.bytes)
           new_aligned == AlignUp(total)
           grows == new_aligned > old_aligned
           pad == IF AtEnd(entry) /\ grows THEN ZeroPad(new_aligned - total) ELSE <<>>
           longer == Longer(entry, Len(keys))
<1>1. /\ open /\ scan = Null /\ in_run_
      /\ file' = Write(file, entry.offset + entry.bytes, keys \o pad)
      /\ \/ /\ AtEnd(entry) \/ ~grows
            /\ write_offset_' = IF AtEnd(entry) /\ grows
                                THEN write_offset_ + (new_aligned - old_aligned)
                                ELSE write_offset_
            /\ directory_' = [directory_ EXCEPT ![c] = longer]
            /\ thrown' = thrown
         \/ /\ ~AtEnd(entry) /\ grows
            /\ thrown' = TRUE
            /\ write_offset_' = write_offset_ /\ directory_' = directory_
      /\ open' = open /\ header_' = header_ /\ in_run_' = in_run_
      /\ current_run_' = current_run_ /\ scan' = scan /\ use' = use
  BY DEF AppendToRun, Ready
<1>2. keys \in Seq(Int) /\ Len(keys) \in Nat
  BY FileAssumption
<1>3. /\ FileInv /\ directory_ \in Seq(Entries) /\ Len(directory_) \in Nat
      /\ DOMAIN directory_ = 1 .. Len(directory_)
      /\ write_offset_ \in Nat /\ HEADER <= write_offset_ /\ current_run_ \in Nat
      /\ Ordered(directory_) /\ Behind(directory_, write_offset_)
      /\ header_.run_count = Len(directory_)
  BY <1>1, EntryFields DEF Inv, ObjectInv, DataInv
<1>4. /\ c \in 1 .. Len(directory_)
      /\ entry.offset + old_aligned <= write_offset_
      /\ \A s \in DOMAIN directory_ :
            s > c => /\ entry.offset + old_aligned <= directory_[s].offset
                     /\ directory_[s].offset < write_offset_
  BY <1>1, <1>3 DEF Inv, RunInv
<1>5. /\ entry.offset \in Nat /\ entry.keys \in Nat /\ entry.bytes \in Nat
      /\ HEADER <= entry.offset
  BY <1>3, <1>4, EntryFields DEF Ordered
<1>6. Len(keys) * WORD \in Nat /\ total \in Nat
  BY <1>2, <1>5 DEF WORD
<1>7. old_aligned \in Nat /\ new_aligned \in Nat /\ total <= new_aligned
  BY <1>5, <1>6, AlignUpBounds
<1>8. pad \in Seq(Int)
  <2> DEFINE n == (new_aligned - total) \div WORD
  <2> HIDE DEF new_aligned, total
  <2>1. n \in Nat
    BY <1>6, <1>7 DEF WORD
  <2> HIDE DEF n
  <2>2. [w \in 1 .. n |-> 0] \in Seq(Int)
    BY <2>1
  <2> QED BY <2>2 DEF ZeroPad, n
<1>9. FileInv'
  <2> DEFINE at == entry.offset + entry.bytes
             words == keys \o pad
  <2>1. at \in Nat /\ HEADER <= at
    BY <1>5 DEF HEADER, WORD
  <2> HIDE DEF pad
  <2>2. words \in Seq(Int)
    BY <1>2, <1>8
  <2>3. file' = Write(file, at, words)
    BY <1>1
  <2> HIDE DEF at, words
  <2>4. file' \in Seq(Int) /\ Len(file') >= 2 /\ file'[1] = file[1] /\ file'[2] = file[2]
    BY <1>3, <2>1, <2>2, <2>3, HeaderKept
  <2> QED BY <2>4, <1>3 DEF FileInv
<1> HIDE DEF pad
<1>10. CASE ~AtEnd(entry) /\ grows
  <2>1. thrown' = TRUE /\ write_offset_' = write_offset_ /\ directory_' = directory_
    BY <1>1, <1>10
  <2>2. directory_ # <<>>
    BY <1>3, <1>4
  <2>3. ObjectInv' /\ UseInv' /\ ScanInv' /\ ClosedInv' /\ RunInv'
    BY <1>1, <2>1 DEF Inv, ObjectInv, UseInv, ScanInv, ClosedInv, RunInv
  <2>4. DataInv'
    BY <1>1, <1>3, <2>1, <2>2 DEF DataInv
  <2> QED BY <1>9, <2>3, <2>4 DEF Inv
<1>11. CASE AtEnd(entry) \/ ~grows
  <2>1. /\ write_offset_' = IF AtEnd(entry) /\ grows
                            THEN write_offset_ + (new_aligned - old_aligned)
                            ELSE write_offset_
        /\ directory_' = [directory_ EXCEPT ![c] = longer]
        /\ thrown' = thrown
    BY <1>1, <1>11
  <2>2. longer \in Entries /\ longer.offset = entry.offset /\ longer.bytes = total
    <3>1. entry \in Entries /\ entry.keys + Len(keys) \in Nat
      BY <1>2, <1>3, <1>4, <1>5
    <3> HIDE DEF entry, total
    <3>2. longer = [entry EXCEPT !.keys = entry.keys + Len(keys), !.bytes = total]
      BY DEF Longer, total
    <3> HIDE DEF longer
    <3> QED BY <3>1, <3>2, <1>6 DEF Entries
  <2> HIDE DEF longer, total, old_aligned, new_aligned
  <2>3. /\ directory_' \in Seq(Entries) /\ Len(directory_') = Len(directory_)
        /\ DOMAIN directory_' = DOMAIN directory_
        /\ directory_'[c] = longer
        /\ \A r \in DOMAIN directory_ : r # c => directory_'[r] = directory_[r]
    BY <2>1, <2>2, <1>3, <1>4
  <2>4. AtEnd(entry) => entry.offset + old_aligned = write_offset_
    BY DEF AtEnd, old_aligned
  <2> HIDE DEF entry
  <2>5. /\ entry.offset + new_aligned <= write_offset_'
        /\ write_offset_ <= write_offset_' /\ write_offset_' \in Nat
    BY <2>1, <2>4, <1>3, <1>4, <1>5, <1>7, <1>11
  <2>6. \A s \in DOMAIN directory_ : directory_[s].offset \in Nat /\ directory_[s].bytes \in Nat
    BY <1>3, EntryFields
  <2>7. ASSUME NEW s \in DOMAIN directory_, s > c
        PROVE  entry.offset + new_aligned <= directory_[s].offset
               /\ directory_[s].offset < write_offset_'
    <3>1. entry.offset + old_aligned <= directory_[s].offset
          /\ directory_[s].offset < write_offset_ /\ directory_[s].offset \in Nat
      BY <2>6, <2>7, <1>4
    <3>2. ~AtEnd(entry)
      BY <3>1, <2>4, <1>3, <1>5, <1>7
    <3>3. new_aligned <= old_aligned
      BY <3>2, <1>7, <1>11
    <3> QED BY <3>1, <3>3, <2>5, <1>3, <1>5, <1>7, SMTT(60)
  <2>8. ObjectInv'
    BY <1>1, <1>3, <2>3, <2>5, <2>1 DEF Inv, ObjectInv, HEADER, WORD
  <2>9. UseInv' /\ ScanInv' /\ ClosedInv'
    BY <1>1, <1>3 DEF Inv, UseInv, ScanInv, ClosedInv
  <2>10. Ordered(directory_')
    <3>1. \A r \in DOMAIN directory_' : HEADER <= directory_'[r].offset
      BY <2>2, <2>3, <1>3, <1>5 DEF Ordered
    <3>2. ASSUME NEW r \in DOMAIN directory_, NEW s \in DOMAIN directory_, r < s
          PROVE  directory_'[r].offset + directory_'[r].bytes <= directory_'[s].offset
      <4>1. CASE r = c
        <5>1. s # c /\ directory_'[s] = directory_[s]
          BY <3>2, <4>1, <2>3, <1>3, <1>4
        <5>2. entry.offset + new_aligned <= directory_[s].offset /\ directory_[s].offset \in Nat
          BY <3>2, <4>1, <2>6, <2>7
        <5> QED BY <4>1, <5>1, <5>2, <2>2, <2>3, <1>5, <1>6, <1>7, SMTT(60)
      <4>2. CASE r # c
        <5>1. directory_'[r] = directory_[r]
              /\ directory_[r].offset + directory_[r].bytes <= directory_[s].offset
          BY <3>2, <4>2, <2>3, <1>3 DEF Ordered
        <5>2. directory_'[s].offset = directory_[s].offset
          BY <2>2, <2>3 DEF entry
        <5> QED BY <5>1, <5>2
      <4> QED BY <4>1, <4>2
    <3> QED BY <3>1, <3>2, <2>3 DEF Ordered
  <2>11. Behind(directory_', write_offset_')
    <3>1. ASSUME NEW r \in DOMAIN directory_
          PROVE  directory_'[r].offset + directory_'[r].bytes <= write_offset_'
      <4>1. CASE r = c
        BY <4>1, <2>2, <2>3, <2>5, <1>5, <1>6, <1>7
      <4>2. CASE r # c
        BY <4>2, <2>3, <2>5, <2>6, <1>3 DEF Behind
      <4> QED BY <4>1, <4>2
    <3> QED BY <3>1, <2>3 DEF Behind
  <2>12. DataInv'
    <3>1. directory_' # <<>>
      BY <2>3, <1>3, <1>4
    <3> QED BY <3>1, <1>1, <1>3, <2>3, <2>10, <2>11 DEF DataInv
  <2>13. RunInv'
    <3>1. directory_'[c].offset + AlignUp(directory_'[c].bytes) = entry.offset + new_aligned
      BY <2>2, <2>3 DEF new_aligned
    <3>2. \A s \in DOMAIN directory_' :
             s > c => /\ entry.offset + new_aligned <= directory_'[s].offset
                      /\ directory_'[s].offset < write_offset_'
      BY <2>3, <2>7, <1>3, <1>4
    <3> QED BY <3>1, <3>2, <1>1, <1>3, <1>4, <2>3, <2>5 DEF RunInv
  <2> QED BY <1>9, <2>8, <2>9, <2>12, <2>13 DEF Inv
<1> QED BY <1>1, <1>10, <1>11
(* A flushed directory is the one that a reader of the closed file gets. *)
LEMMA FlushedInv ==
    ASSUME FileInv, NEW d \in Seq(Entries), Ordered(d), NEW at \in Nat, HEADER <= at,
           Behind(d, at),
           NEW h \in [run_count : Nat, directory_offset : Nat], h.run_count = Len(d)
    PROVE  LET g == Flushed(file, h, d, at)
           IN /\ g \in Seq(Int) /\ Len(g) >= 2
              /\ g[1] = Len(d) /\ g[2] = at
              /\ DirectoryOf(g) \in Seq(Entries)
              /\ Ordered(DirectoryOf(g)) /\ Behind(DirectoryOf(g), g[2])
              /\ g[1] > 0 => g[2] \div WORD + 3 * g[1] <= Len(g)
<1> DEFINE g == Flushed(file, h, d, at)
<1>1. /\ g \in Seq(Int) /\ Len(g) >= 2
      /\ g[1] = Len(d) /\ g[2] = at
      /\ DirectoryOf(g) = d
      /\ Len(d) > 0 => at \div WORD + 3 * Len(d) <= Len(g)
  BY FlushedFile DEF FileInv
<1> HIDE DEF g
<1> QED BY <1>1 DEF g

LEMMA FlushDirectoryInv ==
    ASSUME Inv, FlushDirectory
    PROVE  Inv'
<1>1. /\ open /\ scan = Null /\ use = "runs"
      /\ file' = Flushed(file, header_, directory_, write_offset_)
      /\ header_' = [header_ EXCEPT !.directory_offset = write_offset_]
      /\ open' = open /\ directory_' = directory_ /\ write_offset_' = write_offset_
      /\ in_run_' = in_run_ /\ current_run_' = current_run_
      /\ scan' = scan /\ use' = use /\ thrown' = thrown
  BY DEF FlushDirectory, Ready
<1>2. /\ FileInv /\ directory_ \in Seq(Entries)
      /\ write_offset_ \in Nat /\ HEADER <= write_offset_
      /\ header_ \in [run_count : Nat, directory_offset : Nat]
      /\ Ordered(directory_) /\ Behind(directory_, write_offset_)
      /\ header_.run_count = Len(directory_)
  BY <1>1 DEF Inv, ObjectInv, DataInv
<1>3. file' \in Seq(Int) /\ Len(file') >= 2
      /\ file'[1] = Len(directory_) /\ file'[2] = write_offset_
  <2> DEFINE g == Flushed(file, header_, directory_, write_offset_)
  <2>1. g \in Seq(Int) /\ Len(g) >= 2 /\ g[1] = Len(directory_) /\ g[2] = write_offset_
    BY <1>2, FlushedInv
  <2> HIDE DEF g
  <2> QED BY <1>1, <2>1 DEF g
<1>4. FileInv'
  BY <1>2, <1>3 DEF FileInv
<1>5. ObjectInv' /\ UseInv' /\ ScanInv' /\ ClosedInv' /\ RunInv'
  BY <1>1, <1>2 DEF Inv, ObjectInv, UseInv, ScanInv, ClosedInv, RunInv
<1>6. DataInv'
  <2>1. header_'.run_count = Len(directory_)
    BY <1>1, <1>2
  <2>2. directory_ = <<>> => Len(directory_) = 0
    OBVIOUS
  <2> QED BY <1>1, <1>2, <1>3, <2>1, <2>2 DEF DataInv
<1> QED BY <1>4, <1>5, <1>6 DEF Inv

LEMMA AppendDirectInv ==
    ASSUME Inv, NEW keys \in Payloads, AppendDirect(keys)
    PROVE  Inv'
<1>1. /\ open /\ scan = Null /\ use \in {"fresh", "raw"}
      /\ file' = Write(file, Len(file) * WORD, keys)
      /\ use' = "raw" /\ open' = open /\ scan' = scan /\ thrown' = thrown
      /\ UNCHANGED objectVars
  BY DEF AppendDirect, Ready
<1>2. keys \in Seq(Int)
  BY FileAssumption
<1>3. FileInv /\ Len(file) * WORD \in Nat /\ HEADER <= Len(file) * WORD
  <2>1. FileInv /\ Len(file) \in Nat /\ Len(file) >= 2
    BY DEF Inv, FileInv
  <2> QED BY <2>1 DEF WORD, HEADER
<1>4. file' \in Seq(Int) /\ Len(file') >= 2 /\ file'[1] = file[1] /\ file'[2] = file[2]
  <2> DEFINE at == Len(file) * WORD
  <2>1. at \in Nat /\ HEADER <= at /\ file' = Write(file, at, keys)
    BY <1>1, <1>3
  <2> HIDE DEF at
  <2> QED BY <1>2, <1>3, <2>1, HeaderKept
<1>5. FileInv'
  BY <1>3, <1>4 DEF FileInv
<1>6. ObjectInv' /\ UseInv' /\ DataInv' /\ RunInv' /\ ScanInv' /\ ClosedInv'
  BY <1>1, <1>4 DEF objectVars, Inv, ObjectInv, UseInv, DataInv, RunInv, ScanInv, ClosedInv
<1> QED BY <1>5, <1>6 DEF Inv

LEMMA EndRunInv ==
    ASSUME Inv, EndRun
    PROVE  Inv'
<1>1. /\ open /\ scan = Null /\ in_run_' = FALSE
      /\ header_' = [header_ EXCEPT !.run_count = Len(directory_)]
      /\ file' = file /\ open' = open /\ directory_' = directory_
      /\ write_offset_' = write_offset_ /\ current_run_' = current_run_
      /\ scan' = scan /\ use' = use /\ thrown' = thrown
  BY DEF EndRun, Ready
<1>2. Len(directory_) \in Nat
  BY DEF Inv, ObjectInv
<1>3. header_' \in [run_count : Nat, directory_offset : Nat]
      /\ header_'.run_count = Len(directory_)
  BY <1>1, <1>2 DEF Inv, ObjectInv
<1>4. FileInv' /\ ObjectInv' /\ UseInv' /\ RunInv' /\ ScanInv' /\ ClosedInv'
  BY <1>1, <1>3 DEF Inv, FileInv, ObjectInv, UseInv, RunInv, ScanInv, ClosedInv
<1>5. DataInv'
  BY <1>1, <1>3 DEF Inv, DataInv
<1> QED BY <1>4, <1>5 DEF Inv
LEMMA NoEntries ==
    /\ <<>> \in Seq(Entries) /\ Ordered(<<>>)
    /\ \A at : Behind(<<>>, at)
BY DEF Ordered, Behind

LEMMA BeginScanInv ==
    ASSUME Inv, BeginScan
    PROVE  Inv'
<1>1. /\ open /\ scan = Null /\ use = "raw"
      /\ directory_' = <<>>
      /\ scan' = [offset |-> HEADER, start |-> HEADER, count |-> 0]
      /\ file' = file /\ open' = open /\ header_' = header_
      /\ write_offset_' = write_offset_ /\ in_run_' = in_run_
      /\ current_run_' = current_run_ /\ use' = use /\ thrown' = thrown
  BY DEF BeginScan, Ready
<1>2. scan' \in [offset : Nat, start : Nat, count : Nat] /\ scan' # Null
  BY <1>1, FileAssumption DEF HEADER, WORD
<1>3. FileInv' /\ ObjectInv' /\ UseInv' /\ RunInv' /\ ClosedInv' /\ DataInv'
  BY <1>1, <1>2, NoEntries
     DEF Inv, FileInv, ObjectInv, UseInv, RunInv, ClosedInv, DataInv
<1>4. ScanInv'
  BY <1>1, NoEntries DEF ScanInv, HEADER, WORD
<1> QED BY <1>3, <1>4 DEF Inv

(* The run that is closed where create_entries has read to. *)
LEMMA EndOfRunOrdered ==
    ASSUME Inv, scan # Null
    PROVE  /\ EndOfRun \in Seq(Entries)
           /\ Ordered(EndOfRun) /\ Behind(EndOfRun, scan.offset)
<1>1. /\ scan.offset \in Nat /\ scan.start \in Nat /\ scan.count \in Nat
      /\ directory_ \in Seq(Entries)
  BY DEF Inv, ObjectInv
<1>2. /\ HEADER <= scan.start
      /\ scan.start + scan.count * WORD = scan.offset
      /\ Ordered(directory_) /\ Behind(directory_, scan.start)
  BY DEF Inv, ScanInv
<1>3. CASE scan.count > 0
  <2>1. EndOfRun = Append(directory_, Entry(scan.start, scan.count))
    BY <1>3 DEF EndOfRun
  <2>2. scan.start + scan.count * WORD <= scan.offset
    BY <1>1, <1>2 DEF WORD
  <2> QED BY <1>1, <1>2, <2>1, <2>2, AppendOrdered
<1>4. CASE ~(scan.count > 0)
  <2>1. EndOfRun = directory_
    BY <1>4 DEF EndOfRun
  <2>2. scan.start = scan.offset
    BY <1>1, <1>2, <1>4 DEF WORD
  <2> QED BY <1>1, <1>2, <2>1, <2>2
<1> QED BY <1>3, <1>4

LEMMA ScanKeyInv ==
    ASSUME Inv, ScanKey
    PROVE  Inv'
<1>1. /\ scan # Null
      /\ \/ /\ directory_' = EndOfRun
            /\ scan' = [offset |-> scan.offset + WORD, start |-> scan.offset, count |-> 1]
         \/ /\ scan' = [offset |-> scan.offset + WORD, start |-> scan.start,
                     count |-> scan.count + 1]
            /\ directory_' = directory_
      /\ file' = file /\ open' = open /\ header_' = header_
      /\ write_offset_' = write_offset_ /\ in_run_' = in_run_
      /\ current_run_' = current_run_ /\ use' = use /\ thrown' = thrown
  BY DEF ScanKey
<1>2. /\ scan \in [offset : Nat, start : Nat, count : Nat]
      /\ directory_ \in Seq(Entries)
      /\ HEADER <= scan.start
      /\ scan.start + scan.count * WORD = scan.offset
      /\ Ordered(directory_) /\ Behind(directory_, scan.start)
      /\ open /\ ~in_run_
  BY <1>1 DEF Inv, ObjectInv, ScanInv, UseInv
<1>3. scan.offset \in Nat /\ scan.start \in Nat /\ scan.count \in Nat /\ HEADER <= scan.offset
  BY <1>2 DEF WORD, HEADER
<1>4. /\ scan' \in [offset : Nat, start : Nat, count : Nat]
      /\ directory_' \in Seq(Entries)
      /\ HEADER <= scan'.start
      /\ scan'.start + scan'.count * WORD = scan'.offset
      /\ Ordered(directory_') /\ Behind(directory_', scan'.start)
  <2>1. CASE directory_' = EndOfRun
             /\ scan' = [offset |-> scan.offset + WORD, start |-> scan.offset, count |-> 1]
    <3>1. EndOfRun \in Seq(Entries) /\ Ordered(EndOfRun) /\ Behind(EndOfRun, scan.offset)
      BY <1>1, EndOfRunOrdered
    <3> QED BY <1>3, <2>1, <3>1 DEF WORD
  <2>2. CASE scan' = [offset |-> scan.offset + WORD, start |-> scan.start,
                     count |-> scan.count + 1]
             /\ directory_' = directory_
    <3>1. scan'.offset = scan.offset + WORD /\ scan'.count = scan.count + 1
          /\ scan'.start = scan.start /\ scan' \in [offset : Nat, start : Nat, count : Nat]
      BY <1>2, <1>3, <2>2 DEF WORD
    <3>2. scan'.start + scan'.count * WORD = scan'.offset
      BY <1>2, <1>3, <3>1 DEF WORD
    <3> QED BY <1>2, <2>2, <3>1, <3>2
  <2> QED BY <1>1, <2>1, <2>2
<1>5. scan' # Null
  BY <1>4, FileAssumption
<1>6. FileInv' /\ ObjectInv' /\ UseInv' /\ RunInv' /\ ClosedInv' /\ DataInv'
  BY <1>1, <1>2, <1>4, <1>5
     DEF Inv, FileInv, ObjectInv, UseInv, RunInv, ClosedInv, DataInv
<1>7. ScanInv'
  BY <1>4 DEF ScanInv
<1> QED BY <1>6, <1>7 DEF Inv

LEMMA FinishScanInv ==
    ASSUME Inv, FinishScan
    PROVE  Inv'
<1>1. /\ scan # Null
      /\ directory_' = EndOfRun
      /\ write_offset_' = scan.offset
      /\ header_' = [run_count |-> Len(directory_'), directory_offset |-> write_offset_']
      /\ file' = Flushed(file, header_', directory_', write_offset_')
      /\ scan' = Null /\ use' = "runs"
      /\ open' = open /\ in_run_' = in_run_ /\ current_run_' = current_run_
      /\ thrown' = thrown
  BY DEF FinishScan
<1>2. /\ scan \in [offset : Nat, start : Nat, count : Nat]
      /\ HEADER <= scan.start
      /\ scan.start + scan.count * WORD = scan.offset
      /\ open /\ ~in_run_ /\ FileInv
  BY <1>1 DEF Inv, ObjectInv, ScanInv, UseInv
<1>3. write_offset_' \in Nat /\ HEADER <= write_offset_'
  BY <1>1, <1>2 DEF WORD, HEADER
<1>4. directory_' \in Seq(Entries) /\ Ordered(directory_')
      /\ Behind(directory_', write_offset_') /\ Len(directory_') \in Nat
  BY <1>1, EndOfRunOrdered
<1>5. header_' \in [run_count : Nat, directory_offset : Nat]
      /\ header_'.run_count = Len(directory_')
  BY <1>1, <1>3, <1>4
<1>6. file' \in Seq(Int) /\ Len(file') >= 2
      /\ file'[1] = Len(directory_') /\ file'[2] = write_offset_'
  <2> DEFINE g == Flushed(file, header_', directory_', write_offset_')
  <2>1. g \in Seq(Int) /\ Len(g) >= 2 /\ g[1] = Len(directory_') /\ g[2] = write_offset_'
    BY <1>2, <1>3, <1>4, <1>5, FlushedInv
  <2> HIDE DEF g
  <2> QED BY <1>1, <2>1 DEF g
<1>7. FileInv'
  BY <1>3, <1>4, <1>6 DEF FileInv
<1>8. ObjectInv'
  BY <1>1, <1>3, <1>4, <1>5 DEF Inv, ObjectInv
<1>9. UseInv' /\ RunInv' /\ ScanInv' /\ ClosedInv'
  BY <1>1, <1>2 DEF UseInv, RunInv, ScanInv, ClosedInv
<1>10. DataInv'
  <2>1. directory_' = <<>> => Len(directory_') = 0
    OBVIOUS
  <2> QED BY <1>4, <1>5, <1>6, <2>1 DEF DataInv
<1> QED BY <1>7, <1>8, <1>9, <1>10 DEF Inv
(* Behind the data area that the constructor finds there is no run. *)
LEMMA EndOfDataBehind ==
    ASSUME NEW d \in Seq(Entries), Ordered(d)
    PROVE  EndOfData(d) \in Nat /\ HEADER <= EndOfData(d) /\ Behind(d, EndOfData(d))
<1>1. CASE d = <<>>
  BY <1>1 DEF EndOfData, Behind, HEADER, WORD
<1>2. CASE d # <<>>
  <2> DEFINE n == Len(d)
             last == d[n]
  <2>1. n \in Nat \ {0} /\ n \in DOMAIN d /\ DOMAIN d = 1 .. n
    BY <1>2
  <2>2. \A r \in DOMAIN d : d[r].offset \in Nat /\ d[r].bytes \in Nat
    BY EntryFields
  <2>3. last.offset \in Nat /\ last.bytes \in Nat /\ HEADER <= last.offset
    BY <2>1, <2>2 DEF Ordered
  <2>4. AlignUp(last.bytes) \in Nat /\ last.bytes <= AlignUp(last.bytes)
    BY <2>3, AlignUpBounds
  <2>5. EndOfData(d) = last.offset + AlignUp(last.bytes)
    BY <1>2 DEF EndOfData
  <2> DEFINE to == EndOfData(d)
  <2>6. \A r \in DOMAIN d : r # n => d[r].offset + d[r].bytes <= last.offset
    BY <2>1 DEF Ordered
  <2> HIDE DEF last, n
  <2>7. to \in Nat /\ HEADER <= to /\ last.offset <= to /\ last.offset + last.bytes <= to
    BY <2>3, <2>4, <2>5 DEF HEADER, WORD
  <2> HIDE DEF to
  <2>8. \A r \in DOMAIN d : d[r].offset + d[r].bytes <= to
    <3> SUFFICES ASSUME NEW r \in DOMAIN d PROVE d[r].offset + d[r].bytes <= to
      OBVIOUS
    <3>1. d[r].offset \in Nat /\ d[r].bytes \in Nat
      BY <2>2
    <3>2. CASE r = n
      BY <2>7, <3>2 DEF last
    <3>3. CASE r # n
      <4>1. d[r].offset + d[r].bytes <= last.offset
        BY <2>6, <3>3
      <4> DEFINE sum == d[r].offset + d[r].bytes
      <4>2. sum \in Nat /\ sum <= last.offset
        BY <3>1, <4>1
      <4> HIDE DEF sum
      <4>3. sum <= to
        BY <2>3, <2>7, <4>2
      <4> QED BY <4>3 DEF sum
    <3> QED BY <3>2, <3>3
  <2> QED BY <2>7, <2>8 DEF Behind, to
<1> QED BY <1>1, <1>2

(* The members of an object without runs. *)
LEMMA EmptyObject ==
    LET h == [run_count |-> 0, directory_offset |-> 0]
    IN /\ h \in [run_count : Nat, directory_offset : Nat]
       /\ <<>> \in Seq(Entries)
       /\ h.run_count = Len(<<>>)
       /\ HEADER \in Nat /\ HEADER <= HEADER
       /\ 0 \in Nat
<1>1. HEADER \in Nat /\ HEADER <= HEADER
  BY DEF HEADER, WORD
<1> QED BY <1>1, NoEntries

LEMMA CloseInv ==
    ASSUME Inv, Close
    PROVE  Inv'
<1>1. /\ open /\ scan = Null /\ open' = FALSE
      /\ file' = IF directory_ = <<>> THEN file
                 ELSE Flushed(file, header_, directory_, write_offset_)
      /\ header_' = [run_count |-> 0, directory_offset |-> 0]
      /\ directory_' = <<>> /\ write_offset_' = HEADER
      /\ in_run_' = FALSE /\ current_run_' = 0
      /\ scan' = scan /\ use' = use /\ thrown' = thrown
  BY DEF Close, Ready
<1>2. /\ FileInv /\ directory_ \in Seq(Entries)
      /\ write_offset_ \in Nat /\ HEADER <= write_offset_
      /\ header_ \in [run_count : Nat, directory_offset : Nat]
      /\ Ordered(directory_) /\ Behind(directory_, write_offset_)
      /\ header_.run_count = Len(directory_)
      /\ directory_ = <<>> => file[1] = 0
      /\ use # "runs" => directory_ = <<>>
  BY <1>1 DEF Inv, ObjectInv, DataInv, UseInv
<1>3. /\ FileInv'
      /\ DirectoryOf(file') \in Seq(Entries) /\ Ordered(DirectoryOf(file'))
      /\ Behind(DirectoryOf(file'), file'[2])
      /\ file'[1] > 0 => file'[2] \div WORD + 3 * file'[1] <= Len(file')
      /\ use # "runs" => file'[1] = 0
  <2>1. CASE directory_ = <<>>
    <3>1. file' = file /\ file[1] = 0
      BY <1>1, <1>2, <2>1
    <3>2. DirectoryOf(file') = <<>>
      BY <3>1 DEF DirectoryOf
    <3> QED BY <1>2, <3>1, <3>2, NoEntries DEF FileInv
  <2>2. CASE directory_ # <<>>
    <3> DEFINE g == Flushed(file, header_, directory_, write_offset_)
    <3>1. /\ g \in Seq(Int) /\ Len(g) >= 2
          /\ g[1] = Len(directory_) /\ g[2] = write_offset_
          /\ DirectoryOf(g) \in Seq(Entries)
          /\ Ordered(DirectoryOf(g)) /\ Behind(DirectoryOf(g), g[2])
          /\ g[1] > 0 => g[2] \div WORD + 3 * g[1] <= Len(g)
      BY <1>2, FlushedInv
    <3> HIDE DEF g
    <3>2. file' = g /\ Len(directory_) \in Nat
      BY <1>1, <1>2, <2>2 DEF g
    <3> QED BY <1>2, <2>2, <3>1, <3>2 DEF FileInv
  <2> QED BY <2>1, <2>2
<1>4. ObjectInv' /\ header_'.run_count = Len(directory_')
  BY <1>1, EmptyObject DEF Inv, ObjectInv
<1>5. UseInv' /\ DataInv' /\ RunInv' /\ ScanInv'
  BY <1>1, <1>3 DEF UseInv, DataInv, RunInv, ScanInv
<1>6. ClosedInv'
  BY <1>3, <1>4 DEF ClosedInv
<1> QED BY <1>3, <1>4, <1>5, <1>6 DEF Inv

LEMMA ReopenInv ==
    ASSUME Inv, Reopen
    PROVE  Inv'
<1>1. /\ ~open /\ open' = TRUE
      /\ header_' = HeaderOf(file)
      /\ directory_' = DirectoryOf(file)
      /\ write_offset_' = EndOfData(directory_')
      /\ file' = file /\ in_run_' = in_run_ /\ current_run_' = current_run_
      /\ scan' = scan /\ use' = use /\ thrown' = thrown
  BY DEF Reopen
<1>2. /\ FileInv /\ scan = Null /\ ~in_run_
      /\ directory_' \in Seq(Entries) /\ Ordered(directory_')
      /\ use # "runs" => file[1] = 0
  BY <1>1 DEF Inv, UseInv, ClosedInv
<1>3. file[1] \in Nat /\ file[2] \in Nat
  BY <1>2 DEF FileInv
<1>4. directory_' = <<>> <=> file[1] = 0
  BY <1>1, <1>3 DEF DirectoryOf
<1>5. Len(directory_') = file[1]
  BY <1>1, <1>2, <1>3 DEF DirectoryOf
<1>6. /\ write_offset_' \in Nat /\ HEADER <= write_offset_'
      /\ Behind(directory_', write_offset_')
  BY <1>1, <1>2, EndOfDataBehind
<1>7. header_' \in [run_count : Nat, directory_offset : Nat]
      /\ header_'.run_count = Len(directory_')
  BY <1>1, <1>3, <1>5 DEF HeaderOf
<1>8. FileInv' /\ ObjectInv' /\ UseInv' /\ RunInv' /\ ScanInv' /\ ClosedInv'
  BY <1>1, <1>2, <1>4, <1>6, <1>7
     DEF Inv, FileInv, ObjectInv, UseInv, RunInv, ScanInv, ClosedInv
<1>9. DataInv'
  BY <1>1, <1>2, <1>4, <1>6, <1>7 DEF DataInv
<1> QED BY <1>8, <1>9 DEF Inv

----------------------------------------------------------------------------
LEMMA InitInv ==
    ASSUME Init
    PROVE  Inv
<1>1. /\ file = <<0, 0>> /\ directory_ = <<>>
      /\ header_ = [run_count |-> 0, directory_offset |-> 0]
      /\ write_offset_ = HEADER /\ in_run_ = FALSE /\ current_run_ = 0
      /\ open = TRUE /\ scan = Null /\ use = "fresh" /\ thrown = FALSE
  BY DEF Init, HeaderWords
<1>2. FileInv
  BY <1>1 DEF FileInv
<1>3. ObjectInv
  BY <1>1, EmptyObject DEF ObjectInv
<1>4. UseInv /\ DataInv /\ RunInv /\ ScanInv /\ ClosedInv
  BY <1>1, NoEntries DEF UseInv, DataInv, RunInv, ScanInv, ClosedInv
<1> QED BY <1>2, <1>3, <1>4 DEF Inv

LEMMA NextInv ==
    ASSUME Inv, [Next]_vars
    PROVE  Inv'
<1>1. CASE RunStoreCall
  BY <1>1, AddRunInv, AppendToRunInv, AppendDirectInv, BeginRunInv, EndRunInv,
     FlushDirectoryInv, BeginScanInv DEF RunStoreCall
<1>2. CASE CreateEntries
  BY <1>2, ScanKeyInv, FinishScanInv DEF CreateEntries
<1>3. CASE Close \/ Reopen
  BY <1>3, CloseInv, ReopenInv
<1>4. CASE UNCHANGED vars
  BY <1>4 DEF vars, objectVars, Inv, FileInv, ObjectInv, UseInv, DataInv, RunInv,
              ScanInv, ClosedInv
<1> QED BY <1>1, <1>2, <1>3, <1>4 DEF Next

(* The parts of the invariant hold in every state of every behaviour. *)
THEOREM Invariance == Spec => []Inv
<1>1. Init => Inv
  BY InitInv
<1>2. Inv /\ [Next]_vars => Inv'
  BY NextInv
<1> QED BY <1>1, <1>2, PTL DEF Spec

(* Type correctness: header and directory agree on the number of runs. *)
THEOREM TypeCorrect == Spec => []TypeOK
<1>1. Inv => TypeOK
  <2> SUFFICES ASSUME Inv PROVE TypeOK
    OBVIOUS
  <2>1. scan = Null => header_.run_count = Len(directory_)
    BY DEF Inv, DataInv, ClosedInv
  <2>2. file \in Seq(Int) /\ Len(file) >= HEADER \div WORD
    BY DEF Inv, FileInv, HEADER, WORD
  <2>3. in_run_ => current_run_ < Len(directory_)
    <3>1. current_run_ \in Nat /\ Len(directory_) \in Nat
      BY DEF Inv, ObjectInv
    <3>2. in_run_ => current_run_ + 1 <= Len(directory_)
      BY DEF Inv, RunInv
    <3> QED BY <3>1, <3>2
  <2> QED BY <2>1, <2>2, <2>3 DEF Inv, ObjectInv, Entries, TypeOK
<1> QED BY <1>1, Invariance, PTL

(* No byte belongs to two runs, and the next write destroys none. *)
THEOREM DisjointRegions == Spec => []RegionsDisjoint
<1>1. Inv => RegionsDisjoint
  BY DEF Inv, ObjectInv, DataInv, RegionsDisjoint, Behind
<1> QED BY <1>1, Invariance, PTL

(* A closed file can be opened again: its directory is complete and behind its runs. *)
THEOREM ReadableWhenClosed == Spec => []ClosedFileReadable
<1>1. Inv => ClosedFileReadable
  BY DEF Inv, FileInv, ClosedInv, ClosedFileReadable, Behind, ENTRY_WORDS
<1> QED BY <1>1, Invariance, PTL

----------------------------------------------------------------------------
(* The file as a list of runs.  What the directory says of the runs is not enough: *)
(* what is read of them must be in the file.                                       *)

(* create_entries finds at least one key, and so makes at least one run. *)
RawInv ==
    /\ use # "runs" => file[2] = 0
    /\ use = "raw" => Len(file) > 2
    /\ scan # Null /\ scan.count = 0 => scan.offset = HEADER

(* A run that has keys is within the file; write_offset_ need not be, after Reopen. *)
InFile(d) ==
    \A r \in DOMAIN d :
        d[r].bytes = 0 \/ (d[r].offset + d[r].bytes) \div WORD <= Len(file)

InFileInv ==
    /\ open /\ scan = Null => InFile(directory_)
    /\ scan # Null => scan.offset \div WORD <= Len(file)

(* The object is never behind the file: until the next flush it may have more runs *)
(* and more data, and once it has, it never gets back to where the file is.        *)
AheadInv ==
    /\ open => /\ header_.directory_offset = file[2]
               /\ file[1] <= header_.run_count
               /\ file[2] <= write_offset_
    /\ open /\ use = "runs" => Len(directory_) > 0 /\ write_offset_ <= EndOfData(directory_)
    /\ ~open /\ use = "runs" => file[1] > 0
    /\ ~open => file[2] <= EndOfData(DirectoryOf(file))

StoreInv == Inv /\ RawInv /\ InFileInv /\ AheadInv

----------------------------------------------------------------------------
(* Words and blocks *)

LEMMA WordsType ==
    ASSUME NEW a \in Nat
    PROVE  a \div WORD \in Nat
BY DEF WORD

LEMMA WordsOfBytes ==
    ASSUME NEW a \in Nat, NEW b \in Nat, NEW n \in Nat, a + n * WORD <= b
    PROVE  /\ a \div WORD \in Nat /\ b \div WORD \in Nat
           /\ a \div WORD + n <= b \div WORD
BY DEF WORD

LEMMA WordsBehind ==
    ASSUME NEW a \in Nat, NEW n \in Nat
    PROVE  /\ a \div WORD \in Nat
           /\ (a + n * WORD) \div WORD = a \div WORD + n
BY DEF WORD

LEMMA MoreBytes ==
    ASSUME NEW o \in Nat, NEW b \in Nat, NEW n \in Nat, HEADER <= o
    PROVE  /\ b + n * WORD \in Nat /\ b <= b + n * WORD
           /\ o + b \in Nat /\ HEADER <= o + b
           /\ (o + (b + n * WORD)) \div WORD = (o + b) \div WORD + n
           /\ (o + b) \div WORD \in Nat
BY DEF WORD, HEADER

LEMMA AlignUpKeepsOrder ==
    ASSUME NEW a \in Nat, NEW b \in Nat, a <= b
    PROVE  AlignUp(a) <= AlignUp(b)
<1> DEFINE p == (-a) \div BLOCK
           q == (-b) \div BLOCK
<1>1. BLOCK \in Nat /\ BLOCK > 0
  BY FileAssumption
<1>2. p \in Int /\ q \in Int /\ q <= p
  BY <1>1
<1>3. (-a) = BLOCK * p + ((-a) % BLOCK) /\ (-b) = BLOCK * q + ((-b) % BLOCK)
      /\ (-a) % BLOCK \in Int /\ (-b) % BLOCK \in Int
  BY <1>1
<1> HIDE DEF p, q
<1>4. BLOCK * q <= BLOCK * p /\ BLOCK * q \in Int /\ BLOCK * p \in Int
  BY <1>1, <1>2
<1>5. AlignUp(a) = -(BLOCK * p) /\ AlignUp(b) = -(BLOCK * q)
  BY <1>3, <1>4 DEF AlignUp
<1> QED
  BY <1>4, <1>5

(* A write within the file changes the words it covers and no others. *)
LEMMA WriteInside ==
    ASSUME NEW f \in Seq(Int), NEW at \in Nat, NEW words \in Seq(Int),
           at \div WORD + Len(words) <= Len(f)
    PROVE  /\ Write(f, at, words) \in Seq(Int) /\ Len(Write(f, at, words)) = Len(f)
           /\ \A w \in 1 .. Len(f) :
                 w <= at \div WORD \/ w > at \div WORD + Len(words)
                 => Write(f, at, words)[w] = f[w]
<1> DEFINE from == at \div WORD
           upto == from + Len(words)
           len == IF upto > Len(f) THEN upto ELSE Len(f)
           g == [w \in 1 .. len |-> IF w > from /\ w <= upto THEN words[w - from]
                                    ELSE IF w <= Len(f) THEN f[w] ELSE 0]
<1>1. Write(f, at, words) \in Seq(Int)
  BY WriteWords
<1>2. CASE words = << >>
  BY <1>1, <1>2 DEF Write
<1>3. CASE words # << >>
  <2>1. Write(f, at, words) = g
    BY <1>3 DEF Write
  <2>2. len = Len(f) /\ Len(f) \in Nat /\ from \in Nat /\ upto \in Nat
    BY DEF WORD
  <2>3. DOMAIN g = 1 .. Len(f)
    BY <2>2
  <2>4. Len(g) = Len(f)
    BY <1>1, <2>1, <2>2, <2>3
  <2>5. \A w \in 1 .. Len(f) : w <= from \/ w > upto => g[w] = f[w]
    BY <2>2, SMTT(60)
  <2> HIDE DEF g
  <2> QED
    BY <1>1, <2>1, <2>4, <2>5
<1> QED
  BY <1>2, <1>3

LEMMA ReadsTheSame ==
    ASSUME NEW f \in Seq(Int), NEW g \in Seq(Int), NEW at \in Nat, NEW bytes \in Nat,
           bytes = 0 \/ (at + bytes) \div WORD <= Len(f),
           \A w \in 1 .. Len(f) :
               at \div WORD < w /\ w <= (at + bytes) \div WORD => g[w] = f[w]
    PROVE  Read(g, at, bytes) = Read(f, at, bytes)
<1> DEFINE m == at \div WORD + 1
           n == (at + bytes) \div WORD
<1>1. m \in Nat \ {0} /\ n \in Nat /\ (n < m \/ n <= Len(f)) /\ Len(f) \in Nat
  BY DEF WORD
<1>2. \A w \in m .. n : w \in 1 .. Len(f) /\ g[w] = f[w] /\ f[w] \in Int /\ g[w] \in Int
  BY <1>1 DEF WORD
<1> HIDE DEF m, n
<1>3. /\ SubSeq(f, m, n) \in Seq(Int)
      /\ Len(SubSeq(f, m, n)) = IF m <= n THEN n - m + 1 ELSE 0
      /\ \A i \in 1 .. n - m + 1 : SubSeq(f, m, n)[i] = f[m + i - 1]
  BY <1>1, <1>2, SubSeqProperties
<1>4. /\ SubSeq(g, m, n) \in Seq(Int)
      /\ Len(SubSeq(g, m, n)) = IF m <= n THEN n - m + 1 ELSE 0
      /\ \A i \in 1 .. n - m + 1 : SubSeq(g, m, n)[i] = g[m + i - 1]
  BY <1>1, <1>2, SubSeqProperties
<1> DEFINE s == SubSeq(f, m, n)
           t == SubSeq(g, m, n)
<1> HIDE DEF s, t
<1>5. Len(s) = Len(t) /\ s \in Seq(Int) /\ t \in Seq(Int)
  BY <1>3, <1>4 DEF s, t
<1>6. ASSUME NEW i \in 1 .. Len(s) PROVE s[i] = t[i]
  <2>1. i \in 1 .. n - m + 1 /\ m + i - 1 \in m .. n
    BY <1>1, <1>3, <1>6 DEF s
  <2> QED
    BY <1>2, <1>3, <1>4, <2>1 DEF s, t
<1>7. s = t
  BY <1>5, <1>6, SeqEqual
<1> QED
  BY <1>7 DEF Read, s, t, m, n

LEMMA SameDirectory ==
    ASSUME NEW f \in Seq(Int), NEW g \in Seq(Int), Len(g) = Len(f),
           g[1] = f[1], g[2] = f[2], f[1] \in Nat, f[2] \in Nat,
           f[2] \div WORD + 3 * f[1] <= Len(f),
           \A w \in 1 .. Len(f) : f[2] \div WORD < w => g[w] = f[w]
    PROVE  DirectoryOf(g) = DirectoryOf(f)
<1> DEFINE at == f[2] \div WORD
           n == f[1]
           len == Len(f)
<1>1. at \in Nat /\ n \in Nat /\ at + 3 * n <= len /\ len \in Nat
  <2>1. at \in Nat
    BY WordsType
  <2> QED
    BY <2>1
<1>2. \A w \in 1 .. len : at < w => g[w] = f[w]
  OBVIOUS
<1>3. /\ DirectoryOf(f) = [r \in 1 .. n |-> [offset |-> f[at + 3 * (r - 1) + 1],
                                             keys   |-> f[at + 3 * (r - 1) + 2],
                                             bytes  |-> f[at + 3 * (r - 1) + 3]]]
      /\ DirectoryOf(g) = [r \in 1 .. n |-> [offset |-> g[at + 3 * (r - 1) + 1],
                                             keys   |-> g[at + 3 * (r - 1) + 2],
                                             bytes  |-> g[at + 3 * (r - 1) + 3]]]
  BY DEF DirectoryOf, ENTRY_WORDS
<1> HIDE DEF at, n, len
<1>4. ASSUME NEW r \in 1 .. n
      PROVE  /\ f[at + 3 * (r - 1) + 1] = g[at + 3 * (r - 1) + 1]
             /\ f[at + 3 * (r - 1) + 2] = g[at + 3 * (r - 1) + 2]
             /\ f[at + 3 * (r - 1) + 3] = g[at + 3 * (r - 1) + 3]
  <2> DEFINE i == at + 3 * (r - 1)
  <2>1. i \in Nat /\ at <= i /\ i + 3 <= len
    <3>1. r \in Nat /\ 1 <= r /\ r <= n
      BY <1>1, <1>4
    <3> QED
      BY <1>1, <3>1
  <2> HIDE DEF i
  <2>2. /\ i + 1 \in 1 .. len /\ at < i + 1
        /\ i + 2 \in 1 .. len /\ at < i + 2
        /\ i + 3 \in 1 .. len /\ at < i + 3
    BY <1>1, <2>1
  <2>3. f[i + 1] = g[i + 1] /\ f[i + 2] = g[i + 2] /\ f[i + 3] = g[i + 3]
    BY <1>2, <2>2
  <2> QED
    BY <2>3 DEF i
<1> QED
  BY <1>3, <1>4, ZenonT(60)


----------------------------------------------------------------------------
(* What the calls write *)

LEMMA MapRunOf ==
    ASSUME NEW f, NEW d, NEW r \in Int
    PROVE  MapRun(f, d, r - 1) = Read(f, d[r].offset, d[r].bytes)
<1>1. r - 1 + 1 = r
  OBVIOUS
<1> QED
  BY <1>1 DEF MapRun

(* flush_directory writes the header and what is behind the data. *)
LEMMA FlushKeepsData ==
    ASSUME NEW f \in Seq(Int), Len(f) >= 2,
           NEW h \in [run_count : Nat, directory_offset : Nat],
           NEW d \in Seq(Entries), NEW at \in Nat, HEADER <= at
    PROVE  /\ Flushed(f, h, d, at) \in Seq(Int) /\ Len(Flushed(f, h, d, at)) >= Len(f)
           /\ \A w \in 1 .. Len(f) :
                 2 < w /\ w <= at \div WORD => Flushed(f, h, d, at)[w] = f[w]
<1> DEFINE hw == HeaderWords([h EXCEPT !.directory_offset = at])
           g1 == Write(f, 0, hw)
           dw == DirectoryWords(d)
           g2 == Write(g1, at, dw)
<1>1. hw = <<h.run_count, at>> /\ h.run_count \in Int
  BY DEF HeaderWords
<1> HIDE DEF hw
<1>2. hw \in Seq(Int) /\ Len(hw) = 2
  BY <1>1
<1>3. 0 \in Nat /\ 0 \div WORD = 0
  BY DEF WORD
<1>4. Len(f) \in Nat /\ 0 \div WORD + Len(hw) <= Len(f)
  BY <1>2, <1>3
<1>5. /\ g1 \in Seq(Int) /\ Len(g1) = Len(f)
      /\ \A w \in 1 .. Len(f) :
            w <= 0 \div WORD \/ w > 0 \div WORD + Len(hw) => g1[w] = f[w]
  BY <1>2, <1>3, <1>4, WriteInside
<1>6. dw \in Seq(Int)
  BY DirectoryWordsOf
<1> HIDE DEF g1, dw
<1>7. /\ g2 \in Seq(Int) /\ Len(g2) >= Len(g1)
      /\ \A w \in 1 .. Len(g1) : w <= at \div WORD => g2[w] = g1[w]
  BY <1>5, <1>6, WriteWords
<1>8. Flushed(f, h, d, at) = g2
  BY DEF Flushed, g1, hw, dw
<1> HIDE DEF g2
<1>9. \A w \in 1 .. Len(f) : 2 < w => g1[w] = f[w]
  BY <1>2, <1>3, <1>4, <1>5
<1> QED
  BY <1>5, <1>7, <1>8, <1>9

LEMMA ReadBack ==
    ASSUME NEW f \in Seq(Int), Len(f) >= 2,
           NEW d \in Seq(Entries), NEW at \in Nat, HEADER <= at,
           NEW h \in [run_count : Nat, directory_offset : Nat], h.run_count = Len(d),
           NEW g, g = Flushed(f, h, d, at)
    PROVE  g[1] = Len(d) /\ g[2] = at /\ DirectoryOf(g) = d
BY FlushedFile, SMTT(60)

(* Every run is still there after flush_directory. *)
LEMMA FlushKeepsRun ==
    ASSUME NEW f \in Seq(Int), Len(f) >= 2,
           NEW h \in [run_count : Nat, directory_offset : Nat],
           NEW d \in Seq(Entries), NEW at \in Nat, HEADER <= at,
           NEW o \in Nat, NEW b \in Nat, HEADER <= o, o + b <= at,
           b = 0 \/ (o + b) \div WORD <= Len(f)
    PROVE  Read(Flushed(f, h, d, at), o, b) = Read(f, o, b)
<1> DEFINE g == Flushed(f, h, d, at)
<1>1. /\ g \in Seq(Int) /\ Len(g) >= Len(f)
      /\ \A w \in 1 .. Len(f) : 2 < w /\ w <= at \div WORD => g[w] = f[w]
  BY FlushKeepsData
<1> HIDE DEF g
<1>2. o \div WORD >= 2 /\ (o + b) \div WORD <= at \div WORD /\ o \div WORD \in Nat
      /\ (o + b) \div WORD \in Nat /\ at \div WORD \in Nat
  BY DEF WORD, HEADER
<1>3. ASSUME NEW w \in 1 .. Len(f), o \div WORD < w, w <= (o + b) \div WORD
      PROVE  g[w] = f[w]
  <2>1. 2 < w /\ w <= at \div WORD
    BY <1>2, <1>3, SMTT(60)
  <2> QED
    BY <1>1, <2>1
<1>4. Read(g, o, b) = Read(f, o, b)
  BY <1>1, <1>3, ReadsTheSame, SMTT(60)
<1> QED
  BY <1>4 DEF g

(* An object that is closed or flushed has made the directory that d names. *)
LEMMA FlushedOnDisk ==
    ASSUME FileInv, NEW d \in Seq(Entries), Len(d) > 0, InFile(d), Ordered(d),
           NEW at \in Nat, HEADER <= at, Behind(d, at),
           NEW h \in [run_count : Nat, directory_offset : Nat], h.run_count = Len(d)
    PROVE  LET g == Flushed(file, h, d, at)
           IN /\ g[2] \div WORD + 3 * g[1] <= Len(g)
              /\ DirectoryOf(g) = d
              /\ \A r \in DOMAIN d : MapRun(g, d, r - 1) = MapRun(file, d, r - 1)
<1> DEFINE g == Flushed(file, h, d, at)
<1>1. file \in Seq(Int) /\ Len(file) >= 2
  BY DEF FileInv
<1>2. /\ DirectoryOf(g) = d
      /\ g[1] = Len(d) /\ g[2] = at /\ at \div WORD + 3 * Len(d) <= Len(g)
  BY <1>1, FlushedFile
<1>3. ASSUME NEW r \in DOMAIN d
      PROVE  MapRun(g, d, r - 1) = MapRun(file, d, r - 1)
  <2>1. d[r].offset \in Nat /\ d[r].bytes \in Nat /\ r \in Int
    BY EntryFields
  <2>2. /\ HEADER <= d[r].offset /\ d[r].offset + d[r].bytes <= at
        /\ d[r].bytes = 0 \/ (d[r].offset + d[r].bytes) \div WORD <= Len(file)
    BY DEF Ordered, Behind, InFile
  <2>3. Read(g, d[r].offset, d[r].bytes) = Read(file, d[r].offset, d[r].bytes)
    BY <1>1, <2>1, <2>2, FlushKeepsRun
  <2> HIDE DEF g
  <2> QED
    BY <2>1, <2>3, MapRunOf
<1> HIDE DEF g
<1> QED
  BY <1>2, <1>3 DEF g


(* A run added at write_offset_ is the end of the data area. *)
LEMMA AppendRunFile ==
    ASSUME Inv, open, scan = Null, InFile(directory_), NEW keys \in Seq(Int), AppendRun(keys)
    PROVE  /\ file'[1] = file[1] /\ file'[2] = file[2]
           /\ InFile(directory_)' /\ Len(directory_') > 0
           /\ EndOfData(directory_') = write_offset_'
           /\ header_' = [header_ EXCEPT !.run_count = header_.run_count + 1]
<1> DEFINE n == Len(directory_)
           bytes == Len(keys) * WORD
           aligned == AlignUp(bytes)
           words == keys \o ZeroPad(aligned - bytes)
<1>1. Len(keys) \in Nat /\ bytes \in Nat
  BY DEF WORD
<1>2. aligned \in Nat /\ bytes <= aligned
  BY <1>1, AlignUpBounds
<1>3. ZeroPad(aligned - bytes) \in Seq(Int)
  <2> DEFINE z == (aligned - bytes) \div WORD
  <2>1. z \in Nat
    BY <1>1, <1>2 DEF WORD
  <2> HIDE DEF z
  <2>2. [w \in 1 .. z |-> 0] \in Seq(Int)
    BY <2>1
  <2> QED
    BY <2>2 DEF ZeroPad, z
<1>4. words \in Seq(Int) /\ Len(words) \in Nat /\ Len(words) >= Len(keys)
  BY <1>3
<1>5. file' = Write(file, write_offset_, words)
      /\ header_' = [header_ EXCEPT !.run_count = header_.run_count + 1]
  BY DEF AppendRun, Counted
<1>6. /\ FileInv /\ file \in Seq(Int) /\ directory_ \in Seq(Entries) /\ n \in Nat
      /\ write_offset_ \in Nat /\ HEADER <= write_offset_
  BY DEF Inv, ObjectInv, FileInv
<1>7. /\ directory_' \in Seq(Entries) /\ Len(directory_') = n + 1
      /\ \A r \in 1 .. n : directory_'[r] = directory_[r]
      /\ directory_'[n + 1] = Entry(write_offset_, Len(keys))
      /\ write_offset_' = write_offset_ + aligned
  BY AppendRunStep
<1> HIDE DEF words
<1>8. file'[1] = file[1] /\ file'[2] = file[2]
  BY <1>4, <1>5, <1>6, HeaderKept
<1>9. /\ file' \in Seq(Int) /\ Len(file') >= Len(file)
      /\ words # <<>> => Len(file') >= write_offset_ \div WORD + Len(words)
  BY <1>4, <1>5, <1>6, WriteWords
<1>10. Entry(write_offset_, Len(keys)).offset = write_offset_
       /\ Entry(write_offset_, Len(keys)).bytes = bytes
  BY <1>1, <1>6, EntryType
<1>11. InFile(directory_)'
  <2>1. ASSUME NEW r \in 1 .. n
        PROVE  directory_'[r].bytes = 0
               \/ (directory_'[r].offset + directory_'[r].bytes) \div WORD <= Len(file')
    <3>1. directory_[r].offset \in Nat /\ directory_[r].bytes \in Nat /\ r \in DOMAIN directory_
      BY <1>6, EntryFields
    <3> DEFINE upto == (directory_[r].offset + directory_[r].bytes) \div WORD
    <3>2. upto \in Nat
      BY <3>1 DEF WORD
    <3>3. directory_[r].bytes = 0 \/ upto <= Len(file)
      BY <3>1 DEF InFile
    <3>4. directory_'[r] = directory_[r] /\ Len(file) \in Nat /\ Len(file') \in Nat
      BY <1>6, <1>7, <1>9
    <3> HIDE DEF upto
    <3>5. directory_[r].bytes = 0 \/ upto <= Len(file')
      BY <1>9, <3>2, <3>3, <3>4
    <3> QED
      BY <3>4, <3>5 DEF upto
  <2>2. directory_'[n + 1].bytes = 0
        \/ (directory_'[n + 1].offset + directory_'[n + 1].bytes) \div WORD <= Len(file')
    <3>1. directory_'[n + 1].offset = write_offset_ /\ directory_'[n + 1].bytes = bytes
      BY <1>7, <1>10
    <3>2. CASE keys = <<>>
      BY <3>1, <3>2 DEF WORD
    <3>3. CASE keys # <<>>
      <4>1. Len(keys) > 0 /\ words # <<>>
        BY <1>4, <3>3
      <4> DEFINE at == write_offset_ \div WORD
                 upto == (write_offset_ + bytes) \div WORD
      <4>2. upto = at + Len(keys) /\ at \in Nat
        BY <1>1, <1>6, WordsBehind
      <4>3. Len(file') >= at + Len(words) /\ Len(file') \in Nat
        BY <1>9, <4>1
      <4> HIDE DEF at, upto
      <4>4. upto <= Len(file')
        BY <1>1, <1>4, <4>2, <4>3
      <4> QED
        BY <3>1, <4>4 DEF upto
    <3> QED
      BY <3>2, <3>3
  <2>3. DOMAIN directory_' = 1 .. n + 1
    BY <1>6, <1>7
  <2> HIDE DEF n
  <2>4. \A r \in 1 .. n + 1 : r \in 1 .. n \/ r = n + 1
    BY <1>6
  <2> QED
    BY <2>1, <2>2, <2>3, <2>4 DEF InFile
<1>12. EndOfData(directory_') = write_offset_'
  <2>1. directory_' # <<>>
    BY <1>6, <1>7
  <2> QED
    BY <1>7, <1>10, <2>1 DEF EndOfData
<1> QED
  BY <1>5, <1>6, <1>7, <1>8, <1>11, <1>12

(* append_to_run writes within the blocks of its run or behind them, and the data *)
(* area grows with the last run.                                                  *)
LEMMA AppendToRunFile ==
    ASSUME Inv, InFile(directory_), NEW keys \in Payloads, AppendToRun(keys),
           Len(directory_) > 0, write_offset_ <= EndOfData(directory_)
    PROVE  /\ file'[1] = file[1] /\ file'[2] = file[2]
           /\ InFile(directory_)' /\ Len(directory_') = Len(directory_)
           /\ write_offset_ <= write_offset_' /\ write_offset_' <= EndOfData(directory_')
<1> DEFINE c == current_run_ + 1
           n == Len(directory_)
           entry == directory_[c]
           total == entry.bytes + Len(keys) * WORD
           old_aligned == AlignUp(entry.bytes)
           new_aligned == AlignUp(total)
           grows == new_aligned > old_aligned
           pad == IF AtEnd(entry) /\ grows THEN ZeroPad(new_aligned - total) ELSE <<>>
           longer == Longer(entry, Len(keys))
           at == entry.offset + entry.bytes
<1>1. /\ open /\ scan = Null /\ in_run_
      /\ file' = Write(file, at, keys \o pad)
      /\ \/ /\ AtEnd(entry) \/ ~grows
            /\ write_offset_' = IF AtEnd(entry) /\ grows
                                THEN write_offset_ + (new_aligned - old_aligned)
                                ELSE write_offset_
            /\ directory_' = [directory_ EXCEPT ![c] = longer]
         \/ /\ ~AtEnd(entry) /\ grows
            /\ write_offset_' = write_offset_ /\ directory_' = directory_
  BY DEF AppendToRun, Ready
<1>2. keys \in Seq(Int) /\ Len(keys) \in Nat \ {0}
  BY FileAssumption
<1>3. /\ FileInv /\ file \in Seq(Int) /\ directory_ \in Seq(Entries) /\ n \in Nat
      /\ DOMAIN directory_ = 1 .. n /\ n > 0
      /\ write_offset_ \in Nat /\ current_run_ \in Nat
      /\ Ordered(directory_)
  BY <1>1, EntryFields DEF Inv, ObjectInv, DataInv, FileInv
<1>4. c \in 1 .. n
      /\ entry.offset + old_aligned <= write_offset_
      /\ \A s \in DOMAIN directory_ :
            s > c => /\ entry.offset + old_aligned <= directory_[s].offset
                     /\ directory_[s].offset < write_offset_
  BY <1>1, <1>3 DEF Inv, RunInv
<1>5. /\ entry.offset \in Nat /\ entry.bytes \in Nat /\ entry.keys \in Nat
      /\ HEADER <= entry.offset
  BY <1>3, <1>4, EntryFields DEF Ordered
<1>6. total \in Nat /\ entry.bytes <= total /\ at \in Nat /\ HEADER <= at
  BY <1>2, <1>5, MoreBytes
<1>7. /\ old_aligned \in Nat /\ new_aligned \in Nat /\ total <= new_aligned
      /\ old_aligned <= new_aligned
  BY <1>5, <1>6, AlignUpBounds, AlignUpKeepsOrder
<1>8. pad \in Seq(Int)
  <2> DEFINE z == (new_aligned - total) \div WORD
  <2> HIDE DEF new_aligned, total
  <2>1. z \in Nat
    BY <1>6, <1>7 DEF WORD
  <2> HIDE DEF z
  <2>2. [w \in 1 .. z |-> 0] \in Seq(Int)
    BY <2>1
  <2> QED
    BY <2>2 DEF ZeroPad, z
<1> DEFINE words == keys \o pad
<1> HIDE DEF pad
<1>9. words \in Seq(Int) /\ Len(words) \in Nat /\ Len(words) >= Len(keys) /\ words # <<>>
  BY <1>2, <1>8
<1> HIDE DEF words
<1>10. file' = Write(file, at, words)
  BY <1>1 DEF words
<1> HIDE DEF at
<1>11. file'[1] = file[1] /\ file'[2] = file[2]
  BY <1>3, <1>6, <1>9, <1>10, HeaderKept
<1>12. /\ file' \in Seq(Int) /\ Len(file') >= Len(file)
       /\ Len(file') >= at \div WORD + Len(words)
  BY <1>3, <1>6, <1>9, <1>10, WriteWords
<1>13. longer.offset = entry.offset /\ longer.bytes = total
  <2>1. entry \in Entries
    BY <1>3, <1>4
  <2> HIDE DEF entry, total
  <2>2. longer = [entry EXCEPT !.keys = entry.keys + Len(keys), !.bytes = total]
    BY DEF Longer, total
  <2> HIDE DEF longer
  <2> QED
    BY <2>1, <2>2 DEF Entries
<1>14. \/ directory_' = [directory_ EXCEPT ![c] = longer]
       \/ directory_' = directory_
  BY <1>1
<1> HIDE DEF longer
<1>15. /\ Len(directory_') = n /\ DOMAIN directory_' = 1 .. n
       /\ \A r \in 1 .. n : r # c => directory_'[r] = directory_[r]
       /\ directory_'[c] = entry \/ directory_'[c] = longer
  BY <1>3, <1>4, <1>14
<1>16. InFile(directory_)'
  <2>1. ASSUME NEW r \in 1 .. n, directory_'[r] = directory_[r]
        PROVE  directory_'[r].bytes = 0
               \/ (directory_'[r].offset + directory_'[r].bytes) \div WORD <= Len(file')
    <3>1. directory_[r].offset \in Nat /\ directory_[r].bytes \in Nat /\ r \in DOMAIN directory_
      BY <1>3, EntryFields
    <3> DEFINE upto == (directory_[r].offset + directory_[r].bytes) \div WORD
    <3>2. upto \in Nat
      BY <3>1 DEF WORD
    <3>3. directory_[r].bytes = 0 \/ upto <= Len(file)
      BY <3>1 DEF InFile
    <3>4. Len(file) \in Nat /\ Len(file') \in Nat
      BY <1>3, <1>12
    <3> HIDE DEF upto
    <3>5. directory_[r].bytes = 0 \/ upto <= Len(file')
      BY <1>12, <3>2, <3>3, <3>4
    <3> QED
      BY <2>1, <3>5 DEF upto
  <2>2. ASSUME directory_'[c] = longer
        PROVE  (directory_'[c].offset + directory_'[c].bytes) \div WORD <= Len(file')
    <3> DEFINE upto == (entry.offset + total) \div WORD
    <3>1. upto = at \div WORD + Len(keys) /\ at \div WORD \in Nat
      <4> DEFINE o == entry.offset
                 b == entry.bytes
                 k == Len(keys)
      <4>1. o \in Nat /\ b \in Nat /\ k \in Nat /\ HEADER <= o
        BY <1>2, <1>5
      <4>2. upto = (o + (b + k * WORD)) \div WORD /\ at = o + b
        BY DEF at
      <4> HIDE DEF o, b, k, upto
      <4>3. upto = at \div WORD + k /\ at \div WORD \in Nat
        BY <4>1, <4>2, MoreBytes
      <4> QED
        BY <4>3 DEF k
    <3>2. Len(file') \in Nat
      BY <1>12
    <3> HIDE DEF upto
    <3>3. upto <= Len(file')
      BY <1>2, <1>9, <1>12, <3>1, <3>2
    <3> QED
      BY <1>13, <2>2, <3>3 DEF upto
  <2> HIDE DEF entry
  <2>3. \A r \in 1 .. n : directory_'[r] = directory_[r] \/ (r = c /\ directory_'[r] = longer)
    BY <1>4, <1>15 DEF entry
  <2> QED
    BY <1>15, <2>1, <2>2, <2>3 DEF InFile
<1>17. \/ write_offset_' = write_offset_
       \/ /\ AtEnd(entry)
          /\ directory_' = [directory_ EXCEPT ![c] = longer]
          /\ write_offset_' = write_offset_ + (new_aligned - old_aligned)
  BY <1>1 DEF longer
<1>18. AtEnd(entry) => entry.offset + old_aligned = write_offset_
  BY DEF AtEnd
<1>19. directory_[n].offset \in Nat /\ directory_[n] \in Entries
  BY <1>3, EntryFields
<1>20. c # n => entry.offset + old_aligned <= directory_[n].offset
                /\ directory_[n].offset < write_offset_
  <2>1. n \in DOMAIN directory_ /\ c \in Nat /\ c <= n
    BY <1>3, <1>4, SMTT(60)
  <2>2. n \in Nat
    BY <1>3
  <2> HIDE DEF c, n, entry, old_aligned
  <2>3. c # n => n > c
    BY <2>1, <2>2
  <2> QED
    BY <1>4, <2>1, <2>3
<1>21. /\ EndOfData(directory_) = directory_[n].offset + AlignUp(directory_[n].bytes)
       /\ EndOfData(directory_') = directory_'[n].offset + AlignUp(directory_'[n].bytes)
  <2>1. ASSUME NEW d, NEW k \in Nat \ {0}, Len(d) = k
        PROVE  EndOfData(d) = d[k].offset + AlignUp(d[k].bytes)
    BY <2>1 DEF EndOfData
  <2>2. n \in Nat \ {0} /\ Len(directory_) = n /\ Len(directory_') = n
    BY <1>3, <1>15
  <2> HIDE DEF n
  <2> QED
    BY <2>1, <2>2
<1> DEFINE wo == write_offset_
           wo1 == write_offset_'
           end == EndOfData(directory_)
           end1 == EndOfData(directory_')
           off == entry.offset
           last == directory_[n].offset
           tail == AtEnd(entry)
<1>22. c = n => /\ end = off + old_aligned
                /\ end1 = off + old_aligned \/ end1 = off + new_aligned
                /\ directory_' = [directory_ EXCEPT ![c] = longer] => end1 = off + new_aligned
  <2>1. SUFFICES ASSUME c = n
                 PROVE  /\ end = off + old_aligned
                        /\ end1 = off + old_aligned \/ end1 = off + new_aligned
                        /\ directory_' = [directory_ EXCEPT ![c] = longer]
                           => end1 = off + new_aligned
    OBVIOUS
  <2>2. end = off + old_aligned
    BY <1>21, <2>1
  <2>3. directory_'[n] = entry \/ directory_'[n] = longer
    BY <1>15, <2>1
  <2>4. directory_' = [directory_ EXCEPT ![c] = longer] => directory_'[n] = longer
    BY <1>3, <1>4, <2>1
  <2>5. directory_'[n] = longer => end1 = off + new_aligned
    BY <1>13, <1>21
  <2>6. directory_'[n] = entry => end1 = off + old_aligned
    BY <1>21
  <2> HIDE DEF end, end1, off, entry, old_aligned, new_aligned, longer
  <2> QED
    BY <2>2, <2>3, <2>4, <2>5, <2>6
<1>23. c # n => end1 = end
  <2>1. SUFFICES ASSUME c # n
                 PROVE  end1 = end
    OBVIOUS
  <2>2. n \in 1 .. n
    BY <1>3
  <2>3. directory_'[n] = directory_[n]
    BY <1>15, <2>1, <2>2
  <2>4. end1 = directory_'[n].offset + AlignUp(directory_'[n].bytes)
    BY <1>21
  <2>5. end = directory_[n].offset + AlignUp(directory_[n].bytes)
    BY <1>21
  <2> QED
    BY <2>3, <2>4, <2>5
<1>24. wo \in Nat /\ off \in Nat /\ last \in Nat /\ wo <= end
  BY <1>3, <1>5, <1>19
<1>25. /\ wo1 = wo \/ (/\ tail /\ directory_' = [directory_ EXCEPT ![c] = longer]
                       /\ wo1 = wo + (new_aligned - old_aligned))
       /\ tail => off + old_aligned = wo
       /\ c # n => off + old_aligned <= last /\ last < wo
  BY <1>17, <1>18, <1>20
<1>26. wo <= wo1 /\ wo1 <= end1
  <2> HIDE DEF wo, wo1, end, end1, off, last, tail, entry, old_aligned, new_aligned, longer, c, n
  <2>1. wo <= wo1
    BY <1>7, <1>24, <1>25
  <2>2. ASSUME c # n
        PROVE  wo1 <= end1
    <3>1. ~tail
      BY <1>7, <1>24, <1>25, <2>2
    <3> QED
      BY <1>23, <1>24, <1>25, <2>2, <3>1
  <2>3. ASSUME c = n, tail, wo1 = wo + (new_aligned - old_aligned), end1 = off + new_aligned
        PROVE  wo1 <= end1
    BY <1>7, <1>24, <1>25, <2>3
  <2>4. ASSUME c = n, wo1 = wo
        PROVE  wo1 <= end1
    BY <1>7, <1>22, <1>24, <2>4
  <2> QED
    BY <1>22, <1>25, <2>1, <2>2, <2>3, <2>4
<1> QED
  BY <1>11, <1>15, <1>16, <1>26 DEF wo, wo1, end1


----------------------------------------------------------------------------
(* The calls one by one *)

LEMMA RunAdded ==
    ASSUME NEW keys \in Payloads, AddRun(keys)
    PROVE  /\ open /\ scan = Null /\ open' = open /\ scan' = scan
           /\ use # "raw" /\ use' = "runs" /\ ~thrown /\ thrown' = thrown
           /\ \E k \in Seq(Int) : AppendRun(k)
<1>1. keys \in Seq(Int)
  BY FileAssumption
<1> QED
  BY <1>1 DEF AddRun, Ready, UseForRuns

LEMMA RunBegun ==
    ASSUME BeginRun
    PROVE  /\ open /\ scan = Null /\ open' = open /\ scan' = scan
           /\ use # "raw" /\ use' = "runs" /\ ~thrown /\ thrown' = thrown
           /\ \E k \in Seq(Int) : AppendRun(k)
<1>1. << >> \in Seq(Int)
  OBVIOUS
<1> QED
  BY <1>1 DEF BeginRun, Ready, UseForRuns

LEMMA RawAppended ==
    ASSUME Inv, NEW keys \in Payloads, AppendDirect(keys)
    PROVE  /\ file'[1] = file[1] /\ file'[2] = file[2]
           /\ Len(file') > 2 /\ Len(file') >= Len(file)
<1> DEFINE at == Len(file) * WORD
<1>1. FileInv /\ file \in Seq(Int) /\ Len(file) \in Nat /\ Len(file) >= 2
  BY DEF Inv, FileInv
<1>2. keys \in Seq(Int) /\ Len(keys) > 0
  BY FileAssumption
<1>3. at \in Nat /\ HEADER <= at /\ at \div WORD = Len(file) /\ file' = Write(file, at, keys)
  BY <1>1 DEF WORD, HEADER, AppendDirect
<1> HIDE DEF at
<1>4. file'[1] = file[1] /\ file'[2] = file[2]
  BY <1>1, <1>2, <1>3, HeaderKept
<1>5. /\ file' \in Seq(Int) /\ Len(file') >= Len(file)
      /\ Len(file') >= at \div WORD + Len(keys)
  <2>1. keys # << >>
    BY <1>2
  <2> QED
    BY <1>1, <1>2, <1>3, <2>1, WriteWords
<1>6. Len(file') > 2
  <2>1. Len(file') \in Nat /\ Len(keys) \in Nat
    BY <1>2, <1>5
  <2> QED
    BY <1>1, <1>2, <1>3, <1>5, <2>1
<1> QED
  BY <1>4, <1>5, <1>6

LEMMA RawStep ==
    ASSUME Inv, RawInv, Next
    PROVE  RawInv'
<1>1. ASSUME NEW keys \in Payloads, AddRun(keys) PROVE RawInv'
  BY <1>1, RunAdded DEF RawInv
<1>2. CASE BeginRun
  BY <1>2, RunBegun DEF RawInv
<1>3. ASSUME NEW keys \in Payloads, AppendToRun(keys) PROVE RawInv'
  <2>1. use' = "runs" /\ scan' = Null
    BY <1>3 DEF AppendToRun, Ready, Inv, UseInv
  <2> QED
    BY <2>1 DEF RawInv
<1>4. ASSUME NEW keys \in Payloads, AppendDirect(keys) PROVE RawInv'
  <2>1. use # "runs" /\ use' = "raw" /\ scan' = Null
    BY <1>4 DEF AppendDirect, Ready
  <2>2. file'[2] = file[2] /\ Len(file') > 2
    BY <1>4, RawAppended
  <2> QED
    BY <2>1, <2>2 DEF RawInv
<1>5. CASE EndRun
  <2>1. use' = "runs" /\ scan' = Null
    BY <1>5 DEF EndRun, Ready, Inv, UseInv
  <2> QED
    BY <2>1 DEF RawInv
<1>6. CASE FlushDirectory
  <2>1. use' = "runs" /\ scan' = Null
    BY <1>6 DEF FlushDirectory, Ready
  <2> QED
    BY <2>1 DEF RawInv
<1>7. CASE BeginScan
  <2>1. use = "raw" /\ use' = use /\ file' = file
        /\ scan' = [offset |-> HEADER, start |-> HEADER, count |-> 0]
    BY <1>7 DEF BeginScan
  <2> QED
    BY <2>1 DEF RawInv
<1>8. CASE ScanKey
  <2>1. /\ file' = file /\ use' = use /\ scan # Null
        /\ scan'.count = 1 \/ scan'.count = scan.count + 1
    BY <1>8 DEF ScanKey
  <2>2. scan.count \in Nat /\ use = "raw"
    BY <2>1 DEF Inv, ObjectInv, UseInv
  <2>3. scan'.count # 0
    BY <2>1, <2>2
  <2> QED
    BY <2>1, <2>2, <2>3 DEF RawInv
<1>9. CASE FinishScan
  <2>1. use' = "runs" /\ scan' = Null
    BY <1>9 DEF FinishScan
  <2> QED
    BY <2>1 DEF RawInv
<1>10. CASE Close
  <2>1. use' = use /\ scan' = Null /\ (use # "runs" => file' = file)
    BY <1>10 DEF Close, Ready, Inv, UseInv
  <2> QED
    BY <2>1 DEF RawInv
<1>11. CASE Reopen
  <2>1. use' = use /\ scan' = scan /\ file' = file
    BY <1>11 DEF Reopen
  <2> QED
    BY <2>1 DEF RawInv
<1> QED
  BY <1>1, <1>2, <1>3, <1>4, <1>5, <1>6, <1>7, <1>8, <1>9, <1>10, <1>11
     DEF Next, RunStoreCall, CreateEntries

(* What the scan has behind it when it ends. *)
LEMMA ScanEnds ==
    ASSUME Inv, RawInv, InFileInv, FinishScan
    PROVE  /\ Len(directory_') > 0 /\ InFile(directory_')
           /\ scan.offset <= EndOfData(directory_')
<1>1. /\ scan # Null /\ scan.offset >= Len(file) * WORD /\ directory_' = EndOfRun
  BY DEF FinishScan
<1>2. /\ scan \in [offset : Nat, start : Nat, count : Nat]
      /\ HEADER <= scan.start /\ scan.start + scan.count * WORD = scan.offset
      /\ use = "raw" /\ directory_ \in Seq(Entries) /\ file \in Seq(Int)
  BY <1>1 DEF Inv, ObjectInv, ScanInv, UseInv, FileInv
<1>3. scan.offset \in Nat /\ scan.start \in Nat /\ scan.count \in Nat
      /\ Len(directory_) \in Nat /\ Len(file) \in Nat
  BY <1>2
<1>4. scan.count > 0
  <2>1. Len(file) > 2 /\ (scan.count = 0 => scan.offset = HEADER)
    BY <1>1, <1>2 DEF RawInv
  <2> QED
    BY <1>1, <1>3, <2>1 DEF HEADER, WORD
<1>5. directory_' = Append(directory_, Entry(scan.start, scan.count))
  BY <1>1, <1>4 DEF EndOfRun
<1>6. /\ Len(directory_') = Len(directory_) + 1
      /\ directory_'[Len(directory_')] = Entry(scan.start, scan.count)
  BY <1>2, <1>3, <1>5
<1>7. Entry(scan.start, scan.count).offset = scan.start
      /\ Entry(scan.start, scan.count).bytes = scan.count * WORD
  BY <1>3, EntryType
<1>8. directory_' \in Seq(Entries) /\ Behind(directory_', scan.offset)
  BY <1>1, EndOfRunOrdered
<1>9. InFile(directory_')
  <2>1. scan.offset \div WORD <= Len(file)
    BY <1>1 DEF InFileInv
  <2> DEFINE d == directory_'
  <2> HIDE DEF d
  <2>2. ASSUME NEW r \in DOMAIN d PROVE (d[r].offset + d[r].bytes) \div WORD <= Len(file)
    <3> DEFINE upto == d[r].offset + d[r].bytes
               to == scan.offset
    <3>1. upto \in Nat /\ upto <= to /\ to \in Nat
      BY <1>3, <1>8, EntryFields DEF d, Behind
    <3> HIDE DEF upto, to
    <3>2. upto \div WORD <= to \div WORD /\ upto \div WORD \in Nat /\ to \div WORD \in Nat
      BY <3>1 DEF WORD
    <3>3. to \div WORD <= Len(file)
      BY <2>1 DEF to
    <3>4. upto \div WORD <= Len(file)
      BY <1>3, <3>2, <3>3
    <3> QED
      BY <3>4 DEF upto
  <2> QED
    BY <2>2 DEF InFile, d
<1>10. scan.offset <= EndOfData(directory_')
  <2> DEFINE bytes == scan.count * WORD
  <2>1. bytes \in Nat
    BY <1>3 DEF WORD
  <2>2. AlignUp(bytes) \in Nat /\ bytes <= AlignUp(bytes)
    BY <2>1, AlignUpBounds
  <2>3. EndOfData(directory_') = scan.start + AlignUp(bytes)
    <3>1. directory_' # << >>
      BY <1>3, <1>6, <1>8
    <3> QED
      BY <1>6, <1>7, <3>1 DEF EndOfData
  <2>4. scan.start + bytes = scan.offset
    BY <1>2
  <2> HIDE DEF bytes
  <2> QED
    BY <1>3, <2>1, <2>2, <2>3, <2>4
<1> QED
  BY <1>3, <1>6, <1>9, <1>10


LEMMA InFileLater ==
    ASSUME file \in Seq(Int), NEW d \in Seq(Entries), InFile(d), d = directory_',
           Len(file') \in Nat, Len(file') >= Len(file)
    PROVE  InFile(directory_)'
<1>1. ASSUME NEW r \in DOMAIN d
      PROVE  d[r].bytes = 0 \/ (d[r].offset + d[r].bytes) \div WORD <= Len(file')
  <2> DEFINE upto == (d[r].offset + d[r].bytes) \div WORD
  <2>1. d[r].offset \in Nat /\ d[r].bytes \in Nat
    BY EntryFields
  <2>2. upto \in Nat /\ Len(file) \in Nat
    BY <2>1, SMTT(60) DEF WORD
  <2>3. d[r].bytes = 0 \/ upto <= Len(file)
    BY DEF InFile
  <2> HIDE DEF upto
  <2>4. d[r].bytes = 0 \/ upto <= Len(file')
    BY <2>2, <2>3
  <2> QED
    BY <2>4 DEF upto
<1> QED
  BY <1>1 DEF InFile

LEMMA InFileStep ==
    ASSUME Inv, RawInv, InFileInv, AheadInv, Next
    PROVE  InFileInv'
<1>0. /\ FileInv /\ file \in Seq(Int) /\ Len(file) \in Nat
      /\ directory_ \in Seq(Entries) /\ write_offset_ \in Nat /\ HEADER <= write_offset_
      /\ header_ \in [run_count : Nat, directory_offset : Nat]
  BY DEF Inv, ObjectInv, FileInv
<1>1. ASSUME NEW keys \in Payloads, AddRun(keys) PROVE InFileInv'
  BY <1>1, RunAdded, AppendRunFile DEF InFileInv
<1>2. CASE BeginRun
  BY <1>2, RunBegun, AppendRunFile DEF InFileInv
<1>3. ASSUME NEW keys \in Payloads, AppendToRun(keys) PROVE InFileInv'
  <2>1. open /\ scan = Null /\ scan' = Null /\ use = "runs"
    BY <1>3 DEF AppendToRun, Ready, Inv, UseInv
  <2>2. InFile(directory_) /\ Len(directory_) > 0 /\ write_offset_ <= EndOfData(directory_)
    BY <2>1 DEF InFileInv, AheadInv
  <2> QED
    BY <1>3, <2>1, <2>2, AppendToRunFile DEF InFileInv
<1>4. ASSUME NEW keys \in Payloads, AppendDirect(keys) PROVE InFileInv'
  <2>1. open /\ scan = Null /\ scan' = Null /\ directory_' = directory_ /\ use # "runs"
    BY <1>4 DEF AppendDirect, Ready, objectVars
  <2>2. directory_ = << >>
    BY <2>1 DEF Inv, UseInv
  <2> QED
    BY <2>1, <2>2 DEF InFileInv, InFile
<1>5. CASE EndRun
  BY <1>5 DEF EndRun, InFileInv, InFile
<1>6. CASE FlushDirectory
  <2>1. /\ open /\ scan = Null /\ scan' = Null /\ directory_' = directory_
        /\ file' = Flushed(file, header_, directory_, write_offset_)
    BY <1>6 DEF FlushDirectory, Ready
  <2>2. file' \in Seq(Int) /\ Len(file') >= Len(file)
    <3>1. Len(file) >= 2
      BY <1>0 DEF FileInv
    <3> QED
      BY <1>0, <2>1, <3>1, FlushKeepsData
  <2>3. InFile(directory_)'
    <3>1. InFile(directory_) /\ Len(file') \in Nat
      BY <2>1, <2>2 DEF InFileInv
    <3> QED
      BY <1>0, <2>1, <2>2, <3>1, InFileLater
  <2> QED
    BY <2>1, <2>3 DEF InFileInv
<1>7. CASE BeginScan
  <2>1. /\ directory_' = << >> /\ scan' = [offset |-> HEADER, start |-> HEADER, count |-> 0]
        /\ file' = file
    BY <1>7 DEF BeginScan
  <2>2. HEADER \div WORD <= Len(file)
    BY <1>0 DEF FileInv, HEADER, WORD
  <2> QED
    BY <2>1, <2>2 DEF InFileInv, InFile
<1>8. CASE ScanKey
  <2>1. /\ scan # Null /\ scan.offset < Len(file) * WORD
        /\ scan'.offset = scan.offset + WORD
        /\ file' = file
        /\ \/ scan' = [offset |-> scan.offset + WORD, start |-> scan.offset, count |-> 1]
           \/ scan' = [offset |-> scan.offset + WORD, start |-> scan.start,
                       count |-> scan.count + 1]
    BY <1>8 DEF ScanKey
  <2>2. scan.offset \in Nat /\ scan.start \in Nat /\ scan.count \in Nat
    BY <2>1 DEF Inv, ObjectInv
  <2>3. scan' \in [offset : Nat, start : Nat, count : Nat]
    BY <2>1, <2>2 DEF WORD
  <2>4. scan' # Null
    BY <2>3, FileAssumption
  <2> DEFINE at == scan.offset
             len == Len(file)
  <2>5. at \in Nat /\ len \in Nat /\ at < len * WORD
    BY <1>0, <2>1, <2>2
  <2> HIDE DEF at, len
  <2>6. (at + WORD) \div WORD <= len
    BY <2>5 DEF WORD
  <2> QED
    BY <2>1, <2>4, <2>6 DEF InFileInv, at, len
<1>9. CASE FinishScan
  <2>1. /\ scan' = Null
        /\ header_' = [run_count |-> Len(directory_'), directory_offset |-> write_offset_']
        /\ write_offset_' = scan.offset /\ scan # Null
        /\ file' = Flushed(file, header_', directory_', write_offset_')
    BY <1>9 DEF FinishScan
  <2>2. directory_' \in Seq(Entries) /\ InFile(directory_')
    BY <1>9, <2>1, ScanEnds, EndOfRunOrdered DEF FinishScan
  <2> DEFINE d == directory_'
             at == write_offset_'
             h == header_'
  <2>3. at \in Nat /\ HEADER <= at
    BY <2>1 DEF Inv, ObjectInv, ScanInv, HEADER, WORD
  <2>4. h \in [run_count : Nat, directory_offset : Nat]
    BY <2>1, <2>2, <2>3
  <2>5. file' = Flushed(file, h, d, at)
    BY <2>1
  <2>6. d \in Seq(Entries) /\ Len(file) >= 2
    BY <1>0, <2>2 DEF FileInv
  <2> HIDE DEF d, at, h
  <2>7. file' \in Seq(Int) /\ Len(file') >= Len(file)
    BY <1>0, <2>3, <2>4, <2>5, <2>6, FlushKeepsData
  <2>8. InFile(directory_)'
    <3>1. InFile(d) /\ d = directory_' /\ Len(file') \in Nat
      BY <2>2, <2>7 DEF d
    <3> QED
      BY <1>0, <2>6, <2>7, <3>1, InFileLater
  <2> QED
    BY <2>1, <2>8 DEF InFileInv
<1>10. CASE Close
  BY <1>10 DEF Close, Ready, InFileInv
<1>11. CASE Reopen
  <2>1. ~open /\ file' = file /\ scan' = scan /\ directory_' = DirectoryOf(file)
    BY <1>11 DEF Reopen
  <2>2. scan = Null
    BY <2>1 DEF Inv, UseInv
  <2> DEFINE d == DirectoryOf(file)
  <2>3. /\ d \in Seq(Entries) /\ Behind(d, file[2]) /\ file[1] \in Nat /\ file[2] \in Nat
        /\ file[1] > 0 => file[2] \div WORD + 3 * file[1] <= Len(file)
        /\ DOMAIN d = 1 .. file[1]
    BY <2>1 DEF Inv, ClosedInv, FileInv, DirectoryOf
  <2> HIDE DEF d
  <2>4. ASSUME NEW r \in DOMAIN d PROVE (d[r].offset + d[r].bytes) \div WORD <= Len(file)
    <3> DEFINE upto == d[r].offset + d[r].bytes
               to == file[2]
    <3>1. upto \in Nat /\ upto <= to /\ to \in Nat
      BY <2>3, EntryFields, SMTT(60) DEF Behind
    <3>2. to \div WORD + 3 * file[1] <= Len(file) /\ file[1] \in Nat
      BY <2>3
    <3> HIDE DEF upto, to
    <3>3. upto \div WORD <= to \div WORD /\ upto \div WORD \in Nat /\ to \div WORD \in Nat
      BY <3>1 DEF WORD
    <3>4. upto \div WORD <= Len(file)
      BY <1>0, <3>2, <3>3
    <3> QED
      BY <3>4 DEF upto
  <2> QED
    BY <2>1, <2>2, <2>4 DEF InFileInv, InFile, d
<1> QED
  BY <1>1, <1>2, <1>3, <1>4, <1>5, <1>6, <1>7, <1>8, <1>9, <1>10, <1>11
     DEF Next, RunStoreCall, CreateEntries

LEMMA AheadStep ==
    ASSUME Inv, Inv', RawInv, InFileInv, AheadInv, Next
    PROVE  AheadInv'
<1>0. /\ FileInv /\ file \in Seq(Int) /\ Len(file) \in Nat
      /\ directory_ \in Seq(Entries) /\ write_offset_ \in Nat /\ HEADER <= write_offset_
      /\ header_ \in [run_count : Nat, directory_offset : Nat]
      /\ file[1] \in Nat /\ file[2] \in Nat
  BY DEF Inv, ObjectInv, FileInv
<1>1. ASSUME open, scan = Null, open' = open, NEW k \in Seq(Int), AppendRun(k)
      PROVE  AheadInv'
  <2>1. /\ file'[1] = file[1] /\ file'[2] = file[2]
        /\ Len(directory_') > 0 /\ EndOfData(directory_') = write_offset_'
        /\ header_' = [header_ EXCEPT !.run_count = header_.run_count + 1]
    BY <1>1, AppendRunFile DEF InFileInv
  <2>2. write_offset_ <= write_offset_' /\ write_offset_' \in Nat
    BY <1>1, AppendRunStep
  <2>3. header_'.directory_offset = header_.directory_offset
        /\ header_'.run_count = header_.run_count + 1 /\ header_.run_count \in Nat
    BY <1>0, <2>1
  <2>4. /\ header_.directory_offset = file[2]
        /\ file[1] <= header_.run_count /\ file[2] <= write_offset_
    BY <1>1 DEF AheadInv
  <2>5. file'[1] <= header_'.run_count /\ file'[2] <= write_offset_'
        /\ write_offset_' <= EndOfData(directory_')
    <3> DEFINE a == file[1]
               b == file[2]
               n == header_.run_count
               m == header_'.run_count
               x == write_offset_
               y == write_offset_'
    <3>1. /\ a \in Nat /\ b \in Nat /\ n \in Nat /\ x \in Nat /\ y \in Nat
          /\ a <= n /\ m = n + 1 /\ b <= x /\ x <= y
      BY <1>0, <2>2, <2>3, <2>4
    <3>2. file'[1] = a /\ file'[2] = b /\ EndOfData(directory_') = y
      BY <2>1
    <3> HIDE DEF a, b, n, m, x, y
    <3>3. a <= m /\ b <= y /\ y <= y
      BY <3>1
    <3> QED
      BY <3>2, <3>3 DEF m, y
  <2> QED
    BY <1>1, <2>1, <2>3, <2>4, <2>5 DEF AheadInv
<1>2. ASSUME NEW keys \in Payloads, AddRun(keys) PROVE AheadInv'
  BY <1>1, <1>2, RunAdded
<1>3. CASE BeginRun
  BY <1>1, <1>3, RunBegun
<1>4. ASSUME NEW keys \in Payloads, AppendToRun(keys) PROVE AheadInv'
  <2>1. open /\ scan = Null /\ use = "runs" /\ open' = open /\ header_' = header_
    BY <1>4 DEF AppendToRun, Ready, Inv, UseInv
  <2>2. /\ InFile(directory_) /\ Len(directory_) > 0 /\ write_offset_ <= EndOfData(directory_)
        /\ header_.directory_offset = file[2]
        /\ file[1] <= header_.run_count /\ file[2] <= write_offset_
    BY <2>1 DEF InFileInv, AheadInv
  <2>3. /\ file'[1] = file[1] /\ file'[2] = file[2] /\ Len(directory_') = Len(directory_)
        /\ write_offset_ <= write_offset_' /\ write_offset_' <= EndOfData(directory_')
    BY <1>4, <2>2, AppendToRunFile
  <2>4. file'[2] <= write_offset_'
    <3>1. write_offset_' \in Nat
      BY DEF Inv, ObjectInv
    <3> QED
      BY <1>0, <2>2, <2>3, <3>1
  <2> QED
    BY <2>1, <2>2, <2>3, <2>4 DEF AheadInv
<1>5. ASSUME NEW keys \in Payloads, AppendDirect(keys) PROVE AheadInv'
  <2>1. open /\ open' = open /\ use' # "runs" /\ UNCHANGED objectVars
    BY <1>5 DEF AppendDirect, Ready
  <2>2. file'[1] = file[1] /\ file'[2] = file[2]
    BY <1>5, RawAppended
  <2> QED
    BY <2>1, <2>2 DEF AheadInv, objectVars
<1>6. CASE EndRun
  <2>1. /\ open /\ scan = Null /\ header_' = [header_ EXCEPT !.run_count = Len(directory_)]
        /\ UNCHANGED <<file, open, directory_, write_offset_, use>>
    BY <1>6 DEF EndRun, Ready
  <2>2. header_.run_count = Len(directory_)
    BY <2>1 DEF Inv, DataInv
  <2>3. header_'.run_count = header_.run_count
        /\ header_'.directory_offset = header_.directory_offset
    BY <1>0, <2>1, <2>2
  <2> QED
    BY <2>1, <2>3 DEF AheadInv
<1>7. CASE FlushDirectory
  <2>1. /\ open /\ scan = Null /\ use = "runs"
        /\ file' = Flushed(file, header_, directory_, write_offset_)
        /\ header_' = [header_ EXCEPT !.directory_offset = write_offset_]
        /\ UNCHANGED <<open, directory_, write_offset_, use>>
    BY <1>7 DEF FlushDirectory, Ready
  <2>2. /\ Len(file) >= 2 /\ header_.run_count = Len(directory_)
        /\ Len(directory_) > 0 /\ write_offset_ <= EndOfData(directory_)
    BY <1>0, <2>1 DEF FileInv, Inv, DataInv, AheadInv
  <2>3. file'[1] = Len(directory_) /\ file'[2] = write_offset_
    BY <1>0, <2>1, <2>2, ReadBack
  <2>4. header_'.run_count = Len(directory_) /\ header_'.directory_offset = write_offset_
    BY <1>0, <2>1, <2>2
  <2> QED
    BY <1>0, <2>1, <2>2, <2>3, <2>4 DEF AheadInv
<1>8. CASE BeginScan
  BY <1>8 DEF BeginScan, AheadInv
<1>9. CASE ScanKey
  BY <1>9 DEF ScanKey, AheadInv, Inv, UseInv
<1>10. CASE FinishScan
  <2>1. /\ header_' = [run_count |-> Len(directory_'), directory_offset |-> write_offset_']
        /\ write_offset_' = scan.offset /\ scan # Null /\ open' = open
        /\ file' = Flushed(file, header_', directory_', write_offset_')
    BY <1>10 DEF FinishScan
  <2>2. /\ directory_' \in Seq(Entries) /\ Len(directory_') > 0
        /\ scan.offset <= EndOfData(directory_')
    BY <1>10, <2>1, ScanEnds, EndOfRunOrdered DEF FinishScan
  <2> DEFINE d == directory_'
             at == write_offset_'
             h == header_'
  <2>3. at \in Nat /\ HEADER <= at /\ open
    BY <2>1 DEF Inv, ObjectInv, ScanInv, UseInv, HEADER, WORD
  <2>4. h \in [run_count : Nat, directory_offset : Nat] /\ h.run_count = Len(d)
        /\ h.directory_offset = at
    BY <2>1, <2>2, <2>3
  <2>5. file' = Flushed(file, h, d, at) /\ at <= EndOfData(d) /\ Len(d) > 0
    BY <2>1, <2>2
  <2>6. d \in Seq(Entries) /\ Len(file) >= 2 /\ Len(d) \in Nat
    BY <1>0, <2>2 DEF FileInv
  <2> HIDE DEF d, at, h
  <2>7. file'[1] = Len(d) /\ file'[2] = at
    BY <1>0, <2>3, <2>4, <2>5, <2>6, ReadBack, SMTT(60)
  <2>8. file'[1] <= h.run_count /\ file'[2] <= at
    BY <2>3, <2>4, <2>6, <2>7
  <2> QED
    BY <2>1, <2>3, <2>4, <2>5, <2>7, <2>8 DEF AheadInv, d, at, h
<1>11. CASE Close
  <2>1. /\ open /\ scan = Null /\ ~open' /\ use' = use
        /\ file' = IF directory_ = << >> THEN file
                   ELSE Flushed(file, header_, directory_, write_offset_)
    BY <1>11 DEF Close, Ready
  <2>2. header_.run_count = Len(directory_) /\ Len(file) >= 2
    BY <1>0, <2>1 DEF Inv, DataInv, FileInv
  <2>3. CASE use = "runs"
    <3>1. Len(directory_) > 0 /\ write_offset_ <= EndOfData(directory_)
      BY <2>1, <2>3 DEF AheadInv
    <3>2. /\ file'[1] = Len(directory_) /\ file'[2] = write_offset_
          /\ DirectoryOf(file') = directory_
      <4>1. directory_ # << >>
        BY <3>1
      <4> QED
        BY <1>0, <2>1, <2>2, <4>1, ReadBack
    <3> QED
      BY <2>1, <2>3, <3>1, <3>2 DEF AheadInv
  <2>4. CASE use # "runs"
    <3>1. file' = file /\ file[2] = 0
      BY <2>1, <2>4 DEF Inv, UseInv, RawInv
    <3>2. DirectoryOf(file') \in Seq(Entries) /\ Ordered(DirectoryOf(file'))
      BY <2>1 DEF Inv, ClosedInv
    <3>3. EndOfData(DirectoryOf(file')) \in Nat
      BY <3>2, EndOfDataBehind
    <3>4. 0 <= EndOfData(DirectoryOf(file'))
      BY <3>3
    <3> QED
      BY <2>1, <2>4, <3>1, <3>4 DEF AheadInv
  <2> QED
    BY <2>3, <2>4
<1>12. CASE Reopen
  <2>1. /\ ~open /\ open' = TRUE /\ header_' = HeaderOf(file)
        /\ directory_' = DirectoryOf(file) /\ write_offset_' = EndOfData(directory_')
        /\ file' = file /\ use' = use
    BY <1>12 DEF Reopen
  <2>2. header_'.directory_offset = file[2] /\ header_'.run_count = file[1]
    BY <2>1 DEF HeaderOf
  <2>3. Len(directory_') = file[1]
    <3>1. DirectoryOf(file) \in Seq(Entries) /\ DOMAIN DirectoryOf(file) = 1 .. file[1]
      BY <2>1 DEF Inv, ClosedInv, DirectoryOf
    <3> QED
      BY <1>0, <2>1, <3>1
  <2>4. file[2] <= write_offset_' /\ (use = "runs" => file[1] > 0)
    BY <2>1 DEF AheadInv
  <2>5. write_offset_' \in Nat
    BY DEF Inv, ObjectInv
  <2> QED
    BY <1>0, <2>1, <2>2, <2>3, <2>4, <2>5, SMTT(60) DEF AheadInv
<1> QED
  BY <1>2, <1>3, <1>4, <1>5, <1>6, <1>7, <1>8, <1>9, <1>10, <1>11, <1>12
     DEF Next, RunStoreCall, CreateEntries


LEMMA WordsKeepOrder ==
    ASSUME NEW a \in Nat, NEW b \in Nat, a <= b
    PROVE  a \div WORD \in Nat /\ b \div WORD \in Nat /\ a \div WORD <= b \div WORD
BY DEF WORD
----------------------------------------------------------------------------
(* The runs that a directory lists. *)

RunsOf(f, d) == [r \in 1 .. Len(d) |-> MapRun(f, d, r - 1)]

LEMMA RunsOfIs ==
    ASSUME NEW f, NEW d \in Seq(Entries)
    PROVE  /\ Len(RunsOf(f, d)) = Len(d)
           /\ DOMAIN RunsOf(f, d) = 1 .. Len(d)
           /\ \A r \in 1 .. Len(d) : RunsOf(f, d)[r] = Read(f, d[r].offset, d[r].bytes)
           /\ \E S : RunsOf(f, d) \in Seq(S)
<1>1. PICK n \in Nat : n = Len(d)
  OBVIOUS
<1>2. PICK S : S = {MapRun(f, d, r - 1) : r \in 1 .. n}
  OBVIOUS
<1>3. PICK s : s = RunsOf(f, d)
  OBVIOUS
<1>4. s = [r \in 1 .. n |-> MapRun(f, d, r - 1)]
  BY <1>1, <1>3 DEF RunsOf
<1>5. s \in [1 .. n -> S]
  BY <1>2, <1>4
<1>6. s \in Seq(S) /\ Len(s) = n
  BY <1>5
<1>7. \A r \in 1 .. n : s[r] = Read(f, d[r].offset, d[r].bytes)
  BY <1>4, MapRunOf
<1> QED
  BY <1>1, <1>3, <1>5, <1>6, <1>7

(* Another file, another directory: the same runs. *)
LEMMA SameRuns ==
    ASSUME NEW f, NEW g, NEW d \in Seq(Entries), NEW e \in Seq(Entries), Len(e) = Len(d),
           \A r \in 1 .. Len(d) :
               Read(g, e[r].offset, e[r].bytes) = Read(f, d[r].offset, d[r].bytes)
    PROVE  RunsOf(g, e) = RunsOf(f, d)
<1>1. \A r \in 1 .. Len(d) : MapRun(g, e, r - 1) = MapRun(f, d, r - 1)
  BY MapRunOf
<1> QED
  BY <1>1 DEF RunsOf

(* What is listed while the object is open and not scanning. *)
LEMMA ListedWhenOpen ==
    ASSUME open, scan = Null
    PROVE  ListedRuns = RunsOf(file, directory_)
BY DEF ListedRuns, CurrentDirectory, RunsOf

LEMMA ReadType ==
    ASSUME NEW f \in Seq(Int), NEW o \in Nat, NEW b \in Nat,
           b = 0 \/ (o + b) \div WORD <= Len(f)
    PROVE  /\ Read(f, o, b) \in Seq(Int)
           /\ b = 0 => Read(f, o, b) = <<>>
<1>1. PICK m \in Nat, n \in Nat : m = o \div WORD /\ n = (o + b) \div WORD
  BY DEF WORD
<1>2. b = 0 => n = m
  BY <1>1
<1>3. Read(f, o, b) = SubSeq(f, m + 1, n)
  BY <1>1 DEF Read
<1>4. n <= Len(f) \/ n < m + 1
  BY <1>1, <1>2
<1>5. \A i \in m + 1 .. n : f[i] \in Int
  BY <1>4
<1>6. /\ SubSeq(f, m + 1, n) \in Seq(Int)
      /\ Len(SubSeq(f, m + 1, n)) = IF m + 1 <= n THEN n - (m + 1) + 1 ELSE 0
  BY <1>5, SubSeqProperties
<1>7. n = m => Len(SubSeq(f, m + 1, n)) = 0
  BY <1>6
<1>8. n = m => SubSeq(f, m + 1, n) = <<>>
  BY <1>6, <1>7, EmptySeq
<1> QED
  BY <1>2, <1>3, <1>6, <1>8

LEMMA RunWords ==
    ASSUME NEW o \in Nat, NEW b \in Nat
    PROVE  /\ o + b \in Nat /\ o \div WORD \in Nat /\ (o + b) \div WORD \in Nat
           /\ o \div WORD <= (o + b) \div WORD
BY DEF WORD

(* A write behind the keys of a run, whatever it is, and a write before its keys. *)
LEMMA WrittenBehind ==
    ASSUME NEW f \in Seq(Int), NEW at \in Nat, NEW words \in Seq(Int),
           NEW o \in Nat, NEW b \in Nat, b = 0 \/ (o + b) \div WORD <= Len(f), o + b <= at
    PROVE  Read(Write(f, at, words), o, b) = Read(f, o, b)
<1>1. Write(f, at, words) \in Seq(Int)
      /\ \A w \in 1 .. Len(f) : w <= at \div WORD => Write(f, at, words)[w] = f[w]
  BY WriteWords
<1>2. (o + b) \div WORD <= at \div WORD /\ (o + b) \div WORD \in Nat /\ at \div WORD \in Nat
      /\ o \div WORD \in Nat
  BY WordsKeepOrder, WordsType, SMTT(60)
<1>3. \A w \in 1 .. Len(f) :
         o \div WORD < w /\ w <= (o + b) \div WORD => Write(f, at, words)[w] = f[w]
  BY <1>1, <1>2
<1> QED
  BY <1>1, <1>3, ReadsTheSame

LEMMA WrittenBefore ==
    ASSUME NEW f \in Seq(Int), NEW at \in Nat, NEW words \in Seq(Int),
           NEW o \in Nat, NEW b \in Nat, b = 0 \/ (o + b) \div WORD <= Len(f),
           at \div WORD + Len(words) <= o \div WORD
    PROVE  Read(Write(f, at, words), o, b) = Read(f, o, b)
<1> DEFINE g == Write(f, at, words)
<1>1. g \in Seq(Int)
  BY WriteWords
<1>2. PICK from \in Nat, m \in Nat, n \in Nat :
         from = at \div WORD /\ m = o \div WORD /\ n = (o + b) \div WORD /\ m <= n
  BY RunWords, WordsType
<1>3. Len(words) \in Nat /\ Len(f) \in Nat
  OBVIOUS
<1>4. ASSUME NEW w \in 1 .. Len(f), m < w, w <= n PROVE g[w] = f[w]
  <2>1. b # 0
    BY <1>2, <1>4
  <2>2. n <= Len(f)
    BY <1>2, <2>1
  <2>3. from + Len(words) <= Len(f) /\ w > from + Len(words)
    BY <1>2, <1>3, <1>4, <2>2, SMTT(60)
  <2> QED
    BY <1>2, <2>3, WriteInside
<1> HIDE DEF g
<1>5. Read(g, o, b) = Read(f, o, b)
  BY <1>1, <1>2, <1>4, ReadsTheSame, SMTT(60)
<1> QED
  BY <1>5 DEF g

(* Keys written behind those of a run are read behind them. *)
ReadsOn(f, o, b, keys, pad) ==
    Read(Write(f, o + b, keys \o pad), o, b + Len(keys) * WORD) = Read(f, o, b) \o keys

LEMMA WrittenOn ==
    ASSUME NEW f \in Seq(Int), NEW o \in Nat, NEW b \in Nat, HEADER <= o,
           b = 0 \/ (o + b) \div WORD <= Len(f),
           NEW keys \in Seq(Int), NEW pad \in Seq(Int)
    PROVE  ReadsOn(f, o, b, keys, pad)
<1>1. PICK g : g = Write(f, o + b, keys \o pad)
  OBVIOUS
<1>2. PICK k \in Nat : k = Len(keys)
  OBVIOUS
<1>3. PICK words \in Seq(Int) : words = keys \o pad
  BY ConcatProperties
<1>31. Len(words) >= k /\ Len(words) \in Nat /\ \A w \in 1 .. k : words[w] = keys[w]
  <2>1. /\ Len(words) = Len(keys) + Len(pad)
        /\ \A i \in 1 .. Len(keys) + Len(pad) :
               words[i] = IF i <= Len(keys) THEN keys[i] ELSE pad[i - Len(keys)]
    BY <1>3, ConcatProperties
  <2>2. PICK l \in Nat : l = Len(pad)
    OBVIOUS
  <2> QED
    BY <1>2, <2>1, <2>2
<1>4. PICK m \in Nat, n \in Nat : m = o \div WORD /\ n = (o + b) \div WORD /\ m <= n
  BY RunWords
<1>40. m \in Nat /\ n \in Nat /\ m <= n /\ k \in Nat
  BY <1>2, <1>4
<1>5. PICK at \in Nat : at = o + b
  OBVIOUS
<1>6. (o + (b + k * WORD)) \div WORD = n + k
  BY <1>4, <1>2, MoreBytes
<1>7. /\ g \in Seq(Int)
      /\ \A w \in 1 .. Len(f) : w <= n => g[w] = f[w]
      /\ \A w \in 1 .. Len(words) : g[n + w] = words[w]
  <2>1. g = Write(f, at, words) /\ n = at \div WORD
    BY <1>1, <1>3, <1>4, <1>5
  <2>2. /\ Write(f, at, words) \in Seq(Int)
        /\ \A w \in 1 .. Len(f) : w <= at \div WORD => Write(f, at, words)[w] = f[w]
        /\ \A w \in 1 .. Len(words) : Write(f, at, words)[at \div WORD + w] = words[w]
    BY WriteWords
  <2> QED
    BY <2>1, <2>2
<1>8. \A w \in 1 .. k : g[n + w] = keys[w]
  <2>1. \A w \in 1 .. k : w \in 1 .. Len(words)
    BY <1>31, <1>40
  <2> QED
    BY <1>31, <1>7, <2>1
<1>9. PICK old : old = Read(f, o, b)
  OBVIOUS
<1>10. old = SubSeq(f, m + 1, n) /\ old \in Seq(Int)
  BY <1>4, <1>9, ReadType DEF Read
<1>11. b = 0 => n = m
  BY <1>4
<1>12. n = m \/ n <= Len(f)
  BY <1>4, <1>11
<1>13. Len(old) = n - m /\ \A i \in 1 .. n - m : old[i] = f[m + i]
  <2>1. \A i \in m + 1 .. n : f[i] \in Int
    BY <1>12
  <2>2. /\ Len(SubSeq(f, m + 1, n)) = IF m + 1 <= n THEN n - (m + 1) + 1 ELSE 0
        /\ \A i \in 1 .. n - (m + 1) + 1 : SubSeq(f, m + 1, n)[i] = f[(m + 1) + i - 1]
    BY <2>1, SubSeqProperties
  <2>3. /\ \A i \in 1 .. n - m : (m + 1) + i - 1 = m + i
        /\ n - (m + 1) + 1 = n - m
        /\ ~(m + 1 <= n) => n - m = 0
    BY <1>40
  <2>4. /\ Len(old) = n - m
        /\ \A i \in 1 .. n - m : old[i] = f[(m + 1) + i - 1]
    BY <1>10, <2>2, <2>3
  <2> QED
    BY <2>3, <2>4
<1>14. \A i \in m + 1 .. n + k :
           g[i] = IF i <= n THEN f[i] ELSE keys[i - n]
  <2> SUFFICES ASSUME NEW i \in m + 1 .. n + k
               PROVE  g[i] = IF i <= n THEN f[i] ELSE keys[i - n]
    OBVIOUS
  <2>1. CASE i <= n
    <3>1. i \in 1 .. Len(f)
      BY <2>1, <1>4, <1>12, SMTT(60)
    <3> QED
      BY <2>1, <3>1, <1>7
  <2>2. CASE ~(i <= n)
    <3>1. i - n \in 1 .. k /\ n + (i - n) = i
      BY <2>2, <1>4, SMTT(60)
    <3> QED
      BY <2>2, <3>1, <1>8
  <2> QED
    BY <2>1, <2>2
<1>15. PICK new : new = SubSeq(g, m + 1, n + k)
  OBVIOUS
<1>16. \A i \in m + 1 .. n + k : g[i] \in Int
  <2> SUFFICES ASSUME NEW i \in m + 1 .. n + k PROVE g[i] \in Int
    OBVIOUS
  <2>1. CASE i <= n
    <3>1. i \in 1 .. Len(f)
      BY <2>1, <1>4, <1>12
    <3> QED
      BY <2>1, <3>1, <1>14
  <2>2. CASE ~(i <= n)
    <3>1. i - n \in 1 .. k
      BY <2>2, <1>4, SMTT(60)
    <3>2. keys[i - n] \in Int
      BY <3>1, <1>2
    <3> QED
      BY <2>2, <3>2, <1>14
  <2> QED
    BY <2>1, <2>2
<1>17. /\ new \in Seq(Int) /\ Len(new) = (n + k) - m
       /\ \A i \in 1 .. (n + k) - m : new[i] = g[m + i]
  <2>1. /\ SubSeq(g, m + 1, n + k) \in Seq(Int)
        /\ Len(SubSeq(g, m + 1, n + k)) = IF m + 1 <= n + k THEN (n + k) - (m + 1) + 1 ELSE 0
        /\ \A i \in 1 .. (n + k) - (m + 1) + 1 : SubSeq(g, m + 1, n + k)[i] = g[(m + 1) + i - 1]
    <3>1. PICK p \in Int, q \in Int : p = m + 1 /\ q = n + k
      BY <1>40
    <3>2. \A i \in p .. q : g[i] \in Int
      BY <3>1, <1>16
    <3> QED
      BY <3>1, <3>2, SubSeqProperties
  <2>2. /\ \A i \in 1 .. (n + k) - m : (m + 1) + i - 1 = m + i
        /\ (n + k) - (m + 1) + 1 = (n + k) - m
        /\ ~(m + 1 <= n + k) => (n + k) - m = 0
    BY <1>40
  <2>3. /\ new \in Seq(Int) /\ Len(new) = (n + k) - m
        /\ \A i \in 1 .. (n + k) - m : new[i] = g[(m + 1) + i - 1]
    BY <1>15, <2>1, <2>2
  <2> QED
    BY <2>2, <2>3
<1>18. old \o keys \in Seq(Int) /\ Len(old \o keys) = (n - m) + k
       /\ \A i \in 1 .. (n - m) + k :
             (old \o keys)[i] = IF i <= n - m THEN old[i] ELSE keys[i - (n - m)]
  <2>1. /\ old \o keys \in Seq(Int)
        /\ Len(old \o keys) = Len(old) + Len(keys)
        /\ \A i \in 1 .. Len(old) + Len(keys) : (old \o keys)[i] =
               IF i <= Len(old) THEN old[i] ELSE keys[i - Len(old)]
    BY <1>10, ConcatProperties
  <2> QED
    BY <1>2, <1>13, <2>1
<1>19. \A i \in 1 .. (n + k) - m : new[i] = (old \o keys)[i]
  <2> SUFFICES ASSUME NEW i \in 1 .. (n + k) - m PROVE new[i] = (old \o keys)[i]
    OBVIOUS
  <2>1. /\ m + i \in m + 1 .. n + k /\ i \in 1 .. (n - m) + k
        /\ m + i <= n => i <= n - m
        /\ ~(m + i <= n) => ~(i <= n - m) /\ (m + i) - n = i - (n - m)
    BY <1>40
  <2>2. new[i] = IF m + i <= n THEN f[m + i] ELSE keys[(m + i) - n]
    BY <2>1, <1>14, <1>17
  <2>3. i <= n - m => old[i] = f[m + i]
    BY <1>13
  <2> QED
    BY <2>1, <2>2, <2>3, <1>18
<1>20. Len(new) = Len(old \o keys)
  BY <1>4, <1>17, <1>18
<1>21. new = old \o keys
  BY <1>17, <1>18, <1>19, <1>20, SeqEqual
<1>22. Read(g, o, b + k * WORD) = new
  BY <1>4, <1>6, <1>15 DEF Read
<1> QED
  BY <1>1, <1>2, <1>9, <1>21, <1>22 DEF ReadsOn

----------------------------------------------------------------------------
(* What the calls do to the runs. *)

(* The object is open and not scanning. *)
LEMMA WhenOpen ==
    ASSUME Inv, InFileInv, open, scan = Null
    PROVE  /\ file \in Seq(Int) /\ Len(file) \in Nat /\ Len(file) >= 2
           /\ directory_ \in Seq(Entries) /\ Len(directory_) \in Nat
           /\ write_offset_ \in Nat /\ HEADER <= write_offset_ /\ current_run_ \in Nat
           /\ header_ \in [run_count : Nat, directory_offset : Nat]
           /\ header_.run_count = Len(directory_)
           /\ ListedRuns = RunsOf(file, directory_)
           /\ \A r \in 1 .. Len(directory_) :
                 /\ directory_[r].offset \in Nat /\ directory_[r].bytes \in Nat
                 /\ HEADER <= directory_[r].offset
                 /\ directory_[r].offset + directory_[r].bytes <= write_offset_
                 /\ \/ directory_[r].bytes = 0
                    \/ (directory_[r].offset + directory_[r].bytes) \div WORD <= Len(file)
           /\ \A r, s \in 1 .. Len(directory_) :
                 r < s => directory_[r].offset + directory_[r].bytes <= directory_[s].offset
<1>1. /\ file \in Seq(Int) /\ Len(file) \in Nat /\ Len(file) >= 2
      /\ directory_ \in Seq(Entries) /\ Len(directory_) \in Nat
      /\ write_offset_ \in Nat /\ HEADER <= write_offset_ /\ current_run_ \in Nat
      /\ header_ \in [run_count : Nat, directory_offset : Nat]
  BY DEF Inv, FileInv, ObjectInv
<1>2. /\ header_.run_count = Len(directory_) /\ Ordered(directory_)
      /\ Behind(directory_, write_offset_) /\ InFile(directory_)
  BY DEF Inv, DataInv, InFileInv
<1>3. /\ DOMAIN directory_ = 1 .. Len(directory_)
      /\ \A r \in DOMAIN directory_ :
            directory_[r].offset \in Nat /\ directory_[r].bytes \in Nat
  BY <1>1, EntryFields
<1> QED
  BY <1>1, <1>2, <1>3, ListedWhenOpen DEF Ordered, Behind, InFile

LEMMA RunAppended ==
    ASSUME Inv, InFileInv, open, scan = Null, NEW keys \in Seq(Int), AppendRun(keys)
    PROVE  RunsOf(file', directory_') = Append(RunsOf(file, directory_), keys)
<1>1. PICK n \in Nat : n = Len(directory_)
  BY WhenOpen
<1>2. /\ directory_' \in Seq(Entries) /\ Len(directory_') = n + 1
      /\ \A r \in 1 .. n : directory_'[r] = directory_[r]
      /\ directory_'[n + 1] = Entry(write_offset_, Len(keys))
  BY <1>1, AppendRunStep
<1>3. PICK pad \in Seq(Int) : file' = Write(file, write_offset_, keys \o pad)
  <2> DEFINE k == (AlignUp(Len(keys) * WORD) - Len(keys) * WORD) \div WORD
  <2>1. k \in Nat
    <3>1. Len(keys) * WORD \in Nat
      BY DEF WORD
    <3>2. AlignUp(Len(keys) * WORD) \in Nat /\ Len(keys) * WORD <= AlignUp(Len(keys) * WORD)
      BY <3>1, AlignUpBounds
    <3> QED
      BY <3>1, <3>2 DEF WORD
  <2>2. file' = Write(file, write_offset_, keys \o [w \in 1 .. k |-> 0])
    BY DEF AppendRun, ZeroPad
  <2> HIDE DEF k
  <2>3. [w \in 1 .. k |-> 0] \in Seq(Int)
    BY <2>1
  <2> QED
    BY <2>2, <2>3
<1>4. keys \o pad \in Seq(Int)
  BY ConcatProperties
<1>5. ASSUME NEW r \in 1 .. n
      PROVE  Read(file', directory_'[r].offset, directory_'[r].bytes)
               = Read(file, directory_[r].offset, directory_[r].bytes)
  <2>1. directory_'[r] = directory_[r]
    BY <1>2
  <2>2. /\ directory_[r].offset \in Nat /\ directory_[r].bytes \in Nat
        /\ directory_[r].offset + directory_[r].bytes <= write_offset_
        /\ \/ directory_[r].bytes = 0
           \/ (directory_[r].offset + directory_[r].bytes) \div WORD <= Len(file)
        /\ file \in Seq(Int) /\ write_offset_ \in Nat
    BY <1>1, WhenOpen
  <2>3. PICK f \in Seq(Int), at \in Nat, words \in Seq(Int), o \in Nat, b \in Nat :
           /\ f = file /\ at = write_offset_ /\ words = keys \o pad
           /\ o = directory_[r].offset /\ b = directory_[r].bytes
    BY <1>4, <2>2
  <2>4. Read(Write(f, at, words), o, b) = Read(f, o, b)
    <3>1. (b = 0 \/ (o + b) \div WORD <= Len(f)) /\ o + b <= at
      BY <2>2, <2>3
    <3> QED
      BY <3>1, WrittenBehind
  <2> QED
    BY <1>3, <2>1, <2>3, <2>4
<1>6. Read(file', directory_'[n + 1].offset, directory_'[n + 1].bytes) = keys
  <2>1. PICK o \in Nat : o = write_offset_
    BY WhenOpen
  <2>2. HEADER <= o /\ file \in Seq(Int)
    BY <2>1, WhenOpen
  <2>3. directory_'[n + 1].offset = o /\ directory_'[n + 1].bytes = Len(keys) * WORD
    BY <1>2, <2>1, EntryType
  <2>6. o + 0 = o /\ 0 + Len(keys) * WORD = Len(keys) * WORD
    BY DEF WORD
  <2>4. ReadsOn(file, o, 0, keys, pad)
    BY <2>2, WrittenOn
  <2>5. Read(file, o, 0) = <<>>
    BY <2>2, ReadType
  <2>7. <<>> \o keys = keys
    BY ConcatEmptySeq
  <2> QED
    BY <1>3, <2>1, <2>3, <2>4, <2>5, <2>6, <2>7 DEF ReadsOn
<1>7. PICK S : RunsOf(file, directory_) \in Seq(S) /\ Len(RunsOf(file, directory_)) = n
              /\ \A r \in 1 .. n : RunsOf(file, directory_)[r] = Read(file, directory_[r].offset, directory_[r].bytes)
  BY <1>1, WhenOpen, RunsOfIs
<1>8. PICK T : RunsOf(file', directory_') \in Seq(T) /\ Len(RunsOf(file', directory_')) = n + 1
              /\ \A r \in 1 .. n + 1 : RunsOf(file', directory_')[r] = Read(file', directory_'[r].offset, directory_'[r].bytes)
  BY <1>2, RunsOfIs
<1>70. PICK old : old = RunsOf(file, directory_)
  OBVIOUS
<1>80. PICK new : new = RunsOf(file', directory_')
  OBVIOUS
<1>9. PICK U : U = S \cup T \cup {keys}
  OBVIOUS
<1>10. old \in Seq(U) /\ new \in Seq(U) /\ keys \in U
  BY <1>7, <1>8, <1>9, <1>70, <1>80
<1>11. /\ Append(old, keys) \in Seq(U) /\ Len(Append(old, keys)) = n + 1
       /\ \A r \in 1 .. n : Append(old, keys)[r] = old[r]
       /\ Append(old, keys)[n + 1] = keys
  BY <1>7, <1>10, <1>70
<1>12. \A r \in 1 .. n + 1 : new[r] = Append(old, keys)[r]
  <2>1. ASSUME NEW r \in 1 .. n PROVE new[r] = old[r]
    <3>1. r \in 1 .. n + 1
      OBVIOUS
    <3> QED
      BY <3>1, <1>5, <1>7, <1>8, <1>70, <1>80
  <2>2. new[n + 1] = keys
    <3>1. n + 1 \in 1 .. n + 1
      OBVIOUS
    <3> QED
      BY <3>1, <1>6, <1>8, <1>80
  <2>3. \A r \in 1 .. n + 1 : r \in 1 .. n \/ r = n + 1
    OBVIOUS
  <2> QED
    BY <2>1, <2>2, <2>3, <1>11
<1>13. new = Append(old, keys)
  BY <1>8, <1>10, <1>11, <1>12, <1>80, SeqEqual
<1> QED
  BY <1>70, <1>80, <1>13

(* append_to_run: the open run, its keys, and the padding behind it. *)
LEMMA AppendToRunIs ==
    ASSUME Inv, InFileInv, NEW keys \in Payloads, AppendToRun(keys),
           NEW c, c = current_run_ + 1, NEW o, o = directory_[c].offset,
           NEW b, b = directory_[c].bytes
    PROVE  /\ c \in 1 .. Len(directory_) /\ o \in Nat /\ b \in Nat /\ HEADER <= o
           /\ open /\ scan = Null /\ ~thrown /\ in_run_ /\ use = "runs"
           /\ \E pad \in Seq(Int) :
                 /\ file' = Write(file, o + b, keys \o pad)
                 /\ AtEnd(directory_[c]) \/ pad = <<>>
           /\ \A r \in 1 .. Len(directory_) :
                 r > c => ~AtEnd(directory_[c]) /\ o + AlignUp(b) <= directory_[r].offset
<1>1. /\ open /\ scan = Null /\ ~thrown /\ in_run_ /\ use = "runs"
  BY DEF AppendToRun, Ready, Inv, UseInv
<1>2. c \in 1 .. Len(directory_)
  BY <1>1, WhenOpen, SMTT(60) DEF Inv, RunInv
<1>3. o \in Nat /\ b \in Nat /\ HEADER <= o
  BY <1>1, <1>2, WhenOpen
<1>4. \E pad \in Seq(Int) : /\ file' = Write(file, o + b, keys \o pad)
                            /\ AtEnd(directory_[c]) \/ pad = <<>>
  <2> DEFINE total == b + Len(keys) * WORD
             grows == AlignUp(total) > AlignUp(b)
             pad == IF AtEnd(directory_[c]) /\ grows THEN ZeroPad(AlignUp(total) - total) ELSE <<>>
  <2>1. total \in Nat
    <3>1. Len(keys) \in Nat
      BY FileAssumption
    <3> QED
      BY <3>1, <1>3 DEF WORD
  <2>2. file' = Write(file, o + b, keys \o pad)
    BY DEF AppendToRun
  <2>3. ZeroPad(AlignUp(total) - total) \in Seq(Int)
    <3>1. AlignUp(total) \in Nat /\ total <= AlignUp(total)
      BY <2>1, AlignUpBounds
    <3>2. PICK k \in Nat : k = (AlignUp(total) - total) \div WORD
      BY <2>1, <3>1 DEF WORD
    <3>3. [w \in 1 .. k |-> 0] \in Seq(Int)
      OBVIOUS
    <3> QED
      BY <3>2, <3>3 DEF ZeroPad
  <2>4. pad \in Seq(Int) /\ (AtEnd(directory_[c]) \/ pad = <<>>)
    BY <2>3
  <2> HIDE DEF pad
  <2> QED
    BY <2>2, <2>4
<1>5. ASSUME NEW r \in 1 .. Len(directory_), r > c
      PROVE  ~AtEnd(directory_[c]) /\ o + AlignUp(b) <= directory_[r].offset
  <2>1. o + AlignUp(b) <= directory_[r].offset /\ directory_[r].offset < write_offset_
    BY <1>1, <1>5, EntryFields, WhenOpen DEF Inv, RunInv
  <2>2. AlignUp(b) \in Nat /\ directory_[r].offset \in Nat /\ write_offset_ \in Nat
    BY <1>1, <1>3, AlignUpBounds, WhenOpen
  <2>3. o + AlignUp(b) # write_offset_
    BY <1>3, <2>1, <2>2
  <2> QED
    BY <2>1, <2>3 DEF AtEnd
<1> QED
  BY <1>1, <1>2, <1>3, <1>4, <1>5

(* What append_to_run writes is behind the run and before the run that follows. *)
LEMMA OtherRunsKept ==
    ASSUME Inv, InFileInv, NEW keys \in Payloads, AppendToRun(keys),
           NEW r \in 1 .. Len(directory_), r # current_run_ + 1,
           r <= current_run_ \/ ~thrown'
    PROVE  Read(file', directory_[r].offset, directory_[r].bytes)
             = Read(file, directory_[r].offset, directory_[r].bytes)
<1>1. PICK c, o, b : c = current_run_ + 1 /\ o = directory_[c].offset /\ b = directory_[c].bytes
  OBVIOUS
<1>2. /\ c \in 1 .. Len(directory_) /\ o \in Nat /\ b \in Nat /\ HEADER <= o
      /\ open /\ scan = Null
      /\ \E pad \in Seq(Int) : /\ file' = Write(file, o + b, keys \o pad)
                               /\ AtEnd(directory_[c]) \/ pad = <<>>
      /\ r > c => ~AtEnd(directory_[c]) /\ o + AlignUp(b) <= directory_[r].offset
  BY <1>1, AppendToRunIs
<1>3. PICK pad \in Seq(Int) : /\ file' = Write(file, o + b, keys \o pad)
                              /\ AtEnd(directory_[c]) \/ pad = <<>>
  BY <1>2
<1>4. keys \in Seq(Int) /\ keys \o pad \in Seq(Int)
  BY FileAssumption, ConcatProperties
<1>5. PICK f \in Seq(Int), p \in Nat, q \in Nat :
         /\ f = file /\ p = directory_[r].offset /\ q = directory_[r].bytes
         /\ q = 0 \/ (p + q) \div WORD <= Len(f)
  BY <1>2, WhenOpen
<1>50. q = 0 \/ (p + q) \div WORD <= Len(f)
  BY <1>5
<1>6. PICK at \in Nat, words \in Seq(Int) : at = o + b /\ words = keys \o pad
  <2>1. o + b \in Nat
    BY <1>2
  <2> QED
    BY <1>4, <2>1
<1>7. current_run_ \in Nat /\ c \in Nat /\ r \in Nat
  <2>1. current_run_ \in Nat
    BY DEF Inv, ObjectInv
  <2> QED
    BY <1>1, <2>1
<1>8. CASE r < c
  <2>1. p + q <= o
    BY <1>1, <1>2, <1>5, <1>8, WhenOpen
  <2>2. p + q <= at
    BY <1>2, <1>6, <2>1, SMTT(60)
  <2>3. Read(Write(f, at, words), p, q) = Read(f, p, q)
    BY <1>50, <2>2, WrittenBehind
  <2> QED
    BY <1>3, <1>5, <1>6, <2>3
<1>9. CASE r > c
  <2>1. ~thrown'
    BY <1>1, <1>7, <1>9
  <2>2. ~AtEnd(directory_[c]) /\ o + AlignUp(b) <= p /\ words = keys
    <3>1. ~AtEnd(directory_[c]) /\ o + AlignUp(b) <= p
      BY <1>2, <1>5, <1>9
    <3>2. keys \o <<>> = keys
      BY <1>4, ConcatEmptySeq
    <3> QED
      BY <1>3, <1>6, <3>1, <3>2
  <2>3. PICK total \in Nat : total = b + Len(keys) * WORD
    BY <1>2, <1>4 DEF WORD
  <2>31. total <= AlignUp(b) /\ AlignUp(b) \in Nat
    <3>1. ~(AlignUp(total) > AlignUp(b))
      BY <1>1, <2>1, <2>2, <2>3 DEF AppendToRun
    <3>2. /\ AlignUp(total) \in Nat /\ total <= AlignUp(total)
          /\ AlignUp(b) \in Nat
      BY <1>2, AlignUpBounds
    <3> QED
      BY <3>1, <3>2
  <2>4. at + Len(words) * WORD <= p
    <3>3. at + Len(words) * WORD = o + total
      BY <1>2, <1>4, <1>6, <2>2, <2>3 DEF WORD
    <3> QED
      BY <1>2, <2>2, <2>31, <3>3, SMTT(60)
  <2>5. at \div WORD + Len(words) <= p \div WORD
    BY <1>4, <1>5, <1>6, <2>2, <2>4, WordsOfBytes
  <2>6. Read(Write(f, at, words), p, q) = Read(f, p, q)
    BY <1>50, <2>5, WrittenBefore
  <2> QED
    BY <1>3, <1>5, <1>6, <2>6
<1> QED
  BY <1>1, <1>7, <1>8, <1>9

LEMMA RunGrown ==
    ASSUME Inv, InFileInv, NEW keys \in Payloads, AppendToRun(keys), ~thrown'
    PROVE  RunsOf(file', directory_')
             = [RunsOf(file, directory_) EXCEPT ![current_run_ + 1] = @ \o keys]
<1>1. PICK c, o, b, d : /\ c = current_run_ + 1 /\ d = directory_
                        /\ o = d[c].offset /\ b = d[c].bytes
  OBVIOUS
<1>2. /\ c \in 1 .. Len(d) /\ o \in Nat /\ b \in Nat /\ HEADER <= o
      /\ open /\ scan = Null
      /\ \E pad \in Seq(Int) : file' = Write(file, o + b, keys \o pad)
  BY <1>1, AppendToRunIs
<1>3. d \in Seq(Entries) /\ Len(d) \in Nat /\ file \in Seq(Int)
  BY <1>1, <1>2, WhenOpen
<1>4. keys \in Seq(Int) /\ Len(keys) \in Nat
  BY FileAssumption
<1>5. directory_' = [d EXCEPT ![c] = Longer(d[c], Len(keys))]
  BY <1>1 DEF AppendToRun
<1>6. PICK e : e = directory_'
  OBVIOUS
<1>7. /\ e \in Seq(Entries) /\ Len(e) = Len(d)
      /\ \A r \in 1 .. Len(d) : r # c => e[r] = d[r]
      /\ e[c].offset = o /\ e[c].bytes = b + Len(keys) * WORD
  <2>1. d[c] \in Entries
    BY <1>2, <1>3
  <2>2. /\ Longer(d[c], Len(keys)).offset = o
        /\ Longer(d[c], Len(keys)).bytes = b + Len(keys) * WORD
        /\ Longer(d[c], Len(keys)) \in Entries
    <3>1. d[c].keys \in Nat /\ d[c].keys + Len(keys) \in Nat
      BY <2>1, <1>4 DEF Entries
    <3>2. b + Len(keys) * WORD \in Nat
      BY <1>2, <1>4 DEF WORD
    <3> QED
      BY <1>1, <2>1, <3>1, <3>2 DEF Longer, Entries
  <2> QED
    BY <1>2, <1>3, <1>5, <1>6, <2>2
<1>8. Read(file', o, b + Len(keys) * WORD) = Read(file, o, b) \o keys
  <2>1. PICK pad \in Seq(Int) : file' = Write(file, o + b, keys \o pad)
    BY <1>2
  <2>2. b = 0 \/ (o + b) \div WORD <= Len(file)
    BY <1>1, <1>2, WhenOpen
  <2>3. PICK f \in Seq(Int), p \in Nat, q \in Nat : f = file /\ p = o /\ q = b
    BY <1>2, <1>3
  <2>4. HEADER <= p /\ (q = 0 \/ (p + q) \div WORD <= Len(f))
    BY <1>2, <2>2, <2>3
  <2>5. PICK k \in Seq(Int) : k = keys
    BY <1>4
  <2>6. ReadsOn(f, p, q, k, pad)
    BY <2>4, WrittenOn
  <2> QED
    BY <2>1, <2>3, <2>5, <2>6 DEF ReadsOn
<1>9. ASSUME NEW r \in 1 .. Len(d)
      PROVE  MapRun(file', e, r - 1)
               = IF r = c THEN MapRun(file, d, r - 1) \o keys ELSE MapRun(file, d, r - 1)
  <2>1. /\ MapRun(file', e, r - 1) = Read(file', e[r].offset, e[r].bytes)
        /\ MapRun(file, d, r - 1) = Read(file, d[r].offset, d[r].bytes)
    BY MapRunOf
  <2>2. CASE r = c
    BY <1>1, <1>7, <1>8, <2>1, <2>2
  <2>3. CASE r # c
    <3>1. Read(file', d[r].offset, d[r].bytes) = Read(file, d[r].offset, d[r].bytes)
      BY <1>1, <2>3, OtherRunsKept
    <3> QED
      BY <1>7, <2>1, <2>3, <3>1
  <2> QED
    BY <2>2, <2>3
<1>10. RunsOf(file', e) = [RunsOf(file, d) EXCEPT ![c] = @ \o keys]
  BY <1>2, <1>7, <1>9, Zenon DEF RunsOf
<1> QED
  BY <1>1, <1>6, <1>10

(* flush_directory, and the destructor, keep the runs. *)
LEMMA RunsFlushed ==
    ASSUME Inv, InFileInv, open, scan = Null
    PROVE  /\ RunsOf(Flushed(file, header_, directory_, write_offset_), directory_)
                = RunsOf(file, directory_)
           /\ DirectoryOf(Flushed(file, header_, directory_, write_offset_)) = directory_
<1>1. PICK f \in Seq(Int), h \in [run_count : Nat, directory_offset : Nat], d \in Seq(Entries), at \in Nat :
         /\ f = file /\ h = header_ /\ d = directory_ /\ at = write_offset_
         /\ HEADER <= at /\ Len(f) >= 2 /\ h.run_count = Len(d)
  BY WhenOpen
<1>2. ASSUME NEW r \in 1 .. Len(d)
      PROVE  Read(Flushed(f, h, d, at), d[r].offset, d[r].bytes) = Read(f, d[r].offset, d[r].bytes)
  <2>1. PICK o \in Nat, b \in Nat : o = d[r].offset /\ b = d[r].bytes
    BY <1>1, WhenOpen
  <2>2. HEADER <= o /\ o + b <= at /\ (b = 0 \/ (o + b) \div WORD <= Len(f))
    BY <1>1, <2>1, WhenOpen
  <2> QED
    BY <1>1, <2>1, <2>2, FlushKeepsRun, SMTT(60)
<1>3. RunsOf(Flushed(f, h, d, at), d) = RunsOf(f, d)
  BY <1>2, SameRuns
<1>4. DirectoryOf(Flushed(f, h, d, at)) = d
  BY <1>1, FlushedFile
<1> QED
  BY <1>1, <1>3, <1>4

----------------------------------------------------------------------------
(* What the steps of RunList need besides StoreInv. *)

ThrownInv == thrown => open /\ scan = Null

FreshInv == use = "fresh" => Len(file) = 2

(* As long as it is the last one, the open run may grow. *)
LastInv ==
    in_run_ /\ current_run_ + 1 = Len(directory_) => AtEnd(directory_[current_run_ + 1])

(* The keys lo + 1 .. hi of what has been appended are in ascending order. *)
Sorted(lo, hi) == \A k \in lo + 1 .. hi - 1 : file[2 + k] <= file[3 + k]

(* at[r] keys are in the first r runs of d. *)
CutsAt(d, at) ==
    /\ at \in [0 .. Len(d) -> Nat] /\ at[0] = 0
    /\ \A r \in 1 .. Len(d) :
          /\ at[r - 1] < at[r]
          /\ d[r].offset = HEADER + at[r - 1] * WORD
          /\ d[r].bytes = (at[r] - at[r - 1]) * WORD
          /\ Sorted(at[r - 1], at[r])
          /\ r < Len(d) => file[2 + at[r]] > file[3 + at[r]]

(* `before` keys are in the runs that create_entries has made; the current one goes on. *)
InCut(n, before) ==
    /\ scan.start = HEADER + before * WORD
    /\ Sorted(before, before + scan.count)
    /\ n > 0 => file[2 + before] > file[3 + before]
    /\ scan.count = 0 => n = 0

CutInv ==
    scan # Null =>
        \E at : CutsAt(directory_, at) /\ InCut(Len(directory_), at[Len(directory_)])

ListInv == ThrownInv /\ FreshInv /\ LastInv /\ CutInv

LEMMA WhileScanning ==
    ASSUME Inv, InFileInv, CutInv, scan # Null
    PROVE  \E n, c, len \in Nat : \E at \in [0 .. n -> Nat] :
               /\ n = Len(directory_) /\ c = scan.count /\ len = Len(file)
               /\ CutsAt(directory_, at) /\ InCut(n, at[n])
               /\ scan.start = HEADER + at[n] * WORD
               /\ scan.offset = HEADER + (at[n] + c) * WORD
               /\ at[n] + c + 2 <= len
<1>1. PICK at : CutsAt(directory_, at) /\ InCut(Len(directory_), at[Len(directory_)])
  BY DEF CutInv
<1>2. PICK n \in Nat, c \in Nat, len \in Nat :
         n = Len(directory_) /\ c = scan.count /\ len = Len(file)
  BY DEF Inv, ObjectInv, FileInv
<1>3. at \in [0 .. n -> Nat]
  BY <1>1, <1>2 DEF CutsAt
<1>4. PICK a \in Nat : a = at[n]
  BY <1>3
<1>5. /\ scan.start = HEADER + a * WORD
      /\ scan.start + scan.count * WORD = scan.offset
      /\ scan.offset \div WORD <= len
  BY <1>1, <1>2, <1>4 DEF InCut, Inv, ScanInv, InFileInv
<1>6. scan.offset = HEADER + (a + c) * WORD /\ a + c + 2 <= len
  <2>1. PICK p \in Nat : p = scan.offset
    BY DEF Inv, ObjectInv
  <2>2. p = (HEADER + a * WORD) + c * WORD /\ p \div WORD <= len
    BY <1>2, <1>5, <2>1
  <2>3. p = HEADER + (a + c) * WORD /\ a + c + 2 <= len
    BY <2>2 DEF HEADER, WORD
  <2> QED
    BY <2>1, <2>3
<1> QED
  BY <1>1, <1>2, <1>3, <1>4, <1>5, <1>6

(* The current run is done: one more entry. *)
LEMMA RunCut ==
    ASSUME Inv, InFileInv, CutInv, scan # Null, scan.count > 0
    PROVE  \E n \in Nat : \E at \in [0 .. n -> Nat] :
               /\ n = Len(EndOfRun) /\ n > 0 /\ CutsAt(EndOfRun, at)
               /\ scan.offset = HEADER + at[n] * WORD
               /\ at[n] + 2 <= Len(file)
<1>1. PICK n \in Nat, c \in Nat, len \in Nat : \E at \in [0 .. n -> Nat] :
               /\ n = Len(directory_) /\ c = scan.count /\ len = Len(file)
               /\ CutsAt(directory_, at) /\ InCut(n, at[n])
               /\ scan.start = HEADER + at[n] * WORD
               /\ scan.offset = HEADER + (at[n] + c) * WORD
               /\ at[n] + c + 2 <= len
  BY WhileScanning
<1>2. PICK at \in [0 .. n -> Nat] :
               /\ n = Len(directory_) /\ c = scan.count /\ len = Len(file)
               /\ CutsAt(directory_, at) /\ InCut(n, at[n])
               /\ scan.start = HEADER + at[n] * WORD
               /\ scan.offset = HEADER + (at[n] + c) * WORD
               /\ at[n] + c + 2 <= len
  BY <1>1
<1>3. PICK a \in Nat : a = at[n]
  OBVIOUS
<1>4. PICK to : to = [r \in 0 .. n + 1 |-> IF r = n + 1 THEN a + c ELSE at[r]]
  OBVIOUS
<1>5. /\ to \in [0 .. n + 1 -> Nat] /\ to[n + 1] = a + c
      /\ \A r \in 0 .. n : to[r] = at[r]
  BY <1>4
<1>6. PICK d : d = directory_
  OBVIOUS
<1>7. d \in Seq(Entries) /\ Len(d) = n
  BY <1>2, <1>6 DEF Inv, ObjectInv
<1>8. PICK e : e = Append(d, Entry(scan.start, c))
  OBVIOUS
<1>9. EndOfRun = e
  BY <1>2, <1>6, <1>8 DEF EndOfRun
<1>10. Entry(scan.start, c) \in Entries /\ Entry(scan.start, c).offset = scan.start
       /\ Entry(scan.start, c).bytes = c * WORD
  <2>1. scan.start \in Nat
    BY DEF Inv, ObjectInv
  <2> QED
    BY <2>1, EntryType
<1>11. /\ Len(e) = n + 1 /\ \A r \in 1 .. n : e[r] = d[r]
       /\ e[n + 1].offset = scan.start /\ e[n + 1].bytes = c * WORD
  <2>1. e \in Seq(Entries) /\ Len(e) = n + 1 /\ \A r \in 1 .. n : e[r] = d[r]
    BY <1>7, <1>8, <1>10
  <2>2. e[n + 1] = Entry(scan.start, c)
    BY <1>7, <1>8, <1>10
  <2> QED
    BY <2>1, <2>2, <1>10
<1>12. ASSUME NEW r \in 1 .. n + 1
       PROVE  /\ to[r - 1] < to[r]
              /\ e[r].offset = HEADER + to[r - 1] * WORD
              /\ e[r].bytes = (to[r] - to[r - 1]) * WORD
              /\ Sorted(to[r - 1], to[r])
              /\ r < n + 1 => file[2 + to[r]] > file[3 + to[r]]
  <2>1. CASE r = n + 1
    <3>1. to[r - 1] = a /\ to[r] = a + c
      BY <1>3, <1>5, <2>1
    <3>2. Sorted(a, a + c)
      BY <1>2, <1>3 DEF InCut
    <3>3. c > 0 /\ (a + c) - a = c
      BY <1>2
    <3> QED
      BY <1>2, <1>3, <1>11, <2>1, <3>1, <3>2, <3>3
  <2>2. CASE r # n + 1
    <3>1. r \in 1 .. n /\ r - 1 \in 0 .. n /\ r \in 0 .. n
      BY <2>2
    <3>2. to[r - 1] = at[r - 1] /\ to[r] = at[r] /\ e[r] = d[r]
      BY <1>5, <1>11, <3>1
    <3>3. /\ at[r - 1] < at[r]
          /\ d[r].offset = HEADER + at[r - 1] * WORD
          /\ d[r].bytes = (at[r] - at[r - 1]) * WORD
          /\ Sorted(at[r - 1], at[r])
          /\ r < n => file[2 + at[r]] > file[3 + at[r]]
      BY <1>2, <1>6, <3>1 DEF CutsAt
    <3>4. r = n => file[2 + at[r]] > file[3 + at[r]]
      BY <1>2, <3>1 DEF InCut
    <3>5. r < n \/ r = n
      BY <3>1
    <3> QED
      BY <3>2, <3>3, <3>4, <3>5
  <2> QED
    BY <2>1, <2>2
<1>13. CutsAt(e, to)
  <2>1. to[0] = 0
    BY <1>2, <1>5 DEF CutsAt
  <2> QED
    BY <1>5, <1>11, <1>12, <2>1 DEF CutsAt
<1>14. PICK m \in Nat : m = n + 1
  OBVIOUS
<1>15. to \in [0 .. m -> Nat] /\ m = Len(e) /\ m > 0 /\ to[m] = a + c
  BY <1>5, <1>11, <1>14
<1>16. scan.offset = HEADER + to[m] * WORD /\ to[m] + 2 <= Len(file)
  BY <1>2, <1>3, <1>15
<1> QED
  BY <1>9, <1>13, <1>15, <1>16

LEMMA BeginScanCut ==
    ASSUME Inv, BeginScan
    PROVE  CutInv'
<1>1. directory_' = <<>> /\ scan' = [offset |-> HEADER, start |-> HEADER, count |-> 0]
  BY DEF BeginScan
<1>2. PICK at : at = [r \in 0 .. 0 |-> 0]
  OBVIOUS
<1>3. at \in [0 .. Len(<<>>) -> Nat] /\ at[0] = 0
  BY <1>2
<1>4. CutsAt(<<>>, at)'
  BY <1>3 DEF CutsAt
<1>5. InCut(0, 0)'
  BY <1>1 DEF InCut, Sorted, HEADER, WORD
<1> QED
  BY <1>1, <1>3, <1>4, <1>5 DEF CutInv

(* A key more: it goes on with the current run, or starts the next one. *)
LEMMA ScanKeyCut ==
    ASSUME Inv, InFileInv, CutInv, ScanKey
    PROVE  CutInv'
<1>1. /\ scan # Null /\ file' = file /\ scan \in [offset : Nat, start : Nat, count : Nat]
      /\ \/ /\ NewRunStarts
            /\ directory_' = EndOfRun
            /\ scan' = [offset |-> scan.offset + WORD, start |-> scan.offset, count |-> 1]
         \/ /\ ~NewRunStarts
            /\ scan' = [offset |-> scan.offset + WORD, start |-> scan.start,
                        count |-> scan.count + 1]
            /\ directory_' = directory_
  BY DEF ScanKey, Inv, ObjectInv
<1>2. ASSUME NEW p \in Nat
      PROVE  /\ (HEADER + p * WORD) \div WORD = p + 2
             /\ ((HEADER + p * WORD) - WORD) \div WORD = p + 1
  BY DEF HEADER, WORD
<1>3. ASSUME NEW p \in Nat, scan.offset = HEADER + p * WORD
      PROVE  WordAt(scan.offset) = file[3 + p] /\ WordAt(scan.offset - WORD) = file[2 + p]
  <2>1. scan.offset \div WORD + 1 = 3 + p /\ (scan.offset - WORD) \div WORD + 1 = 2 + p
    BY <1>2, <1>3
  <2> QED
    BY <2>1 DEF WordAt
<1>4. CASE scan.count = 0
  <2>1. PICK at : CutsAt(directory_, at) /\ InCut(Len(directory_), at[Len(directory_)])
    BY <1>1 DEF CutInv
  <2>2. /\ NewRunStarts /\ directory_' = directory_ /\ Len(directory_) = 0
        /\ scan'.start = scan.offset /\ scan'.count = 1
    BY <1>1, <1>4, <2>1 DEF NewRunStarts, EndOfRun, InCut
  <2>3. at[0] = 0 /\ scan.start = HEADER + 0 * WORD /\ scan.offset = scan.start
    BY <1>1, <1>4, <2>1, <2>2 DEF InCut, CutsAt, Inv, ScanInv, HEADER, WORD
  <2>4. CutsAt(directory_, at)'
    BY <1>1, <2>1, <2>2 DEF CutsAt, Sorted
  <2>5. InCut(0, 0)'
    BY <2>2, <2>3 DEF InCut, Sorted
  <2> QED
    BY <2>2, <2>3, <2>4, <2>5 DEF CutInv
<1>5. CASE scan.count > 0 /\ NewRunStarts
  <2>1. PICK n \in Nat : \E at \in [0 .. n -> Nat] :
               /\ n = Len(EndOfRun) /\ n > 0 /\ CutsAt(EndOfRun, at)
               /\ scan.offset = HEADER + at[n] * WORD
               /\ at[n] + 2 <= Len(file)
    BY <1>1, <1>5, RunCut
  <2>2. PICK at \in [0 .. n -> Nat] :
               /\ n = Len(EndOfRun) /\ n > 0 /\ CutsAt(EndOfRun, at)
               /\ scan.offset = HEADER + at[n] * WORD
    BY <2>1
  <2>3. PICK a \in Nat : a = at[n]
    OBVIOUS
  <2>4. directory_' = EndOfRun /\ scan'.start = scan.offset /\ scan'.count = 1
    BY <1>1, <1>5
  <2>5. file[2 + a] > file[3 + a]
    <3>1. WordAt(scan.offset) < WordAt(scan.offset - WORD)
      BY <1>5 DEF NewRunStarts
    <3>2. WordAt(scan.offset) = file[3 + a] /\ WordAt(scan.offset - WORD) = file[2 + a]
      BY <1>3, <2>2, <2>3
    <3> QED
      BY <3>1, <3>2
  <2>6. CutsAt(directory_, at)'
    BY <1>1, <2>2, <2>4 DEF CutsAt, Sorted
  <2>7. InCut(n, a)'
    BY <1>1, <2>2, <2>3, <2>4, <2>5, SMTT(60) DEF InCut, Sorted
  <2> QED
    BY <2>2, <2>3, <2>4, <2>6, <2>7 DEF CutInv
<1>6. CASE scan.count > 0 /\ ~NewRunStarts
  <2>1. PICK n \in Nat, c \in Nat, len \in Nat : \E at \in [0 .. n -> Nat] :
               /\ n = Len(directory_) /\ c = scan.count /\ len = Len(file)
               /\ CutsAt(directory_, at) /\ InCut(n, at[n])
               /\ scan.start = HEADER + at[n] * WORD
               /\ scan.offset = HEADER + (at[n] + c) * WORD
               /\ at[n] + c + 2 <= len
    BY <1>1, WhileScanning
  <2>2. PICK at \in [0 .. n -> Nat] :
               /\ n = Len(directory_) /\ c = scan.count /\ len = Len(file)
               /\ CutsAt(directory_, at) /\ InCut(n, at[n])
               /\ scan.start = HEADER + at[n] * WORD
               /\ scan.offset = HEADER + (at[n] + c) * WORD
               /\ at[n] + c + 2 <= len
    BY <2>1
  <2>3. PICK a \in Nat : a = at[n]
    OBVIOUS
  <2>4. directory_' = directory_ /\ scan'.start = scan.start /\ scan'.count = c + 1
    BY <1>1, <1>6, <2>2
  <2>41. scan.offset < Len(file) * WORD
    BY DEF ScanKey
  <2>5. file[2 + (a + c)] <= file[3 + (a + c)]
    <3>1. ~(WordAt(scan.offset) < WordAt(scan.offset - WORD))
      BY <1>6 DEF NewRunStarts
    <3>2. PICK p \in Nat : p = a + c
      OBVIOUS
    <3>3. WordAt(scan.offset) = file[3 + p] /\ WordAt(scan.offset - WORD) = file[2 + p]
      BY <1>3, <2>2, <2>3, <3>2
    <3>4. p + 2 < len
      <4>1. scan.offset = HEADER + p * WORD /\ scan.offset < len * WORD
        BY <2>2, <2>3, <2>41, <3>2
      <4>2. HEADER + p * WORD < len * WORD
        BY <4>1
      <4> QED
        BY <4>2 DEF HEADER, WORD
    <3>5. file \in Seq(Int)
      BY DEF Inv, FileInv
    <3>6. file[3 + p] \in Int /\ file[2 + p] \in Int
      BY <2>2, <3>4, <3>5
    <3> QED
      BY <3>1, <3>2, <3>3, <3>6
  <2>6. Sorted(a, a + (c + 1))
    <3>1. ASSUME NEW k \in a + 1 .. (a + (c + 1)) - 1 PROVE file[2 + k] <= file[3 + k]
      <4>1. k \in a + 1 .. (a + c) - 1 \/ k = a + c
        BY <3>1
      <4>2. Sorted(a, a + c)
        BY <2>2, <2>3 DEF InCut
      <4> QED
        BY <2>5, <4>1, <4>2 DEF Sorted
    <3> QED
      BY <3>1 DEF Sorted
  <2>7. CutsAt(directory_, at)'
    BY <1>1, <2>2, <2>4 DEF CutsAt, Sorted
  <2>8. InCut(n, a)'
    <3>1. n > 0 => file[2 + a] > file[3 + a]
      BY <2>2, <2>3 DEF InCut
    <3>2. c + 1 # 0 /\ scan'.start = HEADER + a * WORD
      BY <2>2, <2>3, <2>4
    <3> QED
      BY <1>1, <2>4, <2>6, <3>1, <3>2 DEF InCut, Sorted
  <2> QED
    BY <2>2, <2>3, <2>4, <2>7, <2>8 DEF CutInv
<1> QED
  BY <1>1, <1>4, <1>5, <1>6

LEMMA CutStep ==
    ASSUME Inv, InFileInv, CutInv, Next
    PROVE  CutInv'
<1>1. CASE BeginScan
  BY <1>1, BeginScanCut
<1>2. CASE ScanKey
  BY <1>2, ScanKeyCut
<1>3. CASE ~BeginScan /\ ~ScanKey
  <2>1. scan' = Null
    BY <1>3 DEF Next, RunStoreCall, CreateEntries, AddRun, BeginRun, AppendToRun, EndRun,
                AppendDirect, FlushDirectory, FinishScan, Close, Reopen, Ready, Inv, UseInv
  <2> QED
    BY <2>1 DEF CutInv
<1> QED
  BY <1>1, <1>2, <1>3

LEMMA ThrownStep ==
    ASSUME Inv, ThrownInv, Next
    PROVE  ThrownInv'
<1>1. CASE \E keys \in Payloads : AppendToRun(keys)
  BY <1>1 DEF AppendToRun, Ready, ThrownInv
<1>2. CASE ~\E keys \in Payloads : AppendToRun(keys)
  BY <1>2 DEF Next, RunStoreCall, CreateEntries, AddRun, BeginRun, EndRun, AppendDirect,
              FlushDirectory, BeginScan, ScanKey, FinishScan, Close, Reopen, Ready, ThrownInv
<1> QED
  BY <1>1, <1>2

LEMMA FreshStep ==
    ASSUME Inv, FreshInv, Next
    PROVE  FreshInv'
<1>1. CASE use' = "fresh"
  <2>1. use = "fresh" /\ (~open \/ directory_ = <<>>)
    BY <1>1 DEF Next, RunStoreCall, CreateEntries, AddRun, BeginRun, AppendToRun, EndRun,
                AppendDirect, FlushDirectory, BeginScan, ScanKey, FinishScan, Close, Reopen,
                UseForRuns, Inv, UseInv
  <2>2. file' = file
    BY <1>1, <2>1 DEF Next, RunStoreCall, CreateEntries, AddRun, BeginRun, AppendToRun, EndRun,
                AppendDirect, FlushDirectory, BeginScan, ScanKey, FinishScan, Close, Reopen,
                Ready, UseForRuns, Inv, UseInv
  <2> QED
    BY <2>1, <2>2 DEF FreshInv
<1> QED
  BY <1>1 DEF FreshInv

LEMMA LastStep ==
    ASSUME Inv, Inv', LastInv, Next
    PROVE  LastInv'
<1>0. /\ directory_ \in Seq(Entries) /\ Len(directory_) \in Nat
      /\ current_run_ \in Nat /\ write_offset_ \in Nat
  BY DEF Inv, ObjectInv
<1>1. ASSUME NEW keys \in Payloads, AddRun(keys) PROVE LastInv'
  <2>1. open /\ scan = Null /\ in_run_' = in_run_ /\ current_run_' = current_run_
    BY <1>1 DEF AddRun, Ready
  <2>2. Len(directory_') = Len(directory_) + 1
    BY <1>0, <1>1 DEF AddRun, AppendRun
  <2>3. in_run_ => current_run_ + 1 <= Len(directory_)
    BY DEF Inv, RunInv
  <2> QED
    BY <1>0, <2>1, <2>2, <2>3 DEF LastInv
<1>2. CASE BeginRun
  <2>1. PICK n \in Nat : n = Len(directory_)
    BY <1>0
  <2>2. /\ AppendRun(<<>>) /\ open /\ scan = Null
        /\ current_run_' = header_'.run_count - 1
    BY <1>2 DEF BeginRun, Ready
  <2>3. /\ header_'.run_count = Len(directory_') /\ Len(directory_') = n + 1
        /\ directory_'[n + 1] = Entry(write_offset_, 0)
        /\ write_offset_' = write_offset_ + AlignUp(0 * WORD)
    <3>1. <<>> \in Seq(Int) /\ Len(<<>>) = 0
      BY EmptySeq
    <3> QED
      BY <2>1, <2>2, <3>1, AppendRunStep
  <2>4. current_run_' + 1 = n + 1
    BY <2>1, <2>2, <2>3
  <2>5. Entry(write_offset_, 0).offset = write_offset_ /\ Entry(write_offset_, 0).bytes = 0 * WORD
    BY <1>0, EntryType
  <2>6. directory_'[n + 1].offset + AlignUp(directory_'[n + 1].bytes) = write_offset_'
    BY <2>3, <2>5
  <2>7. AtEnd(directory_[n + 1])'
    BY <2>6 DEF AtEnd
  <2> QED
    BY <2>4, <2>7 DEF LastInv
<1>3. ASSUME NEW keys \in Payloads, AppendToRun(keys) PROVE LastInv'
  <2>0. PICK c \in Nat : c = current_run_ + 1
    BY <1>0
  <2>1. PICK e : c = current_run_ + 1 /\ e = directory_[c]
    BY <2>0
  <2>2. /\ in_run_ /\ in_run_' = in_run_ /\ current_run_' = current_run_ /\ open /\ scan = Null
    BY <1>3 DEF AppendToRun, Ready
  <2>3. c \in 1 .. Len(directory_) /\ e \in Entries
    BY <1>0, <2>1, <2>2 DEF Inv, RunInv
  <2>4. PICK total \in Nat, o \in Nat, b \in Nat :
           o = e.offset /\ b = e.bytes /\ total = b + Len(keys) * WORD /\ b <= total
    BY <2>3, FileAssumption DEF Entries, WORD
  <2>40. total = b + Len(keys) * WORD /\ b <= total
    BY <2>4
  <2>5. PICK old \in Nat, new \in Nat :
           old = AlignUp(b) /\ new = AlignUp(total) /\ old <= new
    BY <2>40, AlignUpBounds, AlignUpKeepsOrder
  <2>6. CASE ~(AtEnd(e) \/ ~(new > old))
    <3>1. directory_' = directory_ /\ write_offset_' = write_offset_
      BY <1>3, <2>1, <2>4, <2>5, <2>6 DEF AppendToRun
    <3> QED
      BY <2>2, <3>1 DEF LastInv, AtEnd
  <2>7. CASE (AtEnd(e) \/ ~(new > old)) /\ c = Len(directory_)
    <3>1. AtEnd(e) /\ o + old = write_offset_
      BY <2>1, <2>2, <2>4, <2>5, <2>7 DEF LastInv, AtEnd
    <3>2. /\ write_offset_' = IF new > old THEN write_offset_ + (new - old) ELSE write_offset_
          /\ directory_' = [directory_ EXCEPT ![c] = Longer(e, Len(keys))]
      BY <1>3, <2>1, <2>4, <2>5, <2>7, <3>1 DEF AppendToRun
    <3>3. directory_'[c] = Longer(e, Len(keys))
      BY <1>0, <2>3, <3>2
    <3>4. Longer(e, Len(keys)).offset = o /\ Longer(e, Len(keys)).bytes = total
      BY <2>3, <2>4 DEF Longer, Entries
    <3>5. write_offset_' = o + new
      <4>1. write_offset_' = IF new > old THEN write_offset_ + (new - old) ELSE write_offset_
        BY <3>2
      <4>2. o + old = write_offset_ /\ old <= new
        BY <2>5, <3>1
      <4> QED
        BY <4>1, <4>2
    <3>6. AtEnd(directory_[c])'
      BY <2>5, <3>3, <3>4, <3>5 DEF AtEnd
    <3> QED
      BY <2>1, <2>2, <3>6 DEF LastInv
  <2>8. CASE (AtEnd(e) \/ ~(new > old)) /\ c # Len(directory_)
    <3>1. directory_' = [directory_ EXCEPT ![c] = Longer(e, Len(keys))]
      BY <1>3, <2>1, <2>4, <2>5, <2>8 DEF AppendToRun
    <3>2. Len(directory_') = Len(directory_)
      BY <1>0, <3>1
    <3> QED
      BY <2>1, <2>2, <2>8, <3>2 DEF LastInv
  <2> QED
    BY <2>6, <2>7, <2>8
<1>5. CASE FlushDirectory
  BY <1>5 DEF FlushDirectory, LastInv, AtEnd
<1>6. CASE \E keys \in Payloads : AppendDirect(keys)
  BY <1>6 DEF AppendDirect, objectVars, LastInv, AtEnd
<1>7. CASE EndRun \/ Close \/ Reopen \/ BeginScan \/ ScanKey \/ FinishScan
  <2>1. ~in_run_'
    BY <1>7 DEF EndRun, Close, Reopen, BeginScan, ScanKey, FinishScan, Inv, UseInv
  <2> QED
    BY <2>1 DEF LastInv
<1> QED
  BY <1>1, <1>2, <1>3, <1>5, <1>6, <1>7 DEF Next, RunStoreCall, CreateEntries

LEMMA ListStep ==
    ASSUME Inv, Inv', InFileInv, ListInv, Next
    PROVE  ListInv'
<1>1. ThrownInv /\ FreshInv /\ LastInv /\ CutInv
  BY DEF ListInv
<1>2. ThrownInv'
  BY <1>1, ThrownStep
<1>3. FreshInv'
  BY <1>1, FreshStep
<1>4. LastInv'
  BY <1>1, LastStep
<1>5. CutInv'
  BY <1>1, CutStep
<1> QED
  BY <1>2, <1>3, <1>4, <1>5 DEF ListInv

----------------------------------------------------------------------------
(* Each call is a step of RunList, or none. *)

LEMMA Listed ==
    /\ scan # Null => ListedRuns = <<>>
    /\ scan = Null /\ open => ListedRuns = RunsOf(file, directory_)
    /\ scan = Null /\ ~open => ListedRuns = RunsOf(file, DirectoryOf(file))
BY DEF ListedRuns, CurrentDirectory, RunsOf

LEMMA ListedLater ==
    /\ scan' # Null => ListedRuns' = <<>>
    /\ scan' = Null /\ open' => ListedRuns' = RunsOf(file', directory_')
    /\ scan' = Null /\ ~open' => ListedRuns' = RunsOf(file', DirectoryOf(file'))
BY DEF ListedRuns, CurrentDirectory, RunsOf

LEMMA NoRuns ==
    ASSUME NEW f
    PROVE  /\ RunsOf(f, <<>>) = <<>>
           /\ f[1] = 0 => RunsOf(f, DirectoryOf(f)) = <<>>
<1>1. Len(<<>>) = 0
  BY EmptySeq
<1>2. RunsOf(f, <<>>) = <<>>
  BY <1>1 DEF RunsOf
<1>3. f[1] = 0 => DirectoryOf(f) = <<>>
  BY DEF DirectoryOf
<1> QED
  BY <1>2, <1>3

LEMMA AddRunAdds ==
    ASSUME Inv, InFileInv, NEW keys \in Payloads, AddRun(keys)
    PROVE  List!Add(keys)
<1>1. /\ open /\ scan = Null /\ open' = open /\ scan' = scan /\ use # "raw" /\ use' = "runs"
      /\ AppendRun(keys) /\ in_run_' = in_run_ /\ current_run_' = current_run_
  BY DEF AddRun, Ready, UseForRuns
<1>2. ListedRuns' = Append(ListedRuns, keys)
  BY <1>1, Listed, ListedLater, FileAssumption, RunAppended
<1> QED
  BY <1>1, <1>2 DEF List!Add, AppendedRaw, GrowingRun

LEMMA BeginRunBegins ==
    ASSUME Inv, InFileInv, BeginRun
    PROVE  List!Begin
<1>1. /\ open /\ scan = Null /\ open' = open /\ scan' = scan /\ use # "raw" /\ use' = "runs"
      /\ AppendRun(<<>>) /\ in_run_' = TRUE /\ current_run_' = header_'.run_count - 1
  BY DEF BeginRun, Ready, UseForRuns
<1>2. <<>> \in Seq(Int)
  OBVIOUS
<1>3. ListedRuns' = Append(ListedRuns, <<>>)
  BY <1>1, <1>2, Listed, ListedLater, RunAppended
<1>4. directory_' \in Seq(Entries) /\ header_'.run_count = Len(directory_')
  BY <1>1, <1>2, AppendRunStep
<1>40. PICK n \in Nat : n = Len(directory_')
  BY <1>4
<1>5. Len(ListedRuns') = n
  BY <1>1, <1>4, <1>40, ListedLater, RunsOfIs
<1>6. header_'.run_count = n
  BY <1>4, <1>40
<1>7. GrowingRun' = Len(ListedRuns')
  <2>1. GrowingRun' = current_run_' + 1
    BY <1>1 DEF GrowingRun
  <2> QED
    BY <1>1, <1>5, <1>6, <2>1
<1> QED
  BY <1>1, <1>3, <1>7 DEF List!Begin, AppendedRaw

LEMMA AppendToRunGrows ==
    ASSUME Inv, InFileInv, NEW keys \in Payloads, AppendToRun(keys), ~thrown'
    PROVE  List!Grow(keys)
<1>1. /\ open /\ scan = Null /\ in_run_ /\ open' = open /\ scan' = scan
      /\ in_run_' = in_run_ /\ current_run_' = current_run_ /\ use = "runs" /\ use' = use
  BY DEF AppendToRun, Ready, Inv, UseInv
<1>2. GrowingRun = current_run_ + 1 /\ GrowingRun # 0 /\ GrowingRun' = GrowingRun
  BY <1>1, WhenOpen DEF GrowingRun
<1>3. ListedRuns' = [ListedRuns EXCEPT ![current_run_ + 1] = @ \o keys]
  BY <1>1, Listed, ListedLater, RunGrown
<1> QED
  BY <1>1, <1>2, <1>3 DEF List!Grow, AppendedRaw

LEMMA AppendToRunFails ==
    ASSUME Inv, InFileInv, LastInv, NEW keys \in Payloads, AppendToRun(keys), thrown'
    PROVE  List!Fail
<1>1. /\ open /\ scan = Null /\ in_run_ /\ open' = open /\ scan' = scan
      /\ in_run_' = in_run_ /\ current_run_' = current_run_ /\ use = "runs" /\ use' = use
      /\ ~thrown
  BY DEF AppendToRun, Ready, Inv, UseInv
<1>2. PICK c, o, b : c = current_run_ + 1 /\ o = directory_[c].offset /\ b = directory_[c].bytes
  OBVIOUS
<1>3. ~AtEnd(directory_[c]) /\ directory_' = directory_
  BY <1>1, <1>2 DEF AppendToRun
<1>4. /\ c \in 1 .. Len(directory_) /\ o \in Nat /\ b \in Nat
      /\ \E pad \in Seq(Int) : file' = Write(file, o + b, keys \o pad)
  BY <1>2, AppendToRunIs
<1>5. c # Len(directory_)
  BY <1>1, <1>2, <1>3 DEF LastInv
<1>6. GrowingRun = c /\ GrowingRun # 0 /\ GrowingRun' = GrowingRun
  BY <1>1, <1>2, WhenOpen DEF GrowingRun
<1>7. /\ directory_ \in Seq(Entries) /\ file \in Seq(Int) /\ Len(directory_) \in Nat
      /\ b = 0 \/ (o + b) \div WORD <= Len(file)
  BY <1>1, <1>2, <1>4, WhenOpen
<1>8. /\ ListedRuns = RunsOf(file, directory_) /\ ListedRuns' = RunsOf(file', directory_)
      /\ Len(ListedRuns) = Len(directory_) /\ Len(ListedRuns') = Len(directory_)
      /\ \A r \in 1 .. Len(directory_) :
            /\ ListedRuns[r] = Read(file, directory_[r].offset, directory_[r].bytes)
            /\ ListedRuns'[r] = Read(file', directory_[r].offset, directory_[r].bytes)
  BY <1>1, <1>3, <1>7, Listed, ListedLater, RunsOfIs
<1>9. Read(file', o, b) = Read(file, o, b)
  <2>1. PICK pad \in Seq(Int) : file' = Write(file, o + b, keys \o pad)
    BY <1>4
  <2>2. PICK f \in Seq(Int), p \in Nat, q \in Nat, words \in Seq(Int) :
           /\ f = file /\ p = o /\ q = b /\ words = keys \o pad
    BY <1>4, <1>7, FileAssumption, ConcatProperties
  <2>3. (q = 0 \/ (p + q) \div WORD <= Len(f)) /\ p + q \in Nat
    BY <1>7, <2>2
  <2>4. Read(Write(f, p + q, words), p, q) = Read(f, p, q)
    BY <2>3, WrittenBehind
  <2> QED
    BY <2>1, <2>2, <2>4
<1>10. ASSUME NEW r \in 1 .. c
       PROVE  ListedRuns'[r] = ListedRuns[r]
  <2>1. r \in 1 .. Len(directory_)
    BY <1>4, <1>7
  <2>2. CASE r = c
    BY <1>2, <1>8, <1>9, <2>1, <2>2
  <2>3. CASE r # c
    <3>1. r <= current_run_ /\ r # current_run_ + 1
      BY <1>1, <1>2, <2>3, WhenOpen
    <3> QED
      BY <1>8, <2>1, <3>1, OtherRunsKept
  <2> QED
    BY <2>2, <2>3
<1>11. c < Len(ListedRuns) /\ Len(ListedRuns') = Len(ListedRuns)
  BY <1>4, <1>5, <1>7, <1>8
<1>12. AppendedRaw' = AppendedRaw
  BY <1>1 DEF AppendedRaw
<1> QED
  BY <1>6, <1>10, <1>11, <1>12 DEF List!Fail

LEMMA EndRunStops ==
    ASSUME Inv, EndRun
    PROVE  List!Stop
BY DEF EndRun, List!Stop, AppendedRaw, ListedRuns, CurrentDirectory, MapRun, GrowingRun

(* A file that append has grown: its runs are not listed. *)
LEMMA RawListsNothing ==
    ASSUME Inv, use # "runs"
    PROVE  ListedRuns = <<>>
<1>1. /\ open /\ scan = Null => directory_ = <<>>
      /\ ~open => file[1] = 0 /\ scan = Null
  BY DEF Inv, UseInv
<1> QED
  BY <1>1, Listed, NoRuns

LEMMA AppendDirectAppends ==
    ASSUME Inv, InFileInv, FreshInv, NEW keys \in Payloads, AppendDirect(keys)
    PROVE  List!AppendRaw(keys)
<1>1. /\ open /\ scan = Null /\ open' = open /\ scan' = scan /\ use # "runs"
      /\ use \in {"fresh", "raw"} /\ use' = "raw" /\ directory_' = directory_
      /\ in_run_' = in_run_ /\ current_run_' = current_run_
      /\ file' = Write(file, Len(file) * WORD, keys)
  BY DEF AppendDirect, Ready, objectVars
<1>2. ListedRuns = <<>> /\ directory_ = <<>>
  BY <1>1, RawListsNothing DEF Inv, UseInv
<1>3. ListedRuns' = <<>>
  BY <1>1, <1>2, ListedLater, NoRuns
<1>4. keys \in Seq(Int) /\ keys # <<>>
  BY FileAssumption
<1>5. PICK f \in Seq(Int), len \in Nat, k \in Nat :
         f = file /\ len = Len(file) /\ len >= 2 /\ k = Len(keys)
  BY <1>4 DEF Inv, FileInv
<1>50. f = file /\ len = Len(file) /\ len >= 2 /\ k = Len(keys)
  BY <1>5
<1>6. PICK b \in Nat : b = (len - 2) * WORD
  BY <1>50 DEF WORD
<1>7. /\ HEADER + b = len * WORD /\ (HEADER + b) \div WORD = len
      /\ (HEADER + (b + k * WORD)) \div WORD = len + k
      /\ HEADER \div WORD = 2 /\ HEADER \in Nat
  <2>1. b = (len - 2) * WORD /\ len >= 2
    BY <1>50, <1>6
  <2>2. b + 16 = len * 8
    BY <2>1 DEF WORD
  <2> QED
    BY <2>2 DEF HEADER, WORD
<1>8. PICK g : g = Write(f, len * WORD, keys)
  OBVIOUS
<1>9. Read(g, HEADER, b + k * WORD) = Read(f, HEADER, b) \o keys
  <2>1. <<>> \in Seq(Int) /\ keys \o <<>> = keys
    BY <1>4, EmptySeq, ConcatEmptySeq
  <2>2. (HEADER + b) \div WORD <= Len(f) /\ HEADER <= HEADER
    BY <1>50, <1>7
  <2>3. ReadsOn(f, HEADER, b, keys, <<>>)
    BY <1>4, <1>7, <2>1, <2>2, WrittenOn
  <2> QED
    BY <1>50, <1>7, <1>8, <2>1, <2>3 DEF ReadsOn
<1>10. Len(g) = len + k
  <2>1. PICK from \in Nat : from = (len * WORD) \div WORD /\ from = len
    BY DEF WORD
  <2>2. len + k > len
    <3>1. k # 0
      BY <1>4, <1>50, EmptySeq
    <3> QED
      BY <3>1
  <2>3. g = [w \in 1 .. len + k |->
                IF w > from /\ w <= len + k THEN keys[w - from]
                ELSE IF w <= Len(f) THEN f[w] ELSE 0]
    BY <1>4, <1>50, <1>8, <2>1, <2>2 DEF Write
  <2>4. DOMAIN g = 1 .. len + k
    BY <2>3
  <2>5. g \in Seq(Int)
    <3>1. len * WORD \in Nat
      BY DEF WORD
    <3> QED
      BY <1>4, <1>8, <3>1, WriteWords
  <2> QED
    BY <2>4, <2>5
<1>11. /\ Read(g, HEADER, b + k * WORD) = SubSeq(g, HEADER \div WORD + 1, Len(g))
       /\ Read(f, HEADER, b) = SubSeq(f, HEADER \div WORD + 1, Len(f))
  BY <1>50, <1>7, <1>10 DEF Read
<1>12. AppendedRaw' = Read(g, HEADER, b + k * WORD)
  BY <1>1, <1>50, <1>8, <1>11 DEF AppendedRaw
<1>13. AppendedRaw = Read(f, HEADER, b)
  <2>1. CASE use = "raw"
    BY <1>50, <1>11, <2>1 DEF AppendedRaw
  <2>2. CASE use = "fresh"
    <3>1. len = 2
      BY <1>50, <2>2 DEF FreshInv
    <3>2. b = 0
      BY <1>6, <3>1 DEF WORD
    <3>3. Read(f, HEADER, b) = <<>>
      BY <1>7, <3>2, ReadType
    <3> QED
      BY <2>2, <3>3 DEF AppendedRaw
  <2> QED
    BY <1>1, <2>1, <2>2
<1>14. GrowingRun' = GrowingRun
  BY <1>1 DEF GrowingRun
<1> QED
  BY <1>2, <1>3, <1>9, <1>12, <1>13, <1>14 DEF List!AppendRaw

LEMMA FlushKeepsList ==
    ASSUME Inv, InFileInv, FlushDirectory
    PROVE  UNCHANGED List!listVars
<1>1. /\ open /\ scan = Null /\ open' = open /\ scan' = scan /\ directory_' = directory_
      /\ file' = Flushed(file, header_, directory_, write_offset_) /\ use = "runs" /\ use' = use
      /\ in_run_' = in_run_ /\ current_run_' = current_run_ /\ thrown' = thrown
  BY DEF FlushDirectory, Ready
<1>2. ListedRuns' = ListedRuns
  BY <1>1, Listed, ListedLater, RunsFlushed
<1> QED
  BY <1>1, <1>2 DEF List!listVars, AppendedRaw, GrowingRun

LEMMA BeginScanKeepsList ==
    ASSUME Inv, BeginScan
    PROVE  UNCHANGED List!listVars
<1>1. /\ use = "raw" /\ use' = use /\ file' = file /\ scan' # Null
      /\ in_run_' = in_run_ /\ current_run_' = current_run_ /\ thrown' = thrown
  <2>1. [offset |-> HEADER, start |-> HEADER, count |-> 0] \in [offset : Nat, start : Nat, count : Nat]
    BY DEF HEADER, WORD
  <2> QED
    BY <2>1, FileAssumption DEF BeginScan
<1>2. ListedRuns = <<>> /\ ListedRuns' = <<>>
  BY <1>1, RawListsNothing, ListedLater
<1> QED
  BY <1>1, <1>2 DEF List!listVars, AppendedRaw, GrowingRun

LEMMA ScanKeyKeepsList ==
    ASSUME Inv, Inv', ScanKey
    PROVE  UNCHANGED List!listVars
<1>1. /\ scan # Null /\ use' = use /\ file' = file
      /\ in_run_' = in_run_ /\ current_run_' = current_run_ /\ thrown' = thrown
  BY DEF ScanKey
<1>2. scan' # Null
  <2>1. scan \in [offset : Nat, start : Nat, count : Nat]
    BY <1>1 DEF Inv, ObjectInv
  <2>2. scan' \in [offset : Nat, start : Nat, count : Nat]
    <3>1. \/ scan' = [offset |-> scan.offset + WORD, start |-> scan.offset, count |-> 1]
          \/ scan' = [offset |-> scan.offset + WORD, start |-> scan.start,
                      count |-> scan.count + 1]
      BY DEF ScanKey
    <3> QED
      BY <2>1, <3>1 DEF WORD
  <2> QED
    BY <2>2, FileAssumption
<1>3. ListedRuns = <<>> /\ ListedRuns' = <<>>
  BY <1>1, <1>2, Listed, ListedLater
<1> QED
  BY <1>1, <1>3 DEF List!listVars, AppendedRaw, GrowingRun

LEMMA CloseStops ==
    ASSUME Inv, InFileInv, Close
    PROVE  List!Stop
<1>1. /\ open /\ scan = Null /\ ~open' /\ scan' = scan /\ use' = use /\ ~in_run_'
      /\ file' = IF directory_ = <<>> THEN file
                 ELSE Flushed(file, header_, directory_, write_offset_)
  BY DEF Close, Ready
<1>2. ListedRuns' = RunsOf(file', DirectoryOf(file')) /\ ListedRuns = RunsOf(file, directory_)
  BY <1>1, Listed, ListedLater
<1>3. CASE directory_ = <<>>
  <2>1. file[1] = 0 /\ file' = file
    BY <1>1, <1>3 DEF Inv, DataInv
  <2>2. ListedRuns' = <<>> /\ ListedRuns = <<>>
    BY <1>2, <1>3, <2>1, NoRuns
  <2>3. AppendedRaw' = AppendedRaw
    BY <1>1, <2>1 DEF AppendedRaw
  <2> QED
    BY <1>1, <2>2, <2>3 DEF List!Stop, GrowingRun
<1>4. CASE directory_ # <<>>
  <2>1. ListedRuns' = ListedRuns
    BY <1>1, <1>2, <1>4, RunsFlushed
  <2>2. use = "runs"
    BY <1>1, <1>4 DEF Inv, UseInv, ObjectInv
  <2>3. AppendedRaw' = AppendedRaw
    BY <1>1, <2>2 DEF AppendedRaw
  <2> QED
    BY <1>1, <2>1, <2>3 DEF List!Stop, GrowingRun
<1> QED
  BY <1>3, <1>4

LEMMA ReopenKeepsList ==
    ASSUME Inv, Reopen
    PROVE  UNCHANGED List!listVars
<1>1. /\ ~open /\ open' /\ scan' = scan /\ use' = use /\ file' = file /\ scan = Null
      /\ in_run_' = in_run_ /\ current_run_' = current_run_ /\ thrown' = thrown
      /\ directory_' = DirectoryOf(file)
  BY DEF Reopen, Inv, UseInv
<1>2. ListedRuns' = ListedRuns
  BY <1>1, Listed, ListedLater
<1> QED
  BY <1>1, <1>2 DEF List!listVars, AppendedRaw, GrowingRun

LEMMA RawKeys ==
    ASSUME NEW f \in Seq(Int), NEW len \in Nat, len = Len(f), len >= 2
    PROVE  /\ SubSeq(f, 3, len) \in Seq(Int) /\ Len(SubSeq(f, 3, len)) = len - 2
           /\ \A i \in 1 .. len - 2 : SubSeq(f, 3, len)[i] = f[2 + i]
<1>1. \A i \in 3 .. len : f[i] \in Int
  OBVIOUS
<1>2. /\ SubSeq(f, 3, len) \in Seq(Int)
      /\ Len(SubSeq(f, 3, len)) = IF 3 <= len THEN len - 3 + 1 ELSE 0
      /\ \A i \in 1 .. len - 3 + 1 : SubSeq(f, 3, len)[i] = f[3 + i - 1]
  BY <1>1, SubSeqProperties
<1>3. (IF 3 <= len THEN len - 3 + 1 ELSE 0) = len - 2 /\ len - 3 + 1 = len - 2
      /\ \A i \in 1 .. len - 2 : 3 + i - 1 = 2 + i
  OBVIOUS
<1> QED
  BY <1>2, <1>3

LEMMA IntSubSeq ==
    ASSUME NEW s, NEW lo \in Int, NEW hi \in Int, lo <= hi, \A i \in lo .. hi : s[i] \in Int
    PROVE  /\ SubSeq(s, lo, hi) \in Seq(Int) /\ Len(SubSeq(s, lo, hi)) = hi - lo + 1
           /\ \A i \in 1 .. hi - lo + 1 : SubSeq(s, lo, hi)[i] = s[lo + i - 1]
BY SubSeqProperties

(* A run of the cut, in the file and among the keys that were appended. *)
CutKeys(f, raw, a, b) ==
    /\ Read(f, HEADER + a * WORD, (b - a) * WORD) = SubSeq(raw, a + 1, b)
    /\ Len(SubSeq(raw, a + 1, b)) = b - a
    /\ \A p \in 1 .. b - a : SubSeq(raw, a + 1, b)[p] = f[2 + a + p]

LEMMA CutRun ==
    ASSUME NEW f \in Seq(Int), NEW len \in Nat, len = Len(f),
           NEW raw \in Seq(Int), Len(raw) = len - 2, \A i \in 1 .. len - 2 : raw[i] = f[2 + i],
           NEW a \in Nat, NEW b \in Nat, a < b, b + 2 <= len
    PROVE  CutKeys(f, raw, a, b)
<1>0. (\A i \in 1 .. len - 2 : raw[i] \in Int) /\ (\A i \in 1 .. len : f[i] \in Int)
  <2>1. \A i \in 1 .. len : f[i] \in Int
    OBVIOUS
  <2>2. \A i \in 1 .. len - 2 : 2 + i \in 1 .. len
    OBVIOUS
  <2> QED
    BY <2>1, <2>2
<1>1. PICK lo \in Int, hi \in Int, flo \in Int, fhi \in Int, n \in Nat :
         lo = a + 1 /\ hi = b /\ flo = a + 3 /\ fhi = b + 2 /\ n = b - a
  OBVIOUS
<1>2. /\ lo <= hi /\ hi - lo + 1 = n /\ flo <= fhi /\ fhi - flo + 1 = n
      /\ \A i \in lo .. hi : i \in 1 .. len - 2
      /\ \A i \in flo .. fhi : i \in 1 .. len
      /\ \A p \in 1 .. n : /\ lo + p - 1 \in 1 .. len - 2
                           /\ 2 + (lo + p - 1) = 2 + a + p
                           /\ flo + p - 1 = 2 + a + p
  BY <1>1
<1>3. PICK s, t : s = SubSeq(raw, lo, hi) /\ t = SubSeq(f, flo, fhi)
  OBVIOUS
<1>4. s \in Seq(Int) /\ Len(s) = n /\ \A p \in 1 .. n : s[p] = raw[lo + p - 1]
  <2>1. lo <= hi /\ hi - lo + 1 = n
    BY <1>2
  <2>2. \A i \in lo .. hi : raw[i] \in Int
    BY <1>0, <1>2
  <2>3. /\ SubSeq(raw, lo, hi) \in Seq(Int) /\ Len(SubSeq(raw, lo, hi)) = hi - lo + 1
        /\ \A i \in 1 .. hi - lo + 1 : SubSeq(raw, lo, hi)[i] = raw[lo + i - 1]
    BY <2>1, <2>2, IntSubSeq
  <2> QED
    BY <1>3, <2>1, <2>3
<1>5. t \in Seq(Int) /\ Len(t) = n /\ \A p \in 1 .. n : t[p] = f[flo + p - 1]
  <2>1. flo <= fhi /\ fhi - flo + 1 = n
    BY <1>2
  <2>2. \A i \in flo .. fhi : f[i] \in Int
    BY <1>0, <1>2
  <2>3. /\ SubSeq(f, flo, fhi) \in Seq(Int) /\ Len(SubSeq(f, flo, fhi)) = fhi - flo + 1
        /\ \A i \in 1 .. fhi - flo + 1 : SubSeq(f, flo, fhi)[i] = f[flo + i - 1]
    BY <2>1, <2>2, IntSubSeq
  <2> QED
    BY <1>3, <2>1, <2>3
<1>6. \A p \in 1 .. n : s[p] = f[2 + a + p] /\ t[p] = f[2 + a + p]
  <2> SUFFICES ASSUME NEW p \in 1 .. n
               PROVE  s[p] = f[2 + a + p] /\ t[p] = f[2 + a + p]
    OBVIOUS
  <2>1. s[p] = raw[lo + p - 1] /\ t[p] = f[flo + p - 1]
    BY <1>4, <1>5
  <2>2. raw[lo + p - 1] = f[2 + (lo + p - 1)]
    BY <1>2
  <2> QED
    BY <1>2, <2>1, <2>2
<1>7. s = t
  BY <1>4, <1>5, <1>6, SeqEqual
<1>8. Read(f, HEADER + a * WORD, (b - a) * WORD) = t
  <2>1. (HEADER + a * WORD) \div WORD + 1 = a + 3
    BY DEF HEADER, WORD
  <2>2. ((HEADER + a * WORD) + (b - a) * WORD) \div WORD = b + 2
    <3>1. (HEADER + a * WORD) + (b - a) * WORD = HEADER + b * WORD
      BY DEF HEADER, WORD
    <3> QED
      BY <3>1 DEF HEADER, WORD
  <2> QED
    BY <1>1, <1>3, <2>1, <2>2 DEF Read
<1> QED
  BY <1>1, <1>3, <1>4, <1>6, <1>7, <1>8 DEF CutKeys

(* create_entries has read to the end: the runs are the fewest sorted ones. *)
LEMMA FinishScanCuts ==
    ASSUME Inv, RawInv, InFileInv, CutInv, FinishScan
    PROVE  List!Cut
<1>1. /\ scan # Null /\ scan.offset >= Len(file) * WORD /\ directory_' = EndOfRun
      /\ write_offset_' = scan.offset /\ scan' = Null /\ use' = "runs" /\ open' = open
      /\ header_' = [run_count |-> Len(directory_'), directory_offset |-> write_offset_']
      /\ file' = Flushed(file, header_', directory_', write_offset_')
      /\ in_run_' = in_run_ /\ current_run_' = current_run_
  BY DEF FinishScan
<1>2. /\ open /\ use = "raw" /\ scan \in [offset : Nat, start : Nat, count : Nat]
      /\ HEADER <= scan.start /\ scan.start + scan.count * WORD = scan.offset
      /\ file \in Seq(Int) /\ Len(file) \in Nat /\ Len(file) >= 2
  BY <1>1 DEF Inv, UseInv, ObjectInv, ScanInv, FileInv
<1>3. PICK f \in Seq(Int), len \in Nat : f = file /\ len = Len(f) /\ len >= 2
  BY <1>2
<1>30. len = Len(f) /\ len >= 2
  BY <1>3
<1>4. scan.count > 0
  <2>1. Len(file) > 2 /\ (scan.count = 0 => scan.offset = HEADER)
    BY <1>1, <1>2 DEF RawInv
  <2>2. PICK o \in Nat, c \in Nat, l \in Nat : o = scan.offset /\ c = scan.count /\ l = Len(file)
    BY <1>2
  <2>3. o >= l * WORD /\ l > 2 /\ (c = 0 => o = HEADER)
    BY <1>1, <2>1, <2>2
  <2>4. c # 0
    BY <2>3 DEF HEADER, WORD
  <2> QED
    BY <2>2, <2>4
<1>5. PICK n \in Nat : \E at \in [0 .. n -> Nat] :
         /\ n = Len(EndOfRun) /\ n > 0 /\ CutsAt(EndOfRun, at)
         /\ scan.offset = HEADER + at[n] * WORD /\ at[n] + 2 <= Len(file)
  BY <1>1, <1>4, RunCut
<1>6. PICK at \in [0 .. n -> Nat] :
         /\ n = Len(EndOfRun) /\ n > 0 /\ CutsAt(EndOfRun, at)
         /\ scan.offset = HEADER + at[n] * WORD /\ at[n] + 2 <= Len(file)
  BY <1>5
<1>7. PICK d \in Seq(Entries), upto \in Nat : d = EndOfRun /\ upto = scan.offset
  BY <1>1, <1>2, EndOfRunOrdered
<1>8. /\ Len(d) = n /\ DOMAIN d = 1 .. n /\ Ordered(d) /\ Behind(d, upto)
      /\ upto = HEADER + at[n] * WORD /\ HEADER <= upto
  <2>1. Ordered(d) /\ Behind(d, upto) /\ Len(d) = n
    BY <1>1, <1>6, <1>7, EndOfRunOrdered
  <2>2. PICK e \in Nat : e = at[n]
    OBVIOUS
  <2>3. upto = HEADER + e * WORD
    BY <1>6, <1>7, <2>2
  <2>4. HEADER <= upto
    BY <2>3 DEF HEADER, WORD
  <2> QED
    BY <2>1, <2>2, <2>3, <2>4
<1>9. at[n] = len - 2
  <2>1. PICK a \in Nat : a = at[n]
    OBVIOUS
  <2>2. HEADER + a * WORD >= len * WORD /\ a + 2 <= len
    BY <1>1, <1>3, <1>6, <2>1
  <2>3. a = len - 2
    BY <2>2 DEF HEADER, WORD
  <2> QED
    BY <2>1, <2>3
<1>10. at[0] = 0 /\ \A r \in 1 .. n :
         /\ at[r - 1] < at[r]
         /\ d[r].offset = HEADER + at[r - 1] * WORD
         /\ d[r].bytes = (at[r] - at[r - 1]) * WORD
         /\ Sorted(at[r - 1], at[r])
         /\ r < n => file[2 + at[r]] > file[3 + at[r]]
  BY <1>6, <1>7, <1>8 DEF CutsAt
<1>11. ASSUME NEW r \in 1 .. n
       PROVE  at[r] <= len - 2
  <2>1. PICK a \in Nat, b \in Nat, e \in Nat : a = at[r - 1] /\ b = at[r] /\ e = at[n]
    BY SMTT(60)
  <2>2. a < b /\ d[r].offset = HEADER + a * WORD /\ d[r].bytes = (b - a) * WORD
    BY <1>10, <2>1
  <2>3. d[r].offset + d[r].bytes <= upto
    BY <1>8 DEF Behind
  <2>4. (HEADER + a * WORD) + (b - a) * WORD <= HEADER + e * WORD
    BY <1>8, <2>1, <2>2, <2>3
  <2>5. b <= e
    BY <2>2, <2>4 DEF HEADER, WORD
  <2> QED
    BY <1>9, <2>1, <2>5
<1>12. PICK raw \in Seq(Int) : raw = SubSeq(f, 3, len)
  BY <1>30, RawKeys
<1>13. Len(raw) = len - 2 /\ \A i \in 1 .. len - 2 : raw[i] = f[2 + i]
  BY <1>12, <1>30, RawKeys
<1>14. /\ AppendedRaw = raw /\ AppendedRaw' = <<>> /\ ListedRuns = <<>>
       /\ ListedRuns' = RunsOf(file', d)
  <2>1. HEADER \div WORD + 1 = 3
    BY DEF HEADER, WORD
  <2> QED
    BY <1>1, <1>2, <1>3, <1>7, <1>12, <2>1, Listed, ListedLater DEF AppendedRaw
<1>15. PICK cut : cut = RunsOf(file', d)
  OBVIOUS
<1>16. Len(cut) = n /\ \A r \in 1 .. n : cut[r] = Read(file', d[r].offset, d[r].bytes)
  BY <1>8, <1>15, RunsOfIs
<1>17. ASSUME NEW r \in 1 .. n
       PROVE  /\ at[r - 1] < at[r]
              /\ cut[r] = SubSeq(raw, at[r - 1] + 1, at[r])
              /\ List!Ascending(cut[r])
              /\ r < n => raw[at[r]] > raw[at[r] + 1]
  <2>1. PICK a \in Nat, b \in Nat : a = at[r - 1] /\ b = at[r]
    <3>1. r - 1 \in 0 .. n /\ r \in 0 .. n
      OBVIOUS
    <3> QED
      BY <3>1
  <2>2. /\ a < b /\ b <= len - 2
        /\ d[r].offset = HEADER + a * WORD /\ d[r].bytes = (b - a) * WORD
        /\ Sorted(a, b)
        /\ r < n => f[2 + b] > f[3 + b]
    BY <1>3, <1>10, <1>11, <2>1
  <2>20. a < b /\ b + 2 <= len
    BY <2>2
  <2>21. CutKeys(f, raw, a, b)
    BY <1>13, <1>30, <2>20, CutRun
  <2>3. /\ Read(f, HEADER + a * WORD, (b - a) * WORD) = SubSeq(raw, a + 1, b)
        /\ Len(SubSeq(raw, a + 1, b)) = b - a
        /\ \A p \in 1 .. b - a : SubSeq(raw, a + 1, b)[p] = f[2 + a + p]
    BY <2>21 DEF CutKeys
  <2>4. Read(file', d[r].offset, d[r].bytes) = Read(f, d[r].offset, d[r].bytes)
    <3>1. PICK h : h = header_'
      OBVIOUS
    <3>2. h \in [run_count : Nat, directory_offset : Nat]
      BY <1>1, <1>7, <1>8, <3>1
    <3>3. file' = Flushed(f, h, d, upto)
      BY <1>1, <1>3, <1>7, <3>1
    <3>4. PICK o \in Nat, bytes \in Nat : o = d[r].offset /\ bytes = d[r].bytes
      BY <1>8, EntryFields
    <3>5. HEADER <= o /\ o + bytes <= upto
      BY <1>8, <3>4 DEF Ordered, Behind
    <3>6. (o + bytes) \div WORD <= Len(f)
      <4>1. o + bytes = (HEADER + a * WORD) + (b - a) * WORD
        BY <2>2, <3>4
      <4>2. (o + bytes) \div WORD = b + 2
        BY <4>1, <2>20 DEF HEADER, WORD
      <4> QED
        BY <1>30, <2>20, <4>2
    <3> QED
      <4>1. Len(f) >= 2 /\ HEADER <= upto
        BY <1>8, <1>30
      <4>2. Read(Flushed(f, h, d, upto), o, bytes) = Read(f, o, bytes)
        BY <3>2, <3>5, <3>6, <4>1, FlushKeepsRun, SMTT(60)
      <4> QED
        BY <3>3, <3>4, <4>2
  <2>5. cut[r] = SubSeq(raw, a + 1, b)
    BY <1>16, <2>2, <2>3, <2>4
  <2>6. List!Ascending(cut[r])
    <3>1. ASSUME NEW p \in 1 .. (b - a) - 1
          PROVE  SubSeq(raw, a + 1, b)[p] <= SubSeq(raw, a + 1, b)[p + 1]
      <4>1. /\ p \in 1 .. b - a /\ p + 1 \in 1 .. b - a
            /\ a + p \in a + 1 .. b - 1 /\ 2 + a + p = 2 + (a + p) /\ 2 + a + (p + 1) = 3 + (a + p)
        OBVIOUS
      <4>2. f[2 + (a + p)] <= f[3 + (a + p)]
        BY <1>3, <2>2, <4>1 DEF Sorted
      <4> QED
        BY <2>3, <4>1, <4>2
    <3> QED
      BY <2>3, <2>5, <3>1 DEF List!Ascending
  <2>7. r < n => raw[b] > raw[b + 1]
    <3>1. SUFFICES ASSUME r < n PROVE raw[b] > raw[b + 1]
      OBVIOUS
    <3>2. PICK next \in Nat : next = at[r + 1]
      BY <3>1
    <3>3. b < next /\ next <= len - 2
      <4>1. r + 1 \in 1 .. n /\ (r + 1) - 1 = r
        BY <3>1
      <4> QED
        BY <1>10, <1>11, <2>1, <3>2, <4>1
    <3>4. b \in 1 .. len - 2 /\ b + 1 \in 1 .. len - 2 /\ 2 + (b + 1) = 3 + b
      BY <2>20, <3>3
    <3> QED
      BY <1>13, <2>2, <3>1, <3>4
  <2> QED
    BY <2>1, <2>2, <2>5, <2>6, <2>7
<1>18. List!CutOf(cut, raw)
  <2>1. at \in [0 .. n -> 0 .. len - 2]
    <3>1. ASSUME NEW r \in 0 .. n PROVE at[r] \in 0 .. len - 2
      <4>1. r = 0 \/ r \in 1 .. n
        OBVIOUS
      <4> QED
        BY <1>10, <1>11, <1>30, <4>1, SMTT(60)
    <3> QED
      BY <3>1
  <2> QED
    BY <1>9, <1>10, <1>13, <1>16, <1>17, <2>1 DEF List!CutOf
<1>19. GrowingRun' = GrowingRun
  BY <1>1 DEF GrowingRun
<1> QED
  BY <1>14, <1>15, <1>18, <1>19 DEF List!Cut

(* Every call is one step of the list, or none. *)
LEMMA CallRefines ==
    ASSUME Inv, Inv', RawInv, InFileInv, ListInv, Next
    PROVE  [List!Next]_List!listVars
<1>0. ThrownInv /\ FreshInv /\ LastInv /\ CutInv
  BY DEF ListInv
<1>1. ASSUME NEW keys \in Payloads, AddRun(keys) PROVE List!Next
  BY <1>1, AddRunAdds DEF AddRun, Ready, List!Next, List!Succeed
<1>2. CASE BeginRun
  BY <1>2, BeginRunBegins DEF BeginRun, Ready, List!Next, List!Succeed
<1>3. ASSUME NEW keys \in Payloads, AppendToRun(keys) PROVE List!Next
  <2>1. ~thrown /\ (thrown' = TRUE \/ thrown' = thrown)
    BY <1>3 DEF AppendToRun, Ready
  <2>2. CASE thrown'
    BY <1>0, <1>3, <2>1, <2>2, AppendToRunFails DEF List!Next
  <2>3. CASE ~thrown'
    BY <1>3, <2>1, <2>3, AppendToRunGrows DEF List!Next, List!Succeed
  <2> QED
    BY <2>2, <2>3
<1>4. ASSUME NEW keys \in Payloads, AppendDirect(keys) PROVE List!Next
  BY <1>0, <1>4, AppendDirectAppends DEF AppendDirect, Ready, List!Next, List!Succeed
<1>5. CASE EndRun
  BY <1>5, EndRunStops DEF EndRun, Ready, List!Next, List!Succeed
<1>6. CASE FinishScan
  BY <1>0, <1>6, FinishScanCuts DEF FinishScan, ThrownInv, List!Next, List!Succeed
<1>7. CASE Close
  BY <1>7, CloseStops DEF Close, Ready, List!Next, List!Succeed
<1>8. CASE FlushDirectory \/ BeginScan \/ ScanKey \/ Reopen
  BY <1>8, FlushKeepsList, BeginScanKeepsList, ScanKeyKeepsList, ReopenKeepsList
<1> QED
  BY <1>1, <1>2, <1>3, <1>4, <1>5, <1>6, <1>7, <1>8 DEF Next, RunStoreCall, CreateEntries

LEMMA StoreInitInv == Init => StoreInv
<1> SUFFICES ASSUME Init PROVE StoreInv
  OBVIOUS
<1>1. /\ file = <<0, 0>> /\ directory_ = <<>>
      /\ header_ = [run_count |-> 0, directory_offset |-> 0]
      /\ write_offset_ = HEADER /\ open = TRUE /\ scan = Null /\ use = "fresh"
  BY DEF Init, HeaderWords
<1>2. Inv
  BY InitInv
<1>3. RawInv /\ InFileInv
  BY <1>1 DEF RawInv, InFileInv, InFile
<1>4. AheadInv
  BY <1>1 DEF AheadInv, HEADER, WORD
<1> QED
  BY <1>2, <1>3, <1>4 DEF StoreInv

LEMMA StoreNextInv == StoreInv /\ [Next]_vars => StoreInv'
<1> SUFFICES ASSUME StoreInv, [Next]_vars PROVE StoreInv'
  OBVIOUS
<1>1. Inv /\ RawInv /\ InFileInv /\ AheadInv
  BY DEF StoreInv
<1>2. Inv'
  BY <1>1, NextInv
<1>3. CASE Next
  BY <1>1, <1>2, <1>3, RawStep, InFileStep, AheadStep DEF StoreInv
<1>4. CASE UNCHANGED vars
  BY <1>1, <1>2, <1>4 DEF vars, objectVars, StoreInv, RawInv, InFileInv, InFile, AheadInv
<1> QED
  BY <1>3, <1>4

(* What the steps of RunList need of a file: every run that has keys lies in it, and *)
(* the object never gets back behind the directory on the disk.                      *)
THEOREM StoreInvariance == Spec => []StoreInv
BY StoreInitInv, StoreNextInv, PTL DEF Spec

LEMMA ListInitInv == Init => ListInv /\ List!Init
<1> SUFFICES ASSUME Init PROVE ListInv /\ List!Init
  OBVIOUS
<1>1. /\ file = <<0, 0>> /\ directory_ = <<>> /\ ~in_run_
      /\ open /\ scan = Null /\ use = "fresh" /\ thrown = FALSE
  BY DEF Init, HeaderWords
<1>2. ListInv
  BY <1>1 DEF ListInv, ThrownInv, FreshInv, LastInv, CutInv
<1>3. AppendedRaw = <<>> /\ ListedRuns = <<>> /\ GrowingRun = 0
  BY <1>1, Listed, NoRuns DEF AppendedRaw, GrowingRun
<1> QED
  BY <1>1, <1>2, <1>3 DEF List!Init

LEMMA ListNext ==
    StoreInv /\ StoreInv' /\ ListInv /\ [Next]_vars
    => ListInv' /\ [List!Next]_List!listVars
<1> SUFFICES ASSUME StoreInv, StoreInv', ListInv, [Next]_vars
             PROVE  ListInv' /\ [List!Next]_List!listVars
  OBVIOUS
<1>1. Inv /\ RawInv /\ InFileInv /\ Inv'
  BY DEF StoreInv
<1>2. CASE Next
  BY <1>1, <1>2, ListStep, CallRefines
<1>3. CASE UNCHANGED vars
  <2>1. ListInv'
    BY <1>3 DEF vars, objectVars, ListInv, ThrownInv, FreshInv, LastInv, AtEnd, CutInv,
                CutsAt, InCut, Sorted
  <2>2. UNCHANGED List!listVars
    BY <1>3 DEF vars, objectVars, List!listVars, AppendedRaw, ListedRuns, CurrentDirectory,
                MapRun, GrowingRun
  <2> QED
    BY <2>1, <2>2
<1> QED
  BY <1>2, <1>3

(* The file implements the list of runs (add_run, begin_run, append_to_run, end_run,  *)
(* append, create_entries, flush_directory, the destructor and the constructor): each *)
(* call changes the runs that can be read as RunList says, for every block size and   *)
(* any number of runs and keys.                                                       *)
THEOREM FileIsRunList == Spec => ImplementsRunList
<1>1. Init => ListInv /\ List!Init
  BY ListInitInv
<1>2. StoreInv /\ StoreInv' /\ ListInv /\ [Next]_vars
      => ListInv' /\ [List!Next]_List!listVars
  BY ListNext
<1> QED
  BY <1>1, <1>2, StoreInvariance, PTL DEF Spec, ImplementsRunList, List!Spec
=============================================================================
