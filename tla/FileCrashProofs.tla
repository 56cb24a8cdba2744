--------------------------- MODULE FileCrashProofs ---------------------------
(***************************************************************************)
(* Theorems about FileCrash, for every block size and every sequence of    *)
(* calls: a directory that has left the process survives a kill, and a     *)
(* kill inside or right after a flush is noticed when the file is opened.  *)
(***************************************************************************)
EXTENDS FileCrash, MultiRunFileProofs

(* The runs of d are runs of e, which may have grown since. *)
Grown(d, e) == \A r \in DOMAIN d : d[r].offset = e[r].offset /\ d[r].bytes <= e[r].bytes

Within(f, d) ==
    \A r \in DOMAIN d : d[r].bytes = 0 \/ (d[r].offset + d[r].bytes) \div WORD <= Len(f)

(* The file ends with the directory that a flush at `at` would overwrite, or there *)
(* is no directory there and the file is too short to have one.                    *)
Room(f, d, at) ==
    IF f[1] = Len(d) /\ f[2] \div WORD = at \div WORD
    THEN Len(f) = at \div WORD + 3 * Len(d) /\ Grown(DirectoryOf(f), d)
    ELSE Len(f) < at \div WORD + 3 * Len(d)

DirInv ==
    /\ use = "fresh" => Len(file) = 2
    /\ open /\ use = "runs" /\ ~thrown => Room(file, directory_, write_offset_)
    /\ ~open /\ use = "runs" => Len(file) = file[2] \div WORD + 3 * file[1]

(* f has the runs of s, and its directory lists them. *)
Survives(f, s) == ~Refused(f) /\ HasRuns(f, s) /\ Grown(s.directory, DirectoryOf(f))

SavedInv ==
    disk = Null /\ saved # Null =>
        /\ saved.directory \in Seq(Entries) /\ Behind(saved.directory, file[2])
        /\ os \in Seq(Int) /\ os[1] = file[1] /\ os[2] = file[2]
        /\ Survives(os, saved) /\ Survives(file, saved)

(* g is the file after a flush of s, and o the file of which only the header is new. *)
Half(o, g, s) ==
    LET d == s.directory
    IN /\ o \in Seq(Int) /\ g \in Seq(Int) /\ d \in Seq(Entries) /\ Len(d) > 0
       /\ Len(o) >= 2 /\ o[1] = Len(d) /\ o[2] = g[2]
       /\ g[1] = Len(d) /\ g[2] \in Nat /\ Len(g) = g[2] \div WORD + 3 * Len(d)
       /\ DirectoryOf(g) = d /\ Behind(d, g[2])
       /\ Within(o, d) /\ Within(g, d)
       /\ \A r \in DOMAIN d : MapRun(o, d, r - 1) = s.runs[r] /\ MapRun(g, d, r - 1) = s.runs[r]
       /\ \/ Len(o) < Len(g)
          \/ Len(o) = Len(g) /\ Grown(DirectoryOf(o), d)

WrittenInv ==
    disk = Null /\ written # Null =>
        /\ open /\ use = "runs" /\ ~thrown
        /\ written.directory = directory_ /\ file[2] = write_offset_
        /\ Half(os, file, written)

(* The object has the runs of s; what it has besides are runs without a key, behind *)
(* which only the last may grow, for which it takes a block.                        *)
Follows(s) ==
    open =>
        /\ Len(s.directory) <= Len(directory_)
        /\ Grown(s.directory, directory_)
        /\ \A r \in DOMAIN directory_ : r > Len(s.directory) => directory_[r].bytes = 0
        /\ in_run_ => write_offset_ = file[2] \/ current_run_ + 1 > Len(s.directory)

LeftInv == disk = Null /\ Left # Null => use = "runs" /\ ~thrown /\ Follows(Left)

CrashInv ==
    /\ StoreInv /\ ThrownInv /\ DirInv
    /\ SavedInv /\ WrittenInv /\ LeftInv
    /\ FlushedSurvives /\ TornFlushNoticed

----------------------------------------------------------------------------
(* Torn files *)

TornOf(t, f, g, n) ==
    /\ t \in Seq(Int)
    /\ n > Len(f) => Len(t) = n
    /\ n <= Len(f) => Len(t) = Len(f)
    /\ \A w \in 1 .. Len(t) : t[w] = IF w <= n THEN g[w] ELSE f[w]

LEMMA TornWords ==
    ASSUME NEW f \in Seq(Int), NEW g \in Seq(Int), NEW n \in Nat, n <= Len(g)
    PROVE  TornOf(Torn(f, g, n), f, g, n)
<1>1. PICK m \in Nat, k \in Nat : m = Len(f) /\ k = Len(g)
  OBVIOUS
<1>2. PICK len : len = IF n > m THEN n ELSE m
  OBVIOUS
<1>3. len \in Nat /\ ((len = n /\ n > m) \/ (len = m /\ n <= m))
  BY <1>1, <1>2
<1>4. PICK t : t = [w \in 1 .. len |-> IF w <= n THEN g[w] ELSE f[w]]
  OBVIOUS
<1>5. Torn(f, g, n) = t
  BY <1>1, <1>2, <1>4 DEF Torn
<1>6. ASSUME NEW w \in 1 .. len PROVE t[w] \in Int
  <2>1. CASE w <= n
    BY <1>1, <1>4, <2>1
  <2>2. CASE w > n
    BY <1>1, <1>3, <1>4, <2>2
  <2> QED
    BY <2>1, <2>2
<1>7. t \in [1 .. len -> Int]
  BY <1>4, <1>6
<1>8. t \in Seq(Int) /\ Len(t) = len
  BY <1>3, <1>7
<1>9. \A w \in 1 .. len : t[w] = IF w <= n THEN g[w] ELSE f[w]
  BY <1>4
<1>10. TornOf(t, f, g, n)
  BY <1>1, <1>3, <1>8, <1>9 DEF TornOf
<1> QED
  BY <1>5, <1>10

LEMMA EntriesOf ==
    ASSUME NEW f, NEW n \in Nat, NEW at \in Nat, f[1] = n, f[2] \div WORD = at
    PROVE  /\ Len(DirectoryOf(f)) = n /\ DOMAIN DirectoryOf(f) = 1 .. n
           /\ \A r \in 1 .. n :
                 /\ DirectoryOf(f)[r].offset = f[at + 3 * (r - 1) + 1]
                 /\ DirectoryOf(f)[r].bytes = f[at + 3 * (r - 1) + 3]
<1>1. PICK d : d = [r \in 1 .. n |-> [offset |-> f[at + 3 * (r - 1) + 1],
                                      keys   |-> f[at + 3 * (r - 1) + 2],
                                      bytes  |-> f[at + 3 * (r - 1) + 3]]]
  OBVIOUS
<1>2. DirectoryOf(f) = d
  BY <1>1 DEF DirectoryOf, ENTRY_WORDS
<1>3. PICK S : S = {d[r] : r \in 1 .. n}
  OBVIOUS
<1>4. d \in [1 .. n -> S]
  BY <1>1, <1>3
<1> QED
  BY <1>1, <1>2, <1>4

LEMMA EntryAt ==
    ASSUME NEW f, NEW n \in Nat, NEW at \in Nat, f[1] = n, f[2] \div WORD = at,
           NEW r \in 1 .. n, NEW i \in Nat, i = at + 3 * (r - 1)
    PROVE  DirectoryOf(f)[r].offset = f[i + 1] /\ DirectoryOf(f)[r].bytes = f[i + 3]
BY EntriesOf

(* Of two directories in the same place, each word is the one's or the other's. *)
EntryOfOne(t, f, g, r) ==
    /\ \/ DirectoryOf(t)[r].offset = DirectoryOf(f)[r].offset
       \/ DirectoryOf(t)[r].offset = DirectoryOf(g)[r].offset
    /\ \/ DirectoryOf(t)[r].bytes = DirectoryOf(f)[r].bytes
       \/ DirectoryOf(t)[r].bytes = DirectoryOf(g)[r].bytes

LEMMA TornEntries ==
    ASSUME NEW f \in Seq(Int), NEW g \in Seq(Int), Len(f) >= 2, Len(g) >= 2,
           g[1] \in Nat, g[2] \in Nat, f[1] = g[1], f[2] = g[2],
           NEW n \in Nat, n <= Len(g), NEW t, t = Torn(f, g, n), ~Refused(t),
           NEW r \in 1 .. g[1]
    PROVE  EntryOfOne(t, f, g, r)
<1>0. TornOf(t, f, g, n)
  BY TornWords
<1>1. PICK lf \in Nat, lt \in Nat : lf = Len(f) /\ lt = Len(t)
  BY ONLY f \in Seq(Int), <1>0 DEF TornOf
<1>2. /\ (lt = n /\ n > lf) \/ (lt = lf /\ n <= lf)
      /\ \A w \in 1 .. lt : t[w] = IF w <= n THEN g[w] ELSE f[w]
  BY <1>0, <1>1 DEF TornOf
<1>3. t[1] = g[1] /\ t[2] = g[2]
  <2>1. 1 \in 1 .. lt /\ 2 \in 1 .. lt
    BY <1>1, <1>2
  <2> QED
    BY <1>2, <2>1
<1>4. PICK m \in Nat, at \in Nat : m = g[1] /\ at = g[2] \div WORD
  BY WordsType
<1>5. m > 0 => at + 3 * m <= lt
  <2>1. ~(t[1] > 0 /\ t[2] \div WORD + 3 * t[1] > Len(t))
    BY Zenon DEF Refused, ENTRY_WORDS
  <2>2. t[1] = m /\ t[2] \div WORD = at
    BY ONLY <1>3, <1>4, Zenon
  <2>3. ~(m > 0 /\ at + 3 * m > lt)
    BY ONLY <1>1, <2>1, <2>2, Zenon
  <2> QED
    BY ONLY <2>3, m \in Nat, at \in Nat, lt \in Nat
<1>6. r \in 1 .. m
  BY <1>4
<1>7. EntryOfOne(t, f, g, r)
  <2>1. PICK i \in Nat : i = at + 3 * (r - 1)
    BY <1>6
  <2>2. i + 1 \in 1 .. lt /\ i + 3 \in 1 .. lt
    BY <1>5, <1>6, <2>1
  <2>3. /\ t[i + 1] = g[i + 1] \/ t[i + 1] = f[i + 1]
        /\ t[i + 3] = g[i + 3] \/ t[i + 3] = f[i + 3]
    BY <1>2, <2>2
  <2>4. /\ DirectoryOf(t)[r].offset = t[i + 1] /\ DirectoryOf(t)[r].bytes = t[i + 3]
        /\ DirectoryOf(f)[r].offset = f[i + 1] /\ DirectoryOf(f)[r].bytes = f[i + 3]
        /\ DirectoryOf(g)[r].offset = g[i + 1] /\ DirectoryOf(g)[r].bytes = g[i + 3]
    <3>1. /\ t[1] = m /\ t[2] \div WORD = at /\ f[1] = m /\ f[2] \div WORD = at
          /\ g[1] = m /\ g[2] \div WORD = at
      BY <1>3, <1>4, Zenon
    <3>2. DirectoryOf(t)[r].offset = t[i + 1] /\ DirectoryOf(t)[r].bytes = t[i + 3]
      <4>1. PICK u : u = t
        OBVIOUS
      <4>2. u[1] = m /\ u[2] \div WORD = at
        BY <3>1, <4>1
      <4>3. DirectoryOf(u)[r].offset = u[i + 1] /\ DirectoryOf(u)[r].bytes = u[i + 3]
        BY ONLY m \in Nat, at \in Nat, i \in Nat, <1>6, <2>1, <4>2, EntryAt
      <4> QED
        BY <4>1, <4>3
    <3>3. DirectoryOf(f)[r].offset = f[i + 1] /\ DirectoryOf(f)[r].bytes = f[i + 3]
      <4>1. f[1] = m /\ f[2] \div WORD = at
        BY <3>1
      <4> QED
        BY ONLY m \in Nat, at \in Nat, i \in Nat, <1>6, <2>1, <4>1, EntryAt
    <3>4. DirectoryOf(g)[r].offset = g[i + 1] /\ DirectoryOf(g)[r].bytes = g[i + 3]
      BY ONLY m \in Nat, at \in Nat, i \in Nat, <1>6, <2>1, <3>1, EntryAt
    <3> QED
      BY <3>2, <3>3, <3>4
  <2> QED
    BY <2>3, <2>4 DEF EntryOfOne
<1> QED
  BY <1>7

LEMMA SameWords ==
    ASSUME NEW f \in Seq(Int), NEW g \in Seq(Int), NEW o \in Nat, NEW b \in Nat,
           (o + b) \div WORD <= Len(f), (o + b) \div WORD <= Len(g),
           Read(f, o, b) = Read(g, o, b),
           NEW w \in Nat, o \div WORD < w, w <= (o + b) \div WORD
    PROVE  f[w] = g[w]
<1>0. PICK m \in Nat, n \in Nat : m = o \div WORD /\ n = (o + b) \div WORD
  BY RunWords
<1>1. PICK k \in Nat, l \in Nat : k = Len(f) /\ l = Len(g)
  OBVIOUS
<1>2. m < w /\ w <= n /\ n <= k /\ n <= l
  BY <1>0, <1>1
<1>3. PICK from \in Int : from = m + 1
  OBVIOUS
<1>4. SubSeq(f, from, n) = SubSeq(g, from, n)
  BY <1>0, <1>3 DEF Read
<1>5. /\ \A i \in 1 .. n - from + 1 : SubSeq(f, from, n)[i] = f[from + i - 1]
      /\ \A i \in 1 .. n - from + 1 : SubSeq(g, from, n)[i] = g[from + i - 1]
  <2>1. \A i \in from .. n : i \in 1 .. k /\ i \in 1 .. l
    BY <1>2, <1>3
  <2>2. \A i \in from .. n : f[i] \in Int /\ g[i] \in Int
    BY <1>1, <2>1
  <2> QED
    BY <2>2, SubSeqProperties
<1>6. PICK i \in Int : i = w - m
  OBVIOUS
<1>7. i \in 1 .. n - from + 1 /\ from + i - 1 = w
  BY <1>2, <1>3, <1>6
<1> QED
  BY <1>4, <1>5, <1>7

(* A run that two files have, a torn one has. *)
LEMMA TornRuns ==
    ASSUME NEW f \in Seq(Int), NEW g \in Seq(Int), NEW n \in Nat, n <= Len(g),
           NEW d \in Seq(Entries), Within(f, d), Within(g, d), NEW r \in DOMAIN d,
           MapRun(f, d, r - 1) = MapRun(g, d, r - 1)
    PROVE  MapRun(Torn(f, g, n), d, r - 1) = MapRun(f, d, r - 1)
<1>1. PICK o \in Nat, b \in Nat : o = d[r].offset /\ b = d[r].bytes
  BY EntryFields
<1>2. b = 0 \/ ((o + b) \div WORD <= Len(f) /\ (o + b) \div WORD <= Len(g))
  BY <1>1 DEF Within
<1>3. PICK t : t = Torn(f, g, n)
  OBVIOUS
<1>9. TornOf(t, f, g, n) /\ t \in Seq(Int)
  BY <1>3, TornWords DEF TornOf
<1>4. PICK lf \in Nat, lt \in Nat : lf = Len(f) /\ lt = Len(t)
  BY ONLY f \in Seq(Int), <1>9
<1>5. /\ (lt = n /\ n > lf) \/ (lt = lf /\ n <= lf)
      /\ \A w \in 1 .. lt : t[w] = IF w <= n THEN g[w] ELSE f[w]
  BY <1>4, <1>9 DEF TornOf
<1>6. Read(f, o, b) = Read(g, o, b)
  <2>1. r \in Int
    OBVIOUS
  <2> QED
    BY <1>1, <2>1, MapRunOf
<1>7. ASSUME NEW w \in 1 .. Len(f), o \div WORD < w, w <= (o + b) \div WORD
      PROVE  t[w] = f[w]
  <2>1. b # 0
    <3>1. PICK p \in Nat, q \in Nat : p = o \div WORD /\ q = (o + b) \div WORD
      BY RunWords
    <3>2. b = 0 => q = p
      BY <3>1
    <3> QED
      BY <1>7, <3>1, <3>2
  <2>2. f[w] = g[w]
    BY <1>2, <1>6, <1>7, <2>1, SameWords
  <2>3. w \in 1 .. lt
    BY <1>4, <1>5
  <2> QED
    BY <1>5, <2>2, <2>3
<1>8. Read(t, o, b) = Read(f, o, b)
  BY ONLY f \in Seq(Int), o \in Nat, b \in Nat, <1>2, <1>7, <1>9, ReadsTheSame
<1> QED
  <2>1. r \in Int
    OBVIOUS
  <2> QED
    BY <1>1, <1>3, <1>8, <2>1, MapRunOf

(* What both files have, the torn one has. *)
LEMMA TornSurvives ==
    ASSUME NEW f \in Seq(Int), NEW g \in Seq(Int), f[1] = g[1], f[2] = g[2],
           g[1] \in Nat, g[2] \in Nat, NEW n \in Nat, n <= Len(g),
           NEW s, s.directory \in Seq(Entries), Behind(s.directory, g[2]),
           Survives(f, s), Survives(g, s)
    PROVE  Survives(Torn(f, g, n), s)
<1>1. PICK d \in Seq(Entries) : d = s.directory
  OBVIOUS
<1>2. PICK t : t = Torn(f, g, n)
  OBVIOUS
<1>3. PICK lf \in Nat, lg \in Nat : lf = Len(f) /\ lg = Len(g)
  OBVIOUS
<1>4. PICK m \in Nat, at \in Nat : m = g[1] /\ at = g[2] \div WORD
  BY WordsType
<1>5. /\ lf >= 2 /\ lg >= 2
      /\ m > 0 => at + 3 * m <= lf /\ at + 3 * m <= lg
  <2>1. HEADER \div WORD = 2
    BY DEF HEADER, WORD
  <2>2. /\ ~(Len(f) < 2) /\ ~(f[1] > 0 /\ f[2] \div WORD + 3 * f[1] > Len(f))
        /\ ~(Len(g) < 2) /\ ~(g[1] > 0 /\ g[2] \div WORD + 3 * g[1] > Len(g))
    BY <2>1 DEF Survives, Refused, ENTRY_WORDS
  <2>3. f[1] = m /\ f[2] \div WORD = at
    BY <1>4
  <2>4. /\ ~(lf < 2) /\ ~(m > 0 /\ at + 3 * m > lf)
        /\ ~(lg < 2) /\ ~(m > 0 /\ at + 3 * m > lg)
    BY <1>3, <1>4, <2>2, <2>3
  <2> QED
    BY <2>4
<1>6. PICK lt \in Nat : /\ lt = Len(t) /\ lt >= lf /\ t \in Seq(Int)
                        /\ lt >= 2 /\ t[1] = g[1] /\ t[2] = g[2]
  <2>1. TornOf(t, f, g, n)
    BY <1>2, TornWords
  <2>2. PICK lt \in Nat : lt = Len(t)
    BY <2>1 DEF TornOf
  <2>3. lt >= lf
    BY <1>3, <2>1, <2>2 DEF TornOf
  <2>4. 1 \in 1 .. Len(t) /\ 2 \in 1 .. Len(t)
    BY <1>5, <2>2, <2>3
  <2>5. t[1] = g[1] /\ t[2] = g[2]
    BY <2>1, <2>4 DEF TornOf
  <2>6. t \in Seq(Int)
    BY <2>1 DEF TornOf
  <2>7. lt >= 2
    BY <1>5, <2>3
  <2> QED
    BY <2>2, <2>3, <2>5, <2>6, <2>7
<1>7. ~Refused(t)
  <2>1. HEADER \div WORD = 2
    BY DEF HEADER, WORD
  <2>2. t[1] = m /\ t[2] \div WORD = at
    BY <1>4, <1>6
  <2>3. ~(lt < 2) /\ ~(m > 0 /\ at + 3 * m > lt)
    BY <1>5, <1>6
  <2> QED
    BY <1>6, <2>1, <2>2, <2>3 DEF Refused, ENTRY_WORDS
<1>8. Len(DirectoryOf(t)) = m /\ Len(DirectoryOf(g)) = m /\ DOMAIN d = 1 .. m
  <2>1. t[1] = m /\ t[2] \div WORD = at
    BY <1>4, <1>6
  <2>2. Len(DirectoryOf(t)) = m
    BY <2>1, EntriesOf
  <2>3. Len(DirectoryOf(g)) = m
    BY <1>4, EntriesOf
  <2>4. Len(DirectoryOf(g)) = Len(d)
    BY <1>1 DEF Survives, HasRuns
  <2> QED
    BY <2>2, <2>3, <2>4
<1>9. Within(f, d) /\ Within(g, d)
  <2> SUFFICES ASSUME NEW r \in DOMAIN d
               PROVE  /\ (d[r].offset + d[r].bytes) \div WORD <= Len(f)
                      /\ (d[r].offset + d[r].bytes) \div WORD <= Len(g)
    BY DEF Within
  <2>1. PICK b \in Nat : b = d[r].offset + d[r].bytes
    <3>1. d[r].offset \in Nat /\ d[r].bytes \in Nat
      BY EntryFields
    <3> QED
      BY <3>1
  <2>2. PICK e \in Nat : e = g[2]
    OBVIOUS
  <2>3. b <= e
    BY <1>1, <2>1, <2>2 DEF Behind
  <2>4. PICK bw \in Nat : bw = b \div WORD /\ bw <= at
    BY <1>4, <2>2, <2>3, WordsKeepOrder
  <2>5. m > 0
    BY <1>8
  <2> QED
    BY <1>3, <1>5, <2>1, <2>4, <2>5
<1>10. ASSUME NEW r \in DOMAIN d
       PROVE  /\ DirectoryOf(t)[r].offset = d[r].offset
              /\ d[r].bytes <= DirectoryOf(t)[r].bytes
              /\ MapRun(t, d, r - 1) = s.runs[r]
  <2>1. /\ DirectoryOf(f)[r].offset = d[r].offset /\ DirectoryOf(g)[r].offset = d[r].offset
        /\ d[r].bytes <= DirectoryOf(f)[r].bytes /\ d[r].bytes <= DirectoryOf(g)[r].bytes
        /\ MapRun(f, d, r - 1) = s.runs[r] /\ MapRun(g, d, r - 1) = s.runs[r]
    BY <1>1 DEF Survives, HasRuns, Grown
  <2>2. EntryOfOne(t, f, g, r)
    <3>1. Len(f) >= 2 /\ Len(g) >= 2
      BY <1>3, <1>5
    <3>2. r \in 1 .. g[1]
      BY <1>4, <1>8
    <3> QED
      BY <1>2, <1>7, <3>1, <3>2, TornEntries
  <2>3. MapRun(t, d, r - 1) = MapRun(f, d, r - 1)
    BY <1>2, <1>9, <2>1, TornRuns
  <2> QED
    BY <2>1, <2>2, <2>3 DEF EntryOfOne
<1>11. Survives(t, s)
  BY <1>1, <1>7, <1>8, <1>10 DEF Survives, HasRuns, Grown
<1> QED
  BY <1>2, <1>11

(* What a kill leaves of a flush is complete, or has the directory of the flush before, *)
(* or is refused.                                                                       *)
LEMMA TornNoticed ==
    ASSUME NEW o, NEW g, NEW s, Half(o, g, s), NEW n \in Nat, n <= Len(g),
           NEW t, t = Torn(o, g, n), ~Refused(t)
    PROVE  HasRuns(t, s) /\ Grown(DirectoryOf(t), s.directory)
<1>1. PICK d \in Seq(Entries) : d = s.directory
  BY DEF Half
<1>2. /\ o \in Seq(Int) /\ g \in Seq(Int) /\ Len(d) > 0
      /\ Len(o) >= 2 /\ o[1] = Len(d) /\ o[2] = g[2]
      /\ g[1] = Len(d) /\ g[2] \in Nat /\ Len(g) = g[2] \div WORD + 3 * Len(d)
      /\ DirectoryOf(g) = d /\ Within(o, d) /\ Within(g, d)
      /\ \A r \in DOMAIN d : MapRun(o, d, r - 1) = s.runs[r] /\ MapRun(g, d, r - 1) = s.runs[r]
      /\ \/ Len(o) < Len(g)
         \/ Len(o) = Len(g) /\ Grown(DirectoryOf(o), d)
  BY <1>1 DEF Half
<1>3. PICK m \in Nat, at \in Nat : m = Len(d) /\ at = g[2] \div WORD
  <2>1. PICK m \in Nat : m = Len(d)
    OBVIOUS
  <2>2. PICK e \in Nat : e = g[2]
    BY <1>2
  <2>3. PICK at \in Nat : at = e \div WORD
    BY WordsType
  <2> QED
    BY <2>1, <2>2, <2>3
<1>4. PICK lo \in Nat, lg \in Nat : lo = Len(o) /\ lg = Len(g)
  BY <1>2
<1>14. lg = at + 3 * m /\ lo >= 2 /\ m > 0
  BY <1>2, <1>3, <1>4
<1>5. m > 0 /\ lg = at + 3 * m /\ lo >= 2 /\ (lo < lg \/ (lo = lg /\ Grown(DirectoryOf(o), d)))
  BY <1>2, <1>4, <1>14, Zenon
<1>6. DOMAIN d = 1 .. m /\ \A r \in DOMAIN d : d[r].bytes \in Nat
  BY <1>3, EntryFields
<1>7. TornOf(t, o, g, n)
  BY <1>2, TornWords
<1>8. PICK lt \in Nat : lt = Len(t) /\ t \in Seq(Int)
  BY <1>7 DEF TornOf
<1>9. /\ (lt = n /\ n > lo) \/ (lt = lo /\ n <= lo)
      /\ \A w \in 1 .. lt : t[w] = IF w <= n THEN g[w] ELSE o[w]
  BY <1>4, <1>7, <1>8 DEF TornOf
<1>10. t[1] = m /\ t[2] = g[2]
  <2>1. 1 \in 1 .. lt /\ 2 \in 1 .. lt
    BY <1>5, <1>9
  <2>2. o[1] = m /\ o[2] = g[2] /\ g[1] = m
    BY <1>2, <1>3
  <2> QED
    BY <1>9, <2>1, <2>2
<1>11. lg <= lt
  <2>1. t[1] = m /\ t[2] \div WORD = at
    BY <1>3, <1>10
  <2>2. ~(m > 0 /\ at + 3 * m > lt)
    BY <1>8, <2>1 DEF Refused, ENTRY_WORDS
  <2> QED
    BY <1>5, <2>2
<1>12. CASE lo < lg
  <2>1. n = lg /\ lt = lg
    BY <1>4, <1>9, <1>11, <1>12
  <2>2. t = g
    <3>1. ASSUME NEW w \in 1 .. Len(t) PROVE t[w] = g[w]
      BY <1>8, <1>9, <2>1, <3>1
    <3> QED
      BY <1>2, <1>4, <1>8, <2>1, <3>1, SeqEqual
  <2>3. Grown(d, d)
    BY <1>6 DEF Grown
  <2> QED
    BY <1>1, <1>2, <2>2, <2>3 DEF HasRuns
<1>13. CASE lo = lg /\ Grown(DirectoryOf(o), d)
  <2>1. /\ Len(DirectoryOf(t)) = m /\ DOMAIN DirectoryOf(t) = 1 .. m
        /\ DOMAIN DirectoryOf(o) = 1 .. m
    <3>1. t[2] \div WORD = at /\ o[1] = m /\ o[2] \div WORD = at
      BY <1>2, <1>3, <1>10
    <3>2. DOMAIN DirectoryOf(o) = 1 .. m
      BY <3>1, EntriesOf
    <3>3. PICK u : u = t
      OBVIOUS
    <3>4. u[1] = m /\ u[2] \div WORD = at
      BY <1>10, <3>1, <3>3
    <3>5. Len(DirectoryOf(u)) = m /\ DOMAIN DirectoryOf(u) = 1 .. m
      BY <3>4, EntriesOf
    <3> QED
      BY <3>2, <3>3, <3>5
  <2>2. ASSUME NEW r \in 1 .. m
        PROVE  /\ DirectoryOf(t)[r].offset = d[r].offset
               /\ DirectoryOf(t)[r].bytes <= d[r].bytes
               /\ MapRun(t, d, r - 1) = s.runs[r]
    <3>1. EntryOfOne(t, o, g, r)
      <4>1. Len(g) >= 2 /\ g[1] \in Nat /\ o[1] = g[1] /\ o[2] = g[2] /\ r \in 1 .. g[1]
        BY <1>2, <1>3, <1>4, <1>5, <1>13
      <4> QED
        BY <1>2, <4>1, TornEntries
    <3>2. /\ DirectoryOf(o)[r].offset = d[r].offset /\ DirectoryOf(o)[r].bytes <= d[r].bytes
          /\ DirectoryOf(g)[r] = d[r] /\ d[r].bytes \in Nat
      BY <1>2, <1>6, <1>13, <2>1 DEF Grown
    <3>3. MapRun(t, d, r - 1) = s.runs[r]
      <4>1. MapRun(o, d, r - 1) = MapRun(g, d, r - 1) /\ r \in DOMAIN d
        BY <1>2, <1>6
      <4>2. MapRun(Torn(o, g, n), d, r - 1) = MapRun(o, d, r - 1)
        BY <1>2, <4>1, TornRuns
      <4> QED
        BY <1>2, <4>1, <4>2
    <3> QED
      BY <3>1, <3>2, <3>3 DEF EntryOfOne
  <2> QED
    BY <1>1, <1>3, <1>6, <2>1, <2>2 DEF HasRuns, Grown
<1> QED
  BY <1>5, <1>12, <1>13

----------------------------------------------------------------------------
(* The two writes of a flush *)

(* A write of `words` behind the first `from` words of f, before the words behind m. *)
WriteOf(g, f, from, words, m) ==
    /\ g \in Seq(Int) /\ Len(g) >= Len(f)
    /\ Len(g) <= Len(f) \/ Len(g) <= m
    /\ \A w \in 1 .. Len(f) : w <= from \/ w > m => g[w] = f[w]
    /\ \A w \in 1 .. Len(words) : g[from + w] = words[w]

LEMMA WriteEnds ==
    ASSUME NEW f \in Seq(Int), NEW at \in Nat, NEW words \in Seq(Int),
           NEW from \in Nat, from = at \div WORD, NEW m \in Nat, from + Len(words) <= m,
           NEW g, g = Write(f, at, words)
    PROVE  WriteOf(g, f, from, words, m)
<1>1. CASE words = <<>>
  <2>1. g = f
    BY <1>1 DEF Write
  <2> QED
    BY <1>1, <2>1 DEF WriteOf
<1>2. CASE words # <<>>
  <2>2. PICK k \in Nat, len \in Nat : k = Len(words) /\ len = Len(f)
    OBVIOUS
  <2>3. PICK upto \in Nat : upto = from + k /\ upto <= m
    BY <2>2
  <2>4. PICK to : to = IF upto > len THEN upto ELSE len
    OBVIOUS
  <2>5. to \in Nat /\ (to = len \/ to = upto) /\ len <= to
    BY <2>4
  <2>6. g = [w \in 1 .. to |-> IF w > from /\ w <= upto THEN words[w - from]
                               ELSE IF w <= len THEN f[w] ELSE 0]
    BY <1>2, <2>2, <2>3, <2>4 DEF Write
  <2>7. /\ g \in Seq(Int)
        /\ \A w \in 1 .. Len(f) : w <= from => g[w] = f[w]
        /\ \A w \in 1 .. Len(words) : g[from + w] = words[w]
    <3>1. /\ Write(f, at, words) \in Seq(Int)
          /\ \A w \in 1 .. Len(f) : w <= at \div WORD => Write(f, at, words)[w] = f[w]
          /\ \A w \in 1 .. Len(words) : Write(f, at, words)[at \div WORD + w] = words[w]
      BY ONLY f \in Seq(Int), at \in Nat, words \in Seq(Int), WriteWords
    <3> QED
      BY <3>1, Zenon
  <2>8. Len(g) = to
    BY <2>5, <2>6, <2>7
  <2>9. \A w \in 1 .. len : w > m => g[w] = f[w]
    BY <2>3, <2>5, <2>6
  <2> QED
    BY <2>2, <2>3, <2>5, <2>7, <2>8, <2>9 DEF WriteOf
<1> QED
  BY <1>1, <1>2

HeadOf(o, f, h) ==
    /\ o \in Seq(Int) /\ Len(o) = Len(f)
    /\ o[1] = h.run_count /\ o[2] = h.directory_offset
    /\ \A w \in 1 .. Len(f) : w > 2 => o[w] = f[w]

LEMMA HeaderFirst ==
    ASSUME NEW f \in Seq(Int), Len(f) >= 2,
           NEW h \in [run_count : Nat, directory_offset : Nat], NEW d
    PROVE  HeadOf(HeaderOut(f, h, d), f, h)
<1>1. PICK hw : hw = HeaderWords(h)
  OBVIOUS
<1>2. hw \in Seq(Int) /\ Len(hw) = 2 /\ hw[1] = h.run_count /\ hw[2] = h.directory_offset
  BY <1>1 DEF HeaderWords
<1>3. PICK z \in Nat : z = 0 /\ z = z \div WORD
  BY DEF WORD
<1>4. PICK o : o = Write(f, z, hw)
  OBVIOUS
<1>5. PICK len \in Nat : len = Len(f)
  OBVIOUS
<1>9. PICK m \in Nat : m = 2
  OBVIOUS
<1>6. WriteOf(o, f, z, hw, m)
  <2>1. z + Len(hw) <= m
    BY <1>2, <1>3, <1>9
  <2>2. hw \in Seq(Int) /\ z = z \div WORD
    BY <1>2, <1>3
  <2> QED
    BY <1>4, <2>1, <2>2, WriteEnds
<1>12. Len(o) >= len /\ (Len(o) <= len \/ Len(o) <= m) /\ len >= 2
  BY ONLY <1>5, <1>6, Len(f) >= 2 DEF WriteOf
<1>13. Len(o) = len
  <2>1. PICK lo \in Nat : lo = Len(o)
    <3>1. o \in Seq(Int)
      BY ONLY <1>6 DEF WriteOf
    <3> QED
      BY ONLY <3>1
  <2> QED
    BY ONLY <1>9, <1>12, <2>1, len \in Nat, m \in Nat
<1>14. \A w \in 1 .. Len(f) : w > m => o[w] = f[w]
  BY ONLY <1>6 DEF WriteOf
<1>7. /\ o \in Seq(Int) /\ Len(o) = len
      /\ \A w \in 1 .. len : w > 2 => o[w] = f[w]
  <2>1. o \in Seq(Int)
    BY ONLY <1>6 DEF WriteOf
  <2>2. \A w \in 1 .. len : w > 2 => o[w] = f[w]
    BY ONLY <1>5, <1>9, <1>14, Zenon
  <2> QED
    BY ONLY <1>13, <2>1, <2>2
<1>8. o[1] = hw[1] /\ o[2] = hw[2]
  <2>1. 1 \in 1 .. Len(hw) /\ 2 \in 1 .. Len(hw) /\ z + 1 = 1 /\ z + 2 = 2
    BY <1>2, <1>3
  <2>2. o[z + 1] = hw[1] /\ o[z + 2] = hw[2]
    BY <1>6, <2>1 DEF WriteOf
  <2> QED
    BY <2>1, <2>2
<1>10. HeadOf(o, f, h)
  BY <1>2, <1>5, <1>7, <1>8 DEF HeadOf
<1> QED
  BY <1>1, <1>3, <1>4, <1>10 DEF HeaderOut

(* What a flush has written: d at `at`, and the header that says so. *)
FlushOf(g, d, at) ==
    /\ g \in Seq(Int) /\ Len(g) >= 2
    /\ g[1] = Len(d) /\ g[2] = at /\ DirectoryOf(g) = d
    /\ Len(d) > 0 => at \div WORD + 3 * Len(d) <= Len(g)

LEMMA FlushGives ==
    ASSUME NEW f \in Seq(Int), Len(f) >= 2,
           NEW d \in Seq(Entries), NEW at \in Nat, HEADER <= at,
           NEW h \in [run_count : Nat, directory_offset : Nat], h.run_count = Len(d),
           NEW g, g = Flushed(f, h, d, at)
    PROVE  FlushOf(g, d, at)
<1>1. /\ Flushed(f, h, d, at) \in Seq(Int) /\ Len(Flushed(f, h, d, at)) >= 2
      /\ Flushed(f, h, d, at)[1] = Len(d) /\ Flushed(f, h, d, at)[2] = at
      /\ DirectoryOf(Flushed(f, h, d, at)) = d
      /\ Len(d) > 0 => at \div WORD + 3 * Len(d) <= Len(Flushed(f, h, d, at))
  BY ONLY f \in Seq(Int), Len(f) >= 2, d \in Seq(Entries), at \in Nat, HEADER <= at,
          h \in [run_count : Nat, directory_offset : Nat], h.run_count = Len(d),
          FlushedFile
<1> QED
  BY <1>1, Zenon DEF FlushOf

(* A file that is not longer than that ends with the directory. *)
LEMMA FlushEnds ==
    ASSUME NEW f \in Seq(Int), Len(f) >= 2,
           NEW d \in Seq(Entries), Len(d) > 0, NEW at \in Nat, HEADER <= at,
           NEW h \in [run_count : Nat, directory_offset : Nat], h.run_count = Len(d),
           Len(f) <= at \div WORD + 3 * Len(d)
    PROVE  Len(Flushed(f, h, d, at)) = at \div WORD + 3 * Len(d)
<1>1. PICK h1 \in [run_count : Nat, directory_offset : Nat] :
         h1 = [h EXCEPT !.directory_offset = at]
  OBVIOUS
<1>2. PICK g1 : g1 = Write(f, 0, HeaderWords(h1))
  OBVIOUS
<1>3. HeadOf(g1, f, h1)
  <2>1. g1 = HeaderOut(f, h1, d)
    BY <1>2 DEF HeaderOut
  <2> QED
    BY <2>1, HeaderFirst
<1>4. PICK dw : dw = DirectoryWords(d)
  OBVIOUS
<1>5. dw \in Seq(Int) /\ Len(dw) = 3 * Len(d)
  BY <1>4, DirectoryWordsOf
<1>6. PICK g : g = Flushed(f, h, d, at)
  OBVIOUS
<1>7. g = Write(g1, at, dw)
  BY <1>1, <1>2, <1>4, <1>6 DEF Flushed
<1>8. PICK m \in Nat : m = at \div WORD + 3 * Len(d)
  BY WordsType
<1>9. g1 \in Seq(Int) /\ Len(g1) = Len(f)
  BY <1>3 DEF HeadOf
<1>10. Len(g) <= Len(g1) \/ Len(g) <= m
  <2>1. PICK from \in Nat : from = at \div WORD
    BY WordsType
  <2>2. from + Len(dw) <= m
    BY <1>5, <1>8, <2>1
  <2>3. WriteOf(g, g1, from, dw, m)
    BY <1>5, <1>7, <1>8, <1>9, <2>1, <2>2, WriteEnds
  <2> QED
    BY <2>3 DEF WriteOf
<1>11. FlushOf(g, d, at)
  BY <1>6, FlushGives
<1>12. g \in Seq(Int) /\ m <= Len(g)
  BY <1>8, <1>11 DEF FlushOf
<1>13. PICK k \in Nat, lf \in Nat : k = Len(g) /\ lf = Len(f)
  BY <1>12
<1>14. k = m
  <2>1. lf <= m
    BY <1>8, <1>13
  <2>2. k <= lf \/ k <= m
    BY <1>9, <1>10, <1>13
  <2>3. m <= k
    BY <1>12, <1>13
  <2> QED
    BY <2>1, <2>2, <2>3
<1> QED
  BY <1>6, <1>8, <1>13, <1>14

(* Behind the header nothing has changed. *)
LEMMA HeadKeepsRun ==
    ASSUME NEW f \in Seq(Int), NEW o, NEW h, HeadOf(o, f, h),
           NEW a \in Nat, NEW b \in Nat, HEADER <= a, b = 0 \/ (a + b) \div WORD <= Len(f)
    PROVE  Read(o, a, b) = Read(f, a, b)
<1>1. PICK q \in Nat : q = a \div WORD /\ q >= 2
  BY DEF WORD, HEADER
<1>2. o \in Seq(Int) /\ \A w \in 1 .. Len(f) : w > 2 => o[w] = f[w]
  BY DEF HeadOf
<1>3. ASSUME NEW w \in 1 .. Len(f), a \div WORD < w, w <= (a + b) \div WORD
      PROVE  o[w] = f[w]
  <2>1. w \in Nat /\ q < w
    BY <1>1, <1>3
  <2>2. w > 2
    BY <1>1, <2>1
  <2> QED
    BY <1>2, <2>2
<1> QED
  BY <1>2, <1>3, ReadsTheSame

EntriesAlike(o, f, m) ==
    /\ DOMAIN DirectoryOf(o) = 1 .. m /\ DOMAIN DirectoryOf(f) = 1 .. m
    /\ \A r \in 1 .. m :
          /\ DirectoryOf(o)[r].offset = DirectoryOf(f)[r].offset
          /\ DirectoryOf(o)[r].bytes = DirectoryOf(f)[r].bytes

LEMMA WordsAlike ==
    ASSUME NEW o, NEW f, NEW m \in Nat, NEW p \in Nat,
           o[1] = m, o[2] \div WORD = p, f[1] = m, f[2] \div WORD = p,
           \A w \in p + 1 .. p + 3 * m : o[w] = f[w]
    PROVE  EntriesAlike(o, f, m)
<1>1. DOMAIN DirectoryOf(o) = 1 .. m /\ DOMAIN DirectoryOf(f) = 1 .. m
  BY EntriesOf
<1>2. ASSUME NEW r \in 1 .. m
      PROVE  /\ DirectoryOf(o)[r].offset = DirectoryOf(f)[r].offset
             /\ DirectoryOf(o)[r].bytes = DirectoryOf(f)[r].bytes
  <2>1. PICK i \in Nat : i = p + 3 * (r - 1)
    OBVIOUS
  <2>2. i + 1 \in p + 1 .. p + 3 * m /\ i + 3 \in p + 1 .. p + 3 * m
    BY <2>1
  <2>3. o[i + 1] = f[i + 1] /\ o[i + 3] = f[i + 3]
    BY <2>2
  <2>4. DirectoryOf(o)[r].offset = o[i + 1] /\ DirectoryOf(o)[r].bytes = o[i + 3]
    BY <2>1, EntryAt
  <2>5. DirectoryOf(f)[r].offset = f[i + 1] /\ DirectoryOf(f)[r].bytes = f[i + 3]
    BY <2>1, EntryAt
  <2> QED
    BY <2>3, <2>4, <2>5
<1> QED
  BY <1>1, <1>2 DEF EntriesAlike

(* After a flush the file is whole; when only the header is out it has the runs too. *)
LEMMA HalfFlushed ==
    ASSUME NEW f \in Seq(Int), Len(f) >= 2, f[1] \in Nat, f[2] \in Nat,
           NEW d \in Seq(Entries), Len(d) > 0, Within(f, d), Ordered(d),
           NEW at \in Nat, HEADER <= at, Behind(d, at), Room(f, d, at),
           NEW h \in [run_count : Nat, directory_offset : Nat], h.run_count = Len(d),
           NEW e, NEW o, o = HeaderOut(f, [h EXCEPT !.directory_offset = at], e),
           NEW g, g = Flushed(f, h, d, at),
           NEW s, s.directory = d, \A r \in DOMAIN d : s.runs[r] = MapRun(f, d, r - 1)
    PROVE  Half(o, g, s)
<1>1. PICK h1 \in [run_count : Nat, directory_offset : Nat] :
         h1 = [h EXCEPT !.directory_offset = at]
  OBVIOUS
<1>2. h1.run_count = Len(d) /\ h1.directory_offset = at
  BY <1>1
<1>3. HeadOf(o, f, h1)
  BY <1>1, HeaderFirst
<1>4. FlushOf(g, d, at)
  <2>1. /\ f \in Seq(Int) /\ Len(f) >= 2 /\ d \in Seq(Entries) /\ at \in Nat /\ HEADER <= at
        /\ h \in [run_count : Nat, directory_offset : Nat] /\ h.run_count = Len(d)
        /\ g = Flushed(f, h, d, at)
    OBVIOUS
  <2> QED
    BY ONLY <2>1, FlushGives
<1>5. PICK m \in Nat, lf \in Nat : m = Len(d) /\ lf = Len(f)
  <2>1. d \in Seq(Entries) /\ f \in Seq(Int)
    OBVIOUS
  <2>2. Len(d) \in Nat /\ Len(f) \in Nat
    BY ONLY <2>1
  <2> QED
    BY ONLY <2>2
<1>6. PICK p \in Nat : p = at \div WORD /\ p >= 2
  BY ONLY at \in Nat, HEADER <= at DEF WORD, HEADER
<1>7. m > 0 /\ lf >= 2 /\ DOMAIN d = 1 .. m
  BY <1>5
<1>8. \/ lf < p + 3 * m
      \/ f[1] = m /\ f[2] \div WORD = p /\ lf = p + 3 * m /\ Grown(DirectoryOf(f), d)
  BY ONLY Room(f, d, at), <1>5, <1>6 DEF Room
<1>9. Len(g) = p + 3 * m
  <2>1. lf <= p + 3 * m
    BY ONLY <1>8, lf \in Nat, p \in Nat, m \in Nat
  <2>2. Len(f) <= at \div WORD + 3 * Len(d)
    BY <1>5, <1>6, <2>1
  <2> QED
    BY <1>5, <1>6, <2>2, FlushEnds
<1>10. o \in Seq(Int) /\ Len(o) = lf /\ o[1] = m /\ o[2] = at
       /\ \A w \in 1 .. lf : w > 2 => o[w] = f[w]
  BY <1>2, <1>3, <1>5 DEF HeadOf
<1>11. g \in Seq(Int) /\ g[1] = m /\ g[2] = at /\ DirectoryOf(g) = d
  BY <1>4, <1>5 DEF FlushOf
<1>12. ASSUME NEW r \in DOMAIN d
       PROVE  /\ d[r].bytes = 0 \/ (d[r].offset + d[r].bytes) \div WORD <= lf
              /\ MapRun(o, d, r - 1) = s.runs[r] /\ MapRun(g, d, r - 1) = s.runs[r]
  <2>1. PICK a \in Nat, b \in Nat : a = d[r].offset /\ b = d[r].bytes
    BY EntryFields
  <2>2. HEADER <= a /\ a + b <= at
    BY <2>1 DEF Ordered, Behind
  <2>3. b = 0 \/ (a + b) \div WORD <= Len(f)
    BY <2>1 DEF Within
  <2>4. Read(g, a, b) = Read(f, a, b)
    <3>1. /\ f \in Seq(Int) /\ Len(f) >= 2 /\ d \in Seq(Entries) /\ at \in Nat
          /\ HEADER <= at /\ h \in [run_count : Nat, directory_offset : Nat]
          /\ g = Flushed(f, h, d, at)
      OBVIOUS
    <3> QED
      BY ONLY <3>1, <2>2, <2>3, a \in Nat, b \in Nat, FlushKeepsRun
  <2>5. Read(o, a, b) = Read(f, a, b)
    BY ONLY f \in Seq(Int), a \in Nat, b \in Nat, <1>3, <2>2, <2>3, HeadKeepsRun
  <2>6. r \in Int
    BY <1>7
  <2>7. MapRun(o, d, r - 1) = Read(o, a, b) /\ MapRun(g, d, r - 1) = Read(g, a, b)
        /\ MapRun(f, d, r - 1) = Read(f, a, b)
    <3>1. MapRun(o, d, r - 1) = Read(o, a, b)
      BY ONLY <2>1, <2>6, MapRunOf
    <3>2. MapRun(g, d, r - 1) = Read(g, a, b)
      BY ONLY <2>1, <2>6, MapRunOf
    <3>3. MapRun(f, d, r - 1) = Read(f, a, b)
      BY ONLY <2>1, <2>6, MapRunOf
    <3> QED
      BY <3>1, <3>2, <3>3
  <2>8. b = 0 \/ (a + b) \div WORD <= lf
    BY <1>5, <2>3
  <2> QED
    BY <2>1, <2>4, <2>5, <2>7, <2>8
<1>13. lf <= p + 3 * m
  BY ONLY <1>8, lf \in Nat, p \in Nat, m \in Nat
<1>14. Within(o, d) /\ Within(g, d)
  <2> SUFFICES ASSUME NEW r \in DOMAIN d, d[r].bytes # 0
               PROVE  /\ (d[r].offset + d[r].bytes) \div WORD <= Len(o)
                      /\ (d[r].offset + d[r].bytes) \div WORD <= Len(g)
    BY DEF Within
  <2>1. PICK a \in Nat, b \in Nat : a = d[r].offset /\ b = d[r].bytes
    BY EntryFields
  <2>2. PICK q \in Nat : q = (a + b) \div WORD
    <3>1. a \in Nat /\ b \in Nat
      OBVIOUS
    <3> QED
      BY ONLY <3>1 DEF WORD
  <2>3. q <= lf
    BY <1>12, <2>1, <2>2
  <2>4. q <= p + 3 * m
    <3>1. q \in Nat /\ lf \in Nat /\ p \in Nat /\ m \in Nat
      OBVIOUS
    <3> QED
      BY ONLY <1>13, <2>3, <3>1
  <2> QED
    BY <1>9, <1>10, <2>1, <2>2, <2>3, <2>4
<1>15. \/ Len(o) < Len(g)
       \/ Len(o) = Len(g) /\ Grown(DirectoryOf(o), d)
  <2> SUFFICES ASSUME f[1] = m, f[2] \div WORD = p, lf = p + 3 * m, Grown(DirectoryOf(f), d)
               PROVE  Grown(DirectoryOf(o), d)
    BY <1>8, <1>9, <1>10
  <2>1. \A w \in p + 1 .. p + 3 * m : o[w] = f[w]
    <3>1. lf = p + 3 * m
      OBVIOUS
    <3>2. \A w \in p + 1 .. p + 3 * m : w \in 1 .. lf /\ w > 2
      BY ONLY <3>1, <1>6, <1>5
    <3> QED
      BY <1>10, <3>2
  <2>2. o[1] = m /\ o[2] \div WORD = p
    BY <1>6, <1>10
  <2>3. EntriesAlike(o, f, m)
    BY ONLY <2>1, <2>2, f[1] = m, f[2] \div WORD = p, m \in Nat, p \in Nat, WordsAlike
  <2> QED
    BY <2>3 DEF Grown, EntriesAlike
<1>16. Len(g) = g[2] \div WORD + 3 * Len(d) /\ g[2] \in Nat
  BY <1>5, <1>6, <1>9, <1>11
<1>17. \A r \in DOMAIN d : MapRun(o, d, r - 1) = s.runs[r] /\ MapRun(g, d, r - 1) = s.runs[r]
  BY <1>12
<1>18. Len(o) >= 2 /\ o[1] = Len(d) /\ o[2] = g[2] /\ g[1] = Len(d) /\ Behind(d, g[2])
  BY <1>5, <1>7, <1>10, <1>11
<1> QED
  BY <1>10, <1>11, <1>14, <1>15, <1>16, <1>17, <1>18 DEF Half

----------------------------------------------------------------------------
(* Where a flush finds the end of the file *)

PadOf(words, n, k) == words \in Seq(Int) /\ Len(words) * WORD <= n * WORD + k

LEMMA PadEnds ==
    ASSUME NEW keys \in Seq(Int), NEW n \in Nat, n = Len(keys), NEW k \in Nat
    PROVE  PadOf(keys \o ZeroPad(k), n, k)
<1>1. PICK z \in Nat : z = k \div WORD
  BY DEF WORD
<1>2. PICK pad : pad = [w \in 1 .. z |-> 0]
  OBVIOUS
<1>3. pad \in Seq(Int) /\ Len(pad) = z
  BY <1>2
<1>4. ZeroPad(k) = pad
  BY <1>1, <1>2 DEF ZeroPad
<1>5. keys \o pad \in Seq(Int) /\ Len(keys \o pad) = n + z
  BY <1>3
<1>6. (n + z) * WORD <= n * WORD + k
  BY <1>1 DEF WORD
<1>7. PadOf(keys \o pad, n, k)
  BY <1>5, <1>6 DEF PadOf
<1> QED
  BY <1>4, <1>7

LEMMA RoomEnds ==
    ASSUME NEW f \in Seq(Int), NEW d \in Seq(Entries), NEW at \in Nat, Room(f, d, at)
    PROVE  Len(f) <= at \div WORD + 3 * Len(d)
<1>1. PICK m \in Nat : m = Len(d)
  OBVIOUS
<1>2. PICK n \in Nat : n = Len(f)
  OBVIOUS
<1>3. PICK p \in Nat : p = at \div WORD
  BY WordsType
<1>4. n <= p + 3 * m
  BY <1>1, <1>2, <1>3 DEF Room
<1> QED
  BY <1>1, <1>2, <1>3, <1>4

(* Of a write of data that ends in front of byte `to`, what the directory needs to know. *)
DataWritten(f, g, to) ==
    /\ g \in Seq(Int) /\ g[1] = f[1] /\ g[2] = f[2]
    /\ Len(g) >= Len(f) /\ (Len(g) <= Len(f) \/ Len(g) <= to \div WORD)
    /\ \A w \in 1 .. Len(f) : w > to \div WORD => g[w] = f[w]

(* A run that grows in its block keeps the directory behind it, and when the data area *)
(* grows there is no directory at its end.                                             *)
LEMMA RoomKept ==
    ASSUME NEW f \in Seq(Int), NEW g, f[1] \in Nat, f[2] \in Nat,
           NEW d \in Seq(Entries), NEW e \in Seq(Entries),
           Len(d) > 0, Len(e) = Len(d), Grown(d, e),
           NEW at \in Nat, NEW to \in Nat, at <= to, f[2] <= at,
           Room(f, d, at), DataWritten(f, g, to)
    PROVE  Room(g, e, to)
<1>1. PICK m \in Nat : m = Len(d) /\ m = Len(e) /\ m > 0
  OBVIOUS
<1>2. PICK p \in Nat : p = at \div WORD
  BY WordsType
<1>3. PICK q \in Nat : q = to \div WORD
  BY WordsType
<1>4. PICK x \in Nat : x = f[2]
  OBVIOUS
<1>5. PICK y \in Nat : y = x \div WORD
  BY WordsType
<1>6. y <= p /\ p <= q
  <2>1. x <= at
    BY <1>4
  <2> QED
    BY <1>2, <1>3, <1>5, <2>1, WordsKeepOrder
<1>7. PICK lf \in Nat : lf = Len(f)
  OBVIOUS
<1>8. PICK lg \in Nat : lg = Len(g)
  <2>1. g \in Seq(Int)
    BY DEF DataWritten
  <2> QED
    BY <2>1
<1>9. /\ g \in Seq(Int) /\ g[1] = f[1] /\ g[2] = x
      /\ lg >= lf /\ (lg <= lf \/ lg <= q)
      /\ \A w \in 1 .. lf : w > q => g[w] = f[w]
  BY <1>3, <1>4, <1>7, <1>8 DEF DataWritten
<1>10. CASE f[1] = m /\ y = p
  <2>1. lf = p + 3 * m /\ Grown(DirectoryOf(f), d)
    BY <1>1, <1>2, <1>4, <1>5, <1>7, <1>10 DEF Room
  <2>2. CASE p = q
    <3>1. lg = lf
      BY ONLY <1>1, <1>9, <2>1, <2>2, m \in Nat, p \in Nat, q \in Nat, lf \in Nat, lg \in Nat
    <3>2. \A w \in 1 .. Len(f) : f[2] \div WORD < w => g[w] = f[w]
      BY <1>4, <1>5, <1>7, <1>9, <1>10, <2>2
    <3>3. f[2] \div WORD + 3 * f[1] <= Len(f)
      BY <1>4, <1>5, <1>7, <1>10, <2>1
    <3>4. DirectoryOf(g) = DirectoryOf(f)
      BY <1>4, <1>7, <1>8, <1>9, <3>1, <3>2, <3>3, SameDirectory
    <3>5. Grown(DirectoryOf(g), e)
      <4>1. f[1] = m /\ f[2] \div WORD = y
        BY <1>4, <1>5, <1>10
      <4>2. DOMAIN DirectoryOf(f) = 1 .. m
        BY <1>1, <4>1, EntriesOf
      <4>3. DOMAIN d = 1 .. m
        BY <1>1
      <4>4. ASSUME NEW r \in DOMAIN DirectoryOf(f)
            PROVE  /\ DirectoryOf(f)[r].offset = e[r].offset
                   /\ DirectoryOf(f)[r].bytes <= e[r].bytes
        <5>1. /\ DirectoryOf(f)[r].offset = d[r].offset /\ d[r].offset = e[r].offset
              /\ DirectoryOf(f)[r].bytes <= d[r].bytes /\ d[r].bytes <= e[r].bytes
          BY <2>1, <4>2, <4>3 DEF Grown
        <5>2. DirectoryOf(f)[r].bytes = f[y + 3 * (r - 1) + 3]
          <6>1. r \in 1 .. m
            BY <4>2
          <6> QED
            BY ONLY m \in Nat, y \in Nat, <4>1, <6>1, EntriesOf
        <5>3. PICK i \in Nat : i = y + 3 * (r - 1) + 3 /\ i \in 1 .. lf
          <6>1. r \in 1 .. m /\ lf = y + 3 * m
            BY <1>10, <2>1, <4>2
          <6> QED
            BY ONLY m \in Nat, y \in Nat, lf \in Nat, <6>1
        <5>4. DirectoryOf(f)[r].bytes \in Int
          BY <1>7, <5>2, <5>3
        <5>5. d[r].bytes \in Int /\ e[r].bytes \in Int
          <6>1. r \in DOMAIN d /\ r \in DOMAIN e
            BY <1>1, <4>2
          <6> QED
            BY <6>1, EntryFields
        <5> QED
          BY ONLY <5>1, <5>4, <5>5
      <4> QED
        BY <3>4, <4>4 DEF Grown
    <3> QED
      BY <1>1, <1>3, <1>4, <1>5, <1>8, <1>9, <1>10, <2>1, <2>2, <3>1, <3>5 DEF Room
  <2>3. CASE p < q
    <3>1. lg < q + 3 * m
      BY ONLY <1>1, <1>9, <2>1, <2>3, m \in Nat, p \in Nat, q \in Nat, lf \in Nat, lg \in Nat
    <3>2. ~(g[2] \div WORD = to \div WORD)
      BY <1>3, <1>5, <1>9, <1>10, <2>3
    <3> QED
      BY <1>1, <1>3, <1>8, <3>1, <3>2 DEF Room
  <2> QED
    BY <1>6, <2>2, <2>3
<1>11. CASE ~(f[1] = m /\ y = p)
  <2>1. lf < p + 3 * m
    BY <1>1, <1>2, <1>4, <1>5, <1>7, <1>11 DEF Room
  <2>2. lg < q + 3 * m
    BY ONLY <1>1, <1>6, <1>9, <2>1, m \in Nat, p \in Nat, q \in Nat, lf \in Nat, lg \in Nat
  <2>3. ~(g[1] = m /\ g[2] \div WORD = q)
    BY <1>5, <1>6, <1>9, <1>11
  <2> QED
    BY <1>1, <1>3, <1>8, <2>2, <2>3 DEF Room
<1> QED
  BY <1>10, <1>11

LEMMA DataOut ==
    ASSUME FileInv, NEW at \in Nat, HEADER <= at, NEW words \in Seq(Int),
           NEW to \in Nat, at + Len(words) * WORD <= to
    PROVE  DataWritten(file, Write(file, at, words), to)
<1>1. PICK g : g = Write(file, at, words)
  OBVIOUS
<1>2. PICK from \in Nat : from = at \div WORD
  BY WordsType
<1>3. PICK m \in Nat : m = to \div WORD
  BY WordsType
<1>4. PICK n \in Nat : n = Len(words)
  OBVIOUS
<1>5. from + Len(words) <= m
  <2>1. at + n * WORD <= to
    BY <1>4
  <2> QED
    BY <1>2, <1>3, <1>4, <2>1, WordsOfBytes
<1>6. file \in Seq(Int)
  BY DEF FileInv
<1>7. WriteOf(g, file, from, words, m)
  BY <1>1, <1>2, <1>3, <1>5, <1>6, WriteEnds
<1>8. g[1] = file[1] /\ g[2] = file[2]
  BY <1>1, HeaderKept
<1>9. DataWritten(file, g, to)
  BY <1>3, <1>7, <1>8, Zenon DEF WriteOf, DataWritten
<1> QED
  BY <1>1, <1>9

LEMMA AppendRunOut ==
    ASSUME Inv, open, scan = Null, NEW keys \in Seq(Int), AppendRun(keys)
    PROVE  DataWritten(file, file', write_offset_')
<1>1. PICK n \in Nat : n = Len(keys)
  OBVIOUS
<1>2. PICK b \in Nat : b = n * WORD
  BY DEF WORD
<1>3. PICK a \in Nat : a = AlignUp(b) /\ b <= a
  BY AlignUpBounds
<1>4. PICK k \in Nat : k = a - b
  BY <1>3
<1>5. PICK words : words = keys \o ZeroPad(k)
  OBVIOUS
<1>6. /\ file' = Write(file, write_offset_, words)
      /\ write_offset_' = write_offset_ + a
  BY <1>1, <1>2, <1>3, <1>4, <1>5 DEF AppendRun
<1>7. words \in Seq(Int) /\ Len(words) * WORD <= b + k
  BY <1>1, <1>2, <1>5, PadEnds DEF PadOf
<1>8. FileInv /\ write_offset_ \in Nat /\ HEADER <= write_offset_
  BY DEF Inv, ObjectInv
<1>9. PICK x \in Nat : x = write_offset_
  BY <1>8
<1>10. PICK y \in Nat : y = x + a
  OBVIOUS
<1>11. PICK l \in Nat : l = Len(words) * WORD
  BY <1>7 DEF WORD
<1>12. x + Len(words) * WORD <= y
  <2>1. x + l <= y
    BY <1>3, <1>4, <1>7, <1>10, <1>11
  <2> QED
    BY <1>11, <2>1
<1>13. DataWritten(file, Write(file, x, words), y)
  BY <1>7, <1>8, <1>9, <1>12, DataOut
<1> QED
  BY <1>6, <1>9, <1>10, <1>13

(* What append_to_run does, unless it throws. *)
GrowOut ==
    /\ DataWritten(file, file', write_offset_') /\ write_offset_ <= write_offset_'
    /\ Len(directory_') = Len(directory_) /\ Grown(directory_, directory_')

LEMMA AppendToRunOut ==
    ASSUME Inv, InFileInv, NEW keys \in Payloads, AppendToRun(keys), ~thrown'
    PROVE  GrowOut
<1>1. keys \in Seq(Int)
  BY FileAssumption
<1>2. PICK c : c = current_run_ + 1
  OBVIOUS
<1>3. PICK entry : entry = directory_[c]
  OBVIOUS
<1>4. PICK o, b : o = entry.offset /\ b = entry.bytes
  OBVIOUS
<1>5. /\ c \in 1 .. Len(directory_) /\ o \in Nat /\ b \in Nat /\ HEADER <= o
      /\ open /\ scan = Null /\ ~thrown /\ in_run_ /\ use = "runs"
  BY <1>2, <1>3, <1>4, AppendToRunIs
<1>6. PICK n \in Nat : n = Len(keys)
  BY <1>1
<1>7. PICK total \in Nat : total = b + n * WORD /\ b <= total
  BY <1>5 DEF WORD
<1>8. PICK old \in Nat : old = AlignUp(b) /\ b <= old
  BY <1>5, AlignUpBounds
<1>9. PICK new \in Nat : new = AlignUp(total) /\ total <= new /\ old <= new
  <2>1. AlignUp(total) \in Nat /\ total <= AlignUp(total)
    BY AlignUpBounds
  <2>2. AlignUp(b) <= AlignUp(total)
    BY <1>5, <1>7, AlignUpKeepsOrder
  <2> QED
    BY <1>8, <2>1, <2>2
<1>10. PICK pad : pad = IF AtEnd(entry) /\ new > old THEN ZeroPad(new - total) ELSE <<>>
  OBVIOUS
<1>11. /\ file' = Write(file, o + b, keys \o pad)
       /\ AtEnd(entry) \/ ~(new > old)
       /\ write_offset_' = IF AtEnd(entry) /\ new > old THEN write_offset_ + (new - old)
                           ELSE write_offset_
       /\ directory_' = [directory_ EXCEPT ![c] = Longer(entry, n)]
  <2>1. /\ b + n * WORD = total
        /\ file' = Write(file, o + b, keys \o pad)
    BY <1>2, <1>3, <1>4, <1>6, <1>7, <1>8, <1>9, <1>10 DEF AppendToRun
  <2>2. \/ /\ AtEnd(entry) \/ ~(new > old)
           /\ write_offset_' = IF AtEnd(entry) /\ new > old THEN write_offset_ + (new - old)
                               ELSE write_offset_
           /\ directory_' = [directory_ EXCEPT ![c] = Longer(entry, n)]
        \/ thrown' = TRUE
    BY <1>2, <1>3, <1>4, <1>6, <1>7, <1>8, <1>9 DEF AppendToRun
  <2> QED
    BY <2>1, <2>2
<1>12. PICK x \in Nat : x = write_offset_ /\ o + old <= x /\ HEADER <= x
  <2>1. write_offset_ \in Nat /\ HEADER <= write_offset_
    BY DEF Inv, ObjectInv
  <2>2. directory_[c].offset + AlignUp(directory_[c].bytes) <= write_offset_
    BY <1>2, <1>5 DEF Inv, RunInv
  <2> QED
    BY <1>3, <1>4, <1>8, <2>1, <2>2
<1>13. PICK y \in Nat : y = write_offset_' /\ x <= y
       /\ ((pad = <<>> /\ o + new <= y) \/ (pad = ZeroPad(new - total) /\ o + new = y))
  <2>1. CASE AtEnd(entry) /\ new > old
    <3>1. o + old = x
      BY <1>3, <1>4, <1>8, <1>12, <2>1 DEF AtEnd
    <3> QED
      BY <1>5, <1>10, <1>11, <1>12, <2>1, <3>1
  <2>2. CASE ~(AtEnd(entry) /\ new > old)
    <3>1. new = old
      BY <1>9, <1>11, <2>2
    <3> QED
      BY <1>10, <1>11, <1>12, <2>2, <3>1
  <2> QED
    BY <2>1, <2>2
<1>14. PICK words : words = keys \o pad
  OBVIOUS
<1>15. words \in Seq(Int) /\ o + b + Len(words) * WORD <= y
  <2>1. CASE pad = <<>>
    <3>1. words = keys /\ Len(words) = n
      BY <1>1, <1>6, <1>14, <2>1
    <3>2. o + b + n * WORD <= y
      <4>1. o + new <= y
        BY <1>13
      <4>2. PICK l \in Nat : l = n * WORD /\ total = b + l
        BY <1>7 DEF WORD
      <4> QED
        BY <1>5, <1>9, <4>1, <4>2, SMTT(60)
    <3> QED
      BY <1>1, <3>1, <3>2
  <2>2. CASE pad = ZeroPad(new - total) /\ o + new = y
    <3>1. PICK k \in Nat : k = new - total
      BY <1>9
    <3>2. words \in Seq(Int) /\ Len(words) * WORD <= n * WORD + k
      BY <1>1, <1>6, <1>14, <2>2, <3>1, PadEnds DEF PadOf
    <3>3. PICK l \in Nat : l = n * WORD /\ total = b + l
      BY <1>7 DEF WORD
    <3>4. PICK m \in Nat : m = Len(words) * WORD
      BY <3>2 DEF WORD
    <3>5. o + b + m <= y
      <4>1. total = b + l /\ m <= l + k /\ o + new = y
        BY <2>2, <3>2, <3>3, <3>4
      <4> QED
        BY ONLY <1>5, <3>1, <4>1, k \in Nat, l \in Nat, m \in Nat, total \in Nat, new \in Nat
    <3> QED
      BY <3>2, <3>4, <3>5
  <2> QED
    BY <1>13, <2>1, <2>2
<1>16. DataWritten(file, file', write_offset_')
  <2>1. PICK at \in Nat : at = o + b /\ HEADER <= at
    BY <1>5 DEF HEADER, WORD
  <2>2. at + Len(words) * WORD <= y
    BY <1>15, <2>1
  <2>3. FileInv
    BY DEF Inv
  <2>4. DataWritten(file, Write(file, at, words), y)
    BY <1>15, <2>1, <2>2, <2>3, DataOut
  <2> QED
    BY <1>11, <1>13, <1>14, <2>1, <2>4
<1>17. Len(directory_') = Len(directory_) /\ Grown(directory_, directory_')
  <2>1. directory_ \in Seq(Entries)
    BY DEF Inv, ObjectInv
  <2>2. Longer(entry, n).offset = o /\ b <= Longer(entry, n).bytes
    <3>1. entry \in Entries
      BY <1>3, <1>5, <2>1
    <3>2. Longer(entry, n).offset = o /\ Longer(entry, n).bytes = b + n * WORD
      BY <1>4, <3>1 DEF Longer, Entries
    <3> QED
      BY <1>7, <3>2
  <2>3. /\ Len(directory_') = Len(directory_)
        /\ \A r \in DOMAIN directory_ :
              directory_'[r] = IF r = c THEN Longer(entry, n) ELSE directory_[r]
    BY <1>11, <2>1
  <2>4. ASSUME NEW r \in DOMAIN directory_
        PROVE  /\ directory_[r].offset = directory_'[r].offset
               /\ directory_[r].bytes <= directory_'[r].bytes
    <3>1. directory_[r].bytes \in Nat
      BY <2>1, EntryFields
    <3>2. CASE r = c
      BY <1>3, <1>4, <2>2, <2>3, <3>2
    <3>3. CASE r # c
      BY <2>3, <3>1, <3>3
    <3> QED
      BY <3>2, <3>3
  <2> QED
    BY <2>3, <2>4 DEF Grown
<1> QED
  BY <1>12, <1>13, <1>16, <1>17 DEF GrowOut

(* A new entry is behind the directory that may still be in the file. *)
LEMMA RoomAppended ==
    ASSUME Inv, AheadInv, DirInv, open, scan = Null, use # "raw", ~thrown,
           NEW keys \in Seq(Int), AppendRun(keys)
    PROVE  Room(file', directory_', write_offset_')
<1>1. /\ DataWritten(file, file', write_offset_') /\ file \in Seq(Int)
      /\ file[1] \in Nat /\ directory_ \in Seq(Entries) /\ write_offset_ \in Nat
  BY AppendRunOut DEF Inv, FileInv, ObjectInv
<1>2. /\ directory_' \in Seq(Entries) /\ Len(directory_') = Len(directory_) + 1
      /\ write_offset_' \in Nat /\ write_offset_ <= write_offset_'
  BY AppendRunStep
<1>3. PICK m \in Nat : m = Len(directory_) /\ file[1] <= m
  <2>1. header_.run_count = Len(directory_) /\ file[1] <= header_.run_count
    BY DEF AheadInv, Inv, DataInv
  <2>2. PICK m \in Nat : m = Len(directory_)
    BY <1>1
  <2> QED
    BY <2>1, <2>2
<1>4. PICK x \in Nat : x = write_offset_
  BY <1>1
<1>5. PICK y \in Nat : y = write_offset_'
  BY <1>2
<1>6. PICK p \in Nat : p = x \div WORD
  BY WordsType
<1>7. PICK q \in Nat : q = y \div WORD /\ p <= q
  <2>1. x <= y
    BY <1>2, <1>4, <1>5
  <2> QED
    BY <1>6, <2>1, WordsKeepOrder
<1>8. PICK lf \in Nat : lf = Len(file)
  BY <1>1
<1>9. lf <= p + 3 * m
  <2>1. CASE use = "fresh"
    <3>1. lf = 2
      BY <1>8, <2>1 DEF DirInv
    <3>2. HEADER <= x
      BY <1>4 DEF Inv, ObjectInv
    <3>3. 2 <= p
      BY <1>6, <3>2 DEF HEADER, WORD
    <3> QED
      BY <3>1, <3>3
  <2>2. CASE use = "runs"
    <3>1. Room(file, directory_, x)
      BY <1>4, <2>2 DEF DirInv
    <3>2. Len(file) <= x \div WORD + 3 * Len(directory_)
      BY <1>1, <3>1, RoomEnds
    <3> QED
      BY <1>3, <1>6, <1>8, <3>2
  <2> QED
    BY <2>1, <2>2 DEF Inv, ObjectInv
<1>10. PICK lg \in Nat : lg = Len(file')
  <2>1. file' \in Seq(Int)
    BY <1>1 DEF DataWritten
  <2> QED
    BY <2>1
<1>11. lg <= lf \/ lg <= q
  BY <1>1, <1>5, <1>7, <1>8, <1>10 DEF DataWritten
<1>12. lg < q + 3 * (m + 1)
  BY ONLY <1>7, <1>9, <1>11, m \in Nat, p \in Nat, q \in Nat, lf \in Nat, lg \in Nat
<1>13. ~(file'[1] = Len(directory_'))
  <2>1. file'[1] = file[1]
    BY <1>1 DEF DataWritten
  <2> QED
    BY <1>1, <1>2, <1>3, <2>1
<1>14. Len(directory_') = m + 1
  BY <1>2, <1>3
<1> QED
  BY <1>5, <1>7, <1>10, <1>12, <1>13, <1>14 DEF Room

(* A flush leaves a file that ends with its directory. *)
WholeOf(g, d, at) ==
    /\ FlushOf(g, d, at) /\ Len(g) = at \div WORD + 3 * Len(d)

LEMMA WholeFlush ==
    ASSUME FileInv, NEW d \in Seq(Entries), Len(d) > 0, NEW at \in Nat, HEADER <= at,
           NEW h \in [run_count : Nat, directory_offset : Nat], h.run_count = Len(d),
           Len(file) <= at \div WORD + 3 * Len(d)
    PROVE  WholeOf(Flushed(file, h, d, at), d, at)
<1>1. file \in Seq(Int) /\ Len(file) >= 2
  BY DEF FileInv
<1>2. PICK g : g = Flushed(file, h, d, at)
  OBVIOUS
<1>3. FlushOf(g, d, at)
  BY <1>1, <1>2, FlushGives
<1>4. Len(g) = at \div WORD + 3 * Len(d)
  BY <1>1, <1>2, FlushEnds
<1> QED
  BY <1>2, <1>3, <1>4 DEF WholeOf

LEMMA WholeRoom ==
    ASSUME NEW g, NEW d \in Seq(Entries), NEW at \in Nat, WholeOf(g, d, at)
    PROVE  Room(g, d, at)
<1>1. /\ g[1] = Len(d) /\ g[2] = at /\ DirectoryOf(g) = d
      /\ Len(g) = at \div WORD + 3 * Len(d)
  BY DEF WholeOf, FlushOf
<1>2. Grown(d, d)
  BY EntryFields DEF Grown
<1> QED
  BY <1>1, <1>2 DEF Room

(* Only a run that has been appended to is left out of the flush. *)
LEMMA FlushRoom ==
    ASSUME Inv, AheadInv, DirInv, open, scan = Null, use = "runs", ~thrown
    PROVE  /\ WholeOf(Flushed(file, header_, directory_, write_offset_), directory_, write_offset_)
           /\ directory_ \in Seq(Entries) /\ write_offset_ \in Nat /\ Len(directory_) > 0
<1>1. /\ FileInv /\ file \in Seq(Int) /\ directory_ \in Seq(Entries)
      /\ write_offset_ \in Nat /\ HEADER <= write_offset_
      /\ header_ \in [run_count : Nat, directory_offset : Nat]
      /\ header_.run_count = Len(directory_)
  BY DEF Inv, FileInv, ObjectInv, DataInv
<1>2. Len(directory_) > 0
  BY DEF AheadInv
<1>3. Room(file, directory_, write_offset_)
  BY DEF DirInv
<1>4. Len(file) <= write_offset_ \div WORD + 3 * Len(directory_)
  BY <1>1, <1>3, RoomEnds
<1>5. WholeOf(Flushed(file, header_, directory_, write_offset_), directory_, write_offset_)
  BY <1>1, <1>2, <1>4, WholeFlush
<1> QED
  BY <1>1, <1>2, <1>5

LEMMA DirStep ==
    ASSUME Inv, Inv', RawInv, InFileInv, AheadInv, AheadInv', DirInv, Next
    PROVE  DirInv'
<1>1. use' = "fresh" => Len(file') = 2
  BY FreshStep DEF DirInv, FreshInv
<1>2. ASSUME NEW keys \in Payloads, AddRun(keys) \/ AppendToRun(keys) \/ AppendDirect(keys)
      PROVE  DirInv'
  <2>1. CASE AddRun(keys)
    <3>1. /\ open /\ scan = Null /\ use # "raw" /\ ~thrown /\ open' /\ use' = "runs"
          /\ \E k \in Seq(Int) : AppendRun(k)
      BY <2>1, RunAdded
    <3>2. Room(file', directory_', write_offset_')
      BY <3>1, RoomAppended
    <3> QED
      BY <1>1, <3>1, <3>2 DEF DirInv
  <2>2. CASE AppendToRun(keys)
    <3>1. open /\ scan = Null /\ ~thrown /\ use = "runs" /\ open' = open /\ use' = use
      BY <2>2 DEF AppendToRun, Ready, Inv, UseInv
    <3>2. ASSUME ~thrown' PROVE Room(file', directory_', write_offset_')
      <4>1. GrowOut
        BY <2>2, <3>2, AppendToRunOut
      <4>2. /\ directory_ \in Seq(Entries) /\ directory_' \in Seq(Entries)
            /\ write_offset_ \in Nat /\ write_offset_' \in Nat
            /\ file \in Seq(Int) /\ file[1] \in Nat /\ file[2] \in Nat
        BY DEF Inv, FileInv, ObjectInv
      <4>3. Len(directory_) > 0 /\ file[2] <= write_offset_
        BY <3>1 DEF AheadInv
      <4>4. Room(file, directory_, write_offset_)
        BY <3>1 DEF DirInv
      <4>5. /\ DataWritten(file, file', write_offset_') /\ write_offset_ <= write_offset_'
            /\ Len(directory_') = Len(directory_) /\ Grown(directory_, directory_')
        BY <4>1 DEF GrowOut
      <4> QED
        BY ONLY <4>2, <4>3, <4>4, <4>5, RoomKept
    <3> QED
      BY <1>1, <3>1, <3>2 DEF DirInv
  <2>3. CASE AppendDirect(keys)
    <3>1. use' = "raw"
      BY <2>3 DEF AppendDirect
    <3> QED
      BY <3>1 DEF DirInv
  <2> QED
    BY <1>2, <2>1, <2>2, <2>3
<1>3. CASE BeginRun
  <2>1. /\ open /\ scan = Null /\ use # "raw" /\ ~thrown /\ open' /\ use' = "runs"
        /\ \E k \in Seq(Int) : AppendRun(k)
    BY <1>3, RunBegun
  <2>2. Room(file', directory_', write_offset_')
    BY <2>1, RoomAppended
  <2> QED
    BY <1>1, <2>1, <2>2 DEF DirInv
<1>4. CASE EndRun
  <2>1. /\ open' = open /\ use' = use /\ thrown' = thrown
        /\ file' = file /\ directory_' = directory_ /\ write_offset_' = write_offset_
    BY <1>4 DEF EndRun
  <2> QED
    BY <2>1 DEF DirInv
<1>5. CASE FlushDirectory
  <2>1. /\ open /\ scan = Null /\ ~thrown /\ use = "runs" /\ open' = open /\ use' = use
        /\ file' = Flushed(file, header_, directory_, write_offset_)
        /\ directory_' = directory_ /\ write_offset_' = write_offset_
    BY <1>5 DEF FlushDirectory, Ready
  <2>2. WholeOf(file', directory_, write_offset_)
        /\ directory_ \in Seq(Entries) /\ write_offset_ \in Nat
    BY <2>1, FlushRoom
  <2>3. Room(file', directory_, write_offset_)
    BY <2>2, WholeRoom
  <2> QED
    BY <2>1, <2>3 DEF DirInv
<1>6. CASE BeginScan \/ ScanKey
  <2>1. open' /\ use' = "raw"
    BY <1>6 DEF BeginScan, ScanKey, Ready, Inv, UseInv
  <2> QED
    BY <2>1 DEF DirInv
<1>7. CASE FinishScan
  <2>1. /\ open' = open /\ open /\ use' = "runs" /\ scan # Null
        /\ file' = Flushed(file, header_', directory_', write_offset_')
        /\ write_offset_' = scan.offset /\ scan.offset >= Len(file) * WORD
        /\ header_'.run_count = Len(directory_')
    BY <1>7 DEF FinishScan, Inv, UseInv
  <2>2. /\ directory_' \in Seq(Entries) /\ write_offset_' \in Nat /\ HEADER <= write_offset_'
        /\ header_' \in [run_count : Nat, directory_offset : Nat]
    BY DEF Inv, ObjectInv
  <2>3. Len(directory_') > 0
    BY <1>7, ScanEnds
  <2>4. FileInv
    BY DEF Inv
  <2>5. Len(file) <= write_offset_' \div WORD + 3 * Len(directory_')
    <3>1. PICK lf \in Nat : lf = Len(file)
      BY <2>4 DEF FileInv
    <3>2. PICK m \in Nat : m = Len(directory_')
      BY <2>2
    <3>3. PICK x \in Nat : x = write_offset_' /\ lf * WORD <= x
      BY <2>1, <2>2, <3>1
    <3>4. lf <= x \div WORD
      <4>1. lf * 8 <= x
        BY <3>3 DEF WORD
      <4>2. lf <= x \div 8
        BY ONLY <4>1, lf \in Nat, x \in Nat
      <4> QED
        BY <4>2 DEF WORD
    <3>5. PICK p \in Nat : p = x \div WORD
      BY WordsType
    <3> QED
      BY <3>1, <3>2, <3>3, <3>4, <3>5
  <2>6. WholeOf(file', directory_', write_offset_')
    <3>1. PICK d \in Seq(Entries) : d = directory_'
      BY <2>2
    <3>2. PICK at \in Nat : at = write_offset_'
      BY <2>2
    <3>3. PICK h \in [run_count : Nat, directory_offset : Nat] : h = header_'
      BY <2>2
    <3>4. Len(d) > 0 /\ HEADER <= at /\ h.run_count = Len(d)
          /\ Len(file) <= at \div WORD + 3 * Len(d)
      BY <2>1, <2>2, <2>3, <2>5, <3>1, <3>2, <3>3
    <3>5. WholeOf(Flushed(file, h, d, at), d, at)
      BY <2>4, <3>4, WholeFlush
    <3> QED
      BY <2>1, <3>1, <3>2, <3>3, <3>5
  <2>7. Room(file', directory_', write_offset_')
    BY <2>2, <2>6, WholeRoom
  <2> QED
    BY <1>1, <2>1, <2>7 DEF DirInv
<1>8. CASE Close
  <2>1. /\ open /\ scan = Null /\ ~thrown /\ ~open' /\ use' = use
        /\ directory_ # <<>> => file' = Flushed(file, header_, directory_, write_offset_)
    BY <1>8 DEF Close, Ready
  <2>2. ASSUME use = "runs" PROVE Len(file') = file'[2] \div WORD + 3 * file'[1]
    <3>1. /\ WholeOf(Flushed(file, header_, directory_, write_offset_), directory_, write_offset_)
          /\ directory_ \in Seq(Entries) /\ Len(directory_) > 0
      BY <2>1, <2>2, FlushRoom
    <3>2. directory_ # <<>>
      BY <3>1
    <3>3. WholeOf(file', directory_, write_offset_)
      BY <2>1, <3>1, <3>2
    <3> QED
      BY <3>3 DEF WholeOf, FlushOf
  <2> QED
    BY <1>1, <2>1, <2>2 DEF DirInv
<1>9. CASE Reopen
  <2>1. /\ ~open /\ open' /\ use' = use /\ file' = file
        /\ directory_' = DirectoryOf(file)
    BY <1>9 DEF Reopen
  <2>2. ASSUME use = "runs" PROVE Room(file, directory_', write_offset_')
    <3>1. PICK x \in Nat : x = file[2]
      BY DEF Inv, FileInv
    <3>2. PICK m \in Nat : m = file[1]
      BY DEF Inv, FileInv
    <3>3. PICK y \in Nat : y = write_offset_' /\ x <= y
      <4>1. file'[2] <= write_offset_' /\ write_offset_' \in Nat
        BY <2>1 DEF Inv, ObjectInv, AheadInv
      <4> QED
        BY <2>1, <3>1, <4>1
    <3>4. PICK p \in Nat : p = x \div WORD
      BY WordsType
    <3>5. PICK q \in Nat : q = y \div WORD /\ p <= q
      BY <3>3, <3>4, WordsKeepOrder
    <3>6. Len(directory_') = m /\ directory_' \in Seq(Entries)
      BY <2>1, <3>1, <3>2, <3>4, EntriesOf DEF Inv, ObjectInv
    <3>7. Len(file) = p + 3 * m
      BY <2>1, <2>2, <3>1, <3>2, <3>4 DEF DirInv
    <3>8. Grown(directory_', directory_')
      <4>1. PICK d \in Seq(Entries) : d = directory_'
        BY <3>6
      <4>2. Grown(d, d)
        BY EntryFields DEF Grown
      <4> QED
        BY <4>1, <4>2
    <3>9. CASE p = q
      BY <2>1, <3>1, <3>2, <3>3, <3>4, <3>5, <3>6, <3>7, <3>8, <3>9 DEF Room
    <3>10. CASE p < q
      <4>1. Len(file) < q + 3 * m
        BY ONLY <3>7, <3>10, p \in Nat, q \in Nat, m \in Nat
      <4>2. ~(file[2] \div WORD = y \div WORD)
        BY <3>1, <3>4, <3>5, <3>10
      <4> QED
        BY <3>3, <3>5, <3>6, <4>1, <4>2 DEF Room
    <3> QED
      BY <3>5, <3>9, <3>10
  <2> QED
    BY <1>1, <2>1, <2>2 DEF DirInv
<1> QED
  BY <1>2, <1>3, <1>4, <1>5, <1>6, <1>7, <1>8, <1>9 DEF Next, RunStoreCall, CreateEntries

----------------------------------------------------------------------------
(* The directory that a seek leaves *)

(* The runs of a directory are in the file, and the directory is whole. *)
Sound(f, d) ==
    /\ Within(f, d) /\ f[1] = Len(d) /\ Len(f) >= 2
    /\ f[1] > 0 => f[2] \div WORD + 3 * f[1] <= Len(f)

LEMMA SurvivesSound ==
    ASSUME NEW f \in Seq(Int), f[1] \in Nat, f[2] \in Nat,
           NEW s, s.directory \in Seq(Entries), Behind(s.directory, f[2]), Survives(f, s)
    PROVE  Sound(f, s.directory)
<1>1. PICK d \in Seq(Entries) : d = s.directory
  OBVIOUS
<1>2. PICK lf \in Nat : lf = Len(f)
  OBVIOUS
<1>3. PICK m \in Nat : m = f[1]
  OBVIOUS
<1>4. PICK e \in Nat : e = f[2]
  OBVIOUS
<1>5. PICK at \in Nat : at = e \div WORD
  BY WordsType
<1>6. lf >= 2 /\ (m > 0 => at + 3 * m <= lf)
  <2>1. HEADER \div WORD = 2
    BY DEF HEADER, WORD
  <2>2. ~(Len(f) < 2) /\ ~(f[1] > 0 /\ f[2] \div WORD + 3 * f[1] > Len(f))
    BY <2>1 DEF Survives, Refused, ENTRY_WORDS
  <2>3. ~(lf < 2) /\ ~(m > 0 /\ at + 3 * m > lf)
    BY <1>2, <1>3, <1>4, <1>5, <2>2
  <2> QED
    BY <2>3
<1>7. m = Len(d)
  <2>1. Len(DirectoryOf(f)) = m
    BY <1>3, <1>4, <1>5, EntriesOf
  <2> QED
    BY <1>1, <2>1 DEF Survives, HasRuns
<1>8. Within(f, d)
  <2> SUFFICES ASSUME NEW r \in DOMAIN d
               PROVE  (d[r].offset + d[r].bytes) \div WORD <= Len(f)
    BY DEF Within
  <2>1. PICK b \in Nat : b = d[r].offset + d[r].bytes
    <3>1. d[r].offset \in Nat /\ d[r].bytes \in Nat
      BY EntryFields
    <3> QED
      BY <3>1
  <2>2. b <= e
    BY <1>1, <1>4, <2>1 DEF Behind
  <2>3. PICK bw \in Nat : bw = b \div WORD /\ bw <= at
    BY <1>5, <2>2, WordsKeepOrder
  <2>4. m > 0
    BY <1>7
  <2>5. bw <= lf
    BY <1>6, <2>3, <2>4
  <2> QED
    BY <1>2, <2>1, <2>3, <2>5
<1>9. Sound(f, d)
  BY <1>2, <1>3, <1>4, <1>5, <1>6, <1>7, <1>8 DEF Sound
<1> QED
  BY <1>1, <1>9

(* A file of the same length with the same directory and the same runs. *)
LEMMA SurvivesSame ==
    ASSUME NEW f, NEW g, NEW s, Len(g) = Len(f), g[1] = f[1], g[2] = f[2],
           DirectoryOf(g) = DirectoryOf(f), Survives(f, s),
           \A r \in DOMAIN s.directory :
               MapRun(g, s.directory, r - 1) = MapRun(f, s.directory, r - 1)
    PROVE  Survives(g, s)
<1>1. ~Refused(g)
  BY Zenon DEF Survives, Refused
<1>2. HasRuns(g, s)
  BY DEF Survives, HasRuns
<1>3. Grown(s.directory, DirectoryOf(g))
  BY DEF Survives
<1> QED
  BY <1>1, <1>2, <1>3 DEF Survives

(* What LeftInv says, and the file has it. *)
LeftGood(s) ==
    /\ s.directory \in Seq(Entries) /\ Behind(s.directory, file[2])
    /\ Survives(file, s) /\ Sound(file, s.directory)

LEMMA LeftSurvives ==
    ASSUME Inv, SavedInv, WrittenInv, disk = Null, Left # Null
    PROVE  LeftGood(Left)
<1>1. file \in Seq(Int) /\ file[1] \in Nat /\ file[2] \in Nat
  BY DEF Inv, FileInv
<1>2. CASE written # Null
  <2>1. Left = written
    BY <1>2 DEF Left
  <2>2. PICK s : s = written
    OBVIOUS
  <2>3. PICK d : d = s.directory
    OBVIOUS
  <2>4. /\ d \in Seq(Entries) /\ Behind(d, file[2]) /\ DirectoryOf(file) = d
        /\ Len(d) > 0 /\ file[1] = Len(d)
        /\ Len(file) = file[2] \div WORD + 3 * Len(d)
        /\ \A r \in DOMAIN d : MapRun(file, d, r - 1) = s.runs[r]
    BY <1>2, <2>2, <2>3 DEF WrittenInv, Half
  <2>5. PICK m \in Nat : m = Len(d) /\ m > 0
    BY <2>4
  <2>6. PICK x \in Nat : x = file[2]
    BY <1>1
  <2>7. PICK p \in Nat : p = x \div WORD
    BY WordsType
  <2>8. ~Refused(file)
    <3>1. Len(file) = p + 3 * m /\ file[1] = m
      BY <2>4, <2>5, <2>6, <2>7
    <3>2. HEADER \div WORD = 2
      BY DEF HEADER, WORD
    <3>3. ~(p + 3 * m < 2) /\ ~(p + 3 * m > p + 3 * m)
      BY <2>5
    <3> QED
      BY <2>6, <2>7, <3>1, <3>2, <3>3 DEF Refused, ENTRY_WORDS
  <2>9. Grown(d, d)
    BY <2>4, EntryFields DEF Grown
  <2>10. Survives(file, s)
    BY <2>3, <2>4, <2>8, <2>9 DEF Survives, HasRuns
  <2>11. Sound(file, s.directory)
    BY <1>1, <2>3, <2>4, <2>10, SurvivesSound
  <2> QED
    BY <2>1, <2>2, <2>3, <2>4, <2>10, <2>11 DEF LeftGood
<1>3. CASE written = Null
  <2>1. Left = saved
    BY <1>3 DEF Left
  <2>2. PICK s : s = saved
    OBVIOUS
  <2>3. s.directory \in Seq(Entries) /\ Behind(s.directory, file[2]) /\ Survives(file, s)
    BY <2>1, <2>2 DEF SavedInv
  <2>4. Sound(file, s.directory)
    BY <1>1, <2>3, SurvivesSound
  <2> QED
    BY <2>1, <2>2, <2>3, <2>4 DEF LeftGood
<1> QED
  BY <1>2, <1>3

LEMMA FlushIs ==
    ASSUME NEW d
    PROVE  /\ Flush(d).directory = d
           /\ \A r \in DOMAIN d : Flush(d).runs[r] = MapRun(file, d, r - 1)
BY DEF Flush

(* A file that has been flushed has the runs of s, if it had them before and the    *)
(* directory has them.                                                              *)
LEMMA FlushSurvives ==
    ASSUME NEW f \in Seq(Int), Len(f) >= 2,
           NEW d \in Seq(Entries), NEW at \in Nat, HEADER <= at,
           NEW h \in [run_count : Nat, directory_offset : Nat],
           NEW g, g = Flushed(f, h, d, at), WholeOf(g, d, at),
           NEW s, NEW e \in Seq(Entries), e = s.directory, Len(e) = Len(d), Grown(e, d),
           Within(f, e), Behind(e, at), \A r \in DOMAIN e : HEADER <= e[r].offset,
           \A r \in DOMAIN e : MapRun(f, e, r - 1) = s.runs[r]
    PROVE  Survives(g, s)
<1>1. PICK m \in Nat : m = Len(d) /\ DOMAIN e = 1 .. m
  OBVIOUS
<1>2. /\ g \in Seq(Int) /\ Len(g) >= 2 /\ g[1] = m /\ g[2] = at /\ DirectoryOf(g) = d
      /\ Len(g) = at \div WORD + 3 * m
  BY <1>1 DEF WholeOf, FlushOf
<1>3. PICK p \in Nat : p = at \div WORD
  BY WordsType
<1>4. ~Refused(g)
  <2>1. HEADER \div WORD = 2
    BY DEF HEADER, WORD
  <2>2. PICK lg \in Nat : lg = Len(g)
    BY <1>2
  <2>3. ~(lg < 2) /\ ~(p + 3 * m > lg)
    <3>1. lg = p + 3 * m /\ lg >= 2
      BY <1>2, <1>3, <2>2
    <3> QED
      BY ONLY <3>1, m \in Nat, p \in Nat, lg \in Nat
  <2> QED
    BY <1>2, <1>3, <2>1, <2>2, <2>3 DEF Refused, ENTRY_WORDS
<1>5. ASSUME NEW r \in DOMAIN e
      PROVE  MapRun(g, e, r - 1) = s.runs[r]
  <2>1. PICK o \in Nat : o = e[r].offset
    BY EntryFields
  <2>2. PICK b \in Nat : b = e[r].bytes
    BY EntryFields
  <2>3. HEADER <= o /\ o + b <= at /\ (b = 0 \/ (o + b) \div WORD <= Len(f))
    BY <2>1, <2>2 DEF Behind, Within
  <2>4. Read(g, o, b) = Read(f, o, b)
    BY <2>3, FlushKeepsRun
  <2>5. r \in Int
    BY <1>1
  <2>6. MapRun(g, e, r - 1) = Read(g, o, b)
    BY ONLY <2>1, <2>2, <2>5, MapRunOf
  <2>7. MapRun(f, e, r - 1) = Read(f, o, b)
    BY ONLY <2>1, <2>2, <2>5, MapRunOf
  <2> QED
    BY <2>4, <2>6, <2>7
<1>6. HasRuns(g, s)
  <2>1. \A r \in DOMAIN e : d[r].offset = e[r].offset
    BY DEF Grown
  <2> QED
    BY <1>2, <1>5, <2>1 DEF HasRuns
<1>7. Grown(s.directory, DirectoryOf(g))
  BY <1>2
<1> QED
  BY <1>4, <1>6, <1>7 DEF Survives

(* A new directory, when create_entries or the destructor leaves. *)
LEMMA FlushLeaves ==
    ASSUME FileInv, NEW d \in Seq(Entries), Len(d) > 0, Within(file, d), Ordered(d),
           NEW at \in Nat, HEADER <= at, Behind(d, at),
           NEW h \in [run_count : Nat, directory_offset : Nat],
           NEW g, g = Flushed(file, h, d, at), WholeOf(g, d, at)
    PROVE  Survives(g, Flush(d)) /\ Behind(Flush(d).directory, g[2]) /\ g \in Seq(Int)
<1>1. file \in Seq(Int) /\ Len(file) >= 2
  BY DEF FileInv
<1>2. PICK s : s = Flush(d)
  OBVIOUS
<1>3. d = s.directory /\ \A r \in DOMAIN d : MapRun(file, d, r - 1) = s.runs[r]
  BY <1>2, FlushIs
<1>4. Grown(d, d)
  BY EntryFields DEF Grown
<1>5. \A r \in DOMAIN d : HEADER <= d[r].offset
  BY DEF Ordered
<1>6. Survives(g, s)
  BY <1>1, <1>3, <1>4, <1>5, FlushSurvives
<1>7. g[2] = at /\ g \in Seq(Int)
  BY DEF WholeOf, FlushOf
<1> QED
  BY <1>2, <1>3, <1>6, <1>7

(* The header of a directory that stays where it is, is the one in the file. *)
LEMMA SameHeader ==
    ASSUME FileInv, NEW h \in [run_count : Nat, directory_offset : Nat], h = HeaderOf(file),
           NEW e
    PROVE  HeaderOut(file, h, e) = file
<1>1. file \in Seq(Int) /\ Len(file) >= 2
  BY DEF FileInv
<1>2. PICK o : o = HeaderOut(file, h, e)
  OBVIOUS
<1>3. HeadOf(o, file, h)
  BY <1>1, <1>2, HeaderFirst
<1>4. /\ o \in Seq(Int) /\ Len(o) = Len(file) /\ o[1] = file[1] /\ o[2] = file[2]
      /\ \A w \in 1 .. Len(file) : w > 2 => o[w] = file[w]
  BY <1>3 DEF HeadOf, HeaderOf
<1>5. ASSUME NEW w \in 1 .. Len(o) PROVE o[w] = file[w]
  <2>1. w \in 1 .. Len(file) /\ (w = 1 \/ w = 2 \/ w > 2)
    BY <1>1, <1>4
  <2> QED
    BY <1>4, <2>1
<1>6. o = file
  BY <1>1, <1>4, <1>5, SeqEqual
<1> QED
  BY <1>2, <1>6

----------------------------------------------------------------------------
(* A run that grows within its blocks *)

LEMMA GrowsInPlace ==
    ASSUME Inv, InFileInv, NEW keys \in Payloads, AppendToRun(keys), ~thrown',
           write_offset_' = write_offset_, NEW s, LeftGood(s), Follows(s)
    PROVE  /\ current_run_ + 1 \in DOMAIN s.directory
           /\ write_offset_ = file[2]
<1>1. keys \in Seq(Int) /\ keys # <<>>
  BY FileAssumption
<1>2. PICK n \in Nat : n = Len(keys) /\ n > 0
  BY <1>1
<1>3. PICK c : c = current_run_ + 1
  OBVIOUS
<1>4. PICK o, b : o = directory_[c].offset /\ b = directory_[c].bytes
  OBVIOUS
<1>5. /\ c \in 1 .. Len(directory_) /\ o \in Nat /\ b \in Nat
      /\ open /\ in_run_
  BY <1>3, <1>4, AppendToRunIs
<1>6. PICK l \in Nat : l = n * WORD /\ l > 0
  BY <1>2 DEF WORD
<1>7. PICK total \in Nat : total = b + l
  BY <1>5
<1>8. PICK old \in Nat : old = AlignUp(b)
  BY <1>5, AlignUpBounds
<1>9. PICK new \in Nat : new = AlignUp(total) /\ total <= new
  BY AlignUpBounds
<1>10. ~(new > old)
  <2>1. \/ /\ AtEnd(directory_[c]) \/ ~(new > old)
           /\ write_offset_' = IF AtEnd(directory_[c]) /\ new > old
                               THEN write_offset_ + (new - old) ELSE write_offset_
        \/ thrown' = TRUE
    BY <1>2, <1>3, <1>4, <1>6, <1>7, <1>8, <1>9 DEF AppendToRun
  <2>2. write_offset_ \in Nat
    BY DEF Inv, ObjectInv
  <2>3. PICK x \in Nat : x = write_offset_ /\ x = write_offset_'
    BY <2>2
  <2> QED
    BY <2>1, <2>3
<1>11. b # 0
  <2>1. AlignUp(0) = 0
    BY FileAssumption DEF AlignUp
  <2>2. b = 0 => old = 0 /\ total = l
    BY <1>7, <1>8, <2>1
  <2> QED
    BY <1>6, <1>9, <1>10, <2>2
<1>12. c <= Len(s.directory)
  <2>1. c \in DOMAIN directory_
    <3>1. directory_ \in Seq(Entries)
      BY DEF Inv, ObjectInv
    <3> QED
      BY <1>5, <3>1
  <2>2. PICK m \in Nat : m = Len(s.directory)
    BY DEF LeftGood
  <2>3. c > m => b = 0
    BY <1>4, <1>5, <2>1, <2>2 DEF Follows
  <2> QED
    BY <1>5, <1>11, <2>2, <2>3
<1>13. write_offset_ = file[2]
  <2>1. PICK m \in Nat : m = Len(s.directory)
    BY DEF LeftGood
  <2>2. ~(c > m)
    BY <1>5, <1>12, <2>1
  <2> QED
    BY <1>3, <1>5, <2>1, <2>2 DEF Follows
<1>14. c \in DOMAIN s.directory
  <2>1. s.directory \in Seq(Entries)
    BY DEF LeftGood
  <2> QED
    BY <1>5, <1>12, <2>1
<1> QED
  BY <1>3, <1>13, <1>14

(* A run of s is in front of what append_to_run writes, or is another run. *)
LEMMA GrowKeepsRun ==
    ASSUME Inv, InFileInv, NEW keys \in Payloads, AppendToRun(keys), ~thrown',
           NEW s, LeftGood(s), Follows(s), NEW r \in DOMAIN s.directory
    PROVE  MapRun(file', s.directory, r - 1) = MapRun(file, s.directory, r - 1)
<1>1. PICK d \in Seq(Entries) : d = s.directory
  BY DEF LeftGood
<1>2. PICK o \in Nat : o = d[r].offset
  BY <1>1, EntryFields
<1>3. PICK b \in Nat : b = d[r].bytes /\ (b = 0 \/ (o + b) \div WORD <= Len(file))
  <2>1. d[r].bytes \in Nat
    BY <1>1, EntryFields
  <2> QED
    BY <1>1, <1>2, <2>1 DEF LeftGood, Sound, Within
<1>4. PICK c : c = current_run_ + 1
  OBVIOUS
<1>5. PICK p, q : p = directory_[c].offset /\ q = directory_[c].bytes
  OBVIOUS
<1>6. /\ c \in 1 .. Len(directory_) /\ p \in Nat /\ q \in Nat
      /\ open /\ in_run_
      /\ \E pad \in Seq(Int) : file' = Write(file, p + q, keys \o pad)
  BY <1>4, <1>5, AppendToRunIs
<1>7. /\ r \in 1 .. Len(directory_)
      /\ directory_[r].offset = o /\ b <= directory_[r].bytes
  <2>1. /\ Len(s.directory) <= Len(directory_) /\ Grown(s.directory, directory_)
    BY <1>6 DEF Follows
  <2>2. PICK m \in Nat : m = Len(d) /\ DOMAIN d = 1 .. m
    OBVIOUS
  <2>3. PICK n \in Nat : n = Len(directory_)
    BY DEF Inv, ObjectInv
  <2> QED
    BY <1>1, <1>2, <1>3, <2>1, <2>2, <2>3 DEF Grown
<1>8. file \in Seq(Int) /\ keys \in Seq(Int)
  BY FileAssumption DEF Inv, FileInv
<1>9. Read(file', o, b) = Read(file, o, b)
  <2>1. CASE r = c
    <3>1. PICK pad \in Seq(Int) : file' = Write(file, p + q, keys \o pad)
      BY <1>6
    <3>2. PICK words \in Seq(Int) : words = keys \o pad
      <4>1. keys \o pad \in Seq(Int)
        BY ONLY <1>8, pad \in Seq(Int)
      <4> QED
        BY <4>1
    <3>3. PICK at \in Nat : at = p + q
      BY <1>6
    <3>4. o + b <= at
      <4>1. p = o /\ b <= q
        BY <1>5, <1>7, <2>1
      <4>2. p \in Nat /\ q \in Nat
        BY <1>6
      <4> QED
        BY ONLY <3>3, <4>1, <4>2, o \in Nat, b \in Nat
    <3>5. Read(Write(file, at, words), o, b) = Read(file, o, b)
      BY ONLY <1>3, <1>8, <3>4, words \in Seq(Int), at \in Nat, o \in Nat, b \in Nat,
              WrittenBehind, SMTT(60)
    <3> QED
      BY <3>1, <3>2, <3>3, <3>5
  <2>2. CASE r # c
    <3>1. PICK t \in Nat : t = directory_[r].bytes
      <4>1. directory_ \in Seq(Entries)
        BY DEF Inv, ObjectInv
      <4>2. r \in DOMAIN directory_
        BY <1>7, <4>1
      <4> QED
        BY <4>1, <4>2, EntryFields
    <3>2. Read(file', o, t) = Read(file, o, t)
      <4>1. r # current_run_ + 1
        BY <1>4, <2>2
      <4>2. Read(file', directory_[r].offset, directory_[r].bytes)
             = Read(file, directory_[r].offset, directory_[r].bytes)
        BY <1>7, <4>1, OtherRunsKept
      <4> QED
        BY <1>7, <3>1, <4>2
    <3>3. t = 0 \/ (o + t) \div WORD <= Len(file)
      <4>1. directory_ \in Seq(Entries) /\ InFile(directory_)
        BY <1>6 DEF Inv, ObjectInv, InFileInv, AppendToRun, Ready
      <4>2. r \in DOMAIN directory_
        BY <1>7, <4>1
      <4> QED
        BY <1>7, <3>1, <4>1, <4>2 DEF InFile
    <3>4. CASE t = 0
      <4>1. b = t
        BY <1>7, <3>1, <3>4
      <4> QED
        BY <3>2, <4>1
    <3>5. CASE (o + t) \div WORD <= Len(file)
      <4>1. DataWritten(file, file', write_offset_')
        BY AppendToRunOut DEF GrowOut
      <4>2. file' \in Seq(Int)
        BY <4>1 DEF DataWritten
      <4>3. PICK lf \in Nat : lf = Len(file)
        BY <1>8
      <4>4. PICK lg \in Nat : lg = Len(file') /\ lf <= lg
        <5>1. PICK lg \in Nat : lg = Len(file')
          BY <4>2
        <5>2. lf <= lg
          BY <4>1, <4>3, <5>1 DEF DataWritten
        <5> QED
          BY <5>1, <5>2
      <4>5. PICK z \in Nat : z = (o + t) \div WORD
        BY RunWords
      <4>6. z <= Len(file) /\ z <= Len(file')
        BY <3>5, <4>3, <4>4, <4>5
      <4>7. PICK y \in Nat : y = (o + b) \div WORD /\ y <= z
        <5>1. o + b <= o + t /\ o + b \in Nat /\ o + t \in Nat
          BY <1>7, <3>1
        <5> QED
          BY ONLY <4>5, <5>1, WordsKeepOrder
      <4>8. ASSUME NEW w \in 1 .. Len(file), o \div WORD < w, w <= (o + b) \div WORD
            PROVE  file'[w] = file[w]
        <5>1. w \in Nat /\ w <= (o + t) \div WORD
          BY <4>3, <4>5, <4>7, <4>8
        <5>2. /\ (o + t) \div WORD <= Len(file) /\ (o + t) \div WORD <= Len(file')
              /\ Read(file, o, t) = Read(file', o, t)
          BY <3>2, <4>5, <4>6
        <5>3. o \div WORD < w
          BY <4>8
        <5>4. file[w] = file'[w]
          BY ONLY o \in Nat, t \in Nat, <1>8, <4>2, <5>1, <5>2, <5>3, SameWords
        <5> QED
          BY <5>4
      <4> QED
        BY <1>3, <1>8, <4>2, <4>8, ReadsTheSame
    <3> QED
      BY <3>3, <3>4, <3>5
  <2> QED
    BY <2>1, <2>2
<1>10. r \in Int
  BY <1>7
<1>11. MapRun(file', d, r - 1) = Read(file', o, b)
  BY ONLY <1>2, <1>3, <1>10, MapRunOf
<1>12. MapRun(file, d, r - 1) = Read(file, o, b)
  BY ONLY <1>2, <1>3, <1>10, MapRunOf
<1> QED
  BY <1>1, <1>9, <1>11, <1>12

LEMMA GrowSurvives ==
    ASSUME Inv, InFileInv, NEW keys \in Payloads, AppendToRun(keys), ~thrown',
           write_offset_' = write_offset_, NEW s, LeftGood(s), Follows(s)
    PROVE  Survives(file', s) /\ file' \in Seq(Int) /\ file'[1] = file[1] /\ file'[2] = file[2]
<1>1. /\ current_run_ + 1 \in DOMAIN s.directory
      /\ write_offset_ = file[2]
  BY GrowsInPlace
<1>2. PICK f \in Seq(Int) : f = file /\ f[1] \in Nat /\ f[2] \in Nat
  BY DEF Inv, FileInv
<1>3. PICK g : g = file'
  OBVIOUS
<1>4. PICK d \in Seq(Entries) : d = s.directory
  BY DEF LeftGood
<1>5. PICK m \in Nat : m = Len(d) /\ m > 0
  BY <1>1, <1>4
<1>6. PICK x \in Nat : x = f[2]
  BY <1>2
<1>7. PICK p \in Nat : p = x \div WORD
  BY WordsType
<1>8. PICK lf \in Nat : lf = Len(f)
  OBVIOUS
<1>9. f[1] = m /\ p + 3 * m <= lf
  <2>1. f[1] = Len(d) /\ (f[1] > 0 => f[2] \div WORD + 3 * f[1] <= Len(f))
    BY <1>2, <1>4 DEF LeftGood, Sound
  <2> QED
    BY <1>5, <1>6, <1>7, <1>8, <2>1
<1>10. /\ g \in Seq(Int) /\ g[1] = f[1] /\ g[2] = f[2]
       /\ Len(g) >= Len(f) /\ (Len(g) <= Len(f) \/ Len(g) <= p)
       /\ \A w \in 1 .. Len(f) : w > p => g[w] = f[w]
  <2>1. DataWritten(f, g, x)
    BY <1>1, <1>2, <1>3, <1>6, AppendToRunOut DEF GrowOut
  <2> QED
    BY <1>7, <2>1 DEF DataWritten
<1>11. PICK lg \in Nat : lg = Len(g)
  BY <1>10
<1>12. lg = lf
  <2>1. lg >= lf /\ (lg <= lf \/ lg <= p)
    BY <1>8, <1>10, <1>11
  <2> QED
    BY ONLY <1>9, <2>1, lf \in Nat, lg \in Nat, p \in Nat, m \in Nat
<1>13. DirectoryOf(g) = DirectoryOf(f)
  <2>1. Len(g) = Len(f) /\ g[1] = f[1] /\ g[2] = f[2]
    BY <1>8, <1>10, <1>11, <1>12
  <2>2. f[2] \div WORD + 3 * f[1] <= Len(f)
    BY <1>6, <1>7, <1>8, <1>9
  <2>3. \A w \in 1 .. Len(f) : f[2] \div WORD < w => g[w] = f[w]
    BY <1>6, <1>7, <1>8, <1>10
  <2>4. f[1] \in Nat /\ f[2] \in Nat /\ g \in Seq(Int)
    BY <1>2, <1>10
  <2> QED
    BY ONLY f \in Seq(Int), <2>1, <2>2, <2>3, <2>4, SameDirectory
<1>14. \A r \in DOMAIN s.directory :
          MapRun(g, s.directory, r - 1) = MapRun(f, s.directory, r - 1)
  BY <1>2, <1>3, GrowKeepsRun
<1>15. Survives(f, s)
  BY <1>2 DEF LeftGood
<1>16. Survives(g, s)
  <2>1. Len(g) = Len(f)
    BY <1>8, <1>11, <1>12
  <2> QED
    BY <1>10, <1>13, <1>14, <1>15, <2>1, SurvivesSame
<1> QED
  BY <1>2, <1>3, <1>10, <1>16

LEMMA GrowFollows ==
    ASSUME Inv, Inv', InFileInv, NEW keys \in Payloads, AppendToRun(keys), ~thrown',
           write_offset_' = write_offset_, NEW s, LeftGood(s), Follows(s)
    PROVE  Follows(s)'
<1>1. /\ current_run_ + 1 \in DOMAIN s.directory
      /\ write_offset_ = file[2]
  BY GrowsInPlace
<1>2. /\ Len(directory_') = Len(directory_) /\ Grown(directory_, directory_')
      /\ file'[2] = file[2]
  BY AppendToRunOut DEF GrowOut, DataWritten
<1>3. open /\ s.directory \in Seq(Entries) /\ directory_ \in Seq(Entries)
      /\ directory_' \in Seq(Entries)
  BY DEF AppendToRun, Ready, LeftGood, Inv, ObjectInv
<1>4. PICK d \in Seq(Entries) : d = s.directory
  BY <1>3
<1>5. PICK e \in Seq(Entries) : e = directory_
  BY <1>3
<1>6. PICK g \in Seq(Entries) : g = directory_'
  BY <1>3
<1>7. PICK m \in Nat : m = Len(d) /\ DOMAIN d = 1 .. m
  OBVIOUS
<1>8. PICK n \in Nat : n = Len(e) /\ DOMAIN e = 1 .. n
  OBVIOUS
<1>9. Len(g) = n /\ DOMAIN g = 1 .. n
  BY <1>2, <1>5, <1>6, <1>8
<1>10. m <= n /\ Grown(d, e) /\ \A r \in 1 .. n : r > m => e[r].bytes = 0
  BY <1>3, <1>4, <1>5, <1>7, <1>8 DEF Follows
<1>11. Grown(d, g)
  <2> SUFFICES ASSUME NEW r \in DOMAIN d
               PROVE  d[r].offset = g[r].offset /\ d[r].bytes <= g[r].bytes
    BY DEF Grown
  <2>1. r \in DOMAIN e /\ r \in DOMAIN g
    BY <1>7, <1>8, <1>9, <1>10
  <2>2. /\ d[r].offset = e[r].offset /\ d[r].bytes <= e[r].bytes
        /\ e[r].offset = g[r].offset /\ e[r].bytes <= g[r].bytes
    BY <1>2, <1>5, <1>6, <1>10, <2>1 DEF Grown
  <2>3. d[r].bytes \in Nat /\ e[r].bytes \in Nat /\ g[r].bytes \in Nat
    BY <2>1, EntryFields
  <2> QED
    BY ONLY <2>2, <2>3
<1>12. ASSUME NEW r \in 1 .. n, r > m PROVE g[r].bytes = 0
  <2>1. r # current_run_ + 1
    BY <1>1, <1>4, <1>7, <1>12
  <2>2. g[r] = e[r]
    <3>1. \E x : directory_' = [directory_ EXCEPT ![current_run_ + 1] = x]
      BY DEF AppendToRun
    <3> QED
      BY <1>5, <1>6, <1>8, <2>1, <3>1
  <2> QED
    BY <1>10, <1>12, <2>2
<1>13. write_offset_' = file'[2]
  BY <1>1, <1>2
<1>14. /\ Len(s.directory) <= Len(directory_') /\ Grown(s.directory, directory_')
       /\ \A r \in DOMAIN directory_' : r > Len(s.directory) => directory_'[r].bytes = 0
  BY <1>4, <1>6, <1>7, <1>9, <1>10, <1>11, <1>12
<1> QED
  BY <1>13, <1>14 DEF Follows

----------------------------------------------------------------------------
(* The steps *)

(* A call whose first seek pushes out what the calls before it have written. *)
LEMMA Carried ==
    ASSUME Inv, SavedInv, WrittenInv, disk = Null, os' = file, written' = Null,
           NEW s, s = Left, saved' = s \/ saved' = Null,
           s # Null /\ saved' = s =>
               /\ Survives(file', s) /\ file'[1] = file[1] /\ file'[2] = file[2]
               /\ use' = "runs" /\ ~thrown' /\ Follows(s)'
    PROVE  SavedInv' /\ WrittenInv' /\ LeftInv'
<1>1. WrittenInv'
  BY DEF WrittenInv
<1>2. Left' = saved'
  BY DEF Left
<1>3. CASE saved' = Null
  BY <1>1, <1>2, <1>3 DEF SavedInv, LeftInv
<1>4. CASE s # Null /\ saved' = s
  <2>1. LeftGood(s)
    BY <1>4, LeftSurvives
  <2>2. /\ s.directory \in Seq(Entries) /\ Behind(s.directory, file'[2])
        /\ os' \in Seq(Int) /\ os'[1] = file'[1] /\ os'[2] = file'[2]
        /\ Survives(os', s) /\ Survives(file', s)
    BY <1>4, <2>1 DEF LeftGood, Inv, FileInv
  <2>3. SavedInv'
    BY <1>4, <2>2 DEF SavedInv
  <2>4. LeftInv'
    BY <1>2, <1>4 DEF LeftInv, Follows
  <2> QED
    BY <1>1, <2>3, <2>4
<1> QED
  BY <1>3, <1>4

LEMMA BeginRunFollows ==
    ASSUME Inv, InFileInv, BeginRun, NEW s, LeftGood(s), Follows(s)
    PROVE  file' = file /\ Follows(s)'
<1>0. PICK k \in Seq(Int) : k = <<>>
  <2>1. <<>> \in Seq(Int)
    OBVIOUS
  <2> QED
    BY ONLY <2>1
<1>1. /\ open /\ scan = Null /\ AppendRun(k) /\ in_run_' = TRUE
      /\ current_run_' = header_'.run_count - 1
  BY <1>0 DEF BeginRun, Ready
<1>2. file' = file
  <2>1. k = <<>>
    BY <1>0
  <2>2. k \in Seq(Int) /\ Len(k) = 0
    BY <2>1
  <2>3. AlignUp(0) = 0 /\ 0 * WORD = 0 /\ 0 - 0 = 0
    BY FileAssumption DEF AlignUp, WORD
  <2>4. file' = Write(file, write_offset_, k \o ZeroPad(0))
    BY <1>1, <2>1, <2>2, <2>3 DEF AppendRun
  <2>5. ZeroPad(0) = <<>>
    BY DEF ZeroPad, WORD
  <2>6. k \o ZeroPad(0) = <<>>
    BY <2>1, <2>5
  <2> QED
    BY <2>4, <2>6 DEF Write
<1>3. PICK n \in Nat : n = Len(directory_)
  BY DEF Inv, ObjectInv
<1>4. /\ header_'.run_count = Len(directory_')
      /\ directory_' \in Seq(Entries) /\ Len(directory_') = n + 1
      /\ \A r \in 1 .. n : directory_'[r] = directory_[r]
      /\ directory_'[n + 1] = Entry(write_offset_, Len(k))
  BY <1>1, <1>3, AppendRunStep
<1>5. directory_'[n + 1].bytes = 0
  <2>1. PICK z \in Nat : z = Len(k) /\ z = 0
    BY <1>0
  <2>2. Entry(write_offset_, z).bytes = z * WORD
    BY EntryType DEF Inv, ObjectInv
  <2>3. z * WORD = 0
    BY <2>1 DEF WORD
  <2> QED
    BY <1>4, <2>1, <2>2, <2>3
<1>6. PICK d \in Seq(Entries) : d = s.directory
  BY DEF LeftGood
<1>7. PICK m \in Nat : m = Len(d) /\ DOMAIN d = 1 .. m
  OBVIOUS
<1>8. DOMAIN directory_ = 1 .. n /\ DOMAIN directory_' = 1 .. n + 1
  BY <1>3, <1>4 DEF Inv, ObjectInv
<1>9. m <= n /\ Grown(d, directory_) /\ \A r \in 1 .. n : r > m => directory_[r].bytes = 0
  BY <1>1, <1>3, <1>6, <1>7, <1>8 DEF Follows
<1>10. Len(s.directory) <= Len(directory_')
  BY <1>4, <1>6, <1>7, <1>9
<1>11. Grown(s.directory, directory_')
  <2>1. \A r \in DOMAIN d : r \in 1 .. n
    BY <1>7, <1>9
  <2> QED
    BY <1>4, <1>6, <1>9, <2>1 DEF Grown
<1>12. ASSUME NEW r \in DOMAIN directory_', r > Len(s.directory)
       PROVE  directory_'[r].bytes = 0
  <2>1. r \in 1 .. n \/ r = n + 1
    BY <1>8
  <2> QED
    BY <1>4, <1>5, <1>6, <1>7, <1>9, <1>12, <2>1
<1>13. current_run_' + 1 > Len(s.directory)
  <2>1. current_run_' = n
    BY <1>1, <1>4
  <2> QED
    BY <1>6, <1>7, <1>9, <2>1
<1>14. Follows(s)'
  BY <1>10, <1>11, <1>12, <1>13 DEF Follows
<1> QED
  BY <1>2, <1>14

LEMMA SeekStep ==
    ASSUME Inv, Inv', InFileInv, SavedInv, WrittenInv, LeftInv, disk = Null, SeekAndWrite
    PROVE  SavedInv' /\ WrittenInv' /\ LeftInv'
<1>1. PICK s : s = Left
  OBVIOUS
<1>2. /\ os' = file /\ written' = Null
      /\ saved' = s \/ saved' = Null
      /\ saved' # Null => saved' = s /\ write_offset_' = write_offset_ /\ ~thrown'
  BY <1>1 DEF SeekAndWrite
<1>3. SUFFICES ASSUME s # Null, saved' = s, write_offset_' = write_offset_, ~thrown'
               PROVE  /\ Survives(file', s) /\ file'[1] = file[1] /\ file'[2] = file[2]
                      /\ use' = "runs" /\ Follows(s)'
  <2>1. s # Null /\ saved' = s => write_offset_' = write_offset_ /\ ~thrown'
    BY <1>2
  <2> QED
    BY <1>1, <1>2, <2>1, Carried
<1>4. LeftGood(s)
  BY <1>1, <1>3, LeftSurvives
<1>5. use = "runs" /\ ~thrown /\ Follows(s)
  <2>1. use = "runs" /\ ~thrown /\ Follows(Left)
    BY <1>1, <1>3 DEF LeftInv
  <2> QED
    BY <1>1, <2>1
<1>6. ASSUME NEW keys \in Payloads, AddRun(keys) PROVE FALSE
  <2>1. keys \in Seq(Int) /\ keys # <<>>
    BY FileAssumption
  <2>2. PICK n \in Nat : n = Len(keys) /\ n > 0
    BY <2>1
  <2>3. PICK l \in Nat : l = n * WORD /\ l > 0
    BY <2>2 DEF WORD
  <2>4. AlignUp(l) \in Nat /\ l <= AlignUp(l)
    BY AlignUpBounds
  <2>5. write_offset_' = write_offset_ + AlignUp(l) /\ write_offset_ \in Nat
    BY <1>6, <2>2, <2>3 DEF AddRun, AppendRun, Inv, ObjectInv
  <2> QED
    BY <1>3, <2>3, <2>4, <2>5
<1>7. ASSUME NEW keys \in Payloads, AppendToRun(keys)
      PROVE  /\ Survives(file', s) /\ file'[1] = file[1] /\ file'[2] = file[2]
             /\ use' = "runs" /\ Follows(s)'
  <2>1. Survives(file', s) /\ file'[1] = file[1] /\ file'[2] = file[2]
    BY <1>3, <1>4, <1>5, <1>7, GrowSurvives
  <2>2. Follows(s)'
    BY <1>3, <1>4, <1>5, <1>7, GrowFollows
  <2>3. use' = "runs"
    BY <1>5, <1>7 DEF AppendToRun
  <2> QED
    BY <2>1, <2>2, <2>3
<1>8. CASE BeginRun
  <2>1. file' = file /\ Follows(s)'
    BY <1>4, <1>5, <1>8, BeginRunFollows
  <2>2. use' = "runs"
    BY <1>8 DEF BeginRun, UseForRuns
  <2>3. Survives(file, s)
    BY <1>4 DEF LeftGood
  <2> QED
    BY <2>1, <2>2, <2>3
<1>9. ASSUME NEW keys \in Payloads, AppendDirect(keys) PROVE FALSE
  BY <1>5, <1>9 DEF AppendDirect
<1>10. CASE BeginScan
  BY <1>5, <1>10 DEF BeginScan
<1> QED
  BY <1>6, <1>7, <1>8, <1>9, <1>10 DEF SeekAndWrite

LEMMA ReadStep ==
    ASSUME Inv, SavedInv, WrittenInv, LeftInv, disk = Null, ReadRun
    PROVE  SavedInv' /\ WrittenInv' /\ LeftInv'
<1>1. PICK s : s = Left
  OBVIOUS
<1>2. /\ os' = file /\ written' = Null /\ saved' = s
      /\ file' = file /\ use' = use /\ thrown' = thrown /\ open' = open
      /\ directory_' = directory_ /\ in_run_' = in_run_ /\ current_run_' = current_run_
      /\ write_offset_' = write_offset_
  BY <1>1 DEF ReadRun, vars, objectVars
<1>3. SUFFICES ASSUME s # Null
               PROVE  /\ Survives(file', s) /\ file'[1] = file[1] /\ file'[2] = file[2]
                      /\ use' = "runs" /\ ~thrown' /\ Follows(s)'
  BY <1>1, <1>2, Carried
<1>4. LeftGood(s)
  BY <1>1, <1>3, LeftSurvives
<1>5. use = "runs" /\ ~thrown /\ Follows(s)
  <2>1. use = "runs" /\ ~thrown /\ Follows(Left)
    BY <1>1, <1>3 DEF LeftInv
  <2> QED
    BY <1>1, <2>1
<1>6. Follows(s)'
  BY <1>2, <1>5 DEF Follows
<1> QED
  BY <1>2, <1>4, <1>5, <1>6 DEF LeftGood

(* The directory that is in the file stays where it is. *)
LEMMA FlushInPlace ==
    ASSUME Inv, AheadInv, DirInv, FlushDirectory, header_' = HeaderOf(file),
           NEW s, LeftGood(s), Follows(s)
    PROVE  /\ HeaderOut(file, header_', directory_) = file
           /\ Survives(file', s) /\ file' \in Seq(Int)
           /\ file'[1] = file[1] /\ file'[2] = file[2]
<1>1. /\ open /\ scan = Null /\ ~thrown /\ use = "runs"
      /\ file' = Flushed(file, header_, directory_, write_offset_)
      /\ header_' = [header_ EXCEPT !.directory_offset = write_offset_]
  BY DEF FlushDirectory, Ready
<1>2. /\ FileInv /\ file \in Seq(Int) /\ Len(file) >= 2
      /\ header_ \in [run_count : Nat, directory_offset : Nat]
      /\ header_.run_count = Len(directory_) /\ HEADER <= write_offset_
  BY <1>1 DEF Inv, FileInv, ObjectInv, DataInv
<1>3. WholeOf(file', directory_, write_offset_)
      /\ directory_ \in Seq(Entries) /\ write_offset_ \in Nat
  BY <1>1, FlushRoom
<1>4. PICK h \in [run_count : Nat, directory_offset : Nat] :
         h = header_' /\ h.run_count = Len(directory_) /\ h.directory_offset = write_offset_
  BY <1>1, <1>2, <1>3
<1>5. file[1] = Len(directory_) /\ file[2] = write_offset_ /\ h = HeaderOf(file)
  BY <1>4 DEF HeaderOf
<1>6. HeaderOut(file, header_', directory_) = file
  BY <1>2, <1>4, <1>5, SameHeader
<1>7. PICK e \in Seq(Entries) : e = s.directory
  BY DEF LeftGood
<1>8. PICK d \in Seq(Entries) : d = directory_
  BY <1>3
<1>9. PICK at \in Nat : at = write_offset_
  BY <1>3
<1>10. PICK g : g = file'
  OBVIOUS
<1>11. PICK f \in Seq(Int) : f = file
  BY <1>2
<1>12. PICK x \in [run_count : Nat, directory_offset : Nat] : x = header_
  BY <1>2
<1>13. g = Flushed(f, x, d, at) /\ WholeOf(g, d, at) /\ Len(f) >= 2 /\ HEADER <= at
  BY <1>1, <1>2, <1>3, <1>8, <1>9, <1>10, <1>11, <1>12
<1>14. Len(e) = Len(d) /\ Grown(e, d)
  BY <1>1, <1>5, <1>7, <1>8 DEF LeftGood, Sound, Follows
<1>15. Within(f, e) /\ Behind(e, at) /\ \A r \in DOMAIN e : MapRun(f, e, r - 1) = s.runs[r]
  BY <1>5, <1>7, <1>9, <1>11 DEF LeftGood, Sound, Survives, HasRuns
<1>16. \A r \in DOMAIN e : HEADER <= e[r].offset
  <2>1. Ordered(d)
    BY <1>1, <1>8 DEF Inv, DataInv
  <2>2. DOMAIN e = DOMAIN d
    BY <1>14
  <2> QED
    BY <1>14, <2>1, <2>2 DEF Grown, Ordered
<1>17. Survives(g, s)
  BY ONLY <1>7, <1>13, <1>14, <1>15, <1>16, f \in Seq(Int), d \in Seq(Entries), at \in Nat,
          x \in [run_count : Nat, directory_offset : Nat], e \in Seq(Entries), FlushSurvives
<1>18. g \in Seq(Int) /\ g[1] = file[1] /\ g[2] = file[2]
  BY <1>5, <1>8, <1>9, <1>13 DEF WholeOf, FlushOf
<1> QED
  BY <1>6, <1>10, <1>17, <1>18

(* What is written next goes behind the header that has left the process. *)
LEMMA FlushHalf ==
    ASSUME Inv, InFileInv, AheadInv, DirInv, FlushDirectory
    PROVE  /\ Half(HeaderOut(file, header_', directory_), file', Flush(directory_))
           /\ file'[2] = write_offset_
<1>1. /\ open /\ scan = Null /\ ~thrown /\ use = "runs"
      /\ file' = Flushed(file, header_, directory_, write_offset_)
      /\ header_' = [header_ EXCEPT !.directory_offset = write_offset_]
  BY DEF FlushDirectory, Ready
<1>2. PICK f \in Seq(Int) : f = file /\ Len(f) >= 2 /\ f[1] \in Nat /\ f[2] \in Nat
  BY DEF Inv, FileInv
<1>3. PICK d \in Seq(Entries) : d = directory_ /\ Len(d) > 0
  BY <1>1, FlushRoom
<1>4. PICK at \in Nat : at = write_offset_ /\ HEADER <= at
  BY DEF Inv, ObjectInv
<1>5. PICK h \in [run_count : Nat, directory_offset : Nat] : h = header_ /\ h.run_count = Len(d)
  BY <1>1, <1>3 DEF Inv, ObjectInv, DataInv
<1>6. Within(f, d) /\ Ordered(d) /\ Behind(d, at) /\ Room(f, d, at)
  BY <1>1, <1>2, <1>3, <1>4 DEF InFileInv, InFile, Within, Inv, DataInv, DirInv
<1>7. PICK o : o = HeaderOut(f, [h EXCEPT !.directory_offset = at], d)
  OBVIOUS
<1>8. PICK g : g = Flushed(f, h, d, at)
  OBVIOUS
<1>9. PICK s : s = Flush(d)
  OBVIOUS
<1>10. s.directory = d /\ \A r \in DOMAIN d : s.runs[r] = MapRun(f, d, r - 1)
  BY <1>2, <1>9, FlushIs
<1>11. Half(o, g, s)
  BY ONLY f \in Seq(Int), d \in Seq(Entries), at \in Nat,
          h \in [run_count : Nat, directory_offset : Nat],
          <1>2, <1>3, <1>4, <1>5, <1>6, <1>7, <1>8, <1>10, HalfFlushed
<1>12. WholeOf(g, d, at)
  BY <1>1, <1>2, <1>3, <1>4, <1>5, <1>8, FlushRoom
<1>13. g[2] = at
  BY <1>12 DEF WholeOf, FlushOf
<1> QED
  BY <1>1, <1>2, <1>3, <1>4, <1>5, <1>7, <1>8, <1>9, <1>11, <1>13

LEMMA FlushStep ==
    ASSUME Inv, InFileInv, AheadInv, DirInv, SavedInv, WrittenInv, LeftInv,
           disk = Null, FlushAndReturn
    PROVE  SavedInv' /\ WrittenInv' /\ LeftInv'
<1>1. /\ FlushDirectory
      /\ os' = HeaderOut(file, header_', directory_)
      /\ written' = Flush(directory_)
      /\ saved' # Null => saved' = Left /\ header_' = HeaderOf(file)
  BY DEF FlushAndReturn
<1>2. /\ open /\ ~thrown /\ use = "runs" /\ open' = open /\ use' = use /\ thrown' = thrown
      /\ directory_' = directory_ /\ write_offset_' = write_offset_
      /\ in_run_' = in_run_ /\ current_run_' = current_run_
  BY <1>1 DEF FlushDirectory, Ready
<1>3. Half(os', file', Flush(directory_)) /\ file'[2] = write_offset_
  BY <1>1, FlushHalf
<1>4. WrittenInv'
  <2>1. written'.directory = directory_
    BY <1>1, FlushIs
  <2> QED
    BY <1>1, <1>2, <1>3, <2>1 DEF WrittenInv
<1>5. ASSUME saved' # Null
      PROVE  /\ Left # Null /\ saved' = Left /\ LeftGood(Left)
             /\ os' = file /\ Survives(file', Left) /\ file' \in Seq(Int)
             /\ file'[1] = file[1] /\ file'[2] = file[2] /\ Follows(Left)
  <2>1. Left # Null /\ saved' = Left /\ header_' = HeaderOf(file)
    BY <1>1, <1>5
  <2>2. PICK s : s = Left
    OBVIOUS
  <2>3. LeftGood(s)
    BY <2>1, <2>2, LeftSurvives
  <2>4. Follows(s)
    <3>1. Follows(Left)
      BY <2>1 DEF LeftInv
    <3> QED
      BY <2>2, <3>1
  <2>5. /\ HeaderOut(file, header_', directory_) = file
        /\ Survives(file', s) /\ file' \in Seq(Int)
        /\ file'[1] = file[1] /\ file'[2] = file[2]
    BY <1>1, <2>1, <2>3, <2>4, FlushInPlace
  <2> QED
    BY <1>1, <2>1, <2>2, <2>3, <2>4, <2>5
<1>6. SavedInv'
  <2> SUFFICES ASSUME saved' # Null
               PROVE  /\ saved'.directory \in Seq(Entries) /\ Behind(saved'.directory, file'[2])
                      /\ os' \in Seq(Int) /\ os'[1] = file'[1] /\ os'[2] = file'[2]
                      /\ Survives(os', saved') /\ Survives(file', saved')
    BY DEF SavedInv
  <2>1. /\ saved' = Left /\ LeftGood(Left) /\ os' = file /\ Survives(file', Left)
        /\ file'[1] = file[1] /\ file'[2] = file[2]
    BY <1>5
  <2>2. file \in Seq(Int)
    BY DEF Inv, FileInv
  <2> QED
    BY <2>1, <2>2 DEF LeftGood
<1>7. LeftInv'
  <2>1. ASSUME written' # Null PROVE Follows(Left)'
    <3>1. Left' = Flush(directory_)
      BY <1>1, <2>1 DEF Left
    <3>2. Left'.directory = directory_
      BY <3>1, FlushIs
    <3>3. directory_ \in Seq(Entries)
      BY DEF Inv, ObjectInv
    <3>4. PICK d \in Seq(Entries) : d = directory_
      BY <3>3
    <3>5. PICK n \in Nat : n = Len(d) /\ DOMAIN d = 1 .. n
      OBVIOUS
    <3>6. Len(d) <= Len(d) /\ Grown(d, d) /\ \A r \in DOMAIN d : r > Len(d) => d[r].bytes = 0
      BY <3>5, EntryFields DEF Grown
    <3>7. write_offset_' = file'[2]
      BY <1>2, <1>3
    <3> QED
      BY <1>2, <3>2, <3>4, <3>6, <3>7 DEF Follows
  <2>2. ASSUME written' = Null, saved' # Null PROVE Follows(Left)'
    <3>1. Left' = saved'
      BY <2>2 DEF Left
    <3>2. saved' = Left /\ Follows(Left) /\ file'[2] = file[2]
      BY <1>5, <2>2
    <3> QED
      BY <1>2, <3>1, <3>2 DEF Follows
  <2>3. Left' # Null => written' # Null \/ (written' = Null /\ saved' # Null)
    BY DEF Left
  <2> QED
    BY <1>2, <2>1, <2>2, <2>3 DEF LeftInv
<1> QED
  BY <1>4, <1>6, <1>7

(* The object that has just flushed has the runs of the flush and no others. *)
LEMMA FollowsItself ==
    ASSUME NEW d \in Seq(Entries), NEW e, e = d
    PROVE  Len(d) <= Len(e) /\ Grown(d, e) /\ \A r \in DOMAIN e : r > Len(d) => e[r].bytes = 0
<1>1. PICK n \in Nat : n = Len(d) /\ DOMAIN d = 1 .. n
  OBVIOUS
<1>2. Grown(d, d)
  BY EntryFields DEF Grown
<1> QED
  BY <1>1, <1>2

LEMMA FinishStep ==
    ASSUME Inv, Inv', RawInv, InFileInv, ThrownInv, AheadInv, disk = Null,
           FinishScan, saved' = Flush(directory_'), os' = file', written' = Null
    PROVE  SavedInv' /\ WrittenInv' /\ LeftInv'
<1>1. /\ open /\ use' = "runs" /\ scan # Null /\ thrown' = thrown /\ in_run_' = in_run_
      /\ file' = Flushed(file, header_', directory_', write_offset_')
      /\ write_offset_' = scan.offset /\ scan.offset >= Len(file) * WORD
      /\ header_'.run_count = Len(directory_') /\ ~in_run_ /\ open' = open /\ scan' = Null
  BY DEF FinishScan, Inv, UseInv
<1>2. PICK d \in Seq(Entries) : d = directory_'
  BY DEF Inv, ObjectInv
<1>3. PICK at \in Nat : at = write_offset_' /\ HEADER <= at
  BY DEF Inv, ObjectInv
<1>4. PICK h \in [run_count : Nat, directory_offset : Nat] : h = header_' /\ h.run_count = Len(d)
  BY <1>1, <1>2 DEF Inv, ObjectInv
<1>5. Len(d) > 0 /\ Within(file, d)
  BY <1>2, ScanEnds DEF InFile, Within
<1>6. Ordered(d) /\ Behind(d, at)
  BY <1>1, <1>2, <1>3 DEF Inv, DataInv
<1>7. FileInv /\ file \in Seq(Int) /\ Len(file) >= 2
  BY DEF Inv, FileInv
<1>8. Len(file) <= at \div WORD + 3 * Len(d)
  <2>1. PICK lf \in Nat : lf = Len(file)
    BY <1>7
  <2>2. PICK m \in Nat : m = Len(d)
    OBVIOUS
  <2>3. lf * 8 <= at
    BY <1>1, <1>3, <2>1 DEF WORD
  <2>4. lf <= at \div 8
    BY ONLY <2>3, lf \in Nat, at \in Nat
  <2>5. PICK p \in Nat : p = at \div WORD
    BY WordsType
  <2>6. lf <= p
    BY <2>4, <2>5 DEF WORD
  <2>7. lf <= p + 3 * m
    BY ONLY <2>6, lf \in Nat, p \in Nat, m \in Nat
  <2> QED
    BY <2>1, <2>2, <2>5, <2>7
<1>9. PICK g : g = Flushed(file, h, d, at)
  OBVIOUS
<1>10. WholeOf(g, d, at)
  BY <1>3, <1>4, <1>5, <1>7, <1>8, <1>9, WholeFlush
<1>11. Survives(g, Flush(d)) /\ Behind(Flush(d).directory, g[2]) /\ g \in Seq(Int)
  BY ONLY <1>3, <1>4, <1>5, <1>6, <1>7, <1>9, <1>10, d \in Seq(Entries), at \in Nat,
          h \in [run_count : Nat, directory_offset : Nat], FlushLeaves
<1>12. file' = g
  BY <1>1, <1>2, <1>3, <1>4, <1>9
<1>13. saved' = Flush(d) /\ saved'.directory = d
  BY <1>2, FlushIs
<1>14. SavedInv'
  BY <1>11, <1>12, <1>13 DEF SavedInv
<1>15. WrittenInv'
  BY DEF WrittenInv
<1>16. Left' = saved'
  BY DEF Left
<1>17. ~thrown
  BY <1>1 DEF ThrownInv
<1>18. Follows(Left)'
  <2>1. /\ Len(d) <= Len(directory_') /\ Grown(d, directory_')
        /\ \A r \in DOMAIN directory_' : r > Len(d) => directory_'[r].bytes = 0
    BY <1>2, FollowsItself
  <2>2. Left'.directory = d /\ ~in_run_'
    BY <1>1, <1>13, <1>16
  <2> QED
    BY <2>1, <2>2 DEF Follows
<1>19. LeftInv'
  BY <1>1, <1>17, <1>18 DEF LeftInv
<1> QED
  BY <1>14, <1>15, <1>19

LEMMA CloseStep ==
    ASSUME Inv, InFileInv, AheadInv, DirInv, LeftInv, disk = Null, Close,
           saved' = IF directory_ = <<>> THEN Left ELSE Flush(directory_),
           os' = file', written' = Null
    PROVE  SavedInv' /\ WrittenInv' /\ LeftInv'
<1>1. /\ open /\ scan = Null /\ ~thrown /\ ~open' /\ use' = use /\ thrown' = thrown
      /\ directory_ # <<>> => file' = Flushed(file, header_, directory_, write_offset_)
  BY DEF Close, Ready
<1>2. WrittenInv' /\ Left' = saved'
  BY DEF WrittenInv, Left
<1>3. CASE directory_ = <<>>
  <2>1. use # "runs"
    <3>1. PICK n \in Nat : n = Len(directory_) /\ n = 0
      BY <1>3
    <3> QED
      BY <1>1, <3>1 DEF AheadInv
  <2>2. Left = Null
    BY <2>1 DEF LeftInv
  <2> QED
    BY <1>2, <1>3, <2>2 DEF SavedInv, LeftInv
<1>4. CASE directory_ # <<>>
  <2>1. use = "runs"
    BY <1>1, <1>4 DEF Inv, UseInv
  <2>2. /\ WholeOf(Flushed(file, header_, directory_, write_offset_), directory_, write_offset_)
        /\ Len(directory_) > 0
    BY <1>1, <2>1, FlushRoom
  <2>3. PICK d \in Seq(Entries) : d = directory_ /\ Len(d) > 0
    BY <2>2 DEF Inv, ObjectInv
  <2>4. PICK at \in Nat : at = write_offset_ /\ HEADER <= at
    BY DEF Inv, ObjectInv
  <2>5. PICK h \in [run_count : Nat, directory_offset : Nat] : h = header_
    BY DEF Inv, ObjectInv
  <2>6. PICK g : g = Flushed(file, h, d, at) /\ WholeOf(g, d, at)
    BY <2>2, <2>3, <2>4, <2>5
  <2>7. Within(file, d) /\ Ordered(d) /\ Behind(d, at) /\ FileInv
    BY <1>1, <2>3, <2>4 DEF InFileInv, InFile, Within, Inv, DataInv
  <2>8. Survives(g, Flush(d)) /\ Behind(Flush(d).directory, g[2]) /\ g \in Seq(Int)
    BY ONLY <2>3, <2>4, <2>6, <2>7, d \in Seq(Entries), at \in Nat,
            h \in [run_count : Nat, directory_offset : Nat], FlushLeaves
  <2>9. file' = g /\ saved' = Flush(d) /\ saved'.directory = d
    BY <1>1, <1>4, <2>3, <2>4, <2>5, <2>6, FlushIs
  <2>10. SavedInv'
    BY <2>8, <2>9 DEF SavedInv
  <2>11. LeftInv'
    BY <1>1, <2>1 DEF LeftInv, Follows
  <2> QED
    BY <1>2, <2>10, <2>11
<1> QED
  BY <1>3, <1>4

LEMMA WithoutStreamStep ==
    ASSUME Inv, SavedInv, WrittenInv, LeftInv, disk = Null, WithoutStream
    PROVE  SavedInv' /\ WrittenInv' /\ LeftInv'
<1>1. os' = os /\ written' = written /\ saved' = saved /\ Left' = Left
  BY DEF WithoutStream, crashVars, Left
<1>2. CASE EndRun
  <2>1. /\ file' = file /\ use' = use /\ thrown' = thrown /\ open' = open
        /\ directory_' = directory_ /\ write_offset_' = write_offset_ /\ ~in_run_'
    BY <1>2 DEF EndRun
  <2>2. SavedInv'
    BY <1>1, <2>1 DEF SavedInv
  <2>3. WrittenInv'
    BY <1>1, <2>1 DEF WrittenInv
  <2>4. LeftInv'
    BY <1>1, <2>1 DEF LeftInv, Follows
  <2> QED
    BY <2>2, <2>3, <2>4
<1>3. CASE ScanKey
  <2>1. use = "raw"
    BY <1>3 DEF ScanKey, Inv, UseInv
  <2>2. Left = Null
    BY <2>1 DEF LeftInv
  <2>3. written = Null /\ saved = Null
    BY <2>2 DEF Left
  <2> QED
    BY <1>1, <2>2, <2>3 DEF SavedInv, WrittenInv, LeftInv
<1>4. CASE Reopen
  <2>1. /\ file' = file /\ use' = use /\ thrown' = thrown /\ ~open /\ in_run_' = in_run_
        /\ directory_' = DirectoryOf(file) /\ ~in_run_
    BY <1>4 DEF Reopen, Inv, UseInv
  <2>2. written = Null
    BY <2>1 DEF WrittenInv
  <2>3. SavedInv' /\ WrittenInv'
    BY <1>1, <2>1, <2>2 DEF SavedInv, WrittenInv
  <2>4. ASSUME Left # Null PROVE Follows(Left)'
    <3>1. PICK s : s = Left
      OBVIOUS
    <3>2. LeftGood(s)
      BY <2>4, <3>1, LeftSurvives
    <3>3. Len(DirectoryOf(file)) = Len(s.directory) /\ Grown(s.directory, DirectoryOf(file))
      BY <3>2 DEF LeftGood, Survives, HasRuns
    <3>4. PICK m \in Nat : m = Len(s.directory)
      BY <3>2 DEF LeftGood
    <3>5. DOMAIN DirectoryOf(file) = 1 .. m
      <4>1. PICK x \in Nat : x = file[2]
        BY DEF Inv, FileInv
      <4>2. PICK p \in Nat : p = x \div WORD
        BY WordsType
      <4>3. file[1] = m
        BY <3>2, <3>4 DEF LeftGood, Sound
      <4>4. file[2] \div WORD = p
        BY <4>1, <4>2
      <4> QED
        BY ONLY m \in Nat, p \in Nat, <4>3, <4>4, EntriesOf
    <3>6. \A r \in DOMAIN DirectoryOf(file) :
             r > Len(s.directory) => DirectoryOf(file)[r].bytes = 0
      BY <3>4, <3>5
    <3>7. Len(s.directory) <= Len(DirectoryOf(file))
      BY <3>3, <3>4
    <3>8. s = Left'
      BY <1>1, <3>1
    <3> QED
      BY <2>1, <3>3, <3>6, <3>7, <3>8 DEF Follows
  <2>5. LeftInv'
    BY <1>1, <2>1, <2>4 DEF LeftInv
  <2> QED
    BY <2>3, <2>5
<1> QED
  BY <1>2, <1>3, <1>4 DEF WithoutStream

LEMMA CallStep ==
    ASSUME Inv, Inv', RawInv, InFileInv, AheadInv, ThrownInv, DirInv,
           SavedInv, WrittenInv, LeftInv, disk = Null, Call
    PROVE  SavedInv' /\ WrittenInv' /\ LeftInv'
<1>1. CASE SeekAndWrite
  BY <1>1, SeekStep
<1>2. CASE ReadRun
  BY <1>2, ReadStep
<1>3. CASE FlushAndReturn
  BY <1>3, FlushStep
<1>4. CASE FlushAndLeave
  <2>1. os' = file' /\ written' = Null
    BY <1>4 DEF FlushAndLeave
  <2>2. CASE FinishScan /\ saved' = Flush(directory_')
    BY <2>1, <2>2, FinishStep
  <2>3. CASE Close /\ saved' = IF directory_ = <<>> THEN Left ELSE Flush(directory_)
    BY <2>1, <2>3, CloseStep
  <2> QED
    BY <1>4, <2>2, <2>3 DEF FlushAndLeave
<1>5. CASE WithoutStream
  BY <1>5, WithoutStreamStep
<1> QED
  BY <1>1, <1>2, <1>3, <1>4, <1>5 DEF Call

----------------------------------------------------------------------------
(* The crash *)

Noticed(t, s) ==
    /\ t # Null
    /\ ~Refused(t) =>
          /\ HasRuns(t, s)
          /\ \A r \in DOMAIN s.directory : DirectoryOf(t)[r].bytes <= s.directory[r].bytes

LEMMA HalfKilled ==
    ASSUME NEW f, NEW g, NEW s, Half(f, g, s), NEW n \in Nat, n <= Len(g),
           NEW t, t = Torn(f, g, n)
    PROVE  Noticed(t, s)
<1>1. f \in Seq(Int) /\ g \in Seq(Int) /\ g[2] \in Nat
  BY DEF Half
<1>2. TornOf(t, f, g, n)
  BY <1>1, TornWords
<1>3. t \in Seq(Int) /\ t # Null
  BY <1>2, FileAssumption DEF TornOf
<1>4. ASSUME ~Refused(t)
      PROVE  HasRuns(t, s) /\ Grown(DirectoryOf(t), s.directory)
  BY <1>4, TornNoticed
<1>5. ASSUME ~Refused(t), NEW r \in DOMAIN s.directory
      PROVE  DirectoryOf(t)[r].bytes <= s.directory[r].bytes
  <2>1. PICK d \in Seq(Entries) : d = s.directory
    BY DEF Half
  <2>2. PICK m \in Nat : m = Len(d)
    OBVIOUS
  <2>3. PICK p \in Nat : p = g[2] \div WORD
    BY <1>1, WordsType
  <2>4. t[1] = m /\ t[2] \div WORD = p
    <3>1. Len(t) >= 2
      BY <1>5 DEF Refused, HEADER, WORD
    <3>2. f[1] = m /\ g[1] = m /\ f[2] = g[2]
      BY <2>1, <2>2 DEF Half
    <3>3. 1 \in 1 .. Len(t) /\ 2 \in 1 .. Len(t)
      BY ONLY <1>3, <3>1
    <3>4. (t[1] = g[1] \/ t[1] = f[1]) /\ (t[2] = g[2] \/ t[2] = f[2])
      BY <1>2, <3>3 DEF TornOf
    <3> QED
      BY <2>3, <3>2, <3>4
  <2>5. DOMAIN DirectoryOf(t) = 1 .. m
    BY ONLY m \in Nat, p \in Nat, <2>4, EntriesOf
  <2>6. r \in DOMAIN DirectoryOf(t)
    BY <1>5, <2>1, <2>2, <2>5
  <2> QED
    BY <1>4, <1>5, <2>6 DEF Grown
<1> QED
  BY <1>3, <1>4, <1>5 DEF Noticed

LEMMA KilledStep ==
    ASSUME Inv, SavedInv, WrittenInv, LeftInv, disk = Null, Killed
    PROVE  SavedInv' /\ WrittenInv' /\ LeftInv' /\ FlushedSurvives' /\ TornFlushNoticed'
<1>1. PICK n \in Nat : n <= Len(file) /\ disk' = Torn(os, file, n)
  <2>1. \E n \in 0 .. Len(file) : disk' = Torn(os, file, n)
    BY DEF Killed
  <2>2. PICK l \in Nat : l = Len(file)
    BY DEF Inv, FileInv
  <2> QED
    BY <2>1, <2>2
<1>2. written' = written /\ saved' = saved /\ Left' = Left
  BY DEF Killed, crashVars, Left
<1>3. PICK g \in Seq(Int) : g = file /\ g[1] \in Nat /\ g[2] \in Nat
  BY DEF Inv, FileInv
<1>4. PICK f : f = os
  OBVIOUS
<1>5. ASSUME saved # Null
      PROVE  /\ disk' # Null
             /\ ~Refused(disk') /\ HasRuns(disk', saved)
             /\ \A r \in DOMAIN saved.directory :
                   DirectoryOf(disk')[r].bytes >= saved.directory[r].bytes
  <2>1. PICK s : s = saved
    OBVIOUS
  <2>2. /\ s.directory \in Seq(Entries) /\ Behind(s.directory, g[2])
        /\ f \in Seq(Int) /\ f[1] = g[1] /\ f[2] = g[2]
        /\ Survives(f, s) /\ Survives(g, s)
    BY <1>3, <1>4, <1>5, <2>1 DEF SavedInv
  <2>3. n <= Len(g)
    BY <1>1, <1>3
  <2>4. Survives(Torn(f, g, n), s)
    BY ONLY g \in Seq(Int), n \in Nat, <1>3, <2>2, <2>3, TornSurvives
  <2>5. Torn(f, g, n) \in Seq(Int)
    BY <2>2, <2>3, TornWords DEF TornOf
  <2>6. PICK t : t = Torn(f, g, n) /\ disk' = t
    BY <1>1, <1>3, <1>4
  <2>7. t # Null
    BY <2>5, <2>6, FileAssumption
  <2>8. ~Refused(t) /\ HasRuns(t, s) /\ Grown(s.directory, DirectoryOf(t))
    BY <2>4, <2>6 DEF Survives
  <2>9. ASSUME NEW r \in DOMAIN s.directory
        PROVE  DirectoryOf(t)[r].bytes >= s.directory[r].bytes
    BY <2>8 DEF Grown
  <2> QED
    BY <2>1, <2>6, <2>7, <2>8, <2>9
<1>6. ASSUME written # Null
      PROVE  /\ disk' # Null
             /\ ~Refused(disk') =>
                   /\ HasRuns(disk', written)
                   /\ \A r \in DOMAIN written.directory :
                         DirectoryOf(disk')[r].bytes <= written.directory[r].bytes
  <2>1. PICK s : s = written
    OBVIOUS
  <2>2. Half(f, g, s)
    BY <1>3, <1>4, <1>6, <2>1 DEF WrittenInv
  <2>3. n <= Len(g)
    BY <1>1, <1>3
  <2>4. PICK t : t = Torn(f, g, n) /\ disk' = t
    BY <1>1, <1>3, <1>4
  <2>5. Noticed(t, s)
    BY ONLY n \in Nat, <2>2, <2>3, <2>4, HalfKilled
  <2> QED
    BY <2>1, <2>4, <2>5 DEF Noticed
<1>7. SavedInv' /\ WrittenInv'
  BY <1>2, <1>5, <1>6 DEF SavedInv, WrittenInv
<1>8. LeftInv'
  <2>1. Left # Null => written # Null \/ saved # Null
    BY DEF Left
  <2> QED
    BY <1>2, <1>5, <1>6, <2>1 DEF LeftInv
<1>9. FlushedSurvives'
  BY <1>2, <1>5 DEF FlushedSurvives
<1>10. TornFlushNoticed'
  BY <1>2, <1>6 DEF TornFlushNoticed
<1> QED
  BY <1>7, <1>8, <1>9, <1>10

LEMMA KilledInScanStep ==
    ASSUME Inv, Inv', RawInv, InFileInv, disk = Null, KilledInScan
    PROVE  SavedInv' /\ WrittenInv' /\ LeftInv' /\ FlushedSurvives' /\ TornFlushNoticed'
<1>1. /\ open /\ use = "raw" /\ scan # Null /\ FinishScan /\ scan' = Null /\ open' = open
      /\ file' = Flushed(file, header_', directory_', write_offset_')
      /\ write_offset_' = scan.offset /\ scan.offset >= Len(file) * WORD
      /\ header_' = [run_count |-> Len(directory_'), directory_offset |-> write_offset_']
      /\ os' = HeaderOut(file, header_', directory_') /\ written' = Flush(directory_')
      /\ saved' = Null
      /\ \E n \in 0 .. Len(file') : disk' = Torn(os', file', n)
  BY DEF KilledInScan, FinishScan, Inv, UseInv
<1>2. PICK d \in Seq(Entries) : d = directory_'
  BY DEF Inv, ObjectInv
<1>3. PICK at \in Nat : at = write_offset_' /\ HEADER <= at
  BY DEF Inv, ObjectInv
<1>4. PICK h \in [run_count : Nat, directory_offset : Nat] :
         h = header_' /\ h.run_count = Len(d) /\ h.directory_offset = at
  BY <1>1, <1>2, <1>3 DEF Inv, ObjectInv
<1>5. PICK f \in Seq(Int) : f = file /\ Len(f) >= 2 /\ f[1] \in Nat /\ f[2] \in Nat
  BY DEF Inv, FileInv
<1>6. Len(d) > 0 /\ Within(f, d)
  BY <1>1, <1>2, <1>5, ScanEnds DEF InFile, Within
<1>7. Ordered(d) /\ Behind(d, at)
  BY <1>1, <1>2, <1>3 DEF Inv, DataInv
<1>8. Room(f, d, at)
  <2>1. PICK lf \in Nat : lf = Len(f)
    OBVIOUS
  <2>2. PICK m \in Nat : m = Len(d) /\ m > 0
    BY <1>6
  <2>3. lf * 8 <= at
    BY <1>1, <1>3, <1>5, <2>1 DEF WORD
  <2>4. lf <= at \div 8
    BY ONLY <2>3, lf \in Nat, at \in Nat
  <2>5. PICK p \in Nat : p = at \div WORD
    BY WordsType
  <2>6. lf <= p
    BY <2>4, <2>5 DEF WORD
  <2>7. lf < p + 3 * m
    BY ONLY <2>2, <2>6, lf \in Nat, p \in Nat, m \in Nat
  <2>8. f[2] \div WORD = 0
    <3>1. f[2] = 0
      BY <1>1, <1>5 DEF RawInv
    <3> QED
      BY <3>1 DEF WORD
  <2>9. p # 0
    BY <1>5, <2>1, <2>6
  <2> QED
    BY <2>1, <2>2, <2>5, <2>7, <2>8, <2>9 DEF Room
<1>9. PICK o : o = HeaderOut(f, [h EXCEPT !.directory_offset = at], d)
  OBVIOUS
<1>10. PICK g : g = Flushed(f, h, d, at)
  OBVIOUS
<1>11. PICK s : s = Flush(d)
  OBVIOUS
<1>12. s.directory = d /\ \A r \in DOMAIN d : s.runs[r] = MapRun(f, d, r - 1)
  BY <1>5, <1>11, FlushIs
<1>13. Half(o, g, s)
  BY ONLY f \in Seq(Int), d \in Seq(Entries), at \in Nat,
          h \in [run_count : Nat, directory_offset : Nat],
          <1>3, <1>4, <1>5, <1>6, <1>7, <1>8, <1>9, <1>10, <1>12, HalfFlushed
<1>14. os' = o /\ file' = g /\ written' = s
  <2>1. [h EXCEPT !.directory_offset = at] = h
    BY <1>4
  <2> QED
    BY <1>1, <1>2, <1>3, <1>4, <1>5, <1>9, <1>10, <1>11, <2>1
<1>15. PICK n \in Nat : n <= Len(g) /\ disk' = Torn(o, g, n)
  <2>1. \E n \in 0 .. Len(g) : disk' = Torn(o, g, n)
    BY <1>1, <1>14
  <2>2. g \in Seq(Int)
    BY <1>13 DEF Half
  <2>3. PICK l \in Nat : l = Len(g)
    BY ONLY <2>2
  <2> QED
    BY <2>1, <2>3
<1>16. PICK t : t = Torn(o, g, n) /\ disk' = t
  BY <1>15
<1>17. Noticed(t, s)
  BY ONLY n \in Nat, <1>13, <1>15, <1>16, HalfKilled
<1>18. disk' # Null /\ TornFlushNoticed'
  BY <1>14, <1>16, <1>17 DEF Noticed, TornFlushNoticed
<1> QED
  BY <1>1, <1>18 DEF SavedInv, WrittenInv, LeftInv, FlushedSurvives

----------------------------------------------------------------------------
LEMMA CrashInitInv == CrashInit => CrashInv
<1> SUFFICES ASSUME CrashInit PROVE CrashInv
  OBVIOUS
<1>1. Init /\ disk = Null /\ written = Null /\ saved = Null
  BY DEF CrashInit
<1>2. StoreInv
  BY <1>1, StoreInitInv
<1>3. use = "fresh" /\ Len(file) = 2 /\ open /\ ~thrown
  BY <1>1 DEF Init, HeaderWords
<1>4. DirInv /\ ThrownInv
  BY <1>3 DEF DirInv, ThrownInv
<1>5. Left = Null
  BY <1>1 DEF Left
<1> QED
  BY <1>1, <1>2, <1>4, <1>5
  DEF CrashInv, SavedInv, WrittenInv, LeftInv, FlushedSurvives, TornFlushNoticed

LEMMA CrashNextInv == CrashInv /\ [CrashNext]_allVars => CrashInv'
<1> SUFFICES ASSUME CrashInv, [CrashNext]_allVars PROVE CrashInv'
  OBVIOUS
<1>1. /\ StoreInv /\ Inv /\ RawInv /\ InFileInv /\ AheadInv /\ ThrownInv /\ DirInv
      /\ SavedInv /\ WrittenInv /\ LeftInv /\ FlushedSurvives /\ TornFlushNoticed
  BY DEF CrashInv, StoreInv
<1>2. CASE UNCHANGED allVars
  <2>1. UNCHANGED vars /\ os' = os /\ written' = written /\ saved' = saved /\ disk' = disk
    BY <1>2 DEF allVars, crashVars
  <2>2. StoreInv'
    BY <1>1, <2>1, StoreNextInv
  <2>3. /\ file' = file /\ open' = open /\ use' = use /\ thrown' = thrown /\ scan' = scan
        /\ directory_' = directory_ /\ write_offset_' = write_offset_
        /\ in_run_' = in_run_ /\ current_run_' = current_run_ /\ Left' = Left
    BY <2>1 DEF vars, objectVars, Left
  <2>4. DirInv' /\ ThrownInv'
    BY <1>1, <2>3 DEF DirInv, ThrownInv
  <2>5. SavedInv' /\ WrittenInv'
    BY <1>1, <2>1, <2>3 DEF SavedInv, WrittenInv
  <2>6. LeftInv'
    BY <1>1, <2>1, <2>3 DEF LeftInv, Follows
  <2>7. FlushedSurvives' /\ TornFlushNoticed'
    BY <1>1, <2>1 DEF FlushedSurvives, TornFlushNoticed
  <2> QED
    BY <2>2, <2>4, <2>5, <2>6, <2>7 DEF CrashInv
<1>3. CASE CrashNext
  <2>1. disk = Null /\ (Call \/ Killed \/ KilledInScan)
    BY <1>3 DEF CrashNext, Crash
  <2>2. Next \/ UNCHANGED vars
    BY <2>1 DEF Call, SeekAndWrite, ReadRun, FlushAndReturn, FlushAndLeave, WithoutStream,
       Killed, KilledInScan, Next, RunStoreCall, CreateEntries
  <2>3. StoreInv' /\ Inv' /\ AheadInv'
    BY <1>1, <2>2, StoreNextInv DEF StoreInv
  <2>4. DirInv' /\ ThrownInv'
    <3>1. CASE Next
      BY <1>1, <2>3, <3>1, DirStep, ThrownStep
    <3>2. CASE UNCHANGED vars
      BY <1>1, <3>2 DEF vars, objectVars, DirInv, ThrownInv
    <3> QED
      BY <2>2, <3>1, <3>2
  <2>5. CASE Call
    <3>1. SavedInv' /\ WrittenInv' /\ LeftInv'
      BY <1>1, <2>1, <2>3, <2>5, CallStep
    <3>2. disk' = Null
      BY <2>1, <2>5 DEF Call
    <3>3. FlushedSurvives' /\ TornFlushNoticed'
      BY <3>2 DEF FlushedSurvives, TornFlushNoticed
    <3> QED
      BY <2>3, <2>4, <3>1, <3>3 DEF CrashInv
  <2>6. CASE Killed
    BY <1>1, <2>1, <2>3, <2>4, <2>6, KilledStep DEF CrashInv
  <2>7. CASE KilledInScan
    BY <1>1, <2>1, <2>3, <2>4, <2>7, KilledInScanStep DEF CrashInv
  <2> QED
    BY <2>1, <2>5, <2>6, <2>7
<1> QED
  BY <1>2, <1>3

(* In every state before and after a crash, whatever the object has and the file has *)
(* agrees, and the file is as it must be for the two properties below.               *)
THEOREM CrashInvariant == CrashSpec => []CrashInv
BY CrashInitInv, CrashNextInv, PTL DEF CrashSpec

(* A directory that has left the process survives a kill, with all its runs, even    *)
(* inside append_to_run or the next flush, until a run is added that takes a block or *)
(* the header of another directory is written.                                       *)
THEOREM FlushedStays == CrashSpec => []FlushedSurvives
<1>1. CrashInv => FlushedSurvives
  BY DEF CrashInv
<1> QED
  BY <1>1, CrashInvariant, PTL

(* A kill after flush_directory's header and before its whole directory has left the *)
(* process is noticed by the constructor, or leaves the runs of the flush.           *)
THEOREM TornFlushIsNoticed == CrashSpec => []TornFlushNoticed
<1>1. CrashInv => TornFlushNoticed
  BY DEF CrashInv
<1> QED
  BY <1>1, CrashInvariant, PTL
=============================================================================
