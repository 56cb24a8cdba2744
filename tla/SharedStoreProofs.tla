-------------------------- MODULE SharedStoreProofs --------------------------
(***************************************************************************)
(* Theorems about SharedStore, for every number of buffers, runs, chunks   *)
(* and batches: which overlaps of two calls can do harm.                   *)
(***************************************************************************)
EXTENDS SharedStore, FiniteSetTheorems, SequenceTheorems, TLAPS

InputPCs == {"get", "back", "pop", "ref", "seek", "read", "add", "threw"}
MergePCs == {"idle", "load", "store", "push", "entry", "write"}

TypeInv ==
    /\ disk \in [Cells -> Cells \cup {Null}] /\ pos \in Nat
    /\ moved \in Nat /\ entries \in Nat
    /\ slot \in [Buffers -> Buffers] /\ finish \in 0 .. PoolSize
    /\ content \in [Buffers -> Cells \cup {Null}]
    /\ queue \in Seq(Buffers \X Chunks)
    /\ ipc \in InputPCs /\ chunk \in Chunks
    /\ hand \in Buffers \cup {Null} /\ top \in 0 .. PoolSize /\ ref \in Nat
    /\ mpc \in MergePCs /\ taken \in (Buffers \X Chunks) \cup {Null}
    /\ end \in 0 .. PoolSize /\ written \in 0 .. Batches
    /\ raced \subseteq {"pool", "stream", "entry"}

(* Which thread has a buffer in its hands. *)
HandInv ==
    /\ hand # Null <=> ipc \in {"pop", "ref", "seek", "read", "add", "threw"}
    /\ taken # Null <=> mpc \in {"load", "store", "push"}
    /\ mpc = "write" => written < Batches

(* The end a thread has loaded is still the vector's end when it stores its own *)
(* and every buffer is in one place.                                            *)
PoolInv ==
    /\ ipc \in {"back", "pop"} => top = finish /\ finish # 0
    /\ ipc = "pop" => hand = slot[top]
    /\ mpc \in {"store", "push"} => end = finish
    /\ mpc = "push" => finish < PoolSize /\ slot[finish + 1] = taken[1]
    /\ \A b \in Buffers : \E p : Places(b) = {p}

(* The stream is where the merge thread has put it, and the file is as written. *)
StreamInv ==
    /\ mpc = "write" => pos = NewRun + written
    /\ \A c \in Cells : disk[c] = IF c < NewRun + written THEN c ELSE Null

(* The chunk under way: the stream is at it, then the buffer holds it.          *)
ChunkInv ==
    /\ ipc = "read" => pos = chunk
    /\ ipc = "add" => content[hand] = chunk
    /\ \A e \in Range(queue) \cup ({taken} \ {Null}) : content[e[1]] = e[2]

IInv ==
    /\ TypeInv
    /\ "pool" \notin raced => HandInv /\ PoolInv
    /\ "stream" \notin raced => StreamInv
    /\ raced = {} => ChunkInv
    /\ ThrowsOnlyIfRaced

----------------------------------------------------------------------------
(* Facts about the data *)

LEMMA SizeFacts ==
    /\ PoolSize \in Nat \ {0} /\ Batches \in Nat /\ Null \notin Nat /\ Null \notin Buffers \X Chunks
    /\ NewRun \in Nat \ {0}
    /\ Chunks \subseteq Cells /\ Cells \subseteq Nat
    /\ \A n : n \in Buffers <=> n \in 1 .. PoolSize
    /\ \A n : n \in Cells <=> n \in 0 .. NewRun + Batches - 1
    /\ \A n : n \in Chunks <=> n \in 0 .. NewRun - 1
<1>1. PoolSize \in Nat \ {0} /\ Batches \in Nat /\ Null \notin Nat
  BY StoreAssumption
<1>2. NewRun \in Nat \ {0}
  <2>1. \A m, n \in Nat \ {0} : m * n \in Nat \ {0}
    OBVIOUS
  <2> QED
    BY <2>1, StoreAssumption DEF NewRun
<1>3. Buffers \subseteq Nat /\ Chunks \subseteq Nat
  BY <1>1, <1>2 DEF Buffers, Chunks
<1>4. Null \notin Buffers \X Chunks
  BY <1>3, StoreAssumption
<1> QED
  BY <1>1, <1>2, <1>4 DEF Chunks, Cells, Buffers

----------------------------------------------------------------------------
(* Type correctness *)

LEMMA TypeInit == Init => TypeInv /\ HandInv /\ PoolInv /\ StreamInv /\ ChunkInv
<1> SUFFICES ASSUME Init PROVE TypeInv /\ HandInv /\ PoolInv /\ StreamInv /\ ChunkInv
  OBVIOUS
<1> USE SizeFacts
<1>1. TypeInv
  BY StoreAssumption DEF Init, TypeInv, InputPCs, MergePCs
<1>2. HandInv
  BY DEF Init, HandInv
<1>3. PoolInv
  <2>1. ASSUME NEW b \in Buffers PROVE Places(b) = {<<"pool", b>>}
    BY DEF Init, Places
  <2> QED
    BY <2>1 DEF Init, PoolInv
<1>4. StreamInv
  BY DEF Init, StreamInv
<1>5. ChunkInv
  BY DEF Init, ChunkInv, Range
<1> QED
  BY <1>1, <1>2, <1>3, <1>4, <1>5

(* A step of the input thread keeps every variable in its type. *)
LEMMA InputTypes ==
    ASSUME TypeInv, HandInv, PoolInv, Input
    PROVE  TypeInv'
<1> USE SizeFacts DEF fileVars, poolVars, mergeVars, InputPCs, MergePCs, InputStep, Race
<1>1. CASE LoadEnd
  <2>1. top' \in 0 .. PoolSize
    BY <1>1 DEF LoadEnd, TypeInv
  <2> QED
    BY <1>1, <2>1 DEF LoadEnd, TypeInv
<1>2. CASE Back
  <2>1. slot[top] \in Buffers
    BY <1>2 DEF Back, TypeInv, PoolInv
  <2> QED
    BY <1>2, <2>1 DEF Back, TypeInv
<1>3. CASE PopBack
  BY <1>3 DEF PopBack, TypeInv, PoolInv, Popped
<1>4. CASE TakeReference
  BY <1>4 DEF TakeReference, TypeInv
<1>5. CASE Seekg
  <2>1. pos' \in Nat
    <3>1. pos' \in {chunk} \cup Positions
      BY <1>5 DEF Seekg, Sought
    <3> QED
      BY <3>1 DEF TypeInv, Positions
  <2>2. raced' \subseteq {"pool", "stream", "entry"}
    BY <1>5 DEF Seekg, TypeInv
  <2> QED
    BY <1>5, <2>1, <2>2 DEF Seekg, TypeInv
<1>6. CASE ReadChunk
  <2>1. content' \in [Buffers -> Cells \cup {Null}]
    <3>1. disk[pos] \in Cells \cup {Null}
      BY <1>6 DEF ReadChunk, TypeInv
    <3> QED
      BY <1>6, <3>1 DEF ReadChunk, TypeInv
  <2>2. pos' \in Nat
    BY <1>6 DEF ReadChunk, TypeInv
  <2> QED
    BY <1>6, <2>1, <2>2 DEF ReadChunk, TypeInv
<1>7. CASE AddBuffer
  <2>1. <<hand, chunk>> \in Buffers \X Chunks
    BY <1>7 DEF AddBuffer, TypeInv, HandInv
  <2> QED
    BY <1>7, <2>1 DEF AddBuffer, TypeInv
<1>8. CASE OutOfRange
  BY <1>8 DEF OutOfRange, TypeInv
<1>9. CASE ReadFails
  BY <1>9 DEF ReadFails, TypeInv
<1> QED
  BY <1>1, <1>2, <1>3, <1>4, <1>5, <1>6, <1>7, <1>8, <1>9 DEF Input

(* A step of the merge thread keeps every variable in its type. *)
LEMMA MergeTypes ==
    ASSUME TypeInv, HandInv, PoolInv, Merge
    PROVE  TypeInv'
<1> USE SizeFacts DEF fileVars, poolVars, inputVars, InputPCs, MergePCs, MergeStep, Race
<1>1. CASE TakeQueued
  BY <1>1 DEF TakeQueued, TypeInv
<1>2. CASE LoadFree
  BY <1>2 DEF LoadFree, TypeInv
<1>3. CASE StoreBuffer
  BY <1>3 DEF StoreBuffer, TypeInv, HandInv
<1>4. CASE StoreEnd
  BY <1>4 DEF StoreEnd, TypeInv, PoolInv, Pushed
<1>5. CASE BeginSeek
  BY <1>5 DEF BeginSeek, TypeInv
<1>6. CASE PushEntry
  BY <1>6 DEF PushEntry, TypeInv
<1>7. CASE AppendSeek
  BY <1>7 DEF AppendSeek, TypeInv, AppendOffset
<1>8. CASE AppendWrite
  <2>1. written' \in 0 .. Batches /\ NewRun + written \in Cells
    <3>1. written \in 0 .. Batches - 1 /\ written' = written + 1
      BY <1>8 DEF AppendWrite, TypeInv, HandInv
    <3> QED
      BY <3>1
  <2>2. disk' \in [Cells -> Cells \cup {Null}]
    BY <1>8, <2>1 DEF AppendWrite, TypeInv
  <2>3. pos' \in Nat
    BY <1>8 DEF AppendWrite, TypeInv
  <2> QED
    BY <1>8, <2>1, <2>2, <2>3 DEF AppendWrite, TypeInv, fileVars
<1> QED
  BY <1>1, <1>2, <1>3, <1>4, <1>5, <1>6, <1>7, <1>8 DEF Merge

(* The two threads and their hands. *)
LEMMA HandStep ==
    ASSUME TypeInv, HandInv, PoolInv, Input \/ Merge
    PROVE  HandInv'
<1> USE SizeFacts DEF fileVars, poolVars, inputVars, mergeVars, InputPCs, MergePCs, InputStep,
        MergeStep, HandInv
<1>1. CASE Input
  <2>1. CASE LoadEnd
    BY <2>1 DEF LoadEnd
  <2>2. CASE Back
    BY <2>2 DEF Back, TypeInv, PoolInv
  <2>3. CASE PopBack
    BY <2>3 DEF PopBack
  <2>4. CASE TakeReference
    BY <2>4 DEF TakeReference
  <2>5. CASE Seekg
    BY <2>5 DEF Seekg
  <2>6. CASE ReadChunk
    BY <2>6 DEF ReadChunk
  <2>7. CASE AddBuffer
    BY <2>7 DEF AddBuffer
  <2>8. CASE OutOfRange \/ ReadFails
    BY <2>8 DEF OutOfRange, ReadFails
  <2> QED
    BY <1>1, <2>1, <2>2, <2>3, <2>4, <2>5, <2>6, <2>7, <2>8 DEF Input
<1>2. CASE Merge
  <2>1. CASE TakeQueued
    <3>1. Head(queue) \in Buffers \X Chunks
      BY <2>1 DEF TakeQueued, TypeInv
    <3> QED
      BY <2>1, <3>1 DEF TakeQueued
  <2>2. CASE LoadFree
    BY <2>2 DEF LoadFree
  <2>3. CASE StoreBuffer
    BY <2>3 DEF StoreBuffer
  <2>4. CASE StoreEnd
    BY <2>4 DEF StoreEnd
  <2>5. CASE BeginSeek
    BY <2>5 DEF BeginSeek
  <2>6. CASE PushEntry
    BY <2>6 DEF PushEntry
  <2>7. CASE AppendSeek
    BY <2>7 DEF AppendSeek
  <2>8. CASE AppendWrite
    BY <2>8 DEF AppendWrite
  <2> QED
    BY <1>2, <2>1, <2>2, <2>3, <2>4, <2>5, <2>6, <2>7, <2>8 DEF Merge
<1> QED
  BY <1>1, <1>2

----------------------------------------------------------------------------
(* The places of a buffer *)

LEMMA PlacesOf ==
    ASSUME NEW b
    PROVE  \A p : p \in Places(b) <=>
             \/ \E n \in 1 .. finish :
                   p = <<"pool", n>> /\ slot[n] = b /\ ~(ipc = "pop" /\ n = top)
             \/ \E n \in DOMAIN queue : p = <<"queue", n>> /\ queue[n][1] = b
             \/ p = <<"input", 0>> /\ hand = b
             \/ p = <<"merge", 0>> /\ taken # Null /\ taken[1] = b
BY DEF Places

LEMMA PlacesOfNext ==
    ASSUME NEW b
    PROVE  \A p : p \in Places(b)' <=>
             \/ \E n \in 1 .. finish' :
                   p = <<"pool", n>> /\ slot'[n] = b /\ ~(ipc' = "pop" /\ n = top')
             \/ \E n \in DOMAIN queue' : p = <<"queue", n>> /\ queue'[n][1] = b
             \/ p = <<"input", 0>> /\ hand' = b
             \/ p = <<"merge", 0>> /\ taken' # Null /\ taken'[1] = b
BY DEF Places

(* A step that moves no buffer. *)
LEMMA SamePlaces ==
    ASSUME NEW b, UNCHANGED <<queue, hand, taken>>,
           \A n : n \in 1 .. finish' /\ ~(ipc' = "pop" /\ n = top') <=>
                  n \in 1 .. finish /\ ~(ipc = "pop" /\ n = top),
           \A n \in 1 .. finish : slot'[n] = slot[n]
    PROVE  Places(b)' = Places(b)
<1>1. \A p : p \in Places(b)' <=> p \in Places(b)
  BY PlacesOf, PlacesOfNext
<1> QED
  BY <1>1

(* A buffer that is in two places differs from itself. *)
LEMMA OnlyPlace ==
    ASSUME NEW b \in Buffers, PoolInv, NEW p \in Places(b)
    PROVE  Places(b) = {p}
BY DEF PoolInv

(* A buffer in the merge thread's hands leaves room for it in the vector. *)
LEMMA RoomForTaken ==
    ASSUME TypeInv, HandInv, PoolInv, taken # Null
    PROVE  finish < PoolSize
<1> DEFINE S == 1 .. finish
           T == Buffers \ {taken[1]}
           f == [n \in S |-> slot[n]]
           where(n) == IF ipc = "pop" /\ n = top THEN <<"input", 0>> ELSE <<"pool", n>>
<1>1. taken[1] \in Buffers /\ finish \in 0 .. PoolSize /\ slot \in [Buffers -> Buffers]
  BY SizeFacts DEF TypeInv
<1>2. <<"merge", 0>> \in Places(taken[1])
  BY PlacesOf
<1>3. ASSUME NEW n \in S PROVE where(n) \in Places(slot[n])
  <2>1. CASE ipc = "pop" /\ n = top
    BY <2>1, PlacesOf DEF PoolInv
  <2>2. CASE ~(ipc = "pop" /\ n = top)
    BY <2>2, PlacesOf
  <2> QED
    BY <2>1, <2>2
<1>4. ASSUME NEW n \in S PROVE slot[n] \in Buffers
  <2>1. n \in Buffers
    BY <1>1, SizeFacts
  <2> QED
    BY <1>1, <2>1
<1>5. \A n \in S : where(n) # <<"merge", 0>>
  OBVIOUS
<1>6. \A m, n \in S : where(m) = where(n) => m = n
  OBVIOUS
<1> HIDE DEF where
<1>7. f \in [S -> T]
  <2>1. ASSUME NEW n \in S PROVE slot[n] # taken[1]
    <3>1. SUFFICES ASSUME slot[n] = taken[1] PROVE FALSE
      OBVIOUS
    <3>2. Places(taken[1]) = {where(n)}
      BY <1>1, <1>3, <3>1, OnlyPlace
    <3> QED
      BY <1>2, <1>5, <3>2
  <2> QED
    BY <1>4, <2>1
<1>8. \A m, n \in S : f[m] = f[n] => m = n
  <2>1. ASSUME NEW m \in S, NEW n \in S, slot[m] = slot[n] PROVE m = n
    <3>1. Places(slot[n]) = {where(n)}
      BY <1>3, <1>4, OnlyPlace
    <3>2. where(m) \in Places(slot[n])
      BY <1>3, <2>1
    <3> QED
      BY <1>6, <3>1, <3>2
  <2> QED
    BY <2>1
<1>9. IsFiniteSet(S) /\ Cardinality(S) = finish
  BY <1>1, FS_Interval
<1>10. IsFiniteSet(T) /\ Cardinality(T) = PoolSize - 1
  <2>1. IsFiniteSet(Buffers) /\ Cardinality(Buffers) = PoolSize
    BY FS_Interval, SizeFacts DEF Buffers
  <2> QED
    BY <1>1, <2>1, FS_RemoveElement
<1>11. ~(Cardinality(T) < Cardinality(S))
  <2> HIDE DEF S, T, f
  <2> QED
    BY <1>7, <1>8, <1>9, <1>10, FS_PigeonHole
<1> QED
  BY <1>1, <1>9, <1>10, <1>11, SizeFacts

----------------------------------------------------------------------------
(* Preservation of the invariant *)

(* Back, AddBuffer, TakeQueued and StoreEnd move one buffer from one place to   *)
(* another; no other call moves any.                                            *)
LEMMA InputKeepsPlaces ==
    ASSUME TypeInv, HandInv, PoolInv, Input
    PROVE  \A b \in Buffers : \E p : Places(b)' = {p}
<1> SUFFICES ASSUME NEW b \in Buffers PROVE \E p : Places(b)' = {p}
  OBVIOUS
<1>1. PICK p : Places(b) = {p}
  BY DEF PoolInv
<1>2. finish \in 0 .. PoolSize /\ top \in 0 .. PoolSize /\ queue \in Seq(Buffers \X Chunks)
  BY DEF TypeInv
<1> SUFFICES ASSUME Places(b)' # Places(b) PROVE \E q : Places(b)' = {q}
  BY <1>1
<1> USE DEF fileVars, poolVars, mergeVars, InputStep, Race
<1>3. CASE LoadEnd
  BY <1>3, SamePlaces DEF LoadEnd
<1>4. CASE Back
  <2>1. /\ hand' = slot[top] /\ hand = Null /\ top = finish /\ finish # 0 /\ finish' = finish
        /\ top' = top /\ ipc = "back" /\ ipc' = "pop"
        /\ UNCHANGED <<slot, queue, taken>>
    BY <1>4 DEF Back, HandInv, PoolInv
  <2>2. CASE slot[top] = b
    <3>1. <<"pool", top>> \in Places(b)
      BY <1>2, <2>1, <2>2, PlacesOf
    <3>2. p = <<"pool", top>>
      BY <1>1, <3>1
    <3>3. \A q : q \in Places(b)' <=> q = <<"input", 0>>
      BY <1>1, <2>1, <2>2, <3>2, PlacesOf, PlacesOfNext
    <3>4. Places(b)' = {<<"input", 0>>}
      BY <3>3
    <3> QED
      BY <3>4
  <2>3. CASE slot[top] # b
    <3>1. \A q : q \in Places(b)' <=> q \in Places(b)
      BY <2>1, <2>3, SizeFacts, PlacesOf, PlacesOfNext
    <3> QED
      BY <3>1
  <2> QED
    BY <2>2, <2>3
<1>5. CASE PopBack
  BY <1>2, <1>5, SamePlaces DEF PopBack, Popped, PoolInv
<1>6. CASE TakeReference
  BY <1>6, SamePlaces DEF TakeReference
<1>7. CASE Seekg
  BY <1>7, SamePlaces DEF Seekg
<1>8. CASE ReadChunk
  BY <1>8, SamePlaces DEF ReadChunk
<1>9. CASE AddBuffer
  <2>1. /\ queue' = Append(queue, <<hand, chunk>>) /\ hand' = Null /\ hand # Null
        /\ ipc # "pop" /\ ipc' # "pop"
        /\ UNCHANGED <<slot, finish, top, taken>>
    BY <1>9 DEF AddBuffer, HandInv
  <2>2. /\ DOMAIN queue = 1 .. Len(queue) /\ Len(queue) \in Nat
        /\ DOMAIN queue' = 1 .. Len(queue) + 1
        /\ \A n \in DOMAIN queue : queue'[n] = queue[n]
        /\ queue'[Len(queue) + 1] = <<hand, chunk>>
    <3>1. <<hand, chunk>> \in Buffers \X Chunks
      BY <2>1 DEF TypeInv
    <3> QED
      BY <1>2, <2>1, <3>1
  <2>3. CASE hand = b
    <3>1. p = <<"input", 0>>
      BY <1>1, <2>3, PlacesOf
    <3>2. \A q : q \in Places(b)' <=> q = <<"queue", Len(queue) + 1>>
      BY <1>1, <2>1, <2>2, <2>3, <3>1, SizeFacts, PlacesOf, PlacesOfNext
    <3>3. Places(b)' = {<<"queue", Len(queue) + 1>>}
      BY <3>2
    <3> QED
      BY <3>3
  <2>4. CASE hand # b
    <3>1. \A q : q \in Places(b)' <=> q \in Places(b)
      BY <2>1, <2>2, <2>4, SizeFacts, PlacesOf, PlacesOfNext
    <3> QED
      BY <3>1
  <2> QED
    BY <2>3, <2>4
<1>10. CASE OutOfRange \/ ReadFails
  BY <1>10, SamePlaces DEF OutOfRange, ReadFails
<1> QED
  BY <1>3, <1>4, <1>5, <1>6, <1>7, <1>8, <1>9, <1>10 DEF Input

LEMMA MergeKeepsPlaces ==
    ASSUME TypeInv, HandInv, PoolInv, Merge
    PROVE  \A b \in Buffers : \E p : Places(b)' = {p}
<1> SUFFICES ASSUME NEW b \in Buffers PROVE \E p : Places(b)' = {p}
  OBVIOUS
<1>1. PICK p : Places(b) = {p}
  BY DEF PoolInv
<1>2. finish \in 0 .. PoolSize /\ top \in 0 .. PoolSize /\ queue \in Seq(Buffers \X Chunks)
  BY DEF TypeInv
<1>11. /\ \A n \in 1 .. finish :
             slot[n] = b /\ ~(ipc = "pop" /\ n = top) => p = <<"pool", n>>
       /\ \A n \in DOMAIN queue : queue[n][1] = b => p = <<"queue", n>>
       /\ hand = b => p = <<"input", 0>>
  <2>1. \A q \in Places(b) : p = q
    BY <1>1
  <2> QED
    BY <2>1, PlacesOf, ZenonT(60)
<1>12. \A m, n : <<"queue", m>> # <<"pool", n>> /\ <<"queue", m>> # <<"input", 0>>
  OBVIOUS
<1>13. \A m, n : <<"queue", m>> = <<"queue", n>> => m = n
  OBVIOUS
<1> SUFFICES ASSUME Places(b)' # Places(b) PROVE \E q : Places(b)' = {q}
  BY <1>1
<1> USE DEF fileVars, poolVars, inputVars, MergeStep, Race
<1>3. CASE TakeQueued
  <2>1. /\ taken = Null /\ taken' = queue[1] /\ taken' # Null
        /\ DOMAIN queue = 1 .. Len(queue) /\ Len(queue) \in Nat \ {0}
        /\ DOMAIN queue' = 1 .. Len(queue) - 1
        /\ \A n \in DOMAIN queue' : queue'[n] = queue[n + 1]
        /\ UNCHANGED <<slot, finish, top, hand, ipc>>
    <3>1. queue # <<>> /\ taken' = Head(queue) /\ queue' = Tail(queue)
      BY <1>3 DEF TakeQueued
    <3>2. Head(queue) \in Buffers \X Chunks
      BY <1>2, <3>1
    <3>3. taken = Null /\ UNCHANGED <<slot, finish, top, hand, ipc>>
      BY <1>3 DEF TakeQueued, HandInv
    <3>4. taken' # Null
      BY <3>1, <3>2, SizeFacts
    <3>5. /\ DOMAIN queue = 1 .. Len(queue) /\ Len(queue) \in Nat \ {0}
          /\ DOMAIN queue' = 1 .. Len(queue) - 1
          /\ \A n \in DOMAIN queue' : queue'[n] = queue[n + 1]
      BY <1>2, <3>1
    <3> QED
      BY <3>1, <3>3, <3>4, <3>5
  <2>2. CASE p = <<"queue", 1>>
    <3>1. queue[1][1] = b
      BY <1>1, <2>2, PlacesOf
    <3>2. \A n \in 2 .. Len(queue) : queue[n][1] # b
      BY <1>11, <1>13, <2>1, <2>2
    <3>3. \A q : q \in Places(b)' <=> q = <<"merge", 0>>
      <4>1. \A n \in 1 .. finish : ~(slot[n] = b /\ ~(ipc = "pop" /\ n = top))
        BY <1>11, <1>12, <2>2
      <4>2. hand # b
        BY <1>11, <1>12, <2>2
      <4> QED
        BY <2>1, <3>1, <3>2, <4>1, <4>2, PlacesOfNext
    <3>4. Places(b)' = {<<"merge", 0>>}
      BY <3>3
    <3> QED
      BY <3>4
  <2>3. ASSUME NEW n \in 2 .. Len(queue), p = <<"queue", n>>
        PROVE  \E q : Places(b)' = {q}
    <3>1. queue[n][1] = b /\ \A m \in 1 .. Len(queue) : queue[m][1] = b => m = n
      <4>1. p \in Places(b)
        BY <1>1
      <4> QED
        BY <1>11, <1>13, <2>1, <2>3, <4>1, PlacesOf
    <3>2. /\ \A m \in 1 .. finish : ~(slot[m] = b /\ ~(ipc = "pop" /\ m = top))
          /\ hand # b
      BY <1>11, <1>12, <2>3
    <3>3. \A q : q \in Places(b)' <=> q = <<"queue", n - 1>>
      BY <2>1, <3>1, <3>2, PlacesOfNext
    <3>4. Places(b)' = {<<"queue", n - 1>>}
      BY <3>3
    <3> QED
      BY <3>4
  <2>4. CASE \A n \in 1 .. Len(queue) : p # <<"queue", n>>
    <3>1. \A n \in 1 .. Len(queue) : queue[n][1] # b
      BY <1>1, <2>1, <2>4, PlacesOf, ZenonT(60)
    <3>2. \A q : q \in Places(b)' <=> q \in Places(b)
      BY <2>1, <3>1, PlacesOf, PlacesOfNext
    <3> QED
      BY <3>2
  <2>5. \A n \in 1 .. Len(queue) : n = 1 \/ n \in 2 .. Len(queue)
    BY <2>1
  <2> QED
    BY <2>2, <2>3, <2>4, <2>5
<1>4. CASE LoadFree
  BY <1>4, SamePlaces DEF LoadFree
<1>5. CASE StoreBuffer
  <2>1. \A n \in 1 .. finish : slot'[n] = slot[n]
    BY <1>2, <1>5 DEF StoreBuffer, PoolInv, TypeInv
  <2> QED
    BY <1>5, <2>1, SamePlaces DEF StoreBuffer
<1>6. CASE StoreEnd
  <2>1. /\ taken' = Null /\ taken # Null /\ finish' = finish + 1 /\ slot[finish + 1] = taken[1]
        /\ UNCHANGED <<slot, queue, hand, ipc, top>>
        /\ ipc = "pop" => top = finish
    BY <1>6 DEF StoreEnd, Pushed, HandInv, PoolInv
  <2>2. CASE taken[1] = b
    <3>1. p = <<"merge", 0>>
      BY <1>1, <2>1, <2>2, PlacesOf
    <3>2. \A q : q \in Places(b)' <=> q = <<"pool", finish + 1>>
      BY <1>1, <1>2, <2>1, <2>2, <3>1, PlacesOf, PlacesOfNext
    <3>3. Places(b)' = {<<"pool", finish + 1>>}
      BY <3>2
    <3> QED
      BY <3>3
  <2>3. CASE taken[1] # b
    <3>1. \A q : q \in Places(b)' <=> q \in Places(b)
      BY <1>2, <2>1, <2>3, PlacesOf, PlacesOfNext
    <3> QED
      BY <3>1
  <2> QED
    BY <2>2, <2>3
<1>7. CASE BeginSeek
  BY <1>7, SamePlaces DEF BeginSeek
<1>8. CASE PushEntry
  BY <1>8, SamePlaces DEF PushEntry
<1>9. CASE AppendSeek
  BY <1>9, SamePlaces DEF AppendSeek
<1>10. CASE AppendWrite
  BY <1>10, SamePlaces DEF AppendWrite
<1> QED
  BY <1>3, <1>4, <1>5, <1>6, <1>7, <1>8, <1>9, <1>10 DEF Merge

(* raced is a history: a step only adds to it. *)
LEMMA RacedGrows ==
    ASSUME Input \/ Merge
    PROVE  raced \subseteq raced'
BY DEF Input, Merge, LoadEnd, Back, PopBack, TakeReference, OutOfRange, Seekg, ReadFails,
       ReadChunk, AddBuffer, TakeQueued, LoadFree, StoreBuffer, StoreEnd, BeginSeek, PushEntry, AppendSeek,
       AppendWrite, Race

(* A call that stores the vector's end without a race finds it as it has loaded it. *)
LEMMA PoolStep ==
    ASSUME TypeInv, HandInv, PoolInv, Input \/ Merge, "pool" \notin raced'
    PROVE  PoolInv'
<1>1. \A b \in Buffers : \E p : Places(b)' = {p}
  BY InputKeepsPlaces, MergeKeepsPlaces
<1>2. finish \in 0 .. PoolSize /\ slot \in [Buffers -> Buffers]
  BY DEF TypeInv
<1> SUFFICES /\ ipc' \in {"back", "pop"} => top' = finish' /\ finish' # 0
             /\ ipc' = "pop" => hand' = slot'[top']
             /\ mpc' \in {"store", "push"} => end' = finish'
             /\ mpc' = "push" => finish' < PoolSize /\ slot'[finish' + 1] = taken'[1]
  BY <1>1 DEF PoolInv, Buffers
<1> USE DEF fileVars, poolVars, inputVars, mergeVars, InputStep, MergeStep, Race, PoolInv
<1>3. CASE Input
  <2>1. CASE LoadEnd
    BY <2>1 DEF LoadEnd
  <2>2. CASE Back
    BY <2>2 DEF Back
  <2>3. CASE PopBack
    BY <2>3 DEF PopBack
  <2>4. CASE TakeReference
    BY <2>4 DEF TakeReference
  <2>5. CASE Seekg
    BY <2>5 DEF Seekg
  <2>6. CASE ReadChunk
    BY <2>6 DEF ReadChunk
  <2>7. CASE AddBuffer
    BY <2>7 DEF AddBuffer
  <2>8. CASE OutOfRange \/ ReadFails
    BY <2>8 DEF OutOfRange, ReadFails
  <2> QED
    BY <1>3, <2>1, <2>2, <2>3, <2>4, <2>5, <2>6, <2>7, <2>8 DEF Input
<1>4. CASE Merge
  <2>1. CASE TakeQueued
    BY <2>1 DEF TakeQueued
  <2>2. CASE LoadFree
    BY <2>2 DEF LoadFree
  <2>3. CASE StoreBuffer
    <3>1. finish < PoolSize
      BY <2>3, RoomForTaken DEF StoreBuffer, HandInv
    <3>2. finish + 1 \in Buffers
      BY <1>2, <3>1, SizeFacts
    <3>3. ipc = "pop" => top \in Buffers /\ top # finish + 1
      BY <1>2, <3>1, SizeFacts
    <3> QED
      BY <1>2, <2>3, <3>1, <3>2, <3>3 DEF StoreBuffer
  <2>4. CASE StoreEnd
    BY <2>4 DEF StoreEnd
  <2>5. CASE BeginSeek
    BY <2>5 DEF BeginSeek
  <2>6. CASE PushEntry
    BY <2>6 DEF PushEntry
  <2>7. CASE AppendSeek
    BY <2>7 DEF AppendSeek
  <2>8. CASE AppendWrite
    BY <2>8 DEF AppendWrite
  <2> QED
    BY <1>4, <2>1, <2>2, <2>3, <2>4, <2>5, <2>6, <2>7, <2>8 DEF Merge
<1> QED
  BY <1>3, <1>4

(* A write without a race goes where append_to_run has put the stream. *)
LEMMA StreamStep ==
    ASSUME TypeInv, HandInv, StreamInv, Input \/ Merge, "stream" \notin raced'
    PROVE  StreamInv'
<1>1. disk \in [Cells -> Cells \cup {Null}] /\ written \in 0 .. Batches
  BY DEF TypeInv
<1>2. UNCHANGED <<NewRun, Cells>>
  BY DEF NewRun, Cells
<1> USE DEF fileVars, poolVars, inputVars, mergeVars, InputStep, MergeStep, Race
<1>3. ASSUME UNCHANGED <<disk, written>>, mpc' = "write" => pos' = NewRun + written
      PROVE  StreamInv'
  BY <1>2, <1>3 DEF StreamInv
<1>4. CASE Input
  <2>1. UNCHANGED <<disk, written, mpc>>
    BY <1>4 DEF Input, LoadEnd, Back, PopBack, TakeReference, OutOfRange, Seekg, ReadFails,
                ReadChunk, AddBuffer
  <2>2. mpc = "write" => pos' = pos
    BY <1>4 DEF Input, LoadEnd, Back, PopBack, TakeReference, OutOfRange, Seekg, ReadFails,
                ReadChunk, AddBuffer
  <2> QED
    BY <1>3, <2>1, <2>2 DEF StreamInv
<1>5. CASE Merge
  <2>1. CASE AppendSeek
    BY <1>3, <2>1 DEF AppendSeek, AppendOffset
  <2>2. CASE AppendWrite
    <3>1. /\ pos = NewRun + written /\ written < Batches /\ written' = written + 1
          /\ disk' = [c \in Cells |-> IF c = pos THEN NewRun + written ELSE disk[c]]
          /\ mpc' = "idle"
      BY <2>2 DEF AppendWrite, StreamInv, HandInv
    <3>2. ASSUME NEW c \in Cells
          PROVE  disk'[c] = IF c < NewRun + written' THEN c ELSE Null
      <4>1. c \in Nat /\ NewRun \in Nat /\ written \in Nat
        BY <1>1, SizeFacts
      <4>2. disk[c] = IF c < NewRun + written THEN c ELSE Null
        BY DEF StreamInv
      <4> QED
        BY <3>1, <4>1, <4>2
    <3> QED
      BY <1>2, <3>1, <3>2 DEF StreamInv
  <2>3. CASE TakeQueued \/ LoadFree \/ StoreBuffer \/ StoreEnd
    BY <1>3, <2>3 DEF StreamInv, TakeQueued, LoadFree, StoreBuffer, StoreEnd
  <2>4. CASE BeginSeek \/ PushEntry
    BY <1>3, <2>4 DEF StreamInv, BeginSeek, PushEntry
  <2> QED
    BY <1>5, <2>1, <2>2, <2>3, <2>4 DEF Merge
<1> QED
  BY <1>4, <1>5

(* A read without a race is of the chunk that was asked for, into a buffer that *)
(* nobody else has.                                                             *)
LEMMA ChunkStep ==
    ASSUME TypeInv, HandInv, PoolInv, StreamInv, ChunkInv, Input \/ Merge, raced' = {}
    PROVE  ChunkInv'
<1>1. queue \in Seq(Buffers \X Chunks)
  BY DEF TypeInv
<1>2. DOMAIN queue = 1 .. Len(queue) /\ Len(queue) \in Nat
  BY <1>1
<1> DEFINE right(e) == content[e[1]] = e[2]
<1>3. /\ \A n \in DOMAIN queue : right(queue[n])
      /\ taken # Null => right(taken)
  BY DEF ChunkInv, Range
<1>4. SUFFICES /\ ipc' = "read" => pos' = chunk'
               /\ ipc' = "add" => content'[hand'] = chunk'
               /\ \A n \in DOMAIN queue' : right(queue[n])'
               /\ taken' # Null => right(taken)'
  BY DEF ChunkInv, Range
<1> USE DEF fileVars, poolVars, inputVars, mergeVars, InputStep, MergeStep, Race
<1>5. CASE Input
  <2>1. CASE LoadEnd
    BY <1>3, <2>1 DEF LoadEnd
  <2>2. CASE Back
    BY <1>3, <2>2 DEF Back
  <2>3. CASE PopBack
    BY <1>3, <2>3 DEF PopBack
  <2>4. CASE TakeReference
    BY <1>3, <2>4 DEF TakeReference
  <2>5. CASE Seekg
    BY <1>3, <2>5 DEF Seekg, Sought
  <2>6. CASE ReadChunk
    <3>1. pos = chunk /\ chunk \in Chunks
      BY <2>6 DEF ReadChunk, ChunkInv, TypeInv
    <3>2. chunk \in Cells /\ disk[chunk] = chunk
      <4>1. chunk \in Cells /\ chunk < NewRun + written
        BY <3>1, SizeFacts DEF TypeInv
      <4> QED
        BY <4>1 DEF StreamInv
    <3>3. hand \in Buffers
      BY <2>6, SizeFacts DEF ReadChunk, HandInv, TypeInv
    <3>4. content' = [content EXCEPT ![hand] = chunk] /\ content'[hand] = chunk
      BY <2>6, <3>1, <3>2, <3>3 DEF ReadChunk, TypeInv
    <3>5. Places(hand) = {<<"input", 0>>}
      BY <3>3, PlacesOf, OnlyPlace
    <3>6. /\ \A n \in DOMAIN queue : queue[n][1] # hand
          /\ taken # Null => taken[1] # hand
      <4>1. \A n : <<"queue", n>> # <<"input", 0>> /\ <<"merge", 0>> # <<"input", 0>>
        OBVIOUS
      <4> QED
        BY <3>5, <4>1, PlacesOf
    <3>7. \A b : b # hand => content'[b] = content[b]
      BY <3>4 DEF TypeInv
    <3> QED
      BY <1>3, <2>6, <3>4, <3>6, <3>7 DEF ReadChunk
  <2>7. CASE AddBuffer
    <3>1. /\ hand \in Buffers /\ content[hand] = chunk /\ ipc' = "get"
          /\ queue' = Append(queue, <<hand, chunk>>)
          /\ UNCHANGED <<content, taken>>
      BY <2>7, SizeFacts DEF AddBuffer, HandInv, TypeInv, ChunkInv
    <3>2. /\ DOMAIN queue' = 1 .. Len(queue) + 1
          /\ \A n \in DOMAIN queue : queue'[n] = queue[n]
          /\ queue'[Len(queue) + 1] = <<hand, chunk>>
      <4>1. <<hand, chunk>> \in Buffers \X Chunks
        BY <3>1 DEF TypeInv
      <4> QED
        BY <1>1, <3>1, <4>1
    <3>3. \A n \in DOMAIN queue' : n \in DOMAIN queue \/ n = Len(queue) + 1
      BY <1>2, <3>2
    <3> QED
      BY <1>3, <3>1, <3>2, <3>3
  <2>8. CASE OutOfRange \/ ReadFails
    BY <1>3, <2>8 DEF OutOfRange, ReadFails
  <2> QED
    BY <1>5, <2>1, <2>2, <2>3, <2>4, <2>5, <2>6, <2>7, <2>8 DEF Input
<1>6. CASE Merge
  <2>1. UNCHANGED <<ipc, chunk, hand, content>>
    BY <1>6 DEF Merge, TakeQueued, LoadFree, StoreBuffer, StoreEnd, BeginSeek, PushEntry,
                AppendSeek, AppendWrite
  <2>2. ipc = "read" => pos' = pos
    BY <1>6 DEF Merge, TakeQueued, LoadFree, StoreBuffer, StoreEnd, BeginSeek, PushEntry,
                AppendSeek, AppendWrite
  <2>3. /\ \A n \in DOMAIN queue' : right(queue[n])'
        /\ taken' # Null => right(taken)'
    <3>1. CASE TakeQueued
      <4>1. /\ DOMAIN queue' = 1 .. Len(queue) - 1 /\ taken' = queue[1] /\ Len(queue) # 0
            /\ \A n \in DOMAIN queue' : queue'[n] = queue[n + 1]
        BY <1>1, <3>1 DEF TakeQueued
      <4>2. \A n \in DOMAIN queue' : n + 1 \in DOMAIN queue
        BY <1>2, <4>1
      <4>3. 1 \in DOMAIN queue
        BY <1>2, <4>1
      <4> QED
        BY <1>3, <2>1, <4>1, <4>2, <4>3
    <3>2. CASE ~TakeQueued
      <4>1. queue' = queue /\ (taken' = taken \/ taken' = Null)
        BY <1>6, <3>2 DEF Merge, LoadFree, StoreBuffer, StoreEnd, BeginSeek, PushEntry,
                          AppendSeek, AppendWrite
      <4> QED
        BY <1>3, <2>1, <4>1
    <3> QED
      BY <3>1, <3>2
  <2> QED
    BY <2>1, <2>2, <2>3 DEF ChunkInv
<1> QED
  BY <1>5, <1>6

(* Where no call has run into another one the chunk that is read is in the file. *)
LEMMA ThrowStep ==
    ASSUME TypeInv, StreamInv, ChunkInv, Input \/ Merge, ~Threw,
           raced' \cap {"stream", "entry"} = {}
    PROVE  ~Threw'
<1> USE DEF Threw, inputVars, InputStep, MergeStep
<1>1. CASE Merge
  BY <1>1 DEF Merge, TakeQueued, LoadFree, StoreBuffer, StoreEnd, BeginSeek, PushEntry,
              AppendSeek, AppendWrite
<1>2. CASE OutOfRange
  BY <1>2 DEF OutOfRange
<1>3. CASE ReadFails
  <2>1. pos = chunk /\ chunk \in Chunks /\ written \in 0 .. Batches
    BY <1>3 DEF ReadFails, ChunkInv, TypeInv
  <2>2. chunk \in Cells /\ chunk < NewRun + written /\ Null \notin Nat /\ chunk \in Nat
    BY <2>1, SizeFacts
  <2>3. disk[chunk] = chunk
    BY <2>2 DEF StreamInv
  <2> QED
    BY <1>3, <2>1, <2>2, <2>3 DEF ReadFails
<1>4. CASE LoadEnd \/ Back \/ PopBack \/ TakeReference \/ Seekg \/ ReadChunk \/ AddBuffer
  BY <1>4 DEF LoadEnd, Back, PopBack, TakeReference, Seekg, ReadChunk, AddBuffer
<1> QED
  BY <1>1, <1>2, <1>3, <1>4 DEF Input

LEMMA InvariantInit == Init => IInv
BY TypeInit DEF IInv, Init, ThrowsOnlyIfRaced, Threw

LEMMA InvariantStep == IInv /\ [Next]_vars => IInv'
<1> SUFFICES ASSUME IInv, [Next]_vars PROVE IInv'
  OBVIOUS
<1>1. CASE Followed /\ (Input \/ Merge)
  <2>1. TypeInv /\ HandInv /\ PoolInv
    BY <1>1 DEF IInv, Followed
  <2>2. raced \subseteq raced'
    BY <1>1, RacedGrows
  <2>3. TypeInv' /\ HandInv'
    BY <1>1, <2>1, InputTypes, MergeTypes, HandStep
  <2>4. "pool" \notin raced' => PoolInv'
    BY <1>1, <2>1, PoolStep
  <2>5. "stream" \notin raced' => StreamInv'
    BY <1>1, <2>1, <2>2, StreamStep DEF IInv
  <2>6. raced' = {} => ChunkInv'
    <3>1. raced' = {} => raced = {}
      BY <2>2
    <3> QED
      BY <1>1, <2>1, <3>1, ChunkStep DEF IInv
  <2>7. ThrowsOnlyIfRaced'
    <3> SUFFICES ASSUME raced' \cap {"stream", "entry"} = {} PROVE ~Threw'
      BY DEF ThrowsOnlyIfRaced
    <3>1. raced = {}
      BY <1>1, <2>1, <2>2 DEF Followed, TypeInv
    <3>2. ~Threw /\ StreamInv /\ ChunkInv
      BY <1>1, <3>1 DEF Followed, IInv
    <3> QED
      BY <1>1, <2>1, <3>2, ThrowStep
  <2> QED
    BY <2>3, <2>4, <2>5, <2>6, <2>7 DEF IInv
<1>2. CASE UNCHANGED vars
  <2> USE <1>2 DEF vars, fileVars, poolVars, inputVars, mergeVars
  <2>1. TypeInv => TypeInv'
    BY DEF TypeInv
  <2>2. HandInv => HandInv'
    BY DEF HandInv
  <2>3. PoolInv => PoolInv'
    <3>1. ASSUME NEW b PROVE Places(b)' = Places(b)
      BY SamePlaces
    <3> QED
      BY <3>1 DEF PoolInv, Buffers
  <2>4. StreamInv => StreamInv'
    BY DEF StreamInv, Cells, NewRun
  <2>5. ChunkInv => ChunkInv'
    BY DEF ChunkInv, Range
  <2>6. ThrowsOnlyIfRaced => ThrowsOnlyIfRaced'
    BY DEF ThrowsOnlyIfRaced, Threw
  <2> QED
    BY <2>1, <2>2, <2>3, <2>4, <2>5, <2>6 DEF IInv
<1> QED
  BY <1>1, <1>2 DEF Next, Finished

THEOREM Invariant == Spec => []IInv
BY InvariantInit, InvariantStep, PTL DEF Spec

----------------------------------------------------------------------------
(* The properties *)

(* However many buffers there are, and wherever the two threads are in their    *)
(* calls, getBuffer and returnBuffer leave every buffer in exactly one place     *)
(* unless one of them has stored the vector's end between the other's load and  *)
(* store of it.                                                                  *)
THEOREM PoolIsSound == Spec => []PoolSound
<1>1. IInv => PoolSound
  <2> SUFFICES ASSUME IInv, "pool" \notin raced, NEW b \in Buffers
               PROVE  Cardinality(Places(b)) = 1
    BY DEF PoolSound
  <2>1. PICK p : Places(b) = {p}
    BY DEF IInv, PoolInv
  <2> QED
    BY <2>1, FS_Singleton
<1> QED
  BY <1>1, Invariant, PTL

(* Also when directory_ moves under the input thread or its reads go astray,     *)
(* begin_run and append_to_run leave the old runs alone and put their batches    *)
(* behind them in order, unless a seekg has come between their seekp and write.  *)
THEOREM OldRunsIntact == Spec => []RunsIntact
<1>1. IInv => RunsIntact
  BY DEF IInv, StreamInv, RunsIntact
<1> QED
  BY <1>1, Invariant, PTL

(* As long as no call has run into another one the merge thread finds in every   *)
(* buffer the chunk that was asked for, up to the moment it gives it back.       *)
THEOREM ChunksAreRight == Spec => []ChunksRight
<1>1. IInv => ChunksRight
  BY DEF IInv, ChunkInv, ChunksRight
<1> QED
  BY <1>1, Invariant, PTL

(* load_chunk never throws for its own sake: for every number of runs, chunks and *)
(* batches, map_run_range ends the process only after a call of the merge thread  *)
(* has moved the stream between seekg and read, or directory_ under the reference. *)
THEOREM ThrowsOnlyWhenRaced == Spec => []ThrowsOnlyIfRaced
<1>1. IInv => ThrowsOnlyIfRaced
  BY DEF IInv
<1> QED
  BY <1>1, Invariant, PTL
=============================================================================
