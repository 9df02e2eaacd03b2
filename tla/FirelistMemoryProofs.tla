----------------------- MODULE FirelistMemoryProofs -----------------------
(***************************************************************************)
(* Proofs about the search stack and about the firelists on it, for any    *)
(* chunk size, any number of threads and paths of any length.              *)
(***************************************************************************)
EXTENDS FirelistMemory, TLAPS

-----------------------------------------------------------------------------
(* Division with remainder, by a divisor that is not a numeral.            *)
LEMMA Division ==
  ASSUME NEW n \in Nat
  PROVE  /\ ChunkOf(n) \in Nat
         /\ Slot(n) \in Index
         /\ n = SIZEOF_STACKCHUNK * ChunkOf(n) + Slot(n)
BY ChunkAssumption DEF Slot, ChunkOf, Index

LEMMA Remainder ==
  ASSUME NEW q \in Nat, NEW r \in Index
  PROVE  /\ SIZEOF_STACKCHUNK * q + r \in Nat
         /\ ChunkOf(SIZEOF_STACKCHUNK * q + r) = q
         /\ Slot(SIZEOF_STACKCHUNK * q + r) = r
BY ChunkAssumption DEF Slot, ChunkOf, Index

LEMMA Products ==
  ASSUME NEW a \in Nat, NEW b \in Nat, a <= b
  PROVE  SIZEOF_STACKCHUNK * a <= SIZEOF_STACKCHUNK * b
<1>1. PICK d \in Nat : b = a + d
  <2> b - a \in Nat /\ b = a + (b - a) OBVIOUS
  <2> QED OBVIOUS
<1>2. SIZEOF_STACKCHUNK * b = SIZEOF_STACKCHUNK * a + SIZEOF_STACKCHUNK * d
  BY <1>1, ChunkAssumption
<1>3. SIZEOF_STACKCHUNK * d \in Nat /\ SIZEOF_STACKCHUNK * a \in Nat
  BY <1>1, ChunkAssumption
<1> QED BY <1>2, <1>3

(* From one number to the next: the next slot, or the next chunk's first.  *)
LEMMA Successor ==
  ASSUME NEW n \in Nat
  PROVE  \/ /\ Slot(n + 1) = 0
            /\ Slot(n) = SIZEOF_STACKCHUNK - 1
            /\ ChunkOf(n + 1) = ChunkOf(n) + 1
         \/ /\ Slot(n + 1) = Slot(n) + 1
            /\ ChunkOf(n + 1) = ChunkOf(n)
<1> DEFINE q == ChunkOf(n)
<1>1. q \in Nat /\ Slot(n) \in Index /\ n = SIZEOF_STACKCHUNK * q + Slot(n)
  BY Division
<1> HIDE DEF q
<1>2. CASE Slot(n) = SIZEOF_STACKCHUNK - 1
  <2>1. n + 1 = SIZEOF_STACKCHUNK * (q + 1) + 0
    BY <1>1, <1>2, ChunkAssumption DEF Index
  <2>2. q + 1 \in Nat /\ 0 \in Index
    BY <1>1, ChunkAssumption DEF Index
  <2> QED BY <2>1, <2>2, <1>2, Remainder DEF q
<1>3. CASE Slot(n) # SIZEOF_STACKCHUNK - 1
  <2>1. n + 1 = SIZEOF_STACKCHUNK * q + (Slot(n) + 1) /\ Slot(n) + 1 \in Index
    BY <1>1, <1>3, ChunkAssumption DEF Index
  <2> QED BY <2>1, <1>1, Remainder DEF q
<1> QED BY <1>2, <1>3

(* A smaller number is in an earlier chunk or in an earlier slot.          *)
LEMMA Order ==
  ASSUME NEW m \in Nat, NEW n \in Nat
  PROVE  m <= n <=>
           \/ ChunkOf(m) < ChunkOf(n)
           \/ /\ ChunkOf(m) = ChunkOf(n)
              /\ Slot(m) <= Slot(n)
<1> DEFINE p == ChunkOf(m)
           q == ChunkOf(n)
<1>1. /\ p \in Nat /\ Slot(m) \in Index /\ m = SIZEOF_STACKCHUNK * p + Slot(m)
      /\ q \in Nat /\ Slot(n) \in Index /\ n = SIZEOF_STACKCHUNK * q + Slot(n)
  BY Division
<1> HIDE DEF p, q
<1>2. /\ SIZEOF_STACKCHUNK * p \in Nat /\ SIZEOF_STACKCHUNK * q \in Nat
      /\ SIZEOF_STACKCHUNK * (p + 1) = SIZEOF_STACKCHUNK * p + SIZEOF_STACKCHUNK
      /\ SIZEOF_STACKCHUNK * (q + 1) = SIZEOF_STACKCHUNK * q + SIZEOF_STACKCHUNK
  BY <1>1, ChunkAssumption
<1>3. CASE p < q
  <2>1. SIZEOF_STACKCHUNK * (p + 1) <= SIZEOF_STACKCHUNK * q
    BY <1>1, <1>3, Products
  <2> QED BY <1>1, <1>2, <1>3, <2>1, ChunkAssumption DEF Index, p, q
<1>4. CASE q < p
  <2>1. SIZEOF_STACKCHUNK * (q + 1) <= SIZEOF_STACKCHUNK * p
    BY <1>1, <1>4, Products
  <2>2. ~ (m <= n)
    BY <1>1, <1>2, <2>1, ChunkAssumption DEF Index
  <2> QED BY <1>1, <1>4, <2>2 DEF p, q
<1>5. CASE p = q
  <2> QED BY <1>1, <1>2, <1>5, ChunkAssumption DEF Index, p, q
<1> QED BY <1>1, <1>3, <1>4, <1>5

LEMMA Monotone ==
  ASSUME NEW m \in Nat, NEW n \in Nat, m <= n
  PROVE  ChunkOf(m) <= ChunkOf(n)
BY Order, Division

-----------------------------------------------------------------------------
(* The stack.  The number of chunks, once more.                            *)
LEMMA ChunkCount ==
  ASSUME NEW n \in Nat
  PROVE  (IF n = 0 THEN 0 ELSE ChunkOf(n - 1) + 1)
           = IF Slot(n) = 0 THEN ChunkOf(n)
             ELSE ChunkOf(n) + 1
<1>1. CASE n = 0
  <2>1. 0 \in Nat /\ 0 \in Index /\ SIZEOF_STACKCHUNK * 0 + 0 = 0
    BY ChunkAssumption DEF Index
  <2>2. ChunkOf(0) = 0 /\ Slot(0) = 0
    BY <2>1, Remainder
  <2> QED BY <1>1, <2>2
<1>2. CASE n # 0
  <2> DEFINE m == n - 1
  <2>1. m \in Nat /\ n = m + 1 /\ Slot(m) \in Index
        /\ ChunkOf(m) \in Nat
    BY <1>2, Division
  <2> HIDE DEF m
  <2>2. Slot(m) + 1 # 0
    BY <2>1 DEF Index
  <2>3. m = n - 1
    BY <2>1
  <2> QED BY <1>2, <2>1, <2>2, <2>3, Successor
<1> QED BY <1>1, <1>2

LEMMA EntryPlace ==
  ASSUME NEW s, StackType(s), NEW n \in 0 .. s.StackPointer - 1
  PROVE  /\ n \in Nat /\ Slot(n) \in Index
         /\ ChunkOf(n) + 1 \in 1 .. Len(s.chunks)
         /\ Entry(s, n) \in Cell \union {Null}
<1>1. /\ n \in Nat /\ s.StackPointer - 1 \in Nat /\ n <= s.StackPointer - 1
      /\ Len(s.chunks) = ChunkOf(s.StackPointer - 1) + 1
  BY DEF StackType, Chunked
<1>2. ChunkOf(n) <= ChunkOf(s.StackPointer - 1)
  BY <1>1, Monotone
<1>3. /\ ChunkOf(n) \in Nat /\ Slot(n) \in Index
      /\ ChunkOf(s.StackPointer - 1) \in Nat
  BY <1>1, Division
<1>4. ChunkOf(n) + 1 \in 1 .. Len(s.chunks)
  BY <1>1, <1>2, <1>3
<1>5. s.chunks \in Seq([Index -> Cell \union {Null}])
  BY DEF StackType
<1>6. s.chunks[ChunkOf(n) + 1] \in [Index -> Cell \union {Null}]
  BY <1>4, <1>5
<1>7. Entry(s, n) \in Cell \union {Null}
  BY <1>3, <1>6 DEF Entry
<1> QED BY <1>1, <1>3, <1>4, <1>7

(* push appends.                                                           *)
LEMMA PushAppends ==
  ASSUME NEW s, StackType(s), NEW e \in Cell
  PROVE  /\ StackType(push(s, e))
         /\ push(s, e).StackPointer = s.StackPointer + 1
         /\ \A n \in 0 .. s.StackPointer - 1 : Entry(push(s, e), n) = Entry(s, n)
         /\ Entry(push(s, e), s.StackPointer) = e
<1> DEFINE SP == s.StackPointer
           r == push(s, e)
           C == [Index -> Cell \union {Null}]
<1>1. /\ SP \in Nat /\ s.chunks \in Seq(C)
      /\ ChunkOf(SP) \in Nat /\ Slot(SP) \in Index
      /\ SP + 1 \in Nat
      /\ Len(s.chunks) = IF Slot(SP) = 0 THEN ChunkOf(SP)
                         ELSE ChunkOf(SP) + 1
  <2>1. SP \in Nat /\ s.chunks \in Seq(C) /\ SP + 1 \in Nat
    BY DEF StackType
  <2>2. Len(s.chunks) = IF SP = 0 THEN 0 ELSE ChunkOf(SP - 1) + 1
    BY DEF StackType, Chunked
  <2> HIDE DEF SP
  <2> QED BY <2>1, <2>2, Division, ChunkCount
<1>2. /\ r.StackPointer = SP + 1
      /\ r.chunks = IF Slot(SP) = 0 THEN Append(s.chunks, NewChunk(e))
                    ELSE [s.chunks EXCEPT ![Len(s.chunks)][Slot(SP)] = e]
      /\ DOMAIN r = {"StackPointer", "chunks"}
  BY DEF push
<1>3. NewChunk(e) \in C /\ NewChunk(e)[0] = e
  BY ChunkAssumption DEF NewChunk, Index
<1>4. r.chunks \in Seq(C) /\ Len(r.chunks) = ChunkOf(SP) + 1
  <2>1. CASE Slot(SP) = 0
    BY <1>1, <1>2, <1>3, <2>1
  <2>2. CASE Slot(SP) # 0
    <3>1. Len(s.chunks) \in 1 .. Len(s.chunks)
      BY <1>1, <2>2
    <3>2. s.chunks[Len(s.chunks)] \in C
      BY <1>1, <3>1
    <3>3. [s.chunks[Len(s.chunks)] EXCEPT ![Slot(SP)] = e] \in C
      BY <3>2, <1>1
    <3>4. r.chunks = [s.chunks EXCEPT ![Len(s.chunks)] =
                        [s.chunks[Len(s.chunks)] EXCEPT ![Slot(SP)] = e]]
      BY <1>2, <2>2
    <3> QED BY <1>1, <2>2, <3>1, <3>3, <3>4
  <2> QED BY <2>1, <2>2
<1>5. StackType(r)
  <2>1. (SP + 1) - 1 = SP /\ SP + 1 # 0
    BY <1>1
  <2> QED BY <1>1, <1>2, <1>4, <2>1 DEF StackType, Chunked
<1>6. Entry(r, SP) = e
  <2>1. CASE Slot(SP) = 0
    BY <1>1, <1>2, <1>3, <2>1 DEF Entry
  <2>2. CASE Slot(SP) # 0
    <3>1. s.chunks[Len(s.chunks)] \in C /\ Len(s.chunks) \in 1 .. Len(s.chunks)
      BY <1>1, <2>2
    <3> QED BY <1>1, <1>2, <2>2, <3>1 DEF Entry
  <2> QED BY <2>1, <2>2
<1>7. ASSUME NEW n \in 0 .. SP - 1
      PROVE  Entry(r, n) = Entry(s, n)
  <2> DEFINE k == ChunkOf(n) + 1
  <2>1. n \in Nat /\ Slot(n) \in Index /\ k \in 1 .. Len(s.chunks)
    BY EntryPlace
  <2>2. CASE Slot(SP) = 0
    BY <1>1, <1>2, <2>1, <2>2 DEF Entry
  <2>3. CASE Slot(SP) # 0
    <3>1. ~ (k = Len(s.chunks) /\ Slot(n) = Slot(SP))
      <4>1. n # SP
        BY <1>1
      <4>2. SP = SIZEOF_STACKCHUNK * (ChunkOf(SP)) + Slot(SP)
        BY <1>1, Division
      <4>3. n = SIZEOF_STACKCHUNK * ChunkOf(n) + Slot(n)
            /\ ChunkOf(n) \in Nat
        BY <2>1, Division
      <4>4. k = Len(s.chunks) => ChunkOf(n) = ChunkOf(SP)
        BY <1>1, <2>3, <4>3
      <4> HIDE DEF SP
      <4> QED BY <4>1, <4>2, <4>3, <4>4
    <3>2. s.chunks[k] \in C /\ Len(s.chunks) \in 1 .. Len(s.chunks)
          /\ s.chunks[Len(s.chunks)] \in C
      BY <1>1, <2>1
    <3>3. r.chunks[k] = IF k = Len(s.chunks)
                          THEN [s.chunks[k] EXCEPT ![Slot(SP)] = e]
                          ELSE s.chunks[k]
      <4>1. r.chunks = [s.chunks EXCEPT ![Len(s.chunks)] =
                          [s.chunks[Len(s.chunks)] EXCEPT ![Slot(SP)] = e]]
        BY <1>2, <2>3
      <4>2. k \in DOMAIN s.chunks
        BY <1>1, <2>1
      <4> HIDE DEF k, r
      <4> QED BY <4>1, <4>2
    <3>4. r.chunks[k][Slot(n)] = s.chunks[k][Slot(n)]
      BY <2>1, <3>1, <3>2, <3>3
    <3> QED BY <3>4 DEF Entry
  <2> QED BY <2>2, <2>3
<1> QED BY <1>2, <1>5, <1>6, <1>7

(* pop removes the last entry, top reads it.                               *)
LEMMA PopRemoves ==
  ASSUME NEW s, StackType(s), s.StackPointer > 0
  PROVE  /\ StackType(pop(s))
         /\ pop(s).StackPointer = s.StackPointer - 1
         /\ \A n \in 0 .. s.StackPointer - 2 : Entry(pop(s), n) = Entry(s, n)
<1> DEFINE m == s.StackPointer - 1
           r == pop(s)
           C == [Index -> Cell \union {Null}]
<1>1. /\ m \in Nat /\ s.StackPointer = m + 1
      /\ s.chunks \in Seq(C)
      /\ Len(s.chunks) = ChunkOf(m) + 1
  BY DEF StackType, Chunked
<1>2. /\ r.StackPointer = m
      /\ r.chunks = IF Slot(m) = 0 THEN Previous(s) ELSE s.chunks
      /\ DOMAIN r = {"StackPointer", "chunks"}
  BY DEF pop
<1> HIDE DEF m, r
<1>3. ChunkOf(m) \in Nat
  BY <1>1, Division
<1>4. /\ Previous(s) \in Seq(C) /\ Len(Previous(s)) = ChunkOf(m)
      /\ \A k \in 1 .. ChunkOf(m) : Previous(s)[k] = s.chunks[k]
  BY <1>1, <1>3 DEF Previous
<1>5. r.chunks \in Seq(C)
      /\ Len(r.chunks) = IF Slot(m) = 0 THEN ChunkOf(m) ELSE ChunkOf(m) + 1
  BY <1>1, <1>2, <1>4
<1>6. StackType(r)
  BY <1>1, <1>2, <1>5, ChunkCount DEF StackType, Chunked
<1>7. ASSUME NEW n \in 0 .. m - 1
      PROVE  Entry(r, n) = Entry(s, n)
  <2>1. n \in 0 .. r.StackPointer - 1
    BY <1>2
  <2>2. ChunkOf(n) + 1 \in 1 .. Len(r.chunks)
    BY <1>6, <2>1, EntryPlace
  <2>3. r.chunks[ChunkOf(n) + 1] = s.chunks[ChunkOf(n) + 1]
    BY <1>2, <1>4, <1>5, <2>2
  <2> QED BY <2>3 DEF Entry
<1>8. s.StackPointer - 2 = m - 1 /\ s.StackPointer - 1 = m
  BY <1>1
<1> QED BY <1>2, <1>6, <1>7, <1>8 DEF r

LEMMA TopSlot ==
  ASSUME NEW s, StackType(s), s.StackPointer # 0
  PROVE  /\ s.StackPointer - 1 \in Nat
         /\ Slot(s.StackPointer - 1) \in Index
         /\ s.chunks \in Seq([Index -> Cell \union {Null}])
         /\ Len(s.chunks) \in Nat \ {0} /\ s.chunks # <<>>
         /\ SIZEOF_STACKCHUNK \in Nat
<1> DEFINE m == s.StackPointer - 1
<1>1. /\ m \in Nat /\ s.chunks \in Seq([Index -> Cell \union {Null}])
      /\ Len(s.chunks) = ChunkOf(m) + 1
  BY DEF StackType, Chunked
<1> HIDE DEF m
<1>2. ChunkOf(m) \in Nat /\ Slot(m) \in Index
  BY <1>1, Division
<1>3. Len(s.chunks) \in Nat \ {0}
  BY <1>1, <1>2
<1> QED BY <1>1, <1>2, <1>3, ChunkAssumption DEF m

LEMMA TopIsLast ==
  ASSUME NEW s, StackType(s), s.StackPointer > 0
  PROVE  top(s) = Entry(s, s.StackPointer - 1)
BY DEF StackType, Chunked, top, currentchunk, Entry

(* The k-th chunk has an entry in slot i exactly if some entry is there.   *)
LEMMA SlotsInUse ==
  ASSUME NEW s, StackType(s), NEW k \in 1 .. Len(s.chunks), NEW i \in Index,
         k = Len(s.chunks) => i <= Slot(s.StackPointer - 1)
  PROVE  \E n \in 0 .. s.StackPointer - 1 :
           Entry(s, n) = s.chunks[k][i]
<1> DEFINE m == s.StackPointer - 1
           n == SIZEOF_STACKCHUNK * (k - 1) + i
<1>1. m \in Nat /\ Len(s.chunks) = ChunkOf(m) + 1 /\ k \in Nat
  BY DEF StackType, Chunked
<1>2. n \in Nat /\ ChunkOf(n) = k - 1 /\ Slot(n) = i
  BY <1>1, Remainder
<1> HIDE DEF n, m
<1>3. ChunkOf(m) \in Nat /\ Slot(m) \in Index
  BY <1>1, Division
<1>4. ChunkOf(n) < ChunkOf(m) \/ (ChunkOf(n) = ChunkOf(m) /\ Slot(n) <= Slot(m))
  BY <1>1, <1>2, <1>3 DEF m
<1>5. n <= m
  BY <1>1, <1>2, <1>4, Order
<1>6. n \in 0 .. s.StackPointer - 1
  BY <1>1, <1>2, <1>5 DEF m
<1>7. ChunkOf(n) + 1 = k
  BY <1>1, <1>2
<1>8. Entry(s, n) = s.chunks[k][i]
  BY <1>2, <1>7 DEF Entry
<1> QED BY <1>6, <1>8

(* Entries in the current chunk lie below its last slot in use.            *)
LEMMA SlotOfEntry ==
  ASSUME NEW s, StackType(s), NEW n \in 0 .. s.StackPointer - 1,
         ChunkOf(n) + 1 = Len(s.chunks)
  PROVE  Slot(n) <= Slot(s.StackPointer - 1)
<1> DEFINE m == s.StackPointer - 1
<1>1. m \in Nat /\ n \in Nat /\ n <= m /\ Len(s.chunks) = ChunkOf(m) + 1
  BY DEF StackType, Chunked
<1> HIDE DEF m
<1>2. ChunkOf(m) \in Nat /\ ChunkOf(n) \in Nat
  BY <1>1, Division
<1>3. ChunkOf(n) = ChunkOf(m)
  BY <1>1, <1>2
<1>4. Slot(n) <= Slot(m)
  BY <1>1, <1>2, <1>3, Order
<1> QED BY <1>4 DEF m

(* A copy copies the entries, no more and no fewer.                        *)
LEMMA CopiesEntries ==
  ASSUME NEW s, StackType(s)
  PROVE  Copied(s) = Entries(s)
<1>0. CASE s.StackPointer = 0
  <2>1. 1 .. Len(s.chunks) = {} /\ 0 .. s.StackPointer - 1 = {}
    BY <1>0 DEF StackType, Chunked
  <2> QED BY <2>1 DEF Copied, Entries
<1>1. CASE s.StackPointer # 0
  <2>0. /\ s.StackPointer - 1 \in Nat
        /\ Slot(s.StackPointer - 1) \in Index
        /\ SIZEOF_STACKCHUNK \in Nat
    BY <1>1, TopSlot
  <2>1. ASSUME NEW k \in 1 .. Len(s.chunks), NEW i \in 0 .. numElements(s, k) - 1
        PROVE  s.chunks[k][i] \in Entries(s)
    <3>1. i \in Index /\ (k = Len(s.chunks) => i <= Slot(s.StackPointer - 1))
      BY <2>0 DEF numElements, Index
    <3> QED BY <3>1, SlotsInUse DEF Entries
  <2>2. ASSUME NEW n \in 0 .. s.StackPointer - 1
        PROVE  Entry(s, n) \in Copied(s)
    <3> DEFINE k == ChunkOf(n) + 1
    <3>1. k \in 1 .. Len(s.chunks) /\ Slot(n) \in Index
      BY EntryPlace
    <3>2. Slot(n) \in 0 .. numElements(s, k) - 1
      BY <2>0, <3>1, SlotOfEntry DEF numElements, Index
    <3> QED BY <3>1, <3>2 DEF Copied, Entry
  <2>3. Copied(s) \subseteq Entries(s)
    BY <2>1 DEF Copied
  <2>4. Entries(s) \subseteq Copied(s)
    BY <2>2 DEF Entries
  <2> QED BY <2>3, <2>4
<1> QED BY <1>0, <1>1

(* The destructor destroys the entries, no more and no fewer.              *)
LEMMA DestroysEntries ==
  ASSUME NEW s, StackType(s)
  PROVE  Destroyed(s) = Entries(s)
<1>0. CASE s.StackPointer = 0
  <2>1. s.chunks = <<>> /\ 0 .. s.StackPointer - 1 = {}
    BY <1>0 DEF StackType, Chunked
  <2>2. Previous(s) = <<>>
    BY <2>1 DEF Previous
  <2>3. DOMAIN Previous(s) = {}
    BY <2>2
  <2> QED BY <2>1, <2>3 DEF Destroyed, DestroyedInCurrent, Entries
<1>1. CASE s.StackPointer # 0
  <2>0. /\ s.StackPointer - 1 \in Nat
        /\ Slot(s.StackPointer - 1) \in Index
        /\ SIZEOF_STACKCHUNK \in Nat
        /\ s.chunks \in Seq([Index -> Cell \union {Null}])
        /\ Len(s.chunks) \in Nat \ {0} /\ s.chunks # <<>>
    BY <1>1, TopSlot
  <2>a. /\ DOMAIN Previous(s) = 1 .. Len(s.chunks) - 1
        /\ \A k \in 1 .. Len(s.chunks) - 1 : Previous(s)[k] = s.chunks[k]
    BY <2>0 DEF Previous
  <2>1. ASSUME NEW i \in 0 .. Slot(s.StackPointer - 1)
        PROVE  currentchunk(s)[i] \in Entries(s)
    <3>1. i \in Index /\ i <= Slot(s.StackPointer - 1)
          /\ Len(s.chunks) \in 1 .. Len(s.chunks)
      BY <2>0 DEF Index
    <3> QED BY <3>1, SlotsInUse DEF Entries, currentchunk
  <2>2. ASSUME NEW k \in DOMAIN Previous(s), NEW i \in Index
        PROVE  Previous(s)[k][i] \in Entries(s)
    <3>1. k \in 1 .. Len(s.chunks) /\ k # Len(s.chunks)
          /\ Previous(s)[k] = s.chunks[k]
      BY <2>0, <2>a
    <3> QED BY <3>1, SlotsInUse DEF Entries
  <2>3. ASSUME NEW n \in 0 .. s.StackPointer - 1
        PROVE  Entry(s, n) \in Destroyed(s)
    <3> DEFINE k == ChunkOf(n) + 1
    <3>1. k \in 1 .. Len(s.chunks) /\ Slot(n) \in Index
      BY EntryPlace
    <3>2. CASE k = Len(s.chunks)
      <4>1. Slot(n) \in 0 .. Slot(s.StackPointer - 1)
        BY <2>0, <3>1, <3>2, SlotOfEntry DEF Index
      <4>2. Entry(s, n) = currentchunk(s)[Slot(n)]
        BY <3>2 DEF Entry, currentchunk
      <4> QED BY <2>0, <4>1, <4>2 DEF Destroyed, DestroyedInCurrent
    <3>3. CASE k # Len(s.chunks)
      <4>1. k \in DOMAIN Previous(s) /\ Previous(s)[k] = s.chunks[k]
        BY <2>0, <2>a, <3>1, <3>3
      <4>2. Entry(s, n) = Previous(s)[k][Slot(n)]
        BY <4>1 DEF Entry
      <4> QED BY <3>1, <4>1, <4>2 DEF Destroyed
    <3> QED BY <3>2, <3>3
  <2>4. Destroyed(s) \subseteq Entries(s)
    BY <2>0, <2>1, <2>2 DEF Destroyed, DestroyedInCurrent
  <2>5. Entries(s) \subseteq Destroyed(s)
    BY <2>3 DEF Entries
  <2> QED BY <2>4, <2>5
<1> QED BY <1>0, <1>1

(* The copy has the clones of the entries, in their order.                 *)
LEMMA CopyClones ==
  ASSUME NEW s, StackType(s), NEW clone \in [Copied(s) -> Cell]
  PROVE  /\ StackType(copy(s, clone))
         /\ copy(s, clone).StackPointer = s.StackPointer
         /\ \A n \in 0 .. s.StackPointer - 1 :
              Entry(copy(s, clone), n) = clone[Entry(s, n)]
<1> DEFINE r == copy(s, clone)
           C == [Index -> Cell \union {Null}]
<1>1. /\ r.StackPointer = s.StackPointer
      /\ r.chunks = [k \in 1 .. Len(s.chunks) |->
                       [i \in Index |-> IF i < numElements(s, k)
                                          THEN clone[s.chunks[k][i]] ELSE Null]]
      /\ DOMAIN r = {"StackPointer", "chunks"}
  BY DEF copy
<1>2. s.StackPointer \in Nat /\ s.chunks \in Seq(C) /\ Len(s.chunks) \in Nat
  BY DEF StackType
<1>3. ASSUME NEW k \in 1 .. Len(s.chunks)
      PROVE  r.chunks[k] \in C
  <2>1. ASSUME NEW i \in Index
        PROVE  (IF i < numElements(s, k) THEN clone[s.chunks[k][i]] ELSE Null)
                  \in Cell \union {Null}
    <3>1. CASE i < numElements(s, k)
      <4>1. numElements(s, k) \in Int
        <5>1. s.StackPointer # 0
          BY DEF StackType, Chunked
        <5> QED BY <5>1, TopSlot DEF numElements, Index
      <4>2. i \in 0 .. numElements(s, k) - 1
        BY <3>1, <4>1 DEF Index
      <4>3. s.chunks[k][i] \in Copied(s)
        BY <4>2 DEF Copied
      <4> QED BY <3>1, <4>3
    <3> QED BY <3>1
  <2> QED BY <1>1, <2>1
<1>4. r.chunks \in Seq(C) /\ Len(r.chunks) = Len(s.chunks)
  BY <1>1, <1>2, <1>3
<1>5. StackType(r)
  BY <1>1, <1>4 DEF StackType, Chunked
<1>6. ASSUME NEW n \in 0 .. s.StackPointer - 1
      PROVE  Entry(r, n) = clone[Entry(s, n)]
  <2> DEFINE k == ChunkOf(n) + 1
  <2>1. k \in 1 .. Len(s.chunks) /\ Slot(n) \in Index
    BY EntryPlace
  <2>2. Slot(n) < numElements(s, k)
    <3>1. s.StackPointer # 0
      BY <1>2
    <3>2. CASE k = Len(s.chunks)
      <4>1. Slot(n) <= Slot(s.StackPointer - 1)
        BY <3>2, SlotOfEntry
      <4> QED BY <2>1, <3>1, <3>2, <4>1, TopSlot DEF numElements, Index
    <3>3. CASE k # Len(s.chunks)
      BY <2>1, <3>3, ChunkAssumption DEF numElements, Index
    <3> QED BY <3>2, <3>3
  <2> QED BY <1>1, <2>1, <2>2 DEF Entry
<1> QED BY <1>1, <1>5, <1>6

-----------------------------------------------------------------------------
(* The same in terms of the sets of entries.                               *)
LEMMA EmptyEntries ==
  /\ StackType(EmptyStack) /\ Injective(EmptyStack) /\ Entries(EmptyStack) = {}
<1>1. EmptyStack.StackPointer = 0 /\ EmptyStack.chunks = <<>>
      /\ DOMAIN EmptyStack = {"StackPointer", "chunks"}
  BY DEF EmptyStack
<1>2. 0 .. EmptyStack.StackPointer - 1 = {}
  BY <1>1
<1>3. <<>> \in Seq([Index -> Cell \union {Null}]) /\ Len(<<>>) = 0
  OBVIOUS
<1> QED BY <1>1, <1>2, <1>3 DEF StackType, Chunked, Injective, Entries

LEMMA PushEntries ==
  ASSUME NEW s, StackType(s), Injective(s), NEW e \in Cell, e \notin Entries(s)
  PROVE  /\ StackType(push(s, e)) /\ Injective(push(s, e))
         /\ Entries(push(s, e)) = Entries(s) \union {e}
         /\ push(s, e).StackPointer > 0 /\ top(push(s, e)) = e
<1> DEFINE r == push(s, e)
           SP == s.StackPointer
<1>1. /\ SP \in Nat /\ StackType(r) /\ r.StackPointer = SP + 1
      /\ \A n \in 0 .. SP - 1 : Entry(r, n) = Entry(s, n)
      /\ Entry(r, SP) = e
  BY PushAppends DEF StackType
<1>2. top(r) = e
  BY <1>1, TopIsLast
<1>3. \A n \in 0 .. SP - 1 : Entry(s, n) \in Entries(s)
  BY DEF Entries
<1> HIDE DEF r, SP
<1>4. 0 .. r.StackPointer - 1 = (0 .. SP - 1) \union {SP}
  BY <1>1
<1>5. ASSUME NEW m \in 0 .. r.StackPointer - 1, NEW n \in 0 .. r.StackPointer - 1,
             Entry(r, m) = Entry(r, n)
      PROVE  m = n
  <2>1. CASE m \in 0 .. SP - 1 /\ n \in 0 .. SP - 1
    BY <1>1, <1>5, <2>1 DEF Injective, SP
  <2>2. CASE m = SP \/ n = SP
    BY <1>1, <1>3, <1>4, <1>5, <2>2
  <2> QED BY <1>4, <2>1, <2>2
<1>6. Entries(r) = Entries(s) \union {e}
  <2>1. Entries(r) = {Entry(r, n) : n \in 0 .. r.StackPointer - 1}
        /\ Entries(s) = {Entry(s, n) : n \in 0 .. SP - 1}
    BY DEF Entries, SP
  <2> QED BY <1>1, <1>4, <2>1
<1>7. Injective(r)
  BY <1>5 DEF Injective
<1>8. r.StackPointer > 0
  BY <1>1
<1> QED BY <1>1, <1>2, <1>6, <1>7, <1>8 DEF r

LEMMA PopEntries ==
  ASSUME NEW s, StackType(s), Injective(s), s.StackPointer > 0
  PROVE  /\ StackType(pop(s)) /\ Injective(pop(s))
         /\ Entries(pop(s)) = Entries(s) \ {top(s)}
         /\ top(s) \in Entries(s)
<1> DEFINE r == pop(s)
           m == s.StackPointer - 1
<1>1. /\ m \in Nat /\ s.StackPointer = m + 1 /\ s.StackPointer - 2 = m - 1
      /\ StackType(r) /\ r.StackPointer = m
      /\ \A n \in 0 .. s.StackPointer - 2 : Entry(r, n) = Entry(s, n)
      /\ top(s) = Entry(s, m)
  BY PopRemoves, TopIsLast DEF StackType
<1>2. Entries(r) = {Entry(r, n) : n \in 0 .. r.StackPointer - 1}
      /\ Entries(s) = {Entry(s, n) : n \in 0 .. s.StackPointer - 1}
  BY DEF Entries
<1> HIDE DEF r, m
<1>3. 0 .. s.StackPointer - 1 = (0 .. m - 1) \union {m}
  BY <1>1
<1>4. \A n \in 0 .. m - 1 : Entry(r, n) = Entry(s, n) /\ Entry(s, n) # Entry(s, m)
  BY <1>1, <1>3 DEF Injective
<1>5. Entries(r) = Entries(s) \ {top(s)} /\ top(s) \in Entries(s)
  BY <1>1, <1>2, <1>3, <1>4
<1>6. Injective(r)
  BY <1>1, <1>3, <1>4 DEF Injective
<1> QED BY <1>1, <1>5, <1>6 DEF r

LEMMA CopyEntries ==
  ASSUME NEW s, StackType(s), Injective(s), NEW U, U \subseteq Cell,
         NEW clone \in Injection(Copied(s), U)
  PROVE  /\ StackType(copy(s, clone)) /\ Injective(copy(s, clone))
         /\ Entries(copy(s, clone)) = {clone[e] : e \in Entries(s)}
<1> DEFINE r == copy(s, clone)
           SP == s.StackPointer
<1>1. /\ clone \in [Copied(s) -> Cell] /\ Copied(s) = Entries(s)
      /\ \A d, e \in Entries(s) : clone[d] = clone[e] => d = e
  BY CopiesEntries DEF Injection, IsInjective
<1>2. /\ StackType(r) /\ r.StackPointer = SP
      /\ \A n \in 0 .. SP - 1 : Entry(r, n) = clone[Entry(s, n)]
  BY <1>1, CopyClones
<1>3. Entries(r) = {Entry(r, n) : n \in 0 .. r.StackPointer - 1}
      /\ Entries(s) = {Entry(s, n) : n \in 0 .. SP - 1}
  BY DEF Entries
<1> HIDE DEF r
<1>4. Injective(r)
  BY <1>1, <1>2, <1>3 DEF Injective
<1>5. Entries(r) = {clone[e] : e \in Entries(s)}
  BY <1>2, <1>3
<1> QED BY <1>2, <1>4, <1>5 DEF r

-----------------------------------------------------------------------------
(* Ownership as sets of addresses: those on a stack, those held by a       *)
(* thread; together they make up what is allocated.                        *)
Stacked == [o \in Owner |-> Entries(stack[o])]
Held == [t \in Thread |-> IF Holds(t) THEN {currentFirelist[t]} ELSE {}]

Split(S, H, A) ==
  /\ \A o, p \in Owner : o # p => S[o] \cap S[p] = {}
  /\ \A t, u \in Thread : t # u => H[t] \cap H[u] = {}
  /\ \A t \in Thread, o \in Owner : H[t] \cap S[o] = {}
  /\ A = (UNION {S[o] : o \in Owner}) \union (UNION {H[t] : t \in Thread})

Inv ==
  /\ TypeOK
  /\ HeldAtStage
  /\ \A o \in Owner : Injective(stack[o])
  /\ Split(Stacked, Held, Allocated)

LEMMA AllOwned ==
  Inv => OwnedOnce /\ NothingLeaks
<1> SUFFICES ASSUME Inv PROVE OwnedOnce /\ NothingLeaks
  OBVIOUS
<1> USE DEF Inv, Split, Stacked, Held
<1>1. OneSlot
  BY DEF OneSlot
<1>2. OneHolder
  BY DEF OneHolder
<1>3. NoneDangles
  BY DEF NoneDangles
<1>4. NothingLeaks
  BY DEF NothingLeaks
<1> QED BY <1>1, <1>2, <1>3, <1>4 DEF OwnedOnce

LEMMA InitInv ==
  Init => Inv
<1> SUFFICES ASSUME Init PROVE Inv
  OBVIOUS
<1>1. \A o \in Owner : stack[o] = EmptyStack
  BY DEF Init
<1>2. TypeOK
  BY <1>1, EmptyEntries DEF Init, TypeOK, Stages
<1>3. HeldAtStage
  BY DEF Init, HeldAtStage
<1>4. Allocated = {}
  BY DEF Init, Allocated, Unused
<1>5. Split(Stacked, Held, Allocated)
  BY <1>1, <1>4, EmptyEntries DEF Init, Split, Stacked, Held, Holds
<1> QED BY <1>1, <1>2, <1>3, <1>5, EmptyEntries DEF Inv

(* A search with no stack involved.  First one that gets a firelist.       *)
LEMMA GetsOne ==
  ASSUME Inv, NEW t \in Thread, stage[t] \in {"start", "woken"},
         getFirelist(t), Goto(t, "search"), UNCHANGED <<finished, suspended, stack>>
  PROVE  Inv'
<1>1. PICK c \in Unused, f \in Firelist :
        /\ heap' = [heap EXCEPT ![c] = f]
        /\ currentFirelist' = [currentFirelist EXCEPT ![t] = c]
  BY DEF getFirelist
<1>2. TypeOK
  BY DEF Inv
<1>3. c \in Cell /\ c # Null /\ c \notin Allocated
  BY HeapAssumption DEF Unused, Allocated
<1>4. /\ stack' = stack /\ finished' = finished /\ suspended' = suspended
      /\ stage' = [stage EXCEPT ![t] = "search"]
  BY DEF Goto
<1>5. TypeOK'
  BY <1>1, <1>2, <1>3, <1>4 DEF TypeOK, Stages
<1>6. HeldAtStage'
  BY <1>1, <1>2, <1>3, <1>4 DEF HeldAtStage, TypeOK, Inv
<1>7. Stacked' = Stacked
  BY <1>4 DEF Stacked
<1>8. Held' = [Held EXCEPT ![t] = {c}]
  BY <1>1, <1>2, <1>3, <1>4 DEF Held, Holds, TypeOK
<1>9. Allocated' = Allocated \union {c}
  BY <1>1, <1>2, <1>3, HeapAssumption DEF Allocated, Unused, TypeOK
<1>10. Held[t] = {} /\ DOMAIN Held = Thread
  BY DEF Held, Holds, HeldAtStage, Inv
<1>11. Split(Stacked', Held', Allocated')
  <2>1. Split(Stacked, Held, Allocated)
    BY DEF Inv
  <2> QED BY <1>3, <1>7, <1>8, <1>9, <1>10, <2>1 DEF Split
<1> QED BY <1>4, <1>5, <1>6, <1>11 DEF Inv

(* Then one that deletes its firelist, if it has one, and stops.           *)
LEMMA LosesOne ==
  ASSUME Inv, NEW t \in Thread, stage[t] = "search",
         heap' = FreedCurrent(t),
         currentFirelist' = [currentFirelist EXCEPT ![t] = Null],
         NEW q \in {"done", "idle"}, Goto(t, q),
         stack' = stack, finished' \in BOOLEAN,
         suspended' \subseteq suspended \union {t}
  PROVE  Inv'
<1>1. TypeOK /\ Split(Stacked, Held, Allocated) /\ HeldAtStage
  BY DEF Inv
<1>2. stage' = [stage EXCEPT ![t] = q]
  BY DEF Goto
<1>3. heap' = [c \in Cell |-> IF c = currentFirelist[t] THEN Free ELSE heap[c]]
  BY DEF FreedCurrent, Freed
<1>4. TypeOK'
  BY <1>1, <1>2, <1>3 DEF TypeOK, Stages
<1>5. HeldAtStage'
  BY <1>1, <1>2 DEF HeldAtStage, TypeOK
<1>6. Stacked' = Stacked
  BY DEF Stacked
<1>7. Held' = [Held EXCEPT ![t] = {}] /\ Held[t] = {currentFirelist[t]}
  BY <1>1, <1>2 DEF Held, Holds, TypeOK, HeldAtStage
<1>8. Allocated' = Allocated \ Held[t]
  BY <1>1, <1>3, <1>7 DEF Allocated, Unused, TypeOK
<1>9. Split(Stacked', Held', Allocated')
  <2>1. DOMAIN Held = Thread
    BY DEF Held
  <2> QED BY <1>1, <1>6, <1>7, <1>8, <2>1 DEF Split
<1> QED BY <1>4, <1>5, <1>9 DEF Inv

(* Steps that change neither the stacks nor the heap.                      *)
LEMMA StageOnly ==
  ASSUME Inv, NEW t \in Thread, stack' = stack, heap' = heap,
         finished' \in BOOLEAN, suspended' = suspended, NEW q \in {"found", "done"}, Goto(t, q),
         \/ /\ q = "found" /\ stage[t] \in {"start", "search"}
            /\ currentFirelist' = currentFirelist
         \/ /\ q = "done" /\ stage[t] \in {"idle", "woken", "lent"}
            /\ currentFirelist' = [currentFirelist EXCEPT ![t] = Null]
  PROVE  Inv'
<1>1. TypeOK /\ Split(Stacked, Held, Allocated) /\ HeldAtStage
  BY DEF Inv
<1>2. stage' = [stage EXCEPT ![t] = q]
  BY DEF Goto
<1>3. TypeOK'
  BY <1>1, <1>2 DEF TypeOK, Stages
<1>4. HeldAtStage'
  BY <1>1, <1>2 DEF HeldAtStage, TypeOK
<1>5. Stacked' = Stacked /\ Allocated' = Allocated
  BY DEF Stacked, Allocated, Unused
<1>6. Held' = Held
  BY <1>1, <1>2 DEF Held, Holds, TypeOK, HeldAtStage
<1> QED BY <1>1, <1>3, <1>4, <1>5, <1>6 DEF Inv

LEMMA PublishInv ==
  ASSUME Inv, NEW t \in Thread, Publish(t)
  PROVE  Inv'
<1>1. TypeOK /\ Split(Stacked, Held, Allocated) /\ HeldAtStage
      /\ \A o \in Owner : Injective(stack[o])
  BY DEF Inv
<1>2. /\ stage[t] = "found" /\ stage' = [stage EXCEPT ![t] = "done"]
      /\ finished' = finished /\ suspended' = suspended
      /\ stack' = [stack EXCEPT ![Global] = stack[t], ![t] = stack[Global]]
      /\ currentFirelist' = [currentFirelist EXCEPT ![t] = Null]
      /\ heap' = [c \in Cell |-> IF c = currentFirelist[t] THEN Free ELSE heap[c]]
  BY DEF Publish, Goto, Freed
<1>3. t \in Owner /\ Global \in Owner /\ t # Global
  BY OwnerAssumption DEF Owner
<1>4. DOMAIN stack' = Owner
      /\ \A o \in Owner : stack'[o] = IF o = t THEN stack[Global]
                                      ELSE IF o = Global THEN stack[t] ELSE stack[o]
  BY <1>1, <1>2, <1>3 DEF TypeOK
<1>5. \A o \in Owner : StackType(stack'[o]) /\ Injective(stack'[o])
  BY <1>1, <1>3, <1>4 DEF TypeOK
<1>6. TypeOK'
  BY <1>1, <1>2, <1>4, <1>5 DEF TypeOK, Stages
<1>7. HeldAtStage'
  <2>1. \A u \in Thread \ {t} : /\ stack'[u] = stack[u] /\ stage'[u] = stage[u]
                               /\ currentFirelist'[u] = currentFirelist[u]
    BY <1>1, <1>2, <1>4, OwnerAssumption DEF TypeOK, Owner
  <2>2. stage'[t] = "done" /\ currentFirelist'[t] = Null
    BY <1>1, <1>2 DEF TypeOK
  <2> QED BY <1>1, <1>2, <2>1, <2>2 DEF HeldAtStage
<1>8. Stacked' = [o \in Owner |-> IF o = t THEN Stacked[Global]
                                  ELSE IF o = Global THEN Stacked[t] ELSE Stacked[o]]
  BY <1>3, <1>4 DEF Stacked
<1>9. Held' = [Held EXCEPT ![t] = {}]
  BY <1>1, <1>2 DEF Held, Holds, TypeOK, HeldAtStage
<1>10. Allocated' = Allocated \ Held[t]
  BY <1>1, <1>2, HeapAssumption DEF Allocated, Unused, TypeOK, Held, Holds
<1>11. Split(Stacked', Held', Allocated')
  <2>1. DOMAIN Held = Thread
    BY DEF Held
  <2>2. UNION {Stacked'[o] : o \in Owner} = UNION {Stacked[o] : o \in Owner}
    BY <1>3, <1>8
  <2> QED BY <1>1, <1>3, <1>8, <1>9, <1>10, <2>1, <2>2 DEF Split
<1> QED BY <1>5, <1>6, <1>7, <1>11 DEF Inv

LEMMA DescendInv ==
  ASSUME Inv, NEW t \in Thread, Descend(t)
  PROVE  Inv'
<1> DEFINE e == currentFirelist[t]
           r == push(stack[t], e)
<1>1. TypeOK /\ Split(Stacked, Held, Allocated) /\ HeldAtStage
      /\ \A o \in Owner : Injective(stack[o])
  BY DEF Inv
<1>2. PICK c \in Unused, f \in Firelist :
        /\ heap' = [heap EXCEPT ![c] = f]
        /\ currentFirelist' = [currentFirelist EXCEPT ![t] = c]
  BY DEF Descend, getFirelist
<1>3. /\ stage[t] = "search" /\ stage' = stage /\ finished' = finished
      /\ suspended' = suspended
      /\ stack' = [stack EXCEPT ![t] = r]
  BY DEF Descend
<1>4. t \in Owner /\ c \in Cell /\ c # Null /\ c \notin Allocated
  BY HeapAssumption DEF Owner, Unused, Allocated
<1>5. Held[t] = {e} /\ e \in Cell /\ DOMAIN Held = Thread
  BY <1>1, <1>3 DEF Held, Holds, HeldAtStage, TypeOK
<1>6. e \notin Entries(stack[t])
  BY <1>1, <1>4, <1>5 DEF Split, Stacked
<1>7. StackType(r) /\ Injective(r) /\ Entries(r) = Entries(stack[t]) \union {e}
  BY <1>1, <1>4, <1>5, <1>6, PushEntries DEF TypeOK
<1> HIDE DEF r
<1>8. TypeOK'
  BY <1>1, <1>2, <1>3, <1>4, <1>7 DEF TypeOK
<1>9. HeldAtStage'
  BY <1>1, <1>2, <1>3, <1>4 DEF HeldAtStage, TypeOK, Owner
<1>10. \A o \in Owner : Injective(stack'[o])
  BY <1>1, <1>3, <1>7 DEF TypeOK
<1>11. Stacked' = [Stacked EXCEPT ![t] = Stacked[t] \union {e}]
  BY <1>1, <1>3, <1>4, <1>7 DEF Stacked, TypeOK
<1>12. Held' = [Held EXCEPT ![t] = {c}]
  BY <1>1, <1>2, <1>3, <1>4 DEF Held, Holds, TypeOK
<1>13. Allocated' = Allocated \union {c}
  BY <1>1, <1>2, <1>4, HeapAssumption DEF Allocated, Unused, TypeOK
<1>14. Split(Stacked', Held', Allocated')
  <2>1. DOMAIN Stacked = Owner
    BY DEF Stacked
  <2> HIDE DEF e
  <2> QED BY <1>1, <1>4, <1>5, <1>11, <1>12, <1>13, <2>1 DEF Split
<1> QED BY <1>8, <1>9, <1>10, <1>14 DEF Inv

LEMMA KeepRestInv ==
  ASSUME Inv, NEW t \in Thread, KeepRest(t)
  PROVE  Inv'
<1> DEFINE e == currentFirelist[t]
           r == pop(stack[t])
<1>1. TypeOK /\ Split(Stacked, Held, Allocated) /\ HeldAtStage
      /\ \A o \in Owner : Injective(stack[o])
  BY DEF Inv
<1>2. /\ stage[t] = "lent" /\ stage' = [stage EXCEPT ![t] = "search"]
      /\ finished' = finished /\ suspended' = suspended
      /\ currentFirelist' = currentFirelist
      /\ heap' = heap /\ stack' = [stack EXCEPT ![t] = r]
  BY DEF KeepRest, Goto
<1>3. t \in Owner /\ StackType(stack[t]) /\ Injective(stack[t])
      /\ stack[t].StackPointer > 0 /\ e = top(stack[t]) /\ e # Null
  BY <1>1, <1>2 DEF Owner, TypeOK, HeldAtStage
<1>4. /\ StackType(r) /\ Injective(r)
      /\ Entries(r) = Entries(stack[t]) \ {e} /\ e \in Entries(stack[t])
  BY <1>3, PopEntries
<1> HIDE DEF r, e
<1>5. TypeOK'
  BY <1>1, <1>2, <1>3, <1>4 DEF TypeOK, Stages
<1>6. HeldAtStage'
  BY <1>1, <1>2, <1>3 DEF HeldAtStage, TypeOK, Owner, e
<1>7. \A o \in Owner : Injective(stack'[o])
  BY <1>1, <1>2, <1>4 DEF TypeOK
<1>8. Stacked' = [Stacked EXCEPT ![t] = Stacked[t] \ {e}]
  BY <1>1, <1>2, <1>3, <1>4 DEF Stacked, TypeOK
<1>9. Held' = [Held EXCEPT ![t] = {e}] /\ Held[t] = {}
  BY <1>1, <1>2, <1>3 DEF Held, Holds, TypeOK, e
<1>10. Allocated' = Allocated
  BY <1>2 DEF Allocated, Unused
<1>11. Split(Stacked', Held', Allocated')
  <2>1. DOMAIN Stacked = Owner /\ DOMAIN Held = Thread /\ e \in Stacked[t]
    BY <1>3, <1>4 DEF Stacked, Held
  <2> QED BY <1>1, <1>3, <1>8, <1>9, <1>10, <2>1 DEF Split
<1> QED BY <1>5, <1>6, <1>7, <1>11 DEF Inv

LEMMA BacktrackInv ==
  ASSUME Inv, NEW t \in Thread, Backtrack(t)
  PROVE  Inv'
<1> DEFINE d == currentFirelist[t]
           e == top(stack[t])
           r == pop(stack[t])
<1>1. TypeOK /\ Split(Stacked, Held, Allocated) /\ HeldAtStage
      /\ \A o \in Owner : Injective(stack[o])
  BY DEF Inv
<1>2. /\ stage[t] = "search" /\ stage' = stage /\ finished' = finished
      /\ suspended' = suspended /\ stack[t].StackPointer > 0
      /\ currentFirelist' = [currentFirelist EXCEPT ![t] = e]
      /\ heap' = [c \in Cell |-> IF c = d THEN Free ELSE heap[c]]
      /\ stack' = [stack EXCEPT ![t] = r]
  BY DEF Backtrack, FreedCurrent, Freed
<1>3. t \in Owner /\ StackType(stack[t]) /\ Injective(stack[t])
  BY <1>1 DEF Owner, TypeOK
<1>4. /\ StackType(r) /\ Injective(r)
      /\ Entries(r) = Entries(stack[t]) \ {e} /\ e \in Entries(stack[t])
  BY <1>2, <1>3, PopEntries
<1>5. Held[t] = {d} /\ DOMAIN Held = Thread
  BY <1>1, <1>2 DEF Held, Holds, HeldAtStage
<1>6. e \in Cell /\ e # Null
  <2>1. e \in Stacked[t]
    BY <1>3, <1>4 DEF Stacked
  <2>2. e \in Allocated
    BY <1>1, <1>3, <2>1 DEF Split
  <2> QED BY <2>2, HeapAssumption DEF Allocated
<1> HIDE DEF r, e, d
<1>7. TypeOK'
  BY <1>1, <1>2, <1>3, <1>4, <1>6 DEF TypeOK
<1>8. HeldAtStage'
  BY <1>1, <1>2, <1>3, <1>6 DEF HeldAtStage, TypeOK, Owner
<1>9. \A o \in Owner : Injective(stack'[o])
  BY <1>1, <1>2, <1>4 DEF TypeOK
<1>10. Stacked' = [Stacked EXCEPT ![t] = Stacked[t] \ {e}]
  BY <1>1, <1>2, <1>3, <1>4 DEF Stacked, TypeOK
<1>11. Held' = [Held EXCEPT ![t] = {e}]
  BY <1>1, <1>2, <1>6 DEF Held, Holds, TypeOK
<1>12. Allocated' = Allocated \ {d}
  BY <1>1, <1>2 DEF Allocated, Unused, TypeOK
<1>13. Split(Stacked', Held', Allocated')
  <2>1. DOMAIN Stacked = Owner /\ e \in Stacked[t]
    BY <1>3, <1>4 DEF Stacked
  <2> QED BY <1>1, <1>3, <1>5, <1>10, <1>11, <1>12, <2>1 DEF Split
<1> QED BY <1>7, <1>8, <1>9, <1>13 DEF Inv

LEMMA JoinInv ==
  ASSUME Inv, Join
  PROVE  Inv'
<1>1. TypeOK /\ Split(Stacked, Held, Allocated) /\ HeldAtStage
      /\ \A o \in Owner : Injective(stack[o])
  BY DEF Inv
<1> DEFINE D == UNION {Stacked[t] : t \in Thread}
<1>2. /\ \A t \in Thread : stage[t] = "done"
      /\ stage' = [t \in Thread |-> "joined"]
      /\ finished' = finished /\ suspended' = {}
      /\ currentFirelist' = currentFirelist
      /\ stack' = [o \in Owner |-> IF o = Global THEN stack[o] ELSE EmptyStack]
  BY DEF Join
<1>3. \A t \in Thread : t \in Owner /\ t # Global /\ Destroyed(stack[t]) = Stacked[t]
  BY <1>1, DestroysEntries, OwnerAssumption DEF TypeOK, Owner, Stacked
<1>4. heap' = [c \in Cell |-> IF c \in D THEN Free ELSE heap[c]]
  BY <1>3 DEF Join, Freed
<1>5. Global \in Owner /\ \A o \in Owner : o # Global => o \in Thread
  BY DEF Owner
<1>6. Stacked' = [o \in Owner |-> IF o = Global THEN Stacked[Global] ELSE {}]
  BY <1>2, <1>5, EmptyEntries DEF Stacked
<1>7. \A o \in Owner : StackType(stack'[o]) /\ Injective(stack'[o])
  BY <1>1, <1>2, EmptyEntries DEF TypeOK
<1> HIDE DEF D
<1>8. TypeOK'
  BY <1>1, <1>2, <1>4, <1>7 DEF TypeOK, Stages
<1>9. HeldAtStage'
  BY <1>1, <1>2 DEF HeldAtStage
<1>10. Held' = Held /\ \A t \in Thread : Held[t] = {}
  BY <1>1, <1>2 DEF Held, Holds, HeldAtStage
<1>11. Allocated' = Allocated \ D
  BY <1>1, <1>4 DEF Allocated, Unused, TypeOK
<1>12. Allocated' = Stacked[Global]
  <2>1. Allocated = UNION {Stacked[o] : o \in Owner}
    BY <1>1, <1>10 DEF Split
  <2>2. Stacked[Global] \cap D = {}
    BY <1>1, <1>3, <1>5 DEF Split, D
  <2>3. Allocated = Stacked[Global] \union D
    BY <2>1, <1>3, <1>5 DEF D
  <2> QED BY <1>11, <2>2, <2>3
<1>13. Split(Stacked', Held', Allocated')
  BY <1>5, <1>6, <1>10, <1>12 DEF Split
<1> QED BY <1>7, <1>8, <1>9, <1>13 DEF Inv

LEMMA LendInv ==
  ASSUME Inv, NEW t \in Thread, NEW reader \in Thread, Lend(t, reader)
  PROVE  Inv'
<1> DEFINE e == currentFirelist[t]
           r == push(stack[t], e)
           old == Entries(stack[reader])
<1>1. TypeOK /\ Split(Stacked, Held, Allocated) /\ HeldAtStage
      /\ \A o \in Owner : Injective(stack[o])
  BY DEF Inv
<1>2. PICK clone \in Clones(Copied(r)) :
        /\ stack' = [stack EXCEPT ![t] = r, ![reader] = copy(r, clone)]
        /\ heap' = Cloned(clone, Destroyed(stack[reader]))
  BY DEF Lend
<1> DEFINE new == {clone[d] : d \in Entries(r)}
<1> DEFINE q == IF stage[reader] = "idle" THEN "woken" ELSE stage[reader]
<1>3. /\ stage[t] = "search" /\ stage[reader] \in {"idle", "done"} /\ t # reader
      /\ stage' = [stage EXCEPT ![t] = "lent", ![reader] = q]
      /\ finished' = finished /\ currentFirelist' = currentFirelist
      /\ suspended' = suspended \ {reader}
      /\ q \in {"woken", "done"}
  <2>1. stage[t] = "search" /\ stage[reader] \in {"idle", "done"}
    BY <1>1 DEF Lend, HeldAtStage
  <2> QED BY <1>1, <2>1 DEF Lend, TypeOK
<1> HIDE DEF q
<1>4. t \in Owner /\ reader \in Owner /\ t # reader
  BY <1>3 DEF Owner
<1>5. Held[t] = {e} /\ e \in Cell /\ DOMAIN Held = Thread
  BY <1>1, <1>3 DEF Held, Holds, HeldAtStage, TypeOK
<1>6. e \notin Entries(stack[t])
  BY <1>1, <1>4, <1>5 DEF Split, Stacked
<1>7. /\ StackType(r) /\ Injective(r) /\ Entries(r) = Entries(stack[t]) \union {e}
      /\ r.StackPointer > 0 /\ top(r) = e
  BY <1>1, <1>4, <1>5, <1>6, PushEntries DEF TypeOK
<1> HIDE DEF r
<1>8. clone \in Injection(Copied(r), Unused) /\ Unused \subseteq Cell
  BY <1>2 DEF Clones, Unused
<1>9. /\ StackType(copy(r, clone)) /\ Injective(copy(r, clone))
      /\ Entries(copy(r, clone)) = new
  BY <1>7, <1>8, CopyEntries
<1>10. /\ DOMAIN clone = Entries(r) /\ new \subseteq Unused
       /\ \A d \in Entries(r) : clone[d] \in Unused
  BY <1>7, <1>8, CopiesEntries DEF Injection
<1>11. Destroyed(stack[reader]) = old
  BY <1>1, <1>4, DestroysEntries DEF TypeOK
<1>12. Entries(r) \subseteq Allocated
  <2>1. Stacked[t] \subseteq Allocated /\ Held[t] \subseteq Allocated
    BY <1>1, <1>4 DEF Split
  <2> QED BY <1>4, <1>5, <1>7, <2>1 DEF Stacked
<1>13. /\ DOMAIN heap' = Cell
       /\ \A c \in Cell : heap'[c] \in Firelist \union {Free}
       /\ \A c \in new : heap'[c] # Free
       /\ \A c \in Cell \ new : heap'[c] = IF c \in old THEN Free ELSE heap[c]
  <2>1. heap' = [c \in Cell |->
                   IF \E d \in Entries(r) : clone[d] = c
                     THEN heap[CHOOSE d \in Entries(r) : clone[d] = c]
                     ELSE IF c \in old THEN Free ELSE heap[c]]
    BY <1>2, <1>10, <1>11 DEF Cloned
  <2>2. \A d \in Entries(r) : heap[d] \in Firelist /\ heap[d] # Free
    BY <1>1, <1>12 DEF Allocated, Unused, TypeOK
  <2>3. ASSUME NEW c \in new
        PROVE  /\ c \in Cell
               /\ heap'[c] = heap[CHOOSE d \in Entries(r) : clone[d] = c]
               /\ (CHOOSE d \in Entries(r) : clone[d] = c) \in Entries(r)
    <3>1. c \in Cell /\ \E d \in Entries(r) : clone[d] = c
      BY <1>8, <1>10
    <3> QED BY <2>1, <3>1
  <2>4. \A c \in Cell \ new : heap'[c] = IF c \in old THEN Free ELSE heap[c]
    BY <2>1
  <2>5. \A c \in new : heap'[c] \in Firelist /\ heap'[c] # Free
    BY <2>2, <2>3
  <2>6. \A c \in Cell \ new : heap'[c] \in Firelist \union {Free}
    BY <1>1, <2>4 DEF TypeOK
  <2>7. DOMAIN heap' = Cell
    BY <2>1
  <2> QED BY <2>4, <2>5, <2>6, <2>7
<1> HIDE DEF e, new, old
<1>14. \A o \in Owner : StackType(stack'[o]) /\ Injective(stack'[o])
  BY <1>1, <1>2, <1>4, <1>7, <1>9 DEF TypeOK
<1>15. heap' \in [Cell -> Firelist \union {Free}]
  <2>1. heap' = [c \in Cell |-> heap'[c]]
    BY <1>2 DEF Cloned
  <2> QED BY <1>13, <2>1
<1>16. TypeOK'
  BY <1>1, <1>2, <1>3, <1>14, <1>15 DEF TypeOK, Stages
<1>17. HeldAtStage'
  <2>1. /\ stack'[t] = r /\ stage'[t] = "lent" /\ currentFirelist'[t] = e
        /\ stage'[reader] = q /\ currentFirelist'[reader] = currentFirelist[reader]
    BY <1>1, <1>2, <1>3, <1>4 DEF TypeOK, e
  <2>2. \A u \in Thread \ {t, reader} :
          /\ stack'[u] = stack[u] /\ stage'[u] = stage[u]
          /\ currentFirelist'[u] = currentFirelist[u]
    BY <1>1, <1>2, <1>3 DEF TypeOK, Owner
  <2>3. e # Null
    BY <1>5, HeapAssumption
  <2> QED BY <1>1, <1>3, <1>7, <2>1, <2>2, <2>3 DEF HeldAtStage
<1>18. Stacked' = [Stacked EXCEPT ![t] = Stacked[t] \union {e}, ![reader] = new]
  BY <1>1, <1>2, <1>4, <1>7, <1>9 DEF Stacked, TypeOK
<1>19. Held' = [Held EXCEPT ![t] = {}]
  BY <1>1, <1>3, <1>4 DEF Held, Holds, TypeOK
<1>20. Allocated' = (Allocated \ old) \union new
  BY <1>8, <1>10, <1>13 DEF Allocated, Unused
<1>21. new \cap Allocated = {} /\ old = Stacked[reader]
  BY <1>4, <1>10 DEF Allocated, old, Stacked
<1>22. Split(Stacked', Held', Allocated')
  <2>1. DOMAIN Stacked = Owner
    BY DEF Stacked
  <2> QED BY <1>1, <1>4, <1>5, <1>18, <1>19, <1>20, <1>21, <2>1 DEF Split
<1> QED BY <1>14, <1>16, <1>17, <1>22 DEF Inv

LEMMA StepInv ==
  ASSUME Inv, NEW t \in Thread, Step(t)
  PROVE  Inv'
<1> finished \in BOOLEAN /\ TypeOK /\ HeldAtStage
  BY DEF Inv, TypeOK
<1>1. CASE Start(t)
  BY <1>1, GetsOne DEF Start
<1>2. CASE Satisfied(t)
  BY <1>2, StageOnly DEF Satisfied
<1>3. CASE Publish(t)
  BY <1>3, PublishInv
<1>4. CASE Descend(t)
  BY <1>4, DescendInv
<1>5. CASE \E reader \in Thread : Lend(t, reader)
  BY <1>5, LendInv
<1>6. CASE KeepRest(t)
  BY <1>6, KeepRestInv
<1>7. CASE GiveUp(t)
  BY <1>7, StageOnly DEF GiveUp
<1>8. CASE Backtrack(t)
  BY <1>8, BacktrackInv
<1>9. CASE RunDry(t)
  BY <1>9, LosesOne DEF RunDry
<1>10. CASE Abort(t)
  BY <1>10, LosesOne DEF Abort
<1>11. CASE WakeRestart(t)
  BY <1>11, GetsOne DEF WakeRestart
<1>12. CASE WakeFinished(t)
  <2>1. currentFirelist' = [currentFirelist EXCEPT ![t] = Null]
    BY <1>12 DEF WakeFinished, HeldAtStage, TypeOK
  <2> QED BY <1>12, <2>1, StageOnly DEF WakeFinished
<1> QED BY <1>1, <1>2, <1>3, <1>4, <1>5, <1>6, <1>7, <1>8, <1>9, <1>10, <1>11,
           <1>12 DEF Step

LEMMA StutterInv ==
  ASSUME Inv, UNCHANGED vars
  PROVE  Inv'
<1>1. TypeOK'
  BY DEF Inv, vars, TypeOK
<1>2. HeldAtStage'
  BY DEF Inv, vars, HeldAtStage
<1>3. Stacked' = Stacked /\ Held' = Held /\ Allocated' = Allocated
  BY DEF vars, Stacked, Held, Holds, Allocated, Unused
<1>4. (\A o \in Owner : Injective(stack[o]))' /\ Split(Stacked, Held, Allocated)'
  BY <1>3 DEF Inv, vars
<1> QED BY <1>1, <1>2, <1>4 DEF Inv

LEMMA NextInv ==
  Inv /\ [Next]_vars => Inv'
<1> SUFFICES ASSUME Inv, [Next]_vars PROVE Inv'
  OBVIOUS
<1>1. ASSUME NEW t \in Thread, Step(t) PROVE Inv'
  BY <1>1, StepInv
<1>2. CASE Join
  BY <1>2, JoinInv
<1>3. CASE Returned \/ UNCHANGED vars
  BY <1>3, StutterInv DEF Returned
<1> QED BY <1>1, <1>2, <1>3 DEF Next

LEMMA SpecInv ==
  Spec => []Inv
BY InitInv, NextInv, PTL DEF Spec

(* The state is well typed; in particular every stack always has exactly   *)
(* the chunks that its entries need (the assertions of push and pop).      *)
THEOREM TypeCorrect ==
  Spec => []TypeOK
<1>1. Inv => TypeOK
  BY DEF Inv
<1> QED BY <1>1, SpecInv, PTL

(* Nobody deletes or reads a firelist that another owner has, or that has  *)
(* been deleted: for any number of threads, any chunk size, and paths of   *)
(* any length.                                                             *)
THEOREM EveryFirelistOwnedOnce ==
  Spec => []OwnedOnce
BY SpecInv, AllOwned, PTL

(* Every firelist on the heap is on a stack or a thread's current one.     *)
THEOREM NoFirelistLeaks ==
  Spec => []NothingLeaks
BY SpecInv, AllOwned, PTL

-----------------------------------------------------------------------------
(* What the stacks say, for a given heap.                                  *)
ContentsIn(s, h) == [i \in 1 .. s.StackPointer |-> h[Entry(s, i - 1)]]

LEMMA ContentsType ==
  ASSUME NEW s, StackType(s), NEW h, NEW V, \A e \in Entries(s) : h[e] \in V
  PROVE  /\ ContentsIn(s, h) \in Seq(V)
         /\ Len(ContentsIn(s, h)) = s.StackPointer
         /\ \A i \in 1 .. s.StackPointer : ContentsIn(s, h)[i] = h[Entry(s, i - 1)]
<1>1. s.StackPointer \in Nat
  BY DEF StackType
<1>2. \A i \in 1 .. s.StackPointer : h[Entry(s, i - 1)] \in V
  BY <1>1 DEF Entries
<1> QED BY <1>1, <1>2 DEF ContentsIn

LEMMA ContentsSame ==
  ASSUME NEW s, NEW h, NEW g, StackType(s), \A e \in Entries(s) : g[e] = h[e]
  PROVE  ContentsIn(s, g) = ContentsIn(s, h)
<1>1. s.StackPointer \in Nat
  BY DEF StackType
<1>2. \A i \in 1 .. s.StackPointer : g[Entry(s, i - 1)] = h[Entry(s, i - 1)]
  BY <1>1 DEF Entries
<1> QED BY <1>2 DEF ContentsIn

LEMMA ContentsPush ==
  ASSUME NEW s, StackType(s), NEW e \in Cell, NEW h, NEW V,
         \A d \in Entries(s) : h[d] \in V, h[e] \in V
  PROVE  ContentsIn(push(s, e), h) = Append(ContentsIn(s, h), h[e])
<1> DEFINE SP == s.StackPointer
           r == push(s, e)
           a == ContentsIn(r, h)
           b == Append(ContentsIn(s, h), h[e])
<1>1. /\ SP \in Nat /\ r.StackPointer = SP + 1
      /\ \A n \in 0 .. SP - 1 : Entry(r, n) = Entry(s, n)
      /\ Entry(r, SP) = e
  BY PushAppends DEF StackType
<1>2. /\ ContentsIn(s, h) \in Seq(V) /\ Len(ContentsIn(s, h)) = SP
      /\ \A i \in 1 .. SP : ContentsIn(s, h)[i] = h[Entry(s, i - 1)]
  BY ContentsType
<1> HIDE DEF SP, r
<1>3. a = [i \in 1 .. SP + 1 |-> h[Entry(r, i - 1)]]
  BY <1>1 DEF ContentsIn
<1>4. b \in Seq(V) /\ Len(b) = SP + 1 /\ b[SP + 1] = h[e]
      /\ \A i \in 1 .. SP : b[i] = ContentsIn(s, h)[i]
  BY <1>1, <1>2
<1> HIDE DEF b
<1>5. ASSUME NEW i \in 1 .. SP + 1
      PROVE  h[Entry(r, i - 1)] = b[i]
  <2>1. CASE i = SP + 1
    BY <1>1, <1>4, <2>1
  <2>2. CASE i # SP + 1
    <3>1. i \in 1 .. SP /\ i - 1 \in 0 .. SP - 1
      BY <1>1, <2>2
    <3> QED BY <1>1, <1>2, <1>4, <3>1
  <2> QED BY <2>1, <2>2
<1>6. b = [i \in 1 .. SP + 1 |-> b[i]]
  BY <1>4
<1>7. a = b
  BY <1>3, <1>5, <1>6
<1> QED BY <1>7 DEF b, r

LEMMA ContentsPop ==
  ASSUME NEW s, StackType(s), s.StackPointer > 0, NEW h, NEW V,
         \A d \in Entries(s) : h[d] \in V
  PROVE  LET c == ContentsIn(s, h)
         IN  /\ c # <<>> /\ c[Len(c)] = h[top(s)]
             /\ ContentsIn(pop(s), h) = SubSeq(c, 1, Len(c) - 1)
<1> DEFINE c == ContentsIn(s, h)
           m == s.StackPointer - 1
           r == pop(s)
           b == SubSeq(c, 1, m)
<1>1. /\ m \in Nat /\ s.StackPointer = m + 1 /\ s.StackPointer - 2 = m - 1
      /\ r.StackPointer = m
      /\ \A n \in 0 .. s.StackPointer - 2 : Entry(r, n) = Entry(s, n)
      /\ top(s) = Entry(s, m)
  BY PopRemoves, TopIsLast DEF StackType
<1>2. /\ c \in Seq(V) /\ Len(c) = s.StackPointer
      /\ \A i \in 1 .. s.StackPointer : c[i] = h[Entry(s, i - 1)]
  BY ContentsType
<1>3. ContentsIn(r, h) = [i \in 1 .. m |-> h[Entry(r, i - 1)]]
  BY <1>1 DEF ContentsIn
<1> HIDE DEF c, m, r
<1>4. c # <<>> /\ c[Len(c)] = h[top(s)] /\ Len(c) - 1 = m
  <2>1. Len(c) \in 1 .. s.StackPointer /\ Len(c) - 1 = m /\ Len(c) # 0
    BY <1>1, <1>2
  <2> QED BY <1>1, <1>2, <2>1
<1>5. b \in Seq(V) /\ Len(b) = m /\ \A i \in 1 .. m : b[i] = c[i]
  BY <1>1, <1>2
<1> HIDE DEF b
<1>6. \A i \in 1 .. m : i \in 1 .. s.StackPointer /\ i - 1 \in 0 .. m - 1
  BY <1>1
<1>7. \A i \in 1 .. m : h[Entry(r, i - 1)] = b[i]
  BY <1>1, <1>2, <1>5, <1>6
<1>8. b = [i \in 1 .. m |-> b[i]]
  BY <1>5
<1>9. ContentsIn(r, h) = b
  BY <1>3, <1>7, <1>8
<1> QED BY <1>4, <1>9 DEF b, c, r

LEMMA ContentsCopy ==
  ASSUME NEW s, StackType(s), NEW clone \in [Copied(s) -> Cell], NEW h, NEW g,
         \A e \in Entries(s) : g[clone[e]] = h[e]
  PROVE  ContentsIn(copy(s, clone), g) = ContentsIn(s, h)
<1> DEFINE r == copy(s, clone)
<1>1. s.StackPointer \in Nat /\ r.StackPointer = s.StackPointer
      /\ \A n \in 0 .. s.StackPointer - 1 : Entry(r, n) = clone[Entry(s, n)]
  BY CopyClones DEF StackType
<1> HIDE DEF r
<1>2. \A i \in 1 .. s.StackPointer : g[Entry(r, i - 1)] = h[Entry(s, i - 1)]
  BY <1>1 DEF Entries
<1> QED BY <1>1, <1>2 DEF ContentsIn, r

-----------------------------------------------------------------------------
(* The refinement.  What a thread or a stack refers to is in use, so it is *)
(* not disturbed by changes of other cells.                                *)
LEMMA InUse ==
  ASSUME Inv
  PROVE  /\ \A o \in Owner : /\ StackType(stack[o]) /\ Stacked[o] = Entries(stack[o])
                             /\ Stacked[o] \subseteq Allocated
         /\ \A c \in Allocated : c \in Cell /\ heap[c] \in Firelist
         /\ \A u \in Thread : /\ Held[u] \subseteq Allocated
                              /\ currentFirelist[u] # Null =>
                                   currentFirelist[u] \in Held[u] \union Stacked[u]
<1>1. TypeOK /\ Split(Stacked, Held, Allocated) /\ HeldAtStage
  BY DEF Inv
<1>2. \A o \in Owner : /\ StackType(stack[o]) /\ Stacked[o] = Entries(stack[o])
                       /\ Stacked[o] \subseteq Allocated
  BY <1>1 DEF TypeOK, Split, Stacked
<1>3. \A c \in Allocated : c \in Cell /\ heap[c] \in Firelist
  BY <1>1 DEF TypeOK, Allocated, Unused
<1>4. \A u \in Thread : Held[u] \subseteq Allocated
  BY <1>1 DEF Split
<1>5. ASSUME NEW u \in Thread, currentFirelist[u] # Null
      PROVE  currentFirelist[u] \in Held[u] \union Stacked[u]
  <2>1. CASE stage[u] # "lent"
    BY <1>5, <2>1 DEF Held, Holds
  <2>2. CASE stage[u] = "lent"
    <3>1. /\ stack[u].StackPointer > 0 /\ currentFirelist[u] = top(stack[u])
          /\ u \in Owner
      BY <1>1, <2>2 DEF HeldAtStage, Owner
    <3>2. top(stack[u]) = Entry(stack[u], stack[u].StackPointer - 1)
      BY <1>2, <3>1, TopIsLast
    <3>3. stack[u].StackPointer \in Nat
      BY <1>2, <3>1 DEF StackType
    <3>4. top(stack[u]) \in Entries(stack[u])
      BY <3>1, <3>2, <3>3 DEF Entries
    <3> QED BY <1>2, <3>1, <3>4
  <2> QED BY <2>1, <2>2
<1> QED BY <1>2, <1>3, <1>4, <1>5

LEMMA ContentsKept ==
  ASSUME Inv, NEW o \in Owner, stack'[o] = stack[o],
         \A c \in Stacked[o] : heap'[c] = heap[c]
  PROVE  Contents(stack[o])' = Contents(stack[o])
<1>1. ContentsIn(stack[o], heap') = ContentsIn(stack[o], heap)
  BY InUse, ContentsSame
<1> QED BY <1>1 DEF Contents, ContentsIn

LEMMA CurrentKept ==
  ASSUME Inv, NEW u \in Thread, currentFirelist'[u] = currentFirelist[u],
         \A c \in Held[u] \union Stacked[u] : heap'[c] = heap[c]
  PROVE  Current(u)' = Current(u)
BY InUse DEF Current

(* One thread gets a firelist; its stack stays, or its old firelist is     *)
(* pushed.                                                                 *)
LEMMA GetRefines ==
  ASSUME Inv, NEW t \in Thread, getFirelist(t), stack' = stack
  PROVE  Sequences_!Get(t)
<1>1. PICK c \in Unused, f \in Firelist :
        /\ heap' = [heap EXCEPT ![c] = f]
        /\ currentFirelist' = [currentFirelist EXCEPT ![t] = c]
  BY DEF getFirelist
<1>2. c \in Cell /\ c # Null /\ c \notin Allocated /\ TypeOK
  BY HeapAssumption DEF Unused, Allocated, Inv
<1>3. \A d \in Cell : d # c => heap'[d] = heap[d]
  BY <1>1, <1>2 DEF TypeOK
<1>4. \A o \in Owner : Contents(stack[o])' = Contents(stack[o])
  <2> TAKE o \in Owner
  <2>1. \A d \in Stacked[o] : heap'[d] = heap[d]
    BY <1>2, <1>3, InUse
  <2> QED BY <2>1, ContentsKept
<1>5. \A u \in Thread \ {t} : Current(u)' = Current(u)
  <2> TAKE u \in Thread \ {t}
  <2>1. \A d \in Held[u] \union Stacked[u] : heap'[d] = heap[d]
    BY <1>2, <1>3, InUse DEF Owner
  <2>2. currentFirelist'[u] = currentFirelist[u]
    BY <1>1, <1>2 DEF TypeOK
  <2> QED BY <2>1, <2>2, CurrentKept
<1>6. Current(t)' = f
  BY <1>1, <1>2 DEF Current, TypeOK
<1>7. [u \in Thread |-> Current(u)]' = [[u \in Thread |-> Current(u)] EXCEPT ![t] = f]
  BY <1>5, <1>6
<1>8. [o \in Owner |-> Contents(stack[o])]' = [o \in Owner |-> Contents(stack[o])]
  BY <1>4
<1> QED BY <1>7, <1>8 DEF Sequences_!Get

(* Changes to what t alone owns do not show in the others.                 *)
LEMMA OthersKept ==
  ASSUME Inv, NEW t \in Thread,
         \A d \in Allocated : d \notin Held[t] => heap'[d] = heap[d]
  PROVE  /\ \A o \in Owner : stack'[o] = stack[o] =>
              Contents(stack[o])' = Contents(stack[o])
         /\ \A u \in Thread \ {t} : currentFirelist'[u] = currentFirelist[u] =>
              Current(u)' = Current(u)
<1>1. Split(Stacked, Held, Allocated)
  BY DEF Inv
<1>2. \A o \in Owner : \A d \in Stacked[o] : heap'[d] = heap[d]
  BY <1>1, InUse DEF Split
<1>3. \A o \in Owner : stack'[o] = stack[o] =>
        Contents(stack[o])' = Contents(stack[o])
  BY <1>2, ContentsKept
<1>4. ASSUME NEW u \in Thread \ {t}, currentFirelist'[u] = currentFirelist[u]
      PROVE  Current(u)' = Current(u)
  <2>1. \A d \in Held[u] : heap'[d] = heap[d]
    BY <1>1, InUse DEF Split
  <2>2. u \in Owner
    BY DEF Owner
  <2> QED BY <1>2, <1>4, <2>1, <2>2, CurrentKept
<1> QED BY <1>3, <1>4

LEMMA DropRefines ==
  ASSUME Inv, NEW t \in Thread, stack' = stack,
         \/ heap' = heap
         \/ stage[t] = "search" /\ heap' = FreedCurrent(t),
         currentFirelist' = [currentFirelist EXCEPT ![t] = Null]
  PROVE  Sequences_!Drop(t)
<1>1. TypeOK /\ HeldAtStage
  BY DEF Inv
<1>2. \A d \in Allocated : d \notin Held[t] => heap'[d] = heap[d]
  BY <1>1, InUse DEF FreedCurrent, Freed, Held, Holds, HeldAtStage
<1>3. \A u \in Thread \ {t} : Current(u)' = Current(u)
  BY <1>1, <1>2, OthersKept DEF TypeOK
<1>4. Current(t)' = Free
  BY <1>1 DEF Current, TypeOK
<1>5. [u \in Thread |-> Current(u)]' = [[u \in Thread |-> Current(u)] EXCEPT ![t] = Free]
  BY <1>3, <1>4
<1>6. [o \in Owner |-> Contents(stack[o])]' = [o \in Owner |-> Contents(stack[o])]
  BY <1>2, OthersKept
<1> QED BY <1>5, <1>6 DEF Sequences_!Drop

LEMMA PublishRefines ==
  ASSUME Inv, NEW t \in Thread, Publish(t)
  PROVE  Sequences_!Win(t)
<1>1. TypeOK /\ HeldAtStage /\ Split(Stacked, Held, Allocated)
  BY DEF Inv
<1>2. /\ stage[t] = "found"
      /\ stack' = [stack EXCEPT ![Global] = stack[t], ![t] = stack[Global]]
      /\ currentFirelist' = [currentFirelist EXCEPT ![t] = Null]
      /\ heap' = [c \in Cell |-> IF c = currentFirelist[t] THEN Free ELSE heap[c]]
  BY DEF Publish, Freed
<1>3. t \in Owner /\ Global \in Owner /\ t # Global
  BY OwnerAssumption DEF Owner
<1>4. \A o \in Owner : stack'[o] = IF o = t THEN stack[Global]
                                   ELSE IF o = Global THEN stack[t] ELSE stack[o]
  BY <1>1, <1>2, <1>3 DEF TypeOK
<1>5. \A d \in Allocated : d \notin Held[t] => heap'[d] = heap[d]
  <2>1. ASSUME NEW d \in Allocated, d \notin Held[t] PROVE d # currentFirelist[t]
    BY <1>2, <2>1, InUse, HeapAssumption DEF Held, Holds
  <2> QED BY <1>2, <2>1, InUse
<1>6. \A o \in Owner : ContentsIn(stack[o], heap') = ContentsIn(stack[o], heap)
  <2>1. \A o \in Owner : \A d \in Stacked[o] : heap'[d] = heap[d]
    BY <1>1, <1>5, InUse DEF Split
  <2> QED BY <2>1, InUse, ContentsSame
<1>7. \A o \in Owner : Contents(stack[o])' =
                         IF o = t THEN Contents(stack[Global])
                         ELSE IF o = Global THEN Contents(stack[t])
                         ELSE Contents(stack[o])
  <2>1. \A o \in Owner : Contents(stack[o])' = ContentsIn(stack'[o], heap')
                         /\ Contents(stack[o]) = ContentsIn(stack[o], heap)
    BY DEF Contents, ContentsIn
  <2> QED BY <1>3, <1>4, <1>6, <2>1
<1>8. \A u \in Thread \ {t} : Current(u)' = Current(u)
  BY <1>1, <1>2, <1>5, OthersKept DEF TypeOK
<1>9. Current(t)' = Free
  BY <1>1, <1>2 DEF Current, TypeOK
<1>10. [u \in Thread |-> Current(u)]' = [[u \in Thread |-> Current(u)] EXCEPT ![t] = Free]
  BY <1>8, <1>9
<1> DEFINE c == [o \in Owner |-> Contents(stack[o])]
<1>11. c' = [c EXCEPT ![Global] = c[t], ![t] = c[Global]]
  BY <1>3, <1>7
<1> QED BY <1>10, <1>11 DEF Sequences_!Win

LEMMA DescendRefines ==
  ASSUME Inv, NEW t \in Thread, Descend(t)
  PROVE  Sequences_!Down(t)
<1> DEFINE e == currentFirelist[t]
<1>1. TypeOK /\ HeldAtStage /\ Split(Stacked, Held, Allocated)
  BY DEF Inv
<1>2. PICK c \in Unused, f \in Firelist :
        /\ heap' = [heap EXCEPT ![c] = f]
        /\ currentFirelist' = [currentFirelist EXCEPT ![t] = c]
  BY DEF Descend, getFirelist
<1>3. /\ stage[t] = "search" /\ stack' = [stack EXCEPT ![t] = push(stack[t], e)]
      /\ t \in Owner
  BY DEF Descend, Owner
<1>4. c \in Cell /\ c # Null /\ c \notin Allocated
  BY HeapAssumption DEF Unused, Allocated
<1>5. \A d \in Allocated : heap'[d] = heap[d]
  BY <1>1, <1>2, <1>4, InUse DEF TypeOK
<1>6. e # Null /\ e \in Allocated /\ e \in Cell
  BY <1>1, <1>3, InUse DEF HeldAtStage, Held, Holds
<1>7. \A d \in Entries(stack[t]) : heap[d] \in Firelist
  BY <1>3, InUse
<1>8. StackType(stack[t]) /\ stack'[t] = push(stack[t], e)
  BY <1>1, <1>3 DEF TypeOK
<1>9. Contents(stack[t])' = Append(Contents(stack[t]), Current(t))
  <2>1. StackType(push(stack[t], e))
    BY <1>6, <1>8, PushAppends
  <2>2. Entries(push(stack[t], e)) \subseteq Allocated
    <3>1. Injective(stack[t]) /\ e \notin Entries(stack[t])
      BY <1>1, <1>3, <1>6, InUse DEF Inv, Split, Held, Holds
    <3>2. Entries(push(stack[t], e)) = Entries(stack[t]) \union {e}
      BY <1>6, <1>8, <3>1, PushEntries
    <3> QED BY <1>3, <1>6, <3>2, InUse
  <2>3. ContentsIn(push(stack[t], e), heap') = ContentsIn(push(stack[t], e), heap)
    BY <1>5, <2>1, <2>2, ContentsSame
  <2>4. heap[e] \in Firelist
    BY <1>6, InUse
  <2>5. ContentsIn(push(stack[t], e), heap) = Append(ContentsIn(stack[t], heap), heap[e])
    BY <1>6, <1>7, <1>8, <2>4, ContentsPush
  <2>6. Contents(stack[t])' = ContentsIn(push(stack[t], e), heap')
        /\ Contents(stack[t]) = ContentsIn(stack[t], heap)
    BY <1>8 DEF Contents, ContentsIn
  <2> QED BY <1>6, <2>3, <2>5, <2>6 DEF Current
<1>10. \A o \in Owner \ {t} : Contents(stack[o])' = Contents(stack[o])
  BY <1>1, <1>3, <1>5, OthersKept DEF TypeOK
<1>11. \A u \in Thread \ {t} : Current(u)' = Current(u)
  BY <1>1, <1>2, <1>5, OthersKept DEF TypeOK
<1>12. Current(t)' = f
  BY <1>1, <1>2, <1>4 DEF Current, TypeOK
<1> DEFINE C == [o \in Owner |-> Contents(stack[o])]
           K == [u \in Thread |-> Current(u)]
<1>13. K' = [K EXCEPT ![t] = f]
  BY <1>11, <1>12
<1>14. C' = [C EXCEPT ![t] = Append(C[t], K[t])]
  BY <1>3, <1>9, <1>10
<1> QED BY <1>13, <1>14 DEF Sequences_!Down

(* Backtracking, and keeping the rest of a firelist that was lent.         *)
LEMMA BackRefines ==
  ASSUME Inv, NEW t \in Thread, KeepRest(t) \/ Backtrack(t)
  PROVE  Sequences_!Back(t)
<1> DEFINE s == stack[t]
           C == [o \in Owner |-> Contents(stack[o])]
           K == [u \in Thread |-> Current(u)]
<1>1. TypeOK /\ HeldAtStage /\ Split(Stacked, Held, Allocated)
      /\ \A o \in Owner : Injective(stack[o])
  BY DEF Inv
<1>2. /\ t \in Owner /\ StackType(s) /\ s.StackPointer > 0
      /\ stack' = [stack EXCEPT ![t] = pop(s)]
      /\ currentFirelist' = [currentFirelist EXCEPT ![t] = top(s)]
  BY <1>1 DEF KeepRest, Backtrack, Owner, TypeOK, HeldAtStage
<1>3. \A d \in Allocated : d \notin Held[t] => heap'[d] = heap[d]
  BY <1>1, InUse DEF KeepRest, Backtrack, FreedCurrent, Freed, Held, Holds, HeldAtStage
<1>4. \A d \in Entries(s) : heap'[d] = heap[d] /\ d \in Allocated /\ heap[d] \in Firelist
  BY <1>1, <1>2, <1>3, InUse DEF Split
<1>5. /\ StackType(pop(s)) /\ Entries(pop(s)) \subseteq Entries(s)
      /\ top(s) \in Entries(s)
  BY <1>1, <1>2, PopEntries
<1>6. \A o \in Owner \ {t} : Contents(stack[o])' = Contents(stack[o])
  BY <1>1, <1>2, <1>3, OthersKept DEF TypeOK
<1>7. \A u \in Thread \ {t} : Current(u)' = Current(u)
  BY <1>1, <1>2, <1>3, OthersKept DEF TypeOK
<1>8. /\ C[t] # <<>> /\ C[t][Len(C[t])] = heap[top(s)]
      /\ Contents(stack[t])' = SubSeq(C[t], 1, Len(C[t]) - 1)
  <2>1. C[t] = ContentsIn(s, heap)
    BY <1>2 DEF Contents, ContentsIn
  <2>2. Contents(stack[t])' = ContentsIn(pop(s), heap')
    BY <1>1, <1>2 DEF Contents, ContentsIn, TypeOK
  <2>3. ContentsIn(pop(s), heap') = ContentsIn(pop(s), heap)
    BY <1>4, <1>5, ContentsSame
  <2> HIDE DEF C, s
  <2> QED BY <1>2, <1>4, <2>1, <2>2, <2>3, ContentsPop
<1>9. Current(t)' = heap[top(s)]
  <2>1. currentFirelist'[t] = top(s) /\ top(s) # Null
    BY <1>1, <1>2, <1>4, <1>5, InUse, HeapAssumption DEF TypeOK
  <2> QED BY <1>4, <1>5, <2>1 DEF Current
<1>10. K' = [K EXCEPT ![t] = C[t][Len(C[t])]]
  BY <1>7, <1>8, <1>9
<1>11. C' = [C EXCEPT ![t] = SubSeq(C[t], 1, Len(C[t]) - 1)]
  BY <1>6, <1>8
<1> QED BY <1>8, <1>10, <1>11 DEF Sequences_!Back, Sequences_!Last, Sequences_!Front

LEMMA JoinRefines ==
  ASSUME Inv, Join
  PROVE  Sequences_!End
<1> DEFINE C == [o \in Owner |-> Contents(stack[o])]
<1>1. TypeOK /\ HeldAtStage /\ Split(Stacked, Held, Allocated)
  BY DEF Inv
<1>2. /\ \A t \in Thread : stage[t] = "done"
      /\ currentFirelist' = currentFirelist
      /\ stack' = [o \in Owner |-> IF o = Global THEN stack[o] ELSE EmptyStack]
  BY DEF Join
<1>3. \A t \in Thread : t \in Owner /\ t # Global /\ Destroyed(stack[t]) = Stacked[t]
  BY <1>1, DestroysEntries, OwnerAssumption DEF TypeOK, Owner, Stacked
<1>4. Global \in Owner
  BY DEF Owner
<1>5. \A d \in Stacked[Global] : heap'[d] = heap[d]
  <2>1. \A t \in Thread : Stacked[t] \cap Stacked[Global] = {}
    BY <1>1, <1>3, <1>4 DEF Split
  <2> QED BY <1>3, <1>4, <2>1, InUse DEF Join, Freed
<1>6. Contents(stack[Global])' = C[Global]
  BY <1>2, <1>4, <1>5, ContentsKept
<1>7. \A o \in Owner : o # Global => Contents(stack[o])' = <<>>
  <2> SUFFICES ASSUME NEW o \in Owner, o # Global
               PROVE  Contents(stack[o])' = <<>>
    OBVIOUS
  <2>1. stack'[o].StackPointer = 0
    BY <1>2 DEF EmptyStack
  <2>2. 1 .. stack'[o].StackPointer = {}
    BY <2>1
  <2>3. Contents(stack[o])' = [i \in {} |-> heap'[Entry(stack'[o], i - 1)]]
    BY <2>2 DEF Contents
  <2> QED BY <2>3
<1>8. C' = [o \in Owner |-> IF o = Global THEN C[o] ELSE <<>>]
  BY <1>6, <1>7
<1>9. [u \in Thread |-> Current(u)]' = [u \in Thread |-> Current(u)]
  BY <1>1, <1>2 DEF Current, HeldAtStage
<1> QED BY <1>8, <1>9 DEF Sequences_!End, Owner

LEMMA LendRefines ==
  ASSUME Inv, NEW t \in Thread, NEW reader \in Thread, Lend(t, reader)
  PROVE  t # reader /\ Sequences_!Give(t, reader)
<1> DEFINE e == currentFirelist[t]
           r == push(stack[t], e)
           C == [o \in Owner |-> Contents(stack[o])]
           K == [u \in Thread |-> Current(u)]
           after == Append(Contents(stack[t]), Current(t))
<1>1. TypeOK /\ Split(Stacked, Held, Allocated) /\ HeldAtStage
      /\ \A o \in Owner : Injective(stack[o])
  BY DEF Inv
<1>2. PICK clone \in Clones(Copied(r)) :
        /\ stack' = [stack EXCEPT ![t] = r, ![reader] = copy(r, clone)]
        /\ heap' = Cloned(clone, Destroyed(stack[reader]))
  BY DEF Lend
<1>3. /\ stage[t] = "search" /\ stage[reader] \in {"idle", "done"}
      /\ currentFirelist' = currentFirelist
  BY <1>1 DEF Lend, HeldAtStage
<1>4. t \in Owner /\ reader \in Owner /\ t # reader
  BY <1>3 DEF Owner
<1>5. Held[t] = {e} /\ e \in Cell /\ e # Null /\ e \in Allocated
  BY <1>1, <1>3, InUse DEF Held, Holds, HeldAtStage
<1>6. StackType(stack[t]) /\ Injective(stack[t]) /\ e \notin Entries(stack[t])
  BY <1>1, <1>4, <1>5, InUse DEF Split
<1>7. StackType(r) /\ Entries(r) = Entries(stack[t]) \union {e}
  BY <1>5, <1>6, PushEntries
<1>8. Destroyed(stack[reader]) = Stacked[reader]
  BY <1>4, InUse, DestroysEntries
<1>9. /\ clone \in [Copied(r) -> Cell] /\ Copied(r) = Entries(r)
      /\ DOMAIN clone = Entries(r)
      /\ \A d \in Entries(r) : clone[d] \in Cell /\ clone[d] \notin Allocated
      /\ \A c, d \in Entries(r) : clone[c] = clone[d] => c = d
  <2>1. Copied(r) = Entries(r)
    BY <1>7, CopiesEntries
  <2>2. clone \in Injection(Copied(r), Unused) /\ Unused \subseteq Cell
    BY <1>2 DEF Clones, Unused
  <2>3. clone \in [Copied(r) -> Unused]
        /\ \A c, d \in Copied(r) : clone[c] = clone[d] => c = d
    BY <2>2 DEF Injection, IsInjective
  <2> QED BY <2>1, <2>2, <2>3 DEF Allocated
<1> HIDE DEF r
<1>10. heap' = [c \in Cell |->
                 IF \E d \in Entries(r) : clone[d] = c
                   THEN heap[CHOOSE d \in Entries(r) : clone[d] = c]
                   ELSE IF c \in Stacked[reader] THEN Free ELSE heap[c]]
  BY <1>2, <1>8, <1>9 DEF Cloned
<1>11. \A d \in Allocated : d \notin Stacked[reader] => heap'[d] = heap[d]
  BY <1>9, <1>10, InUse
<1>12. ASSUME NEW d \in Entries(r)
       PROVE  heap'[clone[d]] = heap[d]
  <2>1. heap'[clone[d]] = heap[CHOOSE c \in Entries(r) : clone[c] = clone[d]]
    BY <1>9, <1>10
  <2>2. (CHOOSE c \in Entries(r) : clone[c] = clone[d]) = d
    BY <1>9
  <2> QED BY <2>1, <2>2
<1>13. ContentsIn(r, heap) = after
  <2>1. \A d \in Entries(stack[t]) : heap[d] \in Firelist
    BY <1>4, InUse
  <2>2. heap[e] \in Firelist
    BY <1>5, InUse
  <2>3. ContentsIn(r, heap) = Append(ContentsIn(stack[t], heap), heap[e])
    BY <1>5, <1>6, <2>1, <2>2, ContentsPush DEF r
  <2> QED BY <1>5, <2>3 DEF Contents, ContentsIn, Current
<1>14. Contents(stack[t])' = after
  <2>1. \A d \in Entries(r) : heap'[d] = heap[d]
    BY <1>1, <1>4, <1>5, <1>7, <1>11, InUse DEF Split
  <2>2. ContentsIn(r, heap') = ContentsIn(r, heap)
    BY <1>7, <2>1, ContentsSame
  <2>3. Contents(stack[t])' = ContentsIn(r, heap')
    BY <1>1, <1>2, <1>4 DEF TypeOK, Contents, ContentsIn
  <2> QED BY <1>13, <2>2, <2>3
<1>15. Contents(stack[reader])' = after
  <2>1. ContentsIn(copy(r, clone), heap') = ContentsIn(r, heap)
    BY <1>7, <1>9, <1>12, ContentsCopy
  <2>2. Contents(stack[reader])' = ContentsIn(copy(r, clone), heap')
    BY <1>1, <1>2, <1>4 DEF TypeOK, Contents, ContentsIn
  <2> QED BY <1>13, <2>1, <2>2
<1>16. \A o \in Owner \ {t, reader} : Contents(stack[o])' = Contents(stack[o])
  <2> TAKE o \in Owner \ {t, reader}
  <2>1. stack'[o] = stack[o]
    BY <1>1, <1>2 DEF TypeOK
  <2>2. \A d \in Stacked[o] : heap'[d] = heap[d]
    BY <1>1, <1>4, <1>11, InUse DEF Split
  <2> QED BY <2>1, <2>2, ContentsKept
<1>17. \A u \in Thread : Current(u)' = Current(u)
  <2> TAKE u \in Thread
  <2>1. CASE u = reader
    <3>1. currentFirelist[u] = Null
      BY <1>1, <1>3, <2>1 DEF HeldAtStage
    <3> QED BY <1>3, <3>1 DEF Current
  <2>2. CASE u # reader
    <3>1. \A d \in Held[u] \union Stacked[u] : heap'[d] = heap[d]
      BY <1>1, <1>4, <1>11, <2>2, InUse DEF Split, Owner
    <3> QED BY <1>3, <3>1, CurrentKept
  <2> QED BY <2>1, <2>2
<1>18. C' = [C EXCEPT ![t] = Append(C[t], K[t]), ![reader] = Append(C[t], K[t])]
  BY <1>4, <1>14, <1>15, <1>16
<1>19. K' = K
  BY <1>17
<1> QED BY <1>4, <1>18, <1>19 DEF Sequences_!Give

LEMMA StepRefines ==
  ASSUME Inv, NEW t \in Thread, Step(t)
  PROVE  \/ Sequences_!Next
         \/ UNCHANGED <<[o \in Owner |-> Contents(stack[o])],
                        [u \in Thread |-> Current(u)]>>
<1> USE DEF Sequences_!Next
<1>1. CASE Start(t) \/ WakeRestart(t)
  BY <1>1, GetRefines DEF Start, WakeRestart
<1>2. CASE Satisfied(t) \/ WakeFinished(t)
  BY <1>2 DEF Satisfied, WakeFinished, Contents, Current
<1>3. CASE Publish(t)
  BY <1>3, PublishRefines
<1>4. CASE Descend(t)
  BY <1>4, DescendRefines
<1>5. CASE \E reader \in Thread : Lend(t, reader)
  BY <1>5, LendRefines
<1>6. CASE KeepRest(t) \/ Backtrack(t)
  BY <1>6, BackRefines
<1>7. CASE GiveUp(t) \/ RunDry(t) \/ Abort(t)
  BY <1>7, DropRefines DEF GiveUp, RunDry, Abort
<1> QED BY <1>1, <1>2, <1>3, <1>4, <1>5, <1>6, <1>7 DEF Step

(* To the searches, the stacks of addresses are sequences of firelists     *)
(* that nobody else can change: the chunks, and the addresses that pop and *)
(* a lending thread leave behind, never show.                              *)
THEOREM StacksAreSequences ==
  Spec => KeepsSequences
<1> DEFINE C == [o \in Owner |-> Contents(stack[o])]
           K == [u \in Thread |-> Current(u)]
<1>1. Init => Sequences_!Init
  <2> SUFFICES ASSUME Init PROVE Sequences_!Init
    OBVIOUS
  <2>1. \A o \in Owner : Contents(stack[o]) = <<>>
    <3> TAKE o \in Owner
    <3>1. stack[o].StackPointer = 0
      BY DEF Init, EmptyStack
    <3>2. 1 .. stack[o].StackPointer = {}
      BY <3>1
    <3>3. Contents(stack[o]) = [i \in {} |-> heap[Entry(stack[o], i - 1)]]
      BY <3>2 DEF Contents
    <3> QED BY <3>3
  <2>2. \A u \in Thread : Current(u) = Free
    BY DEF Init, Current
  <2> QED BY <2>1, <2>2 DEF Sequences_!Init, Owner
<1>2. Inv /\ [Next]_vars => Sequences_!Next \/ UNCHANGED <<C, K>>
  <2> SUFFICES ASSUME Inv, [Next]_vars
               PROVE  Sequences_!Next \/ UNCHANGED <<C, K>>
    OBVIOUS
  <2>1. ASSUME NEW t \in Thread, Step(t)
        PROVE  Sequences_!Next \/ UNCHANGED <<C, K>>
    BY <2>1, StepRefines
  <2>2. CASE Join
    BY <2>2, JoinRefines DEF Sequences_!Next
  <2>3. CASE Returned \/ UNCHANGED vars
    BY <2>3 DEF Returned, vars, Contents, Current
  <2> QED BY <2>1, <2>2, <2>3 DEF Next
<1>3. Inv /\ [Next]_vars =>
        [Sequences_!Next]_<<[o \in Owner |-> Contents(stack[o])],
                            [t \in Thread |-> Current(t)]>>
  BY <1>2
<1> QED BY <1>1, <1>3, SpecInv, PTL DEF Spec, KeepsSequences, Sequences_!Spec
=============================================================================
