--------------------------- MODULE TorrentProofs ---------------------------
(***************************************************************************)
(* The chunks of a file, for every file and every chunk size.              *)
(***************************************************************************)
EXTENDS Torrent, TLAPS

\* A sum of a multiple of c and a remainder, which is what the two loops leave of
\* the file's size.
LEMMA ModOfSum ==
    ASSUME NEW c \in Nat \ {0}, NEW k \in Nat, NEW r \in Nat, r < c
    PROVE  (k * c + r) % c = r
<1> DEFINE x == k * c + r
           d == x \div c
           m == x % c
<1>1. k * c \in Nat /\ x \in Nat
  OBVIOUS
<1>2. d \in Int /\ m \in 0..(c - 1) /\ x = c * d + m
  BY <1>1
<1>3. QED
  BY <1>2
LEMMA ElementOfSeq ==
    ASSUME NEW S, NEW s \in Seq(S), NEW i \in 1..Len(s)
    PROVE  s[i] \in S
  OBVIOUS
-----------------------------------------------------------------------------
\* Where the two loops are: the ranges are cut at multiples of the chunk size, and
\* the file ends in the last one.
Cut ==
    /\ \A i \in 1..Len(checksums) : checksums[i].from = (i - 1) * chunk_size
    /\ \A i \in 1..Len(checksums) : i < Len(checksums) \/ pc = "checksums" =>
          checksums[i].to = i * chunk_size
    /\ pc = "checksums" => /\ start = Len(checksums) * chunk_size /\ start < file_size
                           /\ chunks = << >>
    /\ pc # "checksums" => /\ checksums # << >>
                           /\ start = (Len(checksums) - 1) * chunk_size
                           /\ start < file_size /\ file_size <= start + chunk_size
                           /\ checksums[Len(checksums)].to = file_size

Recorded ==
    \A i \in 1..Len(chunks) :
        chunks[i] = IF i = Len(checksums) THEN file_size % chunk_size ELSE chunk_size

IInv == TypeOK /\ Cut /\ Recorded

LEMMA InitInv == Init => IInv
  BY SizesAssumption DEF Init, IInv, TypeOK, Cut, Recorded

LEMMA PushInv == IInv /\ PushChecksum => IInv'
<1> SUFFICES ASSUME IInv, PushChecksum PROVE IInv'
  OBVIOUS
<1> USE DEF IInv, TypeOK, PushChecksum, More, Bytes
<1>1. /\ start + chunk_size \in Nat /\ start' = start + chunk_size
      /\ checksums' = Append(checksums, Bytes(start, start + chunk_size))
      /\ Len(checksums') = Len(checksums) + 1
  OBVIOUS
<1>2. TypeOK'
  BY <1>1
<1>3. start' = Len(checksums') * chunk_size /\ start' < file_size
  BY <1>1 DEF Cut
<1>4. \A i \in 1..Len(checksums') : /\ checksums'[i].from = (i - 1) * chunk_size
                                    /\ checksums'[i].to = i * chunk_size
  <2> TAKE i \in 1..Len(checksums')
  <2>1. CASE i = Len(checksums')
    BY <1>1, <1>3, <2>1 DEF Cut
  <2>2. CASE i # Len(checksums')
    <3>1. i \in 1..Len(checksums) /\ checksums'[i] = checksums[i]
      BY <1>1, <2>2
    <3>2. QED
      BY <3>1 DEF Cut
  <2>3. QED
    BY <2>1, <2>2
<1>5. Cut'
  BY <1>3, <1>4 DEF Cut
<1>6. Recorded'
  BY DEF Recorded, Cut
<1>7. QED
  BY <1>2, <1>5, <1>6

LEMMA PushLastInv == IInv /\ PushLastChecksum => IInv'
<1> SUFFICES ASSUME IInv, PushLastChecksum PROVE IInv'
  OBVIOUS
<1> USE DEF IInv, TypeOK, PushLastChecksum, More, Bytes
<1>1. /\ checksums' = Append(checksums, Bytes(start, file_size))
      /\ Len(checksums') = Len(checksums) + 1
      /\ checksums'[Len(checksums')] = Bytes(start, file_size)
      /\ \A i \in 1..Len(checksums) : checksums'[i] = checksums[i]
  OBVIOUS
<1>2. TypeOK'
  BY <1>1 DEF Cut
<1>3. start = (Len(checksums') - 1) * chunk_size
  BY <1>1 DEF Cut
<1>4. \A i \in 1..Len(checksums') : checksums'[i].from = (i - 1) * chunk_size
  <2> TAKE i \in 1..Len(checksums')
  <2>1. CASE i = Len(checksums')
    BY <1>1, <1>3, <2>1
  <2>2. CASE i # Len(checksums')
    <3>1. i \in 1..Len(checksums) /\ checksums'[i] = checksums[i]
      BY <1>1, <2>2
    <3>2. QED
      BY <3>1 DEF Cut
  <2>3. QED
    BY <2>1, <2>2
<1>5. \A i \in 1..Len(checksums') : i < Len(checksums') => checksums'[i].to = i * chunk_size
  BY <1>1 DEF Cut
<1>6. Cut'
  BY <1>1, <1>3, <1>4, <1>5 DEF Cut
<1>7. Recorded'
  BY DEF Recorded, Cut
<1>8. QED
  BY <1>2, <1>6, <1>7

LEMMA AddInv == IInv /\ AddChunk => IInv'
<1> SUFFICES ASSUME IInv, AddChunk PROVE IInv'
  OBVIOUS
<1> USE DEF IInv, TypeOK, AddChunk
<1>1. this_chunk_size \in Nat
  BY DEF this_chunk_size, last_chunk_size
<1>2. /\ Len(chunks') = Len(chunks) + 1 /\ chunks' \in Seq(Nat)
      /\ chunks'[Len(chunks')] = this_chunk_size
      /\ \A i \in 1..Len(chunks) : chunks'[i] = chunks[i]
  BY <1>1
<1>3. TypeOK'
  BY <1>2
<1>4. Cut'
  BY DEF Cut
<1>5. Recorded'
  BY <1>2 DEF Recorded, this_chunk_size, last_chunk_size, LastChunk
<1>6. QED
  BY <1>3, <1>4, <1>5

LEMMA NextInv == IInv /\ [Next]_vars => IInv'
<1> SUFFICES ASSUME IInv, [Next]_vars PROVE IInv'
  OBVIOUS
<1>1. CASE PushChecksum
  BY <1>1, PushInv
<1>2. CASE PushLastChecksum
  BY <1>2, PushLastInv
<1>3. CASE AddChunk
  BY <1>3, AddInv
<1>4. CASE Finish
  BY <1>4 DEF IInv, TypeOK, Cut, Recorded, Finish
<1>5. CASE UNCHANGED vars
  BY <1>5 DEF IInv, TypeOK, Cut, Recorded, vars
<1>6. QED
  BY <1>1, <1>2, <1>3, <1>4, <1>5 DEF Next

THEOREM IInvAlways == Spec => []IInv
  BY InitInv, NextInv, PTL DEF Spec
-----------------------------------------------------------------------------
\* The verified ranges cover every file without a gap or an overlap.
THEOREM RangesTileAlways == Spec => []RangesTile
<1>1. IInv => RangesTile
  <2> SUFFICES ASSUME IInv, pc # "checksums" PROVE RangesTile
    BY DEF RangesTile
  <2> DEFINE n == Len(checksums)
  <2> USE DEF IInv, TypeOK
  <2>1. n \in Nat \ {0}
    BY DEF Cut
  <2>2. \A i \in 1..n : checksums[i].from < checksums[i].to
    <3> TAKE i \in 1..n
    <3>1. CASE i = n
      BY <3>1 DEF Cut
    <3>2. CASE i # n
      <4>1. checksums[i].to = (i - 1) * chunk_size + chunk_size
        BY <3>2 DEF Cut
      <4>2. QED
        BY <4>1 DEF Cut
    <3>3. QED
      BY <3>1, <3>2
  <2>3. \A i \in 1..(n - 1) : checksums[i].to = checksums[i + 1].from
    <3> TAKE i \in 1..(n - 1)
    <3>1. i \in 1..n /\ i < n /\ i + 1 \in 1..n /\ (i + 1) - 1 = i
      BY <2>1
    <3>2. checksums[i].to = i * chunk_size
      BY <3>1 DEF Cut
    <3>3. checksums[i + 1].from = ((i + 1) - 1) * chunk_size
      BY <3>1 DEF Cut
    <3>4. QED
      BY <3>1, <3>2, <3>3
  <2>4. checksums[1].from = 0 /\ checksums[n].to = file_size
    BY <2>1 DEF Cut
  <2>5. QED
    BY <2>1, <2>2, <2>3, <2>4 DEF RangesTile, Cut
<1>2. QED
  BY <1>1, IInvAlways, PTL

\* The uploader finds a chunk of any file where its checksum was computed, the only chunk
\* of a file too, whose size is not that of a chunk.
LEMMA OffsetOfChunk ==
    ASSUME IInv, pc = "done", NEW pos \in 0..(chunk_count - 1)
    PROVE  /\ chunk_offset(pos) = pos * chunk_size
           /\ checksums[pos + 1].from = pos * chunk_size
<1> USE DEF IInv, TypeOK, chunk_count, chunk_offset
<1>1. pos \in Nat /\ pos + 1 \in 1..Len(checksums) /\ Len(checksums) = Len(chunks)
  OBVIOUS
<1>2. checksums[pos + 1].from = pos * chunk_size
  BY <1>1 DEF Cut
<1>3. CASE pos = 0
  BY <1>1, <1>2, <1>3
<1>4. CASE pos # 0
  <2>1. 1 \in 1..Len(chunks) /\ 1 # Len(checksums)
    BY <1>1, <1>4
  <2>2. chunks[1] = chunk_size
    BY <2>1 DEF Recorded
  <2>3. QED
    BY <1>1, <1>2, <2>2
<1>5. QED
  BY <1>3, <1>4

\* The second loop records one size for each checksum of the first, and no more.
THEOREM TypesAlways == Spec => []TypeOK
<1>1. IInv => TypeOK
  BY DEF IInv
<1>2. QED
  BY <1>1, IInvAlways, PTL

\* What is served for a chunk is what was checked, except for the last chunk of a
\* file that is a whole number of chunks, for which nothing is served.
THEOREM ServedIsCheckedAlways == Spec => []ServedIsChecked
<1>1. ASSUME IInv, pc = "done", NEW pos \in 0..(chunk_count - 1)
      PROVE  \/ Served(pos) = checksums[pos + 1]
             \/ /\ pos = chunk_count - 1 /\ file_size % chunk_size = 0
                /\ Served(pos) = Bytes(checksums[pos + 1].from, checksums[pos + 1].from)
  <2> USE <1>1 DEF IInv, TypeOK, chunk_count, Served, Bytes, chunk_size_of
  <2> DEFINE n == Len(checksums)
  <2>1. pos \in Nat /\ pos + 1 \in 1..n /\ n = Len(chunks)
    OBVIOUS
  <2>2. chunk_offset(pos) = pos * chunk_size /\ checksums[pos + 1].from = pos * chunk_size
    BY OffsetOfChunk
  <2>3. chunk_size_of(pos) = chunks[pos + 1]
    BY <2>1
  <2>4. checksums[pos + 1] \in [from : Nat, to : Nat]
    BY <2>1, ElementOfSeq
  <2>5. CASE pos # n - 1
    <3>1. chunks[pos + 1] = chunk_size
      BY <2>1, <2>5 DEF Recorded
    <3>2. checksums[pos + 1].to = pos * chunk_size + chunk_size
      <4>1. pos + 1 < n
        BY <2>1, <2>5
      <4>2. checksums[pos + 1].to = (pos + 1) * chunk_size
        BY <2>1, <4>1 DEF Cut
      <4>3. QED
        BY <2>1, <4>2
    <3>3. QED
      BY <2>2, <2>3, <2>4, <3>1, <3>2
  <2>6. CASE pos = n - 1
    <3> DEFINE r == file_size - pos * chunk_size
    <3>1. /\ pos * chunk_size \in Nat /\ r \in Nat \ {0} /\ r <= chunk_size
          /\ checksums[pos + 1].to = file_size
      BY <2>1, <2>6 DEF Cut
    <3>2. chunks[pos + 1] = file_size % chunk_size
      BY <2>1, <2>6 DEF Recorded
    <3>3. CASE r < chunk_size
      <4>1. (pos * chunk_size + r) % chunk_size = r
        BY <2>1, <3>1, <3>3, ModOfSum
      <4>2. file_size = pos * chunk_size + r
        BY <3>1
      <4>3. chunks[pos + 1] = r
        BY <3>2, <4>1, <4>2
      <4>4. pos * chunk_size + r = file_size
        BY <3>1
      <4>5. QED
        BY <2>2, <2>3, <2>4, <3>1, <4>3, <4>4
    <3>4. CASE r = chunk_size
      <4>1. ((pos + 1) * chunk_size + 0) % chunk_size = 0
        <5>1. pos + 1 \in Nat /\ 0 \in Nat /\ 0 < chunk_size
          BY <2>1
        <5>2. QED
          BY <5>1, ModOfSum
      <4>2. file_size = (pos + 1) * chunk_size + 0
        BY <2>1, <3>1, <3>4
      <4>3. chunks[pos + 1] = 0
        BY <3>2, <4>1, <4>2
      <4>4. pos * chunk_size + 0 = pos * chunk_size
        BY <3>1
      <4>5. Served(pos) = Bytes(checksums[pos + 1].from, checksums[pos + 1].from)
        BY <2>2, <2>3, <4>3, <4>4
      <4>6. QED
        BY <2>1, <2>6, <4>1, <4>2, <4>5
    <3>5. QED
      BY <3>1, <3>3, <3>4
  <2>7. QED
    BY <2>5, <2>6
<1>2. IInv => ServedIsChecked
  BY <1>1 DEF ServedIsChecked
<1>3. QED
  BY <1>2, IInvAlways, PTL
=============================================================================
