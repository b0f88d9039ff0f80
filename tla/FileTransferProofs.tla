------------------------- MODULE FileTransferProofs -------------------------
(***************************************************************************)
(* What FileTransfer's receiver may claim, proved for every file, set of   *)
(* chunk sizes and range of the numbers.                                   *)
(***************************************************************************)
EXTENDS FileTransfer, NumberProofs

-----------------------------------------------------------------------------
(* The inductive invariant *)

\* The frames some run of the sender makes.
Frames == UNION {{Chunk(i, size) : i \in 0..Count(size) - 1} : size \in ChunkSizes}

\* A run of the sender has frames left to send.
SenderInv ==
    /\ offset \in 0..total_bytes /\ sends \in 0..MaxSends
    /\ \/ chunk = {}
       \/ \E size \in ChunkSizes : chunk = {size} /\ offset < Count(size)

\* The k-th frame taken is the first of number s.
FirstOf(k, s) == taken[k].seq = s /\ \A j \in 1..k - 1 : taken[j].seq # s

\* For every number seen, the first frame of that number is the one kept.
KeptInv ==
    /\ taken \in Seq(Frames)
    /\ \A k \in 1..Len(taken) : taken[k].seq \in DOMAIN chunks
    /\ \A s \in DOMAIN chunks : \E k \in 1..Len(taken) : chunks[s] = taken[k] /\ FirstOf(k, s)

\* The file and the warning are those of the frames kept, and come with the end.
WrittenInv ==
    /\ receiver \in {"receiving", "done", "dead", "ended"} /\ warned \in BOOLEAN
    /\ receiver # "ended" => written = {}
    /\ receiver = "ended" /\ DOMAIN chunks = {} => written = {}
    /\ receiver = "ended" /\ DOMAIN chunks # {} =>
           written = {Content(chunks)} /\ (warned <=> Warns(chunks))

TransferInv == SenderInv /\ air \subseteq Frames /\ KeptInv /\ WrittenInv
-----------------------------------------------------------------------------
(* The chunks of a file *)

\* A product by a greater number is greater.
LEMMA Product ==
    ASSUME NEW a \in Int, NEW b \in Int, NEW k \in Nat, a <= b
    PROVE  a * k <= b * k
<1>1. (b - a) * k >= 0 /\ (b - a) * k = b * k - a * k /\ a * k \in Int /\ b * k \in Int
  OBVIOUS
<1>2. QED BY <1>1

\* The last chunk is not empty and ends with the file, or would end after it.
LEMMA CountBounds ==
    ASSUME NEW size \in ChunkSizes
    PROVE  /\ Count(size) \in 1..total_bytes
           /\ (Count(size) - 1) * size < total_bytes /\ total_bytes <= Count(size) * size
<1> USE FileParameters
<1> DEFINE a == total_bytes + size - 1
           q == a \div size
           r == a % size
<1>1. size \in Nat \ {0} /\ total_bytes \in Nat \ {0} /\ a \in Nat
  OBVIOUS
<1>2. q \in Nat /\ r \in 0..size - 1 /\ a = q * size + r
  <2> HIDE DEF a
  <2>1. QED BY <1>1
<1>3. Count(size) = q
  BY DEF Count
<1> DEFINE n == q * size
<1> HIDE DEF q, r
<1>4. n \in Int /\ (q - 1) * size = n - size /\ n = a - r
  BY <1>1, <1>2
<1>5. total_bytes <= n /\ n - size < total_bytes
  BY <1>1, <1>2, <1>4
<1>6. q # 0
  <2>1. 0 * size = 0
    BY <1>1
  <2>2. QED BY <1>5, <1>1, <2>1
<1>7. q <= total_bytes
  <2>1. SUFFICES ASSUME total_bytes <= q - 1 PROVE FALSE
    BY <1>1, <1>2
  <2>2. total_bytes * size <= (q - 1) * size
    BY <2>1, <1>1, <1>2, Product
  <2>3. total_bytes <= total_bytes * size
    BY <1>1
  <2>4. QED BY <2>2, <2>3, <1>4, <1>5, <1>1
<1>8. QED BY <1>2, <1>3, <1>4, <1>5, <1>6, <1>7

\* The chunks of a file follow each other from its first byte to its last.
LEMMA ChunkBounds ==
    ASSUME NEW size \in ChunkSizes, NEW i \in 0..Count(size) - 1
    PROVE  /\ Chunk(i, size) \in Frame
           /\ Chunk(i, size).from = i * size
           /\ i < Count(size) - 1 =>
                  Chunk(i, size).to = (i + 1) * size /\ (i + 1) * size < total_bytes
           /\ i = Count(size) - 1 => Chunk(i, size).to = total_bytes
           /\ Chunk(i, size).size = size
           /\ Chunk(i, size).seq = i % SeqRange
           /\ Chunk(i, size).is_last <=> i = Count(size) - 1
<1> DEFINE n == Count(size)
<1>1. n \in 1..total_bytes /\ (n - 1) * size < total_bytes /\ total_bytes <= n * size
  BY CountBounds
<1>2. size \in Nat \ {0} /\ total_bytes \in Nat \ {0} /\ SeqRange \in Nat \ {0}
  BY FileParameters
<1>3. i \in Nat /\ i <= n - 1 /\ n \in Nat
  BY <1>1, <1>2
<1> HIDE DEF n
<1>4. i * size \in Nat /\ (i + 1) * size \in Nat
  BY <1>2, <1>3
<1>5. i * size <= (n - 1) * size
  BY <1>2, <1>3, Product
<1>6. i < n - 1 => (i + 1) * size <= (n - 1) * size
  BY <1>2, <1>3, Product
<1>7. i * size \in 0..total_bytes
  BY <1>1, <1>2, <1>3, <1>4, <1>5
<1>8. End(i, size) \in 0..total_bytes
  BY <1>2, <1>4 DEF End
<1>9. i < n - 1 => End(i, size) = (i + 1) * size /\ (i + 1) * size < total_bytes
  BY <1>1, <1>2, <1>3, <1>4, <1>6 DEF End
<1>10. i = n - 1 => End(i, size) = total_bytes
  BY <1>1, <1>2, <1>3, <1>4 DEF End
<1>11. Number(i) = i % SeqRange /\ i % SeqRange \in 0..SeqRange - 1
  BY <1>2, <1>3 DEF Number
<1>12. IsLast(i, size) \in BOOLEAN /\ (IsLast(i, size) <=> i = n - 1)
  BY DEF IsLast, n
<1>13. Chunk(i, size) \in Frame
  BY <1>7, <1>8, <1>11, <1>12 DEF Chunk, Frame
<1>14. QED BY <1>9, <1>10, <1>11, <1>12, <1>13 DEF Chunk, n

\* A frame of some run of the sender.
LEMMA FramesAreFrames == Frames \subseteq Frame
  BY ChunkBounds DEF Frames

-----------------------------------------------------------------------------
(* Sorting *)

\* The numbers up to one.
UpTo(numbers, s) == {t \in numbers : t <= s}

LEMMA UpToMember ==
    ASSUME NEW numbers \in SUBSET Nat, NEW s \in Nat, NEW t
    PROVE  t \in UpTo(numbers, s) <=> t \in numbers /\ t \in 0..s
<1>1. t \in numbers => t \in Nat
  OBVIOUS
<1>2. t \in Nat => (t <= s <=> t \in 0..s)
  OBVIOUS
<1>3. QED BY <1>1, <1>2 DEF UpTo

LEMMA UpToFinite ==
    ASSUME NEW numbers \in SUBSET Nat, NEW s \in Nat
    PROVE  IsFiniteSet(UpTo(numbers, s)) /\ Cardinality(UpTo(numbers, s)) \in Nat
<1>1. UpTo(numbers, s) \in SUBSET (0..s)
  BY UpToMember, Zenon
<1>2. IsFiniteSet(0..s)
  BY FS_Interval
<1>3. QED BY <1>1, <1>2, FS_Subset, FS_CardinalityType

\* There is an i-th number: the least one up to which there are that many.
LEMMA SortedIsMember ==
    ASSUME NEW m \in Nat, NEW numbers \in SUBSET (0..m), NEW i \in 1..Cardinality(numbers)
    PROVE  Sorted(numbers, i) \in numbers
<1> DEFINE rank(s) == Cardinality(UpTo(numbers, s))
           enough == {s \in Nat : rank(s) >= i}
<1>1. numbers \in SUBSET Nat /\ Cardinality(numbers) \in Nat
  <2>1. IsFiniteSet(0..m) /\ 0..m \in SUBSET Nat
    BY FS_Interval
  <2>2. IsFiniteSet(numbers)
    BY <2>1, FS_Subset
  <2>3. QED BY <2>1, <2>2, FS_CardinalityType
<1>2. \A s \in Nat : rank(s) \in Nat /\ IsFiniteSet(UpTo(numbers, s))
  BY <1>1, UpToFinite
<1>3. UpTo(numbers, m) = numbers
  BY <1>1, UpToMember, Zenon
<1>4. m \in enough
  BY <1>1, <1>3
<1>5. PICK s \in enough : \A k \in enough : s <= k
  <2>1. enough \in SUBSET Nat /\ enough # {}
    BY <1>4
  <2> HIDE DEF enough
  <2>2. QED BY <2>1, LeastNumber
<1>6. s \in Nat /\ rank(s) >= i /\ i \in Nat \ {0}
  BY <1>1
<1> HIDE DEF rank
<1>in. \A k \in Nat : \A t : t \in UpTo(numbers, k) <=> t \in numbers /\ t \in 0..k
  BY <1>1, UpToMember
<1>7. \A k \in Nat : k < s => rank(k) < i
  BY <1>1, <1>2, <1>5, <1>6
<1>8. ASSUME NEW k \in Nat, s = k + 1, s \notin numbers PROVE FALSE
  <2>1. \A t : t \in 0..s <=> t \in 0..k \/ t = s
    BY <1>8
  <2>2. UpTo(numbers, s) = UpTo(numbers, k)
    BY <1>in, <1>6, <1>8, <2>1, Zenon
  <2>3. rank(k) < i /\ rank(s) = rank(k)
    BY <1>7, <1>8, <2>2 DEF rank
  <2>4. QED BY <1>1, <1>2, <1>6, <1>8, <2>3
<1>9. ASSUME NEW k \in Nat, s = k + 1, s \in numbers PROVE rank(s) = i
  <2>1. \A t : t \in 0..s <=> t \in 0..k \/ t = s
    BY <1>9
  <2>2. s \notin 0..k
    BY <1>9
  <2>3. UpTo(numbers, s) = UpTo(numbers, k) \cup {s} /\ s \notin UpTo(numbers, k)
    BY <1>in, <1>6, <1>9, <2>1, <2>2, Zenon
  <2>4. rank(s) = rank(k) + 1
    BY <2>3, <1>2, FS_AddElement DEF rank
  <2>5. rank(k) < i
    BY <1>7, <1>9
  <2>6. QED BY <1>1, <1>2, <1>6, <2>4, <2>5
<1>10. ASSUME s = 0 PROVE s \in numbers /\ rank(s) = i
  <2>1. \A t : t \in 0..s <=> t = s
    BY <1>10
  <2>2. CASE s \in numbers
    <3>1. UpTo(numbers, s) = {s}
      BY <1>in, <1>6, <2>1, <2>2, Zenon
    <3>2. rank(s) = 1
      BY <3>1, FS_Singleton DEF rank
    <3>3. QED BY <1>6, <2>2, <3>2
  <2>3. CASE s \notin numbers
    <3>1. UpTo(numbers, s) = {}
      BY <1>in, <1>6, <2>1, <2>3, Zenon
    <3>2. rank(s) = 0
      BY <3>1, FS_EmptySet DEF rank
    <3>3. QED BY <1>6, <3>2
  <2>4. QED BY <2>2, <2>3
<1>11. s \in numbers /\ rank(s) = i
  <2>1. CASE s # 0
    <3>1. s - 1 \in Nat /\ s = (s - 1) + 1
      BY <1>6, <2>1
    <3>2. QED BY <3>1, <1>8, <1>9
  <2>2. QED BY <2>1, <1>10
<1>12. \E t \in numbers : Cardinality(UpTo(numbers, t)) = i
  BY <1>11 DEF rank
<1>13. QED BY <1>12 DEF Sorted, UpTo

\* When no number is missing, the i-th one is i - 1.
LEMMA SortedOfAll ==
    ASSUME NEW n \in Nat \ {0}
    PROVE  /\ Cardinality(0..n - 1) = n
           /\ \A i \in 1..n : Sorted(0..n - 1, i) = i - 1
<1> DEFINE rank(s) == Cardinality({t \in 0..n - 1 : t <= s})
<1>1. Cardinality(0..n - 1) = n
  BY FS_Interval
<1>2. ASSUME NEW s \in 0..n - 1 PROVE rank(s) = s + 1
  <2>1. \A t : t \in 0..n - 1 /\ t <= s <=> t \in 0..s
    OBVIOUS
  <2>2. {t \in 0..n - 1 : t <= s} = 0..s
    BY <2>1, Zenon
  <2>3. Cardinality(0..s) = s + 1
    BY FS_Interval
  <2>4. QED BY <2>2, <2>3
<1>3. ASSUME NEW i \in 1..n PROVE Sorted(0..n - 1, i) = i - 1
  <2>1. i - 1 \in 0..n - 1 /\ rank(i - 1) = i
    BY <1>2
  <2>2. \A s \in 0..n - 1 : rank(s) = i => s = i - 1
    BY <1>2
  <2> HIDE DEF rank
  <2>3. Sorted(0..n - 1, i) = CHOOSE s \in 0..n - 1 : rank(s) = i
    BY DEF Sorted, rank
  <2>4. QED BY <2>1, <2>2, <2>3
<1>4. QED BY <1>1, <1>3
-----------------------------------------------------------------------------
(* The file written *)

\* The numbers kept are those of the first n chunks of a file.
FirstChunks(kept, n, size) ==
    /\ size \in ChunkSizes /\ n \in 1..Count(size)
    /\ DOMAIN kept = 0..n - 1 /\ \A s \in 0..n - 1 : kept[s] = Chunk(s, size)

\* What is then written are these chunks in order, and the warning is there unless
\* they are all the chunks.
LEMMA FirstChunksContent ==
    ASSUME NEW kept, NEW n, NEW size, FirstChunks(kept, n, size)
    PROVE  /\ Content(kept) = [i \in 1..n |-> Chunk(i - 1, size)]
           /\ Warns(kept) <=> n # Count(size)
<1>1. /\ size \in ChunkSizes /\ n \in 1..Count(size) /\ Count(size) \in Nat
      /\ DOMAIN kept = 0..n - 1 /\ \A s \in 0..n - 1 : kept[s] = Chunk(s, size)
  BY CountBounds DEF FirstChunks
<1>2. n \in Nat \ {0}
  BY <1>1
<1>3. Cardinality(DOMAIN kept) = n
  BY <1>1, <1>2, SortedOfAll
<1>4. ASSUME NEW i \in 1..n PROVE kept[Sorted(DOMAIN kept, i)] = Chunk(i - 1, size)
  <2>1. Sorted(DOMAIN kept, i) = i - 1
    BY <1>1, <1>2, SortedOfAll
  <2>2. i - 1 \in 0..n - 1
    BY <1>2
  <2>3. QED BY <1>1, <2>1, <2>2
<1>5. Content(kept) = [i \in 1..n |-> Chunk(i - 1, size)]
  BY <1>3, <1>4 DEF Content
<1>6. Missing(kept) = {}
  BY <1>1, <1>3 DEF Missing
<1>7. ASSUME NEW s \in 0..n - 1 PROVE kept[s].is_last <=> s = Count(size) - 1
  BY <1>1, ChunkBounds
<1>8. (\E s \in 0..n - 1 : kept[s].is_last) <=> n = Count(size)
  <2>1. (\E s \in 0..n - 1 : s = Count(size) - 1) <=> n = Count(size)
    BY <1>1
  <2>2. QED BY <1>7, <2>1, Zenon
<1>9. QED BY <1>1, <1>5, <1>6, <1>8 DEF Warns

\* The first n chunks are the whole file exactly when they are all.
LEMMA FirstChunksWhole ==
    ASSUME NEW size \in ChunkSizes, NEW n \in 1..Count(size),
           written = {[i \in 1..n |-> Chunk(i - 1, size)]}
    PROVE  Whole <=> n = Count(size)
<1> DEFINE w == [i \in 1..n |-> Chunk(i - 1, size)]
<1>1. /\ size \in Nat \ {0} /\ total_bytes \in Nat \ {0}
      /\ Count(size) \in Nat /\ n \in Nat \ {0} /\ n <= Count(size)
  BY FileParameters, CountBounds
<1>2. Len(w) = n
  <2> DEFINE values == {Chunk(i - 1, size) : i \in 1..n}
  <2>1. w \in [1..n -> values] /\ DOMAIN w = 1..n
    OBVIOUS
  <2> HIDE DEF w, values
  <2>2. w \in Seq(values)
    BY <1>1, <2>1
  <2>3. QED BY <1>1, <2>1, <2>2
<1>3. ASSUME NEW i \in 1..n PROVE w[i] = Chunk(i - 1, size) /\ i - 1 \in 0..Count(size) - 1
  BY <1>1
<1>4. Whole <=> /\ w[1].from = 0 /\ w[Len(w)].to = total_bytes
                /\ \A i \in 1..Len(w) - 1 : w[i].to = w[i + 1].from
  BY DEF Whole
<1> HIDE DEF w
<1>5. w[1].from = 0
  <2>1. w[1] = Chunk(0, size) /\ 0 \in 0..Count(size) - 1
    BY <1>1, <1>3
  <2>2. w[1].from = 0 * size
    BY <2>1, ChunkBounds
  <2>3. QED BY <1>1, <2>2
<1>6. ASSUME NEW i \in 1..n - 1 PROVE w[i].to = w[i + 1].from
  <2>1. /\ w[i] = Chunk(i - 1, size) /\ i - 1 \in 0..Count(size) - 1
        /\ w[i + 1] = Chunk((i + 1) - 1, size) /\ (i + 1) - 1 \in 0..Count(size) - 1
    BY <1>1, <1>3
  <2>2. (i + 1) - 1 = i /\ (i - 1) + 1 = i /\ i - 1 < Count(size) - 1
    BY <1>1
  <2>3. w[i].to = i * size
    BY <2>1, <2>2, ChunkBounds
  <2>4. w[i + 1].from = i * size
    BY <2>1, <2>2, ChunkBounds
  <2>5. QED BY <2>3, <2>4
<1>7. w[n].to = total_bytes <=> n = Count(size)
  <2>1. w[n] = Chunk(n - 1, size) /\ n - 1 \in 0..Count(size) - 1
    BY <1>1, <1>3
  <2>2. CASE n = Count(size)
    <3>1. n - 1 = Count(size) - 1
      BY <2>2
    <3>2. QED BY <2>1, <2>2, <3>1, ChunkBounds
  <2>3. CASE n # Count(size)
    <3>1. n - 1 < Count(size) - 1 /\ (n - 1) + 1 = n
      BY <1>1, <2>3
    <3>2. w[n].to = n * size /\ n * size < total_bytes
      BY <2>1, <3>1, ChunkBounds
    <3>3. QED BY <1>1, <2>3, <3>2
  <2>4. QED BY <2>2, <2>3
<1>8. QED BY <1>2, <1>4, <1>5, <1>6, <1>7

\* Everything kept is a frame of some run of the sender, under its own number.
LEMMA KeptAreFrames ==
    ASSUME KeptInv, NEW s \in DOMAIN chunks
    PROVE  chunks[s] \in Frames /\ chunks[s].seq = s /\ s \in 0..SeqRange - 1
<1>1. PICK k \in 1..Len(taken) : chunks[s] = taken[k] /\ taken[k].seq = s
  BY DEF KeptInv, FirstOf
<1>2. taken[k] \in Frames
  BY DEF KeptInv
<1>3. taken[k] \in Frame
  BY <1>2, FramesAreFrames
<1>4. QED BY <1>1, <1>2, <1>3 DEF Frame

\* With one chunk size and no wrapped number, a number tells the chunk it stands for.
LEMMA KeptOfOneSize ==
    ASSUME KeptInv, NEW size \in ChunkSizes, Count(size) <= SeqRange,
           \A k \in DOMAIN taken : taken[k].size = size, NEW s \in DOMAIN chunks
    PROVE  s \in 0..Count(size) - 1 /\ chunks[s] = Chunk(s, size)
<1>1. PICK k \in 1..Len(taken) : chunks[s] = taken[k]
  BY DEF KeptInv
<1>2. k \in DOMAIN taken
  BY DEF KeptInv
<1>3. chunks[s].size = size
  BY <1>1, <1>2
<1>4. chunks[s] \in Frames /\ chunks[s].seq = s
  BY KeptAreFrames
<1>5. PICK z \in ChunkSizes : \E i \in 0..Count(z) - 1 : chunks[s] = Chunk(i, z)
  BY <1>4 DEF Frames
<1>6. PICK i \in 0..Count(z) - 1 : chunks[s] = Chunk(i, z)
  BY <1>5
<1>7. z = size /\ s = i % SeqRange
  BY <1>3, <1>4, <1>6, ChunkBounds
<1>8. i \in 0..Count(size) - 1 /\ Count(size) \in Nat /\ SeqRange \in Nat \ {0}
  BY <1>7, CountBounds, FileParameters
<1>9. i % SeqRange = i
  BY <1>8
<1>10. QED BY <1>6, <1>7, <1>8, <1>9

\* If then no number is missing, the numbers kept are those of the first chunks.
LEMMA KeptWithoutGap ==
    ASSUME KeptInv, NEW size \in ChunkSizes, Count(size) <= SeqRange,
           \A k \in DOMAIN taken : taken[k].size = size,
           DOMAIN chunks # {}, Missing(chunks) = {}
    PROVE  FirstChunks(chunks, Cardinality(DOMAIN chunks), size)
<1> DEFINE d == DOMAIN chunks
           n == Cardinality(d)
<1>1. \A s \in d : s \in 0..Count(size) - 1 /\ chunks[s] = Chunk(s, size)
  BY KeptOfOneSize
<1>2. Count(size) \in Nat
  BY CountBounds
<1>3. IsFiniteSet(d) /\ n \in Nat /\ n # 0
  <2>1. d \in SUBSET (0..Count(size) - 1) /\ IsFiniteSet(0..Count(size) - 1)
    BY <1>1, <1>2, FS_Interval
  <2> HIDE DEF d
  <2>2. IsFiniteSet(d)
    BY <2>1, FS_Subset
  <2>3. d # {}
    BY DEF d
  <2>4. QED BY <2>2, <2>3, FS_CardinalityType, FS_EmptySet
<1>4. 0..n - 1 \in SUBSET d
  BY DEF Missing
<1> HIDE DEF d
<1>5. Cardinality(0..n - 1) = n
  BY <1>3, SortedOfAll
<1>6. d = 0..n - 1
  BY <1>3, <1>4, <1>5, FS_Subset DEF n
<1>7. n - 1 \in 0..Count(size) - 1
  BY <1>1, <1>3, <1>6
<1>8. n \in 1..Count(size)
  BY <1>2, <1>3, <1>7
<1>9. QED BY <1>1, <1>6, <1>8 DEF FirstChunks, d

\* A number is in range, and a count below the range is its own number.
LEMMA NumberRange ==
    ASSUME NEW a \in Nat, SeqRange \in Nat \ {0}
    PROVE  a % SeqRange \in 0..SeqRange - 1 /\ (a < SeqRange => a % SeqRange = a)
  OBVIOUS

\* All frames of one run taken in order: kept are the first chunks, as many as there
\* are numbers.
LEMMA KeptOfOneRun ==
    ASSUME KeptInv, NEW size \in ChunkSizes,
           taken = [i \in 1..Count(size) |-> Chunk(i - 1, size)]
    PROVE  FirstChunks(chunks, IF Count(size) <= SeqRange THEN Count(size) ELSE SeqRange, size)
<1> DEFINE n == IF Count(size) <= SeqRange THEN Count(size) ELSE SeqRange
<1>1. Count(size) \in Nat \ {0} /\ SeqRange \in Nat \ {0}
  BY CountBounds, FileParameters
<1>2. n \in 1..Count(size) /\ n <= SeqRange /\ (n < Count(size) => n = SeqRange)
  BY <1>1
<1>3. 1..Len(taken) = 1..Count(size)
  BY <1>1 DEF KeptInv
<1>4. ASSUME NEW k \in 1..Count(size)
      PROVE  taken[k] = Chunk(k - 1, size) /\ taken[k].seq = (k - 1) % SeqRange
  <2>1. k - 1 \in 0..Count(size) - 1
    BY <1>1
  <2>2. QED BY <2>1, ChunkBounds
<1> HIDE DEF n
<1>5. ASSUME NEW s \in 0..n - 1 PROVE s \in DOMAIN chunks
  <2>1. s + 1 \in 1..Count(size) /\ (s + 1) - 1 = s /\ s % SeqRange = s
    BY <1>1, <1>2
  <2>2. taken[s + 1].seq = s
    BY <1>4, <2>1
  <2>3. QED BY <1>3, <2>1, <2>2 DEF KeptInv
<1>6. ASSUME NEW s \in DOMAIN chunks
      PROVE  s \in 0..n - 1 /\ chunks[s] = Chunk(s, size)
  <2>1. PICK k \in 1..Count(size) : chunks[s] = taken[k] /\ FirstOf(k, s)
    BY <1>3 DEF KeptInv
  <2>2. taken[k].seq = s /\ \A j \in 1..k - 1 : taken[j].seq # s
    BY <2>1 DEF FirstOf
  <2>3. s = (k - 1) % SeqRange /\ k - 1 \in Nat
    BY <1>1, <1>4, <2>2
  <2>4. s \in 0..SeqRange - 1 /\ (k - 1 < SeqRange => s = k - 1)
    BY <1>1, <2>3, NumberRange
  <2>5. k - 1 < SeqRange
    <3>1. SUFFICES ASSUME SeqRange <= k - 1 PROVE FALSE
      BY <1>1, <2>3
    <3>2. s + 1 \in 1..k - 1 /\ s + 1 \in 1..Count(size) /\ (s + 1) - 1 = s
      BY <1>1, <2>4, <3>1
    <3>3. s % SeqRange = s
      <4>1. s \in Nat /\ s < SeqRange
        BY <1>1, <2>4
      <4>2. QED BY <1>1, <4>1, NumberRange
    <3>4. taken[s + 1].seq = s
      BY <1>4, <3>2, <3>3
    <3>5. QED BY <2>2, <3>2, <3>4
  <2>6. s = k - 1 /\ s \in 0..n - 1
    BY <1>1, <1>2, <2>4, <2>5
  <2>7. QED BY <1>4, <2>1, <2>6
<1>7. DOMAIN chunks = 0..n - 1
  BY <1>5, <1>6
<1>8. QED BY <1>2, <1>6, <1>7 DEF FirstChunks, n

-----------------------------------------------------------------------------
(* The invariant is inductive *)

LEMMA InitInv == Init => TransferInv
<1> SUFFICES ASSUME Init PROVE TransferInv
  OBVIOUS
<1> USE DEF Init
<1>1. SenderInv
  BY FileParameters DEF SenderInv
<1>2. KeptInv
  BY DEF KeptInv
<1>3. WrittenInv
  BY DEF WrittenInv
<1>4. QED BY <1>1, <1>2, <1>3 DEF TransferInv

LEMMA SameKept == KeptInv /\ UNCHANGED <<taken, chunks>> => KeptInv'
  BY DEF KeptInv, FirstOf

LEMMA SameWritten == WrittenInv /\ UNCHANGED <<receiver, chunks, written, warned>> => WrittenInv'
  BY DEF WrittenInv

LEMMA StartSendingKeeps ==
    ASSUME TransferInv, NEW size \in ChunkSizes, StartSending(size) PROVE TransferInv'
<1>1. SenderInv'
  <2>1. 0 < Count(size) /\ total_bytes \in Nat /\ MaxSends \in Nat
    BY CountBounds, FileParameters
  <2>2. QED BY <2>1 DEF TransferInv, SenderInv, StartSending
<1>2. KeptInv' /\ WrittenInv' /\ air' = air
  BY SameKept, SameWritten DEF TransferInv, StartSending
<1>3. QED BY <1>1, <1>2 DEF TransferInv

LEMMA SendFrameKeeps ==
    ASSUME TransferInv, SendFrame PROVE TransferInv'
<1>1. PICK size \in chunk :
          /\ air' = air \cup {Chunk(offset, size)} /\ offset' = offset + 1
          /\ chunk' = IF offset' = Count(size) THEN {} ELSE chunk
          /\ UNCHANGED <<sends, receiver, chunks, written, warned, taken>>
  BY DEF SendFrame
<1>2. size \in ChunkSizes /\ chunk = {size} /\ offset < Count(size) /\ offset \in Nat
  BY DEF TransferInv, SenderInv
<1>3. Count(size) \in 1..total_bytes /\ total_bytes \in Nat
  BY <1>2, CountBounds, FileParameters
<1>4. SenderInv'
  <2>1. offset' \in 0..total_bytes /\ (offset' # Count(size) => offset' < Count(size))
    BY <1>1, <1>2, <1>3
  <2>2. QED BY <1>1, <1>2, <2>1 DEF TransferInv, SenderInv
<1>5. Chunk(offset, size) \in Frames
  <2>1. offset \in 0..Count(size) - 1
    BY <1>2, <1>3
  <2>2. QED BY <1>2, <2>1 DEF Frames
<1>6. air' \subseteq Frames
  BY <1>1, <1>5 DEF TransferInv
<1>7. KeptInv' /\ WrittenInv'
  BY <1>1, SameKept, SameWritten DEF TransferInv
<1>8. QED BY <1>4, <1>6, <1>7 DEF TransferInv

LEMMA TakeFrameKeeps ==
    ASSUME TransferInv, NEW f \in air, TakeFrame(f) PROVE TransferInv'
<1>1. /\ receiver = "receiving" /\ receiver' \in {"receiving", "done"}
      /\ chunks' = Kept(f) /\ taken' = Append(taken, f)
      /\ UNCHANGED <<chunk, offset, sends, air, written, warned>>
  BY DEF TakeFrame, sending
<1>2. f \in Frames /\ taken \in Seq(Frames)
  BY DEF TransferInv, KeptInv
<1>3. /\ taken' \in Seq(Frames) /\ Len(taken) \in Nat /\ Len(taken') = Len(taken) + 1
      /\ taken'[Len(taken) + 1] = f /\ \A k \in 1..Len(taken) : taken'[k] = taken[k]
  BY <1>1, <1>2
<1>4. /\ DOMAIN chunks' = DOMAIN chunks \cup {f.seq}
      /\ \A s \in DOMAIN chunks : chunks'[s] = chunks[s]
      /\ f.seq \notin DOMAIN chunks => chunks'[f.seq] = f
  BY <1>1 DEF Kept
<1>5. ASSUME NEW k \in 1..Len(taken') PROVE taken'[k].seq \in DOMAIN chunks'
  <2>1. CASE k \in 1..Len(taken)
    BY <1>3, <1>4, <2>1 DEF TransferInv, KeptInv
  <2>2. CASE k = Len(taken) + 1
    BY <1>3, <1>4, <2>2
  <2>3. QED BY <1>3, <2>1, <2>2
<1>6. ASSUME NEW s \in DOMAIN chunks'
      PROVE  \E k \in 1..Len(taken') : chunks'[s] = taken'[k] /\ FirstOf(k, s)'
  <2>1. CASE s \in DOMAIN chunks
    <3>1. PICK k \in 1..Len(taken) : chunks[s] = taken[k] /\ FirstOf(k, s)
      BY <2>1 DEF TransferInv, KeptInv
    <3>2. k \in 1..Len(taken') /\ \A j \in 1..k : taken'[j] = taken[j]
      BY <1>3
    <3>3. chunks'[s] = taken'[k] /\ FirstOf(k, s)'
      BY <1>3, <1>4, <2>1, <3>1, <3>2 DEF FirstOf
    <3>4. QED BY <3>2, <3>3
  <2>2. CASE s \notin DOMAIN chunks
    <3>0. PICK k \in Nat : k = Len(taken) + 1
      BY <1>3
    <3>1. s = f.seq /\ chunks'[s] = f
      BY <1>4, <2>2
    <3>2. k \in 1..Len(taken') /\ taken'[k] = f /\ 1..k - 1 = 1..Len(taken)
      BY <1>3, <3>0
    <3>3. \A j \in 1..Len(taken) : taken'[j].seq # s
      BY <1>3, <2>2 DEF TransferInv, KeptInv
    <3>4. FirstOf(k, s)'
      BY <3>1, <3>2, <3>3 DEF FirstOf
    <3>5. QED BY <3>1, <3>2, <3>4
  <2>3. QED BY <2>1, <2>2
<1>7. KeptInv'
  BY <1>3, <1>5, <1>6 DEF KeptInv
<1>8. SenderInv' /\ WrittenInv' /\ air' = air
  BY <1>1 DEF TransferInv, SenderInv, WrittenInv
<1>9. QED BY <1>7, <1>8 DEF TransferInv

LEMMA WriteFileKeeps ==
    ASSUME TransferInv, WriteFile PROVE TransferInv'
<1>1. /\ receiver # "ended" /\ receiver' = "ended"
      /\ UNCHANGED <<chunk, offset, sends, air, chunks, taken>>
  BY DEF WriteFile, sending
<1>2. SenderInv' /\ KeptInv' /\ air' = air
  BY <1>1, SameKept DEF TransferInv, SenderInv
<1>3. WrittenInv'
  <2>1. written = {} /\ warned \in BOOLEAN
    BY <1>1 DEF TransferInv, WrittenInv
  <2>2. CASE DOMAIN chunks = {}
    <3>1. written' = {} /\ warned' \in BOOLEAN
      BY <2>1, <2>2 DEF WriteFile
    <3>2. QED BY <1>1, <2>2, <3>1 DEF WrittenInv
  <2>3. CASE DOMAIN chunks # {}
    <3>1. written' = {Content(chunks)} /\ warned' = Warns(chunks)
      BY <2>3 DEF WriteFile
    <3>2. Content(chunks') = Content(chunks) /\ (Warns(chunks') <=> Warns(chunks))
      BY <1>1
    <3>3. warned' \in BOOLEAN /\ (warned' <=> Warns(chunks'))
      BY <3>1, <3>2, Zenon DEF Warns
    <3>4. QED BY <1>1, <2>3, <3>1, <3>2, <3>3 DEF WrittenInv
  <2>4. QED BY <2>2, <2>3
<1>4. QED BY <1>2, <1>3 DEF TransferInv

\* Every step keeps the invariant.
LEMMA StepKeepsInv == TransferInv /\ [Next]_vars => TransferInv'
<1> SUFFICES ASSUME TransferInv, [Next]_vars PROVE TransferInv'
  OBVIOUS
<1>1. CASE \E size \in ChunkSizes : StartSending(size)
  BY <1>1, StartSendingKeeps
<1>2. CASE SendFrame
  BY <1>2, SendFrameKeeps
<1>3. CASE StopSending
  <2>1. SenderInv' /\ KeptInv' /\ WrittenInv' /\ air' = air
    BY <1>3, SameKept, SameWritten DEF StopSending, TransferInv, SenderInv
  <2>2. QED BY <2>1 DEF TransferInv
<1>4. CASE \E f \in air : TakeFrame(f)
  BY <1>4, TakeFrameKeeps
<1>5. CASE ReadsSixBytes
  <2>1. SenderInv' /\ KeptInv' /\ WrittenInv' /\ air' = air
    BY <1>5, SameKept DEF ReadsSixBytes, sending, TransferInv, SenderInv, WrittenInv
  <2>2. QED BY <2>1 DEF TransferInv
<1>6. CASE WriteFile
  BY <1>6, WriteFileKeeps
<1>7. CASE UNCHANGED vars
  <2>1. SenderInv' /\ KeptInv' /\ WrittenInv' /\ air' = air
    BY <1>7, SameKept, SameWritten DEF vars, TransferInv, SenderInv
  <2>2. QED BY <2>1 DEF TransferInv
<1>8. QED BY <1>1, <1>2, <1>3, <1>4, <1>5, <1>6, <1>7 DEF Next, Over

\* The first frame of every number is kept, and the file and the warning are made from
\* the frames kept (Receiver.run and main of ds10_recv_file.py).
THEOREM TransferInvariantHolds == Spec => []TransferInv
  BY InitInv, StepKeepsInv, PTL DEF Spec

-----------------------------------------------------------------------------
(* What it says of the runs' properties *)

\* The offsets and numbers of all frames stay within the file and the range, and what is
\* written is made of frames (ds10_send_file.py:64-85, ds10_recv_file.py:139-154).
THEOREM FileTransferTypes == Spec => []TypeOK
<1>1. TransferInv => TypeOK
  <2> SUFFICES ASSUME TransferInv PROVE TypeOK
    OBVIOUS
  <2>1. SenderInv /\ air \subseteq Frames /\ KeptInv /\ WrittenInv
    BY DEF TransferInv
  <2>2. chunk \subseteq ChunkSizes /\ offset \in 0..total_bytes /\ sends \in 0..MaxSends
    BY <2>1 DEF SenderInv
  <2>3. air \subseteq Frame /\ taken \in Seq(Frame)
    <3>1. taken \in Seq(Frames)
      BY <2>1 DEF KeptInv
    <3>2. QED BY <2>1, <3>1, FramesAreFrames
  <2>4. /\ DOMAIN chunks \subseteq 0..SeqRange - 1
        /\ \A s \in DOMAIN chunks : chunks[s] \in Frame
    BY <2>1, KeptAreFrames, FramesAreFrames
  <2>5. receiver \in {"receiving", "done", "dead", "ended"} /\ warned \in BOOLEAN
    BY <2>1 DEF WrittenInv
  <2>6. ASSUME NEW w \in written PROVE w \in Seq(Frame)
    <3>1. w = Content(chunks)
      BY <2>1, <2>5, <2>6 DEF WrittenInv
    <3> DEFINE n == Cardinality(DOMAIN chunks)
    <3>2. SeqRange - 1 \in Nat
      BY FileParameters
    <3>3. n \in Nat
      <4>1. DOMAIN chunks \in SUBSET (0..SeqRange - 1) /\ IsFiniteSet(0..SeqRange - 1)
        BY <2>4, <3>2, FS_Interval
      <4>2. QED BY <4>1, FS_Subset, FS_CardinalityType
    <3>4. ASSUME NEW i \in 1..n PROVE chunks[Sorted(DOMAIN chunks, i)] \in Frame
      <4>1. Sorted(DOMAIN chunks, i) \in DOMAIN chunks
        BY <2>4, <3>2, SortedIsMember
      <4>2. QED BY <2>4, <4>1
    <3>5. w = [i \in 1..n |-> chunks[Sorted(DOMAIN chunks, i)]]
      BY <3>1 DEF Content
    <3> HIDE DEF n
    <3>6. w \in [1..n -> Frame]
      BY <3>4, <3>5
    <3>7. QED BY <3>3, <3>6
  <2>7. QED BY <2>2, <2>3, <2>4, <2>5, <2>6 DEF TypeOK
<1>2. QED BY <1>1, TransferInvariantHolds, PTL

\* What is written when the numbers kept are those of the first chunks.
LEMMA WrittenOfFirstChunks ==
    ASSUME TransferInv, receiver = "ended", NEW n, NEW size, FirstChunks(chunks, n, size)
    PROVE  (Whole <=> n = Count(size)) /\ (warned <=> n # Count(size))
<1>1. size \in ChunkSizes /\ n \in 1..Count(size) /\ DOMAIN chunks = 0..n - 1
  BY DEF FirstChunks
<1>2. DOMAIN chunks # {}
  <2>1. 0 \in 0..n - 1
    BY <1>1, CountBounds
  <2>2. QED BY <1>1, <2>1
<1>3. written = {Content(chunks)} /\ (warned <=> Warns(chunks))
  BY <1>2 DEF TransferInv, WrittenInv
<1>4. /\ Content(chunks) = [i \in 1..n |-> Chunk(i - 1, size)]
      /\ Warns(chunks) <=> n # Count(size)
  BY FirstChunksContent
<1>5. written = {[i \in 1..n |-> Chunk(i - 1, size)]}
  BY <1>3, <1>4, Zenon
<1>6. QED BY <1>1, <1>3, <1>4, <1>5, FirstChunksWhole, Zenon

\* Whatever was lost, repeated, reordered, unreadable for its length or sent again with
\* the same chunk size: a file cut into no more chunks than there are numbers, and
\* written without a warning, is whole (ds10_recv_file.py:139-154).
THEOREM SilenceMeansWhole == Spec => []SilentOnlyIfWhole
<1>1. TransferInv => SilentOnlyIfWhole
  <2> SUFFICES ASSUME TransferInv, NEW size \in ChunkSizes, Count(size) <= SeqRange,
                      \A k \in DOMAIN taken : taken[k].size = size,
                      receiver = "ended", written # {}, ~warned
               PROVE  Whole
    BY DEF SilentOnlyIfWhole
  <2>1. KeptInv /\ DOMAIN chunks # {} /\ (warned <=> Warns(chunks))
    BY DEF TransferInv, WrittenInv
  <2>2. Missing(chunks) = {}
    BY <2>1 DEF Warns
  <2>3. FirstChunks(chunks, Cardinality(DOMAIN chunks), size)
    BY <2>1, <2>2, KeptWithoutGap
  <2>4. QED BY <2>3, WrittenOfFirstChunks
<1>2. QED BY <1>1, TransferInvariantHolds, PTL

\* After all frames of one run, in order, the receiver's verdict is right, and it is
\* good unless the numbers wrapped (ds10_recv_file.py:80-85, 139-149).
THEOREM LosslessVerdictHolds == Spec => []LosslessVerdict
<1>1. TransferInv => LosslessVerdict
  <2> SUFFICES ASSUME TransferInv, NEW size \in ChunkSizes, receiver = "ended",
                      taken = [i \in 1..Count(size) |-> Chunk(i - 1, size)]
               PROVE  (Whole <=> ~warned) /\ (Whole <=> Count(size) <= SeqRange)
    BY DEF LosslessVerdict
  <2> DEFINE n == IF Count(size) <= SeqRange THEN Count(size) ELSE SeqRange
  <2>1. FirstChunks(chunks, n, size)
    BY KeptOfOneRun DEF TransferInv
  <2>2. n = Count(size) <=> Count(size) <= SeqRange
    BY CountBounds, FileParameters
  <2> HIDE DEF n
  <2>3. (Whole <=> n = Count(size)) /\ (warned <=> n # Count(size))
    BY <2>1, WrittenOfFirstChunks
  <2>4. warned \in BOOLEAN
    BY DEF TransferInv, WrittenInv
  <2>5. QED BY <2>2, <2>3, <2>4
<1>2. QED BY <1>1, TransferInvariantHolds, PTL
=============================================================================
