--------------------------- MODULE ChunkingProofs ---------------------------
(***************************************************************************)
(* Theorems about the arithmetic of Chunking, for every size of a file and *)
(* of a chunk.                                                             *)
(***************************************************************************)
EXTENDS Chunking, TLAPS

\* The number of chunks is the least whose sizes add up to that of the file.
LEMMA CeilBounds ==
    ASSUME NEW size \in Nat \ {0}, NEW c \in Nat \ {0}
    PROVE  /\ Ceil(size, c) \in Nat \ {0}
           /\ (Ceil(size, c) - 1) * c < size
           /\ size <= Ceil(size, c) * c
<1> DEFINE n == size + c - 1
           q == n \div c
<1>1. n \in Nat
  OBVIOUS
<1>2. q \in Nat
  BY <1>1
<1>3. c * q <= n
  BY <1>1, <1>2, SMTT(30)
<1>4. n < c * (q + 1)
  BY <1>1, <1>2, SMTT(30)
<1>5. c * (q + 1) = c * q + c
  BY <1>2
<1>6. QED BY <1>1, <1>2, <1>3, <1>4, <1>5 DEF Ceil

\* Multiplying by the size of a chunk keeps the order of indices.
LEMMA ProductsOrdered ==
    ASSUME NEW i \in Int, NEW j \in Int, NEW c \in Nat \ {0}, i <= j
    PROVE  i * c <= j * c
<1>1. (j - i) * c >= 0
  BY SMTT(30)
<1>2. (j - i) * c = j * c - i * c
  OBVIOUS
<1>3. i * c \in Int /\ j * c \in Int
  OBVIOUS
<1>4. QED BY <1>1, <1>2, <1>3

\* Every chunk starts inside the file.
LEMMA ChunksStartInside ==
    ASSUME NEW size \in Nat, NEW c \in Nat \ {0}, NEW i \in ChunkIndices(BuildFileMeta(size, c))
    PROVE  i \in Nat /\ i * c \in Nat /\ i * c < size
<1> DEFINE n == TotalChunksFor(size, c)
<1>1. i \in 0 .. n - 1
  BY DEF ChunkIndices, BuildFileMeta
<1>2. size # 0 /\ n = Ceil(size, c)
  BY <1>1 DEF TotalChunksFor
<1>3. n \in Nat /\ (n - 1) * c < size
  BY <1>2, CeilBounds
<1>4. i \in Nat /\ i <= n - 1
  BY <1>1, <1>3
<1>5. i * c <= (n - 1) * c
  BY <1>3, <1>4, ProductsOrdered
<1>6. i * c \in Nat
  BY <1>4
<1>7. (n - 1) * c \in Int
  BY <1>3
<1>8. QED BY <1>3, <1>4, <1>5, <1>6, <1>7

\* No chunk is empty (chunking.ts 21-23), for every size of a file, multiples of the
\* chunk size and 0 among them.
THEOREM ChunksAreNotEmpty ==
    ASSUME NEW size \in Nat, NEW c \in Nat \ {0}
    PROVE  NoEmptyChunk(BuildFileMeta(size, c))
<1> SUFFICES ASSUME NEW i \in ChunkIndices(BuildFileMeta(size, c))
             PROVE  i * c < Smaller(i * c + c, size)
  BY DEF NoEmptyChunk, ChunkBounds, BuildFileMeta
<1>1. i * c \in Nat /\ i * c < size
  BY ChunksStartInside
<1>2. QED BY <1>1 DEF Smaller

\* The chunks cut the file exactly (chunking.ts 42-46): every byte is in one of them and
\* in no other, and none reaches beyond the file.
THEOREM ChunksCutExactly ==
    ASSUME NEW size \in Nat, NEW c \in Nat \ {0}
    PROVE  CutsExactly(BuildFileMeta(size, c))
<1> DEFINE meta == BuildFileMeta(size, c)
           n == TotalChunksFor(size, c)
           Bytes(i) == i * c .. Smaller(i * c + c, size) - 1
<1>1. /\ meta.size = size /\ ChunkIndices(meta) = 0 .. n - 1
      /\ \A i \in ChunkIndices(meta) : ReadChunk(i, meta) = Bytes(i)
  BY DEF BuildFileMeta, ChunkIndices, ReadChunk, ChunkBounds
<1>2. ASSUME NEW i \in ChunkIndices(meta)
      PROVE  Bytes(i) \subseteq 0 .. size - 1
  <2>1. i * c \in Nat /\ i * c < size
    BY ChunksStartInside
  <2>2. QED BY <2>1 DEF Smaller
<1>3. ASSUME NEW i \in ChunkIndices(meta), NEW j \in ChunkIndices(meta),
             NEW byte \in 0 .. size - 1, byte \in Bytes(i), byte \in Bytes(j), i < j
      PROVE  FALSE
  <2>1. i \in Nat /\ j \in Nat /\ i * c \in Nat /\ j * c \in Nat
    BY ChunksStartInside
  <2>2. (i + 1) * c <= j * c
    <3>1. i + 1 \in Int /\ j \in Int /\ i + 1 <= j
      BY <1>3, <2>1
    <3>2. QED BY <3>1, ProductsOrdered
  <2>3. (i + 1) * c = i * c + c
    BY <2>1
  <2>4. byte < i * c + c /\ j * c <= byte
    BY <1>3, <2>1 DEF Smaller
  <2>5. QED BY <2>1, <2>2, <2>3, <2>4
<1>4. ASSUME NEW byte \in 0 .. size - 1
      PROVE  \E i \in ChunkIndices(meta) : byte \in Bytes(i)
  <2> DEFINE i == byte \div c
  <2>1. i \in Nat
    OBVIOUS
  <2>2. c * i <= byte
    BY <2>1, SMTT(30)
  <2>3. byte < c * (i + 1)
    BY <2>1, SMTT(30)
  <2>4. c * (i + 1) = i * c + c /\ c * i = i * c /\ i * c \in Nat
    BY <2>1
  <2>5. size # 0 /\ n = Ceil(size, c)
    BY DEF TotalChunksFor
  <2>6. n \in Nat /\ size <= n * c
    BY <2>5, CeilBounds
  <2>7. i < n
    <3>1. SUFFICES ASSUME n <= i PROVE FALSE
      BY <2>1, <2>6
    <3>2. n * c <= i * c
      BY <2>1, <2>6, <3>1, ProductsOrdered
    <3>3. n * c \in Int
      BY <2>6
    <3>4. QED BY <2>2, <2>4, <2>6, <3>2, <3>3
  <2>8. i \in ChunkIndices(meta)
    BY <1>1, <2>1, <2>6, <2>7
  <2>9. byte \in Bytes(i)
    <3> HIDE DEF i
    <3>1. QED BY <2>2, <2>3, <2>4 DEF Smaller
  <2>10. QED BY <2>8, <2>9
<1>5. ASSUME NEW byte \in 0 .. size - 1
      PROVE  \E i \in ChunkIndices(meta) :
                /\ byte \in ReadChunk(i, meta)
                /\ \A j \in ChunkIndices(meta) : byte \in ReadChunk(j, meta) => j = i
  <2>1. PICK i \in ChunkIndices(meta) : byte \in Bytes(i)
    BY <1>4
  <2>2. \A j \in ChunkIndices(meta) : byte \in Bytes(j) => ~(i < j) /\ ~(j < i)
    BY <1>3, <2>1
  <2>3. ChunkIndices(meta) \subseteq Int
    BY <1>1
  <2>4. \A j \in ChunkIndices(meta) : byte \in Bytes(j) => j = i
    <3> HIDE DEF Bytes, meta
    <3>1. QED BY <2>2, <2>3
  <2>5. QED
    <3> HIDE DEF Bytes, meta
    <3>1. QED BY <1>1, <2>1, <2>4
<1>6. \A i \in ChunkIndices(meta) : ReadChunk(i, meta) \subseteq 0 .. meta.size - 1
  <2> HIDE DEF Bytes, meta
  <2>1. QED BY <1>1, <1>2
<1>7. QED
  <2> HIDE DEF Bytes, meta
  <2>1. CutsExactly(meta)
    BY <1>1, <1>5, <1>6 DEF CutsExactly
  <2>2. QED BY <2>1 DEF meta
=============================================================================
