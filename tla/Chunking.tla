------------------------------ MODULE Chunking ------------------------------
(***************************************************************************)
(* The arithmetic of transfer-engine/src/chunking.ts: how a file of size   *)
(* bytes is cut into chunks, and which bytes readChunk reads for an index. *)
(* TransferSession counts in chunks only; what is stated here is why a     *)
(* file whose chunks all arrive is the file.                               *)
(*                                                                         *)
(* Chunk sizes are powers of two (types.ts), so the division of two        *)
(* numbers that Math.ceil rounds is exact.                                 *)
(***************************************************************************)
EXTENDS Integers

\* Math.ceil(size / chunkSize)
Ceil(size, chunkSize) == (size + chunkSize - 1) \div chunkSize

TotalChunksFor(size, chunkSize) == IF size = 0 THEN 0 ELSE Ceil(size, chunkSize)

\* buildFileMeta, as far as it counts
BuildFileMeta(size, chunkSize) ==
    [size |-> size, chunkSize |-> chunkSize, totalChunks |-> TotalChunksFor(size, chunkSize)]

Smaller(m, n) == IF m < n THEN m ELSE n

\* The first byte of the chunk, and the first that is no longer in it.
ChunkBounds(index, meta) ==
    LET start == index * meta.chunkSize
    IN <<start, Smaller(start + meta.chunkSize, meta.size)>>

ReadChunk(index, meta) == ChunkBounds(index, meta)[1] .. ChunkBounds(index, meta)[2] - 1

ChunkIndices(meta) == 0 .. meta.totalChunks - 1

-----------------------------------------------------------------------------
\* Every byte of the file is read by exactly one of the chunks, and no chunk reads
\* anything else: nothing is lost, and nothing sent twice (chunking.ts 42-46).
CutsExactly(meta) ==
    /\ \A byte \in 0 .. meta.size - 1 :
          \E i \in ChunkIndices(meta) :
              /\ byte \in ReadChunk(i, meta)
              /\ \A j \in ChunkIndices(meta) : byte \in ReadChunk(j, meta) => j = i
    /\ \A i \in ChunkIndices(meta) : ReadChunk(i, meta) \subseteq 0 .. meta.size - 1

\* No chunk is empty: a file whose size is a multiple of the chunk size has no last
\* one without bytes, and an empty file has none at all (chunking.ts 21-23).
NoEmptyChunk(meta) ==
    \A i \in ChunkIndices(meta) : ChunkBounds(i, meta)[1] < ChunkBounds(i, meta)[2]
=============================================================================
