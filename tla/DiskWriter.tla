----------------------------- MODULE DiskWriter -----------------------------
(***************************************************************************)
(* The four DiskWriter implementations of the transfer engine              *)
(* (transfer-engine/src/diskWriters) and what each of them leaves on disk. *)
(*                                                                         *)
(*   fsa     FileSystemAccessWriter: writes go to a swap file that close() *)
(*           moves over the target and abort() throws away                 *)
(*   idb     IndexedDbWriter: one row per chunk, assembled by finalize()   *)
(*   tauri   TauriFsWriter: positional writes straight into the target     *)
(*   memory  MemoryDiskWriter: a Map in the page's memory                  *)
(*                                                                         *)
(* The content of a chunk is abstracted to the version of the source file  *)
(* it was cut from; SHA-256 is taken as injective, so a chunk's hash is    *)
(* that version too.  AlwaysFinalizes is a mutated form of CanFinalize,    *)
(* as a mistake in the code would give it; nothing uses it.                *)
(***************************************************************************)
EXTENDS Naturals

CONSTANTS
    TotalChunks,    \* meta.totalChunks of the one file the model transfers
    Contents,       \* the versions the source file can have
    NoData          \* what a chunk nobody wrote reads as

ASSUME ChunksAssumption == TotalChunks \in Nat
ASSUME ContentsAssumption == NoData \notin Contents /\ Contents # {}

\* The implementations of DiskWriter; pickWriter returns the Tauri one to no page.
Kinds == {"fsa", "idb", "tauri", "memory"}

(***************************************************************************)
(* The life of the stream, handle or database connection of one writer:    *)
(* "aborting" and "closing" are the awaits inside abort() and finalize().  *)
(***************************************************************************)
WriterStates == {"none", "open", "aborting", "closing", "closed"}

Chunks == 0 .. (TotalChunks - 1)
Datum == Contents \cup {NoData}
Image == [Chunks -> Datum]
Blank == [i \in Chunks |-> NoData]

(***************************************************************************)
(* part: the swap file, the rows or the Map;  file: what the user gets.    *)
(***************************************************************************)
Disk == [part : Image, file : Image]
EmptyDisk == [part |-> Blank, file |-> Blank]

\* createWritable({keepExistingData: true}) starts the swap file as a copy of
\* the target; a MemoryDiskWriter is new for every transfer.
Opened(k, d) ==
    CASE k = "fsa"    -> [d EXCEPT !.part = d.file]
      [] k = "memory" -> [d EXCEPT !.part = Blank]
      [] OTHER        -> d

\* writeChunk() throws "not opened" or is refused by a stream that is closing;
\* IndexedDbWriter and MemoryDiskWriter keep accepting after abort().
AcceptsWrites(k, w) == k \in {"idb", "memory"} \/ w = "open"

\* Chunk i holds x (NoData: a failed write left it torn).
Wrote(k, d, i, x) ==
    IF k = "tauri" THEN [d EXCEPT !.file[i] = x] ELSE [d EXCEPT !.part[i] = x]

\* abort(): the swap file is discarded and the rows are deleted at the call; a
\* stream already closed or closing is left alone; Tauri keeps what it wrote.
Aborted(k, w, d) ==
    IF k = "idb" \/ (k = "fsa" /\ w = "open") THEN [d EXCEPT !.part = Blank] ELSE d

AlwaysFinalizes(k, w, d) == TRUE

\* close() rejects on a stream or handle that is being aborted; without a stream
\* it is skipped; assembling the Blob throws on the first missing row.
CanFinalize(k, w, d) ==
    CASE k = "idb"    -> \A i \in Chunks : d.part[i] # NoData
      [] k = "memory" -> TRUE
      [] OTHER        -> w # "aborting"

\* MemoryDiskWriter.finalize() only sets a flag: nothing reaches the user.
Finalized(k, w, d) ==
    CASE k = "fsa" /\ w = "closing" -> [part |-> Blank, file |-> d.part]
      [] k = "idb"                  -> [part |-> Blank, file |-> d.part]
      [] OTHER                      -> d

\* What is left when the page or app dies: swap files and memory are lost.
Restarted(k, d) == IF k \in {"fsa", "memory"} THEN [d EXCEPT !.part = Blank] ELSE d
=============================================================================
