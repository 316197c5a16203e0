----------------------------- MODULE MCTransfer -----------------------------
(***************************************************************************)
(* Instances of TransferSession for TLC.  The two versions of the file and *)
(* the empty datum are model values; the versions are interchangeable.     *)
(* The arithmetic that cuts a file into the chunks counted there is        *)
(* evaluated here for small sizes.                                         *)
(***************************************************************************)
EXTENDS TransferSession, Chunking, TLC

CONSTANTS v1, v2

TwoVersions == {v1, v2}
VersionSymmetry == Permutations(TwoVersions)

ASSUME SmallFilesAreCut ==
    \A size \in 0 .. 24, chunkSize \in 1 .. 6 :
        LET meta == BuildFileMeta(size, chunkSize)
        IN CutsExactly(meta) /\ NoEmptyChunk(meta)
=============================================================================
