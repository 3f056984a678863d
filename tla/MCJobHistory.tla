---------------------------- MODULE MCJobHistory ----------------------------
(***************************************************************************)
(* Instances of JobHistory for TLC: the second torrent holds the files of  *)
(* the first and one more, as when a directory is published again.         *)
(***************************************************************************)
EXTENDS JobHistory, TLC

CONSTANTS t1, t2, f1, f2, p1, p2, c1, c2

TwoTorrents == (t1 :> {f1}) @@ (t2 :> {f1, f2})

ChunkSymmetry == Permutations({c1, c2})
=============================================================================
