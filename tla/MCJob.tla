------------------------------- MODULE MCJob -------------------------------
(***************************************************************************)
(* Instances of Job for TLC.  Two chunks are enough for a chunk to be in   *)
(* flight while another is queued, and for the queue to be empty while one *)
(* is in flight; two pool threads for two results to race; two owners for  *)
(* the choice of one and for a list to be replaced.                        *)
(***************************************************************************)
EXTENDS JobProperties, TLC

CONSTANTS c1, c2, c3, o1, o2, w1, w2, f1, f2

ThreeChunks == (c1 :> f1) @@ (c2 :> f1) @@ (c3 :> f1)
OneFile  == (c1 :> f1) @@ (c2 :> f1)
TwoFiles == (c1 :> f1) @@ (c2 :> f2)

\* Peers that hold everything, and peers that may lack the second chunk.
AllOffers  == {{c1, c2}}
SomeOffers == {{c1}, {c1, c2}}
MostOffers == {{c1, c2}, {c1, c2, c3}}

ThreadSymmetry == Permutations({w1, w2})
ChunkSymmetry  == ThreadSymmetry \cup Permutations({c1, c2})
=============================================================================
