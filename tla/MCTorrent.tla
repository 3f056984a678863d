----------------------------- MODULE MCTorrent -----------------------------
(* Instances of Torrent for TLC: files below, at and above several chunks. *)
EXTENDS Torrent

SmallFiles  == 1..16
SmallChunks == 1..7
=============================================================================
