------------------------------ MODULE Torrent ------------------------------
(***************************************************************************)
(* The chunks of a file.  MakeTorrent records, for every chunk of a file,  *)
(* the checksum of a range of its bytes and a size; an uploader finds the  *)
(* bytes of a chunk again from the recorded sizes alone.  The checksums    *)
(* and the sizes are produced by two loops, in two source files, that      *)
(* share nothing but the file's size and the chunk size.                   *)
(*                                                                         *)
(* A checksum stands for the range of bytes it is computed from.  An empty *)
(* file cannot be mapped into memory: MakeTorrent throws, and there is no  *)
(* torrent.                                                                *)
(***************************************************************************)
EXTENDS Integers, Sequences

CONSTANTS FileSizes, ChunkSizes

ASSUME SizesAssumption ==
    FileSizes \subseteq Nat \ {0} /\ ChunkSizes \subseteq Nat \ {0}

VARIABLES
    pc,             \* which of the two loops MakeTorrent is in
    file_size, chunk_size,
    start,          \* get_file_checksum_list: where the next range begins
    checksums,      \* the ranges whose checksums are in the list
    chunks          \* Torrent::File::chunk: the recorded sizes

vars == <<pc, file_size, chunk_size, start, checksums, chunks>>

Bytes(from, to) == [from |-> from, to |-> to]

Init ==
    /\ pc = "checksums"
    /\ file_size \in FileSizes /\ chunk_size \in ChunkSizes
    /\ start = 0 /\ checksums = << >> /\ chunks = << >>

\* The loop of get_file_checksum_list leaves the last range, which is never
\* empty, to the line after it.
MoreToEnd == start + chunk_size <= file_size
More      == start + chunk_size < file_size

PushChecksum ==
    /\ pc = "checksums" /\ More
    /\ checksums' = Append(checksums, Bytes(start, start + chunk_size))
    /\ start' = start + chunk_size
    /\ UNCHANGED <<pc, file_size, chunk_size, chunks>>

PushLastChecksum ==
    /\ pc = "checksums" /\ ~More
    /\ checksums' = Append(checksums, Bytes(start, file_size))
    /\ pc' = "chunks"
    /\ UNCHANGED <<file_size, chunk_size, start, chunks>>

\* last_chunk_size, and the loop over the checksums.
LastByCount == Len(chunks) + 1 = file_size \div chunk_size
LastChunk   == Len(chunks) + 1 = Len(checksums)

last_chunk_size == file_size % chunk_size

this_chunk_size == IF LastChunk THEN last_chunk_size ELSE chunk_size

AddChunk ==
    /\ pc = "chunks" /\ Len(chunks) < Len(checksums)
    /\ chunks' = Append(chunks, this_chunk_size)
    /\ UNCHANGED <<pc, file_size, chunk_size, start, checksums>>

Finish ==
    /\ pc = "chunks" /\ Len(chunks) = Len(checksums) /\ pc' = "done"
    /\ UNCHANGED <<file_size, chunk_size, start, checksums, chunks>>

Next == PushChecksum \/ PushLastChecksum \/ AddChunk \/ Finish

Spec == Init /\ [][Next]_vars
-----------------------------------------------------------------------------
(* TorrentFileInfo, which counts chunks from 0.                            *)

chunk_count == Len(chunks)

chunk_offset(pos) == IF pos >= chunk_count THEN 0 ELSE chunks[1] * pos
chunk_size_of(pos) == IF pos >= chunk_count THEN -1 ELSE chunks[pos + 1]

\* The bytes an uploader reads for a chunk: UploadTask's offset and size.
Served(pos) == Bytes(chunk_offset(pos), chunk_offset(pos) + chunk_size_of(pos))
-----------------------------------------------------------------------------
TypeOK ==
    /\ pc \in {"checksums", "chunks", "done"}
    /\ file_size \in Nat \ {0} /\ chunk_size \in Nat \ {0} /\ start \in Nat
    /\ checksums \in Seq([from : Nat, to : Nat])
    /\ chunks \in Seq(Nat) /\ Len(chunks) <= Len(checksums)
    /\ (pc = "done" => Len(chunks) = Len(checksums))

\* The ranges that are checked cover the file from its first byte to its last, each
\* byte once, and none is empty: every byte a downloader writes has been verified.
RangesTile ==
    pc # "checksums" =>
        /\ checksums # << >>
        /\ checksums[1].from = 0 /\ checksums[Len(checksums)].to = file_size
        /\ \A i \in 1..Len(checksums) : checksums[i].from < checksums[i].to
        /\ \A i \in 1..(Len(checksums) - 1) : checksums[i].to = checksums[i + 1].from

\* What is served for a chunk is what its checksum was computed from, although the
\* uploader computes its place from the size of the first chunk, unless the file is a
\* whole number of chunks: then its last chunk is found in its place, and is empty.
ServedIsChecked ==
    pc = "done" => \A pos \in 0..(chunk_count - 1) :
        \/ Served(pos) = checksums[pos + 1]
        \/ /\ pos = chunk_count - 1 /\ file_size % chunk_size = 0
           /\ Served(pos) = Bytes(checksums[pos + 1].from, checksums[pos + 1].from)

\* Every chunk can be served: the assertion chunk_size > 0 in HandleUploadRequest
\* (client_connection_handler.cc:152).
EveryChunkServed ==
    pc = "done" => \A pos \in 0..(chunk_count - 1) : chunk_size_of(pos) > 0
=============================================================================
