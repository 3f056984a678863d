------------------------------ MODULE NetPack ------------------------------
(***************************************************************************)
(* A pack on a stream (netpack.cc): the length of the header, the header   *)
(* and the payload, each sent by one call of sendBytes and each expected   *)
(* from one call of receiveBytes, which returns as soon as anything has    *)
(* arrived.  The module has no state: its operators say what is put on a   *)
(* stream and what may be read off it.                                     *)
(*                                                                         *)
(* A part is two units long, enough for a read to end in the middle of it. *)
(* The pack of a NetPack that nothing was put into is Blank: its header is *)
(* empty, its length therefore zero, and nothing follows the length.       *)
(* Every other pack is a record with the type of its message.  Bytes read  *)
(* as something they are not make any length up to Longest; read as a      *)
(* header, they name no message.                                           *)
(***************************************************************************)
EXTENDS Naturals, Sequences

CONSTANTS
    Blank,      \* the pack nothing was put into
    Nothing,    \* no message: the null pointer NetPack::message returns
    Loose,      \* the types of message that other bytes can be parsed as
    Longest     \* bound: the greatest length made of other bytes, in units

\* What one sendBytes puts on the stream.
Part(pack, part) ==
    IF pack = Blank /\ part # "length" THEN << >>
    ELSE [half \in 1..2 |-> [pack |-> pack, part |-> part, half |-> half]]

\* How much a receiveBytes of size units may leave with: no more than has been sent,
\* and nothing only when the other end has closed.
Reads(stream, size, closed) ==
    {k \in 0..size : k <= Len(stream) /\ (k > 0 \/ size = 0 \/ (closed /\ stream = << >>))}

First(stream, k) == SubSeq(stream, 1, k)
Rest(stream, k)  == SubSeq(stream, k + 1, Len(stream))

Whole(bytes, part) == Len(bytes) = 2 /\ bytes = Part(bytes[1].pack, part)

\* receiveHeaderLength and the assertion on its result, which is not set when the read
\* was short: the lengths receiveFrom may go on with, whether it may return an error,
\* and whether the assertion may fail.
HeaderLengths(bytes) ==
    IF Len(bytes) < 2 THEN {}
    ELSE IF Whole(bytes, "length") THEN {2} \ {k \in {2} : bytes[1].pack = Blank}
    ELSE 1..Longest
LengthMayFail(bytes)  == Len(bytes) < 2
LengthMayThrow(bytes) == Whole(bytes, "length") => bytes[1].pack = Blank

\* The fields of a header: the length of the payload and the message, here the pack.
\* All of them are optional, so that the beginning of a header may parse, without the
\* name and perhaps without the length; other bytes may parse as any length, a negative
\* one too, for which no buffer can be allocated.
CutHeader(bytes) == Len(bytes) = 1 /\ bytes[1].part = "header" /\ bytes[1].half = 1

Headers(bytes) ==
    IF Whole(bytes, "header") THEN {[size |-> 2, pack |-> bytes[1].pack]}
    ELSE IF bytes = << >> THEN {[size |-> 0, pack |-> Nothing]}
    ELSE [size : IF CutHeader(bytes) THEN {0, 2} ELSE 0..Longest, pack : {Nothing}]
HeaderMayFail(bytes)  == bytes # << >> /\ ~Whole(bytes, "header")
HeaderMayThrow(bytes) == HeaderMayFail(bytes) /\ ~CutHeader(bytes)

\* NetPack::message of a payload as long as its header told: the header's type decides,
\* not whether header and payload were sent together.  A message that is not the one that
\* was sent has a type and nothing else.
Messages(pack, bytes) ==
    IF pack = Nothing THEN {Nothing}
    ELSE IF bytes # << >> /\ Whole(bytes, "payload") /\ bytes[1].pack.type = pack.type
         THEN {bytes[1].pack}
    ELSE {Nothing} \cup [type : {pack.type} \cap Loose]
=============================================================================
