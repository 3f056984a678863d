---------------------------- MODULE LinkProofs ----------------------------
(***************************************************************************)
(* Proofs about TrackerLink, for any number of threads and of requests and *)
(* for lengths of any size: that an exchange is a call unless disturbed,   *)
(* that it never stops, and that each of its steps leaves less of it.      *)
(***************************************************************************)
EXTENDS TrackerLink, SequenceTheorems, TLAPS

-----------------------------------------------------------------------------
(* The packs there are, and what a read leaves of a stream.                *)

\* The requests, what the tracker may take for one, and what it answers.
Asks    == {Request(t, n) : t \in Threads, n \in Nat}
Taken   == Asks \cup [type : {"plain"}]
Answers == {ReplyTo(m) : m \in Taken}

LEMMA PackTypes ==
    /\ Asks \subseteq Requests /\ Answers \subseteq Replies
    /\ Blank \notin Asks \cup Answers /\ Nothing \notin Asks \cup Answers /\ Blank # Nothing
<1>1. Asks \subseteq Requests
  BY DEF Asks, Request, Requests
<1>2. Taken \subseteq Requests \cup [type : {"plain"}]
  BY <1>1 DEF Taken
<1>3. Answers \subseteq Replies
  BY <1>2 DEF Answers, ReplyTo, Replies
<1>4. QED
  BY <1>1, <1>3, PacksAssumption

\* What the rest of a request may be parsed as is not one.
LEMMA BareIsNone == [type : {"plain"}] \cap Requests = {}
<1> SUFFICES ASSUME NEW m \in [type : {"plain"}], m \in Requests PROVE FALSE
  OBVIOUS
<1>1. DOMAIN m = {"type"}
  OBVIOUS
<1>2. DOMAIN m = {"type", "from", "n"}
  BY DEF Requests
<1>3. "from" \in {"type", "from", "n"} /\ "from" \notin {"type"}
  OBVIOUS
<1>4. QED
  BY <1>1, <1>2, <1>3

Bytes(packs) == [pack : packs, part : {"length", "header", "payload"}, half : 1..2]
Headed == [s \in Sides |-> IF s = "client" THEN Answers ELSE Asks]
Packs  == [s \in Sides |-> IF s = "client" THEN Answers \cup {Blank} ELSE Asks]

\* What is left of a stream, and of one from which something was read.
Left(w, v) == \E k \in 0..Len(w) : v = Rest(w, k)
Read(w, v) == \E k \in 1..Len(w) : v = Rest(w, k)

LEMMA RestFacts ==
    ASSUME NEW S, NEW w \in Seq(S), NEW k \in 0..Len(w)
    PROVE  /\ Rest(w, k) \in Seq(S) /\ Len(Rest(w, k)) = Len(w) - k
           /\ \A i \in 1..(Len(w) - k) : Rest(w, k)[i] = w[i + k]
<1>1. k + 1 \in Int /\ Len(w) \in Int /\ \A i \in (k + 1)..Len(w) : w[i] \in S
  OBVIOUS
<1>2. /\ SubSeq(w, k + 1, Len(w)) \in Seq(S)
      /\ Len(SubSeq(w, k + 1, Len(w))) = IF k + 1 <= Len(w) THEN Len(w) - (k + 1) + 1 ELSE 0
      /\ \A i \in 1..(Len(w) - (k + 1) + 1) : SubSeq(w, k + 1, Len(w))[i] = w[k + 1 + i - 1]
  BY <1>1, SubSeqProperties
<1>3. QED
  BY <1>2 DEF Rest

LEMMA FirstFacts ==
    ASSUME NEW S, NEW w \in Seq(S), NEW k \in 0..Len(w)
    PROVE  /\ First(w, k) \in Seq(S) /\ Len(First(w, k)) = k
           /\ \A i \in 1..k : First(w, k)[i] = w[i]
<1>1. k \in Int /\ \A i \in 1..k : w[i] \in S
  OBVIOUS
<1>2. /\ SubSeq(w, 1, k) \in Seq(S)
      /\ Len(SubSeq(w, 1, k)) = IF 1 <= k THEN k - 1 + 1 ELSE 0
      /\ \A i \in 1..(k - 1 + 1) : SubSeq(w, 1, k)[i] = w[1 + i - 1]
  BY <1>1, SubSeqProperties
<1>3. QED
  BY <1>2 DEF First

LEMMA LeftFacts ==
    ASSUME NEW S, NEW w \in Seq(S)
    PROVE  /\ Left(w, w) /\ Left(w, << >>)
           /\ \A v : Left(w, v) => v \in Seq(S)
<1>1. Rest(w, 0) = w
  BY SubSeqFull DEF Rest
<1>2. Rest(w, Len(w)) = << >>
  BY SubSeqEmpty DEF Rest
<1>3. 0 \in 0..Len(w) /\ Len(w) \in 0..Len(w)
  OBVIOUS
<1>4. QED
  BY <1>1, <1>2, <1>3, RestFacts DEF Left

LEMMA PartFacts ==
    ASSUME NEW P, NEW p \in P, NEW part \in {"length", "header", "payload"}
    PROVE  /\ Part(p, part) \in Seq(Bytes(P))
           /\ \A i \in 1..Len(Part(p, part)) :
                 Part(p, part)[i] = [pack |-> p, part |-> part, half |-> i]
           /\ Len(Part(p, part)) = IF p = Blank /\ part # "length" THEN 0 ELSE 2
<1>1. CASE p = Blank /\ part # "length"
  BY <1>1 DEF Part
<1>2. CASE ~(p = Blank /\ part # "length")
  <2> DEFINE s == [half \in 1..2 |-> [pack |-> p, part |-> part, half |-> half]]
  <2>1. \A i \in 1..2 : s[i] \in Bytes(P)
    BY DEF Bytes
  <2>2. s \in Seq(Bytes(P)) /\ Len(s) = 2
    BY <2>1, 2 \in Nat
  <2>3. Part(p, part) = s
    BY <1>2 DEF Part
  <2>4. QED
    BY <1>2, <2>2, <2>3
<1>3. QED
  BY <1>1, <1>2
-----------------------------------------------------------------------------
(* Types: what each end sends or reads, and what is on its way to whom.    *)

PackRight(x) ==
    /\ at[x] \in Sending => pack[x] \in IF x = Handler THEN Packs["client"]
                                        ELSE {Request(x, asked[x])}
    /\ at[x] \in Receiving => pack[x] \in Headed[SideOf(x)] \cup {Nothing}

EndTypes ==
    /\ at \in [Ends -> Stages] /\ size \in [Ends -> Nat]
    /\ pack \in [Ends -> Asks \cup Answers \cup {Blank, Nothing}]
    /\ \A x \in Ends : PackRight(x)
WireTypes ==
    /\ wire \in [Sides -> Seq(Bytes(Asks \cup Answers \cup {Blank}))] /\ open \subseteq Sides
    /\ \A s \in Sides : wire[s] \in Seq(Bytes(Packs[s]))
CountTypes ==
    /\ asked \in [Threads -> Nat] /\ \A t \in Threads : asked[t] <= MaxAsks[t]
    /\ got \in [Threads -> Replies \cup {Nothing} \cup [type : {"plainReply"}]]
    /\ served \subseteq Requests
    /\ overlapped \in BOOLEAN /\ misread \in BOOLEAN /\ failed \in BOOLEAN
Types == EndTypes /\ WireTypes /\ CountTypes

LEMMA TypesImply == Types => TypeOK
<1> SUFFICES ASSUME Types PROVE TypeOK
  OBVIOUS
<1>1. Bytes(Asks \cup Answers \cup {Blank}) \subseteq Byte
  BY PackTypes DEF Bytes, Byte
<1>2. wire \in [Sides -> Seq(Byte)]
  <2>1. \A s \in Sides : wire[s] \in Seq(Byte)
    BY <1>1, SeqMonotonic DEF Types, WireTypes
  <2>2. QED
    BY <2>1 DEF Types, WireTypes
<1>3. pack \in [Ends -> Requests \cup Replies \cup {Blank, Nothing}]
  BY PackTypes DEF Types, EndTypes
<1>4. QED
  BY <1>2, <1>3 DEF Types, EndTypes, WireTypes, CountTypes, TypeOK

LEMMA TypesInit == Init => Types
<1> SUFFICES ASSUME Init PROVE Types
  OBVIOUS
<1>1. EndTypes
  BY DEF Init, EndTypes, PackRight, Stages, Sending, Receiving, Ends, SideOf, Headed, Sides
<1>2. WireTypes
  BY DEF Init, WireTypes
<1>3. CountTypes
  <2>1. \A t \in Threads : MaxAsks[t] \in Nat /\ asked[t] = 0
    BY LinkAssumption DEF Init
  <2>2. asked \in [Threads -> Nat] /\ \A t \in Threads : asked[t] <= MaxAsks[t]
    BY <2>1 DEF Init
  <2>3. QED
    BY <2>2 DEF Init, CountTypes
<1>4. QED
  BY <1>1, <1>2, <1>3 DEF Types

\* The pack whose payload comes first on a stream.
Key(m)     == [pack |-> m, part |-> "payload", half |-> 1]
Took(s, m) == Len(wire[s]) > 0 /\ wire[s][1] = Key(m) /\ Read(wire[s], wire'[s])

\* What a call of receiveBytes gives, and what it leaves.
LEMMA ReadFacts ==
    ASSUME Types, NEW x \in Ends, NEW k \in Reads(wire[SideOf(x)], size[x], FarOf(x) \notin open)
    PROVE  LET s == SideOf(x) bytes == First(wire[s], k) IN
           /\ s \in Sides /\ k \in 0..Len(wire[s])
           /\ bytes \in Seq(Bytes(Packs[s])) /\ Len(bytes) = k
           /\ \A part \in {"length", "header", "payload"} : Whole(bytes, part) =>
                 /\ k = 2 /\ bytes[1] = wire[s][1] /\ bytes[1].pack \in Packs[s]
                 /\ bytes[1] = [pack |-> bytes[1].pack, part |-> part, half |-> 1]
                 /\ part # "length" => bytes[1].pack \in Headed[s]
<1> DEFINE s == SideOf(x)
           bytes == First(wire[s], k)
<1>1. s \in Sides
  BY DEF SideOf, Sides
<1>2. k \in 0..Len(wire[s]) /\ wire[s] \in Seq(Bytes(Packs[s]))
  BY <1>1 DEF Reads, Types, EndTypes, WireTypes
<1>3. bytes \in Seq(Bytes(Packs[s])) /\ Len(bytes) = k /\ \A i \in 1..k : bytes[i] = wire[s][i]
  BY <1>2, FirstFacts
<1>4. ASSUME NEW part \in {"length", "header", "payload"}, Whole(bytes, part)
      PROVE  /\ k = 2 /\ bytes[1] = wire[s][1] /\ bytes[1].pack \in Packs[s]
             /\ bytes[1] = [pack |-> bytes[1].pack, part |-> part, half |-> 1]
             /\ part # "length" => bytes[1].pack \in Headed[s]
  <2> DEFINE p == bytes[1].pack
  <2>1. k = 2 /\ bytes = Part(p, part)
    BY <1>3, <1>4 DEF Whole
  <2>2. bytes[1] \in Bytes(Packs[s]) /\ bytes[1] = wire[s][1]
    BY <1>3, <2>1
  <2>3. p \in Packs[s]
    BY <2>2 DEF Bytes
  <2>4. /\ \A i \in 1..Len(Part(p, part)) :
              Part(p, part)[i] = [pack |-> p, part |-> part, half |-> i]
        /\ Len(Part(p, part)) = IF p = Blank /\ part # "length" THEN 0 ELSE 2
    <3> HIDE DEF p
    <3>1. QED
      BY <2>3, PartFacts
  <2>5. Len(Part(p, part)) = 2
    BY <1>3, <2>1
  <2>6. /\ bytes[1] = [pack |-> p, part |-> part, half |-> 1]
        /\ part # "length" => p # Blank
    <3>1. Part(p, part)[1] = [pack |-> p, part |-> part, half |-> 1]
      BY <2>4, <2>5
    <3>2. QED
      BY <2>1, <2>4, <2>5, <3>1
  <2>7. QED
    BY <1>1, <2>1, <2>2, <2>3, <2>5, <2>6, PackTypes DEF Packs, Headed
<1>5. QED
  BY <1>1, <1>2, <1>3, <1>4
-----------------------------------------------------------------------------
(* What a step of receiveFrom may come to.                                 *)

\* It goes on with the next part, the handler serves a request, a thread has its reply,
\* or it is the end of the exchange, or of the thread, or of the handler.
Goes(x) == \E stage \in {"header", "payload"}, n \in Nat, p \in Headed[SideOf(x)] \cup {Nothing} :
              Goto(x, stage, p, n) /\ got' = got /\ served' = served
Serves(x) == /\ x = Handler /\ got' = got
             /\ \E m \in Taken \cup {Nothing} :
                   /\ m \in Asks => Took("tracker", m)
                   /\ Goto(x, "sendLength", Reply(m), 2)
                   /\ served' = served \cup ({m} \cap Requests)
Answered(x) == /\ x \in Threads /\ Goto(x, "idle", Nothing, 2) /\ served' = served
               /\ \E r \in Answers \cup [type : {"plainReply"}] :
                     /\ r # Nothing /\ got' = [got EXCEPT ![x] = r]
                     /\ x \in Queriers => r.type = "queryReply" /\ Took("client", r)
Stops(x) == /\ served' = served
            /\ \/ /\ x = Handler /\ got' = got
                  /\ \E stage \in {"length", "gone"} : Goto(x, stage, Nothing, 2)
               \/ /\ x \in Threads /\ got' = [got EXCEPT ![x] = Nothing]
                  /\ \E stage \in {"idle", "dead"} :
                        Goto(x, stage, Nothing, 2) /\ (x \in Queriers => stage = "dead")
Comes(x) == Goes(x) \/ Serves(x) \/ Answered(x) \/ Stops(x)

\* The wires and the sides: bytes are taken off the front of a stream, or all of them.
Shrinks == /\ wire' \in [Sides -> Seq(Bytes(Asks \cup Answers \cup {Blank}))]
           /\ \A s \in Sides : Left(wire[s], wire'[s])
           /\ open' \subseteq open /\ failed' \in BOOLEAN

LEMMA LeftWire ==
    ASSUME Types, NEW s \in Sides, NEW k \in 0..Len(wire[s]), NEW left,
           left = [wire EXCEPT ![s] = Rest(@, k)]
    PROVE  /\ left \in [Sides -> Seq(Bytes(Asks \cup Answers \cup {Blank}))]
           /\ \A r \in Sides : Left(wire[r], left[r]) /\ Left(wire[r], << >>)
           /\ left[s] = Rest(wire[s], k)
<1>1. \A r \in Sides : wire[r] \in Seq(Bytes(Asks \cup Answers \cup {Blank}))
  BY DEF Types, WireTypes
<1>2. Rest(wire[s], k) \in Seq(Bytes(Asks \cup Answers \cup {Blank})) /\ Left(wire[s], Rest(wire[s], k))
  BY <1>1, RestFacts DEF Left
<1>3. left \in [Sides -> Seq(Bytes(Asks \cup Answers \cup {Blank}))] /\ left[s] = Rest(wire[s], k)
  BY <1>2 DEF Types, WireTypes
<1>4. \A r \in Sides : Left(wire[r], wire[r]) /\ Left(wire[r], << >>)
  BY <1>1, LeftFacts
<1>5. \A r \in Sides : r # s => left[r] = wire[r]
  BY DEF Types, WireTypes
<1>6. QED
  BY <1>2, <1>3, <1>4, <1>5

LEMMA EndsOfRead ==
    ASSUME Types, NEW x \in Ends, NEW left, served' = served,
           left \in [Sides -> Seq(Bytes(Asks \cup Answers \cup {Blank}))],
           \A s \in Sides : Left(wire[s], left[s]) /\ Left(wire[s], << >>),
           Error(x, left) \/ Throw(x, left)
    PROVE  Stops(x) /\ Shrinks
<1>1. << >> \in Seq(Bytes(Asks \cup Answers \cup {Blank}))
  OBVIOUS
<1>2. (wire' = left /\ open' = open) \/ (x = Handler /\ CloseTracker(left))
  <2>1. CASE Error(x, left)
    BY <2>1 DEF Error
  <2>2. CASE Throw(x, left)
    BY <2>2 DEF Throw
  <2>3. QED
    BY <2>1, <2>2
<1>3. /\ wire' \in [Sides -> Seq(Bytes(Asks \cup Answers \cup {Blank}))]
      /\ \A s \in Sides : Left(wire[s], wire'[s])
      /\ open' \subseteq open
  <2>1. CASE wire' = left /\ open' = open
    BY <2>1
  <2>2. CASE CloseTracker(left)
    <3>1. CASE wire' = [left EXCEPT !["tracker"] = << >>]
      BY <1>1, <2>2, <3>1 DEF CloseTracker
    <3>2. CASE wire' = [s \in Sides |-> << >>]
      BY <1>1, <2>2, <3>2 DEF CloseTracker
    <3>3. QED
      BY <2>2, <3>1, <3>2 DEF CloseTracker
  <2>3. QED
    BY <1>2, <2>1, <2>2
<1>4. failed' \in BOOLEAN
  BY DEF Error, Throw, Finish, Die, Types, CountTypes
<1>5. Stops(x)
  BY LinkAssumption DEF Error, Throw, Finish, Die, Stops, Ends
<1>6. QED
  BY <1>3, <1>4, <1>5 DEF Shrinks

LEMMA LengthComes ==
    ASSUME Types, NEW x \in Ends, NEW bytes, NEW left,
           left \in [Sides -> Seq(Bytes(Asks \cup Answers \cup {Blank}))],
           \A s \in Sides : Left(wire[s], left[s]) /\ Left(wire[s], << >>),
           ReceiveHeaderLength(x, bytes, left)
    PROVE  Comes(x) /\ Shrinks
<1>1. served' = served
  BY DEF ReceiveHeaderLength
<1>2. CASE Error(x, left) \/ Throw(x, left)
  BY <1>1, <1>2, EndsOfRead DEF Comes
<1>3. ASSUME NEW n \in HeaderLengths(bytes), Goto(x, "header", Nothing, n),
             wire' = left, UNCHANGED <<open, got, failed>>
      PROVE  Comes(x) /\ Shrinks
  <2>1. n \in Nat
    BY LinkAssumption DEF HeaderLengths
  <2>2. Goes(x)
    BY <1>1, <1>3, <2>1 DEF Goes
  <2>3. Shrinks
    BY <1>3 DEF Shrinks, Types, CountTypes
  <2>4. QED
    BY <2>2, <2>3 DEF Comes
<1>4. QED
  BY <1>2, <1>3 DEF ReceiveHeaderLength

LEMMA HeaderComes ==
    ASSUME Types, NEW x \in Ends, NEW bytes, NEW left,
           left \in [Sides -> Seq(Bytes(Asks \cup Answers \cup {Blank}))],
           \A s \in Sides : Left(wire[s], left[s]) /\ Left(wire[s], << >>),
           Whole(bytes, "header") => bytes[1].pack \in Headed[SideOf(x)],
           ReceiveHeader(x, bytes, left)
    PROVE  Comes(x) /\ Shrinks
<1>1. served' = served
  BY DEF ReceiveHeader
<1>2. CASE Error(x, left) \/ Throw(x, left)
  BY <1>1, <1>2, EndsOfRead DEF Comes
<1>3. ASSUME NEW h \in Headers(bytes), Goto(x, "payload", h.pack, h.size),
             wire' = left, UNCHANGED <<open, got, failed>>
      PROVE  Comes(x) /\ Shrinks
  <2>1. h.size \in Nat /\ h.pack \in Headed[SideOf(x)] \cup {Nothing}
    <3>1. CASE Whole(bytes, "header")
      BY <1>3, <3>1 DEF Headers
    <3>2. CASE ~Whole(bytes, "header") /\ bytes = << >>
      BY <1>3, <3>2 DEF Headers
    <3>3. CASE ~Whole(bytes, "header") /\ bytes # << >>
      BY <1>3, <3>3, LinkAssumption DEF Headers
    <3>4. QED
      BY <3>1, <3>2, <3>3
  <2>2. Goes(x)
    BY <1>1, <1>3, <2>1 DEF Goes
  <2>3. Shrinks
    BY <1>3 DEF Shrinks, Types, CountTypes
  <2>4. QED
    BY <2>2, <2>3 DEF Comes
<1>4. QED
  BY <1>2, <1>3 DEF ReceiveHeader

\* A message that is not the one that was sent, as each side may read it.
LooseAt(s) == [type : IF s = "client" THEN {"plainReply"} ELSE {"plain"}]

\* The messages of a payload: the one that was sent, or one without a client's name.
LEMMA MessageFacts ==
    ASSUME NEW s \in Sides, NEW p \in Headed[s] \cup {Nothing}, NEW bytes,
           NEW m \in Messages(p, bytes)
    PROVE  \/ m = Nothing
           \/ m \in LooseAt(s)
           \/ Whole(bytes, "payload") /\ m = bytes[1].pack
<1>1. CASE p = Nothing
  BY <1>1 DEF Messages
<1>2. CASE p \in Headed[s] /\ m \in [type : {p.type} \cap Loose]
  <2>1. m.type = p.type /\ m.type \in Loose /\ m \in [type : {m.type}]
    BY <1>2
  <2>2. p.type \in IF s = "client" THEN {"queryReply", "plainReply"} ELSE {"query", "plain"}
    BY <1>2, PackTypes DEF Headed, Requests, Replies
  <2>3. QED
    BY <2>1, <2>2 DEF Loose, LooseAt
<1>3. QED
  BY <1>1, <1>2 DEF Messages

LEMMA PayloadComes ==
    ASSUME Types, NEW x \in Ends, at[x] = "payload", NEW k \in 0..Len(wire[SideOf(x)]),
           NEW bytes, Len(bytes) = k, NEW left,
           left = [wire EXCEPT ![SideOf(x)] = Rest(@, k)],
           left \in [Sides -> Seq(Bytes(Asks \cup Answers \cup {Blank}))],
           left[SideOf(x)] = Rest(wire[SideOf(x)], k),
           \A s \in Sides : Left(wire[s], left[s]) /\ Left(wire[s], << >>),
           Whole(bytes, "payload") => /\ k = 2 /\ bytes[1] = wire[SideOf(x)][1]
                                      /\ bytes[1] = Key(bytes[1].pack)
                                      /\ bytes[1].pack \in Headed[SideOf(x)],
           ReceivePayload(x, bytes, left)
    PROVE  Comes(x) /\ Shrinks
<1> DEFINE s == SideOf(x)
<1>1. s \in Sides
  BY DEF SideOf, Sides
<1>2. pack[x] \in Headed[s] \cup {Nothing}
  BY DEF Types, EndTypes, PackRight, Receiving
<1>3. CASE Error(x, left) /\ UNCHANGED served
  BY <1>3, EndsOfRead DEF Comes
<1>4. ASSUME NEW m \in Messages(pack[x], bytes), wire' = left, UNCHANGED open
      PROVE  /\ m = Nothing \/ m \in LooseAt(s)
                \/ (Took(s, m) /\ m \in Headed[s])
  <2>1. CASE Whole(bytes, "payload") /\ m = bytes[1].pack
    <3>1. wire[s][1] = Key(m) /\ m \in Headed[s] /\ k \in 1..Len(wire[s])
      BY <2>1
    <3>2. Len(wire[s]) > 0
      BY <3>1
    <3>3. QED
      BY <1>4, <3>1, <3>2 DEF Took, Read
  <2>2. \/ m = Nothing
        \/ m \in LooseAt(s)
        \/ Whole(bytes, "payload") /\ m = bytes[1].pack
    <3> HIDE DEF s
    <3>1. QED
      BY <1>1, <1>2, MessageFacts
  <2>3. QED
    BY <2>1, <2>2
<1>5. ASSUME NEW m \in Messages(pack[x], bytes), wire' = left, UNCHANGED open,
             x = Handler, served' = served \cup ({m} \cap Requests),
             Goto(x, "sendLength", Reply(m), 2), UNCHANGED <<got, failed>>
      PROVE  Comes(x) /\ Shrinks
  <2>1. s = "tracker"
    BY <1>5 DEF SideOf
  <2>2. /\ m \in Taken \cup {Nothing}
        /\ m \in Asks => Took("tracker", m)
    <3>1. m \in [type : {"plain"}] => m \notin Asks
      BY BareIsNone, PackTypes
    <3>2. QED
      BY <1>4, <1>5, <2>1, <3>1, PackTypes DEF Taken, Headed, Sides, LooseAt
  <2>3. Serves(x)
    BY <1>5, <2>2 DEF Serves
  <2>4. Shrinks
    BY <1>5 DEF Shrinks, Types, CountTypes
  <2>5. QED
    BY <2>3, <2>4 DEF Comes
<1>6. ASSUME NEW m \in Messages(pack[x], bytes), wire' = left, UNCHANGED open,
             x # Handler, UNCHANGED served, Finish(x, Cast(x, m))
      PROVE  Comes(x) /\ Shrinks
  <2>1. s = "client" /\ x \in Threads
    BY <1>6 DEF SideOf, Ends
  <2>2. Shrinks
    BY <1>6 DEF Shrinks, Types, CountTypes, Finish
  <2>3. CASE Cast(x, m) = Nothing
    BY <1>6, <2>1, <2>2, <2>3 DEF Finish, Stops, Comes
  <2>4. CASE Cast(x, m) # Nothing
    <3>1. Cast(x, m) = m /\ m # Nothing /\ (x \in Queriers => m.type = "queryReply")
      BY <2>4 DEF Cast
    <3>2. m \in Answers \cup [type : {"plainReply"}]
      BY <1>4, <1>6, <2>1, <3>1 DEF Headed, Sides, LooseAt
    <3>3. x \in Queriers => Took("client", m)
      BY <1>4, <1>6, <2>1, <3>1 DEF LooseAt
    <3>4. Goto(x, "idle", Nothing, 2) /\ got' = [got EXCEPT ![x] = m]
      BY <1>6, <3>1 DEF Finish
    <3>5. QED
      BY <1>6, <2>1, <2>2, <3>1, <3>2, <3>3, <3>4 DEF Answered, Comes
  <2>5. QED
    BY <2>3, <2>4
<1>7. QED
  BY <1>3, <1>5, <1>6 DEF ReceivePayload

LEMMA ReceiveComes ==
    ASSUME Types, NEW x \in Ends, Receive(x)
    PROVE  /\ Comes(x) /\ Shrinks /\ at[x] \in Receiving
           /\ UNCHANGED <<asked, overlapped>> /\ misread' \in BOOLEAN
<1> DEFINE s == SideOf(x)
<1>1. PICK k \in Reads(wire[s], size[x], FarOf(x) \notin open) :
         LET bytes == First(wire[s], k)
             left  == [wire EXCEPT ![s] = Rest(@, k)]
         IN /\ misread' = (misread \/ k < size[x])
            /\ \/ ReceiveHeaderLength(x, bytes, left) \/ ReceiveHeader(x, bytes, left)
               \/ ReceivePayload(x, bytes, left)
  BY DEF Receive
<1> DEFINE bytes == First(wire[s], k)
           left  == [wire EXCEPT ![s] = Rest(@, k)]
<1>2. /\ s \in Sides /\ k \in 0..Len(wire[s]) /\ Len(bytes) = k
      /\ \A part \in {"length", "header", "payload"} : Whole(bytes, part) =>
            /\ k = 2 /\ bytes[1] = wire[s][1]
            /\ bytes[1] = [pack |-> bytes[1].pack, part |-> part, half |-> 1]
            /\ part # "length" => bytes[1].pack \in Headed[s]
  BY ReadFacts
<1>3. /\ left \in [Sides -> Seq(Bytes(Asks \cup Answers \cup {Blank}))]
      /\ \A r \in Sides : Left(wire[r], left[r]) /\ Left(wire[r], << >>)
      /\ left[s] = Rest(wire[s], k)
  BY <1>2, LeftWire
<1>4. PICK b, l : b = bytes /\ l = left
  OBVIOUS
<1>5. /\ Whole(b, "header") => b[1].pack \in Headed[SideOf(x)]
      /\ Whole(b, "payload") => /\ k = 2 /\ b[1] = wire[SideOf(x)][1]
                                /\ b[1] = Key(b[1].pack) /\ b[1].pack \in Headed[SideOf(x)]
  BY <1>2, <1>4 DEF Key
<1>6. /\ l = [wire EXCEPT ![SideOf(x)] = Rest(@, k)] /\ l[SideOf(x)] = Rest(wire[SideOf(x)], k)
      /\ l \in [Sides -> Seq(Bytes(Asks \cup Answers \cup {Blank}))]
      /\ \A r \in Sides : Left(wire[r], l[r]) /\ Left(wire[r], << >>)
      /\ k \in 0..Len(wire[SideOf(x)]) /\ Len(b) = k
  BY <1>2, <1>3, <1>4
<1>7. ReceiveHeaderLength(x, b, l) \/ ReceiveHeader(x, b, l) \/ ReceivePayload(x, b, l)
  BY <1>1, <1>4
<1> HIDE DEF s, bytes, left
<1>8. ASSUME ReceiveHeaderLength(x, b, l) PROVE Comes(x) /\ Shrinks
  BY <1>6, <1>8, LengthComes
<1>9. ASSUME ReceiveHeader(x, b, l) PROVE Comes(x) /\ Shrinks
  BY <1>5, <1>6, <1>9, HeaderComes
<1>10. ASSUME ReceivePayload(x, b, l) PROVE Comes(x) /\ Shrinks
  <2>1. at[x] = "payload"
    BY <1>10 DEF ReceivePayload
  <2>2. QED
    BY <1>5, <1>6, <1>10, <2>1, PayloadComes
<1>11. at[x] \in Receiving
  BY <1>7 DEF ReceiveHeaderLength, ReceiveHeader, ReceivePayload, Receiving
<1>12. misread' \in BOOLEAN
  BY <1>1 DEF Types, CountTypes
<1>13. QED
  BY <1>7, <1>8, <1>9, <1>10, <1>11, <1>12 DEF Receive

LEMMA ResetComes ==
    ASSUME Types, NEW x \in Ends, Reset(x)
    PROVE  /\ Stops(x) /\ Shrinks /\ at[x] \in Sending \cup Receiving
           /\ UNCHANGED <<asked, overlapped>> /\ misread' \in BOOLEAN
<1>1. /\ wire \in [Sides -> Seq(Bytes(Asks \cup Answers \cup {Blank}))]
      /\ \A s \in Sides : Left(wire[s], wire[s]) /\ Left(wire[s], << >>)
  BY LeftFacts DEF Types, WireTypes
<1>2. Throw(x, wire) /\ served' = served
  BY DEF Reset
<1>3. QED
  BY <1>1, <1>2, EndsOfRead DEF Reset
-----------------------------------------------------------------------------
(* Every step keeps the types.                                             *)

LEMMA WireShrinks ==
    ASSUME Types, Shrinks
    PROVE  WireTypes'
<1>1. \A s \in Sides : wire'[s] \in Seq(Bytes(Packs[s]))
  BY LeftFacts DEF Types, WireTypes, Shrinks
<1>2. QED
  BY <1>1 DEF Types, WireTypes, Shrinks

\* An end that goes on with a pack that is right for where it goes.
LEMMA GotoTypes ==
    ASSUME Types, NEW x \in Ends, NEW stage \in Stages, NEW n \in Nat,
           NEW p \in Asks \cup Answers \cup {Blank, Nothing}, Goto(x, stage, p, n),
           \A t \in Threads : t # x => asked'[t] = asked[t],
           stage \in Sending => p \in IF x = Handler THEN Packs["client"] ELSE {Request(x, asked'[x])},
           stage \in Receiving => p \in Headed[SideOf(x)] \cup {Nothing}
    PROVE  EndTypes'
<1>1. at' \in [Ends -> Stages] /\ size' \in [Ends -> Nat]
      /\ pack' \in [Ends -> Asks \cup Answers \cup {Blank, Nothing}]
  BY DEF Types, EndTypes, Goto
<1>2. PackRight(x)'
  <2>1. at'[x] = stage /\ pack'[x] = p
    BY DEF Types, EndTypes, Goto
  <2>2. QED
    BY <2>1 DEF PackRight
<1>3. ASSUME NEW y \in Ends, y # x PROVE PackRight(y)'
  <2>1. at'[y] = at[y] /\ pack'[y] = pack[y] /\ PackRight(y)
    BY <1>3 DEF Types, EndTypes, Goto
  <2>2. y # Handler => asked'[y] = asked[y]
    BY <1>3 DEF Ends
  <2>3. QED
    BY <2>1, <2>2 DEF PackRight
<1>4. QED
  BY <1>1, <1>2, <1>3 DEF EndTypes

LEMMA ComesTypes ==
    ASSUME Types, NEW x \in Ends, Comes(x), Shrinks, UNCHANGED <<asked, overlapped>>,
           misread' \in BOOLEAN
    PROVE  Types'
<1>1. WireTypes'
  BY WireShrinks
<1>2. CASE Goes(x)
  <2>1. PICK stage \in {"header", "payload"}, n \in Nat, p \in Headed[SideOf(x)] \cup {Nothing} :
           Goto(x, stage, p, n)
    BY <1>2 DEF Goes
  <2>2. p \in Asks \cup Answers \cup {Blank, Nothing}
    BY DEF Headed, SideOf, Sides
  <2>3. stage \in Stages /\ stage \notin Sending
    BY DEF Stages, Receiving, Sending
  <2>4. EndTypes'
    BY <2>1, <2>2, <2>3, GotoTypes
  <2>5. CountTypes'
    BY <1>2 DEF Goes, Shrinks, Types, CountTypes
  <2>6. QED
    BY <1>1, <2>4, <2>5 DEF Types
<1>3. CASE Serves(x)
  <2>1. PICK m \in Taken \cup {Nothing} :
           Goto(x, "sendLength", Reply(m), 2) /\ served' = served \cup ({m} \cap Requests)
    BY <1>3 DEF Serves
  <2>2. Reply(m) \in Answers \cup {Blank} /\ Reply(m) \in Packs["client"]
    BY DEF Reply, Answers, Packs, Sides
  <2>3. "sendLength" \in Stages /\ "sendLength" \notin Receiving /\ 2 \in Nat /\ x = Handler
    BY <1>3 DEF Stages, Receiving, Sending, Serves
  <2>4. EndTypes'
    BY <2>1, <2>2, <2>3, GotoTypes
  <2>5. CountTypes'
    BY <1>3, <2>1 DEF Serves, Shrinks, Types, CountTypes
  <2>6. QED
    BY <1>1, <2>4, <2>5 DEF Types
<1>4. ASSUME NEW stage \in {"length", "gone", "idle", "dead"}, Goto(x, stage, Nothing, 2)
      PROVE  EndTypes'
  <2>1. stage \in Stages /\ stage \notin Sending /\ 2 \in Nat
    BY DEF Stages, Receiving, Sending
  <2>2. QED
    BY <1>4, <2>1, GotoTypes
<1>5. CASE Answered(x)
  <2>1. EndTypes'
    BY <1>4, <1>5 DEF Answered
  <2>2. PICK r \in Answers \cup [type : {"plainReply"}] : got' = [got EXCEPT ![x] = r]
    BY <1>5 DEF Answered
  <2>3. r \in Replies \cup [type : {"plainReply"}]
    BY PackTypes
  <2>4. CountTypes'
    BY <1>5, <2>2, <2>3 DEF Answered, Shrinks, Types, CountTypes
  <2>5. QED
    BY <1>1, <2>1, <2>4 DEF Types
<1>6. CASE Stops(x)
  <2>1. EndTypes'
    BY <1>4, <1>6 DEF Stops
  <2>2. CountTypes'
    BY <1>6 DEF Stops, Shrinks, Types, CountTypes
  <2>3. QED
    BY <1>1, <2>1, <2>2 DEF Types
<1>7. QED
  BY <1>2, <1>3, <1>5, <1>6 DEF Comes

LEMMA TypesAsk == ASSUME Types, NEW t \in Threads, Ask(t) PROVE Types'
<1>1. t \in Ends /\ t # Handler /\ asked[t] \in Nat /\ MaxAsks[t] \in Nat
  BY LinkAssumption DEF Ends, Types, CountTypes
<1>2. Request(t, asked[t] + 1) \in Asks /\ asked'[t] = asked[t] + 1
  BY <1>1 DEF Asks, Ask, Types, CountTypes
<1>3. "sendLength" \in Stages /\ "sendLength" \notin Receiving /\ 2 \in Nat
  BY DEF Stages, Receiving, Sending
<1>4. Goto(t, "sendLength", Request(t, asked[t] + 1), 2)
      /\ \A u \in Threads : u # t => asked'[u] = asked[u]
  BY DEF Ask, Types, CountTypes
<1>5. EndTypes'
  BY <1>1, <1>2, <1>3, <1>4, GotoTypes
<1>6. asked' \in [Threads -> Nat] /\ \A u \in Threads : asked'[u] <= MaxAsks[u]
  BY <1>1, <1>4 DEF Ask, Types, CountTypes
<1>7. CountTypes' /\ WireTypes'
  BY <1>6 DEF Ask, Types, CountTypes, WireTypes
<1>8. QED
  BY <1>5, <1>7 DEF Types

\* What sendBytes appends.
Appends(x) == \A s \in Sides :
    wire'[s] = wire[s] \/ (s = FarOf(x) /\ wire'[s] = wire[s] \o Part(pack[x], PartSent[at[x]]))

LEMMA SendFacts ==
    ASSUME Types, NEW x \in Ends, Send(x)
    PROVE  /\ FarOf(x) \in Sides /\ pack[x] \in Packs[FarOf(x)]
           /\ PartSent[at[x]] \in {"length", "header", "payload"}
           /\ After[at[x]] \in {"sendHeader", "sendPayload", "length"}
           /\ wire[FarOf(x)] \in Seq(Bytes(Packs[FarOf(x)]))
           /\ Part(pack[x], PartSent[at[x]]) \in Seq(Bytes(Packs[FarOf(x)]))
           /\ Appends(x)
<1>1. FarOf(x) \in Sides /\ at[x] \in Sending
  BY DEF FarOf, Sides, Send
<1>2. pack[x] \in Packs[FarOf(x)]
  <2>1. CASE x = Handler
    BY <1>1, <2>1 DEF Types, EndTypes, PackRight, FarOf
  <2>2. CASE x # Handler
    <3>1. pack[x] = Request(x, asked[x]) /\ x \in Threads /\ asked[x] \in Nat
      BY <1>1, <2>2 DEF Types, EndTypes, PackRight, Ends, CountTypes
    <3>2. QED
      BY <2>2, <3>1 DEF Asks, Packs, Sides, FarOf
  <2>3. QED
    BY <2>1, <2>2
<1>3. /\ PartSent[at[x]] \in {"length", "header", "payload"}
      /\ After[at[x]] \in {"sendHeader", "sendPayload", "length"}
  BY <1>1 DEF PartSent, After, Sending
<1>4. wire[FarOf(x)] \in Seq(Bytes(Packs[FarOf(x)]))
  BY <1>1 DEF Types, WireTypes
<1>5. Part(pack[x], PartSent[at[x]]) \in Seq(Bytes(Packs[FarOf(x)]))
  BY <1>2, <1>3, PartFacts
<1>6. QED
  BY <1>1, <1>2, <1>3, <1>4, <1>5 DEF Send, Types, WireTypes, Appends

LEMMA TypesSend == ASSUME Types, NEW x \in Ends, Send(x) PROVE Types'
<1>1. /\ FarOf(x) \in Sides /\ pack[x] \in Packs[FarOf(x)]
      /\ After[at[x]] \in {"sendHeader", "sendPayload", "length"} /\ at[x] \in Sending
      /\ Part(pack[x], PartSent[at[x]]) \in Seq(Bytes(Packs[FarOf(x)]))
  BY SendFacts DEF Send
<1>2. EndTypes'
  <2>1. After[at[x]] \in Stages /\ 2 \in Nat
    BY <1>1 DEF Stages, Sending, Receiving
  <2>2. CASE at[x] = "sendPayload"
    <3>1. After[at[x]] = "length" /\ "length" \notin Sending
      BY <2>2 DEF After, Sending
    <3>2. Goto(x, After[at[x]], Nothing, 2) /\ asked' = asked
      BY <2>2 DEF Send
    <3>3. QED
      BY <2>1, <3>1, <3>2, GotoTypes
  <2>3. CASE at[x] # "sendPayload"
    <3>1. After[at[x]] \in Sending /\ After[at[x]] \notin Receiving
      BY <1>1, <2>3 DEF After, Sending, Receiving
    <3>2. Goto(x, After[at[x]], pack[x], 2) /\ asked' = asked
      BY <2>3 DEF Send
    <3>3. pack[x] \in IF x = Handler THEN Packs["client"] ELSE {Request(x, asked'[x])}
      BY <1>1, <3>2 DEF Types, EndTypes, PackRight
    <3>4. pack[x] \in Asks \cup Answers \cup {Blank, Nothing}
      BY DEF Types, EndTypes
    <3>5. QED
      BY <2>1, <3>1, <3>2, <3>3, <3>4, GotoTypes
  <2>4. QED
    BY <2>2, <2>3
<1>3. WireTypes'
  <2>1. \A s \in Sides : wire'[s] \in Seq(Bytes(Packs[s]))
    <3>1. wire[FarOf(x)] \in Seq(Bytes(Packs[FarOf(x)]))
      BY SendFacts
    <3>2. wire[FarOf(x)] \o Part(pack[x], PartSent[at[x]]) \in Seq(Bytes(Packs[FarOf(x)]))
      BY <1>1, <3>1, ConcatProperties
    <3>3. Appends(x)
      BY SendFacts
    <3>4. QED
      BY <3>2, <3>3 DEF Types, WireTypes, Appends
  <2>2. \A s \in Sides : Bytes(Packs[s]) \subseteq Bytes(Asks \cup Answers \cup {Blank})
    BY DEF Bytes, Packs
  <2>3. \A s \in Sides : wire'[s] \in Seq(Bytes(Asks \cup Answers \cup {Blank}))
    BY <2>1, <2>2, SeqMonotonic
  <2>4. wire' = [s \in Sides |-> wire'[s]]
    BY DEF Send, Types, WireTypes
  <2>5. QED
    BY <2>1, <2>3, <2>4 DEF Send, Types, WireTypes
<1>4. CountTypes'
  BY DEF Send, Types, CountTypes, histVars
<1>5. QED
  BY <1>2, <1>3, <1>4 DEF Types

\* The end of either process empties at most a stream.
LEMMA StopFacts ==
    ASSUME Types, Stop
    PROVE  Shrinks /\ Goto(Handler, "gone", Nothing, 2)
<1>1. /\ wire \in [Sides -> Seq(Bytes(Asks \cup Answers \cup {Blank}))]
      /\ \A s \in Sides : Left(wire[s], wire[s]) /\ Left(wire[s], << >>)
  BY LeftFacts DEF Types, WireTypes
<1>2. << >> \in Seq(Bytes(Asks \cup Answers \cup {Blank}))
  OBVIOUS
<1>3. CASE wire' = [wire EXCEPT !["tracker"] = << >>]
  BY <1>1, <1>2, <1>3 DEF Stop, CloseTracker, Shrinks, Types, CountTypes, histVars
<1>4. CASE wire' = [s \in Sides |-> << >>]
  BY <1>1, <1>2, <1>4 DEF Stop, CloseTracker, Shrinks, Types, CountTypes, histVars
<1>5. QED
  BY <1>3, <1>4 DEF Stop, CloseTracker

LEMMA TypesStep == Types /\ [Next]_vars => Types'
<1> SUFFICES ASSUME Types, [Next]_vars PROVE Types'
  OBVIOUS
<1>1. ASSUME NEW t \in Threads, Ask(t) PROVE Types'
  BY <1>1, TypesAsk
<1>2. ASSUME NEW x \in Ends, Send(x) PROVE Types'
  BY <1>2, TypesSend
<1>3. ASSUME NEW x \in Ends, Receive(x) PROVE Types'
  BY <1>3, ReceiveComes, ComesTypes
<1>4. ASSUME NEW x \in Ends, Reset(x) PROVE Types'
  BY <1>4, ResetComes, ComesTypes DEF Comes
<1>5. CASE Stop
  <2>1. Shrinks /\ Goto(Handler, "gone", Nothing, 2) /\ asked' = asked
    BY <1>5, StopFacts DEF Stop
  <2>2. "gone" \in Stages \ (Sending \cup Receiving) /\ 2 \in Nat /\ Handler \in Ends
    BY DEF Stages, Sending, Receiving, Ends
  <2>3. EndTypes'
    BY <2>1, <2>2, GotoTypes
  <2>4. CountTypes'
    BY <1>5 DEF Stop, Types, CountTypes, histVars
  <2>5. QED
    BY <2>1, <2>3, <2>4, WireShrinks DEF Types
<1>6. CASE Exit
  <2>1. at' \in [Ends -> Stages] /\ \A x \in Ends : at'[x] = IF x = Handler THEN at[x] ELSE "dead"
    BY <1>6 DEF Exit, Types, EndTypes, Stages
  <2>2. "dead" \notin Sending \cup Receiving
    BY DEF Sending, Receiving
  <2>3. ASSUME NEW x \in Ends PROVE PackRight(x)'
    BY <1>6, <2>1, <2>2 DEF Exit, Types, EndTypes, PackRight
  <2>4. EndTypes'
    BY <1>6, <2>1, <2>3 DEF Exit, Types, EndTypes
  <2>5. WireTypes' /\ CountTypes'
    BY <1>6 DEF Exit, Types, WireTypes, CountTypes, histVars
  <2>6. QED
    BY <2>4, <2>5 DEF Types
<1>7. CASE UNCHANGED vars
  <2>1. EndTypes'
    BY <1>7 DEF vars, Types, EndTypes, PackRight
  <2>2. QED
    BY <1>7, <2>1 DEF vars, histVars, Types, WireTypes, CountTypes
<1>8. QED
  BY <1>1, <1>2, <1>3, <1>4, <1>5, <1>6, <1>7 DEF Next, Step

\* What each end sends or reads, what is on its way and what an exchange has given is
\* what it should be, however many threads share the connection and however the reads
\* cut what was sent.
THEOREM TypesAlways == Spec => []TypeOK
<1>1. Spec => []Types
  BY TypesInit, TypesStep, PTL DEF Spec
<1>2. QED
  BY <1>1, TypesImply, PTL
-----------------------------------------------------------------------------
(* Nothing is ahead of the requests that were made.                        *)

Holds(w, key) == \E i \in 1..Len(w) : w[i] = key
Once(w, key)  == \A i, j \in 1..Len(w) : w[i] = key /\ w[j] = key => i = j

LEMMA HoldsLeft ==
    ASSUME NEW S, NEW w \in Seq(S), NEW v, Left(w, v), NEW key
    PROVE  (Holds(v, key) => Holds(w, key)) /\ (Once(w, key) => Once(v, key))
<1>1. PICK k \in 0..Len(w) : v = Rest(w, k)
  BY DEF Left
<1>2. Len(v) = Len(w) - k /\ \A i \in 1..(Len(w) - k) : v[i] = w[i + k]
  BY <1>1, RestFacts
<1>3. \A i \in 1..Len(v) : i + k \in 1..Len(w) /\ v[i] = w[i + k]
  BY <1>2
<1>4. Holds(v, key) => Holds(w, key)
  BY <1>3 DEF Holds
<1>5. ASSUME Once(w, key), NEW i \in 1..Len(v), NEW j \in 1..Len(v), v[i] = key, v[j] = key
      PROVE  i = j
  <2>1. i + k = j + k
    BY <1>3, <1>5 DEF Once
  <2>2. QED
    BY <2>1
<1>6. QED
  BY <1>4, <1>5 DEF Once

LEMMA HoldsRead ==
    ASSUME NEW S, NEW w \in Seq(S), NEW v, Read(w, v), Len(w) > 0, Once(w, w[1])
    PROVE  ~Holds(v, w[1])
<1>1. PICK k \in 1..Len(w) : v = Rest(w, k)
  BY DEF Read
<1>2. k \in 0..Len(w)
  OBVIOUS
<1>3. Len(v) = Len(w) - k /\ \A i \in 1..(Len(w) - k) : v[i] = w[i + k]
  BY <1>1, <1>2, RestFacts
<1>4. \A i \in 1..Len(v) : i + k \in 1..Len(w) /\ i + k # 1 /\ v[i] = w[i + k]
  BY <1>3
<1>5. QED
  BY <1>4 DEF Holds, Once

LEMMA HoldsConcat ==
    ASSUME NEW S, NEW w \in Seq(S), NEW u \in Seq(S), NEW key
    PROVE  /\ Holds(w \o u, key) => Holds(w, key) \/ Holds(u, key)
           /\ Once(w, key) /\ ~Holds(u, key) => Once(w \o u, key)
           /\ ~Holds(w, key) /\ Once(u, key) => Once(w \o u, key)
<1>1. /\ Len(w \o u) = Len(w) + Len(u) /\ Len(w) \in Nat /\ Len(u) \in Nat
      /\ \A i \in 1..(Len(w) + Len(u)) : (w \o u)[i] = IF i <= Len(w) THEN w[i] ELSE u[i - Len(w)]
  BY ConcatProperties
<1>2. \A i \in 1..Len(w \o u) :
         \/ i \in 1..Len(w) /\ (w \o u)[i] = w[i]
         \/ i - Len(w) \in 1..Len(u) /\ (w \o u)[i] = u[i - Len(w)]
  BY <1>1
<1>3. Holds(w \o u, key) => Holds(w, key) \/ Holds(u, key)
  BY <1>2 DEF Holds
<1>4. ASSUME NEW i \in 1..Len(w \o u), NEW j \in 1..Len(w \o u),
             (w \o u)[i] = key, (w \o u)[j] = key,
             \/ Once(w, key) /\ ~Holds(u, key)
             \/ ~Holds(w, key) /\ Once(u, key)
      PROVE  i = j
  <2>1. CASE Once(w, key) /\ ~Holds(u, key)
    <3>1. i \in 1..Len(w) /\ j \in 1..Len(w) /\ w[i] = key /\ w[j] = key
      BY <1>2, <1>4, <2>1 DEF Holds
    <3>2. QED
      BY <2>1, <3>1 DEF Once
  <2>2. CASE ~Holds(w, key) /\ Once(u, key)
    <3>1. /\ i - Len(w) \in 1..Len(u) /\ j - Len(w) \in 1..Len(u)
          /\ u[i - Len(w)] = key /\ u[j - Len(w)] = key
      BY <1>2, <1>4, <2>2 DEF Holds
    <3>2. i - Len(w) = j - Len(w)
      BY <2>2, <3>1 DEF Once
    <3>3. QED
      BY <1>1, <3>2
  <2>3. QED
    BY <1>4, <2>1, <2>2
<1>5. QED
  BY <1>3, <1>4 DEF Once

LEMMA HoldsPart ==
    ASSUME NEW P, NEW p \in P, NEW part \in {"length", "header", "payload"}, NEW m
    PROVE  /\ Holds(Part(p, part), Key(m)) => part = "payload" /\ p = m
           /\ Once(Part(p, part), Key(m))
<1>1. \A i \in 1..Len(Part(p, part)) : Part(p, part)[i] = [pack |-> p, part |-> part, half |-> i]
  BY PartFacts
<1>2. \A i \in 1..Len(Part(p, part)) :
         Part(p, part)[i] = Key(m) => i = 1 /\ part = "payload" /\ p = m
  <2>1. ASSUME NEW i, [pack |-> p, part |-> part, half |-> i] = Key(m)
        PROVE  i = 1 /\ part = "payload" /\ p = m
    <3>1. /\ [pack |-> p, part |-> part, half |-> i].half = Key(m).half
          /\ [pack |-> p, part |-> part, half |-> i].part = Key(m).part
          /\ [pack |-> p, part |-> part, half |-> i].pack = Key(m).pack
      BY <2>1
    <3>2. QED
      BY <3>1 DEF Key
  <2>2. QED
    BY <1>1, <2>1
<1>3. QED
  BY <1>2 DEF Holds, Once

\* The requests that were processed, and those on their way, were made.
InPast(m) == m.n <= asked[m.from]
NoneAhead == \A m \in served : InPast(m)
Past      == NoneAhead /\ \A b : Holds(wire["tracker"], b) => InPast(b.pack)

LEMMA WireAsks ==
    ASSUME Types, NEW b, Holds(wire["tracker"], b)
    PROVE  b.pack \in Requests /\ b.pack.n \in Nat /\ b.pack.from \in Threads
<1>1. wire["tracker"] \in Seq(Bytes(Asks))
  BY DEF Types, WireTypes, Packs, Sides
<1>2. b \in Bytes(Asks)
  BY <1>1 DEF Holds
<1>3. b.pack \in Requests
  BY <1>2, PackTypes DEF Bytes
<1>4. QED
  BY <1>3 DEF Requests

LEMMA PastShrinks ==
    ASSUME Types, Past, Shrinks, asked' = asked, NoneAhead'
    PROVE  Past'
<1>1. wire["tracker"] \in Seq(Bytes(Packs["tracker"])) /\ Left(wire["tracker"], wire'["tracker"])
  BY DEF Types, WireTypes, Shrinks, Sides
<1>2. \A b : Holds(wire'["tracker"], b) => Holds(wire["tracker"], b)
  BY <1>1, HoldsLeft
<1>3. QED
  BY <1>2 DEF Past, InPast

LEMMA PastStep == ASSUME Types, Past, [Next]_vars PROVE Past'
<1>1. CASE UNCHANGED vars
  BY <1>1 DEF vars, histVars, Past, NoneAhead, InPast
<1>2. CASE Stop
  BY <1>2, StopFacts, PastShrinks DEF Stop, histVars, Past, NoneAhead, InPast
<1>3. CASE Exit
  BY <1>3 DEF Exit, histVars, Past, NoneAhead, InPast
<1>4. ASSUME NEW t \in Threads, Ask(t) PROVE Past'
  <2>1. /\ wire' = wire /\ served' = served
        /\ \A u \in Threads : asked[u] \in Nat /\ asked'[u] >= asked[u]
    BY <1>4 DEF Ask, Types, CountTypes
  <2>2. ASSUME NEW m, m.n \in Nat, m.from \in Threads, InPast(m) PROVE InPast(m)'
    <3>1. PICK u \in Threads : u = m.from
      BY <2>2
    <3>2. m.n <= asked[u] /\ asked'[u] \in Nat
      BY <1>4, <2>2, <3>1 DEF InPast, Ask, Types, CountTypes
    <3>3. QED
      BY <2>1, <2>2, <3>1, <3>2 DEF InPast
  <2>3. \A m \in served : m.n \in Nat /\ m.from \in Threads
    BY DEF Types, CountTypes, Requests
  <2>4. QED
    BY <2>1, <2>2, <2>3, WireAsks DEF Past, NoneAhead
<1>5. ASSUME NEW x \in Ends, Send(x) PROVE Past'
  <2>1. NoneAhead' /\ asked' = asked
    BY <1>5 DEF Send, histVars, Past, NoneAhead, InPast
  <2>2. CASE wire'["tracker"] = wire["tracker"]
    BY <2>1, <2>2 DEF Past, InPast
  <2>3. CASE wire'["tracker"] # wire["tracker"]
    <3>1. PICK part \in {"length", "header", "payload"} : part = PartSent[at[x]]
      BY <1>5, SendFacts
    <3>2. /\ "tracker" = FarOf(x) /\ wire'["tracker"] = wire["tracker"] \o Part(pack[x], part)
          /\ wire["tracker"] \in Seq(Bytes(Packs["tracker"]))
          /\ Part(pack[x], part) \in Seq(Bytes(Packs["tracker"]))
      <4>1. "tracker" \in Sides
        BY DEF Sides
      <4>2. QED
        BY <1>5, <2>3, <3>1, <4>1, SendFacts DEF Appends
    <3>3. x \in Threads /\ pack[x] = Request(x, asked[x]) /\ at[x] \in Sending
      BY <1>5, <3>2 DEF FarOf, Send, Types, EndTypes, PackRight, Ends
    <3>4. InPast(pack[x])
      BY <3>3 DEF InPast, Request, Types, CountTypes
    <3>5. ASSUME NEW b, Holds(wire'["tracker"], b) PROVE InPast(b.pack)
      <4>1. Holds(wire["tracker"], b) \/ Holds(Part(pack[x], part), b)
        BY <3>2, <3>5, HoldsConcat
      <4>2. Holds(Part(pack[x], part), b) => b.pack = pack[x]
        <5>1. \A P : pack[x] \in P => \A i \in 1..Len(Part(pack[x], part)) :
                 Part(pack[x], part)[i] = [pack |-> pack[x], part |-> part, half |-> i]
          BY <3>1, PartFacts
        <5>2. pack[x] \in {pack[x]}
          OBVIOUS
        <5>3. ASSUME NEW i \in 1..Len(Part(pack[x], part)), Part(pack[x], part)[i] = b
              PROVE  b.pack = pack[x]
          <6>1. b = [pack |-> pack[x], part |-> part, half |-> i]
            BY <5>1, <5>2, <5>3
          <6>2. QED
            BY <6>1
        <5>4. QED
          BY <5>3 DEF Holds
      <4>3. QED
        BY <3>4, <4>1, <4>2 DEF Past
    <3>6. QED
      BY <2>1, <3>5 DEF Past, InPast
  <2>4. QED
    BY <2>2, <2>3
<1>6. ASSUME NEW x \in Ends, Receive(x) PROVE Past'
  <2>1. Comes(x) /\ Shrinks /\ asked' = asked
    BY <1>6, ReceiveComes
  <2>2. NoneAhead'
    <3>1. CASE served' = served
      BY <2>1, <3>1 DEF Past, NoneAhead, InPast
    <3>2. CASE Serves(x)
      <4>1. PICK m \in Taken \cup {Nothing} : /\ m \in Asks => Took("tracker", m)
                                             /\ served' = served \cup ({m} \cap Requests)
        BY <3>2 DEF Serves
      <4>2. m \in Requests => InPast(m)
        <5>1. m \in Requests => m \in Asks
          BY BareIsNone, PacksAssumption DEF Taken
        <5>2. m \in Asks => Holds(wire["tracker"], Key(m)) /\ Key(m).pack = m
          <6>1. wire["tracker"] \in Seq(Bytes(Packs["tracker"]))
            BY DEF Types, WireTypes, Sides
          <6>2. QED
            BY <4>1, <6>1 DEF Took, Holds, Key
        <5>3. QED
          BY <5>1, <5>2 DEF Past
      <4>3. QED
        BY <2>1, <4>1, <4>2 DEF Past, NoneAhead, InPast
    <3>3. QED
      BY <2>1, <3>1, <3>2 DEF Comes, Goes, Answered, Stops
  <2>3. QED
    BY <2>1, <2>2, PastShrinks
<1>7. ASSUME NEW x \in Ends, Reset(x) PROVE Past'
  <2>1. Stops(x) /\ Shrinks /\ asked' = asked
    BY <1>7, ResetComes
  <2>2. NoneAhead'
    BY <2>1 DEF Stops, Past, NoneAhead, InPast
  <2>3. QED
    BY <2>1, <2>2, PastShrinks
<1>8. QED
  BY <1>1, <1>2, <1>3, <1>4, <1>5, <1>6, <1>7 DEF Next, Step
-----------------------------------------------------------------------------
(* How much each end is about to read.                                     *)

\* A read of a length or of a header asks for something.
Sized == \A x \in Ends : /\ at[x] = "length" => size[x] = 2
                         /\ at[x] = "header" => size[x] > 0

LEMMA GotoMoves ==
    ASSUME Types, NEW x \in Ends, NEW stage, NEW p, NEW n, Goto(x, stage, p, n)
    PROVE  /\ at'[x] = stage /\ pack'[x] = p /\ size'[x] = n
           /\ \A y \in Ends : y # x => at'[y] = at[y] /\ pack'[y] = pack[y] /\ size'[y] = size[y]
BY DEF Goto, Types, EndTypes

LEMMA ReceiveGoes ==
    ASSUME Types, NEW x \in Ends, Receive(x)
    PROVE  \E stage, p, n : /\ n \in Nat /\ Goto(x, stage, p, n) /\ overlapped' = overlapped
                            /\ stage = "length" => n = 2
                            /\ stage = "header" => n > 0
<1>1. PICK bytes, left : ReceiveHeaderLength(x, bytes, left) \/ ReceiveHeader(x, bytes, left)
                            \/ ReceivePayload(x, bytes, left)
  BY DEF Receive
<1>2. overlapped' = overlapped /\ 2 \in Nat
  BY DEF Receive
<1>3. CASE Error(x, left) \/ Throw(x, left)
  <2>1. PICK stage : Goto(x, stage, Nothing, 2) /\ stage # "header"
    BY <1>3 DEF Error, Throw, Finish, Die
  <2>2. QED
    BY <1>2, <2>1
<1>4. ASSUME NEW n \in HeaderLengths(bytes), Goto(x, "header", Nothing, n)
      PROVE  \E stage, p, k : /\ k \in Nat /\ Goto(x, stage, p, k) /\ overlapped' = overlapped
                              /\ stage = "length" => k = 2
                              /\ stage = "header" => k > 0
  <2>1. n \in Nat /\ n > 0
    BY LinkAssumption DEF HeaderLengths
  <2>2. QED
    BY <1>2, <1>4, <2>1
<1>5. ASSUME NEW h \in Headers(bytes), Goto(x, "payload", h.pack, h.size)
      PROVE  \E stage, p, k : /\ k \in Nat /\ Goto(x, stage, p, k) /\ overlapped' = overlapped
                              /\ stage = "length" => k = 2
                              /\ stage = "header" => k > 0
  <2>1. h.size \in Nat
    BY LinkAssumption DEF Headers
  <2>2. QED
    BY <1>2, <1>5, <2>1
<1>6. ASSUME NEW m, Goto(x, "sendLength", Reply(m), 2) \/ Finish(x, Cast(x, m))
      PROVE  \E stage, p, k : /\ k \in Nat /\ Goto(x, stage, p, k) /\ overlapped' = overlapped
                              /\ stage = "length" => k = 2
                              /\ stage = "header" => k > 0
  <2>1. PICK stage, p : Goto(x, stage, p, 2) /\ stage # "header"
    BY <1>6 DEF Finish
  <2>2. QED
    BY <1>2, <2>1
<1>7. QED
  BY <1>1, <1>3, <1>4, <1>5, <1>6 DEF ReceiveHeaderLength, ReceiveHeader, ReceivePayload

\* A step of one end, but for the beginning of an exchange.
LEMMA EndGoes ==
    ASSUME Types, NEW x \in Ends, Step(x)
    PROVE  /\ at[x] \in Sending \cup Receiving /\ overlapped' = overlapped
           /\ \E stage, p, n : /\ n \in Nat /\ Goto(x, stage, p, n)
                               /\ stage = "length" => n = 2
                               /\ stage = "header" => n > 0
<1>1. CASE Send(x)
  <2>1. /\ at[x] \in Sending /\ overlapped' = overlapped
        /\ \E p : Goto(x, After[at[x]], p, 2)
    BY <1>1 DEF Send, histVars
  <2>2. After[at[x]] # "header" /\ 2 \in Nat
    BY <1>1, SendFacts
  <2>3. QED
    BY <2>1, <2>2
<1>2. CASE Receive(x)
  BY <1>2, ReceiveGoes, ReceiveComes
<1>3. CASE Reset(x)
  <2>1. \E stage : Goto(x, stage, Nothing, 2) /\ stage # "header"
    BY <1>3 DEF Reset, Throw, Die
  <2>2. QED
    BY <1>3, <2>1, 2 \in Nat DEF Reset
<1>4. QED
  BY <1>1, <1>2, <1>3 DEF Step

LEMMA SizedStep == ASSUME Types, Sized, [Next]_vars PROVE Sized'
<1>1. Handler \in Ends /\ \A t \in Threads : t \in Ends
  BY DEF Ends
<1>2. ASSUME NEW x \in Ends, NEW stage, NEW p, NEW n, Goto(x, stage, p, n),
             stage = "length" => n = 2, stage = "header" => n > 0
      PROVE  Sized'
  BY <1>2, GotoMoves DEF Sized
<1>3. CASE UNCHANGED vars
  BY <1>3 DEF Sized, vars
<1>4. CASE Stop
  BY <1>1, <1>2, <1>4 DEF Stop
<1>5. CASE Exit
  BY <1>1, <1>5 DEF Exit, Sized, Ends, Types, EndTypes
<1>6. ASSUME NEW t \in Threads, Ask(t) PROVE Sized'
  BY <1>1, <1>2, <1>6 DEF Ask
<1>7. ASSUME NEW x \in Ends, Step(x) PROVE Sized'
  BY <1>2, <1>7, EndGoes
<1>8. QED
  BY <1>3, <1>4, <1>5, <1>6, <1>7 DEF Next

LEMMA QuietInit == Init => Past /\ Sized
<1> SUFFICES ASSUME Init PROVE Past /\ Sized
  OBVIOUS
<1>1. Past
  BY DEF Init, Past, NoneAhead, Holds, Sides
<1>2. Sized
  BY DEF Init, Sized, Ends
<1>3. QED
  BY <1>1, <1>2
-----------------------------------------------------------------------------
(* One job alone asks for owners: where its questions and the answers to   *)
(* them are.                                                               *)

Query(q, n) == Request(q, n)
List(q, n)  == ReplyTo(Request(q, n))

\* A question, or its answer, is on its way.
Asking(q, n)    == Holds(wire["tracker"], Key(Query(q, n)))
Answering(q, n) == at[Handler] \in Sending /\ pack[Handler] = List(q, n)
Coming(q, n)    == Holds(wire["client"], Key(List(q, n)))
OnceAsking(q, n) == Once(wire["tracker"], Key(Query(q, n)))
OnceComing(q, n) == Once(wire["client"], Key(List(q, n)))
Around(q, n)    == Asking(q, n) \/ Answering(q, n) \/ Coming(q, n)

OneAnswer(q) ==
    /\ \A n \in Nat : Around(q, n) => n = asked[q] /\ n > 0
    /\ OnceAsking(q, asked[q]) /\ OnceComing(q, asked[q])
    /\ \A n \in Nat : /\ ~(Asking(q, n) /\ Answering(q, n)) /\ ~(Answering(q, n) /\ Coming(q, n))
                      /\ ~(Asking(q, n) /\ Coming(q, n))
    /\ at[q] \in Sending \/ got[q] # Nothing => ~Around(q, asked[q])
    /\ at[q] \in Sending => asked[q] > 0
    /\ at[q] \in Sending \cup Receiving => got[q] = Nothing
    /\ at[q] = "idle" => asked[q] = 0 \/ got[q] # Nothing
    /\ got[q] # Nothing => got[q] = List(q, asked[q])

\* Queries and lists are told apart by who asks and how often.
LEMMA QueryFacts ==
    ASSUME NEW q, Queriers = {q}
    PROVE  /\ q \in Threads /\ q \in Ends /\ q # Handler
           /\ \A n \in Nat : /\ Query(q, n) \in Asks /\ Query(q, n).type = "query"
                             /\ List(q, n) \in Answers /\ List(q, n).type = "queryReply"
           /\ \A n, k \in Nat : /\ Query(q, n) = Query(q, k) => n = k
                                /\ List(q, n) = List(q, k) => n = k
           /\ \A t \in Threads, n, k \in Nat : Request(t, k) = Query(q, n) => t = q /\ k = n
           /\ \A m \in Taken, n \in Nat : ReplyTo(m) = List(q, n) => m = Query(q, n)
           /\ \A r \in Answers : r.type = "queryReply" => \E n \in Nat : r = List(q, n)
<1>1. q \in Threads /\ q \in Ends /\ q # Handler
  BY LinkAssumption DEF Ends
<1>2. \A n \in Nat : Query(q, n) \in Asks /\ Query(q, n).type = "query"
  BY <1>1 DEF Query, Request, Asks
<1>3. \A n \in Nat : List(q, n) \in Answers /\ List(q, n).type = "queryReply"
  BY <1>1, <1>2 DEF Query, List, ReplyTo, Answers, Taken
<1>4. \A n, k \in Nat : (Query(q, n) = Query(q, k) => n = k) /\ (List(q, n) = List(q, k) => n = k)
  BY DEF Query, Request, List, ReplyTo
<1>5. \A t \in Threads, n, k \in Nat : Request(t, k) = Query(q, n) => t = q /\ k = n
  BY DEF Query, Request
<1>6. \A m \in Taken, n \in Nat : ReplyTo(m) = List(q, n) => m = Query(q, n)
  BY DEF Query, List, ReplyTo
<1>7. ASSUME NEW r \in Answers, r.type = "queryReply" PROVE \E n \in Nat : r = List(q, n)
  <2>1. PICK m \in Taken : r = ReplyTo(m)
    BY DEF Answers
  <2>2. m.type = "query"
    BY <1>7, <2>1 DEF ReplyTo
  <2>3. m \in Asks
    BY <2>2 DEF Taken
  <2>4. PICK t \in Threads, n \in Nat : m = Request(t, n)
    BY <2>3 DEF Asks
  <2>5. t = q
    BY <2>2, <2>4 DEF Request
  <2>6. QED
    BY <2>1, <2>4, <2>5 DEF List
<1>8. QED
  BY <1>1, <1>2, <1>3, <1>4, <1>5, <1>6, <1>7

LEMMA ListsDiffer == \A q : \A n, k \in Nat : List(q, n) = List(q, k) => n = k
  BY DEF List, Request, ReplyTo

LEMMA QueriesDiffer ==
    \A q : \A t \in Threads, n, k \in Nat : Request(t, k) = Query(q, n) => t = q /\ k = n
  BY DEF Query, Request

LEMMA OneInit == ASSUME Init, NEW q, Queriers = {q} PROVE OneAnswer(q)
<1>1. q \in Threads /\ q \in Ends /\ q # Handler
  BY QueryFacts
<1>2. /\ at[q] = "idle" /\ at[Handler] = "length" /\ got[q] = Nothing /\ asked[q] = 0
      /\ wire["tracker"] = << >> /\ wire["client"] = << >>
  BY <1>1 DEF Init, Sides, Ends
<1>3. \A n : ~Asking(q, n) /\ ~Answering(q, n) /\ ~Coming(q, n)
  BY <1>2 DEF Asking, Answering, Coming, Holds, Sending
<1>4. \A key : Once(wire["tracker"], key) /\ Once(wire["client"], key)
  BY <1>2 DEF Once
<1>5. QED
  BY <1>2, <1>3, <1>4 DEF OneAnswer, Around, OnceAsking, OnceComing, Sending, Receiving

\* Nothing new of the job is on its way, and the job does not begin to ask or to idle.
WireKeeps(q) ==
    \A n \in Nat : /\ Asking(q, n)' => Asking(q, n)
                   /\ Coming(q, n)' => Coming(q, n)
                   /\ OnceAsking(q, n) => OnceAsking(q, n)'
                   /\ OnceComing(q, n) => OnceComing(q, n)'
JobKeeps(q) ==
    /\ asked'[q] = asked[q] /\ got'[q] \in {got[q], Nothing}
    /\ at'[q] \in Sending => at[q] \in Sending
    /\ at'[q] \in Sending \cup Receiving => got'[q] = Nothing
    /\ at'[q] = "idle" => at[q] = "idle" /\ got'[q] = got[q]

LEMMA OneKept ==
    ASSUME Types, NEW q, Queriers = {q}, OneAnswer(q), WireKeeps(q), JobKeeps(q),
           \A n \in Nat : Answering(q, n)' => Answering(q, n)
    PROVE  OneAnswer(q)'
<1>1. asked[q] \in Nat
  BY QueryFacts DEF Types, CountTypes
<1>2. \A n \in Nat : Around(q, n)' => Around(q, n)
  BY DEF WireKeeps, Around
<1>3. OnceAsking(q, asked[q])' /\ OnceComing(q, asked[q])'
  <2>1. PICK n \in Nat : n = asked[q] /\ n = asked'[q]
    BY <1>1 DEF JobKeeps
  <2>2. OnceAsking(q, n)' /\ OnceComing(q, n)'
    BY <2>1 DEF WireKeeps, OneAnswer
  <2>3. QED
    BY <2>1, <2>2 DEF OnceAsking, OnceComing
<1>4. /\ \A n \in Nat : Around(q, n)' => n = asked'[q] /\ n > 0
      /\ \A n \in Nat : /\ ~(Asking(q, n) /\ Answering(q, n))' /\ ~(Answering(q, n) /\ Coming(q, n))'
                        /\ ~(Asking(q, n) /\ Coming(q, n))'
  BY <1>2 DEF WireKeeps, JobKeeps, OneAnswer
<1>5. at'[q] \in Sending \/ got'[q] # Nothing => ~Around(q, asked[q])'
  BY <1>1, <1>2 DEF JobKeeps, OneAnswer
<1>6. /\ at'[q] \in Sending \cup Receiving => got'[q] = Nothing
      /\ at'[q] = "idle" => asked'[q] = 0 \/ got'[q] # Nothing
      /\ got'[q] # Nothing => got'[q] = List(q, asked'[q])
      /\ at'[q] \in Sending => asked'[q] > 0
  BY DEF JobKeeps, OneAnswer
<1>7. asked'[q] = asked[q]
  BY DEF JobKeeps
<1>8. QED
  BY <1>3, <1>4, <1>5, <1>6, <1>7 DEF OneAnswer

LEMMA ShrinkKeeps == ASSUME Types, NEW q, Shrinks PROVE WireKeeps(q)
<1>1. \A s \in Sides : /\ wire[s] \in Seq(Bytes(Packs[s])) /\ Left(wire[s], wire'[s])
  BY DEF Types, WireTypes, Shrinks
<1>2. \A key : \A s \in Sides : /\ Holds(wire'[s], key) => Holds(wire[s], key)
                                /\ Once(wire[s], key) => Once(wire'[s], key)
  BY <1>1, HoldsLeft
<1>3. "tracker" \in Sides /\ "client" \in Sides
  BY DEF Sides
<1>4. ASSUME NEW n \in Nat
      PROVE  /\ Asking(q, n)' => Asking(q, n)
             /\ Coming(q, n)' => Coming(q, n)
             /\ OnceAsking(q, n) => OnceAsking(q, n)'
             /\ OnceComing(q, n) => OnceComing(q, n)'
  <2>1. Asking(q, n)' => Asking(q, n)
    BY <1>2, <1>3 DEF Asking
  <2>2. Coming(q, n)' => Coming(q, n)
    BY <1>2, <1>3 DEF Coming
  <2>3. OnceAsking(q, n) => OnceAsking(q, n)'
    BY <1>2, <1>3 DEF OnceAsking
  <2>4. OnceComing(q, n) => OnceComing(q, n)'
    BY <1>2, <1>3 DEF OnceComing
  <2>5. QED
    BY <2>1, <2>2, <2>3, <2>4
<1>5. QED
  BY <1>4 DEF WireKeeps

\* Whoever moves but the handler: what the handler answers stays what it is.
LEMMA HandlerKeeps ==
    ASSUME Types, NEW q, NEW x \in Ends, NEW stage, NEW p, NEW n, Goto(x, stage, p, n),
           x # Handler \/ stage \notin Sending
    PROVE  \A k \in Nat : Answering(q, k)' => Answering(q, k)
<1>1. Handler \in Ends
  BY DEF Ends
<1>2. CASE x # Handler
  BY <1>1, <1>2 DEF Goto, Types, EndTypes, Answering
<1>3. CASE x = Handler /\ stage \notin Sending
  BY <1>1, <1>3 DEF Goto, Types, EndTypes, Answering
<1>4. QED
  BY <1>2, <1>3

LEMMA OneServes ==
    ASSUME Types, NEW q, Queriers = {q}, OneAnswer(q), Serves(Handler), Shrinks, asked' = asked
    PROVE  OneAnswer(q)'
<1>1. PICK m \in Taken \cup {Nothing} :
         /\ m \in Asks => Took("tracker", m)
         /\ Goto(Handler, "sendLength", Reply(m), 2) /\ got' = got
  BY DEF Serves
<1>2. Handler \in Ends /\ q \in Ends /\ q # Handler
  BY QueryFacts DEF Ends
<1>3. at'[Handler] = "sendLength" /\ pack'[Handler] = Reply(m) /\ at'[q] = at[q]
  BY <1>1, <1>2 DEF Goto, Types, EndTypes
<1>4. WireKeeps(q)
  BY ShrinkKeeps
<1>5. JobKeeps(q)
  BY <1>1, <1>3 DEF JobKeeps, OneAnswer
<1>6. CASE \A n \in Nat : ~Answering(q, n)'
  BY <1>4, <1>5, <1>6, OneKept
<1>7. ASSUME NEW n \in Nat, Answering(q, n)'
      PROVE  OneAnswer(q)'
  <2>1. Reply(m) = List(q, n)
    BY <1>3, <1>7 DEF Answering
  <2>2. m # Nothing
    BY <2>1, QueryFacts, PackTypes DEF Reply
  <2>3. m = Query(q, n) /\ Took("tracker", m)
    BY <1>1, <2>1, <2>2, QueryFacts DEF Reply
  <2>4. Asking(q, n)
    BY <2>3 DEF Took, Asking, Holds
  <2>5. n = asked[q] /\ n > 0 /\ ~Coming(q, n) /\ Once(wire["tracker"], Key(Query(q, n)))
    BY <2>4 DEF OneAnswer, Around, OnceAsking
  <2>6. ~Asking(q, n)'
    <3>1. wire["tracker"] \in Seq(Bytes(Packs["tracker"]))
      BY DEF Types, WireTypes, Sides
    <3>2. QED
      BY <2>3, <2>5, <3>1, HoldsRead DEF Took, Asking
  <2>7. \A k \in Nat : k # n => ~Answering(q, k)'
    BY <1>3, <2>1, ListsDiffer DEF Answering
  <2>8. \A k \in Nat : k # n => ~Asking(q, k)' /\ ~Coming(q, k)'
    BY <1>4, <2>5 DEF WireKeeps, OneAnswer, Around
  <2>9. ~Coming(q, n)'
    BY <1>4, <2>5 DEF WireKeeps
  <2>10. at[q] \notin Sending /\ got[q] = Nothing
    BY <2>4, <2>5 DEF OneAnswer, Around
  <2>11. OnceAsking(q, asked[q])' /\ OnceComing(q, asked[q])'
    BY <1>4, <2>5 DEF WireKeeps, OneAnswer
  <2>12. /\ \A k \in Nat : Around(q, k)' => k = asked'[q] /\ k > 0
         /\ \A k \in Nat : /\ ~(Asking(q, k) /\ Answering(q, k))' /\ ~(Answering(q, k) /\ Coming(q, k))'
                           /\ ~(Asking(q, k) /\ Coming(q, k))'
    BY <2>5, <2>6, <2>7, <2>8, <2>9 DEF Around
  <2>13. QED
    BY <1>1, <1>3, <2>10, <2>11, <2>12 DEF OneAnswer
<1>8. QED
  BY <1>6, <1>7

\* The job's answer: it was the only thing of its question left, and is read.
LEMMA OneAnswered ==
    ASSUME Types, NEW q, Queriers = {q}, OneAnswer(q), Answered(q), Shrinks, asked' = asked
    PROVE  OneAnswer(q)'
<1>1. PICK r \in Answers \cup [type : {"plainReply"}] :
         /\ r # Nothing /\ got' = [got EXCEPT ![q] = r]
         /\ r.type = "queryReply" /\ Took("client", r)
  BY DEF Answered
<1>2. q \in Threads /\ q \in Ends /\ q # Handler /\ Handler \in Ends
  BY QueryFacts DEF Ends
<1>3. Goto(q, "idle", Nothing, 2)
  BY DEF Answered
<1>4. r \in Answers
  BY <1>1
<1>5. PICK n \in Nat : r = List(q, n)
  BY <1>1, <1>4, QueryFacts
<1>6. Coming(q, n)
  BY <1>1, <1>5 DEF Took, Coming, Holds
<1>7. n = asked[q] /\ n > 0 /\ ~Asking(q, n) /\ ~Answering(q, n) /\ OnceComing(q, n)
  BY <1>6 DEF OneAnswer, Around
<1>8. ~Coming(q, n)'
  <2>1. wire["client"] \in Seq(Bytes(Packs["client"]))
    BY DEF Types, WireTypes, Sides
  <2>2. QED
    BY <1>1, <1>5, <1>7, <2>1, HoldsRead DEF Took, Coming, OnceComing
<1>9. WireKeeps(q)
  BY ShrinkKeeps
<1>10. \A k \in Nat : Answering(q, k)' => Answering(q, k)
  BY <1>2, <1>3, HandlerKeeps
<1>11. \A k \in Nat : ~Around(q, k)'
  <2>1. ASSUME NEW k \in Nat, Around(q, k)' PROVE FALSE
    <3>1. Around(q, k)
      BY <1>9, <1>10, <2>1 DEF Around, WireKeeps
    <3>2. k = n
      BY <1>7, <3>1 DEF OneAnswer
    <3>3. QED
      BY <1>7, <1>8, <1>9, <1>10, <2>1, <3>2 DEF Around, WireKeeps
  <2>2. QED
    BY <2>1
<1>12. OnceAsking(q, n)' /\ OnceComing(q, n)'
  BY <1>7, <1>9 DEF WireKeeps, OneAnswer
<1>13. OnceAsking(q, asked[q])' /\ OnceComing(q, asked[q])'
  BY <1>7, <1>12 DEF OnceAsking, OnceComing
<1>14. ~Around(q, asked[q])'
  BY <1>7, <1>11 DEF Around, Asking, Answering, Coming
<1>15. at'[q] = "idle" /\ got'[q] = List(q, asked'[q]) /\ got'[q] # Nothing
  BY <1>1, <1>2, <1>3, <1>5, <1>7 DEF Goto, Types, EndTypes, CountTypes
<1>16. QED
  BY <1>11, <1>13, <1>14, <1>15 DEF OneAnswer, Around, Sending, Receiving

\* A new question: nothing of an earlier one is left.
LEMMA OneAsk ==
    ASSUME Types, NEW q, Queriers = {q}, OneAnswer(q), Ask(q)
    PROVE  OneAnswer(q)'
<1>1. q \in Threads /\ q \in Ends /\ q # Handler /\ Handler \in Ends
  BY QueryFacts DEF Ends
<1>2. asked[q] \in Nat /\ asked'[q] = asked[q] + 1 /\ at[q] = "idle" /\ wire' = wire
  BY <1>1 DEF Ask, Types, CountTypes
<1>3. at'[q] = "sendLength" /\ got'[q] = Nothing /\ at'[Handler] = at[Handler]
      /\ pack'[Handler] = pack[Handler]
  BY <1>1 DEF Ask, Goto, Types, EndTypes, CountTypes
<1>4. \A n \in Nat : ~Around(q, n)
  BY <1>2 DEF OneAnswer
<1>5. \A n \in Nat : ~Around(q, n)' /\ ~Asking(q, n)' /\ ~Answering(q, n)' /\ ~Coming(q, n)'
  BY <1>2, <1>3, <1>4 DEF Around, Asking, Answering, Coming
<1>6. PICK n \in Nat : n = asked'[q]
  BY <1>2
<1>7. ~Around(q, asked[q])' /\ ~Asking(q, asked[q])' /\ ~Coming(q, asked[q])'
  BY <1>5, <1>6 DEF Around, Asking, Answering, Coming
<1>8. OnceAsking(q, asked[q])' /\ OnceComing(q, asked[q])'
  BY <1>7 DEF Asking, Coming, OnceAsking, OnceComing, Holds, Once
<1>9. QED
  BY <1>2, <1>3, <1>5, <1>7, <1>8 DEF OneAnswer

\* What a send adds to the keys of a stream.
LEMMA SendKeys ==
    ASSUME Types, NEW x \in Ends, Send(x), NEW s \in Sides, NEW m
    PROVE  /\ Holds(wire'[s], Key(m)) =>
                 Holds(wire[s], Key(m)) \/ (s = FarOf(x) /\ at[x] = "sendPayload" /\ pack[x] = m)
           /\ Once(wire[s], Key(m)) /\ ~(s = FarOf(x) /\ at[x] = "sendPayload" /\ pack[x] = m) =>
                 Once(wire'[s], Key(m))
           /\ ~Holds(wire[s], Key(m)) => Once(wire'[s], Key(m))
<1> DEFINE part == PartSent[at[x]]
           u == Part(pack[x], part)
<1>1. /\ FarOf(x) \in Sides /\ pack[x] \in Packs[FarOf(x)] /\ Appends(x)
      /\ part \in {"length", "header", "payload"}
      /\ wire[FarOf(x)] \in Seq(Bytes(Packs[FarOf(x)])) /\ u \in Seq(Bytes(Packs[FarOf(x)]))
  BY SendFacts
<1>2. part = "payload" => at[x] = "sendPayload"
  BY DEF PartSent, Send, Sending
<1>3. (Holds(u, Key(m)) => part = "payload" /\ pack[x] = m) /\ Once(u, Key(m))
  BY <1>1, HoldsPart
<1>4. CASE wire'[s] = wire[s]
  BY <1>4 DEF Holds, Once
<1>5. CASE s = FarOf(x) /\ wire'[s] = wire[s] \o u
  <2> HIDE DEF u, part
  <2>1. /\ Holds(wire[s] \o u, Key(m)) => Holds(wire[s], Key(m)) \/ Holds(u, Key(m))
        /\ Once(wire[s], Key(m)) /\ ~Holds(u, Key(m)) => Once(wire[s] \o u, Key(m))
        /\ ~Holds(wire[s], Key(m)) /\ Once(u, Key(m)) => Once(wire[s] \o u, Key(m))
    BY <1>1, <1>5, HoldsConcat
  <2>2. QED
    BY <1>2, <1>3, <1>5, <2>1
<1>6. QED
  BY <1>1, <1>4, <1>5 DEF Appends

LEMMA SendKeeps ==
    ASSUME Types, NEW x \in Ends, Send(x), NEW q,
           \A n \in Nat : at[x] = "sendPayload" =>
               pack[x] # IF x = Handler THEN List(q, n) ELSE Query(q, n)
    PROVE  WireKeeps(q)
<1>1. "tracker" \in Sides /\ "client" \in Sides
  BY DEF Sides
<1>2. (FarOf(x) = "tracker" => x # Handler) /\ (FarOf(x) = "client" => x = Handler)
  BY DEF FarOf
<1>3. ASSUME NEW n \in Nat
      PROVE  /\ Asking(q, n)' => Asking(q, n)
             /\ Coming(q, n)' => Coming(q, n)
             /\ OnceAsking(q, n) => OnceAsking(q, n)'
             /\ OnceComing(q, n) => OnceComing(q, n)'
  <2>1. ~(FarOf(x) = "tracker" /\ at[x] = "sendPayload" /\ pack[x] = Query(q, n))
    BY <1>2
  <2>2. ~(FarOf(x) = "client" /\ at[x] = "sendPayload" /\ pack[x] = List(q, n))
    BY <1>2
  <2>3. (Asking(q, n)' => Asking(q, n)) /\ (OnceAsking(q, n) => OnceAsking(q, n)')
    BY <1>1, <2>1, SendKeys DEF Asking, OnceAsking
  <2>4. (Coming(q, n)' => Coming(q, n)) /\ (OnceComing(q, n) => OnceComing(q, n)')
    BY <1>1, <2>2, SendKeys DEF Coming, OnceComing
  <2>5. QED
    BY <2>3, <2>4
<1>4. QED
  BY <1>3 DEF WireKeeps

LEMMA SendMoves ==
    ASSUME Types, NEW x \in Ends, Send(x)
    PROVE  /\ at[x] \in Sending /\ at'[x] = After[at[x]] /\ UNCHANGED <<asked, got>>
           /\ at[x] # "sendPayload" => at'[x] \in Sending /\ pack'[x] = pack[x]
           /\ at[x] = "sendPayload" => at'[x] = "length"
           /\ \A y \in Ends : y # x => at'[y] = at[y] /\ pack'[y] = pack[y]
<1>1. at[x] \in Sending
  BY DEF Send
<1>2. After[at[x]] = IF at[x] = "sendLength" THEN "sendHeader"
                     ELSE IF at[x] = "sendHeader" THEN "sendPayload" ELSE "length"
  BY <1>1 DEF After, Sending
<1>3. QED
  BY <1>1, <1>2 DEF Send, Goto, Types, EndTypes, Sending

LEMMA OneSend ==
    ASSUME Types, NEW q, Queriers = {q}, OneAnswer(q), NEW x \in Ends, Send(x)
    PROVE  OneAnswer(q)'
<1>1. q \in Threads /\ q \in Ends /\ q # Handler /\ Handler \in Ends
  BY QueryFacts DEF Ends
<1>2. asked[q] \in Nat
  BY <1>1 DEF Types, CountTypes
<1>3. JobKeeps(q)
  BY <1>1, SendMoves DEF JobKeeps, OneAnswer, Sending, Receiving
<1>4. \A n \in Nat : Answering(q, n)' => Answering(q, n)
  BY <1>1, SendMoves DEF Answering, Sending
<1>5. "tracker" \in Sides /\ "client" \in Sides
  BY DEF Sides
<1>6. CASE \A n \in Nat : at[x] = "sendPayload" =>
                pack[x] # IF x = Handler THEN List(q, n) ELSE Query(q, n)
  BY <1>3, <1>4, <1>6, OneKept, SendKeeps
<1>7. ASSUME NEW n \in Nat, at[x] = "sendPayload", x # Handler, pack[x] = Query(q, n)
      PROVE  OneAnswer(q)'
  <2>1. pack[x] = Request(x, asked[x]) /\ x \in Threads /\ asked[x] \in Nat
    BY <1>7 DEF Types, EndTypes, PackRight, Sending, Ends, CountTypes
  <2>2. x = q /\ n = asked[q]
    <3>1. PICK t \in Threads, k \in Nat : t = x /\ k = asked[x]
      BY <2>1
    <3>2. Request(t, k) = Query(q, n)
      BY <1>7, <2>1, <3>1
    <3>3. t = q /\ k = n
      BY <3>2, QueriesDiffer
    <3>4. QED
      BY <3>1, <3>3
  <2>3. n > 0 /\ got[q] = Nothing /\ \A k \in Nat : ~Around(q, k)
    BY <1>7, <2>2 DEF OneAnswer, Sending
  <2>4. at'[q] = "length" /\ got'[q] = Nothing /\ asked'[q] = asked[q]
    BY <1>7, <2>2, <2>3, SendMoves
  <2>5. ASSUME NEW k \in Nat
        PROVE  ~Answering(q, k)' /\ ~Coming(q, k)' /\ (Asking(q, k)' => k = n)
    <3>1. FarOf(x) = "tracker"
      BY <1>7 DEF FarOf
    <3>2. ~Coming(q, k)'
      BY <1>5, <2>3, <3>1, SendKeys DEF Coming, Around
    <3>3. Asking(q, k)' => Query(q, n) = Query(q, k)
      BY <1>5, <1>7, <2>3, SendKeys DEF Asking, Around
    <3>4. QED
      BY <1>4, <2>3, <3>2, <3>3, QueryFacts DEF Around
  <2>6. OnceAsking(q, n)' /\ OnceComing(q, n)'
    BY <1>5, <2>3, SendKeys DEF OnceAsking, OnceComing, Asking, Coming, Around
  <2>7. OnceAsking(q, asked[q])' /\ OnceComing(q, asked[q])'
    BY <2>2, <2>4, <2>6 DEF OnceAsking, OnceComing
  <2>8. QED
    BY <2>2, <2>3, <2>4, <2>5, <2>7 DEF OneAnswer, Around, Sending
<1>8. ASSUME NEW n \in Nat, at[x] = "sendPayload", x = Handler, pack[x] = List(q, n)
      PROVE  OneAnswer(q)'
  <2>1. Answering(q, n)
    BY <1>8 DEF Answering, Sending
  <2>2. n = asked[q] /\ n > 0 /\ ~Asking(q, n) /\ ~Coming(q, n) /\ at[q] \notin Sending /\ got[q] = Nothing
    BY <2>1 DEF OneAnswer, Around
  <2>3. at'[Handler] = "length" /\ at'[q] = at[q] /\ got'[q] = got[q] /\ asked'[q] = asked[q]
    BY <1>1, <1>8, SendMoves
  <2>4. ASSUME NEW k \in Nat
        PROVE  ~Answering(q, k)' /\ ~Asking(q, k)' /\ (Coming(q, k)' => k = n)
    <3>1. FarOf(x) = "client"
      BY <1>8 DEF FarOf
    <3>2. (Asking(q, k) => k = n) /\ (Coming(q, k) => k = n)
      BY <2>2 DEF OneAnswer, Around
    <3>3. ~Asking(q, k)'
      BY <1>5, <2>2, <3>1, <3>2, SendKeys DEF Asking
    <3>4. Coming(q, k)' => Coming(q, k) \/ List(q, n) = List(q, k)
      BY <1>5, <1>8, SendKeys DEF Coming
    <3>5. ~Answering(q, k)'
      BY <2>3 DEF Answering, Sending
    <3>6. QED
      BY <3>2, <3>3, <3>4, <3>5, ListsDiffer
  <2>5. OnceAsking(q, n)' /\ OnceComing(q, n)'
    BY <1>5, <2>2, SendKeys DEF OnceAsking, OnceComing, Asking, Coming
  <2>6. OnceAsking(q, asked[q])' /\ OnceComing(q, asked[q])'
    BY <2>2, <2>3, <2>5 DEF OnceAsking, OnceComing
  <2>7. QED
    BY <2>2, <2>3, <2>4, <2>6 DEF OneAnswer, Around
<1>9. QED
  BY <1>6, <1>7, <1>8

LEMMA OneComes ==
    ASSUME Types, NEW q, Queriers = {q}, OneAnswer(q), NEW x \in Ends, Comes(x), Shrinks,
           asked' = asked, at[x] \in Sending \cup Receiving
    PROVE  OneAnswer(q)'
<1>1. q \in Threads /\ q \in Ends /\ q # Handler /\ Handler \in Ends
  BY QueryFacts DEF Ends
<1>2. WireKeeps(q)
  BY ShrinkKeeps
<1>3. CASE Serves(x)
  BY <1>3, OneServes DEF Serves
<1>4. CASE Answered(x) /\ x = q
  BY <1>4, OneAnswered
<1>5. ASSUME NEW stage \in Stages \ Sending, NEW p, NEW n, Goto(x, stage, p, n),
             x # q => got'[q] = got[q],
             x = q => stage # "idle" /\ got'[q] = Nothing
      PROVE  OneAnswer(q)'
  <2>1. \A k \in Nat : Answering(q, k)' => Answering(q, k)
    BY <1>5, HandlerKeeps
  <2>2. CASE x = q
    <3>1. at'[q] = stage
      BY <1>1, <1>5, <2>2 DEF Goto, Types, EndTypes
    <3>2. JobKeeps(q)
      BY <1>5, <2>2, <3>1 DEF JobKeeps
    <3>3. QED
      BY <1>2, <2>1, <3>2, OneKept
  <2>3. CASE x # q
    <3>1. at'[q] = at[q]
      BY <1>1, <1>5, <2>3 DEF Goto, Types, EndTypes
    <3>2. JobKeeps(q)
      BY <1>5, <2>3, <3>1 DEF JobKeeps, OneAnswer
    <3>3. QED
      BY <1>2, <2>1, <3>2, OneKept
  <2>4. QED
    BY <2>2, <2>3
<1>6. {"length", "header", "payload", "idle", "dead", "gone"} \subseteq Stages \ Sending
  BY DEF Stages, Sending, Receiving
<1>7. CASE Goes(x)
  <2>1. PICK stage \in {"header", "payload"}, n \in Nat, p \in Headed[SideOf(x)] \cup {Nothing} :
           Goto(x, stage, p, n) /\ got' = got
    BY <1>7 DEF Goes
  <2>2. x = q => got'[q] = Nothing
    BY <2>1 DEF OneAnswer
  <2>3. QED
    BY <1>5, <1>6, <2>1, <2>2
<1>8. CASE Answered(x) /\ x # q
  BY <1>1, <1>5, <1>6, <1>8 DEF Answered, Types, CountTypes
<1>9. CASE Stops(x)
  <2>1. PICK stage \in {"length", "gone", "idle", "dead"} :
           /\ Goto(x, stage, Nothing, 2)
           /\ x # q => got'[q] = got[q]
           /\ x = q => stage # "idle" /\ got'[q] = Nothing
    BY <1>1, <1>9 DEF Stops, Types, CountTypes
  <2>2. QED
    BY <1>5, <1>6, <2>1
<1>10. QED
  BY <1>3, <1>4, <1>7, <1>8, <1>9 DEF Comes

LEMMA OneStep ==
    ASSUME Types, NEW q, Queriers = {q}, OneAnswer(q), [Next]_vars
    PROVE  OneAnswer(q)'
<1>1. q \in Threads /\ q \in Ends /\ q # Handler /\ Handler \in Ends
  BY QueryFacts DEF Ends
<1>2. CASE Ask(q)
  BY <1>2, OneAsk
<1>3. ASSUME NEW t \in Threads, Ask(t), t # q PROVE OneAnswer(q)'
  <2>1. t \in Ends /\ t # Handler
    BY LinkAssumption DEF Ends
  <2>2. /\ Goto(t, "sendLength", Request(t, asked[t] + 1), 2) /\ wire' = wire
        /\ asked'[q] = asked[q] /\ got'[q] = got[q]
    BY <1>3 DEF Ask, Types, CountTypes
  <2>3. \A n \in Nat : Answering(q, n)' => Answering(q, n)
    BY <2>1, <2>2, HandlerKeeps
  <2>4. WireKeeps(q)
    BY <2>2 DEF WireKeeps, Asking, Coming, OnceAsking, OnceComing
  <2>5. at'[q] = at[q]
    BY <1>1, <1>3, <2>2 DEF Goto, Types, EndTypes
  <2>6. JobKeeps(q)
    BY <2>2, <2>5 DEF JobKeeps, OneAnswer
  <2>7. QED
    BY <2>3, <2>4, <2>6, OneKept
<1>4. ASSUME NEW x \in Ends, Send(x) PROVE OneAnswer(q)'
  BY <1>4, OneSend
<1>5. ASSUME NEW x \in Ends, Receive(x) PROVE OneAnswer(q)'
  BY <1>5, ReceiveComes, OneComes
<1>6. ASSUME NEW x \in Ends, Reset(x) PROVE OneAnswer(q)'
  BY <1>6, ResetComes, OneComes DEF Comes
<1>7. CASE Stop
  <2>1. Shrinks /\ Goto(Handler, "gone", Nothing, 2) /\ asked' = asked /\ got' = got
    BY <1>7, StopFacts DEF Stop
  <2>2. \A n \in Nat : Answering(q, n)' => Answering(q, n)
    BY <1>1, <2>1, HandlerKeeps DEF Sending
  <2>3. at'[q] = at[q]
    BY <1>1, <2>1 DEF Goto, Types, EndTypes
  <2>4. JobKeeps(q)
    BY <2>1, <2>3 DEF JobKeeps, OneAnswer
  <2>5. QED
    BY <2>1, <2>2, <2>4, ShrinkKeeps, OneKept
<1>8. CASE Exit \/ UNCHANGED vars
  <2>1. /\ wire' = wire /\ asked' = asked /\ got' = got /\ pack' = pack
        /\ at'[Handler] = at[Handler] /\ (at'[q] = "dead" \/ at'[q] = at[q])
    BY <1>1, <1>8 DEF Exit, vars
  <2>2. WireKeeps(q) /\ \A n \in Nat : Answering(q, n)' => Answering(q, n)
    BY <2>1 DEF WireKeeps, Asking, Coming, OnceAsking, OnceComing, Answering
  <2>3. JobKeeps(q)
    BY <2>1 DEF JobKeeps, OneAnswer, Sending, Receiving
  <2>4. QED
    BY <2>2, <2>3, OneKept
<1>9. QED
  BY <1>2, <1>3, <1>4, <1>5, <1>6, <1>7, <1>8 DEF Next, Step

OneAnswers == \A q \in Queriers : Queriers = {q} => OneAnswer(q)

\* A job that alone asks the tracker for owners never takes anything for its answer but
\* the reply to its own last query, whatever the other threads read of its replies, how
\* the reads cut them, and whoever closes the connection.
THEOREM OwnersAreAnswersAlways == Spec => []OwnersAreAnswers
<1>1. Init => Types /\ OneAnswers
  BY TypesInit, OneInit DEF OneAnswers
<1>2. Types /\ OneAnswers /\ [Next]_vars => (Types /\ OneAnswers)'
  <2> SUFFICES ASSUME Types, OneAnswers, [Next]_vars PROVE (Types /\ OneAnswers)'
    OBVIOUS
  <2>1. Types'
    BY TypesStep
  <2>2. ASSUME NEW q \in Queriers, Queriers = {q} PROVE OneAnswer(q)'
    BY <2>2, OneStep DEF OneAnswers
  <2>3. QED
    BY <2>1, <2>2 DEF OneAnswers
<1>3. Types /\ OneAnswers => OwnersAreAnswers
  BY DEF OneAnswers, OneAnswer, List, OwnersAreAnswers
<1>4. QED
  BY <1>1, <1>2, <1>3, PTL DEF Spec
-----------------------------------------------------------------------------
(* While nothing disturbs the connection: a stream holds what one end has  *)
(* sent of a pack and the other has not read.                              *)

PartNames == <<"length", "header", "payload">>
PartOf(p, i, k, j) == IF i < k /\ k <= j THEN Part(p, PartNames[k]) ELSE << >>

\* The parts of a pack after the first i, up to the j-th.
Parts(p, i, j) == (PartOf(p, i, 1, j) \o PartOf(p, i, 2, j)) \o PartOf(p, i, 3, j)

LEMMA PartPair ==
    ASSUME NEW p, p # Blank, NEW k \in 1..3
    PROVE  /\ Part(p, PartNames[k]) \in Seq(Bytes({p})) /\ Len(Part(p, PartNames[k])) = 2
           /\ \A i \in 1..2 : Part(p, PartNames[k])[i] = [pack |-> p, part |-> PartNames[k], half |-> i]
<1>1. PartNames[k] \in {"length", "header", "payload"}
  BY DEF PartNames
<1>2. p \in {p}
  OBVIOUS
<1>3. QED
  BY <1>1, <1>2, PartFacts

LEMMA PartsMoves ==
    ASSUME NEW p, p # Blank, NEW i \in 0..2, NEW j \in 0..3
    PROVE  /\ i <= j /\ j < 3 => Parts(p, i, j) \o Part(p, PartNames[j + 1]) = Parts(p, i, j + 1)
           /\ i < j => Parts(p, i, j) = Part(p, PartNames[i + 1]) \o Parts(p, i + 1, j)
           /\ Parts(p, j, j) = << >>
           /\ Parts(p, i + 1, j) \in Seq(Bytes({p}))
<1> DEFINE S == Bytes({p})
           a == Part(p, PartNames[1])
           b == Part(p, PartNames[2])
           c == Part(p, PartNames[3])
<1>0. \A k \in 1..3 : Part(p, PartNames[k]) \in Seq(S)
  BY PartPair
<1>1. a \in Seq(S) /\ b \in Seq(S) /\ c \in Seq(S) /\ << >> \in Seq(S)
  <2>1. 1 \in 1..3 /\ 2 \in 1..3 /\ 3 \in 1..3
    OBVIOUS
  <2>2. QED
    BY <1>0, <2>1
<1>2. \A s \in Seq(S) : s \o << >> = s /\ << >> \o s = s
  BY ConcatEmptySeq
<1>3. \A s, t, u \in Seq(S) : (s \o t) \o u = s \o (t \o u)
  BY ConcatAssociative
<1>4. \A s, t \in Seq(S) : s \o t \in Seq(S)
  BY ConcatProperties
<1>5. \A k \in 0..3, n \in 0..3 :
         Parts(p, k, n) = ((IF k < 1 /\ 1 <= n THEN a ELSE << >>) \o (IF k < 2 /\ 2 <= n THEN b ELSE << >>))
                              \o (IF k < 3 /\ 3 <= n THEN c ELSE << >>)
  BY DEF Parts, PartOf
<1>6. \A k \in 1..3 : Part(p, PartNames[k]) = IF k = 1 THEN a ELSE IF k = 2 THEN b ELSE c
  OBVIOUS
<1> HIDE DEF S, a, b, c
<1>7. /\ a \o b \in Seq(S) /\ b \o c \in Seq(S) /\ (a \o b) \o c \in Seq(S)
       /\ (a \o b) \o << >> = a \o b /\ (a \o b) \o c = a \o (b \o c)
  BY <1>1, <1>2, <1>3, <1>4
<1>8. /\ a \o << >> = a /\ << >> \o a = a /\ b \o << >> = b /\ << >> \o b = b
       /\ << >> \o c = c /\ << >> \o << >> = << >>
  BY <1>1, <1>2
<1>9. i <= j /\ j < 3 => Parts(p, i, j) \o Part(p, PartNames[j + 1]) = Parts(p, i, j + 1)
  <2>1. CASE i = 0 /\ j = 0
    BY <1>5, <1>6, <1>7, <1>8, <2>1
  <2>2. CASE i = 0 /\ j = 1
    BY <1>5, <1>6, <1>7, <1>8, <2>2
  <2>3. CASE i = 0 /\ j = 2
    <3>1. Parts(p, 0, 2) = a \o b
      BY <1>5, <1>7
    <3>2. Parts(p, 0, 3) = (a \o b) \o c /\ Part(p, PartNames[3]) = c
      BY <1>5, <1>6
    <3>3. Parts(p, 0, 2) \o Part(p, PartNames[3]) = Parts(p, 0, 3)
      BY <3>1, <3>2
    <3>4. i = 0 /\ j = 2 /\ j + 1 = 3
      BY <2>3
    <3>5. QED
      BY <3>3, <3>4
  <2>4. CASE i = 1 /\ j = 1
    BY <1>5, <1>6, <1>7, <1>8, <2>4
  <2>5. CASE i = 1 /\ j = 2
    BY <1>5, <1>6, <1>7, <1>8, <2>5
  <2>6. CASE i = 2 /\ j = 2
    BY <1>5, <1>6, <1>7, <1>8, <2>6
  <2>7. QED
    BY <2>1, <2>2, <2>3, <2>4, <2>5, <2>6
<1>10. i < j => Parts(p, i, j) = Part(p, PartNames[i + 1]) \o Parts(p, i + 1, j)
  <2>1. CASE i = 0 /\ j = 1
    BY <1>5, <1>6, <1>7, <1>8, <2>1
  <2>2. CASE i = 0 /\ j = 2
    BY <1>5, <1>6, <1>7, <1>8, <2>2
  <2>3. CASE i = 0 /\ j = 3
    <3>1. Parts(p, 1, 3) = b \o c
      BY <1>5, <1>8
    <3>2. Parts(p, 0, 3) = (a \o b) \o c /\ Part(p, PartNames[1]) = a
      BY <1>5, <1>6
    <3>3. Parts(p, 0, 3) = Part(p, PartNames[1]) \o Parts(p, 1, 3)
      BY <1>7, <3>1, <3>2
    <3>4. i = 0 /\ j = 3 /\ i + 1 = 1
      BY <2>3
    <3>5. QED
      BY <3>3, <3>4
  <2>4. CASE i = 1 /\ j = 2
    BY <1>5, <1>6, <1>7, <1>8, <2>4
  <2>5. CASE i = 1 /\ j = 3
    BY <1>5, <1>6, <1>7, <1>8, <2>5
  <2>6. CASE i = 2 /\ j = 3
    BY <1>5, <1>6, <1>7, <1>8, <2>6
  <2>7. QED
    BY <2>1, <2>2, <2>3, <2>4, <2>5, <2>6
<1>11. Parts(p, j, j) = << >>
  BY <1>5, <1>8
<1>12. Parts(p, i + 1, j) \in Seq(S)
  <2>1. Parts(p, i + 1, j) \in {<< >>, b, c, b \o c}
    BY <1>5, <1>8
  <2>2. QED
    BY <1>1, <1>7, <2>1
<1>13. QED
  BY <1>9, <1>10, <1>11, <1>12 DEF S

LEMMA ReadPrefix ==
    ASSUME NEW S, NEW a \in Seq(S), NEW t \in Seq(S), Len(a) = 2
    PROVE  First(a \o t, 2) = a /\ Rest(a \o t, 2) = t
<1>1. PICK w \in Seq(S) : w = a \o t
  BY ConcatProperties
<1>2. /\ Len(w) = 2 + Len(t) /\ Len(t) \in Nat
      /\ \A k \in 1..(2 + Len(t)) : w[k] = IF k <= 2 THEN a[k] ELSE t[k - 2]
  <2>1. /\ Len(a \o t) = Len(a) + Len(t)
        /\ \A k \in 1..(Len(a) + Len(t)) :
              (a \o t)[k] = IF k <= Len(a) THEN a[k] ELSE t[k - Len(a)]
    BY ConcatProperties
  <2>2. QED
    BY <1>1, <2>1
<1>3. 2 \in 0..Len(w)
  BY <1>2
<1>4. First(w, 2) = a
  <2>1. First(w, 2) \in Seq(S) /\ Len(First(w, 2)) = 2 /\ \A k \in 1..2 : First(w, 2)[k] = w[k]
    BY <1>3, FirstFacts
  <2>2. QED
    BY <1>2, <2>1, SeqEqual
<1>5. Rest(w, 2) = t
  <2>1. /\ Rest(w, 2) \in Seq(S) /\ Len(Rest(w, 2)) = Len(t)
        /\ \A k \in 1..Len(t) : Rest(w, 2)[k] = w[k + 2]
    <3>1. /\ Rest(w, 2) \in Seq(S) /\ Len(Rest(w, 2)) = Len(w) - 2
          /\ \A k \in 1..(Len(w) - 2) : Rest(w, 2)[k] = w[k + 2]
      BY <1>3, RestFacts
    <3>2. QED
      BY <1>2, <3>1
  <2>2. \A k \in 1..Len(t) : w[k + 2] = t[k]
    BY <1>2
  <2>3. QED
    BY <2>1, <2>2, SeqEqual
<1>6. QED
  BY <1>1, <1>4, <1>5

\* A read of two units takes the next part, if it has been sent.
LEMMA PartsRead ==
    ASSUME NEW p, p # Blank, NEW i \in 0..2, NEW j \in 0..3, i <= j, Len(Parts(p, i, j)) >= 2
    PROVE  /\ i < j /\ Whole(First(Parts(p, i, j), 2), PartNames[i + 1])
           /\ First(Parts(p, i, j), 2)[1].pack = p
           /\ Len(First(Parts(p, i, j), 2)) = 2
           /\ Rest(Parts(p, i, j), 2) = Parts(p, i + 1, j)
<1>1. i < j
  <2>1. Parts(p, j, j) = << >>
    BY PartsMoves
  <2>2. QED
    BY <2>1
<1>2. PICK t : Parts(p, i, j) = Part(p, PartNames[i + 1]) \o t /\ t = Parts(p, i + 1, j)
  BY <1>1, PartsMoves
<1>3. t \in Seq(Bytes({p}))
  BY <1>2, PartsMoves
<1>4. PICK k \in 1..3 : k = i + 1
  OBVIOUS
<1>5. PICK a : a = Part(p, PartNames[k])
  OBVIOUS
<1>6. /\ a \in Seq(Bytes({p})) /\ Len(a) = 2
      /\ \A n \in 1..2 : a[n] = [pack |-> p, part |-> PartNames[k], half |-> n]
  BY <1>5, PartPair
<1>7. First(a \o t, 2) = a /\ Rest(a \o t, 2) = t
  BY <1>3, <1>6, ReadPrefix
<1>8. a[1].pack = p
  BY <1>6
<1>9. Whole(a, PartNames[k])
  BY <1>5, <1>6, <1>8 DEF Whole
<1>10. QED
  BY <1>1, <1>2, <1>4, <1>5, <1>6, <1>7, <1>8, <1>9
-----------------------------------------------------------------------------
(* While nothing disturbs the connection: where an exchange has got to.    *)

Place == [sendLength |-> 0, sendHeader |-> 1, sendPayload |-> 2,
          length |-> 0, header |-> 1, payload |-> 2]
SentBy(x) == IF at[x] \in Sending THEN Place[at[x]] ELSE 3

\* The tracker has not processed the request of the exchange, and then it has.
Before(t, m) ==
    /\ m \notin served /\ wire["client"] = << >>
    /\ at[t] \in Sending \cup {"length"} /\ at[Handler] \in Receiving
    /\ Place[at[Handler]] <= SentBy(t)
    /\ wire["tracker"] = Parts(m, Place[at[Handler]], SentBy(t))
    /\ at[Handler] = "payload" => pack[Handler] = m
Behind(t, m) ==
    /\ m \in served /\ wire["tracker"] = << >>
    /\ at[t] \in Receiving /\ at[Handler] \in Sending \cup {"length"}
    /\ Place[at[t]] <= SentBy(Handler)
    /\ wire["client"] = Parts(ReplyTo(m), Place[at[t]], SentBy(Handler))
    /\ at[Handler] \in Sending => pack[Handler] = ReplyTo(m)
    /\ at[t] = "payload" => pack[t] = ReplyTo(m)

Alone(t)   == t \in Threads /\ \A u \in Threads : u # t => ~InExchange(u)
AllPairs   == \A x \in Ends : InExchange(x) => size[x] = 2
Order ==
    /\ AllPairs /\ NoneAhead
    /\ \/ Quiet
       \/ \E t \in Threads : /\ Alone(t)
                             /\ LET m == Request(t, asked[t]) IN Before(t, m) \/ Behind(t, m)
InOrder == Disturbed \/ Order

LEMMA OrderInit == Init => Order
<1> SUFFICES ASSUME Init PROVE Order
  OBVIOUS
<1>1. Quiet
  BY LinkAssumption DEF Init, Quiet, InExchange, Ends, Sides, Sending, Receiving
<1>2. AllPairs /\ NoneAhead
  BY DEF Init, AllPairs, NoneAhead, InPast
<1>3. QED
  BY <1>1, <1>2 DEF Order

\* What a complete read of a pack's next part leads to.
PairRead(x, p) ==
    /\ at[x] = "length" => Goto(x, "header", Nothing, 2) /\ UNCHANGED <<got, served>>
    /\ at[x] = "header" => Goto(x, "payload", p, 2) /\ UNCHANGED <<got, served>>
    /\ at[x] = "payload" /\ pack[x] = p =>
         \/ /\ x = Handler /\ served' = served \cup ({p} \cap Requests)
            /\ Goto(x, "sendLength", Reply(p), 2) /\ got' = got
         \/ x # Handler /\ served' = served /\ Finish(x, Cast(x, p))

LEMMA BytesRead ==
    ASSUME NEW x \in Ends, NEW p, p # Blank, p # Nothing, NEW bytes, NEW left, Len(bytes) = 2,
           size[x] = 2, bytes[1].pack = p,
           at[x] \in Receiving, Whole(bytes, at[x]), at[x] = "payload" => pack[x] = p,
           ReceiveHeaderLength(x, bytes, left) \/ ReceiveHeader(x, bytes, left)
              \/ ReceivePayload(x, bytes, left)
    PROVE  wire' = left /\ PairRead(x, p)
<1>1. CASE ReceiveHeaderLength(x, bytes, left)
  <2>1. at[x] = "length" /\ UNCHANGED served
    BY <1>1 DEF ReceiveHeaderLength
  <2>2. ~LengthMayFail(bytes) /\ ~LengthMayThrow(bytes) /\ HeaderLengths(bytes) = {2}
    BY <2>1 DEF LengthMayFail, LengthMayThrow, HeaderLengths
  <2>3. wire' = left /\ Goto(x, "header", Nothing, 2) /\ UNCHANGED got
    BY <1>1, <2>2 DEF ReceiveHeaderLength
  <2>4. QED
    BY <2>1, <2>3 DEF PairRead
<1>2. CASE ReceiveHeader(x, bytes, left)
  <2>1. at[x] = "header" /\ UNCHANGED served
    BY <1>2 DEF ReceiveHeader
  <2>2. /\ ~HeaderMayFail(bytes) /\ ~HeaderMayThrow(bytes)
        /\ Headers(bytes) = {[size |-> 2, pack |-> p]}
    BY <2>1 DEF HeaderMayFail, HeaderMayThrow, Headers
  <2>3. wire' = left /\ Goto(x, "payload", p, 2) /\ UNCHANGED got
    BY <1>2, <2>2 DEF ReceiveHeader
  <2>4. QED
    BY <2>1, <2>3 DEF PairRead
<1>3. CASE ReceivePayload(x, bytes, left)
  <2>1. at[x] = "payload" /\ pack[x] = p
    BY <1>3 DEF ReceivePayload
  <2>2. Messages(p, bytes) = {p}
    <3>1. bytes # << >>
      OBVIOUS
    <3>2. QED
      BY <2>1, <3>1 DEF Messages
  <2>3. \/ /\ x = Handler /\ served' = served \cup ({p} \cap Requests)
           /\ Goto(x, "sendLength", Reply(p), 2) /\ got' = got /\ wire' = left
        \/ x # Handler /\ served' = served /\ Finish(x, Cast(x, p)) /\ wire' = left
    BY <1>3, <2>1, <2>2 DEF ReceivePayload
  <2>4. QED
    BY <2>1, <2>3 DEF PairRead
<1>4. QED
  BY <1>1, <1>2, <1>3

\* A read that is as long as it should be, of a stream that holds parts of one pack.
LEMMA PairReads ==
    ASSUME Types, Order, NEW x \in Ends, Receive(x), ~misread',
           NEW p, p # Blank, p # Nothing, NEW j \in 0..3, Place[at[x]] <= j,
           wire[SideOf(x)] = Parts(p, Place[at[x]], j),
           at[x] = "payload" => pack[x] = p
    PROVE  /\ Place[at[x]] < j /\ PairRead(x, p)
           /\ wire' = [wire EXCEPT ![SideOf(x)] = Parts(p, Place[at[x]] + 1, j)]
<1>1. at[x] \in Receiving
  BY ReceiveComes
<1>2. size[x] = 2
  BY <1>1 DEF Order, AllPairs, InExchange
<1>3. PICK i \in 0..2 : i = Place[at[x]] /\ PartNames[i + 1] = at[x]
  BY <1>1 DEF Place, Receiving, PartNames
<1>4. PICK w : w = wire[SideOf(x)] /\ w = Parts(p, i, j)
  BY <1>3
<1>5. PICK k \in Reads(w, size[x], FarOf(x) \notin open) :
         LET bytes == First(w, k)
             left  == [wire EXCEPT ![SideOf(x)] = Rest(@, k)]
         IN /\ misread' = (misread \/ k < size[x])
            /\ \/ ReceiveHeaderLength(x, bytes, left) \/ ReceiveHeader(x, bytes, left)
               \/ ReceivePayload(x, bytes, left)
  BY <1>4 DEF Receive
<1>6. k = 2 /\ Len(w) >= 2
  <2>1. k \in 0..2 /\ k <= Len(w) /\ ~(k < 2)
    BY <1>2, <1>5 DEF Reads
  <2>2. w \in Seq(Bytes(Packs[SideOf(x)]))
    BY <1>4 DEF Types, WireTypes, SideOf, Sides
  <2>3. Len(w) \in Nat
    BY <2>2
  <2>4. QED
    BY <2>1, <2>3
<1>7. PICK bytes, left : /\ bytes = First(w, 2) /\ left = [wire EXCEPT ![SideOf(x)] = Rest(w, 2)]
                         /\ \/ ReceiveHeaderLength(x, bytes, left) \/ ReceiveHeader(x, bytes, left)
                            \/ ReceivePayload(x, bytes, left)
  BY <1>4, <1>5, <1>6
<1>8. /\ i < j /\ Whole(bytes, PartNames[i + 1]) /\ bytes[1].pack = p /\ Len(bytes) = 2
      /\ Rest(w, 2) = Parts(p, i + 1, j)
  BY <1>3, <1>4, <1>6, <1>7, PartsRead
<1>9. wire' = left /\ PairRead(x, p)
  BY <1>1, <1>2, <1>3, <1>7, <1>8, BytesRead
<1>10. QED
  BY <1>3, <1>7, <1>8, <1>9

\* Where nothing can be read, a read is not complete.
LEMMA NoRead ==
    ASSUME Types, Order, NEW x \in Ends, Receive(x), wire[SideOf(x)] = << >>
    PROVE  misread'
<1>1. at[x] \in Receiving
  BY ReceiveComes
<1>2. size[x] = 2
  BY <1>1 DEF Order, AllPairs, InExchange
<1>3. PICK k \in Reads(<< >>, size[x], FarOf(x) \notin open) : misread' = (misread \/ k < size[x])
  BY DEF Receive
<1>4. k <= 0 /\ k \in 0..2
  BY <1>2, <1>3 DEF Reads
<1>5. k < size[x]
  BY <1>2, <1>4
<1>6. QED
  BY <1>3, <1>5
-----------------------------------------------------------------------------
(* While nothing disturbs the connection: its steps, and those of a call.  *)

CallStep == [Call!Next]_(Call!vars)
Calm     == ~Disturbed /\ ~Disturbed'

LEMMA PlaceFacts ==
    /\ \A s \in Sending :
          /\ Place[s] \in 0..2 /\ PartSent[s] = PartNames[Place[s] + 1]
          /\ \/ After[s] \in Sending /\ Place[After[s]] = Place[s] + 1
             \/ After[s] = "length" /\ Place[s] = 2
    /\ \A s \in Receiving : Place[s] \in 0..2
    /\ Sending \cap Receiving = {} /\ Place["sendLength"] = 0 /\ Place["length"] = 0
    /\ Place["header"] = 1 /\ Place["payload"] = 2
BY DEF Place, Sending, Receiving, PartSent, PartNames, After

LEMMA SentFacts ==
    ASSUME NEW x
    PROVE  SentBy(x) \in 0..3 /\ (SentBy(x) = 3 <=> at[x] \notin Sending)
BY PlaceFacts DEF SentBy

LEMMA PendingFacts ==
    /\ Quiet => Pending = {}
    /\ Quiet' => Pending' = {}
    /\ \A t : Alone(t) /\ InExchange(t) => Pending = {Request(t, asked[t])}
    /\ \A t : Alone(t)' /\ InExchange(t)' => Pending' = {Request(t, asked'[t])}
BY DEF Quiet, Pending, Alone

\* In an exchange there is one thread, and it or the handler is to move.
LEMMA OneExchange ==
    ASSUME Order, NEW u \in Threads, InExchange(u)
    PROVE  LET m == Request(u, asked[u]) IN Alone(u) /\ (Before(u, m) \/ Behind(u, m))
BY DEF Order, Quiet, Alone

LEMMA RequestFacts ==
    ASSUME Types, NEW t \in Threads
    PROVE  LET m == Request(t, asked[t]) IN
           /\ m \in Asks /\ m \in Requests /\ m # Blank /\ m # Nothing
           /\ ReplyTo(m) # Blank /\ ReplyTo(m) # Nothing
           /\ m.from = t /\ m.n = asked[t] /\ Reply(m) = ReplyTo(m) /\ Cast(t, ReplyTo(m)) = ReplyTo(m)
<1>1. Request(t, asked[t]) \in Asks
  BY DEF Asks, Types, CountTypes
<1>2. Request(t, asked[t]) \in Requests /\ ReplyTo(Request(t, asked[t])) \in Answers
  BY <1>1, PackTypes DEF Answers, Taken
<1>3. (ReplyTo(Request(t, asked[t])).type = "queryReply") <=> t \in Queriers
  BY DEF ReplyTo, Request
<1>4. QED
  BY <1>1, <1>2, <1>3, PackTypes DEF Reply, Cast, Request

LEMMA CallMoves ==
    ASSUME Calm, Call!Serve \/ \E t \in Threads : Call!Ask(t) \/ Call!Answer(t)
    PROVE  CallStep
<1>1. Disturbed' = Disturbed /\ ~Disturbed
  BY DEF Calm, Disturbed
<1>2. Call!Next
  BY <1>1 DEF Call!Next
<1>3. QED
  BY <1>2 DEF CallStep

LEMMA NoParts == \A p : p # Blank => \A j \in 0..3 : Parts(p, j, j) = << >>
<1> SUFFICES ASSUME NEW p, p # Blank, NEW j \in 0..3 PROVE Parts(p, j, j) = << >>
  OBVIOUS
<1>1. PICK i \in 0..2 : TRUE
  OBVIOUS
<1>2. QED
  BY <1>1, PartsMoves

LEMMA NextPart ==
    \A p : p # Blank => \A i, j \in 0..2 : i <= j =>
        Parts(p, i, j) \o Part(p, PartNames[j + 1]) = Parts(p, i, j + 1)
<1> SUFFICES ASSUME NEW p, p # Blank, NEW i \in 0..2, NEW j \in 0..2, i <= j
             PROVE  Parts(p, i, j) \o Part(p, PartNames[j + 1]) = Parts(p, i, j + 1)
  OBVIOUS
<1>1. PICK k \in 0..3 : k = j /\ k < 3
  OBVIOUS
<1>2. Parts(p, i, k) \o Part(p, PartNames[k + 1]) = Parts(p, i, k + 1)
  BY <1>1, PartsMoves
<1>3. QED
  BY <1>1, <1>2

LEMMA CalmAsk ==
    ASSUME Types, Past, Sized, InOrder, ~Disturbed', NEW t \in Threads, Ask(t)
    PROVE  Order' /\ CallStep
<1>0. PICK m : m = Request(t, asked[t] + 1)
  OBVIOUS
<1>1. Quiet
  <2> SUFFICES ASSUME ~Quiet PROVE FALSE
    OBVIOUS
  <2>1. ~Disturbed /\ \A u \in Threads : ~InExchange(u)
    BY DEF Ask, Disturbed
  <2>2. \A n : \A u \in Threads : ~Before(u, n) /\ ~Behind(u, n)
    BY <2>1 DEF Before, Behind, InExchange, Receiving
  <2>3. QED
    BY <2>1, <2>2 DEF InOrder, Order
<1>2. \A u \in Threads : ~InExchange(u)
  BY <1>1 DEF Quiet
<1>3. /\ t \in Ends /\ Handler \in Ends /\ Handler # t /\ asked[t] \in Nat
      /\ at[t] = "idle" /\ asked' = [asked EXCEPT ![t] = @ + 1] /\ asked'[t] = asked[t] + 1
      /\ got' = [got EXCEPT ![t] = Nothing] /\ UNCHANGED <<wire, open, served>>
      /\ Goto(t, "sendLength", m, 2)
  BY <1>0, LinkAssumption DEF Ask, Ends, Types, CountTypes
<1>4. /\ at'[t] = "sendLength" /\ at'[Handler] = "length"
      /\ \A u \in Ends : u # t => at'[u] = at[u] /\ size'[u] = size[u]
      /\ size'[t] = 2
  BY <1>1, <1>3 DEF Goto, Types, EndTypes, Quiet
<1>5. m \notin served
  <2>1. m.n = asked[t] + 1 /\ m.from = t
    BY <1>0 DEF Request
  <2>2. QED
    BY <1>3, <2>1 DEF Past, NoneAhead, InPast
<1>6. NoneAhead'
  <2> SUFFICES ASSUME NEW n \in served PROVE InPast(n)'
    BY <1>3 DEF NoneAhead, InPast
  <2>1. n.n \in Nat /\ n.from \in Threads /\ n.n <= asked[n.from]
    BY DEF Types, CountTypes, Requests, Past, NoneAhead, InPast
  <2>2. QED
    BY <1>3, <2>1 DEF Types, CountTypes, InPast
<1>7. AllPairs'
  BY <1>1, <1>2, <1>3, <1>4 DEF AllPairs, InExchange, Sized, Quiet, Ends
<1>8. Alone(t)' /\ InExchange(t)'
  BY <1>2, <1>4 DEF Alone, InExchange, Sending, Ends
<1>9. Before(t, m)'
  <2>1. SentBy(t)' = 0 /\ Place[at'[Handler]] = 0
    BY <1>4, PlaceFacts DEF SentBy, Sending
  <2>2. m # Blank
    <3>1. m \in Asks
      BY <1>0, <1>3 DEF Asks
    <3>2. QED
      BY <3>1, PackTypes
  <2>3. Parts(m, 0, 0) = << >>
    BY <2>2, NoParts
  <2>4. wire'["tracker"] = Parts(m, 0, 0) /\ wire'["client"] = << >>
    BY <1>1, <1>3, <2>3 DEF Quiet
  <2>5. QED
    BY <1>3, <1>4, <1>5, <2>1, <2>4 DEF Before, Sending, Receiving
<1>10. Order'
  BY <1>0, <1>3, <1>6, <1>7, <1>8, <1>9 DEF Order
<1>11. Pending = {} /\ Pending' = {m}
  BY <1>0, <1>1, <1>3, <1>8, PendingFacts
<1>12. (IF Disturbed THEN {} ELSE Pending) = {} /\ (IF Disturbed THEN {} ELSE Pending)' = {m}
  BY <1>11
<1>13. Call!Ask(t)
  BY <1>0, <1>3, <1>12 DEF Call!Ask
<1>14. Call!Next
  BY <1>13 DEF Call!Next
<1>15. QED
  BY <1>10, <1>14 DEF CallStep

\* The steps within an exchange that a caller does not see.
LEMMA CallWaits ==
    ASSUME Calm, NEW t, Alone(t), InExchange(t), Alone(t)', InExchange(t)',
           UNCHANGED <<asked, got, served>>
    PROVE  CallStep
<1>1. Pending' = Pending
  BY PendingFacts
<1>2. Disturbed' = Disturbed
  BY DEF Calm, Disturbed
<1>3. UNCHANGED Call!vars
  BY <1>1, <1>2 DEF Call!vars
<1>4. QED
  BY <1>3 DEF CallStep

\* A step of one end leaves the others where they are.
LEMMA OthersStay ==
    ASSUME Types, NEW x \in Ends, NEW stage, NEW p, Goto(x, stage, p, 2),
           AllPairs, NEW t, Alone(t), x = t \/ x = Handler
    PROVE  /\ at'[x] = stage /\ pack'[x] = p /\ AllPairs' /\ Alone(t)'
           /\ \A y \in Ends : y # x => at'[y] = at[y] /\ pack'[y] = pack[y]
<1>1. /\ at'[x] = stage /\ pack'[x] = p /\ size'[x] = 2
      /\ \A y \in Ends : y # x => at'[y] = at[y] /\ pack'[y] = pack[y] /\ size'[y] = size[y]
  BY DEF Goto, Types, EndTypes
<1>2. AllPairs'
  BY <1>1 DEF AllPairs, InExchange
<1>3. Alone(t)'
  BY <1>1, LinkAssumption DEF Alone, InExchange, Ends
<1>4. QED
  BY <1>1, <1>2, <1>3
LEMMA CalmSends ==
    ASSUME Types, Order, Calm, NEW x \in Ends, Send(x)
    PROVE  Order' /\ CallStep
<1>1. /\ at[x] \in Sending /\ UNCHANGED <<asked, got, served>> /\ FarOf(x) \in open
      /\ Goto(x, After[at[x]], IF at[x] = "sendPayload" THEN Nothing ELSE pack[x], 2)
      /\ wire' = [wire EXCEPT ![FarOf(x)] = @ \o Part(pack[x], PartSent[at[x]])]
  <2>1. FarOf(x) \in open
    BY DEF Calm, Disturbed, FarOf, Sides
  <2>2. QED
    BY <2>1 DEF Send, histVars
<1>2. NoneAhead'
  BY <1>1 DEF Order, NoneAhead, InPast
<1>3. PICK k \in 0..2 : k = SentBy(x) /\ k = Place[at[x]] /\ PartSent[at[x]] = PartNames[k + 1]
  BY <1>1, PlaceFacts DEF SentBy
<1>4. SentBy(x)' = k + 1 /\ at'[x] \in Sending \cup {"length"}
      /\ (at'[x] \in Sending => pack'[x] = pack[x])
  <2>1. at'[x] = After[at[x]] /\ (at[x] # "sendPayload" => pack'[x] = pack[x])
    BY <1>1 DEF Goto, Types, EndTypes
  <2>2. at[x] = "sendPayload" => After[at[x]] = "length"
    BY DEF After
  <2>3. QED
    BY <1>1, <1>3, <2>1, <2>2, PlaceFacts DEF SentBy, Receiving
<1>5. ASSUME x # Handler PROVE Order' /\ CallStep
  <2>1. x \in Threads /\ InExchange(x) /\ Handler \in Ends /\ FarOf(x) = "tracker" /\ "client" # "tracker"
    BY <1>1, <1>5 DEF Ends, InExchange, FarOf
  <2>2. PICK m : m = Request(x, asked[x])
    OBVIOUS
  <2>3. Alone(x) /\ Before(x, m) /\ m # Blank
    <3>1. Alone(x) /\ (Before(x, m) \/ Behind(x, m))
      BY <2>1, <2>2, OneExchange
    <3>2. ~Behind(x, m)
      BY <1>1, PlaceFacts DEF Behind
    <3>3. QED
      BY <2>1, <2>2, <3>1, <3>2, RequestFacts
  <2>4. /\ AllPairs' /\ Alone(x)' /\ at'[Handler] = at[Handler] /\ pack'[Handler] = pack[Handler]
    BY <1>1, <1>5, <2>1, <2>3, OthersStay DEF Order
  <2>5. InExchange(x)'
    BY <1>4 DEF InExchange, Sending, Receiving
  <2>6. pack[x] = m
    BY <1>1, <1>5, <2>2 DEF Types, EndTypes, PackRight
  <2>7. wire'["tracker"] = Parts(m, Place[at[Handler]], k + 1) /\ wire'["client"] = << >>
    <3>1. PICK i \in 0..2 : i = Place[at[Handler]] /\ i <= k
      BY <1>3, <2>3, PlaceFacts DEF Before
    <3>2. wire["tracker"] = Parts(m, i, k) /\ wire["client"] = << >>
      BY <1>3, <2>3, <3>1 DEF Before
    <3>3. Parts(m, i, k) \o Part(m, PartNames[k + 1]) = Parts(m, i, k + 1)
      BY <2>3, <3>1, NextPart
    <3>4. wire'["tracker"] = wire["tracker"] \o Part(m, PartNames[k + 1]) /\ wire'["client"] = wire["client"]
      BY <1>1, <1>3, <2>1, <2>6 DEF Types, WireTypes, Sides
    <3>5. QED
      BY <3>1, <3>2, <3>3, <3>4
  <2>8. Before(x, m)'
    <3>1. Place[at[Handler]] \in 0..2 /\ Place[at[Handler]] <= k
      BY <1>3, <2>3, PlaceFacts DEF Before
    <3>2. QED
      BY <1>1, <1>4, <2>3, <2>4, <2>7, <3>1 DEF Before
  <2>9. Order'
    BY <1>1, <1>2, <2>1, <2>2, <2>4, <2>8 DEF Order
  <2>10. CallStep
    BY <1>1, <2>1, <2>3, <2>4, <2>5, CallWaits
  <2>11. QED
    BY <2>9, <2>10
<1>6. ASSUME x = Handler PROVE Order' /\ CallStep
  <2>1. FarOf(x) = "client" /\ "client" # "tracker"
    BY <1>6 DEF FarOf
  <2>2. PICK t \in Threads : Alone(t) /\ Behind(t, Request(t, asked[t]))
    <3>1. \A m : \A t \in Threads : ~Before(t, m)
      BY <1>1, <1>6, PlaceFacts DEF Before
    <3>2. ~Quiet
      BY <1>1, <1>6, PlaceFacts DEF Quiet, Receiving
    <3>3. QED
      BY <3>1, <3>2 DEF Order
  <2>3. PICK m : m = Request(t, asked[t])
    OBVIOUS
  <2>4. PICK r : r = ReplyTo(m) /\ r # Blank
    BY <2>3, RequestFacts
  <2>5. /\ AllPairs' /\ Alone(t)' /\ at'[t] = at[t] /\ pack'[t] = pack[t]
        /\ t \in Ends /\ t # x
    <3>1. t \in Ends /\ t # x
      BY <1>6, LinkAssumption DEF Ends
    <3>2. QED
      BY <1>1, <1>6, <2>2, <3>1, OthersStay DEF Order
  <2>6. InExchange(t) /\ InExchange(t)'
    BY <2>2, <2>5 DEF Behind, InExchange
  <2>7. pack[x] = r
    BY <1>1, <1>6, <2>2, <2>3, <2>4 DEF Behind
  <2>8. wire'["client"] = Parts(r, Place[at[t]], k + 1) /\ wire'["tracker"] = << >>
    <3>1. PICK i \in 0..2 : i = Place[at[t]] /\ i <= k
      BY <1>3, <1>6, <2>2, PlaceFacts DEF Behind
    <3>2. wire["client"] = Parts(r, i, k) /\ wire["tracker"] = << >>
      BY <1>3, <1>6, <2>2, <2>3, <2>4, <3>1 DEF Behind
    <3>3. Parts(r, i, k) \o Part(r, PartNames[k + 1]) = Parts(r, i, k + 1)
      BY <2>4, <3>1, NextPart
    <3>4. wire'["client"] = wire["client"] \o Part(r, PartNames[k + 1]) /\ wire'["tracker"] = wire["tracker"]
      BY <1>1, <1>3, <2>1, <2>7 DEF Types, WireTypes, Sides
    <3>5. QED
      BY <3>1, <3>2, <3>3, <3>4
  <2>9. Behind(t, m)'
    <3>1. Place[at[t]] \in 0..2 /\ Place[at[t]] <= k
      BY <1>3, <1>6, <2>2, PlaceFacts DEF Behind
    <3>2. QED
      BY <1>1, <1>4, <1>6, <2>2, <2>3, <2>4, <2>5, <2>7, <2>8, <3>1 DEF Behind
  <2>10. Order'
    BY <1>1, <1>2, <2>3, <2>5, <2>9 DEF Order
  <2>11. CallStep
    BY <1>1, <2>2, <2>5, <2>6, CallWaits
  <2>12. QED
    BY <2>10, <2>11
<1>7. QED
  BY <1>5, <1>6

\* Who can read: the handler before it has the request, the thread when it has been served.
LEMMA CalmReader ==
    ASSUME Types, Order, Calm, NEW x \in Ends, Receive(x)
    PROVE  \E t \in Threads :
             LET m == Request(t, asked[t]) IN
             /\ Alone(t) /\ (x = Handler => Before(t, m)) /\ (x # Handler => x = t /\ Behind(t, m))
<1>1. at[x] \in Receiving /\ wire[SideOf(x)] # << >>
  BY ReceiveComes, NoRead DEF Calm, Disturbed
<1>2. CASE x = Handler
  <2>1. SideOf(x) = "tracker"
    BY <1>2 DEF SideOf
  <2>2. ~Quiet /\ \A m : \A t \in Threads : ~Behind(t, m)
    BY <1>1, <2>1 DEF Quiet, Behind
  <2>3. QED
    BY <1>2, <2>2 DEF Order
<1>3. CASE x # Handler
  <2>1. SideOf(x) = "client" /\ x \in Threads /\ InExchange(x)
    BY <1>1, <1>3 DEF SideOf, Ends, InExchange
  <2>2. \A m : ~Before(x, m)
    BY <1>1, <2>1 DEF Before
  <2>3. QED
    BY <1>3, <2>1, <2>2, OneExchange
<1>4. QED
  BY <1>2, <1>3

LEMMA CalmServes ==
    ASSUME Types, Order, Calm, Receive(Handler), Handler \in Ends
    PROVE  Order' /\ CallStep
<1>1. PICK t \in Threads : Alone(t) /\ Before(t, Request(t, asked[t]))
  BY CalmReader
<1>2. PICK m : m = Request(t, asked[t])
  OBVIOUS
<1>3. /\ m \in Requests /\ m # Blank /\ m # Nothing /\ m.from = t /\ m.n = asked[t]
      /\ Reply(m) = ReplyTo(m) /\ ReplyTo(m) # Blank
  BY <1>2, RequestFacts
<1>4. PICK j \in 0..3 : j = SentBy(t) /\ (j = 3 => at[t] = "length")
  BY <1>1, SentFacts DEF Before
<1>5. /\ Place[at[Handler]] < j /\ PairRead(Handler, m)
      /\ wire' = [wire EXCEPT !["tracker"] = Parts(m, Place[at[Handler]] + 1, j)]
  <2>1. SideOf(Handler) = "tracker" /\ ~misread'
    BY DEF SideOf, Calm, Disturbed
  <2>2. /\ Place[at[Handler]] <= j /\ wire[SideOf(Handler)] = Parts(m, Place[at[Handler]], j)
        /\ at[Handler] = "payload" => pack[Handler] = m
    BY <1>1, <1>2, <1>4, <2>1 DEF Before
  <2>3. QED
    BY <1>3, <2>1, <2>2, PairReads
<1>6. /\ at[Handler] \in Receiving /\ asked' = asked /\ t \in Ends /\ t # Handler
      /\ "client" \in Sides /\ "tracker" \in Sides /\ "client" # "tracker"
  BY ReceiveComes, LinkAssumption DEF Ends, Sides
<1>7. wire'["tracker"] = Parts(m, Place[at[Handler]] + 1, j) /\ wire'["client"] = << >>
  BY <1>1, <1>5, <1>6 DEF Before, Types, WireTypes
<1>8. ASSUME NEW stage, NEW p, Goto(Handler, stage, p, 2)
      PROVE  /\ at'[Handler] = stage /\ pack'[Handler] = p /\ AllPairs' /\ Alone(t)'
             /\ at'[t] = at[t] /\ SentBy(t)' = j /\ InExchange(t) /\ InExchange(t)'
  <2>1. /\ at'[Handler] = stage /\ pack'[Handler] = p /\ AllPairs' /\ Alone(t)' /\ at'[t] = at[t]
    BY <1>1, <1>6, <1>8, OthersStay DEF Order
  <2>2. SentBy(t)' = j
    BY <1>4, <2>1 DEF SentBy
  <2>3. InExchange(t) /\ InExchange(t)'
    BY <1>1, <2>1 DEF Before, InExchange, Receiving
  <2>4. QED
    BY <2>1, <2>2, <2>3
<1>9. ASSUME at[Handler] \in {"length", "header"} PROVE Order' /\ CallStep
  <2>1. UNCHANGED <<got, served>>
    BY <1>5, <1>9 DEF PairRead
  <2>2. PICK stage, p : /\ Goto(Handler, stage, p, 2) /\ stage \in {"header", "payload"}
                       /\ Place[stage] = Place[at[Handler]] + 1 /\ (stage = "payload" => p = m)
    BY <1>5, <1>9, PlaceFacts DEF PairRead
  <2>3. /\ at'[Handler] = stage /\ pack'[Handler] = p /\ AllPairs' /\ Alone(t)'
        /\ at'[t] = at[t] /\ SentBy(t)' = j /\ InExchange(t) /\ InExchange(t)'
    BY <1>8, <2>2
  <2>4. Before(t, m)'
    <3>1. Place[stage] <= j
      BY <1>4, <1>5, <1>9, <2>2, PlaceFacts
    <3>2. wire'["tracker"] = Parts(m, Place[stage], j)
      BY <1>7, <2>2
    <3>3. QED
      BY <1>1, <1>2, <1>7, <2>1, <2>2, <2>3, <3>1, <3>2 DEF Before, Receiving
  <2>5. Order'
    <3>1. NoneAhead'
      BY <1>6, <2>1 DEF Order, NoneAhead, InPast
    <3>2. m = Request(t, asked'[t])
      BY <1>2, <1>6
    <3>3. QED
      BY <2>3, <2>4, <3>1, <3>2 DEF Order
  <2>6. CallStep
    BY <1>1, <1>6, <2>1, <2>3, CallWaits
  <2>7. QED
    BY <2>5, <2>6
<1>10. ASSUME at[Handler] = "payload" PROVE Order' /\ CallStep
  <2>1. /\ served' = served \cup {m} /\ got' = got
        /\ Goto(Handler, "sendLength", ReplyTo(m), 2)
    <3>1. pack[Handler] = m
      BY <1>1, <1>2, <1>10 DEF Before
    <3>2. QED
      BY <1>3, <1>5, <1>10, <3>1 DEF PairRead
  <2>2. /\ at'[Handler] = "sendLength" /\ pack'[Handler] = ReplyTo(m) /\ AllPairs' /\ Alone(t)'
        /\ at'[t] = at[t] /\ InExchange(t) /\ InExchange(t)'
    BY <1>8, <2>1
  <2>3. j = 3 /\ at[t] = "length"
    BY <1>4, <1>5, <1>10, PlaceFacts
  <2>4. Behind(t, m)'
    <3>1. wire'["tracker"] = << >>
      BY <1>3, <1>7, <1>10, <2>3, PlaceFacts, NoParts
    <3>2. SentBy(Handler)' = 0 /\ Place[at'[t]] = 0
      BY <2>2, <2>3, PlaceFacts DEF SentBy, Sending
    <3>3. wire'["client"] = Parts(ReplyTo(m), 0, 0)
      BY <1>3, <1>7, NoParts
    <3>4. QED
      BY <2>1, <2>2, <2>3, <3>1, <3>2, <3>3 DEF Behind, Sending, Receiving
  <2>5. Order'
    <3>1. NoneAhead'
      <4>1. m.n <= asked'[m.from]
        BY <1>3, <1>6 DEF Types, CountTypes
      <4>2. QED
        BY <1>6, <2>1, <4>1 DEF Order, NoneAhead, InPast
    <3>2. m = Request(t, asked'[t])
      BY <1>2, <1>6
    <3>3. QED
      BY <2>2, <2>4, <3>1, <3>2 DEF Order
  <2>6. CallStep
    <3>1. Pending = {m} /\ Pending' = {m}
      BY <1>1, <1>2, <1>6, <2>2, PendingFacts
    <3>2. m \notin served
      BY <1>1, <1>2 DEF Before
    <3>3. Call!Serve
      BY <1>6, <2>1, <3>1, <3>2 DEF Calm, Call!Serve
    <3>4. QED
      BY <3>3, CallMoves
  <2>7. QED
    BY <2>5, <2>6
<1>11. QED
  BY <1>6, <1>9, <1>10 DEF Receiving

LEMMA CalmAnswers ==
    ASSUME Types, Order, Calm, NEW x \in Ends, Receive(x), x # Handler
    PROVE  Order' /\ CallStep
<1>1. PICK t \in Threads : Alone(t) /\ Behind(t, Request(t, asked[t])) /\ x = t
  BY CalmReader
<1>2. PICK m : m = Request(t, asked[t])
  OBVIOUS
<1>3. PICK r : r = ReplyTo(m) /\ r # Blank /\ r # Nothing /\ Cast(t, r) = r
  BY <1>2, RequestFacts
<1>4. PICK j \in 0..3 : j = SentBy(Handler) /\ (j = 3 => at[Handler] = "length")
  BY <1>1, SentFacts DEF Behind
<1>5. /\ Place[at[t]] < j /\ PairRead(t, r)
      /\ wire' = [wire EXCEPT !["client"] = Parts(r, Place[at[t]] + 1, j)]
  <2>1. SideOf(t) = "client" /\ ~misread'
    BY <1>1 DEF SideOf, Calm, Disturbed
  <2>2. /\ Place[at[t]] <= j /\ wire[SideOf(t)] = Parts(r, Place[at[t]], j)
        /\ at[t] = "payload" => pack[t] = r
    BY <1>1, <1>2, <1>3, <1>4, <2>1 DEF Behind
  <2>3. Receive(t) /\ t \in Ends
    BY <1>1
  <2>4. /\ Place[at[t]] < j /\ PairRead(t, r)
        /\ wire' = [wire EXCEPT ![SideOf(t)] = Parts(r, Place[at[t]] + 1, j)]
    <3>1. r # Blank /\ r # Nothing
      BY <1>3
    <3>2. QED
      BY <2>1, <2>2, <2>3, <3>1, PairReads
  <2>5. QED
    BY <2>1, <2>4
<1>6. /\ at[t] \in Receiving /\ asked' = asked /\ t \in Ends /\ t # Handler /\ Handler \in Ends
      /\ "client" \in Sides /\ "tracker" \in Sides /\ "client" # "tracker" /\ InExchange(t)
  BY <1>1, ReceiveComes, LinkAssumption DEF Ends, Sides, InExchange
<1>7. wire'["client"] = Parts(r, Place[at[t]] + 1, j) /\ wire'["tracker"] = << >>
  BY <1>1, <1>5, <1>6 DEF Behind, Types, WireTypes
<1>8. ASSUME NEW stage, NEW p, Goto(t, stage, p, 2)
      PROVE  /\ at'[t] = stage /\ pack'[t] = p /\ AllPairs' /\ Alone(t)'
             /\ at'[Handler] = at[Handler] /\ pack'[Handler] = pack[Handler]
  BY <1>1, <1>6, <1>8, OthersStay DEF Order
<1>9. ASSUME at[t] \in {"length", "header"} PROVE Order' /\ CallStep
  <2>1. UNCHANGED <<got, served>>
    BY <1>5, <1>9 DEF PairRead
  <2>2. PICK stage, p : /\ Goto(t, stage, p, 2) /\ stage \in {"header", "payload"}
                       /\ Place[stage] = Place[at[t]] + 1 /\ (stage = "payload" => p = r)
    BY <1>5, <1>9, PlaceFacts DEF PairRead
  <2>3. /\ at'[t] = stage /\ pack'[t] = p /\ AllPairs' /\ Alone(t)'
        /\ at'[Handler] = at[Handler] /\ pack'[Handler] = pack[Handler]
    BY <1>8, <2>2
  <2>4. SentBy(Handler)' = j
    BY <1>4, <2>3 DEF SentBy
  <2>5. Behind(t, m)'
    <3>1. Place[stage] <= j
      BY <1>4, <1>5, <1>9, <2>2, PlaceFacts
    <3>2. wire'["client"] = Parts(r, Place[stage], j)
      BY <1>7, <2>2
    <3>3. QED
      BY <1>1, <1>2, <1>3, <1>7, <2>1, <2>2, <2>3, <2>4, <3>1, <3>2 DEF Behind, Receiving
  <2>6. Order'
    <3>1. NoneAhead'
      BY <1>6, <2>1 DEF Order, NoneAhead, InPast
    <3>2. m = Request(t, asked'[t])
      BY <1>2, <1>6
    <3>3. QED
      BY <2>3, <2>5, <3>1, <3>2 DEF Order
  <2>7. InExchange(t)'
    BY <2>2, <2>3 DEF InExchange, Receiving
  <2>8. CallStep
    BY <1>1, <1>6, <2>1, <2>3, <2>7, CallWaits
  <2>9. QED
    BY <2>6, <2>8
<1>10. ASSUME at[t] = "payload" PROVE Order' /\ CallStep
  <2>1. served' = served /\ Finish(t, r)
    <3>1. pack[t] = r
      BY <1>1, <1>2, <1>3, <1>10 DEF Behind
    <3>2. QED
      BY <1>3, <1>5, <1>6, <1>10, <3>1 DEF PairRead
  <2>2. got' = [got EXCEPT ![t] = r] /\ Goto(t, "idle", Nothing, 2)
    BY <1>3, <2>1 DEF Finish
  <2>3. /\ at'[t] = "idle" /\ AllPairs' /\ Alone(t)' /\ at'[Handler] = at[Handler]
    BY <1>8, <2>2
  <2>4. j = 3 /\ at[Handler] = "length"
    BY <1>4, <1>5, <1>10, PlaceFacts
  <2>5. Quiet'
    <3>1. wire'["client"] = << >>
      BY <1>3, <1>7, <1>10, <2>4, PlaceFacts, NoParts
    <3>2. \A u \in Threads : ~InExchange(u)'
      BY <2>3 DEF Alone, InExchange, Sending, Receiving
    <3>3. QED
      BY <1>7, <2>3, <2>4, <3>1, <3>2 DEF Quiet
  <2>6. Order'
    <3>1. NoneAhead'
      BY <1>6, <2>1 DEF Order, NoneAhead, InPast
    <3>2. QED
      BY <2>3, <2>5, <3>1 DEF Order
  <2>7. CallStep
    <3>1. Pending = {m} /\ Pending' = {}
      BY <1>1, <1>2, <1>6, <2>5, PendingFacts
    <3>2. m \in served
      BY <1>1, <1>2 DEF Behind
    <3>3. Call!Answer(t)
      BY <1>2, <1>3, <1>6, <2>1, <2>2, <3>1, <3>2 DEF Calm, Call!Answer
    <3>4. QED
      BY <1>1, <3>3, CallMoves
  <2>8. QED
    BY <2>6, <2>7
<1>11. QED
  BY <1>6, <1>9, <1>10 DEF Receiving

\* What was disturbed stays so until somebody asks, and then nothing is promised.
LEMMA DisturbedStays ==
    ASSUME Types, [Next]_vars, \A t \in Threads : ~Ask(t), Disturbed
    PROVE  Disturbed'
<1>1. CASE UNCHANGED vars
  BY <1>1 DEF vars, histVars, Disturbed
<1>2. CASE Stop
  BY <1>2 DEF Stop, CloseTracker, Disturbed, histVars, Sides, Types, WireTypes
<1>3. CASE Exit
  BY <1>3 DEF Exit, Disturbed, histVars, Sides
<1>4. ASSUME NEW x \in Ends, Send(x) PROVE Disturbed'
  BY <1>4 DEF Send, Disturbed, histVars
<1>5. ASSUME NEW x \in Ends, Receive(x) PROVE Disturbed'
  <2>1. misread => misread'
    BY <1>5 DEF Receive
  <2>2. overlapped' = overlapped /\ Shrinks
    BY <1>5, ReceiveComes
  <2>3. open' # Sides \/ open = Sides
    BY <2>2 DEF Shrinks, Types, WireTypes
  <2>4. QED
    BY <2>1, <2>2, <2>3 DEF Disturbed
<1>6. ASSUME NEW x \in Ends, Reset(x) PROVE Disturbed'
  BY <1>6 DEF Reset, Disturbed
<1>7. QED
  BY <1>1, <1>2, <1>3, <1>4, <1>5, <1>6 DEF Next, Step

LEMMA CallSteps ==
    ASSUME Types, Past, Sized, InOrder, [Next]_vars
    PROVE  InOrder' /\ CallStep
<1>1. CASE Disturbed'
  <2>1. Call!Next
    BY <1>1 DEF Call!Next
  <2>2. QED
    BY <1>1, <2>1 DEF InOrder, CallStep
<1>2. ASSUME ~Disturbed', NEW t \in Threads, Ask(t) PROVE InOrder' /\ CallStep
  BY <1>2, CalmAsk DEF InOrder
<1>3. CASE ~Disturbed' /\ \A t \in Threads : ~Ask(t)
  <2>1. Calm /\ Order
    BY <1>3, DisturbedStays DEF Calm, InOrder
  <2>2. Order' /\ CallStep
    <3>1. CASE UNCHANGED vars
      <4>1. Order'
        BY <2>1, <3>1 DEF vars, histVars, Order, AllPairs, NoneAhead, InPast, Quiet, Alone, Before, Behind,
                          InExchange, SentBy
      <4>2. Pending' = Pending /\ Disturbed' = Disturbed
        BY <3>1 DEF vars, histVars, Pending, InExchange, Disturbed
      <4>3. CallStep
        BY <3>1, <4>2 DEF CallStep, Call!vars, vars, histVars
      <4>4. QED
        BY <4>1, <4>3
    <3>2. ~Stop
      BY <1>3 DEF Stop, CloseTracker, Disturbed, Sides
    <3>3. ~Exit
      BY <1>3 DEF Exit, Disturbed, Sides
    <3>4. ASSUME NEW x \in Ends, Send(x) PROVE Order' /\ CallStep
      BY <2>1, <3>4, CalmSends
    <3>5. ASSUME NEW x \in Ends, Receive(x) PROVE Order' /\ CallStep
      BY <2>1, <3>5, CalmServes, CalmAnswers
    <3>6. \A x \in Ends : ~Reset(x)
      BY <1>3 DEF Reset, Disturbed
    <3>7. QED
      BY <1>3, <3>1, <3>2, <3>3, <3>4, <3>5, <3>6 DEF Next, Step
  <2>3. QED
    BY <2>2 DEF InOrder
<1>4. QED
  BY <1>1, <1>2, <1>3

LEMMA CallInit == Init => Call!Init
<1> SUFFICES ASSUME Init PROVE Call!Init
  OBVIOUS
<1>1. Pending = {}
  <2>1. \A t \in Threads : at[t] = "idle"
    BY LinkAssumption DEF Init, Ends
  <2>2. QED
    BY <2>1 DEF Pending, InExchange, Sending, Receiving
<1>2. Disturbed = FALSE
  BY DEF Init, Disturbed
<1>3. QED
  BY <1>1, <1>2 DEF Init, Call!Init

\* From each request that finds the connection quiet, and while no two exchanges overlap,
\* every read is complete and nobody closes the connection, handle_reply_message is a call,
\* whatever was read wrong or overlapped before that request, and whatever the order in
\* which the ends run and the number of threads and of their requests: a request is
\* processed once, and its own reply comes back before the next one is made.
THEOREM LinkIsCallAlways == Spec => LinkIsCall
<1>1. Spec => []Types
  <2>1. Init => Types
    BY TypesInit
  <2>2. Types /\ [Next]_vars => Types'
    BY TypesStep
  <2>3. QED
    BY <2>1, <2>2, PTL DEF Spec
<1>2. Init => (Past /\ Sized /\ InOrder) /\ Call!Init
  BY OrderInit, CallInit, QuietInit DEF InOrder
<1>3. Types /\ (Past /\ Sized /\ InOrder) /\ [Next]_vars
         => (Past /\ Sized /\ InOrder)' /\ [Call!Next]_(Call!vars)
  BY PastStep, SizedStep, CallSteps DEF CallStep
<1>4. QED
  BY <1>1, <1>2, <1>3, PTL DEF Spec, LinkIsCall, Call!Spec
-----------------------------------------------------------------------------
(* Reads that cut what was sent.  After a short read that neither ends the *)
(* exchange nor closes the connection, the request or the reply is lost,   *)
(* and something is on its way to the end that has to find out.            *)

\* The handler has read half a header; it is about to answer nothing with Blank, or
\* Blank is the next pack on its way; the thread has read half a header.
CutRequest(t) == /\ at[t] \in Sending \cup {"length"} /\ size[t] = 2 /\ wire["client"] = << >>
                 /\ at[Handler] = "payload" /\ pack[Handler] = Nothing
                 /\ wire["tracker"] # << >>
BlankFirst == /\ Len(wire["client"]) >= 2
              /\ \A i \in 1..2 : wire["client"][i] = [pack |-> Blank, part |-> "length", half |-> i]
CutBlank(t) == /\ at[t] \in Sending \cup {"length"} /\ size[t] = 2
               /\ \/ wire["client"] = << >> /\ at[Handler] = "sendLength" /\ pack[Handler] = Blank
                  \/ BlankFirst
CutReply(t) == at[t] = "payload" /\ pack[t] = Nothing /\ wire["client"] # << >>

Stray(t) == Alone(t) /\ (CutRequest(t) \/ CutBlank(t) \/ CutReply(t))
Fresh    == ~failed /\ ~overlapped /\ open = Sides
StrayInv == Fresh /\ misread => \E t \in Threads : Stray(t)

\* A read that gives no error and no exception.
Reading(x, k) ==
    LET bytes == First(wire[SideOf(x)], k) IN
    \/ at[x] = "length" /\ \E n \in HeaderLengths(bytes) : Goto(x, "header", Nothing, n)
    \/ at[x] = "header" /\ \E h \in Headers(bytes) : Goto(x, "payload", h.pack, h.size)
    \/ /\ at[x] = "payload" /\ k = size[x]
       /\ \E m \in Messages(pack[x], bytes) :
             \/ x = Handler /\ Goto(x, "sendLength", Reply(m), 2)
             \/ x # Handler /\ Cast(x, m) # Nothing /\ Goto(x, "idle", Nothing, 2)

LEMMA FailsOrCloses ==
    ASSUME NEW x, NEW left, Error(x, left) \/ Throw(x, left), open' = Sides
    PROVE  failed'
BY DEF Error, Throw, CloseTracker, Finish, Die, Sides

LEMMA ReadsOn ==
    ASSUME Types, NEW x \in Ends, Receive(x), open = Sides, open' = Sides, ~failed'
    PROVE  \E k \in 0..Len(wire[SideOf(x)]) :
              /\ k <= size[x] /\ (k > 0 \/ size[x] = 0)
              /\ misread' = (misread \/ k < size[x])
              /\ wire' = [wire EXCEPT ![SideOf(x)] = Rest(@, k)]
              /\ Reading(x, k)
<1> DEFINE s == SideOf(x)
<1>1. PICK k \in Reads(wire[s], size[x], FarOf(x) \notin open) :
         LET bytes == First(wire[s], k)
             left  == [wire EXCEPT ![s] = Rest(@, k)]
         IN /\ misread' = (misread \/ k < size[x])
            /\ \/ ReceiveHeaderLength(x, bytes, left) \/ ReceiveHeader(x, bytes, left)
               \/ ReceivePayload(x, bytes, left)
  BY DEF Receive
<1> DEFINE bytes == First(wire[s], k)
           left  == [wire EXCEPT ![s] = Rest(@, k)]
<1>2. s \in Sides /\ k \in 0..Len(wire[s]) /\ Len(bytes) = k
  BY ReadFacts
<1>3. k <= size[x] /\ (k > 0 \/ size[x] = 0)
  <2>1. FarOf(x) \in open
    BY DEF FarOf, Sides
  <2>2. size[x] \in Nat
    BY DEF Types, EndTypes
  <2>3. QED
    BY <2>1, <2>2 DEF Reads
<1> HIDE DEF bytes, left
<1>4. ~Error(x, left) /\ ~Throw(x, left)
  BY FailsOrCloses
<1>5. /\ misread' = (misread \/ k < size[x])
      /\ \/ ReceiveHeaderLength(x, bytes, left) \/ ReceiveHeader(x, bytes, left)
         \/ ReceivePayload(x, bytes, left)
  BY <1>1 DEF bytes, left
<1>6. CASE ReceiveHeaderLength(x, bytes, left)
  <2>1. wire' = left /\ Reading(x, k)
    BY <1>4, <1>6 DEF ReceiveHeaderLength, Reading, bytes
  <2>2. QED
    BY <1>2, <1>3, <1>5, <2>1 DEF left
<1>7. CASE ReceiveHeader(x, bytes, left)
  <2>1. wire' = left /\ Reading(x, k)
    BY <1>4, <1>7 DEF ReceiveHeader, Reading, bytes
  <2>2. QED
    BY <1>2, <1>3, <1>5, <2>1 DEF left
<1>8. CASE ReceivePayload(x, bytes, left)
  <2>1. at[x] = "payload" /\ wire' = left /\ Len(bytes) = size[x]
    BY <1>4, <1>8 DEF ReceivePayload
  <2>2. PICK m \in Messages(pack[x], bytes) :
             \/ x = Handler /\ Goto(x, "sendLength", Reply(m), 2)
             \/ x # Handler /\ Finish(x, Cast(x, m))
    BY <1>4, <1>8 DEF ReceivePayload
  <2>3. x # Handler /\ Finish(x, Cast(x, m)) => Cast(x, m) # Nothing /\ Goto(x, "idle", Nothing, 2)
    BY DEF Finish
  <2>4. Reading(x, k)
    BY <1>2, <2>1, <2>2, <2>3 DEF Reading, bytes
  <2>5. QED
    BY <1>2, <1>3, <1>5, <2>1, <2>4 DEF left
<1>9. QED
  BY <1>5, <1>6, <1>7, <1>8

\* One unit is no part, and nothing is no message.
LEMMA CutRead ==
    ASSUME NEW bytes, Len(bytes) < 2
    PROVE  /\ HeaderLengths(bytes) = {}
           /\ bytes # << >> => \A h \in Headers(bytes) : h.pack = Nothing
<1>1. \A part : ~Whole(bytes, part)
  BY DEF Whole
<1>2. QED
  BY <1>1 DEF HeaderLengths, Headers

\* What is behind the first unit of a part.
LEMMA RestNotEmpty ==
    ASSUME NEW S, NEW w \in Seq(S), Len(w) >= 2
    PROVE  Rest(w, 1) # << >>
<1>1. 1 \in 0..Len(w)
  OBVIOUS
<1>2. Len(Rest(w, 1)) = Len(w) - 1
  BY <1>1, RestFacts
<1>3. QED
  BY <1>2

\* The first short read: half of a header.
LEMMA FirstStray ==
    ASSUME Types, Order, NEW x \in Ends, Receive(x), open = Sides, open' = Sides, ~failed',
           ~misread, misread'
    PROVE  \E t \in Threads : Stray(t)'
<1>1. at[x] \in Receiving /\ InExchange(x) /\ size[x] = 2
  BY ReceiveComes DEF Order, AllPairs, InExchange
<1>2. PICK k \in 0..Len(wire[SideOf(x)]) :
              /\ k <= size[x] /\ (k > 0 \/ size[x] = 0)
              /\ misread' = (misread \/ k < size[x])
              /\ wire' = [wire EXCEPT ![SideOf(x)] = Rest(@, k)]
              /\ Reading(x, k)
  BY ReadsOn
<1>3. k = 1
  <2>1. k < size[x]
    BY <1>2
  <2>2. wire[SideOf(x)] \in Seq(Bytes(Packs[SideOf(x)]))
    BY DEF Types, WireTypes, SideOf, Sides
  <2>3. k < 2 /\ k > 0 /\ k \in Nat
    BY <1>1, <1>2, <2>1, <2>2
  <2>4. QED
    BY <2>3
<1>4. wire[SideOf(x)] \in Seq(Bytes(Packs[SideOf(x)])) /\ SideOf(x) \in Sides
  BY DEF Types, WireTypes, SideOf, Sides
<1>5. PICK bytes : /\ bytes = First(wire[SideOf(x)], 1) /\ Len(bytes) = 1
                   /\ bytes \in Seq(Bytes(Packs[SideOf(x)]))
  <2>1. 1 \in 0..Len(wire[SideOf(x)])
    BY <1>2, <1>3
  <2>2. QED
    BY <1>4, <2>1, FirstFacts
<1>6. PICK n : /\ at[x] = "header" /\ Goto(x, "payload", Nothing, n)
  <2>1. bytes # << >> /\ Len(bytes) < 2
    <3>1. Len(bytes) = 1 /\ Len(<< >>) = 0
      BY <1>5
    <3>2. QED
      BY <3>1
  <2>2. HeaderLengths(bytes) = {} /\ \A h \in Headers(bytes) : h.pack = Nothing
    BY <2>1, CutRead
  <2>3. QED
    BY <1>1, <1>2, <1>3, <1>5, <2>2 DEF Reading
<1>7. /\ at'[x] = "payload" /\ pack'[x] = Nothing
      /\ \A y \in Ends : y # x => at'[y] = at[y] /\ pack'[y] = pack[y] /\ size'[y] = size[y]
  BY <1>6 DEF Goto, Types, EndTypes
<1>8. wire'[SideOf(x)] = Rest(wire[SideOf(x)], 1)
      /\ \A s \in Sides : s # SideOf(x) => wire'[s] = wire[s]
  BY <1>2, <1>3, <1>4 DEF Types, WireTypes
<1>9. ASSUME NEW p, p # Blank, NEW j \in 0..3, wire[SideOf(x)] = Parts(p, 1, j), 1 <= j
      PROVE  wire'[SideOf(x)] # << >>
  <2>1. j # 1
    <3>1. Parts(p, 1, 1) = << >>
      BY <1>9, NoParts
    <3>2. wire[SideOf(x)] # << >>
      BY <1>2, <1>3, <1>4
    <3>3. QED
      BY <1>9, <3>1, <3>2
  <2>2. PICK a, b : a = Part(p, PartNames[2]) /\ b = Parts(p, 2, j) /\ Parts(p, 1, j) = a \o b
    <3>1. PICK i \in 0..2 : i = 1 /\ i < j
      BY <1>9, <2>1
    <3>2. Parts(p, i, j) = Part(p, PartNames[i + 1]) \o Parts(p, i + 1, j)
      BY <1>9, <3>1, PartsMoves
    <3>3. QED
      BY <3>1, <3>2
  <2>3. a \in Seq(Bytes({p})) /\ Len(a) = 2
    <3>1. PICK k2 \in 1..3 : k2 = 2
      OBVIOUS
    <3>2. Part(p, PartNames[k2]) \in Seq(Bytes({p})) /\ Len(Part(p, PartNames[k2])) = 2
      BY <1>9, PartPair
    <3>3. QED
      BY <2>2, <3>1, <3>2
  <2>4. b \in Seq(Bytes({p}))
    <3>1. PICK i \in 0..2 : i = 1
      OBVIOUS
    <3>2. Parts(p, i + 1, j) \in Seq(Bytes({p}))
      BY <1>9, PartsMoves
    <3>3. QED
      BY <2>2, <3>1, <3>2
  <2>5. Len(wire[SideOf(x)]) >= 2
    <3>1. \A u, v \in Seq(Bytes({p})) : Len(u \o v) = Len(u) + Len(v) /\ Len(v) \in Nat
      BY ConcatProperties
    <3>2. Len(a \o b) = Len(a) + Len(b) /\ Len(b) \in Nat
      BY <2>3, <2>4, <3>1
    <3>3. Len(a \o b) >= 2
      BY <2>3, <3>2
    <3>4. QED
      BY <1>9, <2>2, <3>3
  <2>6. QED
    BY <1>4, <1>8, <2>5, RestNotEmpty
<1>10. CASE x = Handler
  <2>1. SideOf(x) = "tracker" /\ Place[at[x]] = 1
    BY <1>6, <1>10, PlaceFacts DEF SideOf
  <2>2. PICK t \in Threads : Alone(t) /\ Before(t, Request(t, asked[t]))
    <3>1. \A t \in Threads : ~Behind(t, Request(t, asked[t]))
      BY <1>6, <1>10 DEF Behind, Sending
    <3>2. ~Quiet
      BY <1>6, <1>10 DEF Quiet
    <3>3. QED
      BY <3>1, <3>2 DEF Order
  <2>3. PICK m : m = Request(t, asked[t]) /\ m # Blank
    BY RequestFacts
  <2>4. PICK j \in 0..3 : j = SentBy(t)
    BY SentFacts
  <2>5. wire'[SideOf(x)] # << >>
    BY <1>9, <1>10, <2>1, <2>2, <2>3, <2>4 DEF Before
  <2>6. t \in Ends /\ t # x /\ InExchange(t) /\ at[t] \in Sending \cup {"length"}
    BY <1>10, <2>2, LinkAssumption DEF Ends, InExchange, Receiving, Before
  <2>7. wire'["client"] = << >>
    BY <1>8, <2>1, <2>2 DEF Before, Sides
  <2>8. CutRequest(t)'
    BY <1>7, <1>10, <2>1, <2>5, <2>6, <2>7 DEF CutRequest, Order, AllPairs
  <2>9. Alone(t)'
    BY <1>7, <1>10, <2>2, LinkAssumption DEF Alone, InExchange, Ends
  <2>10. QED
    BY <2>8, <2>9 DEF Stray
<1>11. CASE x # Handler
  <2>1. x \in Threads /\ SideOf(x) = "client" /\ Place[at[x]] = 1
    BY <1>6, <1>11, PlaceFacts DEF SideOf, Ends
  <2>2. Alone(x) /\ Behind(x, Request(x, asked[x]))
    <3>1. ~Before(x, Request(x, asked[x]))
      BY <1>6 DEF Before, Sending
    <3>2. QED
      BY <1>1, <2>1, <3>1, OneExchange
  <2>3. PICK m : m = Request(x, asked[x]) /\ ReplyTo(m) # Blank
    BY <2>1, RequestFacts
  <2>4. PICK j \in 0..3 : j = SentBy(Handler)
    BY SentFacts
  <2>5. wire'[SideOf(x)] # << >>
    BY <1>9, <2>1, <2>2, <2>3, <2>4 DEF Behind
  <2>6. Alone(x)'
    BY <1>7, <2>2, LinkAssumption DEF Alone, InExchange, Ends
  <2>7. CutReply(x)'
    BY <1>7, <2>1, <2>5 DEF CutReply
  <2>8. QED
    BY <2>1, <2>6, <2>7 DEF Stray
<1>12. QED
  BY <1>10, <1>11

\* Where a step leaves one end, and the others.
\* Blank has no header, so that no read of it goes on.
LEMMA BlankRead ==
    ASSUME NEW w \in Seq(Bytes(Packs["client"])), Len(w) >= 2,
           \A i \in 1..2 : w[i] = [pack |-> Blank, part |-> "length", half |-> i],
           NEW k \in 0..Len(w), k <= 2
    PROVE  HeaderLengths(First(w, k)) = {}
<1>1. PICK bytes : bytes = First(w, k)
  OBVIOUS
<1>2. /\ bytes \in Seq(Bytes(Packs["client"])) /\ Len(bytes) = k
      /\ \A i \in 1..k : bytes[i] = w[i]
  BY <1>1, FirstFacts
<1>3. CASE k < 2
  BY <1>1, <1>2, <1>3, CutRead
<1>4. CASE k = 2
  <2>1. PICK p : p = Part(Blank, "length")
    OBVIOUS
  <2>2. /\ p \in Seq(Bytes(Packs["client"])) /\ Len(p) = 2
        /\ \A i \in 1..Len(p) : p[i] = [pack |-> Blank, part |-> "length", half |-> i]
    <3>1. Blank \in Packs["client"]
      BY DEF Packs, Sides
    <3>2. QED
      BY <2>1, <3>1, PartFacts
  <2>3. bytes = p
    <3>1. \A i \in 1..Len(bytes) : bytes[i] = p[i]
      BY <1>2, <1>4, <2>2
    <3>2. QED
      BY <1>2, <1>4, <2>2, <3>1, SeqEqual
  <2>4. bytes[1].pack = Blank
    BY <2>2, <2>3
  <2>5. Whole(bytes, "length")
    BY <1>2, <1>4, <2>1, <2>3, <2>4 DEF Whole
  <2>6. HeaderLengths(bytes) = {}
    BY <1>2, <1>4, <2>4, <2>5 DEF HeaderLengths
  <2>7. QED
    BY <1>1, <2>6
<1>5. QED
  BY <1>3, <1>4

\* What is on its way to the end that has to find out stays there, whoever reads.
LEMMA StrayReads ==
    ASSUME Types, NEW x \in Ends, NEW t, Stray(t), Receive(x), open = Sides, open' = Sides, ~failed'
    PROVE  Stray(t)'
<1>1. /\ t \in Threads /\ t \in Ends /\ t # Handler /\ Handler \in Ends
      /\ at[x] \in Receiving /\ (x = t \/ x = Handler)
  <2>1. at[x] \in Receiving
    BY ReceiveComes
  <2>2. QED
    BY <2>1, LinkAssumption DEF Stray, Alone, InExchange, Ends
<1>2. PICK k \in 0..Len(wire[SideOf(x)]) :
              /\ k <= size[x] /\ (k > 0 \/ size[x] = 0)
              /\ wire' = [wire EXCEPT ![SideOf(x)] = Rest(@, k)]
              /\ Reading(x, k)
  BY ReadsOn
<1>3. PICK stage, p, n : Goto(x, stage, p, n)
  BY <1>2 DEF Reading
<1>4. /\ at'[x] = stage /\ pack'[x] = p /\ size'[x] = n
      /\ \A y \in Ends : y # x => at'[y] = at[y] /\ pack'[y] = pack[y] /\ size'[y] = size[y]
  BY <1>3, GotoMoves
<1>5. Alone(t)'
  BY <1>1, <1>4, LinkAssumption DEF Stray, Alone, InExchange, Ends
<1>6. "client" \in Sides /\ "tracker" \in Sides /\ Sending \cap Receiving = {}
  BY PlaceFacts DEF Sides
<1>7. CASE x = Handler
  <2>1. SideOf(x) = "tracker" /\ wire'["client"] = wire["client"]
    BY <1>2, <1>6, <1>7 DEF SideOf, Types, WireTypes
  <2>2. at'[t] = at[t] /\ pack'[t] = pack[t] /\ size'[t] = size[t]
    BY <1>1, <1>4, <1>7
  <2>3. CASE CutRequest(t)
    <3>1. PICK m \in Messages(Nothing, First(wire[SideOf(x)], k)) : Goto(x, "sendLength", Reply(m), 2)
      BY <1>2, <1>7, <2>3 DEF Reading, CutRequest
    <3>2. Reply(m) = Blank
      BY <3>1 DEF Messages, Reply
    <3>3. at'[Handler] = "sendLength" /\ pack'[Handler] = Blank
      BY <1>7, <3>1, <3>2, GotoMoves
    <3>4. QED
      BY <1>5, <2>1, <2>2, <2>3, <3>3 DEF Stray, CutRequest, CutBlank
  <2>4. CASE CutBlank(t)
    <3>1. BlankFirst
      BY <1>1, <1>6, <1>7, <2>4 DEF CutBlank, Sending
    <3>2. QED
      BY <1>5, <2>1, <2>2, <2>4, <3>1 DEF Stray, CutBlank, BlankFirst
  <2>5. CASE CutReply(t)
    BY <1>5, <2>1, <2>2, <2>5 DEF Stray, CutReply
  <2>6. QED
    BY <2>3, <2>4, <2>5 DEF Stray
<1>8. CASE x = t
  <2>1. SideOf(x) = "client"
    BY <1>1, <1>8 DEF SideOf
  <2>2. CASE wire["client"] = << >> /\ size[t] = 2
    BY <1>2, <1>8, <2>1, <2>2
  <2>3. CASE CutBlank(t) /\ BlankFirst
    <3>1. at[t] = "length" /\ size[t] = 2
      BY <1>1, <1>6, <1>8, <2>3 DEF CutBlank
    <3>2. PICK w : w = wire["client"] /\ w \in Seq(Bytes(Packs["client"]))
      BY <1>6 DEF Types, WireTypes
    <3>3. HeaderLengths(First(w, k)) = {}
      BY <1>2, <1>8, <2>1, <2>3, <3>1, <3>2, BlankRead DEF BlankFirst
    <3>4. QED
      BY <1>2, <1>8, <2>1, <3>1, <3>2, <3>3 DEF Reading
  <2>4. CASE CutReply(t)
    <3>1. PICK m \in Messages(Nothing, First(wire[SideOf(x)], k)) : Cast(x, m) # Nothing
      BY <1>1, <1>2, <1>8, <2>4 DEF Reading, CutReply
    <3>2. QED
      BY <3>1 DEF Messages, Cast
  <2>5. QED
    BY <2>2, <2>3, <2>4 DEF Stray, CutRequest, CutBlank
<1>9. QED
  BY <1>1, <1>7, <1>8

LEMMA StraySends ==
    ASSUME Types, NEW x \in Ends, NEW t, Stray(t), Send(x), open = Sides
    PROVE  Stray(t)'
<1>1. /\ t \in Threads /\ t \in Ends /\ t # Handler /\ Handler \in Ends
      /\ at[x] \in Sending /\ (x = t \/ x = Handler)
  <2>1. at[x] \in Sending
    BY SendMoves
  <2>2. QED
    BY <2>1, LinkAssumption DEF Stray, Alone, InExchange, Ends
<1>2. PICK u : u = Part(pack[x], PartSent[at[x]])
  OBVIOUS
<1>3. wire' = [wire EXCEPT ![FarOf(x)] = @ \o u] /\ size'[x] = 2
  BY <1>1, <1>2 DEF Send, FarOf, Sides, Goto, Types, EndTypes
<1>4. PICK S : u \in Seq(S) /\ \A s \in Sides : wire[s] \in Seq(S)
  <2>1. FarOf(x) \in Sides /\ u \in Seq(Bytes(Packs[FarOf(x)]))
    BY <1>2, SendFacts
  <2>2. Bytes(Packs[FarOf(x)]) \subseteq Bytes(Asks \cup Answers \cup {Blank})
    BY <2>1 DEF Packs, Bytes, Sides
  <2>3. u \in Seq(Bytes(Asks \cup Answers \cup {Blank}))
    BY <2>1, <2>2, SeqMonotonic
  <2>4. QED
    BY <2>3 DEF Types, WireTypes
<1>5. "client" \in Sides /\ "tracker" \in Sides /\ Sending \cap Receiving = {}
  BY PlaceFacts DEF Sides
<1>6. \A w \in Seq(S) : /\ Len(w \o u) = Len(w) + Len(u) /\ Len(u) \in Nat
                        /\ \A i \in 1..Len(w) : (w \o u)[i] = w[i]
                        /\ w # << >> => w \o u # << >>
  <2> SUFFICES ASSUME NEW w \in Seq(S)
               PROVE  /\ Len(w \o u) = Len(w) + Len(u) /\ Len(u) \in Nat
                      /\ \A i \in 1..Len(w) : (w \o u)[i] = w[i]
                      /\ w # << >> => w \o u # << >>
    OBVIOUS
  <2>1. Len(w \o u) = Len(w) + Len(u) /\ \A i \in 1..Len(w) : (w \o u)[i] = w[i]
    BY <1>4, ConcatProperties
  <2>2. Len(u) \in Nat /\ Len(w) \in Nat /\ (w # << >> => Len(w) > 0)
    BY <1>4
  <2>3. w # << >> => Len(w \o u) > 0 /\ Len(<< >>) = 0
    BY <2>1, <2>2
  <2>4. QED
    BY <2>1, <2>2, <2>3
<1>7. \A y \in Ends : y # x => at'[y] = at[y] /\ pack'[y] = pack[y] /\ size'[y] = size[y]
  BY DEF Send, Goto, Types, EndTypes
<1>8. Alone(t)'
  BY <1>1, <1>7, LinkAssumption DEF Stray, Alone, InExchange, Ends
<1>9. CASE x = t
  <2>1. /\ wire'["client"] = wire["client"] /\ (wire["tracker"] # << >> => wire'["tracker"] # << >>)
        /\ at'[t] \in Sending \cup {"length"} /\ size'[t] = 2
        /\ at'[Handler] = at[Handler] /\ pack'[Handler] = pack[Handler]
    <3>1. FarOf(x) = "tracker" /\ wire'["tracker"] = wire["tracker"] \o u
      BY <1>1, <1>3, <1>5, <1>9 DEF FarOf, Types, WireTypes
    <3>2. at'[t] \in Sending \cup {"length"}
      BY <1>9, SendMoves
    <3>3. QED
      BY <1>1, <1>3, <1>4, <1>5, <1>6, <1>7, <1>9, <3>1, <3>2 DEF Types, WireTypes
  <2>2. at[t] # "payload"
    BY <1>1, <1>5, <1>9 DEF Receiving
  <2>3. QED
    BY <1>8, <2>1, <2>2 DEF Stray, CutRequest, CutBlank, BlankFirst, CutReply
<1>10. CASE x = Handler
  <2>1. /\ wire'["client"] = wire["client"] \o u
        /\ at'[t] = at[t] /\ pack'[t] = pack[t] /\ size'[t] = size[t]
    BY <1>1, <1>3, <1>5, <1>7, <1>10 DEF FarOf, Types, WireTypes
  <2>2. PICK w \in Seq(S) : w = wire["client"]
    BY <1>4, <1>5
  <2>3. CASE CutRequest(t)
    BY <1>1, <1>5, <1>10, <2>3 DEF CutRequest, Receiving
  <2>4. CASE CutBlank(t) /\ ~BlankFirst
    <3>1. w = << >> /\ u = Part(Blank, "length")
      BY <1>2, <1>10, <2>2, <2>4 DEF CutBlank, PartSent
    <3>2. Len(u) = 2 /\ \A i \in 1..2 : u[i] = [pack |-> Blank, part |-> "length", half |-> i]
      <4>1. \A P : Blank \in P => /\ Len(Part(Blank, "length")) = 2
                                  /\ \A i \in 1..Len(Part(Blank, "length")) : Part(Blank, "length")[i]
                                          = [pack |-> Blank, part |-> "length", half |-> i]
        BY PartFacts
      <4>2. Blank \in {Blank}
        OBVIOUS
      <4>3. QED
        BY <3>1, <4>1, <4>2
    <3>3. wire'["client"] = u
      BY <1>4, <2>1, <2>2, <3>1, ConcatEmptySeq
    <3>4. BlankFirst'
      <4>1. Len(wire'["client"]) >= 2
        BY <3>1, <3>2, <3>3, Len(u) >= 2
      <4>2. \A i \in 1..2 : wire'["client"][i] = [pack |-> Blank, part |-> "length", half |-> i]
        BY <3>2, <3>3
      <4>3. QED
        BY <4>1, <4>2 DEF BlankFirst
    <3>5. QED
      BY <1>8, <2>1, <2>4, <3>4 DEF Stray, CutBlank
  <2>5. CASE CutBlank(t) /\ BlankFirst
    <3>1. Len(w) >= 2 /\ \A i \in 1..2 : w[i] = [pack |-> Blank, part |-> "length", half |-> i]
      BY <2>2, <2>5 DEF BlankFirst
    <3>2. Len(w \o u) >= 2 /\ \A i \in 1..2 : (w \o u)[i] = w[i]
      BY <1>6, <3>1
    <3>3. BlankFirst'
      BY <2>1, <2>2, <3>1, <3>2 DEF BlankFirst
    <3>4. QED
      BY <1>8, <2>1, <2>5, <3>3 DEF Stray, CutBlank
  <2>6. CASE CutReply(t)
    BY <1>6, <1>8, <2>1, <2>2, <2>6 DEF Stray, CutReply
  <2>7. QED
    BY <2>3, <2>4, <2>5, <2>6 DEF Stray
<1>11. QED
  BY <1>1, <1>9, <1>10

LEMMA StrayStep ==
    ASSUME Types, InOrder, StrayInv, [Next]_vars
    PROVE  StrayInv'
<1> SUFFICES ASSUME Fresh', misread' PROVE \E t \in Threads : Stray(t)'
  BY DEF StrayInv
<1>1. open' = Sides /\ ~failed' /\ ~overlapped'
  BY DEF Fresh
<1>2. CASE UNCHANGED vars
  BY <1>2 DEF StrayInv, Fresh, Stray, Alone, InExchange, CutRequest, CutBlank, BlankFirst, CutReply,
              vars, histVars
<1>3. CASE Stop
  BY <1>1, <1>3 DEF Stop, CloseTracker, Sides
<1>4. CASE Exit
  BY <1>1, <1>4 DEF Exit, Sides
<1>5. ASSUME NEW t \in Threads, Ask(t) PROVE \E u \in Threads : Stray(u)'
  <2>1. ~Quiet /\ misread /\ Fresh /\ \A u \in Threads : ~InExchange(u)
    BY <1>1, <1>5 DEF Ask, Fresh
  <2>2. PICK u \in Threads : Stray(u)
    BY <2>1 DEF StrayInv
  <2>3. InExchange(u)
    BY <2>2 DEF Stray, CutRequest, CutBlank, CutReply, InExchange, Receiving
  <2>4. QED
    BY <2>1, <2>3
<1>6. ASSUME NEW x \in Ends, Send(x) PROVE \E t \in Threads : Stray(t)'
  <2>1. misread /\ Fresh
    BY <1>1, <1>6 DEF Send, Fresh, histVars
  <2>2. PICK t \in Threads : Stray(t)
    BY <2>1 DEF StrayInv
  <2>3. Stray(t)'
    BY <1>6, <2>1, <2>2, StraySends DEF Fresh
  <2>4. QED
    BY <2>3
<1>7. ASSUME NEW x \in Ends, Receive(x) PROVE \E t \in Threads : Stray(t)'
  <2>1. ~overlapped /\ open = Sides
    <3>1. overlapped' = overlapped /\ open' \subseteq open /\ open \subseteq Sides
      BY <1>7, ReceiveComes DEF Shrinks, Types, WireTypes
    <3>2. QED
      BY <1>1, <3>1
  <2>2. ~failed
    <3>1. failed => failed'
      BY <1>7 DEF Receive, ReceiveHeaderLength, ReceiveHeader, ReceivePayload, Error, Throw, Finish, Die
    <3>2. QED
      BY <1>1, <3>1
  <2>3. CASE misread
    <3>1. PICK t \in Threads : Stray(t)
      BY <2>1, <2>2, <2>3 DEF StrayInv, Fresh
    <3>2. Stray(t)'
      BY <1>1, <1>7, <2>1, <3>1, StrayReads
    <3>3. QED
      BY <3>2
  <2>4. CASE ~misread
    <3>1. Order
      BY <2>1, <2>4 DEF InOrder, Disturbed
    <3>2. QED
      BY <1>1, <1>7, <2>1, <2>4, <3>1, FirstStray
  <2>5. QED
    BY <2>3, <2>4
<1>8. ASSUME NEW x \in Ends, Reset(x) PROVE \E t \in Threads : Stray(t)'
  BY <1>1, <1>8 DEF Reset, FarOf, Sides, Throw
<1>9. QED
  BY <1>2, <1>3, <1>4, <1>5, <1>6, <1>7, <1>8 DEF Next, Step
-----------------------------------------------------------------------------
(* While an exchange lasts that no other overlaps, somebody has a step to  *)
(* take.                                                                   *)

\* Who is there: the threads until the client ends, the handler until it closes.
EndsOpen ==
    /\ "client" \notin open => \A t \in Threads : at[t] = "dead"
    /\ "tracker" \in open => at[Handler] \in Sending \cup Receiving

\* An error or an exception ends the exchange of a thread, and the handler's by closing.
LEMMA EndsGo ==
    ASSUME Types, NEW x \in Ends, NEW left, Error(x, left) \/ Throw(x, left)
    PROVE  /\ "client" \in open => "client" \in open'
           /\ "tracker" \in open' => "tracker" \in open
           /\ \A t \in Threads : t # x => at'[t] = at[t]
           /\ x = Handler => ("tracker" \in open' => at'[Handler] = "length")
           /\ x # Handler => at'[Handler] = at[Handler]
<1>1. PICK stage : Goto(x, stage, Nothing, 2)
  BY DEF Error, Throw, Finish, Die
<1>2. (\A t \in Threads : t # x => at'[t] = at[t]) /\ (x # Handler => at'[Handler] = at[Handler])
  BY <1>1, GotoMoves DEF Ends
<1>3. open' = open \/ open' = open \ {"tracker"}
  BY DEF Error, Throw, CloseTracker
<1>4. x = Handler => ("tracker" \in open' => at'[Handler] = "length")
  BY GotoMoves DEF Error, Throw, CloseTracker
<1>5. QED
  BY <1>2, <1>3, <1>4

LEMMA EndsReceive ==
    ASSUME Types, NEW x \in Ends, Receive(x)
    PROVE  /\ SideOf(x) \in open
           /\ "client" \in open => "client" \in open'
           /\ "tracker" \in open' => "tracker" \in open
           /\ \A t \in Threads : t # x => at'[t] = at[t]
           /\ x = Handler => ("tracker" \in open' => at'[Handler] \in Sending \cup Receiving)
           /\ x # Handler => at'[Handler] = at[Handler]
<1>1. PICK bytes, left : ReceiveHeaderLength(x, bytes, left) \/ ReceiveHeader(x, bytes, left)
                            \/ ReceivePayload(x, bytes, left)
  BY DEF Receive
<1>2. CASE Error(x, left) \/ Throw(x, left)
  BY <1>2, EndsGo DEF Receive, Receiving
<1>3. CASE ~(Error(x, left) \/ Throw(x, left))
  <2>1. PICK stage, p, n : /\ Goto(x, stage, p, n) /\ open' = open
                           /\ x = Handler => stage \in {"header", "payload", "sendLength"}
    BY <1>1, <1>3 DEF ReceiveHeaderLength, ReceiveHeader, ReceivePayload, Finish
  <2>2. Goto(x, stage, p, n)
    BY <2>1
  <2>3. at'[x] = stage /\ \A y \in Ends : y # x => at'[y] = at[y]
    BY <2>2, GotoMoves
  <2>4. /\ \A t \in Threads : t # x => at'[t] = at[t]
        /\ x # Handler => at'[Handler] = at[Handler]
    BY <2>3 DEF Ends
  <2>5. SideOf(x) \in open
    BY DEF Receive
  <2>6. QED
    BY <2>1, <2>3, <2>4, <2>5 DEF Sending, Receiving
<1>4. QED
  BY <1>2, <1>3

LEMMA EndsStep ==
    ASSUME Types, EndsOpen, [Next]_vars
    PROVE  EndsOpen'
<1>1. Handler \in Ends /\ \A t \in Threads : t \in Ends /\ t # Handler
  BY LinkAssumption DEF Ends
<1>2. "dead" \notin Sending \cup Receiving \cup {"idle"} /\ "length" \in Receiving
  BY DEF Sending, Receiving
<1>3. CASE UNCHANGED vars
  BY <1>3 DEF EndsOpen, vars
<1>4. CASE Stop
  <2>1. open' = open \ {"tracker"} /\ \A t \in Threads : at'[t] = at[t]
    BY <1>1, <1>4, GotoMoves DEF Stop, CloseTracker
  <2>2. QED
    BY <2>1 DEF EndsOpen
<1>5. CASE Exit
  <2>1. /\ open' = open \ {"client"} /\ at'[Handler] = at[Handler]
        /\ \A t \in Threads : at'[t] = "dead"
    BY <1>1, <1>5 DEF Exit
  <2>2. QED
    BY <2>1 DEF EndsOpen
<1>6. ASSUME NEW t \in Threads, Ask(t) PROVE EndsOpen'
  <2>1. at[t] = "idle" /\ open' = open /\ Goto(t, "sendLength", Request(t, asked[t] + 1), 2)
    BY <1>6 DEF Ask
  <2>2. at'[Handler] = at[Handler]
    BY <1>1, <2>1, GotoMoves
  <2>3. "client" \in open
    BY <1>2, <2>1 DEF EndsOpen
  <2>4. QED
    BY <2>1, <2>2, <2>3 DEF EndsOpen
<1>7. ASSUME NEW x \in Ends, Send(x) PROVE EndsOpen'
  <2>1. /\ at[x] \in Sending /\ at'[x] \in Sending \cup {"length"} /\ open' = open
        /\ \A y \in Ends : y # x => at'[y] = at[y]
    BY <1>7, SendMoves DEF Send
  <2>2. "client" \notin open => \A t \in Threads : at'[t] = "dead"
    BY <1>1, <1>2, <2>1 DEF EndsOpen
  <2>3. "tracker" \in open => at'[Handler] \in Sending \cup Receiving
    BY <1>1, <1>2, <2>1 DEF EndsOpen
  <2>4. QED
    BY <2>1, <2>2, <2>3 DEF EndsOpen
<1>8. ASSUME NEW x \in Ends, Receive(x) PROVE EndsOpen'
  <2>1. x # Handler => "client" \in open
    BY <1>8, EndsReceive DEF SideOf
  <2>2. "client" \notin open' => \A t \in Threads : at'[t] = "dead"
    BY <1>1, <1>8, <2>1, EndsReceive DEF EndsOpen
  <2>3. "tracker" \in open' => at'[Handler] \in Sending \cup Receiving
    BY <1>8, EndsReceive DEF EndsOpen
  <2>4. QED
    BY <2>2, <2>3 DEF EndsOpen
<1>9. ASSUME NEW x \in Ends, Reset(x) PROVE EndsOpen'
  <2>1. open' = open /\ at[x] \in Sending \cup Receiving
    BY <1>9 DEF Reset, Throw
  <2>2. PICK left : Throw(x, left)
    BY <1>9 DEF Reset
  <2>3. /\ \A t \in Threads : t # x => at'[t] = at[t]
        /\ x = Handler => ("tracker" \in open' => at'[Handler] = "length")
        /\ x # Handler => at'[Handler] = at[Handler]
    BY <2>2, EndsGo
  <2>4. x # Handler => "client" \in open
    BY <1>2, <2>1 DEF EndsOpen, Ends
  <2>5. QED
    BY <1>1, <1>2, <2>1, <2>3, <2>4 DEF EndsOpen
<1>10. QED
  BY <1>3, <1>4, <1>5, <1>6, <1>7, <1>8, <1>9 DEF Next, Step

LEMMA PartsLeft ==
    ASSUME NEW p, p # Blank, NEW i \in 0..2
    PROVE  Parts(p, i, 3) # << >>
<1>1. PICK j \in 0..3 : j = 3 /\ i < j
  OBVIOUS
<1>2. PICK a, b : Parts(p, i, j) = a \o b /\ a = Part(p, PartNames[i + 1]) /\ b = Parts(p, i + 1, j)
  BY <1>1, PartsMoves
<1>3. a \in Seq(Bytes({p})) /\ Len(a) = 2
  <2>1. PICK k \in 1..3 : k = i + 1
    OBVIOUS
  <2>2. Part(p, PartNames[k]) \in Seq(Bytes({p})) /\ Len(Part(p, PartNames[k])) = 2
    BY PartPair
  <2>3. QED
    BY <1>2, <2>1, <2>2
<1>4. b \in Seq(Bytes({p}))
  BY <1>2, PartsMoves
<1>5. \A u, v \in Seq(Bytes({p})) : Len(u \o v) = Len(u) + Len(v) /\ Len(v) \in Nat
  BY ConcatProperties
<1>6. Len(a \o b) = Len(a) + Len(b) /\ Len(b) \in Nat /\ Len(<< >>) = 0
  BY <1>3, <1>4, <1>5
<1>7. Len(a \o b) # 0
  BY <1>3, <1>6
<1>8. QED
  BY <1>1, <1>2, <1>6, <1>7

\* Where nothing was misread, the request or the reply is on its way.
LEMMA OrderMoves ==
    ASSUME Types, Order, open = Sides, NEW t \in Threads, InExchange(t)
    PROVE  Ready(t) \/ Ready(Handler)
<1>1. PICK m : m = Request(t, asked[t]) /\ m # Blank /\ ReplyTo(m) # Blank
  BY RequestFacts
<1>2. /\ t # Handler /\ SideOf(t) = "client" /\ SideOf(Handler) = "tracker"
      /\ "client" \in open /\ "tracker" \in open
  BY LinkAssumption DEF SideOf, Sides
<1>3. CASE Before(t, m)
  <2>1. CASE at[t] \in Sending
    BY <2>1 DEF Ready
  <2>2. CASE at[t] \notin Sending
    <3>1. SentBy(t) = 3 /\ at[Handler] \in Receiving /\ Place[at[Handler]] \in 0..2
      BY <1>3, <2>2, PlaceFacts DEF SentBy, Before
    <3>2. wire["tracker"] # << >>
      BY <1>1, <1>3, <3>1, PartsLeft DEF Before
    <3>3. QED
      BY <1>2, <3>1, <3>2 DEF Ready
  <2>3. QED
    BY <2>1, <2>2
<1>4. CASE Behind(t, m)
  <2>1. CASE at[Handler] \in Sending
    BY <2>1 DEF Ready
  <2>2. CASE at[Handler] \notin Sending
    <3>1. SentBy(Handler) = 3 /\ at[t] \in Receiving /\ Place[at[t]] \in 0..2
      BY <1>4, <2>2, PlaceFacts DEF SentBy, Behind
    <3>2. wire["client"] # << >>
      BY <1>1, <1>4, <3>1, PartsLeft DEF Behind
    <3>3. QED
      BY <1>2, <3>1, <3>2 DEF Ready
  <2>3. QED
    BY <2>1, <2>2
<1>5. QED
  BY <1>1, <1>3, <1>4, OneExchange

\* Where something was, the rest of it is, or Blank.
LEMMA StrayMoves ==
    ASSUME Types, open = Sides, NEW t \in Threads, InExchange(t), NEW u \in Threads, Stray(u)
    PROVE  Ready(t) \/ Ready(Handler)
<1>1. u = t
  BY DEF Stray, Alone
<1>2. /\ t # Handler /\ SideOf(t) = "client" /\ SideOf(Handler) = "tracker"
      /\ "client" \in open /\ "tracker" \in open
  BY LinkAssumption DEF SideOf, Sides
<1>3. CASE CutRequest(t)
  BY <1>2, <1>3 DEF CutRequest, Ready, Receiving
<1>4. CASE CutBlank(t) /\ ~BlankFirst
  BY <1>4 DEF CutBlank, Ready, Sending
<1>5. CASE CutBlank(t) /\ BlankFirst
  <2>1. wire["client"] # << >>
    <3>1. Len(wire["client"]) # 0 /\ Len(<< >>) = 0
      BY <1>5 DEF BlankFirst, Types, WireTypes, Sides
    <3>2. QED
      BY <3>1
  <2>2. at[t] \in Sending \/ at[t] \in Receiving
    BY DEF InExchange
  <2>3. QED
    BY <1>2, <2>1, <2>2 DEF Ready
<1>6. CASE CutReply(t)
  BY <1>2, <1>6 DEF CutReply, Ready, Receiving
<1>7. QED
  BY <1>1, <1>3, <1>4, <1>5, <1>6 DEF Stray

\* While an exchange lasts, and since the connection was last quiet when one began no two
\* have overlapped and none has failed, the thread or the handler has a step to take,
\* however the reads cut what was sent and whoever stops or ends: handle_reply_message,
\* which has no timeout, and the tracker's handler never both wait to read what the other
\* is not going to send.
THEOREM ExchangeMovesAlways == Spec => []ExchangeMoves
<1>1. Spec => []Types
  <2>1. Init => Types
    BY TypesInit
  <2>2. Types /\ [Next]_vars => Types'
    BY TypesStep
  <2>3. QED
    BY <2>1, <2>2, PTL DEF Spec
<1>2. Init => Past /\ Sized /\ InOrder /\ StrayInv /\ EndsOpen
  <2>1. Init => StrayInv /\ EndsOpen
    BY DEF Init, StrayInv, EndsOpen, Sides, Ends, Receiving
  <2>2. QED
    BY <2>1, OrderInit, QuietInit DEF InOrder
<1>3. Types /\ (Past /\ Sized /\ InOrder /\ StrayInv /\ EndsOpen) /\ [Next]_vars
         => (Past /\ Sized /\ InOrder /\ StrayInv /\ EndsOpen)'
  BY PastStep, SizedStep, CallSteps, StrayStep, EndsStep
<1>4. Types /\ InOrder /\ StrayInv /\ EndsOpen => ExchangeMoves
  <2> SUFFICES ASSUME Types, InOrder, StrayInv, EndsOpen, NEW t \in Threads, InExchange(t), ~failed, ~overlapped
               PROVE  Ready(t) \/ Ready(Handler)
    BY DEF ExchangeMoves
  <2>1. CASE open # Sides
    <3>1. "client" \in open
      BY DEF EndsOpen, InExchange, Sending, Receiving
    <3>2. "tracker" \notin open
      BY <2>1, <3>1 DEF Types, WireTypes, Sides
    <3>3. FarOf(t) = "tracker"
      BY LinkAssumption DEF FarOf
    <3>4. QED
      BY <3>2, <3>3 DEF Ready, InExchange
  <2>2. CASE open = Sides /\ ~misread
    BY <2>2, OrderMoves DEF InOrder, Disturbed
  <2>3. CASE open = Sides /\ misread
    BY <2>3, StrayMoves DEF StrayInv, Fresh
  <2>4. QED
    BY <2>1, <2>2, <2>3
<1>5. QED
  BY <1>1, <1>2, <1>3, <1>4, PTL DEF Spec

-----------------------------------------------------------------------------
(* Every step of an exchange that no other overlaps leaves less of it.     *)

\* What a stream holds after something was read off it.
LEMMA LeftLen ==
    ASSUME NEW S, NEW w \in Seq(S), NEW v, Left(w, v)
    PROVE  v \in Seq(S) /\ Len(v) \in Nat /\ Len(w) \in Nat /\ Len(v) <= Len(w)
<1>1. PICK k \in 0..Len(w) : v = Rest(w, k)
  BY DEF Left
<1>2. v \in Seq(S) /\ Len(v) = Len(w) - k
  BY <1>1, RestFacts
<1>3. QED
  BY <1>2

\* The two streams get no longer when somebody reads, closes or stops.
LEMMA WireLens ==
    ASSUME Types, Shrinks
    PROVE  \A s \in Sides : Len(wire[s]) \in Nat /\ Len(wire'[s]) \in Nat /\ Len(wire'[s]) <= Len(wire[s])
<1> SUFFICES ASSUME NEW s \in Sides
             PROVE  Len(wire[s]) \in Nat /\ Len(wire'[s]) \in Nat /\ Len(wire'[s]) <= Len(wire[s])
  OBVIOUS
<1>1. wire[s] \in Seq(Bytes(Packs[s])) /\ Left(wire[s], wire'[s])
  BY DEF Types, WireTypes, Shrinks
<1>2. QED
  BY <1>1, LeftLen

LEMMA AppendLens ==
    ASSUME Types, NEW x \in Ends, Send(x)
    PROVE  \A s \in Sides : /\ Len(wire[s]) \in Nat /\ Len(wire'[s]) \in Nat
                            /\ Len(wire'[s]) <= Len(wire[s]) + 2
                            /\ s # FarOf(x) => Len(wire'[s]) = Len(wire[s])
<1> SUFFICES ASSUME NEW s \in Sides
             PROVE  /\ Len(wire[s]) \in Nat /\ Len(wire'[s]) \in Nat
                    /\ Len(wire'[s]) <= Len(wire[s]) + 2
                    /\ s # FarOf(x) => Len(wire'[s]) = Len(wire[s])
  OBVIOUS
<1>1. PICK part : part = Part(pack[x], PartSent[at[x]])
  OBVIOUS
<1>2. part \in Seq(Bytes(Packs[FarOf(x)])) /\ Len(part) <= 2 /\ Len(part) \in Nat
  <2>1. PICK P : P = Packs[FarOf(x)]
    OBVIOUS
  <2>2. pack[x] \in P /\ PartSent[at[x]] \in {"length", "header", "payload"}
    BY <2>1, SendFacts
  <2>3. part \in Seq(Bytes(P)) /\ (Len(part) = 0 \/ Len(part) = 2)
    BY <1>1, <2>2, PartFacts
  <2>4. Len(part) <= 2 /\ Len(part) \in Nat
    <3>1. PICK n : n = Len(part) /\ (n = 0 \/ n = 2)
      BY <2>3
    <3>2. n <= 2 /\ n \in Nat
      BY <3>1
    <3>3. QED
      BY <3>1, <3>2
  <2>5. QED
    BY <2>1, <2>3, <2>4
<1>3. wire'[s] = wire[s] \/ (s = FarOf(x) /\ wire'[s] = wire[s] \o part)
  BY <1>1 DEF Send, Types, WireTypes
<1>4. wire[s] \in Seq(Bytes(Packs[s])) /\ Len(wire[s]) \in Nat
  BY DEF Types, WireTypes
<1>5. CASE wire'[s] = wire[s]
  BY <1>4, <1>5
<1>6. CASE s = FarOf(x) /\ wire'[s] = wire[s] \o part
  <2>1. \A u, v \in Seq(Bytes(Packs[s])) : Len(u \o v) = Len(u) + Len(v)
    BY ConcatProperties
  <2>2. Len(wire'[s]) = Len(wire[s]) + Len(part)
    BY <1>2, <1>4, <1>6, <2>1
  <2>3. QED
    BY <1>2, <1>4, <1>6, <2>2
<1>7. QED
  BY <1>3, <1>5, <1>6

LEMMA WeightFacts ==
    ASSUME NEW stage
    PROVE  /\ ThreadWeight(stage) \in Nat /\ HandlerWeight(stage) \in Nat
           /\ stage \in Sending => /\ ThreadWeight(After[stage]) + 24 < ThreadWeight(stage)
                                   /\ HandlerWeight(After[stage]) + 2 < HandlerWeight(stage)
           /\ HandlerWeight("length") = 1 /\ HandlerWeight("header") = 12
           /\ HandlerWeight("payload") = 11 /\ HandlerWeight("sendLength") = 10
           /\ HandlerWeight("gone") = 0
           /\ ThreadWeight("length") = 2 /\ ThreadWeight("header") = 1 /\ ThreadWeight("payload") = 0
BY DEF ThreadWeight, HandlerWeight, Sending, After

LEMMA SendShrinks ==
    ASSUME Types, NEW x \in Ends, Send(x), NEW t \in Threads, x = t \/ x = Handler
    PROVE  Remaining(t)' < Remaining(t)
<1>1. /\ Handler \in Ends /\ t \in Ends /\ t # Handler
      /\ "client" \in Sides /\ "tracker" \in Sides /\ "client" # "tracker"
  BY LinkAssumption DEF Ends, Sides
<1>2. /\ at[x] \in Sending /\ at'[x] = After[at[x]]
      /\ \A y \in Ends : y # x => at'[y] = at[y]
  BY SendMoves
<1>3. PICK a, b, c, d : /\ a = ThreadWeight(at[t]) /\ b = HandlerWeight(at[Handler])
                        /\ c = ThreadWeight(at'[t]) /\ d = HandlerWeight(at'[Handler])
                        /\ a \in Nat /\ b \in Nat /\ c \in Nat /\ d \in Nat
  BY WeightFacts
<1>4. PICK u, v, p, q : /\ u = Len(wire["tracker"]) /\ v = Len(wire["client"])
                        /\ p = Len(wire'["tracker"]) /\ q = Len(wire'["client"])
                        /\ u \in Nat /\ v \in Nat /\ p \in Nat /\ q \in Nat
                        /\ p <= u + 2 /\ q <= v + 2
                        /\ FarOf(x) # "tracker" => p = u
                        /\ FarOf(x) # "client" => q = v
  BY <1>1, AppendLens
<1>0. /\ a \in Nat /\ b \in Nat /\ c \in Nat /\ d \in Nat
      /\ u \in Nat /\ v \in Nat /\ p \in Nat /\ q \in Nat
  BY <1>3, <1>4
<1>5. c + d + 12 * p + q < a + b + 12 * u + v
  <2>1. CASE x = t
    <3>1. FarOf(x) = "tracker" /\ c + 24 < a /\ d = b
      BY <1>1, <1>2, <1>3, <2>1, WeightFacts DEF FarOf
    <3>2. p <= u + 2 /\ q = v
      BY <1>1, <1>4, <3>1
    <3>3. QED
      BY <1>0, <3>1, <3>2
  <2>2. CASE x = Handler
    <3>1. FarOf(x) = "client" /\ d + 2 < b /\ c = a
      BY <1>1, <1>2, <1>3, <2>2, WeightFacts DEF FarOf
    <3>2. p = u /\ q <= v + 2
      BY <1>1, <1>4, <3>1
    <3>3. QED
      BY <1>0, <3>1, <3>2
  <2>3. QED
    BY <2>1, <2>2
<1>6. QED
  BY <1>3, <1>4, <1>5 DEF Remaining

\* A read takes at least a byte, but for the part of a pack without bytes.
LEMMA ReceiveTakes ==
    ASSUME Types, Sized, NEW x \in Ends, Receive(x), FarOf(x) \in open
    PROVE  /\ at[x] \in {"length", "header"} =>
                  Len(wire'[SideOf(x)]) < Len(wire[SideOf(x)])
<1>1. PICK k \in Reads(wire[SideOf(x)], size[x], FarOf(x) \notin open) :
         LET bytes == First(wire[SideOf(x)], k)
             left  == [wire EXCEPT ![SideOf(x)] = Rest(@, k)]
         IN \/ ReceiveHeaderLength(x, bytes, left) \/ ReceiveHeader(x, bytes, left)
            \/ ReceivePayload(x, bytes, left)
  BY DEF Receive
<1> DEFINE s == SideOf(x)
           left == [wire EXCEPT ![s] = Rest(@, k)]
<1>2. s \in Sides /\ k \in 0..Len(wire[s])
  BY ReadFacts
<1>3. /\ left[s] = Rest(wire[s], k) /\ wire[s] \in Seq(Bytes(Packs[s]))
      /\ left[s] \in Seq(Bytes(Packs[s])) /\ Len(left[s]) = Len(wire[s]) - k
  BY <1>2, RestFacts DEF Types, WireTypes
<1>4. wire' = left \/ CloseTracker(left)
  BY <1>1 DEF ReceiveHeaderLength, ReceiveHeader, ReceivePayload, Error, Throw
<1>5. wire'[s] = left[s] \/ wire'[s] = << >>
  <2>1. wire' = [left EXCEPT !["tracker"] = << >>] => wire'[s] = left[s] \/ wire'[s] = << >>
    BY <1>2 DEF Types, WireTypes, Sides
  <2>2. QED
    BY <1>2, <1>4, <2>1 DEF CloseTracker
<1> HIDE DEF left
<1>6. ASSUME at[x] \in {"length", "header"} PROVE Len(wire'[s]) < Len(wire[s])
  <2>1. size[x] > 0 /\ size[x] \in Nat
    BY <1>6 DEF Sized, Types, EndTypes
  <2>2. k > 0 /\ k \in Nat /\ k <= Len(wire[s])
    BY <1>1, <1>2, <2>1 DEF Reads
  <2>3. Len(wire[s]) \in Nat /\ Len(<< >>) = 0
    BY <1>3
  <2>4. QED
    BY <1>3, <1>5, <2>2, <2>3
<1>7. QED
  BY <1>6

\* Where a read takes a thread whose exchange goes on, and where it takes the handler.
LEMMA ReceiveStages ==
    ASSUME Types, NEW x \in Ends, Receive(x)
    PROVE  /\ x # Handler /\ at'[x] \in Sending \cup Receiving =>
                 \/ at[x] = "length" /\ at'[x] = "header"
                 \/ at[x] = "header" /\ at'[x] = "payload"
           /\ x = Handler =>
                 \/ at[x] = "length" /\ at'[x] \in {"header", "length", "gone"}
                 \/ at[x] = "header" /\ at'[x] \in {"payload", "length", "gone"}
                 \/ at[x] = "payload" /\ at'[x] \in {"sendLength", "gone"}
<1>1. PICK bytes, left : ReceiveHeaderLength(x, bytes, left) \/ ReceiveHeader(x, bytes, left)
                            \/ ReceivePayload(x, bytes, left)
  BY DEF Receive
<1>2. ASSUME NEW stage, NEW p, NEW n, Goto(x, stage, p, n)
      PROVE  at'[x] = stage
  BY <1>2, GotoMoves
<1>3. Error(x, left) => IF x = Handler THEN at'[x] = "gone" ELSE at'[x] \in {"idle", "dead"}
  BY <1>2 DEF Error, Finish, Die
<1>4. Throw(x, left) => IF x = Handler THEN at'[x] = "length" ELSE at'[x] \in {"idle", "dead"}
  BY <1>2 DEF Throw, Die
<1>5. \A m : Finish(x, m) => at'[x] \in {"idle", "dead"}
  BY <1>2 DEF Finish
<1>6. {"idle", "dead"} \cap (Sending \cup Receiving) = {}
  BY DEF Sending, Receiving
<1>7. CASE ReceiveHeaderLength(x, bytes, left)
  <2>1. at[x] = "length" /\ (Error(x, left) \/ Throw(x, left) \/ at'[x] = "header")
    BY <1>2, <1>7 DEF ReceiveHeaderLength
  <2>2. QED
    BY <1>3, <1>4, <1>6, <2>1
<1>8. CASE ReceiveHeader(x, bytes, left)
  <2>1. at[x] = "header" /\ (Error(x, left) \/ Throw(x, left) \/ at'[x] = "payload")
    BY <1>2, <1>8 DEF ReceiveHeader
  <2>2. QED
    BY <1>3, <1>4, <1>6, <2>1
<1>9. CASE ReceivePayload(x, bytes, left)
  <2>1. /\ at[x] = "payload"
        /\ \/ Error(x, left) \/ (x = Handler /\ at'[x] = "sendLength")
           \/ (x # Handler /\ \E m : Finish(x, m))
    BY <1>2, <1>9 DEF ReceivePayload
  <2>2. QED
    BY <1>3, <1>5, <1>6, <2>1
<1>10. QED
  BY <1>1, <1>7, <1>8, <1>9

LEMMA ReceiveShrinks ==
    ASSUME Types, Sized, EndsOpen, NEW x \in Ends, Receive(x), NEW t \in Threads,
           InExchange(t), InExchange(t)', x = t \/ x = Handler
    PROVE  Remaining(t)' < Remaining(t)
<1>1. /\ Handler \in Ends /\ t \in Ends /\ t # Handler
      /\ "client" \in Sides /\ "tracker" \in Sides
  BY LinkAssumption DEF Ends, Sides
<1>2. PICK a, b, c, d : /\ a = ThreadWeight(at[t]) /\ b = HandlerWeight(at[Handler])
                        /\ c = ThreadWeight(at'[t]) /\ d = HandlerWeight(at'[Handler])
                        /\ a \in Nat /\ b \in Nat /\ c \in Nat /\ d \in Nat
  BY WeightFacts
<1>3. PICK u, v, p, q : /\ u = Len(wire["tracker"]) /\ v = Len(wire["client"])
                        /\ p = Len(wire'["tracker"]) /\ q = Len(wire'["client"])
                        /\ u \in Nat /\ v \in Nat /\ p \in Nat /\ q \in Nat
                        /\ p <= u /\ q <= v
  BY <1>1, ReceiveComes, WireLens
<1>4. /\ a \in Nat /\ b \in Nat /\ c \in Nat /\ d \in Nat
      /\ u \in Nat /\ v \in Nat /\ p \in Nat /\ q \in Nat
  BY <1>2, <1>3
<1>5. p <= u /\ q <= v
  BY <1>3
<1>6. c + d + 12 * p + q < a + b + 12 * u + v
  <2>1. CASE x = t
    <3>1. \/ at[t] = "length" /\ at'[t] = "header"
          \/ at[t] = "header" /\ at'[t] = "payload"
      BY <1>1, <2>1, ReceiveStages DEF InExchange
    <3>2. at'[Handler] = at[Handler]
      BY <1>1, <2>1, EndsReceive
    <3>3. c < a /\ d = b
      BY <1>2, <3>1, <3>2, WeightFacts
    <3>4. QED
      BY <1>4, <1>5, <3>3
  <2>2. CASE x = Handler
    <3>1. at'[t] = at[t]
      BY <1>1, <2>2, EndsReceive
    <3>2. c = a
      BY <1>2, <3>1
    <3>3. CASE at[Handler] = "length"
      <4>1. "client" \in open
        BY DEF EndsOpen, InExchange, Sending, Receiving
      <4>2. p < u
        BY <1>3, <2>2, <3>3, <4>1, ReceiveTakes DEF SideOf, FarOf
      <4>3. b = 1 /\ d <= 12
        <5>1. at'[Handler] \in {"header", "length", "gone"}
          BY <2>2, <3>3, ReceiveStages
        <5>2. QED
          BY <1>2, <3>3, <5>1, WeightFacts
      <4>4. QED
        BY <1>4, <1>5, <3>2, <4>2, <4>3
    <3>4. CASE at[Handler] \in {"header", "payload"}
      <4>1. \/ at[Handler] = "header" /\ at'[Handler] \in {"payload", "length", "gone"}
            \/ at[Handler] = "payload" /\ at'[Handler] \in {"sendLength", "gone"}
        BY <2>2, <3>4, ReceiveStages
      <4>2. d < b
        BY <1>2, <4>1, WeightFacts
      <4>3. QED
        BY <1>4, <1>5, <3>2, <4>2
    <3>5. QED
      BY <2>2, <3>3, <3>4, ReceiveStages
  <2>3. QED
    BY <2>1, <2>2
<1>7. QED
  BY <1>2, <1>3, <1>6 DEF Remaining

LEMMA StopShrinks ==
    ASSUME Types, Stop, NEW t \in Threads
    PROVE  Remaining(t)' < Remaining(t)
<1>1. /\ Handler \in Ends /\ t \in Ends /\ t # Handler
      /\ "client" \in Sides /\ "tracker" \in Sides
  BY LinkAssumption DEF Ends, Sides
<1>2. at[Handler] = "length" /\ at'[Handler] = "gone" /\ at'[t] = at[t]
  BY <1>1, StopFacts, GotoMoves DEF Stop
<1>3. PICK a, b, c, d : /\ a = ThreadWeight(at[t]) /\ b = HandlerWeight(at[Handler])
                        /\ c = ThreadWeight(at'[t]) /\ d = HandlerWeight(at'[Handler])
                        /\ a \in Nat /\ b \in Nat /\ c \in Nat /\ d \in Nat
  BY WeightFacts
<1>4. PICK u, v, p, q : /\ u = Len(wire["tracker"]) /\ v = Len(wire["client"])
                        /\ p = Len(wire'["tracker"]) /\ q = Len(wire'["client"])
                        /\ u \in Nat /\ v \in Nat /\ p \in Nat /\ q \in Nat
                        /\ p <= u /\ q <= v
  BY <1>1, StopFacts, WireLens
<1>5. c = a /\ b = 1 /\ d = 0
  BY <1>2, <1>3, WeightFacts
<1>6. /\ a \in Nat /\ u \in Nat /\ v \in Nat /\ p \in Nat /\ q \in Nat /\ p <= u /\ q <= v
  BY <1>3, <1>4
<1>7. c + d + 12 * p + q < a + b + 12 * u + v
  BY <1>5, <1>6
<1>8. QED
  BY <1>3, <1>4, <1>7 DEF Remaining

LEMMA ShrinksStep ==
    ASSUME Types, Sized, EndsOpen, Next, NEW t \in Threads,
           InExchange(t), InExchange(t)', Lone(t), Lone(t)'
    PROVE  Remaining(t)' < Remaining(t)
<1>1. /\ Handler \in Ends /\ t \in Ends /\ t # Handler
  BY LinkAssumption DEF Ends
<1>2. CASE Stop
  BY <1>2, StopShrinks
<1>3. ~Exit
  BY <1>1 DEF Exit, InExchange, Sending, Receiving
<1>4. ASSUME NEW u \in Threads, Ask(u) PROVE FALSE
  <2>1. u \in Ends /\ at[u] = "idle" /\ at'[u] = "sendLength"
    BY <1>4, GotoMoves DEF Ask, Ends
  <2>2. u # t
    BY <2>1 DEF InExchange, Sending, Receiving
  <2>3. QED
    BY <2>1, <2>2 DEF Lone, InExchange, Sending
<1>5. ASSUME NEW x \in Ends, Step(x) PROVE Remaining(t)' < Remaining(t)
  <2>1. InExchange(x)
    BY <1>5, EndGoes DEF InExchange
  <2>2. x = t \/ x = Handler
    BY <2>1 DEF Lone, Ends
  <2>3. CASE Send(x)
    BY <2>2, <2>3, SendShrinks
  <2>4. CASE Receive(x)
    BY <2>2, <2>4, ReceiveShrinks
  <2>5. ~Reset(x)
    <3>1. CASE x = t
      <4>1. Reset(x) => at'[t] = "dead"
        BY <1>1, <3>1, GotoMoves DEF Reset, Throw, Die
      <4>2. QED
        BY <4>1 DEF InExchange, Sending, Receiving
    <3>2. CASE x = Handler
      <4>1. Reset(x) => "client" \notin open
        BY <3>2 DEF Reset, FarOf
      <4>2. QED
        BY <4>1 DEF EndsOpen, InExchange, Sending, Receiving
    <3>3. QED
      BY <2>2, <3>1, <3>2
  <2>6. QED
    BY <1>5, <2>3, <2>4, <2>5 DEF Step
<1>6. QED
  BY <1>2, <1>3, <1>4, <1>5 DEF Next

\* No step of an exchange with no other beside it is taken for nothing, whatever has become
\* of earlier ones, whatever the reads give and whoever stops: at most a weight's worth of
\* steps later it has ended.
THEOREM ExchangeShrinksAlways == Spec => ExchangeShrinks
<1>1. Spec => []Types
  <2>1. Init => Types
    BY TypesInit
  <2>2. Types /\ [Next]_vars => Types'
    BY TypesStep
  <2>3. QED
    BY <2>1, <2>2, PTL DEF Spec
<1>2. Init => EndsOpen /\ Sized
  BY DEF Init, EndsOpen, Sized, Sides, Ends, Receiving
<1>3. Types /\ (EndsOpen /\ Sized) /\ [Next]_vars => (EndsOpen /\ Sized)'
  BY EndsStep, SizedStep
<1>4. Types /\ EndsOpen /\ Sized /\ [Next]_vars => [LessRemains]_vars
  BY ShrinksStep DEF LessRemains
<1>5. QED
  BY <1>1, <1>2, <1>3, <1>4, PTL DEF Spec, ExchangeShrinks

\* While an exchange lasts as in ExchangeMovesAlways, the thread or the handler has a step to
\* take, and while it has no other beside it every step leaves less of it:
\* handle_reply_message and the tracker's handler never both wait, and never go on for ever.
THEOREM ExchangeProceedsAlways == Spec => ExchangeProceeds
BY ExchangeMovesAlways, ExchangeShrinksAlways, PTL DEF ExchangeShrinks, ExchangeProceeds
=============================================================================
