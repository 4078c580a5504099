----------------------------- MODULE DaemonWire -----------------------------
(***************************************************************************)
(* The length-prefixed frames of ktsense-daemon/src/wire.rs, over a socket *)
(* whose writing end may vanish between any two bytes.  A prefix is two    *)
(* digits to the base Base (the four big-endian bytes of the code); each   *)
(* byte of a body is the frame it was written for.                         *)
(***************************************************************************)
EXTENDS Integers, Sequences

CONSTANTS Base,      \* values of a prefix byte
          MaxFrame,  \* MAX_FRAME
          MaxSize,   \* bound: the largest body a caller offers
          MaxFrames  \* bound: frames the writer tries to send

WireAssumption ==
  /\ {Base, MaxFrame, MaxSize, MaxFrames} \subseteq Nat
  /\ MaxSize < Base * Base

Frame == [id : 1 .. MaxFrames, size : 0 .. MaxSize]
PrefixLen == 2

VARIABLES outbox,    \* bytes of the current frame still to be written
          accepted,  \* frames write_frame took on, in order
          refused,   \* how many it answered with TooLarge
          wire,      \* bytes written and not yet read
          open,      \* the writer's end is open
          partial,   \* what read_exact has gathered of a prefix or a body
          expect,    \* the length a whole prefix announced, or NoLength before one
          received,  \* the frames read_frame returned, in order
          reader     \* "reading", then "closed" (Ok(None)) or the WireError
wireVars == <<outbox, accepted, refused, wire, open, partial, expect, received, reader>>
readVars == <<partial, expect, received, reader>>
NoLength == MaxSize + 1
-----------------------------------------------------------------------------
(* write_frame *)

ToBytes(n) == <<n \div Base, n % Base>>
FromBytes(p) == p[1] * Base + p[2]
Body(f) == [i \in 1 .. f.size |-> f]
Encoded(f) == ToBytes(f.size) \o Body(f)

WireInit ==
  /\ outbox = <<>> /\ accepted = <<>> /\ refused = 0
  /\ wire = <<>> /\ open = TRUE
  /\ partial = <<>> /\ expect = NoLength /\ received = <<>> /\ reader = "reading"

\* Mutant: the ceiling is only noticed once the prefix is on its way.
WriteFrameLate(f) ==
  /\ open /\ outbox = <<>> /\ f.id = Len(accepted) + refused + 1
  /\ IF f.size > MaxFrame
     THEN refused' = refused + 1 /\ outbox' = ToBytes(f.size) /\ UNCHANGED accepted
     ELSE accepted' = Append(accepted, f) /\ outbox' = Encoded(f) /\ UNCHANGED refused
  /\ UNCHANGED <<wire, open, readVars>>

\* The body is serialized and measured before the first byte is written.
WriteFrame(f) ==
  /\ open /\ outbox = <<>> /\ f.id = Len(accepted) + refused + 1
  /\ IF f.size > MaxFrame
     THEN refused' = refused + 1 /\ UNCHANGED <<accepted, outbox>>
     ELSE accepted' = Append(accepted, f) /\ outbox' = Encoded(f) /\ UNCHANGED refused
  /\ UNCHANGED <<wire, open, readVars>>

\* write_all moves the frame to the socket in pieces of any size.
WriteBytes(n) ==
  /\ open /\ n <= Len(outbox)
  /\ wire' = wire \o SubSeq(outbox, 1, n)
  /\ outbox' = SubSeq(outbox, n + 1, Len(outbox))
  /\ UNCHANGED <<accepted, refused, open, readVars>>

\* The writing process ends, or drops its stream, after any byte.
Hangup ==
  /\ open /\ open' = FALSE
  /\ UNCHANGED <<outbox, accepted, refused, wire, readVars>>
-----------------------------------------------------------------------------
(* read_frame *)

Wanted == IF expect = NoLength THEN PrefixLen ELSE expect

\* read_exact takes what is there, up to what it still wants.
ReadBytes(n) ==
  /\ reader = "reading" /\ n <= Len(wire) /\ n <= Wanted - Len(partial)
  /\ partial' = partial \o SubSeq(wire, 1, n)
  /\ wire' = SubSeq(wire, n + 1, Len(wire))
  /\ UNCHANGED <<outbox, accepted, refused, open, expect, received, reader>>

\* A whole prefix: the length is refused before a body is allocated for it.
PrefixRead ==
  /\ reader = "reading" /\ expect = NoLength /\ Len(partial) = PrefixLen
  /\ IF FromBytes(partial) > MaxFrame
     THEN reader' = "too large" /\ UNCHANGED <<partial, expect>>
     ELSE expect' = FromBytes(partial) /\ partial' = <<>> /\ UNCHANGED reader
  /\ UNCHANGED <<outbox, accepted, refused, wire, open, received>>

\* Mutant: the length of the body just read is taken for the next one too.
BodyReadSticky ==
  /\ reader = "reading" /\ expect # NoLength /\ Len(partial) = expect
  /\ received' = Append(received, partial)
  /\ partial' = <<>>
  /\ UNCHANGED <<outbox, accepted, refused, wire, open, expect, reader>>

BodyRead ==
  /\ reader = "reading" /\ expect # NoLength /\ Len(partial) = expect
  /\ received' = Append(received, partial)
  /\ partial' = <<>> /\ expect' = NoLength
  /\ UNCHANGED <<outbox, accepted, refused, wire, open, reader>>

\* The end of the stream: inside a prefix it is Ok(None), inside a body an Io error.
ReadEnd ==
  /\ reader = "reading" /\ ~open /\ wire = <<>> /\ Len(partial) < Wanted
  /\ reader' = IF expect = NoLength THEN "closed" ELSE "io"
  /\ UNCHANGED <<outbox, accepted, refused, wire, open, partial, expect, received>>

WireNext ==
  \/ \E f \in Frame : WriteFrame(f)
  \/ \E n \in 1 .. PrefixLen + MaxSize : WriteBytes(n) \/ ReadBytes(n)
  \/ Hangup \/ PrefixRead \/ BodyRead \/ ReadEnd

ReadSome == \E n \in 1 .. PrefixLen + MaxSize : ReadBytes(n)
ReadStep == PrefixRead \/ BodyRead \/ ReadEnd

\* The reader is polled whenever it can go on.
WireSpec == WireInit /\ [][WireNext]_wireVars /\ WF_wireVars(ReadSome) /\ WF_wireVars(ReadStep)
-----------------------------------------------------------------------------
\* What read_frame hands over are the frames write_frame took on, whole and in
\* order, wherever the writer was cut off; a frame refused for its size leaves
\* no byte behind that a later read would trip over.
NoTornFrame ==
  /\ reader # "too large"
  /\ Len(received) <= Len(accepted)
  /\ \A i \in DOMAIN received : received[i] = Body(accepted[i])

\* What makes it inductive: the bytes not yet handed over, whether still with the
\* writer, in the socket or gathered by the reader, are the encodings of the frames
\* not yet received, end to end, less the prefix already understood.
Byte == Nat \cup Frame
Stream == partial \o wire \o outbox
Taken(start) == start[Len(received) + 1] + IF expect = NoLength THEN 0 ELSE PrefixLen
Lies(start) ==
  /\ start \in [1 .. Len(accepted) + 1 -> Nat]
  /\ \A k \in 1 .. Len(accepted) : /\ start[k + 1] = start[k] + PrefixLen + accepted[k].size
                                  /\ start[k + 1] <= start[Len(accepted) + 1]
  /\ start[Len(accepted) + 1] = Taken(start) + Len(Stream)
  /\ \A k \in Len(received) + 1 .. Len(accepted) : \A j \in 1 .. PrefixLen + accepted[k].size :
       start[k] + j > Taken(start) => Stream[start[k] + j - Taken(start)] = Encoded(accepted[k])[j]
WireTypeOK ==
  /\ accepted \in Seq({f \in Frame : f.size <= MaxFrame})
  /\ {outbox, wire, partial} \subseteq Seq(Byte) /\ received \in Seq(Seq(Byte))
Announced ==
  expect # NoLength => Len(received) < Len(accepted) /\ expect = accepted[Len(received) + 1].size
WireIInv == WireTypeOK /\ Announced /\ NoTornFrame /\ \E start : Lies(start)

\* Once the peer is gone the reader is told so, with every whole frame delivered:
\* it neither waits for ever nor drops what had arrived complete.
HungUp == ~open
Noticed ==
  /\ reader # "reading"
  /\ Len(received) >= Len(accepted) - 1
  /\ outbox = <<>> => received = [i \in DOMAIN accepted |-> Body(accepted[i])]
=============================================================================
