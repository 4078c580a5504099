---------------------------- MODULE FrameDecoder ----------------------------
(***************************************************************************)
(* The Content-Length decoder of ktsense-lsp/src/framing.rs, fed by the    *)
(* reader task: the engine's bytes arrive cut anywhere, the decoder buffers*)
(* them and yields one body at a time until it needs more or meets a fault.*)
(*                                                                         *)
(* A stream is a sequence of symbols.  "t" is the line break CRLF, so that *)
(* <<"t", "t">> is the header terminator and can be cut in the middle; the *)
(* others are what a header line can begin with, or bytes of a body.       *)
(***************************************************************************)
EXTENDS Naturals, Sequences, SequencesExt, FiniteSetsExt

CONSTANTS MaxStream,   \* bound: symbols of one stream
          MaxHeader    \* MAX_HEADER_BYTES

FrameAssumption == MaxStream \in Nat /\ MaxHeader \in Nat

\* "len0" .. "len2": a Content-Length line with a usable value; "huge": one past
\* MAX_CONTENT_LENGTH; "nan": one that is no number; "raw": not UTF-8; "x": other.
Symbol == {"t", "len0", "len2", "huge", "nan", "raw", "x"}
LengthLine == {"len0", "len2", "huge", "nan"}
Terminator == <<"t", "t">>

VARIABLES stream,   \* what the engine will have written, and how much is left
          buffer,   \* FrameDecoder.buffer
          bodies,   \* bodies handed to dispatch
          fault,    \* the FramingError, or "none"
          starving  \* the last next_frame asked for more bytes
frameVars == <<stream, buffer, bodies, fault, starving>>
-----------------------------------------------------------------------------
(* parse_content_length *)

\* Where the Content-Length lines of a header block begin.
NamedLines(h) == {i \in DOMAIN h : h[i] \in LengthLine /\ (i = 1 \/ h[i - 1] = "t")}

\* The value of the line that begins at i; anything after the number spoils it.
LineLength(h, i) ==
  CASE i < Len(h) /\ h[i + 1] # "t" -> [fault |-> "invalid", size |-> 0]
    [] h[i] = "nan"   -> [fault |-> "invalid", size |-> 0]
    [] h[i] = "huge"  -> [fault |-> "too large", size |-> 0]
    [] h[i] = "len0"  -> [fault |-> "none", size |-> 0]
    [] OTHER          -> [fault |-> "none", size |-> 2]

\* The first Content-Length line decides; the block must be text in any case.
ContentLength(h) ==
  LET named == NamedLines(h)
  IN  CASE "raw" \in ToSet(h) -> [fault |-> "text", size |-> 0]
        [] "raw" \notin ToSet(h) /\ named = {} -> [fault |-> "missing", size |-> 0]
        [] OTHER -> LineLength(h, Min(named))
-----------------------------------------------------------------------------
(* FrameDecoder::next_frame *)

\* find_subslice: where the first terminator begins, or 0.
Separator(b) ==
  LET at == {i \in 1 .. Len(b) - 1 : SubSeq(b, i, i + 1) = Terminator}
  IN  IF at = {} THEN 0 ELSE CHOOSE i \in at : \A j \in at : i <= j

More == [kind |-> "more"]
Failed(f) == [kind |-> "fault", fault |-> f]
BodyOf(b, from, to) == [kind |-> "body", body |-> SubSeq(b, from, to), rest |-> SubSeq(b, to + 1, Len(b))]

\* Mutant: the terminator is not skipped, so a body begins inside it.
FrameInShort(b) ==
  LET at == Separator(b)
      len == ContentLength(SubSeq(b, 1, at - 1))
      end == at + len.size
  IN  CASE at = 0 -> IF Len(b) > MaxHeader THEN Failed("header") ELSE More
        [] at > 0 /\ len.fault # "none" -> Failed(len.fault)
        [] at > 0 /\ len.fault = "none" /\ Len(b) < end -> More
        [] OTHER -> BodyOf(b, at + 1, end)

\* Mutant: the ceiling also refuses a header whose body is still incomplete.
FrameInEager(b) ==
  LET at == Separator(b)
      len == ContentLength(SubSeq(b, 1, at - 1))
      end == at + 1 + len.size
  IN  CASE at = 0 -> IF Len(b) > MaxHeader THEN Failed("header") ELSE More
        [] at > 0 /\ len.fault # "none" -> Failed(len.fault)
        [] at > 0 /\ len.fault = "none" /\ Len(b) < end ->
             IF Len(b) > MaxHeader THEN Failed("header") ELSE More
        [] OTHER -> BodyOf(b, at + 2, end)

FrameIn(b) ==
  LET at == Separator(b)
      len == ContentLength(SubSeq(b, 1, at - 1))
      end == at + 1 + len.size
  IN  CASE at = 0 -> IF Len(b) > MaxHeader THEN Failed("header") ELSE More
        [] at > 0 /\ len.fault # "none" -> Failed(len.fault)
        [] at > 0 /\ len.fault = "none" /\ Len(b) < end -> More
        [] OTHER -> BodyOf(b, at + 2, end)
-----------------------------------------------------------------------------
(* Reader::run *)

FrameInit ==
  /\ \E n \in 0 .. MaxStream : stream \in [whole : [1 .. n -> Symbol], left : {n}]
  /\ buffer = <<>> /\ bodies = <<>> /\ fault = "none" /\ starving = TRUE

\* One read of any size, only when every complete frame has been taken out.
Read(n) ==
  /\ starving /\ fault = "none" /\ n <= stream.left
  /\ LET from == Len(stream.whole) - stream.left
     IN  buffer' = buffer \o SubSeq(stream.whole, from + 1, from + n)
  /\ stream' = [stream EXCEPT !.left = @ - n]
  /\ starving' = FALSE
  /\ UNCHANGED <<bodies, fault>>

NextFrame ==
  /\ ~starving /\ fault = "none"
  /\ LET f == FrameIn(buffer) IN
     CASE f.kind = "more"  -> starving' = TRUE /\ UNCHANGED <<buffer, bodies, fault>>
       [] f.kind = "fault" -> fault' = f.fault /\ UNCHANGED <<buffer, bodies, starving>>
       [] f.kind = "body"  -> /\ bodies' = Append(bodies, f.body)
                              /\ buffer' = f.rest
                              /\ UNCHANGED <<fault, starving>>
  /\ UNCHANGED stream

FrameNext == NextFrame \/ \E n \in 1 .. MaxStream : Read(n)

FrameSpec == FrameInit /\ [][FrameNext]_frameVars
-----------------------------------------------------------------------------
\* The reference: the stream read as a whole, by position.  A frame is a block
\* up to the first terminator, then as many symbols as the block says.
Size(s)  == ContentLength(SubSeq(s, 1, Separator(s) - 1))
After(s) == SubSeq(s, Separator(s) + 2 + Size(s).size, Len(s))

\* The frames of s, given those of what comes after the first one.
Frames(s, rest) ==
  LET at == Separator(s)
      end == at + 1 + Size(s).size
  IN  IF at = 0 THEN [bodies |-> <<>>, fault |-> "none", widest |-> Len(s)]
      ELSE IF Size(s).fault # "none" THEN [bodies |-> <<>>, fault |-> Size(s).fault, widest |-> at]
      ELSE IF Len(s) < end THEN [bodies |-> <<>>, fault |-> "none", widest |-> at]
      ELSE [bodies |-> <<SubSeq(s, at + 2, end)>> \o rest.bodies,
            fault  |-> rest.fault,
            widest |-> IF at > rest.widest THEN at ELSE rest.widest]

Reference[s \in Seq(Symbol)] == Frames(s, Reference[After(s)])

Whole == Reference[stream.whole]
Drained == fault # "none" \/ (starving /\ stream.left = 0)

\* A message split across reads, several messages in one read: the bodies are a
\* prefix of the stream's frames at every moment, in order, none torn or glued,
\* whichever faults strike.
BodiesAreFrames == IsPrefix(bodies, Whole.bodies)

\* However the stream is cut, its bodies and its fault come out the same, for
\* every stream whose header blocks keep to the ceiling.
CutsDoNotMatter ==
  Drained /\ Whole.widest <= MaxHeader
    => bodies = Whole.bodies /\ fault = Whole.fault
-----------------------------------------------------------------------------
(* The inductive invariant behind both *)

FrameTypeOK ==
  /\ stream \in [whole : Seq(Symbol), left : Nat] /\ stream.left <= Len(stream.whole)
  /\ buffer \in Seq(Symbol) /\ bodies \in Seq(Seq(Symbol)) /\ starving \in BOOLEAN

\* What has not been decoded: the buffer, then what has not been read.
Undecoded == buffer \o SubSeq(stream.whole, Len(stream.whole) - stream.left + 1, Len(stream.whole))

\* The bodies handed out and the frames of what is left are the stream's.
NothingIsLost ==
  /\ Whole.bodies = bodies \o Reference[Undecoded].bodies
  /\ Whole.fault = Reference[Undecoded].fault
  /\ Whole.widest >= Reference[Undecoded].widest

\* next_frame asks for more only when the buffer has no complete frame.
StarvesForCause == starving => FrameIn(buffer) = More

\* A fault is the one of the next frame, or of a header block past the ceiling.
FaultIsFound ==
  fault # "none" =>
    \/ fault = Reference[Undecoded].fault /\ Reference[Undecoded].bodies = <<>>
    \/ Reference[Undecoded].widest > MaxHeader

FrameIInv == FrameTypeOK /\ NothingIsLost /\ StarvesForCause /\ FaultIsFound
=============================================================================
