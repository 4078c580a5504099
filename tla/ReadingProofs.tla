---------------------------- MODULE ReadingProofs ----------------------------
(***************************************************************************)
(* Proofs about two components of the sources suite, each on its own       *)
(* variables: the decoder of an engine's stream, for streams of every      *)
(* length, every cut of them into reads and every ceiling on a header      *)
(* block; and the closure of supertypes, for every workspace and depth.    *)
(***************************************************************************)
EXTENDS FrameDecoder, SupertypeClosure, SharedLemmas, FunctionTheorems

\* What parse_content_length can answer.
LengthFault == {"none", "invalid", "too large", "text", "missing"}
LengthAnswer == [fault : LengthFault, size : {0, 2}]

\* And nothing else.
LEMMA SizeType ==
  ASSUME NEW h
  PROVE  ContentLength(h) \in LengthAnswer
<1>1. ASSUME NEW i PROVE LineLength(h, i) \in LengthAnswer
  <2>1. /\ [fault |-> "invalid", size |-> 0] \in LengthAnswer /\ [fault |-> "too large", size |-> 0] \in LengthAnswer
        /\ [fault |-> "none", size |-> 0] \in LengthAnswer /\ [fault |-> "none", size |-> 2] \in LengthAnswer
    BY DEF LengthAnswer, LengthFault
  <2> QED
    BY <2>1 DEF LineLength
<1>2. [fault |-> "text", size |-> 0] \in LengthAnswer /\ [fault |-> "missing", size |-> 0] \in LengthAnswer
  BY DEF LengthAnswer, LengthFault
<1> QED
  BY <1>1, <1>2 DEF ContentLength

\* find_subslice: the first place where two line breaks stand side by side.
LEMMA SeparatorIs ==
  ASSUME NEW b \in Seq(Symbol)
  PROVE  /\ Separator(b) \in Nat /\ Separator(b) <= Len(b)
         /\ Separator(b) > 0 =>
              /\ Separator(b) < Len(b)
              /\ b[Separator(b)] = "t" /\ b[Separator(b) + 1] = "t"
         /\ \A i \in 1 .. Len(b) - 1 :
              b[i] = "t" /\ b[i + 1] = "t" => Separator(b) > 0 /\ Separator(b) <= i
<1> DEFINE at0 == {i \in 1 .. Len(b) - 1 : SubSeq(b, i, i + 1) = Terminator}
<1>1. Separator(b) = IF at0 = {} THEN 0 ELSE CHOOSE i \in at0 : \A j \in at0 : i <= j
  BY DEF Separator
<1>2. ASSUME NEW i \in 1 .. Len(b) - 1
      PROVE  SubSeq(b, i, i + 1) = Terminator <=> b[i] = "t" /\ b[i + 1] = "t"
  <2>1. /\ SubSeq(b, i, i + 1) \in Seq(Symbol) /\ Len(SubSeq(b, i, i + 1)) = 2
        /\ SubSeq(b, i, i + 1)[1] = b[i] /\ SubSeq(b, i, i + 1)[2] = b[i + 1]
    OBVIOUS
  <2>2. /\ <<"t", "t">> \in Seq({"t"}) /\ Len(<<"t", "t">>) = 2
        /\ <<"t", "t">>[1] = "t" /\ <<"t", "t">>[2] = "t"
    OBVIOUS
  <2>3. ASSUME b[i] = "t", b[i + 1] = "t" PROVE SubSeq(b, i, i + 1) = <<"t", "t">>
    <3> DEFINE u == SubSeq(b, i, i + 1)
               v == <<"t", "t">>
    <3>1. u \in Seq(Symbol) /\ v \in Seq({"t"}) /\ Len(u) = Len(v)
      BY <2>1, <2>2
    <3>2. \A j \in 1 .. Len(u) : u[j] = v[j]
      BY <2>1, <2>2, <2>3
    <3> HIDE DEF u, v
    <3>3. u = v
      BY <3>1, <3>2, SeqEqual
    <3> QED
      BY <3>3 DEF u, v
  <2> QED
    BY <2>1, <2>2, <2>3 DEF Terminator
<1>3. at0 = {i \in 1 .. Len(b) - 1 : b[i] = "t" /\ b[i + 1] = "t"}
  BY <1>2
<1>4. CASE at0 = {}
  <2>1. Separator(b) = 0
    BY <1>1, <1>4
  <2>2. \A i \in 1 .. Len(b) - 1 : ~ (b[i] = "t" /\ b[i + 1] = "t")
    BY <1>3, <1>4
  <2>3. Len(b) \in Nat
    OBVIOUS
  <2> HIDE DEF at0
  <2> QED
    BY <2>1, <2>2, <2>3
<1>5. CASE at0 # {}
  <2>1. at0 \in SUBSET Nat
    OBVIOUS
  <2> HIDE DEF at0
  <2>2. \E i \in at0 : \A j \in at0 : i <= j
    BY <1>5, <2>1, LeastNatural
  <2>3. Separator(b) \in at0 /\ \A j \in at0 : Separator(b) <= j
    BY <1>1, <1>5, <2>2
  <2> QED
    BY <1>3, <2>3
<1> QED
  BY <1>4, <1>5

\* What follows the buffer does not move a separator it has, and puts the first one
\* no earlier than its last symbol when it has none.
LEMMA SeparatorOfMore ==
  ASSUME NEW b \in Seq(Symbol), NEW r \in Seq(Symbol)
  PROVE  /\ Separator(b) > 0 => Separator(b \o r) = Separator(b)
         /\ Separator(b) = 0 => Separator(b \o r) = 0 \/ Separator(b \o r) >= Len(b)
<1> DEFINE w == b \o r
<1>1. /\ w \in Seq(Symbol) /\ Len(w) = Len(b) + Len(r)
      /\ \A i \in 1 .. Len(b) : w[i] = b[i]
  OBVIOUS
<1> HIDE DEF w
<1> DEFINE p == Separator(b)
           q == Separator(w)
<1>2. /\ p \in Nat /\ p <= Len(b)
      /\ p > 0 => p < Len(b) /\ b[p] = "t" /\ b[p + 1] = "t"
      /\ \A i \in 1 .. Len(b) - 1 : b[i] = "t" /\ b[i + 1] = "t" => p > 0 /\ p <= i
  BY SeparatorIs
<1>3. /\ q \in Nat /\ q <= Len(w)
      /\ q > 0 => q < Len(w) /\ w[q] = "t" /\ w[q + 1] = "t"
      /\ \A i \in 1 .. Len(w) - 1 : w[i] = "t" /\ w[i + 1] = "t" => q > 0 /\ q <= i
  BY <1>1, SeparatorIs
<1> HIDE DEF p, q
<1>4. Len(b) \in Nat /\ Len(r) \in Nat
  OBVIOUS
<1>5. CASE p > 0
  <2>0. p < Len(b) /\ p \in 1 .. Len(b) /\ p + 1 \in 1 .. Len(b) /\ b[p] = "t" /\ b[p + 1] = "t"
    BY <1>2, <1>4, <1>5
  <2>1. p \in 1 .. Len(w) - 1 /\ w[p] = "t" /\ w[p + 1] = "t"
    <3>1. p \in 1 .. Len(w) - 1
      BY <1>1, <1>2, <1>4, <2>0
    <3> QED
      BY <1>1, <2>0, <3>1
  <2>2. q > 0 /\ q <= p
    BY <1>3, <2>1
  <2>3. q \in 1 .. Len(b) - 1 /\ b[q] = "t" /\ b[q + 1] = "t"
    BY <1>1, <1>2, <1>3, <1>4, <1>5, <2>2
  <2>4. p <= q
    BY <1>2, <2>3
  <2> QED
    BY <1>2, <1>3, <1>5, <2>2, <2>4 DEF p, q, w
<1>6. CASE p = 0
  <2>1. ASSUME q > 0, q < Len(b) PROVE FALSE
    <3>1. q \in 1 .. Len(b) - 1 /\ b[q] = "t" /\ b[q + 1] = "t"
      BY <1>1, <1>3, <1>4, <2>1
    <3> QED
      BY <1>2, <1>6, <3>1
  <2> QED
    BY <1>3, <1>4, <1>6, <2>1 DEF p, q, w
<1> QED
  BY <1>2, <1>5, <1>6 DEF p

\* The frame after the first is in a shorter stream.
LEMMA AfterIsShorter ==
  ASSUME NEW s \in Seq(Symbol)
  PROVE  /\ After(s) \in Seq(Symbol)
         /\ Separator(s) > 0 => Len(After(s)) < Len(s)
<1> DEFINE at0 == Separator(s)
           size == Size(s).size
<1>1. at0 \in Nat /\ at0 <= Len(s) /\ (at0 > 0 => at0 < Len(s))
  BY SeparatorIs
<1>2. size \in {0, 2}
  BY SizeType DEF Size, LengthAnswer
<1>3. After(s) = SubSeq(s, at0 + 2 + size, Len(s))
  BY DEF After
<1> HIDE DEF at0, size
<1>4. at0 + 2 + size \in 1 .. Len(s) + 1 \/ at0 + 2 + size > Len(s)
  BY <1>1, <1>2
<1>5. PICK m \in Nat : m = at0 + 2 + size
  BY <1>1, <1>2
<1>6. SubSeq(s, m, Len(s)) \in Seq(Symbol) /\ (m > 1 => Len(SubSeq(s, m, Len(s))) < Len(s) \/ Len(s) = 0)
  BY <1>5, <1>1, <1>2
<1> QED
  BY <1>1, <1>2, <1>3, <1>5, <1>6 DEF at0

\* The frames of a stream have a value: those of what follows the first are found first.
FrameAnswer == [bodies : Seq(Seq(Symbol)), fault : LengthFault, widest : Nat]

\* One step of the reference keeps its type, and looks no further than a shorter stream.
LEMMA FramesStep ==
  ASSUME NEW s \in Seq(Symbol), NEW r, r \in FrameAnswer
  PROVE  /\ Frames(s, r) \in FrameAnswer
         /\ Separator(s) = 0 => \A q : Frames(s, q) = Frames(s, r)
<1> DEFINE at0 == Separator(s)
           sz == Size(s)
           end == at0 + 1 + sz.size
<1>1. at0 \in Nat /\ at0 <= Len(s) /\ Len(s) \in Nat
  BY SeparatorIs
<1>2. sz \in LengthAnswer
  BY SizeType DEF Size
<1>3. ASSUME NEW q
      PROVE  Frames(s, q) =
               IF at0 = 0 THEN [bodies |-> <<>>, fault |-> "none", widest |-> Len(s)]
               ELSE IF sz.fault # "none" THEN [bodies |-> <<>>, fault |-> sz.fault, widest |-> at0]
               ELSE IF Len(s) < end THEN [bodies |-> <<>>, fault |-> "none", widest |-> at0]
               ELSE [bodies |-> <<SubSeq(s, at0 + 2, end)>> \o q.bodies, fault |-> q.fault,
                     widest |-> IF at0 > q.widest THEN at0 ELSE q.widest]
  BY DEF Frames
<1>4. ASSUME end <= Len(s)
      PROVE  <<SubSeq(s, at0 + 2, end)>> \o r.bodies \in Seq(Seq(Symbol))
  <2>1. PICK m \in Nat, k \in Nat : m = at0 + 2 /\ k = end /\ m >= 1 /\ k <= Len(s)
    BY <1>1, <1>2, <1>4 DEF LengthAnswer
  <2> HIDE DEF at0, sz, end
  <2>2. SubSeq(s, m, k) \in Seq(Symbol)
    BY <2>1
  <2>3. r.bodies \in Seq(Seq(Symbol))
    BY DEF FrameAnswer
  <2> QED
    BY <2>1, <2>2, <2>3
<1>5. <<>> \in Seq(Seq(Symbol)) /\ end \in Nat
  BY <1>1, <1>2 DEF LengthAnswer
<1> HIDE DEF at0, sz, end
<1>6. /\ [bodies |-> <<>>, fault |-> "none", widest |-> Len(s)] \in FrameAnswer
      /\ [bodies |-> <<>>, fault |-> sz.fault, widest |-> at0] \in FrameAnswer
      /\ [bodies |-> <<>>, fault |-> "none", widest |-> at0] \in FrameAnswer
  BY <1>1, <1>2, <1>5 DEF FrameAnswer, LengthAnswer, LengthFault
<1>9. ASSUME ~ (Len(s) < end)
      PROVE  [bodies |-> <<SubSeq(s, at0 + 2, end)>> \o r.bodies, fault |-> r.fault,
              widest |-> IF at0 > r.widest THEN at0 ELSE r.widest] \in FrameAnswer
  <2>1. PICK bs : bs = <<SubSeq(s, at0 + 2, end)>> \o r.bodies
    OBVIOUS
  <2>2. bs \in Seq(Seq(Symbol))
    BY <1>1, <1>4, <1>5, <1>9, <2>1
  <2>3. r.fault \in LengthFault /\ (IF at0 > r.widest THEN at0 ELSE r.widest) \in Nat
    BY <1>1 DEF FrameAnswer
  <2> QED
    BY <2>1, <2>2, <2>3 DEF FrameAnswer
<1>7. Frames(s, r) \in FrameAnswer
  <2>1. CASE at0 = 0
    BY <1>3, <1>6, <2>1
  <2>2. CASE at0 # 0 /\ sz.fault # "none"
    BY <1>3, <1>6, <2>2
  <2>3. CASE at0 # 0 /\ sz.fault = "none" /\ Len(s) < end
    BY <1>3, <1>6, <2>3
  <2>4. CASE at0 # 0 /\ sz.fault = "none" /\ ~ (Len(s) < end)
    BY <1>3, <1>9, <2>4
  <2> QED
    BY <2>1, <2>2, <2>3, <2>4
<1>8. at0 = 0 => \A q : Frames(s, q) = Frames(s, r)
  BY <1>3
<1> QED
  BY <1>7, <1>8 DEF at0

\* The reference is a function, and is what its equation says.
LEMMA ReferenceIs ==
  /\ Reference \in [Seq(Symbol) -> FrameAnswer]
  /\ \A s \in Seq(Symbol) : Reference[s] = Frames(s, Reference[After(s)])
<1> DEFINE S == Seq(Symbol)
           Again(g) == [s \in S |-> Frames(s, g[After(s)])]
           F == [g \in [S -> FrameAnswer] |-> Again(g)]
           size == [s \in S |-> Len(s)]
<1>1. \A s \in S : /\ After(s) \in S
                   /\ Separator(s) # 0 => Len(After(s)) < Len(s)
  BY AfterIsShorter, SeparatorIs
<1>2. size \in [S -> Nat]
  OBVIOUS
<1>3. FrameAnswer # {}
  <2>1. [bodies |-> <<>>, fault |-> "none", widest |-> 0] \in FrameAnswer
    BY DEF FrameAnswer, LengthFault
  <2> QED
    BY <2>1
<1>4. ASSUME NEW g \in [S -> FrameAnswer] PROVE Again(g) \in [S -> FrameAnswer]
  BY <1>1, FramesStep
<1>5. F \in [[S -> FrameAnswer] -> [S -> FrameAnswer]]
  BY <1>4
<1>6. LooksDown(S, FrameAnswer, size, F)
  <2> SUFFICES ASSUME NEW g \in [S -> FrameAnswer], NEW h \in [S -> FrameAnswer], NEW x \in S,
                      \A y \in S : size[y] < size[x] => g[y] = h[y]
               PROVE  F[g][x] = F[h][x]
    BY DEF LooksDown
  <2>1. F[g][x] = Frames(x, g[After(x)]) /\ F[h][x] = Frames(x, h[After(x)])
    OBVIOUS
  <2>2. CASE Separator(x) = 0
    BY <1>1, <2>1, <2>2, FramesStep
  <2>3. CASE Separator(x) # 0
    BY <1>1, <2>1, <2>3
  <2> QED
    BY <2>2, <2>3
<1>7. \E g \in [S -> FrameAnswer] : F[g] = g
  <2> HIDE DEF S, F, size
  <2>1. FixedPoints(S, FrameAnswer, F) # {}
    BY <1>2, <1>3, <1>5, <1>6, RecursionTheorem
  <2> QED
    BY <2>1 DEF FixedPoints
<1>8. \E g : g = Again(g)
  BY <1>7
<1>9. Reference = Again(Reference)
  <2>1. Reference = CHOOSE g : g = Again(g)
    BY DEF Reference
  <2> HIDE DEF Again
  <2> QED
    BY <1>8, <2>1
<1> DEFINE ref == Reference
           Typed == {n \in Nat : \A s \in S : Len(s) <= n => ref[s] \in FrameAnswer}
<1>10. \A s \in S : ref[s] = Frames(s, ref[After(s)])
  BY <1>9
<1> HIDE DEF ref
<1>11. \A n \in Nat : n \in Typed
  <2>0. PICK c : c \in FrameAnswer
    BY <1>3
  <2>1. ASSUME NEW n \in Nat, NEW s \in S, Len(s) <= n, \A t \in S : Len(t) < n => ref[t] \in FrameAnswer
        PROVE  ref[s] \in FrameAnswer
    <3>1. CASE Separator(s) = 0
      <4>1. Frames(s, ref[After(s)]) = Frames(s, c) /\ Frames(s, c) \in FrameAnswer
        BY <2>0, <3>1, FramesStep
      <4> QED
        BY <1>10, <4>1
    <3>2. CASE Separator(s) # 0
      <4>1. ref[After(s)] \in FrameAnswer
        <5>1. Len(After(s)) \in Nat /\ Len(s) \in Nat /\ Len(After(s)) < Len(s)
          BY <1>1, <3>2
        <5> QED
          BY <1>1, <2>1, <5>1
      <4> QED
        BY <1>10, <4>1, FramesStep
    <3> QED
      BY <3>1, <3>2
  <2>2. 0 \in Typed
    BY <2>1
  <2>3. ASSUME NEW n \in Nat, n \in Typed PROVE n + 1 \in Typed
    <3>1. \A t \in S : Len(t) < n + 1 => ref[t] \in FrameAnswer
      BY <2>3
    <3> QED
      BY <2>1, <3>1
  <2> HIDE DEF Typed
  <2> QED
    BY <2>2, <2>3, Induct
<1>12. \A s \in S : ref[s] \in FrameAnswer
  BY <1>11
<1>13. ref = [s \in S |-> ref[s]]
  BY <1>9 DEF ref
<1> QED
  BY <1>10, <1>12, <1>13 DEF ref

\* A frame whose block and body are in the buffer is read alike from the buffer and
\* from the whole stream.
LEMMA BlockOfMore ==
  ASSUME NEW b \in Seq(Symbol), NEW r \in Seq(Symbol), Separator(b) > 0
  PROVE  /\ Size(b \o r) = Size(b)
         /\ Separator(b) + 1 + Size(b).size <= Len(b) =>
              /\ SubSeq(b \o r, Separator(b) + 2, Separator(b) + 1 + Size(b).size)
                   = SubSeq(b, Separator(b) + 2, Separator(b) + 1 + Size(b).size)
              /\ After(b \o r) = SubSeq(b, Separator(b) + 2 + Size(b).size, Len(b)) \o r
              /\ SubSeq(b, Separator(b) + 2 + Size(b).size, Len(b)) \in Seq(Symbol)
              /\ SubSeq(b, Separator(b) + 2, Separator(b) + 1 + Size(b).size) \in Seq(Symbol)
<1>1. PICK k \in Nat : k = Separator(b) /\ k > 0 /\ k < Len(b)
  BY SeparatorIs
<1>2. Separator(b \o r) = k
  BY <1>1, SeparatorOfMore
<1>3. SubSeq(b \o r, 1, k - 1) = SubSeq(b, 1, k - 1)
  BY <1>1, SubSeqOfConcat1
<1>4. Size(b \o r) = Size(b)
  BY <1>1, <1>2, <1>3 DEF Size
<1>5. PICK z \in Nat : z = Size(b).size
  BY SizeType DEF Size, LengthAnswer
<1>6. ASSUME k + 1 + z <= Len(b)
      PROVE  /\ SubSeq(b \o r, k + 2, k + 1 + z) = SubSeq(b, k + 2, k + 1 + z)
             /\ SubSeq(b \o r, k + 2 + z, Len(b \o r)) = SubSeq(b, k + 2 + z, Len(b)) \o r
             /\ SubSeq(b, k + 2 + z, Len(b)) \in Seq(Symbol)
             /\ SubSeq(b, k + 2, k + 1 + z) \in Seq(Symbol)
  <2>1. SubSeq(b \o r, k + 2, k + 1 + z) = SubSeq(b, k + 2, k + 1 + z)
    BY <1>6, SubSeqOfConcat1
  <2>2. SubSeq(b \o r, k + 2 + z, Len(b \o r)) = SubSeq(b, k + 2 + z, Len(b)) \o r
    <3>1. k + 2 + z \in Nat /\ k + 2 + z >= 1 /\ k + 2 + z <= Len(b) + 1
      BY <1>6
    <3> QED
      BY <3>1, ConcatTail
  <2>3. SubSeq(b, k + 2 + z, Len(b)) \in Seq(Symbol)
    BY <1>6
  <2>4. SubSeq(b, k + 2, k + 1 + z) \in Seq(Symbol)
    BY <1>6
  <2> QED
    BY <2>1, <2>2, <2>3, <2>4
<1>7. After(b \o r) = SubSeq(b \o r, k + 2 + z, Len(b \o r))
  BY <1>1, <1>2, <1>4, <1>5 DEF After
<1> QED
  BY <1>1, <1>4, <1>5, <1>6, <1>7

\* What next_frame makes of a buffer, and the reference of the buffer and what follows.
LEMMA NextFrameIs ==
  ASSUME NEW b \in Seq(Symbol), NEW r \in Seq(Symbol), MaxHeader \in Nat
  PROVE  LET f == FrameIn(b)
             w == Reference[b \o r]
         IN  \/ f = More /\ (r = <<>> => w.bodies = <<>> /\ w.fault = "none")
             \/ /\ f = Failed("header") /\ w.widest > MaxHeader
             \/ /\ f = Failed(w.fault) /\ w.bodies = <<>> /\ w.fault # "none"
             \/ \E body \in Seq(Symbol), rest \in Seq(Symbol) :
                  /\ f = [kind |-> "body", body |-> body, rest |-> rest]
                  /\ w.bodies = <<body>> \o Reference[rest \o r].bodies
                  /\ w.fault = Reference[rest \o r].fault
                  /\ w.widest >= Reference[rest \o r].widest
<1> DEFINE f == FrameIn(b)
           ref == Reference
           x == b \o r
           after == ref[After(x)]
<1>1. PICK k \in Nat, n \in Nat : k = Separator(b) /\ n = Len(b)
  BY SeparatorIs
<1>2. PICK z \in Nat : z = Size(b).size
  BY SizeType DEF Size, LengthAnswer
<1>3. PICK e \in LengthFault : e = Size(b).fault
  BY SizeType DEF Size, LengthAnswer
<1>4. f = CASE k = 0 -> IF n > MaxHeader THEN Failed("header") ELSE More
            [] k > 0 /\ e # "none" -> Failed(e)
            [] k > 0 /\ e = "none" /\ n < k + 1 + z -> More
            [] OTHER -> BodyOf(b, k + 2, k + 1 + z)
  BY <1>1, <1>2, <1>3 DEF FrameIn, Size
<1>5. x \in Seq(Symbol) /\ Len(x) \in Nat /\ Len(x) >= n
  BY <1>1
<1>6. /\ after \in FrameAnswer
      /\ ref[x] \in FrameAnswer /\ ref[x] = Frames(x, after)
  BY <1>5, AfterIsShorter, ReferenceIs
<1>7. PICK q \in Nat : q = Separator(x)
  BY <1>5, SeparatorIs
<1>8. ref[x] = IF q = 0 THEN [bodies |-> <<>>, fault |-> "none", widest |-> Len(x)]
               ELSE IF Size(x).fault # "none"
                    THEN [bodies |-> <<>>, fault |-> Size(x).fault, widest |-> q]
               ELSE IF Len(x) < q + 1 + Size(x).size
                    THEN [bodies |-> <<>>, fault |-> "none", widest |-> q]
               ELSE [bodies |-> <<SubSeq(x, q + 2, q + 1 + Size(x).size)>> \o after.bodies,
                     fault |-> after.fault,
                     widest |-> IF q > after.widest THEN q ELSE after.widest]
  BY <1>6, <1>7 DEF Frames
<1>9. after.widest \in Nat
  BY <1>6 DEF FrameAnswer
<1>10. r = <<>> => x = b
  OBVIOUS
<1>11. k > 0 => q = k /\ Size(x) = Size(b)
  BY <1>1, <1>7, SeparatorOfMore, BlockOfMore
<1>12. k = 0 => q = 0 \/ q >= n
  BY <1>1, <1>7, SeparatorOfMore
<1>13. k > 0 /\ k + 1 + z <= n =>
         /\ SubSeq(x, k + 2, k + 1 + z) = SubSeq(b, k + 2, k + 1 + z)
         /\ After(x) = SubSeq(b, k + 2 + z, n) \o r
         /\ SubSeq(b, k + 2 + z, n) \in Seq(Symbol)
         /\ SubSeq(b, k + 2, k + 1 + z) \in Seq(Symbol)
  BY <1>1, <1>2, BlockOfMore
<1> HIDE DEF f, ref, x, after
<1>14. CASE k = 0 /\ n > MaxHeader
  <2>1. f = Failed("header")
    BY <1>4, <1>14
  <2>2. ref[x].widest > MaxHeader
    <3>1. CASE q = 0
      BY <1>5, <1>8, <1>14, <3>1
    <3>2. CASE q # 0
      <4>1. q > MaxHeader
        BY <1>12, <1>14, <3>2
      <4>2. ref[x].widest = q \/ (ref[x].widest = after.widest /\ ~ (q > after.widest))
        <5>1. CASE Size(x).fault # "none"
          <6>1. ref[x] = [bodies |-> <<>>, fault |-> Size(x).fault, widest |-> q]
            BY <1>8, <3>2, <5>1
          <6> QED
            BY <6>1
        <5>2. CASE Size(x).fault = "none" /\ Len(x) < q + 1 + Size(x).size
          <6>1. ref[x] = [bodies |-> <<>>, fault |-> "none", widest |-> q]
            BY <1>8, <3>2, <5>2
          <6> QED
            BY <6>1
        <5>3. CASE Size(x).fault = "none" /\ ~ (Len(x) < q + 1 + Size(x).size)
          <6>1. ref[x] = [bodies |-> <<SubSeq(x, q + 2, q + 1 + Size(x).size)>> \o after.bodies,
                          fault |-> after.fault,
                          widest |-> IF q > after.widest THEN q ELSE after.widest]
            BY <1>8, <3>2, <5>3
          <6>2. ref[x].widest = (IF q > after.widest THEN q ELSE after.widest)
            BY <6>1
          <6> QED
            BY <6>2
        <5> QED
          BY <5>1, <5>2, <5>3
      <4> QED
        BY <1>9, <4>1, <4>2
    <3> QED
      BY <3>1, <3>2
  <2> QED
    BY <2>1, <2>2 DEF f, ref, x
<1>15. CASE k = 0 /\ ~ (n > MaxHeader)
  <2>1. f = More
    BY <1>4, <1>15
  <2>2. ASSUME r = <<>> PROVE ref[x].bodies = <<>> /\ ref[x].fault = "none"
    <3>1. q = 0
      BY <1>1, <1>7, <1>10, <1>15, <2>2
    <3> QED
      BY <1>8, <3>1
  <2> QED
    BY <2>1, <2>2 DEF f, ref, x
<1>16. CASE k > 0 /\ e # "none"
  <2>1. f = Failed(e)
    BY <1>4, <1>16
  <2>2. ref[x].bodies = <<>> /\ ref[x].fault = e
    BY <1>3, <1>8, <1>11, <1>16
  <2> QED
    BY <1>16, <2>1, <2>2 DEF f, ref, x
<1>17. CASE k > 0 /\ e = "none" /\ n < k + 1 + z
  <2>1. f = More
    BY <1>4, <1>17
  <2>2. ASSUME r = <<>> PROVE ref[x].bodies = <<>> /\ ref[x].fault = "none"
    <3>1. q = k /\ Size(x).fault = "none" /\ Len(x) < q + 1 + Size(x).size
      BY <1>1, <1>2, <1>3, <1>10, <1>11, <1>17, <2>2
    <3> QED
      BY <1>8, <1>17, <3>1
  <2> QED
    BY <2>1, <2>2 DEF f, ref, x
<1>18. CASE k > 0 /\ e = "none" /\ ~ (n < k + 1 + z)
  <2> DEFINE body == SubSeq(b, k + 2, k + 1 + z)
             rest == SubSeq(b, k + 2 + z, n)
  <2>1. f = [kind |-> "body", body |-> body, rest |-> rest]
    <3>1. f = BodyOf(b, k + 2, k + 1 + z)
      BY <1>4, <1>18
    <3>2. k + 1 + z + 1 = k + 2 + z
      OBVIOUS
    <3> QED
      BY <1>1, <3>1, <3>2 DEF BodyOf
  <2>2. /\ SubSeq(x, k + 2, k + 1 + z) = body /\ After(x) = rest \o r
        /\ rest \in Seq(Symbol) /\ body \in Seq(Symbol)
    BY <1>13, <1>18
  <2> HIDE DEF body, rest
  <2>3. /\ q = k /\ Size(x).fault = "none" /\ Size(x).size = z
        /\ ~ (Len(x) < q + 1 + Size(x).size)
    <3>1. q = k /\ Size(x).fault = "none" /\ Size(x).size = z
      BY <1>2, <1>3, <1>11, <1>18
    <3>2. ~ (Len(x) < k + 1 + z)
      BY <1>5, <1>18
    <3> QED
      BY <3>1, <3>2
  <2>4. /\ ref[x].bodies = <<body>> \o after.bodies
        /\ ref[x].fault = after.fault
        /\ ref[x].widest >= after.widest
    <3>1. q # 0
      BY <1>18, <2>3
    <3>2. ref[x] = [bodies |-> <<SubSeq(x, q + 2, q + 1 + Size(x).size)>> \o after.bodies,
                    fault |-> after.fault,
                    widest |-> IF q > after.widest THEN q ELSE after.widest]
      BY <1>8, <2>3, <3>1
    <3>3. ref[x].widest = (IF q > after.widest THEN q ELSE after.widest)
      BY <3>2
    <3>4. ref[x].widest >= after.widest
      BY <1>9, <3>3
    <3>5. SubSeq(x, q + 2, q + 1 + Size(x).size) = body
      BY <2>2, <2>3
    <3>6. ref[x].bodies = <<body>> \o after.bodies
      <4>1. ref[x].bodies = <<SubSeq(x, q + 2, q + 1 + Size(x).size)>> \o after.bodies
        BY <3>2
      <4> QED
        BY <3>5, <4>1, Zenon
    <3>7. ref[x].fault = after.fault
      BY <3>2
    <3> QED
      BY <3>4, <3>6, <3>7
  <2>5. after = ref[rest \o r]
    BY <2>2 DEF after
  <2> QED
    BY <2>1, <2>2, <2>4, <2>5 DEF f, ref, x
<1>19. k = 0 \/ k > 0
  OBVIOUS
<1> QED
  BY <1>14, <1>15, <1>16, <1>17, <1>18, <1>19

\* The initial states: nothing has been read, and all of it is to be decoded.
LEMMA FrameInitInv == FrameAssumption /\ FrameInit => FrameIInv
<1> SUFFICES ASSUME FrameAssumption, FrameInit PROVE FrameIInv
  OBVIOUS
<1>1. PICK n \in 0 .. MaxStream : stream \in [whole : [1 .. n -> Symbol], left : {n}]
  BY DEF FrameInit
<1>2. stream.whole \in [1 .. n -> Symbol] /\ stream.left = n
  BY <1>1
<1>3. stream.whole \in Seq(Symbol) /\ Len(stream.whole) = n /\ n \in Nat
  BY <1>2 DEF FrameAssumption
<1>4. buffer = <<>> /\ bodies = <<>> /\ fault = "none" /\ starving = TRUE
  BY DEF FrameInit
<1>5. stream \in [whole : Seq(Symbol), left : Nat]
  BY <1>1, <1>3
<1>6. FrameTypeOK
  BY <1>2, <1>3, <1>4, <1>5 DEF FrameTypeOK
<1>7. Undecoded = stream.whole
  <2>1. SubSeq(stream.whole, n - n + 1, n) = stream.whole
    BY <1>3, SubSeqFull
  <2>2. <<>> \o stream.whole = stream.whole
    BY <1>3
  <2> QED
    BY <1>2, <1>3, <1>4, <2>1, <2>2 DEF Undecoded
<1>8. NothingIsLost
  <2>1. Reference[stream.whole] \in FrameAnswer
    BY <1>3, ReferenceIs
  <2>2. PICK w \in FrameAnswer : w = Reference[stream.whole]
    BY <2>1
  <2>3. w.bodies = <<>> \o w.bodies /\ w.widest >= w.widest
    BY DEF FrameAnswer
  <2> QED
    BY <1>4, <1>7, <2>2, <2>3 DEF NothingIsLost, Whole
<1>9. StarvesForCause
  <2>1. Separator(<<>>) = 0
    <3>1. <<>> \in Seq(Symbol) /\ Len(<<>>) = 0
      OBVIOUS
    <3>2. PICK e \in Seq(Symbol) : e = <<>> /\ Len(e) = 0
      BY <3>1
    <3>3. Separator(e) \in Nat /\ Separator(e) <= 0
      BY <3>2, SeparatorIs
    <3> QED
      BY <3>2, <3>3
  <2>2. FrameIn(<<>>) = More
    BY <2>1 DEF FrameIn, FrameAssumption
  <2> QED
    BY <1>4, <2>2 DEF StarvesForCause
<1>10. FaultIsFound
  BY <1>4 DEF FaultIsFound
<1> QED
  BY <1>6, <1>8, <1>9, <1>10 DEF FrameIInv

\* A read moves symbols from the stream to the buffer: what is undecoded stays.
LEMMA ReadKeepsInv ==
  ASSUME FrameIInv, NEW n \in Nat, Read(n)
  PROVE  FrameIInv'
<1>1. FrameTypeOK /\ NothingIsLost
  BY DEF FrameIInv
<1>2. /\ fault = "none" /\ n <= stream.left
      /\ buffer' = buffer \o SubSeq(stream.whole, Len(stream.whole) - stream.left + 1, Len(stream.whole) - stream.left + n)
      /\ stream' = [stream EXCEPT !.left = @ - n] /\ starving' = FALSE /\ bodies' = bodies /\ fault' = fault
  BY DEF Read
<1>3. /\ stream \in [whole : Seq(Symbol), left : Nat] /\ buffer \in Seq(Symbol)
      /\ stream.left <= Len(stream.whole) /\ bodies \in Seq(Seq(Symbol))
  BY <1>1 DEF FrameTypeOK
<1>4. PICK whole \in Seq(Symbol) : whole = stream.whole
  BY <1>3
<1>5. PICK len \in Nat, left \in Nat : len = Len(whole) /\ left = stream.left
  BY <1>3, <1>4
<1>6. left <= len /\ n <= left
  BY <1>2, <1>3, <1>4, <1>5
<1>17. PICK from \in Nat : from = len - left
  BY <1>6
<1>7. /\ stream'.whole = whole /\ stream'.left = left - n /\ stream' \in [whole : Seq(Symbol), left : Nat]
      /\ stream'.left <= Len(whole)
  <2>1. left - n \in Nat /\ left - n <= len
    BY <1>6
  <2>2. stream' = [stream EXCEPT !.left = left - n]
    BY <1>2, <1>5
  <2> QED
    BY <1>3, <1>4, <1>5, <2>1, <2>2
<1> DEFINE took == SubSeq(whole, from + 1, from + n)
           togo == SubSeq(whole, from + n + 1, len)
<1>8. took \o togo = SubSeq(whole, from + 1, len)
  <2>1. /\ from + 1 \in 1 .. Len(whole) + 1 /\ from + n \in (from + 1) - 1 .. Len(whole)
        /\ len \in from + n .. Len(whole)
    BY <1>5, <1>6, <1>17
  <2> QED
    BY <2>1, ConcatAdjacentSubSeq
<1>9. took \in Seq(Symbol) /\ togo \in Seq(Symbol)
  <2>1. PICK c \in Nat : c = from + n /\ c <= len
    BY <1>5, <1>6, <1>17
  <2>2. SubSeq(whole, from + 1, c) \in Seq(Symbol)
    BY <1>5, <2>1
  <2>3. SubSeq(whole, c + 1, len) \in Seq(Symbol)
    BY <1>5, <2>1
  <2> QED
    BY <2>1, <2>2, <2>3
<1>10. buffer' = buffer \o took
  BY <1>2, <1>4, <1>5, <1>17
<1>11. Undecoded = buffer \o SubSeq(whole, from + 1, len)
  BY <1>4, <1>5, <1>17 DEF Undecoded
<1>12. Undecoded' = (buffer \o took) \o togo
  <2>1. len - (left - n) + 1 = from + n + 1
    BY <1>6, <1>17
  <2> QED
    BY <1>5, <1>7, <1>10, <2>1 DEF Undecoded
<1> HIDE DEF took, togo
<1>13. Undecoded' = Undecoded
  <2>1. (buffer \o took) \o togo = buffer \o (took \o togo)
    <3>1. \A a \in Seq(Symbol), b \in Seq(Symbol), c \in Seq(Symbol) :
            (a \o b) \o c = a \o (b \o c)
      BY ConcatAssoc
    <3> QED
      BY <1>3, <1>9, <3>1
  <2> QED
    BY <1>8, <1>11, <1>12, <2>1
<1>14. FrameTypeOK'
  <2>1. buffer \o took \in Seq(Symbol)
    BY <1>3, <1>9
  <2> QED
    BY <1>2, <1>3, <1>7, <1>10, <2>1 DEF FrameTypeOK
<1>15. NothingIsLost'
  BY <1>1, <1>2, <1>4, <1>7, <1>13 DEF NothingIsLost, Whole
<1>16. StarvesForCause' /\ FaultIsFound'
  BY <1>2 DEF StarvesForCause, FaultIsFound
<1> QED
  BY <1>14, <1>15, <1>16 DEF FrameIInv

\* A frame, a fault or a wait: the reference of what is undecoded says which.
LEMMA NextFrameKeepsInv ==
  ASSUME FrameAssumption, FrameIInv, NextFrame
  PROVE  FrameIInv'
<1>1. FrameTypeOK /\ NothingIsLost
  BY DEF FrameIInv
<1> DEFINE r == SubSeq(stream.whole, Len(stream.whole) - stream.left + 1, Len(stream.whole))
           f == FrameIn(buffer)
           w == Reference[buffer \o r]
<1>2. /\ ~starving /\ fault = "none" /\ stream' = stream
      /\ CASE f.kind = "more" -> starving' = TRUE /\ buffer' = buffer /\ bodies' = bodies /\ fault' = fault
           [] f.kind = "fault" -> fault' = f.fault /\ buffer' = buffer /\ bodies' = bodies /\ starving' = starving
           [] f.kind = "body" -> bodies' = Append(bodies, f.body) /\ buffer' = f.rest /\ fault' = fault /\ starving' = starving
  BY DEF NextFrame
<1>3. /\ stream \in [whole : Seq(Symbol), left : Nat] /\ stream.left <= Len(stream.whole)
      /\ buffer \in Seq(Symbol) /\ bodies \in Seq(Seq(Symbol)) /\ starving \in BOOLEAN
  BY <1>1 DEF FrameTypeOK
<1>4. r \in Seq(Symbol)
  <2>1. PICK a \in Nat : a = Len(stream.whole) - stream.left + 1 /\ a >= 1
    BY <1>3
  <2>2. stream.whole \in Seq(Symbol)
    BY <1>3
  <2>3. SubSeq(stream.whole, a, Len(stream.whole)) \in Seq(Symbol)
    BY <2>1, <2>2
  <2> QED
    BY <2>1, <2>3
<1>5. Undecoded = buffer \o r /\ Undecoded' = buffer' \o r
  BY <1>2 DEF Undecoded
<1>6. Whole' = Whole
  BY <1>2 DEF Whole
<1>7. /\ Whole.bodies = bodies \o w.bodies /\ Whole.fault = w.fault /\ Whole.widest >= w.widest
  BY <1>1, <1>5 DEF NothingIsLost
<1>8. \/ f = More
      \/ f = Failed("header") /\ w.widest > MaxHeader
      \/ f = Failed(w.fault) /\ w.bodies = <<>>
      \/ \E body \in Seq(Symbol), rest \in Seq(Symbol) :
           /\ f = [kind |-> "body", body |-> body, rest |-> rest]
           /\ w.bodies = <<body>> \o Reference[rest \o r].bodies
           /\ w.fault = Reference[rest \o r].fault
           /\ w.widest >= Reference[rest \o r].widest
  BY <1>3, <1>4, NextFrameIs DEF FrameAssumption
<1> HIDE DEF f, r, w
<1>9. CASE f = More
  <2>1. f.kind = "more"
    BY <1>9 DEF More
  <2>2. starving' = TRUE /\ buffer' = buffer /\ bodies' = bodies /\ fault' = fault
    BY <1>2, <2>1
  <2>3. FrameTypeOK'
    BY <1>2, <1>3, <2>2 DEF FrameTypeOK
  <2>4. NothingIsLost'
    BY <1>1, <1>5, <1>6, <2>2 DEF NothingIsLost
  <2>5. StarvesForCause'
    BY <1>9, <2>2 DEF StarvesForCause, f
  <2>6. FaultIsFound'
    BY <1>2, <2>2 DEF FaultIsFound
  <2> QED
    BY <2>3, <2>4, <2>5, <2>6 DEF FrameIInv
<1>10. ASSUME NEW e, f = Failed(e), w.widest > MaxHeader \/ (e = w.fault /\ w.bodies = <<>>)
       PROVE  FrameIInv'
  <2>1. f.kind = "fault" /\ f.fault = e
    BY <1>10 DEF Failed
  <2>2. fault' = e /\ buffer' = buffer /\ bodies' = bodies /\ starving' = starving
    BY <1>2, <2>1
  <2>3. FrameTypeOK'
    BY <1>2, <1>3, <2>2 DEF FrameTypeOK
  <2>4. NothingIsLost'
    BY <1>1, <1>5, <1>6, <2>2 DEF NothingIsLost
  <2>5. StarvesForCause'
    BY <1>2, <2>2 DEF StarvesForCause
  <2>6. FaultIsFound'
    BY <1>5, <1>10, <2>2 DEF FaultIsFound, w
  <2> QED
    BY <2>3, <2>4, <2>5, <2>6 DEF FrameIInv
<1>11. ASSUME NEW body \in Seq(Symbol), NEW rest \in Seq(Symbol),
              f = [kind |-> "body", body |-> body, rest |-> rest],
              w.bodies = <<body>> \o Reference[rest \o r].bodies,
              w.fault = Reference[rest \o r].fault,
              w.widest >= Reference[rest \o r].widest
       PROVE  FrameIInv'
  <2>1. f.kind = "body" /\ f.body = body /\ f.rest = rest
    BY <1>11
  <2>2. bodies' = Append(bodies, body) /\ buffer' = rest /\ fault' = fault /\ starving' = starving
    BY <1>2, <2>1
  <2>3. FrameTypeOK'
    BY <1>2, <1>3, <2>2 DEF FrameTypeOK
  <2>4. NothingIsLost'
    <3>1. rest \o r \in Seq(Symbol) /\ buffer \o r \in Seq(Symbol) /\ stream.whole \in Seq(Symbol)
      BY <1>3, <1>4
    <3>2. PICK v \in FrameAnswer : v = Reference[rest \o r]
      BY <3>1, ReferenceIs
    <3>3. w \in FrameAnswer /\ Whole \in FrameAnswer
      BY <3>1, ReferenceIs DEF w, Whole
    <3>4. bodies \o (<<body>> \o v.bodies) = Append(bodies, body) \o v.bodies
      <4> DEFINE X == Seq(Symbol)
      <4>1. v.bodies \in Seq(X) /\ bodies \in Seq(X) /\ body \in X
        BY <1>3 DEF FrameAnswer
      <4> HIDE DEF X
      <4>2. \A a \in Seq(X), x \in X, c \in Seq(X) : a \o (<<x>> \o c) = Append(a, x) \o c
        BY AppendThenRest
      <4> QED
        BY <4>1, <4>2
    <3>5. Whole.bodies = bodies' \o v.bodies
      BY <1>7, <1>11, <2>2, <3>2, <3>4
    <3>6. Whole.widest >= v.widest
      <4>1. v.widest \in Nat /\ w.widest \in Nat /\ Whole.widest \in Nat
        BY <3>3 DEF FrameAnswer
      <4> QED
        BY <1>7, <1>11, <3>2, <4>1
    <3>7. Reference[Undecoded'] = v
      BY <1>5, <2>2, <3>2
    <3>8. Whole.fault = v.fault
      BY <1>7, <1>11, <3>2
    <3> QED
      BY <1>6, <3>5, <3>6, <3>7, <3>8 DEF NothingIsLost
  <2>5. StarvesForCause' /\ FaultIsFound'
    BY <1>2, <2>2 DEF StarvesForCause, FaultIsFound
  <2> QED
    BY <2>3, <2>4, <2>5 DEF FrameIInv
<1> QED
  BY <1>8, <1>9, <1>10, <1>11

\* So every step of the decoder keeps the invariant.
LEMMA FrameStepInv ==
  FrameAssumption /\ FrameIInv /\ [FrameNext]_frameVars => FrameIInv'
<1> SUFFICES ASSUME FrameAssumption, FrameIInv, [FrameNext]_frameVars
             PROVE  FrameIInv'
  OBVIOUS
<1>1. CASE NextFrame
  BY <1>1, NextFrameKeepsInv
<1>2. ASSUME NEW n \in 1 .. MaxStream, Read(n) PROVE FrameIInv'
  <2>1. n \in Nat
    BY DEF FrameAssumption
  <2> QED
    BY <1>2, <2>1, ReadKeepsInv
<1>3. CASE UNCHANGED frameVars
  BY <1>3 DEF frameVars, FrameIInv, FrameTypeOK, NothingIsLost, StarvesForCause,
     FaultIsFound, Whole, Undecoded
<1> QED
  BY <1>1, <1>2, <1>3 DEF FrameNext

\* The bodies so far and the frames still to come are the stream's, so the bodies are a
\* prefix of its frames, and all of them once it is drained.
LEMMA FrameInvCuts ==
  ASSUME FrameAssumption, FrameIInv
  PROVE  BodiesAreFrames /\ CutsDoNotMatter
<1> DEFINE X == Seq(Symbol)
           left == Reference[Undecoded]
<1>1. FrameTypeOK /\ NothingIsLost /\ StarvesForCause /\ FaultIsFound
  BY DEF FrameIInv
<1>2. /\ stream \in [whole : Seq(Symbol), left : Nat] /\ stream.left <= Len(stream.whole)
      /\ buffer \in Seq(Symbol) /\ bodies \in Seq(X)
  BY <1>1 DEF FrameTypeOK
<1>3. PICK a \in Nat, n \in Nat : a = Len(stream.whole) - stream.left + 1 /\ n = Len(stream.whole) /\ a >= 1
  BY <1>2
<1> DEFINE r == SubSeq(stream.whole, a, n)
<1>4. r \in Seq(Symbol)
  <2>1. stream.whole \in Seq(Symbol)
    BY <1>2
  <2> QED
    BY <1>3, <2>1
<1>5. Undecoded = buffer \o r
  BY <1>3 DEF Undecoded
<1>6. buffer \o r \in Seq(Symbol) /\ stream.whole \in Seq(Symbol)
  BY <1>2, <1>4
<1>7. left \in FrameAnswer /\ Whole \in FrameAnswer
  BY <1>5, <1>6, ReferenceIs DEF Whole
<1>8. left.bodies \in Seq(X) /\ left.widest \in Nat /\ Whole.widest \in Nat
  BY <1>7 DEF FrameAnswer
<1>9. /\ Whole.bodies = bodies \o left.bodies /\ Whole.fault = left.fault
      /\ Whole.widest >= left.widest
  BY <1>1 DEF NothingIsLost
<1> HIDE DEF X, left, r
<1>10. BodiesAreFrames
  <2>1. PICK bs \in Seq(X) : bs = left.bodies
    BY <1>8
  <2>2. PICK hd \in Seq(X) : hd = bodies
    BY <1>2
  <2>3. Len(hd) <= Len(hd \o bs) /\ hd = SubSeq(hd \o bs, 1, Len(hd))
    OBVIOUS
  <2>4. IsPrefix(hd, hd \o bs)
    BY <2>3 DEF IsPrefix
  <2> QED
    BY <1>9, <2>1, <2>2, <2>4 DEF BodiesAreFrames
<1>11. ASSUME Drained, Whole.widest <= MaxHeader
       PROVE  bodies = Whole.bodies /\ fault = Whole.fault
  <2>1. ASSUME fault = left.fault, left.bodies = <<>> PROVE bodies = Whole.bodies /\ fault = Whole.fault
    <3>1. bodies \o <<>> = bodies
      BY <1>2
    <3> QED
      BY <1>9, <2>1, <3>1
  <2>2. CASE fault # "none"
    <3>1. ~ (left.widest > MaxHeader)
      BY <1>8, <1>9, <1>11 DEF FrameAssumption
    <3>2. fault = left.fault /\ left.bodies = <<>>
      BY <1>1, <2>2, <3>1 DEF FaultIsFound, left
    <3> QED
      BY <2>1, <3>2
  <2>3. CASE fault = "none"
    <3>1. starving /\ stream.left = 0
      BY <1>11, <2>3 DEF Drained
    <3>2. r = <<>>
      <4>1. a = n + 1
        BY <1>2, <1>3, <3>1
      <4> QED
        BY <4>1, <1>6, SubSeqEmpty DEF r
    <3>3. FrameIn(buffer) = More
      BY <1>1, <3>1 DEF StarvesForCause
    <3>4. left.bodies = <<>> /\ left.fault = "none"
      <4> DEFINE f == FrameIn(buffer)
      <4>1. f.kind = "more"
        BY <3>3 DEF More
      <4>2. \/ f = More /\ (r = <<>> => left.bodies = <<>> /\ left.fault = "none")
            \/ f = Failed("header")
            \/ f = Failed(left.fault)
            \/ \E body, rest : f = [kind |-> "body", body |-> body, rest |-> rest]
        <5>1. PICK b \in Seq(Symbol) : b = buffer
          BY <1>2
        <5>2. left = Reference[b \o r] /\ f = FrameIn(b) /\ MaxHeader \in Nat
          BY <1>5, <5>1 DEF left, FrameAssumption
        <5> DEFINE g == FrameIn(b)
                   w == Reference[b \o r]
        <5>3. \/ g = More /\ (r = <<>> => w.bodies = <<>> /\ w.fault = "none")
              \/ g = Failed("header")
              \/ g = Failed(w.fault)
              \/ \E body \in Seq(Symbol), rest \in Seq(Symbol) :
                   g = [kind |-> "body", body |-> body, rest |-> rest]
          <6>1. \/ g = More /\ (r = <<>> => w.bodies = <<>> /\ w.fault = "none")
                \/ g = Failed("header") /\ w.widest > MaxHeader
                \/ g = Failed(w.fault) /\ w.bodies = <<>> /\ w.fault # "none"
                \/ \E body \in Seq(Symbol), rest \in Seq(Symbol) :
                    /\ g = [kind |-> "body", body |-> body, rest |-> rest]
                    /\ w.bodies = <<body>> \o Reference[rest \o r].bodies
                    /\ w.fault = Reference[rest \o r].fault
                    /\ w.widest >= Reference[rest \o r].widest
            BY <1>4, <5>2, NextFrameIs
          <6> HIDE DEF g, w
          <6> QED
            BY <6>1
        <5> HIDE DEF f, g, w
        <5>4. f = g /\ left = w
          BY <5>2 DEF g, w
        <5> QED
          BY <5>3, <5>4
      <4> HIDE DEF f
      <4>3. \A e : f # Failed(e)
        BY <4>1 DEF Failed
      <4>4. \A body, rest : f # [kind |-> "body", body |-> body, rest |-> rest]
        BY <4>1
      <4> QED
        BY <3>2, <4>2, <4>3, <4>4
    <3> QED
      BY <2>1, <2>3, <3>4
  <2> QED
    BY <2>2, <2>3
<1>12. CutsDoNotMatter
  BY <1>11 DEF CutsDoNotMatter
<1> QED
  BY <1>10, <1>12

\* However the engine's bytes are cut into reads: the bodies FrameDecoder hands out are
\* at every moment a prefix of the stream's frames, and once it is drained they are all
\* of them, with the stream's fault, unless a header block is past the ceiling.
THEOREM FramesAreDecodedAlike ==
  FrameAssumption /\ FrameSpec => [](BodiesAreFrames /\ CutsDoNotMatter)
<1>1. FrameAssumption /\ FrameInit => FrameIInv
  BY FrameInitInv
<1>2. FrameAssumption /\ FrameIInv /\ [FrameNext]_frameVars => FrameIInv'
  BY FrameStepInv
<1>3. FrameAssumption /\ FrameIInv => BodiesAreFrames /\ CutsDoNotMatter
  BY FrameInvCuts
<1>4. FrameAssumption => FrameAssumption'
  BY DEF FrameAssumption
<1> QED
  BY <1>1, <1>2, <1>3, <1>4, PTL DEF FrameSpec

-----------------------------------------------------------------------------
(* The closure of supertypes *)

\* The place of x among those of S, in a strict order R.
RankIn(S, R, x) == Cardinality({y \in S : <<y, x>> \in R}) + 1

StrictlyOrders(R, S) ==
  /\ \A x \in S : <<x, x>> \notin R
  /\ \A x, y, z \in S : <<x, y>> \in R /\ <<y, z>> \in R => <<x, z>> \in R
  /\ \A x, y \in S : x # y => <<x, y>> \in R \/ <<y, x>> \in R

\* Ranks number a finite set from one.
LEMMA RankEnumerates ==
  ASSUME NEW S, IsFiniteSet(S), NEW R, StrictlyOrders(R, S)
  PROVE  /\ Cardinality(S) \in Nat
         /\ \A k \in 1..Cardinality(S) : \E x \in S : RankIn(S, R, x) = k
         /\ \A x, y \in S : RankIn(S, R, x) = RankIn(S, R, y) => x = y
         /\ \A x \in S : RankIn(S, R, x) \in 1..Cardinality(S)
<1> DEFINE below(x) == {y \in S : <<y, x>> \in R}
           n == Cardinality(S)
           r == [x \in S |-> RankIn(S, R, x)]
<1>1. n \in Nat
  BY FS_CardinalityType
<1>2. \A x \in S : below(x) \in SUBSET S /\ IsFiniteSet(below(x)) /\ Cardinality(below(x)) \in Nat
  BY FS_Subset, FS_CardinalityType
<1>3. ASSUME NEW x \in S PROVE RankIn(S, R, x) \in 1..n
  <2>1. below(x) # S
    BY DEF StrictlyOrders
  <2>2. Cardinality(below(x)) <= n /\ Cardinality(below(x)) # n
    BY <1>2, <2>1, FS_Subset
  <2> QED
    BY <1>1, <1>2, <2>2 DEF RankIn
<1>4. ASSUME NEW x \in S, NEW y \in S, <<x, y>> \in R
      PROVE  RankIn(S, R, x) # RankIn(S, R, y)
  <2>1. below(x) \in SUBSET below(y) /\ x \in below(y) /\ x \notin below(x)
    BY <1>4 DEF StrictlyOrders
  <2>2. Cardinality(below(x)) # Cardinality(below(y))
    <3> DEFINE a == below(x)
               b == below(y)
    <3>1. IsFiniteSet(b) /\ a \in SUBSET b /\ a # b
      BY <1>2, <2>1
    <3> HIDE DEF a, b
    <3>2. Cardinality(b) = Cardinality(a) => b = a
      BY <3>1, FS_Subset
    <3>3. Cardinality(a) # Cardinality(b)
      BY <3>1, <3>2
    <3> QED
      BY <3>3 DEF a, b
  <2>3. RankIn(S, R, x) = Cardinality(below(x)) + 1 /\ RankIn(S, R, y) = Cardinality(below(y)) + 1
    BY DEF RankIn
  <2>4. Cardinality(below(x)) \in Nat /\ Cardinality(below(y)) \in Nat
    BY <1>2
  <2> HIDE DEF below
  <2> QED
    BY <2>2, <2>3, <2>4
<1>5. \A x, y \in S : RankIn(S, R, x) = RankIn(S, R, y) => x = y
  BY <1>4 DEF StrictlyOrders
<1>6. r \in Injection(S, 1..n)
  BY <1>3, <1>5 DEF Injection, IsInjective
<1>7. IsFiniteSet(1..n) /\ Cardinality(1..n) = n
  BY <1>1, FS_Interval
<1>8. r \in Surjection(S, 1..n)
  BY <1>6, <1>7, FS_Injection
<1>9. \A k \in 1..n : \E x \in S : RankIn(S, R, x) = k
  BY <1>8 DEF Surjection
<1> QED
  BY <1>1, <1>3, <1>5, <1>9

\* The subtypes within one level more.
LEMMA WithinSteps ==
  /\ Within[0] = {}
  /\ \A d \in Nat : /\ Within[d] \in SUBSET Nodes
                    /\ Within[d + 1] = {t \in Nodes : \E m \in Names(query, Within[d]) : m \in t.supers}
<1> DEFINE N == Nodes
           step(W) == {t \in N : query.name \in t.supers \/ \E p \in W : p.name \in t.supers}
           D == SUBSET N
           F == [W \in D |-> step(W)]
           c == {}
           w == Within
<1>1. w = CHOOSE g : g = [d \in Nat |-> IF d = 0 THEN {} ELSE step(g[d - 1])]
  BY DEF Within
<1>2. PICK g : g \in Iterations(D, F, c)
  <2>1. F \in [D -> D] /\ c \in D
    OBVIOUS
  <2> HIDE DEF F, D, c
  <2> QED
    BY <2>1, Iterate
<1> HIDE DEF w, N
<1>3. g \in [Nat -> D] /\ g[0] = {} /\ \A d \in Nat : g[d + 1] = step(g[d])
  BY <1>2 DEF Iterations
<1>4. g = [d \in Nat |-> IF d = 0 THEN {} ELSE step(g[d - 1])]
  <2>1. \A d \in Nat : d # 0 => d - 1 \in Nat /\ (d - 1) + 1 = d
    OBVIOUS
  <2>2. \A d \in Nat : g[d] = IF d = 0 THEN {} ELSE step(g[d - 1])
    BY <1>3, <2>1
  <2> QED
    BY <1>3, <2>2
<1>5. w = [d \in Nat |-> IF d = 0 THEN {} ELSE step(w[d - 1])]
  BY <1>1, <1>4
<1>6. w[0] = {} /\ \A d \in Nat : w[d + 1] = step(w[d])
  <2>1. \A d \in Nat : d + 1 \in Nat /\ d + 1 # 0 /\ (d + 1) - 1 = d
    OBVIOUS
  <2> QED
    BY <1>5, <2>1
<1>7. \A d \in Nat : w[d] \in SUBSET N
  <2>1. \A d \in Nat : d # 0 => d - 1 \in Nat /\ (d - 1) + 1 = d
    OBVIOUS
  <2> QED
    BY <1>6, <2>1
<1>8. \A d \in Nat : step(w[d]) = {t \in N : \E m \in {query.name} \cup {p.name : p \in w[d]} : m \in t.supers}
  OBVIOUS
<1> QED
  BY <1>6, <1>7, <1>8 DEF w, N, Names

\* More levels, more subtypes.
LEMMA WithinGrows ==
  \A d \in Nat : \A e \in Nat : d <= e => Within[d] \subseteq Within[e]
<1> DEFINE w(d) == Within[d]
           N == Nodes
           n(d) == Names(query, Within[d])
<1>1. w(0) = {} /\ \A d \in Nat : w(d + 1) = {t \in N : \E m \in n(d) : m \in t.supers}
  BY WithinSteps
<1>2. \A d, e \in Nat : w(d) \subseteq w(e) => n(d) \subseteq n(e)
  BY DEF Names
<1> HIDE DEF w, N, n
<1> DEFINE A == {d \in Nat : w(d) \subseteq w(d + 1)}
<1>3. 0 \in A
  BY <1>1
<1>4. ASSUME NEW d \in Nat, d \in A PROVE d + 1 \in A
  <2>1. n(d) \subseteq n(d + 1)
    BY <1>2, <1>4
  <2>2. /\ w(d + 1) = {t \in N : \E m \in n(d) : m \in t.supers}
        /\ w(d + 1 + 1) = {t \in N : \E m \in n(d + 1) : m \in t.supers}
    BY <1>1
  <2>3. w(d + 1) \subseteq w(d + 1 + 1)
    BY <2>1, <2>2
  <2> QED
    BY <2>3
<1> HIDE DEF A
<1>5. \A d \in Nat : d \in A
  BY <1>3, <1>4, Induct
<1> SUFFICES ASSUME NEW d \in Nat PROVE \A e \in Nat : d <= e => w(d) \subseteq w(e)
  BY DEF w
<1> DEFINE B == {k \in Nat : w(d) \subseteq w(d + k)}
<1>6. 0 \in B
  OBVIOUS
<1>7. ASSUME NEW k \in Nat, k \in B PROVE k + 1 \in B
  <2>1. d + k \in A /\ d + (k + 1) = (d + k) + 1
    BY <1>5
  <2> QED
    BY <1>7, <2>1 DEF A
<1> HIDE DEF B
<1>8. \A k \in Nat : k \in B
  BY <1>6, <1>7, Induct
<1> TAKE e \in Nat
<1> HAVE d <= e
<1>9. e - d \in B /\ d + (e - d) = e
  BY <1>8
<1> QED
  BY <1>9 DEF B

\* `new` numbers what is fresh.
Numbers(n, new, fresh) ==
  /\ new \in [1..n -> fresh]
  /\ \A i, j \in 1..n : new[i] = new[j] => i = j
  /\ \A t \in fresh : \E i \in 1..n : new[i] = t

\* An expansion emits each fresh child once.
LEMMA EmittedOnce ==
  ASSUME ClosureAssumption, NEW m, types \in Workspaces
  PROVE  \E n \in Nat : Numbers(n, Emitted(m), Fresh(m))
<1> DEFINE fresh == Fresh(m)
           place == [t \in fresh |-> Place(t)]
           P == {Place(t) : t \in fresh}
           R == {pq \in P \X P : Precedes(pq[1], pq[2])}
           n == Cardinality(P)
           rank(p) == Cardinality({q \in P : Precedes(q, p)}) + 1
           new == Emitted(m)
<1>1. /\ IsFiniteSet(types) /\ \A t \in types : t.path \in Nat /\ t.line \in Nat
      /\ \A s, t \in types : Place(s) = Place(t) => s = t
  BY DEF ClosureAssumption
<1>2. fresh \subseteq types
  BY DEF Fresh, Nodes
<1>3. IsFiniteSet(fresh)
  BY <1>1, <1>2, FS_Subset
<1>4. IsFiniteSet(P)
  <2>1. place \in Surjection(fresh, P)
    BY DEF Surjection
  <2> QED
    BY <1>3, <2>1, FS_Surjection
<1>5. \A p \in P : p \in Nat \X Nat
  BY <1>1, <1>2 DEF Place
<1>6. StrictlyOrders(R, P)
  <2> HIDE DEF P
  <2>1. \A p \in P : ~Precedes(p, p)
    BY <1>5 DEF Precedes
  <2>2. \A p, q, r \in P : Precedes(p, q) /\ Precedes(q, r) => Precedes(p, r)
    BY <1>5 DEF Precedes
  <2>3. \A p, q \in P : p # q => Precedes(p, q) \/ Precedes(q, p)
    BY <1>5 DEF Precedes
  <2> QED
    BY <2>1, <2>2, <2>3 DEF StrictlyOrders
<1>7. \A p \in P : rank(p) = RankIn(P, R, p)
  <2> TAKE p \in P
  <2>1. {q \in P : Precedes(q, p)} = {q \in P : <<q, p>> \in R}
    OBVIOUS
  <2> QED
    BY <2>1 DEF RankIn
<1>8. new = [k \in 1..n |-> CHOOSE t \in fresh : rank(Place(t)) = k]
  BY DEF Emitted
<1> DEFINE rk == [p \in P |-> rank(p)]
           pl == place
<1>10. /\ n \in Nat /\ \A k \in 1..n : \E p \in P : rk[p] = k
       /\ \A p, q \in P : rk[p] = rk[q] => p = q
       /\ \A p \in P : rk[p] \in 1..n
  <2>1. \A p \in P : rk[p] = RankIn(P, R, p)
    BY <1>7
  <2> HIDE DEF P, R, rk
  <2> QED
    BY <1>4, <1>6, <2>1, RankEnumerates
<1>11. /\ new = [k \in 1..n |-> CHOOSE t \in fresh : rank(Place(t)) = k]
       /\ \A t \in fresh : rk[pl[t]] = rank(Place(t))
  BY <1>8
<1>12. \A t \in fresh : pl[t] \in P
  OBVIOUS
<1>13. \A p \in P : \E t \in fresh : pl[t] = p
  OBVIOUS
<1>14. \A s, t \in fresh : pl[s] = pl[t] => s = t
  BY <1>1, <1>2
<1> HIDE DEF fresh, place, P, R, n, rank, new, rk, pl
<1>15. \A k \in 1..n : new[k] \in fresh /\ rk[pl[new[k]]] = k
  <2> TAKE k \in 1..n
  <2>1. PICK t \in fresh : rk[pl[t]] = k
    BY <1>10, <1>13
  <2>2. rank(Place(t)) = k
    BY <1>11, <2>1
  <2>3. new[k] = CHOOSE u \in fresh : rank(Place(u)) = k
    BY <1>11
  <2>4. new[k] \in fresh /\ rank(Place(new[k])) = k
    BY <2>2, <2>3
  <2> QED
    BY <1>11, <2>4
<1>16. new \in [1..n -> fresh]
  BY <1>11, <1>15
<1>17. \A i, j \in 1..n : new[i] = new[j] => i = j
  BY <1>15
<1>18. \A t \in fresh : \E i \in 1..n : new[i] = t
  <2> TAKE t \in fresh
  <2>1. rk[pl[t]] \in 1..n
    BY <1>10, <1>12
  <2>2. new[rk[pl[t]]] \in fresh /\ rk[pl[new[rk[pl[t]]]]] = rk[pl[t]]
    BY <1>15, <2>1
  <2>3. pl[new[rk[pl[t]]]] = pl[t]
    BY <1>10, <1>12, <2>2
  <2> QED
    BY <1>14, <2>1, <2>2, <2>3
<1>19. Numbers(n, new, fresh)
  BY <1>16, <1>17, <1>18, Zenon DEF Numbers
<1> QED
  BY <1>10, <1>19 DEF new, fresh

\* A line tells the types of a workspace apart.
LEMMA PlacesDiffer ==
  ASSUME ClosureAssumption, types \in Workspaces, NEW t \in Nodes, NEW u \in Nodes,
         Place(t) = Place(u)
  PROVE  t = u
BY DEF ClosureAssumption, Nodes

\* Once nothing that waits is d levels deep or less, every name within d levels is expanded.
LEMMA Frontier ==
  ASSUME ClosureAssumption, ClosureIInv, pc \in {"walk", "listed"}
  PROVE  \A d \in Nat : d < DEPTH_CAP /\ (\A k \in DOMAIN queue : queue[k].depth > d)
                        => Names(query, Within[d]) \subseteq expanded
<1> DEFINE past(d) == \A k \in DOMAIN queue : queue[k].depth > d
           w(d) == Within[d]
           A == {d \in Nat : d < DEPTH_CAP /\ past(d) => Names(query, Within[d]) \subseteq expanded}
<1>0. /\ types \in Workspaces /\ DEPTH_CAP \in Nat
      /\ \A k \in DOMAIN queue : queue[k].depth \in Nat
  BY DEF ClosureIInv, LevelByLevel, ClosureAssumption
<1>1. 0 \in A
  <2> SUFFICES ASSUME 0 < DEPTH_CAP, past(0) PROVE Names(query, Within[0]) \subseteq expanded
    OBVIOUS
  <2>1. Names(query, Within[0]) = {query.name}
    BY WithinSteps DEF Names
  <2>2. query.name \in expanded \/ Waiting(queue, query.name, 0)
    BY <1>0 DEF ClosureIInv, Expanded
  <2>3. ~Waiting(queue, query.name, 0)
    BY <1>0 DEF Waiting
  <2> QED
    BY <2>1, <2>2, <2>3
<1>2. ASSUME NEW d \in Nat, d \in A PROVE d + 1 \in A
  <2> SUFFICES ASSUME d + 1 < DEPTH_CAP, past(d + 1) PROVE Names(query, Within[d + 1]) \subseteq expanded
    OBVIOUS
  <2>1. Names(query, Within[d]) \subseteq expanded
    <3>1. past(d)
      BY <1>0
    <3> QED
      BY <1>0, <1>2, <3>1
  <2>2. query.name \in expanded
    BY <2>1 DEF Names
  <2>3. ASSUME NEW t \in w(d + 1) PROVE t.name \in expanded
    <3>1. t \in Nodes /\ \E m \in Names(query, Within[d]) : m \in t.supers
      BY WithinSteps
    <3>2. PICK i \in DOMAIN result : result[i].place = Place(t)
      BY <2>1, <3>1 DEF ClosureIInv, Expanded
    <3>3. PICK e : e = result[i].depth
      OBVIOUS
    <3>4. e \in 1..DEPTH_CAP
      BY <3>2, <3>3 DEF ClosureIInv, AtItsLevel
    <3>5. PICK u \in w(e) \ w(e - 1) :
            Place(u) = result[i].place /\ (u.name \in expanded \/ e = DEPTH_CAP \/ Waiting(queue, u.name, e))
      BY <3>2, <3>3 DEF ClosureIInv, AtItsLevel
    <3>6. u = t
      <4>1. e \in Nat
        BY <1>0, <3>4
      <4>2. u \in Nodes
        BY <3>5, <4>1, WithinSteps
      <4> QED
        BY <1>0, <3>1, <3>2, <3>5, <4>2, PlacesDiffer
    <3>7. e <= d + 1
      <4> SUFFICES ASSUME ~(e <= d + 1) PROVE FALSE
        OBVIOUS
      <4>1. e - 1 \in Nat /\ d + 1 \in Nat /\ d + 1 <= e - 1
        BY <1>0, <3>4
      <4>2. w(d + 1) \subseteq w(e - 1)
        BY <4>1, WithinGrows
      <4> QED
        BY <3>5, <3>6, <4>2
    <3>8. ~Waiting(queue, u.name, e)
      BY <1>0, <3>4, <3>7 DEF Waiting
    <3> QED
      BY <1>0, <3>4, <3>5, <3>6, <3>7, <3>8
  <2> QED
    BY <2>2, <2>3 DEF Names
<1> HIDE DEF A
<1>3. \A d \in Nat : d \in A
  BY <1>1, <1>2, Induct
<1> QED
  BY <1>3 DEF A

\* The levels are those of the types and the query, which no step changes.
LEMMA ClosureKeepsTerms ==
  ASSUME types' = types, query' = query
  PROVE  /\ Nodes' = Nodes /\ Within' = Within
<1>1. Nodes' = Nodes
  BY DEF Nodes, Place
<1>2. Within' = Within
  BY <1>1 DEF Within
<1> QED
  BY <1>1, <1>2

\* What is known of the queue's first entry.
LEMMA TurnFacts ==
  ASSUME ClosureAssumption, ClosureIInv, queue # <<>>
  PROVE  /\ pc = "walk" /\ Len(queue) \in Nat \ {0} /\ DOMAIN queue = 1..Len(queue) /\ Turn = queue[1]
         /\ queue[1].depth \in 0..DEPTH_CAP /\ queue[1].name \in Names(query, Within[queue[1].depth])
         /\ Len(Tail(queue)) = Len(queue) - 1 /\ Tail(queue) \in Seq({queue[k] : k \in DOMAIN queue})
         /\ \A k \in 1..(Len(queue) - 1) : Tail(queue)[k] = queue[k + 1]
         /\ \A k \in DOMAIN queue : queue[k].depth \in queue[1].depth .. (queue[1].depth + 1)
<1>1. PICK S : S = {queue[k] : k \in DOMAIN queue} /\ queue \in Seq(S)
  BY DEF ClosureIInv
<1>2. Len(queue) \in Nat \ {0} /\ DOMAIN queue = 1..Len(queue) /\ Head(queue) = queue[1]
  BY <1>1
<1>3. /\ Len(Tail(queue)) = Len(queue) - 1 /\ Tail(queue) \in Seq(S)
      /\ \A k \in 1..(Len(queue) - 1) : Tail(queue)[k] = queue[k + 1]
  BY <1>1
<1>4. DEPTH_CAP \in Nat
  BY DEF ClosureAssumption
<1>5. 1 \in DOMAIN queue
  BY <1>2
<1>6. /\ pc = "walk"
      /\ \A k \in DOMAIN queue : /\ queue[k].depth \in 0..DEPTH_CAP
                                /\ queue[k].name \in Names(query, Within[queue[k].depth])
      /\ \A k, m \in DOMAIN queue : k < m => queue[m].depth \in queue[k].depth .. (queue[k].depth + 1)
  BY DEF ClosureIInv, LevelByLevel
<1>7. ASSUME NEW k \in DOMAIN queue PROVE queue[k].depth \in queue[1].depth .. (queue[1].depth + 1)
  <2>1. CASE k = 1
    BY <1>4, <1>5, <1>6, <2>1
  <2>2. CASE k > 1
    BY <1>5, <1>6, <2>2
  <2> QED
    BY <1>2, <2>1, <2>2
<1> QED
  BY <1>1, <1>2, <1>3, <1>5, <1>6, <1>7 DEF Turn

\* A skipped name is expanded or at the cap.
LEMMA SkipInv == ASSUME ClosureAssumption, ClosureIInv, Skip PROVE ClosureIInv'
<1>1. /\ queue # <<>> /\ queue' = Tail(queue)
      /\ types' = types /\ query' = query /\ expanded' = expanded /\ result' = result /\ pc' = pc
      /\ Turn.depth >= DEPTH_CAP \/ Turn.name \in expanded
  BY DEF Skip
<1>2. PICK a \in Nat \ {0} : a = Len(queue) /\ DOMAIN queue = 1..a
  BY <1>1, TurnFacts
<1>3. PICK S : queue' \in Seq(S)
  BY <1>1, TurnFacts
<1>4. Len(queue') = a - 1 /\ \A k \in 1..(a - 1) : queue'[k] = queue[k + 1]
  BY <1>1, <1>2, TurnFacts
<1>5. DOMAIN queue' = 1..(a - 1) /\ queue' \in Seq({queue'[k] : k \in DOMAIN queue'})
  BY <1>3, <1>4
<1>6. /\ Nodes' = Nodes /\ Within' = Within
  BY <1>1, ClosureKeepsTerms
<1>7. \A k \in DOMAIN queue' : k + 1 \in DOMAIN queue /\ queue'[k] = queue[k + 1]
  BY <1>2, <1>4, <1>5
<1>8. DEPTH_CAP \in Nat /\ queue[1].depth \in 0..DEPTH_CAP /\ (queue[1].depth >= DEPTH_CAP \/ queue[1].name \in expanded)
  BY <1>1, TurnFacts DEF ClosureAssumption
<1>9. ASSUME NEW x, NEW d \in Nat, Waiting(queue, x, d)
      PROVE  Waiting(queue', x, d) \/ x \in expanded \/ d = DEPTH_CAP
  <2>1. PICK k \in DOMAIN queue : queue[k].name = x /\ queue[k].depth = d
    BY <1>9 DEF Waiting
  <2>2. CASE k = 1
    BY <1>8, <2>1, <2>2
  <2>3. CASE k # 1
    <3>1. k - 1 \in DOMAIN queue' /\ queue'[k - 1] = queue[k]
      BY <1>2, <1>4, <1>5, <2>3
    <3> QED
      BY <2>1, <3>1 DEF Waiting
  <2> QED
    BY <2>2, <2>3
<1>10. LevelByLevel'
  <2>1. pc' = "walk"
    BY <1>1, TurnFacts
  <2>2. ASSUME NEW k \in DOMAIN queue'
        PROVE  queue'[k].depth \in 0..DEPTH_CAP /\ queue'[k].name \in Names(query, Within[queue'[k].depth])
    BY <1>6, <1>7 DEF ClosureIInv, LevelByLevel
  <2>3. ASSUME NEW k \in DOMAIN queue', NEW m \in DOMAIN queue', k < m
        PROVE  queue'[m].depth \in queue'[k].depth .. (queue'[k].depth + 1)
    <3>1. k + 1 < m + 1
      BY <1>5, <2>3
    <3> QED
      BY <1>7, <3>1 DEF ClosureIInv, LevelByLevel
  <2> QED
    BY <1>1, <1>6, <2>1, <2>2, <2>3 DEF LevelByLevel
<1>11. AtItsLevel'
  <2> SUFFICES ASSUME NEW i \in DOMAIN result
               PROVE  /\ result[i].depth \in 1..DEPTH_CAP
                      /\ \E t \in Within[result[i].depth] \ Within[result[i].depth - 1] :
                           /\ Place(t) = result[i].place
                           /\ t.name \in expanded \/ result[i].depth = DEPTH_CAP \/ Waiting(queue', t.name, result[i].depth)
    BY <1>1, <1>6 DEF AtItsLevel, Place
  <2>1. PICK e : e = result[i].depth
    OBVIOUS
  <2>2. e \in 1..DEPTH_CAP
    BY <2>1 DEF ClosureIInv, AtItsLevel
  <2>3. PICK t \in Within[e] \ Within[e - 1] :
          Place(t) = result[i].place /\ (t.name \in expanded \/ e = DEPTH_CAP \/ Waiting(queue, t.name, e))
    BY <2>1 DEF ClosureIInv, AtItsLevel
  <2>4. t.name \in expanded \/ e = DEPTH_CAP \/ Waiting(queue', t.name, e)
    BY <1>8, <1>9, <2>2, <2>3
  <2> QED
    BY <2>1, <2>2, <2>3, <2>4
<1>12. InOrderOnce'
  BY <1>1, <1>7 DEF ClosureIInv, InOrderOnce
<1>13. Expanded'
  <2>1. query.name \in expanded \/ DEPTH_CAP = 0 \/ Waiting(queue, query.name, 0)
    BY <1>1, TurnFacts DEF ClosureIInv, Expanded
  <2>2. query.name \in expanded \/ DEPTH_CAP = 0 \/ Waiting(queue', query.name, 0)
    BY <1>9, <2>1
  <2>3. \A t \in Nodes : expanded \cap t.supers # {} => \E i \in DOMAIN result : result[i].place = Place(t)
    BY DEF ClosureIInv, Expanded
  <2> QED
    BY <1>1, <1>6, <2>2, <2>3 DEF Expanded, Place
<1> QED
  BY <1>1, <1>5, <1>10, <1>11, <1>12, <1>13 DEF ClosureIInv

\* A sequence is one of its own elements.
LEMMA OwnElements ==
  ASSUME NEW U, NEW x \in Seq(U)
  PROVE  x \in Seq({x[k] : k \in DOMAIN x})
OBVIOUS

\* x is the sequence u, followed by the n values of v.
Joined(u, n, v, x) ==
  /\ x \in Seq({x[k] : k \in DOMAIN x}) /\ DOMAIN x = 1..(Len(u) + n)
  /\ \A i \in 1..Len(u) : x[i] = u[i]
  /\ \A i \in 1..n : x[Len(u) + i] = v[i]

\* As the concatenation is.
LEMMA JoinedSeq ==
  ASSUME NEW S, NEW u \in Seq(S), NEW n \in Nat, NEW T, NEW v \in [1..n -> T]
  PROVE  Joined(u, n, v, u \o v)
<1>1. v \in Seq(S \cup T) /\ u \in Seq(S \cup T) /\ Len(v) = n /\ Len(u) \in Nat
  OBVIOUS
<1>2. PICK x : x = u \o v
  OBVIOUS
<1>3. x \in Seq(S \cup T) /\ Len(x) = Len(u) + n
  BY <1>1, <1>2
<1>4. \A i \in 1..Len(u) : x[i] = u[i]
  BY <1>1, <1>2
<1>5. \A i \in 1..n : x[Len(u) + i] = v[i]
  BY <1>1, <1>2
<1>6. x \in Seq({x[k] : k \in DOMAIN x})
  BY <1>3, OwnElements
<1>7. DOMAIN x = 1..(Len(u) + n)
  BY <1>3
<1> QED
  BY <1>2, <1>4, <1>5, <1>6, <1>7 DEF Joined

\* An expansion reaches exactly the next level: a child was not within the levels before,
\* or the name that leads to it would be expanded and the child listed.
LEMMA FreshIsNextLevel ==
  ASSUME ClosureAssumption, ClosureIInv, queue # <<>>, queue[1].depth < DEPTH_CAP, NEW t \in Fresh(queue[1].name)
  PROVE  /\ t \in Nodes /\ \A i \in DOMAIN result : result[i].place # Place(t)
         /\ t \in Within[queue[1].depth + 1] \ Within[queue[1].depth]
<1>1. PICK D : D = queue[1].depth
  OBVIOUS
<1>2. /\ t \in Nodes /\ queue[1].name \in t.supers
      /\ \A i \in DOMAIN result : result[i].place # Place(t)
  BY DEF Fresh
<1>3. /\ pc = "walk" /\ D \in 0..DEPTH_CAP /\ queue[1].name \in Names(query, Within[D])
      /\ \A k \in DOMAIN queue : queue[k].depth \in D .. (D + 1)
  BY <1>1, TurnFacts
<1>4. DEPTH_CAP \in Nat /\ D \in Nat /\ D < DEPTH_CAP
  BY <1>1, <1>3 DEF ClosureAssumption
<1>5. t \in Within[D + 1]
  BY <1>2, <1>3, <1>4, WithinSteps
<1>6. t \notin Within[D]
  <2>1. CASE D = 0
    BY <2>1, WithinSteps
  <2>2. CASE D # 0
    <3>1. D - 1 \in Nat /\ (D - 1) + 1 = D /\ D - 1 < DEPTH_CAP
      BY <1>4, <2>2
    <3>2. \A k \in DOMAIN queue : queue[k].depth > D - 1
      BY <1>3, <1>4
    <3>3. Names(query, Within[D - 1]) \subseteq expanded
      BY <1>3, <3>1, <3>2, Frontier
    <3>4. SUFFICES ASSUME t \in Within[(D - 1) + 1] PROVE FALSE
      BY <3>1
    <3>5. \E x \in Names(query, Within[D - 1]) : x \in t.supers
      BY <3>1, <3>4, WithinSteps
    <3>6. expanded \cap t.supers # {}
      BY <3>3, <3>5
    <3> QED
      BY <1>2, <3>6 DEF ClosureIInv, Expanded
  <2> QED
    BY <2>1, <2>2
<1> QED
  BY <1>1, <1>2, <1>5, <1>6

\* A queue after its first entry is expanded: that one goes, its children come a level down.
TurnsGrow(turns, n, new, after) ==
  /\ after \in Seq({after[k] : k \in DOMAIN after}) /\ DOMAIN after = 1..(Len(turns) - 1 + n)
  /\ \A k \in 1..(Len(turns) - 1) : after[k] = turns[k + 1]
  /\ \A i \in 1..n : /\ after[Len(turns) - 1 + i].name = new[i].name
                     /\ after[Len(turns) - 1 + i].depth = turns[1].depth + 1

\* And the listing, which has those children last.
RowsGrow(rows, d, n, new, after) ==
  /\ after \in Seq({after[i] : i \in DOMAIN after}) /\ DOMAIN after = 1..(Len(rows) + n)
  /\ \A i \in 1..Len(rows) : after[i] = rows[i]
  /\ \A i \in 1..n : after[Len(rows) + i].place = Place(new[i]) /\ after[Len(rows) + i].depth = d

\* An expansion appends its fresh children to the queue and to the result, a level down.
LEMMA ExpandAdds ==
  ASSUME ClosureAssumption, ClosureIInv, Expand
  PROVE  \E n \in Nat : \E new : /\ Numbers(n, new, Fresh(queue[1].name))
                                 /\ TurnsGrow(queue, n, new, queue')
                                 /\ RowsGrow(result, queue[1].depth + 1, n, new, result')
<1> DEFINE m == queue[1].name
           D == queue[1].depth
           new == Emitted(m)
<1>1. queue # <<>> /\ Turn = queue[1] /\ types \in Workspaces
  BY TurnFacts DEF Expand, ClosureIInv
<1>2. PICK n \in Nat : Numbers(n, new, Fresh(m))
  BY <1>1, EmittedOnce
<1> DEFINE q == [i \in 1..n |-> [name |-> new[i].name, depth |-> D + 1]]
           l == [i \in 1..n |-> [place |-> Place(new[i]), name |-> new[i].name, via |-> m, depth |-> D + 1]]
<1>3. DOMAIN new = 1..n
  BY <1>2 DEF Numbers
<1>4. queue' = Tail(queue) \o q /\ result' = result \o l
  BY <1>1, <1>3 DEF Expand
<1>5. /\ \A i \in 1..n : q[i].name = new[i].name /\ q[i].depth = D + 1
      /\ \A i \in 1..n : l[i].place = Place(new[i]) /\ l[i].depth = D + 1
  OBVIOUS
<1>6. PICK T : q \in [1..n -> T] /\ l \in [1..n -> T]
  <2>1. /\ q \in [1..n -> {q[i] : i \in 1..n} \cup {l[i] : i \in 1..n}]
        /\ l \in [1..n -> {q[i] : i \in 1..n} \cup {l[i] : i \in 1..n}]
    OBVIOUS
  <2> QED
    BY <2>1
<1>7. PICK S, R, r : r = Tail(queue) /\ r \in Seq(S) /\ result \in Seq(R)
  BY <1>1, TurnFacts DEF ClosureIInv
<1>8. Len(r) = Len(queue) - 1 /\ \A k \in 1..(Len(queue) - 1) : r[k] = queue[k + 1]
  BY <1>1, <1>7, TurnFacts
<1> HIDE DEF q, l, new, m, D
<1>9. Joined(r, n, q, queue')
  <2>1. Joined(r, n, q, r \o q)
    BY <1>6, <1>7, JoinedSeq
  <2> QED
    BY <1>4, <1>7, <2>1
<1>10. Joined(result, n, l, result')
  <2>1. Joined(result, n, l, result \o l)
    BY <1>6, <1>7, JoinedSeq
  <2> QED
    BY <1>4, <2>1
<1>11. /\ queue' \in Seq({queue'[k] : k \in DOMAIN queue'})
       /\ result' \in Seq({result'[i] : i \in DOMAIN result'})
  BY <1>9, <1>10, Zenon DEF Joined
<1>12. /\ DOMAIN queue' = 1..(Len(r) + n) /\ \A k \in 1..Len(r) : queue'[k] = r[k]
       /\ \A i \in 1..n : queue'[Len(r) + i] = q[i]
  BY <1>9, Zenon DEF Joined
<1>13. /\ DOMAIN result' = 1..(Len(result) + n) /\ \A i \in 1..Len(result) : result'[i] = result[i]
       /\ \A i \in 1..n : result'[Len(result) + i] = l[i]
  BY <1>10, Zenon DEF Joined
<1>14. /\ DOMAIN queue' = 1..(Len(queue) - 1 + n) /\ \A k \in 1..(Len(queue) - 1) : queue'[k] = queue[k + 1]
       /\ \A i \in 1..n : queue'[Len(queue) - 1 + i] = q[i]
  BY <1>8, <1>12
<1>15. /\ \A i \in 1..n : queue'[Len(queue) - 1 + i].name = new[i].name /\ queue'[Len(queue) - 1 + i].depth = D + 1
       /\ \A i \in 1..n : result'[Len(result) + i].place = Place(new[i]) /\ result'[Len(result) + i].depth = D + 1
  <2>1. \A i \in 1..n : queue'[Len(queue) - 1 + i] = q[i] /\ result'[Len(result) + i] = l[i]
    BY <1>13, <1>14, Zenon
  <2> QED
    BY ONLY <1>5, <2>1
<1>16. TurnsGrow(queue, n, new, queue')
  BY <1>11, <1>14, <1>15, Zenon DEF TurnsGrow, D
<1>17. RowsGrow(result, D + 1, n, new, result')
  BY <1>11, <1>13, <1>15, Zenon DEF RowsGrow
<1> QED
  BY <1>2, <1>16, <1>17 DEF m, D

\* Expanding a name keeps the invariant: its children are of the next level, and what
\* waited still waits, or was the name itself.
LEMMA ExpandInv == ASSUME ClosureAssumption, ClosureIInv, Expand PROVE ClosureIInv'
<1>0. PICK n \in Nat : \E new : /\ Numbers(n, new, Fresh(queue[1].name))
                                /\ TurnsGrow(queue, n, new, queue')
                                /\ RowsGrow(result, queue[1].depth + 1, n, new, result')
  BY ExpandAdds
<1>1. PICK new : /\ Numbers(n, new, Fresh(queue[1].name))
                 /\ TurnsGrow(queue, n, new, queue')
                 /\ RowsGrow(result, queue[1].depth + 1, n, new, result')
  BY <1>0
<1>2. PICK m, D, a, b : m = queue[1].name /\ D = queue[1].depth /\ a = Len(queue) /\ b = Len(result)
  OBVIOUS
<1>3. queue # <<>> /\ types' = types /\ query' = query /\ pc' = pc /\ pc = "walk" /\ DEPTH_CAP \in Nat
  BY DEF Expand, ClosureAssumption
<1>4. expanded' = expanded \cup {m} /\ D < DEPTH_CAP
  BY <1>2, <1>3, TurnFacts DEF Expand
<1>5. /\ a \in Nat \ {0} /\ DOMAIN queue = 1..a /\ D \in Nat
      /\ \A k \in DOMAIN queue : queue[k].depth \in D .. (D + 1)
  BY <1>2, <1>3, TurnFacts
<1>6. b \in Nat /\ DOMAIN result = 1..b
  BY <1>2 DEF ClosureIInv
<1>7. Nodes' = Nodes /\ Within' = Within
  BY <1>3, ClosureKeepsTerms
<1>8. /\ DOMAIN queue' = 1..(a - 1 + n) /\ \A k \in 1..(a - 1) : queue'[k] = queue[k + 1]
      /\ \A i \in 1..n : queue'[a - 1 + i].name = new[i].name /\ queue'[a - 1 + i].depth = D + 1
  BY <1>1, <1>2, Zenon DEF TurnsGrow
<1>9. /\ DOMAIN result' = 1..(b + n) /\ \A i \in 1..b : result'[i] = result[i]
      /\ \A i \in 1..n : result'[b + i].place = Place(new[i]) /\ result'[b + i].depth = D + 1
  BY <1>1, <1>2, Zenon DEF RowsGrow
<1>10. /\ queue' \in Seq({queue'[k] : k \in DOMAIN queue'})
       /\ result' \in Seq({result'[i] : i \in DOMAIN result'})
  BY <1>1, Zenon DEF TurnsGrow, RowsGrow
<1>11. /\ \A i \in 1..n : new[i] \in Fresh(m)
       /\ \A i, j \in 1..n : new[i] = new[j] => i = j
       /\ \A t \in Fresh(m) : \E i \in 1..n : new[i] = t
  <2>1. /\ new \in [1..n -> Fresh(m)]
        /\ \A i, j \in 1..n : new[i] = new[j] => i = j
        /\ \A t \in Fresh(m) : \E i \in 1..n : new[i] = t
    BY <1>1, <1>2, Zenon DEF Numbers
  <2> QED
    BY <2>1, Zenon
<1>12. \A i \in 1..n : /\ new[i] \in Nodes /\ \A r \in DOMAIN result : result[r].place # Place(new[i])
                       /\ new[i] \in Within[D + 1] \ Within[D]
  BY <1>2, <1>3, <1>4, <1>11, FreshIsNextLevel
\* An entry of the queue is an old one, or that of a child; so is a row.
<1>13. ASSUME NEW k \in DOMAIN queue'
       PROVE  \/ k \in 1..(a - 1) /\ k + 1 \in DOMAIN queue /\ queue'[k] = queue[k + 1]
              \/ k > a - 1 /\ k - (a - 1) \in 1..n /\ queue'[k].name = new[k - (a - 1)].name /\ queue'[k].depth = D + 1
  <2>1. CASE k <= a - 1
    BY <1>5, <1>8, <2>1
  <2>2. CASE k > a - 1
    <3>1. k - (a - 1) \in 1..n /\ a - 1 + (k - (a - 1)) = k
      BY <1>5, <1>8, <2>2
    <3> QED
      BY <1>8, <2>2, <3>1
  <2> QED
    BY <1>5, <1>8, <2>1, <2>2
<1>14. ASSUME NEW i \in DOMAIN result'
       PROVE  \/ i \in 1..b /\ i \in DOMAIN result /\ result'[i] = result[i]
              \/ i > b /\ i - b \in 1..n /\ result'[i].place = Place(new[i - b]) /\ result'[i].depth = D + 1
  <2>1. CASE i <= b
    BY <1>6, <1>9, <2>1
  <2>2. CASE i > b
    <3>1. i - b \in 1..n /\ b + (i - b) = i
      BY <1>6, <1>9, <2>2
    <3> QED
      BY <1>9, <2>2, <3>1
  <2> QED
    BY <1>6, <1>9, <2>1, <2>2
<1>15. ASSUME NEW x, NEW d, Waiting(queue, x, d)
       PROVE  Waiting(queue', x, d) \/ x \in expanded'
  <2>1. PICK k \in DOMAIN queue : queue[k].name = x /\ queue[k].depth = d
    BY <1>15 DEF Waiting
  <2>2. CASE k = 1
    BY <1>2, <1>4, <2>1, <2>2
  <2>3. CASE k # 1
    <3>1. k - 1 \in 1..(a - 1) /\ (k - 1) + 1 = k /\ k - 1 \in DOMAIN queue'
      BY <1>5, <1>8, <2>3
    <3>2. queue'[k - 1] = queue[k]
      BY <1>8, <3>1
    <3> QED
      BY <2>1, <3>1, <3>2 DEF Waiting
  <2> QED
    BY <2>2, <2>3
<1>16. \A r \in DOMAIN result : result[r].depth \in Nat /\ result[r].depth <= D + 1
  <2>1. 1 \in DOMAIN queue
    BY <1>5
  <2> QED
    BY <1>2, <1>3, <2>1 DEF ClosureIInv, InOrderOnce, AtItsLevel
<1>17. LevelByLevel'
  <2>1. ASSUME NEW k \in DOMAIN queue'
        PROVE  queue'[k].depth \in 0..DEPTH_CAP /\ queue'[k].name \in Names(query, Within[queue'[k].depth])
    <3>1. CASE k + 1 \in DOMAIN queue /\ queue'[k] = queue[k + 1]
      BY <3>1 DEF ClosureIInv, LevelByLevel
    <3>2. CASE k - (a - 1) \in 1..n /\ queue'[k].name = new[k - (a - 1)].name /\ queue'[k].depth = D + 1
      <4>1. D + 1 \in 0..DEPTH_CAP
        BY <1>3, <1>4, <1>5
      <4>2. new[k - (a - 1)].name \in Names(query, Within[D + 1])
        BY <1>12, <3>2 DEF Names
      <4> QED
        BY <3>2, <4>1, <4>2
    <3> QED
      BY <1>13, <3>1, <3>2
  <2>2. ASSUME NEW k \in DOMAIN queue', NEW r \in DOMAIN queue', k < r
        PROVE  queue'[r].depth \in queue'[k].depth .. (queue'[k].depth + 1)
    <3>0. k \in Int /\ r \in Int /\ a \in Int /\ D \in Int
      BY <1>5, <1>8
    <3>1. CASE r \in 1..(a - 1) /\ r + 1 \in DOMAIN queue /\ queue'[r] = queue[r + 1]
      <4>1. k \in 1..(a - 1) /\ k + 1 \in DOMAIN queue /\ queue'[k] = queue[k + 1] /\ k + 1 < r + 1
        BY <1>13, <2>2, <3>0, <3>1
      <4> QED
        BY <3>1, <4>1 DEF ClosureIInv, LevelByLevel
    <3>2. CASE queue'[r].depth = D + 1
      <4>1. queue'[k].depth \in D .. (D + 1)
        BY <1>5, <1>13, <3>0
      <4> QED
        BY <3>0, <3>2, <4>1
    <3> QED
      BY <1>13, <3>1, <3>2
  <2> QED
    BY <1>3, <1>7, <2>1, <2>2 DEF LevelByLevel
<1>18. AtItsLevel'
  <2> SUFFICES ASSUME NEW i \in DOMAIN result'
               PROVE  /\ result'[i].depth \in 1..DEPTH_CAP
                      /\ \E t \in Within[result'[i].depth] \ Within[result'[i].depth - 1] :
                           /\ Place(t) = result'[i].place
                           /\ t.name \in expanded' \/ result'[i].depth = DEPTH_CAP \/ Waiting(queue', t.name, result'[i].depth)
    BY <1>7 DEF AtItsLevel, Place
  <2>1. CASE i \in DOMAIN result /\ result'[i] = result[i]
    <3>1. PICK e : e = result[i].depth
      OBVIOUS
    <3>2. e \in 1..DEPTH_CAP
      BY <2>1, <3>1 DEF ClosureIInv, AtItsLevel
    <3>3. PICK t \in Within[e] \ Within[e - 1] :
            Place(t) = result[i].place /\ (t.name \in expanded \/ e = DEPTH_CAP \/ Waiting(queue, t.name, e))
      BY <2>1, <3>1 DEF ClosureIInv, AtItsLevel
    <3>4. t.name \in expanded' \/ e = DEPTH_CAP \/ Waiting(queue', t.name, e)
      BY <1>4, <1>15, <3>3
    <3> QED
      BY <2>1, <3>1, <3>2, <3>3, <3>4
  <2>2. CASE i - b \in 1..n /\ result'[i].place = Place(new[i - b]) /\ result'[i].depth = D + 1
    <3>1. PICK j \in 1..n : j = i - b
      BY <2>2
    <3>2. /\ D + 1 \in 1..DEPTH_CAP /\ (D + 1) - 1 = D
          /\ new[j] \in Within[D + 1] \ Within[D]
      BY <1>3, <1>4, <1>5, <1>12
    <3>3. Waiting(queue', new[j].name, D + 1)
      <4>1. a - 1 + j \in DOMAIN queue'
        BY <1>5, <1>8
      <4> QED
        BY <1>8, <4>1 DEF Waiting
    <3> QED
      BY <2>2, <3>1, <3>2, <3>3
  <2> QED
    BY <1>14, <2>1, <2>2
<1>19. InOrderOnce'
  <2>1. ASSUME NEW i \in DOMAIN result', NEW j \in DOMAIN result', i < j
        PROVE  result'[i].depth <= result'[j].depth /\ result'[i].place # result'[j].place
    <3>0. i \in Int /\ j \in Int /\ b \in Int /\ D \in Nat
      BY <1>5, <1>6, <1>9
    <3>1. CASE j \in 1..b /\ j \in DOMAIN result /\ result'[j] = result[j]
      <4>1. i \in DOMAIN result /\ result'[i] = result[i]
        BY <1>14, <2>1, <3>0, <3>1
      <4> QED
        BY <2>1, <3>1, <4>1 DEF ClosureIInv, InOrderOnce
    <3>2. CASE j - b \in 1..n /\ result'[j].place = Place(new[j - b]) /\ result'[j].depth = D + 1
      <4>1. CASE i \in DOMAIN result /\ result'[i] = result[i]
        BY <1>12, <1>16, <3>0, <3>2, <4>1
      <4>2. CASE i - b \in 1..n /\ result'[i].place = Place(new[i - b]) /\ result'[i].depth = D + 1
        <5>1. i - b # j - b
          BY <2>1, <3>0
        <5>2. new[i - b] # new[j - b]
          BY <1>11, <3>2, <4>2, <5>1
        <5>3. Place(new[i - b]) # Place(new[j - b])
          <6>1. types \in Workspaces /\ new[i - b] \in Nodes /\ new[j - b] \in Nodes
            BY <1>12, <3>2, <4>2 DEF ClosureIInv
          <6> QED
            BY <5>2, <6>1, PlacesDiffer
        <5> QED
          BY <3>0, <3>2, <4>2, <5>3
      <4> QED
        BY <1>14, <4>1, <4>2
    <3> QED
      BY <1>14, <3>1, <3>2
  <2>2. ASSUME NEW i \in DOMAIN result', NEW k \in DOMAIN queue' PROVE result'[i].depth <= queue'[k].depth + 1
    <3>1. result'[i].depth \in Nat /\ result'[i].depth <= D + 1
      BY <1>5, <1>14, <1>16
    <3>2. queue'[k].depth \in D .. (D + 1)
      BY <1>5, <1>13
    <3> QED
      BY <1>5, <3>1, <3>2
  <2> QED
    BY <1>3, <2>1, <2>2 DEF InOrderOnce
<1>20. Expanded'
  <2>1. ASSUME NEW t \in Nodes, expanded' \cap t.supers # {}
        PROVE  \E i \in DOMAIN result' : result'[i].place = Place(t)
    <3>1. CASE \E i \in DOMAIN result : result[i].place = Place(t)
      <4>1. PICK i \in DOMAIN result : result[i].place = Place(t)
        BY <3>1
      <4>2. i \in DOMAIN result' /\ result'[i] = result[i]
        BY <1>6, <1>9
      <4> QED
        BY <4>1, <4>2
    <3>2. CASE ~\E i \in DOMAIN result : result[i].place = Place(t)
      <4>1. expanded \cap t.supers = {}
        BY <3>2 DEF ClosureIInv, Expanded
      <4>2. m \in t.supers
        BY <1>4, <2>1, <4>1
      <4>3. t \in Fresh(m)
        BY <3>2, <4>2 DEF Fresh
      <4>4. PICK i \in 1..n : new[i] = t
        BY <1>11, <4>3, Zenon
      <4>5. b + i \in DOMAIN result' /\ result'[b + i].place = Place(t)
        BY <1>6, <1>9, <4>4
      <4> QED
        BY <4>5
    <3> QED
      BY <3>1, <3>2
  <2>2. query.name \in expanded' \/ DEPTH_CAP = 0 \/ Waiting(queue', query.name, 0)
    <3>1. query.name \in expanded \/ DEPTH_CAP = 0 \/ Waiting(queue, query.name, 0)
      BY <1>3 DEF ClosureIInv, Expanded
    <3> QED
      BY <1>4, <1>15, <3>1
  <2> QED
    BY <1>3, <1>7, <2>1, <2>2 DEF Expanded, Place
<1> QED
  BY <1>3, <1>10, <1>17, <1>18, <1>19, <1>20 DEF ClosureIInv

\* The walk begins with the query, and ends when nothing waits.
LEMMA ClosureStepInv == ASSUME ClosureAssumption, ClosureIInv, [ClosureNext]_closureVars PROVE ClosureIInv'
<1>1. CASE Skip
  BY <1>1, SkipInv
<1>2. CASE Expand
  BY <1>2, ExpandInv
<1>3. CASE Begin /\ queue' # queue
  <2>1. /\ pc = "start" /\ pc' = "walk" /\ queue' = <<[name |-> query.name, depth |-> 0]>>
        /\ types' = types /\ query' = query /\ expanded' = expanded /\ result' = result
    BY <1>3 DEF Begin
  <2>2. Nodes' = Nodes /\ Within' = Within
    BY <2>1, ClosureKeepsTerms
  <2>3. queue = <<>> /\ result = <<>> /\ DEPTH_CAP \in Nat
    BY <2>1
       DEF ClosureIInv, LevelByLevel, InOrderOnce, ClosureAssumption
  <2>4. DOMAIN queue' = {1} /\ queue'[1].name = query.name /\ queue'[1].depth = 0 /\ DOMAIN result = {}
    BY <2>1, <2>3
  <2>5. queue' \in Seq({queue'[k] : k \in DOMAIN queue'})
    BY <2>1
  <2>6. LevelByLevel'
    BY <2>1, <2>2, <2>3, <2>4 DEF LevelByLevel, Names
  <2>7. AtItsLevel'
    BY <2>1, <2>4 DEF AtItsLevel
  <2>8. InOrderOnce'
    BY <2>1, <2>4 DEF InOrderOnce
  <2>9. Expanded'
    <3>1. Waiting(queue', query.name, 0)
      BY <2>4 DEF Waiting
    <3>2. \A t \in Nodes : expanded \cap t.supers # {} => \E i \in DOMAIN result : result[i].place = Place(t)
      BY DEF ClosureIInv, Expanded
    <3> QED
      BY <2>1, <2>2, <3>1, <3>2 DEF Expanded, Place
  <2> QED
    BY <2>1, <2>5, <2>6, <2>7, <2>8, <2>9 DEF ClosureIInv
<1>4. CASE (Begin /\ queue' = queue) \/ Finish \/ Listed \/ UNCHANGED closureVars
  <2>1. /\ types' = types /\ query' = query /\ queue' = queue /\ expanded' = expanded /\ result' = result
        /\ \/ pc' = pc
           \/ pc = "start" /\ pc' \in {"walk", "no listing"} /\ queue' = queue
           \/ pc = "walk" /\ pc' = "listed" /\ queue = <<>>
    BY <1>4 DEF Begin, Finish, Listed, closureVars
  <2>2. pc' = "walk" => pc = "walk"
    <3> SUFFICES ASSUME pc' = "walk", pc = "start" PROVE FALSE
      BY <2>1
    <3>1. queue' = <<[name |-> query.name, depth |-> 0]>>
      BY <1>4 DEF Begin, Finish, Listed, closureVars
    <3>2. queue = <<>>
      BY DEF ClosureIInv, LevelByLevel
    <3>3. Len(queue') = 1
      BY <3>1
    <3>4. Len(queue) = 0
      BY <3>2
    <3> QED
      BY <2>1, <3>3, <3>4
  <2>3. Nodes' = Nodes /\ Within' = Within
    BY <2>1, ClosureKeepsTerms
  <2>4. LevelByLevel'
    <3>1. pc' = "walk" \/ queue = <<>>
      BY <2>1, <2>2 DEF ClosureIInv, LevelByLevel
    <3> QED
      BY <2>1, <2>3, <3>1 DEF ClosureIInv, LevelByLevel
  <2>5. AtItsLevel'
    BY <2>1, <2>3 DEF ClosureIInv, AtItsLevel, Place
  <2>6. InOrderOnce'
    BY <2>1 DEF ClosureIInv, InOrderOnce
  <2>7. Expanded'
    <3>1. pc' \in {"walk", "listed"} => pc \in {"walk", "listed"}
      BY <2>1, <2>2
    <3> QED
      BY <2>1, <2>3, <3>1 DEF ClosureIInv, Expanded, Place
  <2> QED
    BY <2>1, <2>4, <2>5, <2>6, <2>7 DEF ClosureIInv
<1> QED
  BY <1>1, <1>2, <1>3, <1>4 DEF ClosureNext

\* resolve_supertype_implementors, for every workspace whose types are on lines of their
\* own, every query and every depth cap, cycles and shared names included: the listing is
\* the transitive subtypes within the cap, each once, and each at the level of the
\* shallowest parent that reaches it, a level after the other.
THEOREM ClosureIsBreadthFirst ==
  ASSUME ClosureAssumption
  PROVE  ClosureSpec => [](SubtypesAreListed /\ ShallowestParent)
<1>1. ClosureInit => ClosureIInv
  <2> SUFFICES ASSUME ClosureInit PROVE ClosureIInv
    OBVIOUS
  <2>1. types \in Workspaces /\ queue = <<>> /\ expanded = {} /\ result = <<>> /\ pc = "start"
    BY DEF ClosureInit
  <2>2. /\ queue \in Seq({queue[k] : k \in DOMAIN queue}) /\ result \in Seq({result[i] : i \in DOMAIN result})
        /\ DOMAIN queue = {} /\ DOMAIN result = {}
    BY <2>1
  <2> QED
    BY <2>1, <2>2 DEF ClosureIInv, LevelByLevel, AtItsLevel, InOrderOnce, Expanded
<1>2. ClosureIInv => SubtypesAreListed
  <2> SUFFICES ASSUME ClosureIInv, pc = "listed"
               PROVE  /\ {result[i].place : i \in DOMAIN result} = {Place(t) : t \in Within[DEPTH_CAP]}
                      /\ \A i, k \in DOMAIN result : result[i].place = result[k].place => i = k
    BY DEF SubtypesAreListed
  <2>1. /\ DOMAIN queue = {} /\ DEPTH_CAP \in Nat /\ \A i \in DOMAIN result : i \in Int
    BY DEF ClosureIInv, LevelByLevel, ClosureAssumption
  <2>2. ASSUME NEW i \in DOMAIN result
        PROVE  \E t \in Within[DEPTH_CAP] : Place(t) = result[i].place
    <3>1. PICK e : e = result[i].depth
      OBVIOUS
    <3>2. e \in 1..DEPTH_CAP /\ \E t \in Within[e] : Place(t) = result[i].place
      BY <3>1 DEF ClosureIInv, AtItsLevel
    <3>3. Within[e] \subseteq Within[DEPTH_CAP]
      BY <2>1, <3>2, WithinGrows
    <3> QED
      BY <3>2, <3>3
  <2>3. ASSUME NEW t \in Within[DEPTH_CAP]
        PROVE  \E i \in DOMAIN result : result[i].place = Place(t)
    <3>1. DEPTH_CAP # 0
      BY <2>3, WithinSteps
    <3>2. DEPTH_CAP - 1 \in Nat /\ (DEPTH_CAP - 1) + 1 = DEPTH_CAP /\ DEPTH_CAP - 1 < DEPTH_CAP
      BY <2>1, <3>1
    <3>3. Names(query, Within[DEPTH_CAP - 1]) \subseteq expanded
      BY <2>1, <3>2, Frontier
    <3>4. t \in Within[(DEPTH_CAP - 1) + 1]
      BY <2>3, <3>2
    <3>5. t \in Nodes /\ \E x \in Names(query, Within[DEPTH_CAP - 1]) : x \in t.supers
      BY <3>2, <3>4, WithinSteps
    <3> QED
      BY <3>3, <3>5 DEF ClosureIInv, Expanded
  <2>4. ASSUME NEW i \in DOMAIN result, NEW k \in DOMAIN result, result[i].place = result[k].place PROVE i = k
    <3>1. i \in Int /\ k \in Int /\ ~(i < k) /\ ~(k < i)
      BY <2>1, <2>4 DEF ClosureIInv, InOrderOnce
    <3> QED
      BY <3>1
  <2> QED
    BY <2>2, <2>3, <2>4
<1>3. ClosureIInv => ShallowestParent
  <2> SUFFICES ASSUME ClosureIInv, NEW i \in DOMAIN result
               PROVE  /\ \E t \in Within[result[i].depth] : Place(t) = result[i].place
                      /\ ~\E t \in Within[result[i].depth - 1] : Place(t) = result[i].place
                      /\ i > 1 => result[i - 1].depth <= result[i].depth
    BY DEF ShallowestParent
  <2>1. PICK e : e = result[i].depth
    OBVIOUS
  <2>2. e \in 1..DEPTH_CAP /\ DEPTH_CAP \in Nat /\ types \in Workspaces
    BY <2>1 DEF ClosureIInv, AtItsLevel, ClosureAssumption
  <2>3. PICK t \in Within[e] \ Within[e - 1] : Place(t) = result[i].place
    BY <2>1 DEF ClosureIInv, AtItsLevel
  <2>4. ASSUME NEW u \in Within[e - 1], Place(u) = result[i].place PROVE FALSE
    <3>1. e \in Nat /\ e - 1 \in Nat
      BY <2>2
    <3>2. t \in Nodes /\ u \in Nodes
      BY <2>3, <2>4, <3>1, WithinSteps
    <3>3. t = u
      BY <2>2, <2>3, <2>4, <3>2, PlacesDiffer
    <3> QED
      BY <2>3, <2>4, <3>3
  <2>5. i > 1 => i - 1 \in DOMAIN result /\ i - 1 < i
    BY DEF ClosureIInv
  <2>6. i > 1 => result[i - 1].depth <= result[i].depth
    BY <2>5 DEF ClosureIInv, InOrderOnce
  <2> QED
    BY <2>1, <2>3, <2>4, <2>6
<1>4. ClosureIInv /\ [ClosureNext]_closureVars => ClosureIInv'
  BY ClosureStepInv
<1> QED
  BY <1>1, <1>2, <1>3, <1>4, PTL DEF ClosureSpec
=============================================================================
