---------------------------- MODULE MessageProofs ----------------------------
(***************************************************************************)
(* Proofs about MessageFraming and MessageDispatch, for every connection:  *)
(* any number of messages, batches of any length, any handlers.            *)
(*                                                                         *)
(* The induction theorems of the library take an operator, which no prover *)
(* here can instantiate. Induction is over a set of numbers instead        *)
(* (SetInduction): the set of those that have the property.                *)
(***************************************************************************)
EXTENDS MessageDispatch, SequenceTheorems, WellFoundedInduction, TLAPS

-----------------------------------------------------------------------------
(* Numbers *)

NatLess == {p \in Nat \X Nat : p[1] < p[2]}

LEMMA NatLessWellFounded == IsWellFoundedOn(NatLess, Nat)
<1>1. OpToRel(<, Nat) = NatLess
  BY DEF OpToRel, NatLess
<1> QED BY <1>1, NatLessThanWellFounded

LEMMA LeastNumber ==
  ASSUME NEW T, T \subseteq Nat, T # {}
  PROVE  \E x \in T : \A y \in T : x <= y
<1>1. PICK x \in T : \A y \in T : ~ (<<y, x>> \in NatLess)
  <2>1. T \subseteq Nat /\ T # {} /\ IsWellFoundedOn(NatLess, Nat)
    BY NatLessWellFounded
  <2> QED BY <2>1, WFMin
<1>2. ASSUME NEW y \in T PROVE x <= y
  <2> SUFFICES ASSUME y < x PROVE FALSE
    OBVIOUS
  <2>1. <<y, x>> \in NatLess
    BY DEF NatLess
  <2> QED BY <1>1, <2>1
<1> QED BY <1>2

LEMMA SetInduction ==
  ASSUME NEW T, 0 \in T, \A n \in Nat : n \in T => n + 1 \in T
  PROVE  Nat \subseteq T
<1> SUFFICES ASSUME Nat \ T # {} PROVE FALSE
  OBVIOUS
<1>1. PICK x \in Nat \ T : \A y \in Nat \ T : x <= y
  <2>1. Nat \ T \subseteq Nat
    OBVIOUS
  <2> QED BY <2>1, LeastNumber
<1>2. x # 0 /\ x - 1 \in Nat
  BY <1>1
<1>3. x - 1 \in T
  BY <1>1, <1>2
<1> QED BY <1>1, <1>2, <1>3

LEMMA MinIsLeast ==
  ASSUME NEW T, T \subseteq Nat, T # {}
  PROVE  Min(T) \in T /\ \A y \in T : Min(T) <= y
  BY LeastNumber DEF Min

-----------------------------------------------------------------------------
(* FlattenSeq of the community modules is a recursive function, which is there if some    *)
(* function meets its equation.                                                           *)

FlatStep(f, seqs, i) == IF i = 1 THEN seqs[i] ELSE f[i - 1] \o seqs[i]
IsFlat(f, seqs, n) == f = [i \in 1..n |-> FlatStep(f, seqs, i)]
Flat(seqs) == CHOOSE f : IsFlat(f, seqs, Len(seqs))

LEMMA FlattenByFlat ==
  ASSUME NEW seqs
  PROVE  FlattenSeq(seqs) = IF Len(seqs) = 0 THEN seqs ELSE Flat(seqs)[Len(seqs)]
  BY DEF FlattenSeq, Flat, IsFlat, FlatStep

LEMMA FlatStepLocal ==
  ASSUME NEW f, NEW g, NEW seqs, NEW i, i # 1 => f[i - 1] = g[i - 1]
  PROVE  FlatStep(f, seqs, i) = FlatStep(g, seqs, i)
  BY DEF FlatStep

LEMMA FlatExists ==
  ASSUME NEW seqs, Len(seqs) \in Nat
  PROVE  IsFlat(Flat(seqs), seqs, Len(seqs))
<1> DEFINE T == {n \in Nat : \E f : IsFlat(f, seqs, n)}
<1>1. 0 \in T
  <2>1. IsFlat(<<>>, seqs, 0)
    BY DEF IsFlat
  <2> QED BY <2>1
<1>2. ASSUME NEW n \in Nat, n \in T PROVE n + 1 \in T
  <2>1. PICK f : IsFlat(f, seqs, n)
    BY <1>2
  <2> DEFINE g == [i \in 1..(n + 1) |-> FlatStep(f, seqs, i)]
  <2>2. \A i \in 1..n : g[i] = f[i]
    BY <2>1 DEF IsFlat
  <2>3. \A i \in 1..(n + 1) : i # 1 => f[i - 1] = g[i - 1]
    <3> HIDE DEF g
    <3> QED BY <2>2
  <2>4. \A i \in 1..(n + 1) : FlatStep(f, seqs, i) = FlatStep(g, seqs, i)
    <3> HIDE DEF g
    <3> QED BY <2>3, FlatStepLocal
  <2>5. IsFlat(g, seqs, n + 1)
    BY <2>4 DEF IsFlat
  <2> QED BY <2>5
<1> HIDE DEF T
<1>3. Nat \subseteq T
  BY <1>1, <1>2, SetInduction
<1>4. PICK f : IsFlat(f, seqs, Len(seqs))
  BY <1>3 DEF T
<1> QED BY <1>4 DEF Flat

LEMMA FlatFirst ==
  ASSUME NEW seqs, Len(seqs) \in Nat \ {0}
  PROVE  Flat(seqs)[1] = seqs[1]
<1>1. Flat(seqs)[1] = FlatStep(Flat(seqs), seqs, 1)
  BY FlatExists DEF IsFlat
<1> QED BY <1>1 DEF FlatStep

LEMMA FlatNext ==
  ASSUME NEW seqs, Len(seqs) \in Nat, NEW n \in Nat \ {0}, n + 1 \in 1..Len(seqs)
  PROVE  Flat(seqs)[n + 1] = Flat(seqs)[n] \o seqs[n + 1]
<1>1. Flat(seqs)[n + 1] = FlatStep(Flat(seqs), seqs, n + 1)
  BY FlatExists DEF IsFlat
<1>2. n + 1 # 1 /\ (n + 1) - 1 = n
  OBVIOUS
<1> QED BY <1>1, <1>2 DEF FlatStep

LEMMA FlatType ==
  ASSUME NEW S, NEW seqs \in Seq(Seq(S))
  PROVE  \A n \in 1..Len(seqs) : Flat(seqs)[n] \in Seq(S)
<1> DEFINE T == {n \in Nat : n \in 1..Len(seqs) => Flat(seqs)[n] \in Seq(S)}
<1>0. \A i \in 1..Len(seqs) : seqs[i] \in Seq(S)
  OBVIOUS
<1>1. 0 \in T
  OBVIOUS
<1>2. ASSUME NEW n \in Nat, n \in T PROVE n + 1 \in T
  <2> SUFFICES ASSUME n + 1 \in 1..Len(seqs) PROVE Flat(seqs)[n + 1] \in Seq(S)
    OBVIOUS
  <2>1. CASE n = 0
    <3>1. Flat(seqs)[1] = seqs[1]
      BY FlatFirst
    <3> QED BY <2>1, <3>1, <1>0
  <2>2. CASE n # 0
    <3>1. Flat(seqs)[n] \in Seq(S)
      BY <1>2, <2>2
    <3>2. seqs[n + 1] \in Seq(S)
      BY <1>0
    <3>3. Flat(seqs)[n + 1] = Flat(seqs)[n] \o seqs[n + 1]
      <4>1. n \in Nat \ {0} /\ Len(seqs) \in Nat
        BY <2>2
      <4> QED BY <4>1, FlatNext
    <3> QED BY <3>1, <3>2, <3>3
  <2> QED BY <2>1, <2>2
<1> HIDE DEF T
<1>3. Nat \subseteq T
  BY <1>1, <1>2, SetInduction
<1> QED BY <1>3 DEF T

LEMMA FlattenEmpty == FlattenSeq(<<>>) = <<>>
  BY FlattenByFlat

LEMMA FlattenType ==
  ASSUME NEW S, NEW seqs \in Seq(Seq(S))
  PROVE  FlattenSeq(seqs) \in Seq(S)
<1>1. CASE Len(seqs) = 0
  <2>1. FlattenSeq(seqs) = seqs /\ seqs = <<>>
    BY <1>1, FlattenByFlat
  <2> QED BY <2>1
<1>2. CASE Len(seqs) # 0
  <2>1. Flat(seqs)[Len(seqs)] \in Seq(S)
    BY <1>2, FlatType
  <2> QED BY <1>2, <2>1, FlattenByFlat
<1> QED BY <1>1, <1>2

LEMMA FlatOfPrefix ==
  ASSUME NEW S, NEW seqs \in Seq(Seq(S)), NEW x \in Seq(S)
  PROVE  \A n \in 1..Len(seqs) : Flat(Append(seqs, x))[n] = Flat(seqs)[n]
<1> DEFINE T == {n \in Nat : n \in 1..Len(seqs) => Flat(Append(seqs, x))[n] = Flat(seqs)[n]}
<1>0. /\ Append(seqs, x) \in Seq(Seq(S)) /\ Len(Append(seqs, x)) = Len(seqs) + 1
      /\ \A i \in 1..Len(seqs) : Append(seqs, x)[i] = seqs[i]
  OBVIOUS
<1>1. 0 \in T
  OBVIOUS
<1>2. ASSUME NEW n \in Nat, n \in T PROVE n + 1 \in T
  <2> SUFFICES ASSUME n + 1 \in 1..Len(seqs)
               PROVE  Flat(Append(seqs, x))[n + 1] = Flat(seqs)[n + 1]
    OBVIOUS
  <2>1. CASE n = 0
    <3>1. Flat(seqs)[1] = seqs[1]
      BY FlatFirst
    <3>2. Flat(Append(seqs, x))[1] = Append(seqs, x)[1]
      <4>1. Len(Append(seqs, x)) \in Nat \ {0}
        BY <1>0
      <4> QED BY <4>1, FlatFirst
    <3> QED BY <2>1, <3>1, <3>2, <1>0
  <2>2. CASE n # 0
    <3>1. Flat(Append(seqs, x))[n] = Flat(seqs)[n]
      BY <1>2, <2>2
    <3>2. Flat(seqs)[n + 1] = Flat(seqs)[n] \o seqs[n + 1]
      <4>1. n \in Nat \ {0} /\ Len(seqs) \in Nat
        BY <2>2
      <4> QED BY <4>1, FlatNext
    <3>3. Flat(Append(seqs, x))[n + 1] = Flat(Append(seqs, x))[n] \o Append(seqs, x)[n + 1]
      <4>1. n \in Nat \ {0} /\ n + 1 \in 1..Len(Append(seqs, x)) /\ Len(Append(seqs, x)) \in Nat
        BY <1>0, <2>2
      <4> QED BY <4>1, FlatNext
    <3> QED BY <3>1, <3>2, <3>3, <1>0
  <2> QED BY <2>1, <2>2
<1> HIDE DEF T
<1>3. Nat \subseteq T
  BY <1>1, <1>2, SetInduction
<1> QED BY <1>3 DEF T

LEMMA FlattenAppend ==
  ASSUME NEW S, NEW seqs \in Seq(Seq(S)), NEW x \in Seq(S)
  PROVE  FlattenSeq(Append(seqs, x)) = FlattenSeq(seqs) \o x
<1> DEFINE more == Append(seqs, x)
<1> HIDE DEF more
<1>0. /\ more \in Seq(Seq(S)) /\ Len(more) = Len(seqs) + 1
      /\ more[Len(seqs) + 1] = x
  BY DEF more
<1>1. FlattenSeq(more) = Flat(more)[Len(seqs) + 1]
  <2>1. Len(more) # 0
    BY <1>0
  <2> QED BY <1>0, <2>1, FlattenByFlat
<1>2. CASE Len(seqs) = 0
  <2>1. FlattenSeq(seqs) = <<>>
    BY <1>2, FlattenByFlat
  <2>2. Flat(more)[1] = x
    <3>1. Len(more) \in Nat \ {0}
      BY <1>0, <1>2
    <3>2. Flat(more)[1] = more[1]
      BY <3>1, FlatFirst
    <3> QED BY <1>0, <1>2, <3>2
  <2>3. FlattenSeq(more) = FlattenSeq(seqs) \o x
    BY <1>1, <1>2, <2>1, <2>2
  <2> QED BY <2>3 DEF more
<1>3. CASE Len(seqs) # 0
  <2>1. FlattenSeq(seqs) = Flat(seqs)[Len(seqs)]
    BY <1>3, FlattenByFlat
  <2>2. Flat(more)[Len(seqs) + 1] = Flat(more)[Len(seqs)] \o x
    <3>1. Len(seqs) \in Nat \ {0} /\ Len(more) \in Nat /\ Len(seqs) + 1 \in 1..Len(more)
      BY <1>0, <1>3
    <3>2. Flat(more)[Len(seqs) + 1] = Flat(more)[Len(seqs)] \o more[Len(seqs) + 1]
      BY <3>1, FlatNext
    <3> QED BY <1>0, <3>2
  <2>3. Flat(more)[Len(seqs)] = Flat(seqs)[Len(seqs)]
    BY <1>3, FlatOfPrefix DEF more
  <2>4. FlattenSeq(more) = FlattenSeq(seqs) \o x
    BY <1>1, <2>1, <2>2, <2>3
  <2> QED BY <2>4 DEF more
<1> QED BY <1>2, <1>3

-----------------------------------------------------------------------------
(* The read loop *)

\* A function on 1..n is a sequence.
LEMMA FunctionIsSeq ==
  ASSUME NEW S, NEW n \in Nat, NEW f, DOMAIN f = 1..n, f = [i \in 1..n |-> f[i]], \A i \in 1..n : f[i] \in S
  PROVE  f \in Seq(S) /\ Len(f) = n
<1>1. f \in [1..n -> S]
  OBVIOUS
<1> QED BY <1>1, SeqDef, LenProperties

WithEnds(frame) == [i \in DOMAIN frame.lines |-> Append(frame.lines[i], Eol)]
AllPieces(frames) == [i \in DOMAIN frames |-> Pieces(frames[i])]

LEMMA PiecesType ==
  ASSUME NEW f \in Frame
  PROVE  /\ WithEnds(f) \in Seq(Seq(Piece)) /\ Len(WithEnds(f)) = Len(f.lines)
         /\ FlattenSeq(WithEnds(f)) \in Seq(Piece) /\ HeaderPieces(f) \in Seq(Piece)
         /\ f.content \in Seq(Piece) /\ Pieces(f) \in Seq(Piece)
<1>1. Eol \in Piece
  BY DEF Eol, Piece
<1>2. f.lines \in Seq(Seq(Piece)) /\ f.content \in Seq(Piece)
  BY DEF Frame
<1>3. DOMAIN f.lines = 1..Len(f.lines) /\ Len(f.lines) \in Nat
  BY <1>2
<1>4. PICK g : g = WithEnds(f)
  OBVIOUS
<1>5. DOMAIN g = 1..Len(f.lines) /\ \A i \in 1..Len(f.lines) : g[i] \in Seq(Piece)
  BY <1>1, <1>2, <1>3, <1>4 DEF WithEnds
<1>6. g = [i \in 1..Len(f.lines) |-> g[i]]
  BY <1>3, <1>4 DEF WithEnds
<1>7. g \in Seq(Seq(Piece)) /\ Len(g) = Len(f.lines)
  BY <1>3, <1>5, <1>6, FunctionIsSeq
<1>8. FlattenSeq(g) \in Seq(Piece)
  BY <1>7, FlattenType
<1>9. HeaderPieces(f) \in Seq(Piece)
  BY <1>1, <1>4, <1>8 DEF HeaderPieces, WithEnds
<1>10. Pieces(f) \in Seq(Piece)
  BY <1>2, <1>9 DEF Pieces
<1> QED BY <1>2, <1>4, <1>7, <1>8, <1>9, <1>10

LEMMA SentType ==
  ASSUME NEW frames \in Seq(Frame)
  PROVE  /\ AllPieces(frames) \in Seq(Seq(Piece)) /\ Len(AllPieces(frames)) = Len(frames)
         /\ Sent(frames) \in Seq(Piece)
<1>1. DOMAIN frames = 1..Len(frames) /\ Len(frames) \in Nat /\ \A i \in 1..Len(frames) : frames[i] \in Frame
  OBVIOUS
<1>2. PICK g : g = AllPieces(frames)
  OBVIOUS
<1>3. DOMAIN g = 1..Len(frames) /\ \A i \in 1..Len(frames) : g[i] \in Seq(Piece)
  BY <1>1, <1>2, PiecesType DEF AllPieces
<1>4. g = [i \in 1..Len(frames) |-> g[i]]
  BY <1>1, <1>2 DEF AllPieces
<1>5. g \in Seq(Seq(Piece)) /\ Len(g) = Len(frames)
  BY <1>1, <1>3, <1>4, FunctionIsSeq
<1> QED BY <1>2, <1>5, FlattenType DEF Sent, AllPieces

LEMMA InputTypes ==
  ASSUME NEW in \in Inputs
  PROVE  /\ in.frames \in Seq(Frame) /\ in.cut \in Nat
         /\ Sent(in.frames) \in Seq(Piece) /\ in.cut <= Len(Sent(in.frames))
<1>1. in.frames \in Seq(Frame) /\ in.cut \in Nat /\ in.cut <= Len(Sent(in.frames))
  BY InputsAssumption
<1> QED BY <1>1, SentType

\* Nothing but what follows a place is left of a sequence of pieces.
LEMMA RestType ==
  ASSUME NEW s \in Seq(Piece), NEW n \in Nat
  PROVE  SubSeq(s, n + 1, Len(s)) \in Seq(Piece)
<1>1. \A i \in (n + 1)..Len(s) : s[i] \in Piece
  OBVIOUS
<1> QED BY <1>1, SubSeqProperties

LEMMA FirstLine ==
  ASSUME stream \in Seq(Piece), LineEnds # {}
  PROVE  \E n \in 1..Len(stream) :
            /\ stream[n] = Eol /\ \A j \in 1..(n - 1) : stream[j] # Eol
            /\ Line = SubSeq(stream, 1, n - 1)
<1> DEFINE I == {i \in 1..Len(stream) : stream[i] = Eol}
<1>1. I # {} /\ I \subseteq Nat
  BY DEF LineEnds
<1>2. Min(I) \in I /\ \A y \in I : Min(I) <= y
  BY <1>1, MinIsLeast
<1>3. SelectInSeq(stream, LAMBDA p : p = Eol) = Min(I)
  BY <1>1 DEF SelectInSeq
<1>4. Line = SubSeq(stream, 1, Min(I) - 1)
  BY <1>3 DEF Line
<1>5. PICK n \in I : n = Min(I)
  BY <1>2
<1>6. Line = SubSeq(stream, 1, n - 1) /\ \A y \in I : n <= y
  BY <1>2, <1>4, <1>5
<1>7. \A j \in 1..(n - 1) : stream[j] # Eol
  BY <1>6
<1> QED BY <1>6, <1>7

LEMMA LineType ==
  ASSUME stream \in Seq(Piece), LineEnds # {}
  PROVE  Line \in Seq(Piece) /\ Len(Line) \in Nat /\ Field(Line) \in Piece
<1>1. PICK n \in 1..Len(stream) : Line = SubSeq(stream, 1, n - 1)
  BY FirstLine
<1>2. Line \in Seq(Piece)
  <2>1. \A i \in 1..(n - 1) : stream[i] \in Piece
    OBVIOUS
  <2> QED BY <1>1, <2>1, SubSeqProperties
<1>3. Other \in Piece
  BY DEF Other, Piece
<1> QED BY <1>2, <1>3 DEF Field

LEMMA DropLineType ==
  ASSUME stream \in Seq(Piece), LineEnds # {}, DropLine
  PROVE  stream' \in Seq(Piece)
<1>1. Len(Line) + 1 \in Nat /\ Len(Line) + 2 = (Len(Line) + 1) + 1
  BY LineType
<1> QED BY <1>1, RestType DEF DropLine

HeaderType == [length : {"missing", "valid", "invalid"}, size : Nat, charset : BOOLEAN]

LEMMA WithFieldType ==
  ASSUME NEW field \in Piece, header \in HeaderType
  PROVE  WithField(field) \in HeaderType
<1>1. field.is = "length" => field.size \in Nat
  BY DEF Piece
<1>2. field.is = "charset" => field.known \in BOOLEAN
  BY DEF Piece
<1> QED BY <1>1, <1>2 DEF WithField, HeaderType

LEMMA DecodedType ==
  ASSUME NEW content \in Seq(Piece)
  PROVE  Decoded(content) \in Messages
<1>1. NotJson \in Messages
  BY DEF NotJson, Messages
<1>2. content # <<>> /\ content[1].is = "body" => content[1].message \in Messages
  <2> SUFFICES ASSUME content # <<>>, content[1].is = "body" PROVE content[1].message \in Messages
    OBVIOUS
  <2>1. content[1] \in Piece
    OBVIOUS
  <2> QED BY <2>1 DEF Piece
<1> QED BY <1>1, <1>2 DEF Decoded

\* What a step of the read loop does to the tasks: it starts one, or none.
LEMMA ReaderSteps ==
  ASSUME ReaderTypeOK, ReaderStep
  PROVE  ReaderTypeOK' /\ (started' = started \/ \E task \in Task : started' = Append(started, task))
<1>0. /\ input \in Inputs /\ stream \in Seq(Piece) /\ header \in HeaderType /\ started \in Seq(Task)
      /\ reader \in {"header", "content", "skip", "ended"}
  BY DEF ReaderTypeOK, HeaderType
<1>1. NoHeader \in HeaderType
  BY DEF NoHeader, HeaderType
<1>2. ASSUME input' \in Inputs, stream' \in Seq(Piece), header' \in HeaderType, started' \in Seq(Task),
             reader' \in {"header", "content", "skip", "ended"}
      PROVE  ReaderTypeOK'
  BY <1>2 DEF ReaderTypeOK, HeaderType
<1>3. CASE ReadHeaderLine
  <2>1. stream' \in Seq(Piece)
    BY <1>0, <1>3, DropLineType DEF ReadHeaderLine
  <2>2. header' \in HeaderType
    BY <1>0, <1>3, LineType, WithFieldType DEF ReadHeaderLine
  <2> QED BY <1>0, <1>2, <1>3, <2>1, <2>2 DEF ReadHeaderLine
<1>4. CASE NoLength
  <2>1. stream' \in Seq(Piece)
    BY <1>0, <1>4, DropLineType DEF NoLength, HeaderPartEnds
  <2> QED BY <1>0, <1>1, <1>2, <1>4, <2>1 DEF NoLength
<1>5. CASE RefuseOversized
  <2>1. stream' \in Seq(Piece)
    BY <1>0, <1>5, DropLineType DEF RefuseOversized, HeaderPartEnds
  <2>2. Problem("invalid request") \in Task
    BY DEF Problem, Task
  <2>3. started' = Append(started, Problem("invalid request"))
    BY <1>5 DEF RefuseOversized, StartTask
  <2>4. started' \in Seq(Task)
    <3>1. PICK task \in Task : started' = Append(started, task)
      BY <2>2, <2>3
    <3> QED BY <1>0, <3>1
  <2>5. ReaderTypeOK'
    BY <1>0, <1>2, <1>5, <2>1, <2>4 DEF RefuseOversized
  <2> QED BY <2>2, <2>3, <2>5
<1>6. CASE BeginContent
  <2>1. stream' \in Seq(Piece)
    BY <1>0, <1>6, DropLineType DEF BeginContent, HeaderPartEnds
  <2> QED BY <1>0, <1>2, <1>6, <2>1 DEF BeginContent
<1>7. CASE SkipContent
  <2>1. PICK n \in 1..header.size : /\ stream' = SubSeq(stream, n + 1, Len(stream))
                                    /\ header' = [header EXCEPT !.size = @ - n]
    BY <1>7 DEF SkipContent
  <2>2. header.size \in Nat /\ n \in Nat /\ header.size - n \in Nat
    BY <1>0 DEF HeaderType
  <2>3. stream' \in Seq(Piece)
    BY <1>0, <2>1, <2>2, RestType
  <2>4. header' \in HeaderType
    BY <1>0, <2>1, <2>2 DEF HeaderType
  <2> QED BY <1>0, <1>2, <1>7, <2>3, <2>4 DEF SkipContent
<1>8. CASE Skipped
  BY <1>0, <1>1, <1>2, <1>8 DEF Skipped, NextMessage
<1>9. CASE ReadContent
  <2>1. header.size \in Nat /\ Len(stream) >= header.size
    BY <1>0, <1>9 DEF ReadContent, HeaderType
  <2>2. SubSeq(stream, 1, header.size) \in Seq(Piece)
    <3>1. \A i \in 1..header.size : stream[i] \in Piece
      BY <1>0, <2>1
    <3> QED BY <2>1, <3>1, SubSeqProperties
  <2>3. stream' \in Seq(Piece)
    BY <1>0, <1>9, <2>1, RestType DEF ReadContent
  <2>4. Problem("parse error") \in Task
    BY DEF Problem, Task
  <2>5. Handle(Decoded(SubSeq(stream, 1, header.size))) \in Task
    BY <2>2, DecodedType DEF Handle, Task
  <2>6. \E task \in Task : started' = Append(started, task)
    BY <1>9, <2>4, <2>5 DEF ReadContent, StartTask
  <2>7. started' \in Seq(Task)
    BY <1>0, <2>6
  <2>8. ReaderTypeOK'
    BY <1>0, <1>1, <1>2, <1>9, <2>3, <2>7 DEF ReadContent, NextMessage
  <2> QED BY <2>6, <2>8
<1>10. CASE ReadEnd
  BY <1>0, <1>2, <1>10 DEF ReadEnd
<1> QED BY <1>3, <1>4, <1>5, <1>6, <1>7, <1>8, <1>9, <1>10 DEF ReaderStep

LEMMA ReaderStart == ASSUME Init PROVE ReaderTypeOK /\ started = <<>>
<1>1. input \in Inputs /\ stream = SubSeq(Sent(input.frames), 1, input.cut)
  BY DEF Init
<1>2. stream \in Seq(Piece)
  <2>1. \A i \in 1..input.cut : Sent(input.frames)[i] \in Piece
    BY <1>1, InputTypes
  <2>2. input.cut \in Nat
    BY <1>1, InputTypes
  <2> QED BY <1>1, <2>1, <2>2, SubSeqProperties
<1> QED BY <1>1, <1>2 DEF Init, ReaderTypeOK, NoHeader

-----------------------------------------------------------------------------
(* The elements of a message, one by one *)

LEMMA OneIsSeq ==
  ASSUME NEW S, NEW x \in S
  PROVE  <<x>> \in Seq(S)
  OBVIOUS

Ids == {"null"} \cup {e.id : e \in Elements}

LEMMA ItemCode ==
  ASSUME NEW r \in Item, NEW code \in Codes
  PROVE  [r EXCEPT !.code = code] = [id |-> r.id, code |-> code] /\ [r EXCEPT !.code = code] \in Item
  BY DEF Item

Writable(code) == IF code = "unwritable" THEN "internal error" ELSE code
EncodedItem(r) == IF r.code = "unwritable" THEN [r EXCEPT !.code = "internal error"] ELSE r

LEMMA EncodedItemIs ==
  ASSUME NEW r \in Item
  PROVE  EncodedItem(r) \in Item /\ EncodedItem(r) = [id |-> r.id, code |-> Writable(r.code)]
<1>1. "internal error" \in Codes
  BY DEF Codes, Outcomes
<1>2. r = [id |-> r.id, code |-> r.code]
  BY DEF Item
<1> QED BY <1>1, <1>2, ItemCode DEF EncodedItem, Writable

LEMMA EncodedNothing == Encoded(<<>>) = <<>> /\ <<>> \in Seq(Item)
  BY DEF Encoded

LEMMA EncodedType ==
  ASSUME NEW s \in Seq(Item)
  PROVE  /\ Encoded(s) \in Seq(Item) /\ Len(Encoded(s)) = Len(s)
         /\ \A j \in 1..Len(s) : Encoded(s)[j] = EncodedItem(s[j])
<1>1. DOMAIN s = 1..Len(s) /\ Len(s) \in Nat /\ \A j \in 1..Len(s) : s[j] \in Item
  OBVIOUS
<1>2. Encoded(s) = [j \in 1..Len(s) |-> EncodedItem(s[j])]
  BY <1>1 DEF Encoded, EncodedItem
<1>3. \A j \in 1..Len(s) : Encoded(s)[j] = EncodedItem(s[j]) /\ Encoded(s)[j] \in Item
  BY <1>1, <1>2, EncodedItemIs
<1>4. DOMAIN Encoded(s) = 1..Len(s) /\ Encoded(s) = [j \in 1..Len(s) |-> Encoded(s)[j]]
  BY <1>2
<1>5. Encoded(s) \in Seq(Item) /\ Len(Encoded(s)) = Len(s)
  BY <1>1, <1>3, <1>4, FunctionIsSeq
<1> QED BY <1>3, <1>5

LEMMA EncodedConcat ==
  ASSUME NEW s \in Seq(Item), NEW t \in Seq(Item)
  PROVE  Encoded(s \o t) = Encoded(s) \o Encoded(t)
<1>1. /\ s \o t \in Seq(Item) /\ Len(s \o t) = Len(s) + Len(t) /\ Len(s) \in Nat /\ Len(t) \in Nat
      /\ \A i \in 1..(Len(s) + Len(t)) : (s \o t)[i] = IF i <= Len(s) THEN s[i] ELSE t[i - Len(s)]
  BY ConcatProperties
<1>2. /\ Encoded(s) \in Seq(Item) /\ Len(Encoded(s)) = Len(s)
      /\ \A j \in 1..Len(s) : Encoded(s)[j] = EncodedItem(s[j])
      /\ Encoded(t) \in Seq(Item) /\ Len(Encoded(t)) = Len(t)
      /\ \A j \in 1..Len(t) : Encoded(t)[j] = EncodedItem(t[j])
  BY EncodedType
<1>3. /\ Encoded(s \o t) \in Seq(Item) /\ Len(Encoded(s \o t)) = Len(s) + Len(t)
      /\ \A j \in 1..(Len(s) + Len(t)) : Encoded(s \o t)[j] = EncodedItem((s \o t)[j])
  BY <1>1, EncodedType
<1>4. PICK u, v : u = Encoded(s) /\ v = Encoded(t)
  OBVIOUS
<1>5. /\ u \o v \in Seq(Item) /\ Len(u \o v) = Len(s) + Len(t)
      /\ \A i \in 1..(Len(s) + Len(t)) : (u \o v)[i] = IF i <= Len(s) THEN u[i] ELSE v[i - Len(s)]
  <2>1. u \in Seq(Item) /\ v \in Seq(Item) /\ Len(u) = Len(s) /\ Len(v) = Len(t)
    BY <1>2, <1>4
  <2>2. /\ u \o v \in Seq(Item) /\ Len(u \o v) = Len(u) + Len(v)
        /\ \A i \in 1..(Len(u) + Len(v)) : (u \o v)[i] = IF i <= Len(u) THEN u[i] ELSE v[i - Len(u)]
    BY <2>1, ConcatProperties
  <2> QED BY <2>1, <2>2
<1>6. ASSUME NEW i \in 1..(Len(s) + Len(t))
      PROVE  Encoded(s \o t)[i] = (u \o v)[i]
  <2>1. CASE i <= Len(s)
    <3>1. i \in 1..Len(s)
      BY <1>1, <2>1
    <3> QED BY <1>1, <1>2, <1>3, <1>4, <1>5, <2>1, <3>1
  <2>2. CASE ~(i <= Len(s))
    <3>1. i - Len(s) \in 1..Len(t)
      BY <1>1, <2>2
    <3> QED BY <1>1, <1>2, <1>3, <1>4, <1>5, <2>2, <3>1
  <2> QED BY <2>1, <2>2
<1>7. Encoded(s \o t) = u \o v
  BY <1>3, <1>5, <1>6, SeqEqual
<1> QED BY <1>4, <1>7

LEMMA EncodedReply ==
  ASSUME NEW id \in Ids, NEW code \in Codes
  PROVE  Reply(id, code) \in Seq(Item) /\ Encoded(Reply(id, code)) = Reply(id, Writable(code))
<1>1. PICK r \in Item : r = [id |-> id, code |-> code]
  BY DEF Item, Ids
<1>2. Encoded(<<r>>) = <<EncodedItem(r)>>
  <2>1. PICK s \in Seq(Item) : s = <<r>>
    BY OneIsSeq
  <2>2. Encoded(s) \in Seq(Item) /\ Len(Encoded(s)) = Len(s) /\ \A j \in 1..Len(s) : Encoded(s)[j] = EncodedItem(s[j])
    BY EncodedType
  <2>3. Len(s) = 1 /\ s[1] = r
    BY <2>1
  <2>4. Encoded(s) \in Seq(Item) /\ Len(Encoded(s)) = 1 /\ Encoded(s)[1] = EncodedItem(r)
    BY <2>2, <2>3
  <2>5. Encoded(s) = <<EncodedItem(r)>>
    BY <2>4
  <2> QED BY <2>1, <2>5
<1>3. Reply(id, code) = <<r>>
  BY <1>1 DEF Reply
<1>4. EncodedItem(r) = [id |-> id, code |-> Writable(code)]
  <2>1. r.id = id /\ r.code = code
    BY <1>1
  <2> QED BY <2>1, EncodedItemIs
<1>5. Encoded(Reply(id, code)) = Reply(id, Writable(code))
  BY <1>2, <1>3, <1>4 DEF Reply
<1> QED BY <1>3, <1>5

\* What the dispatch answers to an element, and what the requirements say of it.
LEMMA InvalidExpected ==
  ASSUME NEW e \in Elements, IsInvalid(e)
  PROVE  Expected(e) = Reply(IF e.object THEN UsableId(e) ELSE "null", "invalid request") /\ ~IsResponse(e)
<1>1. e.object \in BOOLEAN /\ e.version \in BOOLEAN
  BY ElementsAssumption
<1>2. ParamsUsable(e) <=> e.params.k \in {"absent", "null", "list", "object"}
  BY DEF ParamsUsable, ParamsOf, NoParams
<1> QED BY <1>1, <1>2 DEF Expected, WellFormed, IsInvalid, IsResponse, UsableId, NoIds

LEMMA ResponseExpected ==
  ASSUME NEW e \in Elements, IsResponse(e)
  PROVE  Expected(e) = <<>>
<1>1. e.object /\ e.id # "absent" /\ e.method = "absent"
  BY DEF IsResponse
<1> QED BY <1>1 DEF Expected

LEMMA CallExpected ==
  ASSUME NEW e \in Elements, IsCall(e)
  PROVE  /\ e.method \notin DOMAIN TableFor(e) => Expected(e) = ReplyTo(e, "method not found")
         /\ e.method \in DOMAIN TableFor(e) /\ FromDict(ParamsOf(e), <<TableFor(e)[e.method].type>>) = {}
                => Expected(e) = ReplyTo(e, "invalid params")
         /\ e.method \in DOMAIN TableFor(e) /\ FromDict(ParamsOf(e), <<TableFor(e)[e.method].type>>) # {}
                => Expected(e) = ReplyTo(e, Writable(TableFor(e)[e.method].ends))
<1>1. e.object \in BOOLEAN /\ e.version \in BOOLEAN
  BY ElementsAssumption
<1>2. ParamsUsable(e) <=> e.params.k \in {"absent", "null", "list", "object"}
  BY DEF ParamsUsable, ParamsOf, NoParams
<1>3. /\ e.object /\ e.version /\ e.method \notin {"absent", "bad"} /\ ~IsResponse(e) /\ ~IsInvalid(e)
      /\ e.params.k \in {"absent", "null", "list", "object"} /\ e.id \notin NoIds \ {"absent"}
  BY <1>1, <1>2 DEF IsCall, IsInvalid, IsResponse
<1>0. e.object /\ WellFormed(e) /\ ~(e.id # "absent" /\ e.method = "absent")
  BY <1>3 DEF WellFormed
<1>4. CASE e.id = "absent"
  <2>1. Expected(e) = <<>>
    BY <1>0, <1>4 DEF Expected
  <2>2. \A code : ReplyTo(e, code) = <<>>
    BY <1>3, <1>4 DEF ReplyTo, IsNotification
  <2> QED BY <2>1, <2>2
<1>5. CASE e.id # "absent"
  <2>1. e.id \notin NoIds /\ ~IsNotification(e)
    BY <1>3, <1>5 DEF IsNotification
  <2>2. TableFor(e) = Handlers /\ \A code : ReplyTo(e, code) = Reply(e.id, code)
    BY <2>1 DEF TableFor, ReplyTo
  <2>0. Expected(e) = Reply(e.id, OutcomeOf(e))
    BY <1>0, <1>5, <2>1 DEF Expected
  <2>3. CASE e.method \notin DOMAIN Handlers
    BY <2>0, <2>2, <2>3 DEF OutcomeOf
  <2>4. CASE e.method \in DOMAIN Handlers /\ FromDict(ParamsOf(e), <<Handlers[e.method].type>>) = {}
    <3>1. Convertible(e) = FALSE
      BY <2>4 DEF Convertible
    <3> QED BY <2>0, <2>2, <2>4, <3>1 DEF OutcomeOf
  <2>5. CASE e.method \in DOMAIN Handlers /\ FromDict(ParamsOf(e), <<Handlers[e.method].type>>) # {}
    <3>1. Convertible(e) = TRUE
      BY <2>5 DEF Convertible
    <3> QED BY <2>0, <2>2, <2>5, <3>1 DEF OutcomeOf, Writable
  <2> QED BY <2>2, <2>3, <2>4, <2>5
<1> QED BY <1>4, <1>5

LEMMA ReplyToEncoded ==
  ASSUME NEW e \in Elements, NEW code \in Codes
  PROVE  /\ ReplyTo(e, code) \in Seq(Item)
         /\ Encoded(ReplyTo(e, code)) = ReplyTo(e, Writable(code))
<1>1. e.id \in Ids
  BY DEF Ids
<1>2. CASE IsNotification(e)
  BY <1>2, EncodedNothing DEF ReplyTo
<1>3. CASE ~IsNotification(e)
  BY <1>1, <1>3, EncodedReply DEF ReplyTo
<1> QED BY <1>2, <1>3

LEMMA ExpectedType ==
  ASSUME NEW e \in Elements
  PROVE  Expected(e) \in Seq(Item)
<1>1. e.id \in Ids /\ UsableId(e) \in Ids /\ "null" \in Ids
  BY DEF UsableId, Ids
<1>0. {"invalid request", "method not found", "invalid params"} \cup Outcomes \subseteq Codes
  BY DEF Codes
<1>2. CASE IsInvalid(e)
  <2>1. \A id \in Ids : Reply(id, "invalid request") \in Seq(Item)
    BY <1>0, EncodedReply
  <2>2. (IF e.object THEN UsableId(e) ELSE "null") \in Ids
    BY <1>1
  <2> QED BY <1>2, <2>1, <2>2, InvalidExpected
<1>3. CASE IsResponse(e)
  BY <1>3, ResponseExpected, EncodedNothing
<1>4. CASE IsCall(e)
  <2>1. e.method \in DOMAIN TableFor(e) => TableFor(e)[e.method].ends \in Outcomes
    BY HandlersAssumption DEF TableFor
  <2>2. \A code \in Codes : ReplyTo(e, code) \in Seq(Item)
    BY ReplyToEncoded
  <2>3. \A code \in Outcomes : Writable(code) \in Codes
    BY <1>0 DEF Outcomes, Writable
  <2>4. CASE e.method \notin DOMAIN TableFor(e)
    BY <1>0, <1>4, <2>2, <2>4, CallExpected
  <2>5. CASE e.method \in DOMAIN TableFor(e)
    BY <1>0, <1>4, <2>1, <2>2, <2>3, <2>5, CallExpected
  <2> QED BY <2>4, <2>5
<1> QED BY <1>2, <1>3, <1>4 DEF IsCall

-----------------------------------------------------------------------------
(* Tasks *)

TaskState == [next : Nat \ {0}, answers : Seq(Item), running : BOOLEAN, over : BOOLEAN]

\* What the first n elements of a message ask for.
ExpectedUpTo(task, n) == [j \in 1..n |-> Expected(task.message.elements[j])]

\* The element that the handler of a task was called for.
Called(e) ==
    /\ IsCall(e) /\ e.method \in DOMAIN TableFor(e)
    /\ FromDict(ParamsOf(e), <<TableFor(e)[e.method].type>>) # {}

\* The answers of a task are those to the elements before the next one; a handler runs for a call
\* whose params were converted; and nothing is left to do for a task that is over.
TaskInv(task, t) ==
    /\ task.does = "handle" =>
        /\ t.next <= Len(task.message.elements) + 1
        /\ Encoded(t.answers) = FlattenSeq(ExpectedUpTo(task, t.next - 1))
    /\ t.running =>
        /\ task.does = "handle" /\ t.next <= Len(task.message.elements)
        /\ Called(task.message.elements[t.next])
    /\ t.over => ~t.running /\ (task.does = "handle" => t.next > Len(task.message.elements))

TasksInv == \A i \in DOMAIN tasks : TaskInv(started[i], tasks[i])

LEMMA MessageOf ==
  ASSUME NEW task \in Task, task.does = "handle"
  PROVE  /\ task.message \in Messages /\ task.message.elements \in Seq(Elements)
         /\ Len(task.message.elements) \in Nat
         /\ \A j \in 1..Len(task.message.elements) : task.message.elements[j] \in Elements
<1>1. task.message \in Messages
  BY DEF Task
<1>2. task.message.elements \in Seq(Elements)
  BY <1>1 DEF Messages
<1> QED BY <1>1, <1>2

LEMMA SeqIs ==
  ASSUME NEW S, NEW s \in Seq(S)
  PROVE  DOMAIN s = 1..Len(s) /\ Len(s) \in Nat /\ \A i \in 1..Len(s) : s[i] \in S
  OBVIOUS

LEMMA AppendIs ==
  ASSUME NEW S, NEW s \in Seq(S), NEW x \in S, NEW u, u = Append(s, x)
  PROVE  u \in Seq(S) /\ Len(u) = Len(s) + 1 /\ u[Len(s) + 1] = x /\ \A j \in 1..Len(s) : u[j] = s[j]
<1>1. Append(s, x) \in Seq(S) /\ Len(Append(s, x)) = Len(s) + 1
  BY AppendProperties
<1>2. Append(s, x)[Len(s) + 1] = x /\ \A j \in 1..Len(s) : Append(s, x)[j] = s[j]
  BY AppendProperties
<1> QED BY <1>1, <1>2

LEMMA TaskTypes ==
  ASSUME TypeOK
  PROVE  /\ tasks \in Seq(TaskState) /\ started \in Seq(Task) /\ Len(tasks) = Len(started) /\ Len(tasks) \in Nat
         /\ DOMAIN tasks = 1..Len(tasks) /\ DOMAIN started = 1..Len(tasks)
         /\ \A i \in DOMAIN tasks : tasks[i] \in TaskState /\ started[i] \in Task
         /\ written \in Seq([batch : BOOLEAN, items : Seq(Item)])
         /\ calls \in [Waiting -> {"waiting", "invalid version", "error", "invalid response", "result"}]
<1>1. /\ tasks \in Seq(TaskState) /\ started \in Seq(Task) /\ Len(tasks) = Len(started)
      /\ written \in Seq([batch : BOOLEAN, items : Seq(Item)])
      /\ calls \in [Waiting -> {"waiting", "invalid version", "error", "invalid response", "result"}]
  BY DEF TypeOK, ReaderTypeOK, TaskState
<1>2. DOMAIN tasks = 1..Len(tasks) /\ DOMAIN started = 1..Len(started) /\ Len(tasks) \in Nat
  BY <1>1, SeqIs
<1>3. \A i \in DOMAIN tasks : tasks[i] \in TaskState /\ started[i] \in Task
  BY <1>1, <1>2, SeqIs
<1> QED BY <1>1, <1>2, <1>3

LEMMA ExpectedUpToType ==
  ASSUME NEW task \in Task, task.does = "handle", NEW n \in Nat, n <= Len(task.message.elements)
  PROVE  ExpectedUpTo(task, n) \in Seq(Seq(Item)) /\ Len(ExpectedUpTo(task, n)) = n
<1>1. \A j \in 1..n : task.message.elements[j] \in Elements
  BY MessageOf
<1>2. \A j \in 1..n : ExpectedUpTo(task, n)[j] = Expected(task.message.elements[j])
  BY DEF ExpectedUpTo
<1>3. \A j \in 1..n : ExpectedUpTo(task, n)[j] \in Seq(Item)
  BY <1>1, <1>2, ExpectedType
<1>4. DOMAIN ExpectedUpTo(task, n) = 1..n /\ ExpectedUpTo(task, n) = [j \in 1..n |-> ExpectedUpTo(task, n)[j]]
  BY DEF ExpectedUpTo
<1> QED BY <1>3, <1>4, FunctionIsSeq

LEMMA ExpectedUpToNext ==
  ASSUME NEW task \in Task, task.does = "handle", NEW n \in Nat, n + 1 <= Len(task.message.elements)
  PROVE  FlattenSeq(ExpectedUpTo(task, n + 1))
            = FlattenSeq(ExpectedUpTo(task, n)) \o Expected(task.message.elements[n + 1])
<1>0. Len(task.message.elements) \in Nat
  BY MessageOf
<1>1. PICK s \in Seq(Seq(Item)) : s = ExpectedUpTo(task, n) /\ Len(s) = n
  BY <1>0, ExpectedUpToType
<1>2. PICK x \in Seq(Item) : x = Expected(task.message.elements[n + 1])
  <2>1. PICK es \in Seq(Elements) : es = task.message.elements
    BY MessageOf
  <2>2. n + 1 \in 1..Len(es)
    BY <1>0, <2>1
  <2>3. es[n + 1] \in Elements
    BY <2>2
  <2> QED BY <2>1, <2>3, ExpectedType
<1>3. PICK t \in Seq(Seq(Item)) : t = ExpectedUpTo(task, n + 1) /\ Len(t) = n + 1
  BY ExpectedUpToType
<1>4. \A j \in 1..n : t[j] = s[j]
  BY <1>1, <1>3 DEF ExpectedUpTo
<1>5. t[n + 1] = x
  BY <1>2, <1>3 DEF ExpectedUpTo
<1>6. PICK u : u = Append(s, x)
  OBVIOUS
<1>7. /\ u \in Seq(Seq(Item)) /\ Len(u) = Len(s) + 1 /\ u[Len(s) + 1] = x
      /\ \A j \in 1..Len(s) : u[j] = s[j]
  BY <1>6, AppendIs
<1>8. t = u
  <2>1. \A j \in 1..(n + 1) : t[j] = u[j]
    BY <1>1, <1>4, <1>5, <1>7
  <2> QED BY <1>1, <1>3, <1>7, <2>1, SeqEqual
<1>9. FlattenSeq(t) = FlattenSeq(s) \o x
  BY <1>8, <1>6, FlattenAppend
<1> QED BY <1>1, <1>2, <1>3, <1>9

LEMMA FreshInv ==
  ASSUME NEW task \in Task
  PROVE  TaskInv(task, Fresh) /\ Fresh \in TaskState
<1>1. Fresh \in TaskState
  BY EncodedNothing DEF Fresh, TaskState
<1>2. Fresh.next = 1 /\ Fresh.answers = <<>> /\ Fresh.running = FALSE /\ Fresh.over = FALSE
  BY DEF Fresh
<1>3. ExpectedUpTo(task, 0) = <<>>
  BY DEF ExpectedUpTo
<1>4. Encoded(Fresh.answers) = FlattenSeq(ExpectedUpTo(task, Fresh.next - 1))
  <2>1. Fresh.next - 1 = 0
    BY <1>2
  <2> QED BY <1>2, <1>3, <2>1, EncodedNothing, FlattenEmpty
<1>5. task.does = "handle" => Fresh.next <= Len(task.message.elements) + 1
  BY <1>2, MessageOf
<1> QED BY <1>1, <1>2, <1>4, <1>5 DEF TaskInv

\* The state of a task that has handled its next element.
LEMMA AdvancedIs ==
  ASSUME NEW t \in TaskState, NEW extra \in Seq(Item)
  PROVE  /\ Advanced(t, extra) \in TaskState
         /\ Advanced(t, extra).next = t.next + 1 /\ Advanced(t, extra).answers = t.answers \o extra
         /\ Advanced(t, extra).running = FALSE /\ Advanced(t, extra).over = t.over
<1>1. t.answers \o extra \in Seq(Item)
  BY ConcatProperties DEF TaskState
<1>2. t.next + 1 \in Nat \ {0}
  BY DEF TaskState
<1> QED BY <1>1, <1>2 DEF Advanced, TaskState

LEMMA AdvancedInv ==
  ASSUME NEW task \in Task, NEW t \in TaskState, TaskInv(task, t), NEW extra \in Seq(Item),
         task.does = "handle", t.next <= Len(task.message.elements), ~t.over,
         Encoded(extra) = Expected(task.message.elements[t.next])
  PROVE  TaskInv(task, Advanced(t, extra))
<1>0. t.next - 1 \in Nat /\ (t.next - 1) + 1 = t.next /\ t.answers \in Seq(Item) /\ Len(task.message.elements) \in Nat
  BY MessageOf DEF TaskState
<1>1. PICK u \in TaskState : /\ u = Advanced(t, extra) /\ u.next = t.next + 1 /\ u.answers = t.answers \o extra
                             /\ u.running = FALSE /\ u.over = t.over
  BY AdvancedIs
<1>2. Encoded(u.answers) = Encoded(t.answers) \o Encoded(extra)
  BY <1>0, <1>1, EncodedConcat
<1>3. Encoded(t.answers) = FlattenSeq(ExpectedUpTo(task, t.next - 1))
  BY DEF TaskInv
<1>4. FlattenSeq(ExpectedUpTo(task, (t.next - 1) + 1))
        = FlattenSeq(ExpectedUpTo(task, t.next - 1)) \o Expected(task.message.elements[(t.next - 1) + 1])
  BY <1>0, ExpectedUpToNext
<1>5. u.next - 1 = t.next
  BY <1>0, <1>1
<1>6. Encoded(u.answers) = FlattenSeq(ExpectedUpTo(task, u.next - 1))
  BY <1>0, <1>2, <1>3, <1>4, <1>5
<1>7. u.next <= Len(task.message.elements) + 1
  BY <1>0, <1>1
<1>8. TaskInv(task, u)
  BY <1>1, <1>6, <1>7 DEF TaskInv
<1> QED BY <1>1, <1>8

-----------------------------------------------------------------------------
(* What a step of a task does *)

\* The task handles its next element, with the answers "extra" to it.
Advances(i, extra) ==
    /\ started[i].does = "handle" /\ tasks[i].next <= Len(started[i].message.elements)
    /\ ~tasks[i].over
    /\ Encoded(extra) = Expected(Current(i))
    /\ GoOn(i, extra)
    /\ IF IsResponse(Current(i)) THEN HandleResponse(Current(i)) ELSE calls' = calls
    /\ UNCHANGED <<readerVars, written>>

\* The handler for its next element runs.
Starts(i) ==
    /\ started[i].does = "handle" /\ tasks[i].next <= Len(started[i].message.elements)
    /\ ~tasks[i].over /\ Called(Current(i))
    /\ tasks' = [tasks EXCEPT ![i].running = TRUE]
    /\ UNCHANGED <<readerVars, calls, written>>

LEMMA TaskSteps ==
  ASSUME TypeOK, NEW i \in DOMAIN tasks, TaskInv(started[i], tasks[i]), TaskStep(i)
  PROVE  (\E extra \in Seq(Item) : Advances(i, extra)) \/ Starts(i) \/ EndTask(i)
<1>0. tasks[i] \in TaskState /\ started[i] \in Task
  BY TaskTypes
<1>1. Busy(i) => /\ started[i].does = "handle" /\ tasks[i].next <= Len(started[i].message.elements)
                 /\ ~tasks[i].over /\ Current(i) \in Elements
  <2> SUFFICES ASSUME Busy(i)
               PROVE  /\ started[i].does = "handle" /\ tasks[i].next <= Len(started[i].message.elements)
                      /\ ~tasks[i].over /\ Current(i) \in Elements
    OBVIOUS
  <2>1. started[i].does = "handle" /\ tasks[i].next <= Len(started[i].message.elements)
    BY DEF Busy
  <2>2. tasks[i].next \in Nat \ {0} /\ Len(started[i].message.elements) \in Nat
    BY <1>0, <2>1, MessageOf DEF TaskState
  <2>3. ~tasks[i].over
    BY <2>1, <2>2 DEF TaskInv
  <2>4. Current(i) \in Elements
    BY <1>0, <2>1, <2>2, MessageOf DEF Current
  <2> QED BY <2>1, <2>3, <2>4
<1>2. {"invalid request", "method not found", "invalid params"} \cup Outcomes \subseteq Codes
  BY DEF Codes
<1>3. CASE AnswerInvalid(i)
  <2>1. Busy(i) /\ IsInvalid(Current(i)) /\ Current(i) \in Elements
    BY <1>1, <1>3 DEF AnswerInvalid
  <2>2. PICK id \in Ids : id = IF Current(i).object THEN UsableId(Current(i)) ELSE "null"
    BY <2>1 DEF UsableId, Ids
  <2>3. Expected(Current(i)) = Reply(id, "invalid request") /\ ~IsResponse(Current(i))
    BY <2>1, <2>2, InvalidExpected
  <2>4. Reply(id, "invalid request") \in Seq(Item)
    BY <1>2, EncodedReply
  <2>5. Encoded(Reply(id, "invalid request")) = Reply(id, "invalid request")
    BY <1>2, EncodedReply DEF Writable
  <2>6. Advances(i, Reply(id, "invalid request"))
    BY <1>1, <1>3, <2>1, <2>2, <2>3, <2>5 DEF AnswerInvalid, Advances
  <2> QED BY <2>4, <2>6
<1>4. CASE TakeResponse(i)
  <2>1. Busy(i) /\ IsResponse(Current(i)) /\ Current(i) \in Elements
    BY <1>1, <1>4 DEF TakeResponse
  <2>2. Expected(Current(i)) = <<>>
    BY <2>1, ResponseExpected
  <2>3. Advances(i, <<>>)
    BY <1>1, <1>4, <2>1, <2>2, EncodedNothing DEF TakeResponse, Advances
  <2> QED BY <2>3, EncodedNothing
<1>5. CASE UnknownMethod(i)
  <2>1. Busy(i) /\ IsCall(Current(i)) /\ Current(i) \in Elements /\ Current(i).method \notin DOMAIN TableFor(Current(i))
    BY <1>1, <1>5 DEF UnknownMethod
  <2>2. PICK x \in Seq(Item) : x = ReplyTo(Current(i), "method not found") /\ Encoded(x) = Expected(Current(i))
    <3>1. Expected(Current(i)) = ReplyTo(Current(i), "method not found")
      BY <2>1, CallExpected
    <3> QED BY <1>2, <2>1, <3>1, ReplyToEncoded DEF Writable
  <2>3. ~IsResponse(Current(i))
    BY <2>1 DEF IsCall
  <2>4. Advances(i, x)
    BY <1>1, <1>5, <2>1, <2>2, <2>3 DEF UnknownMethod, Advances
  <2> QED BY <2>4
<1>6. CASE CallHandler(i)
  <2>1. Busy(i) /\ IsCall(Current(i)) /\ Current(i) \in Elements /\ Current(i).method \in DOMAIN TableFor(Current(i))
    BY <1>1, <1>6 DEF CallHandler
  <2>2. ~IsResponse(Current(i))
    BY <2>1 DEF IsCall
  <2>3. CASE FromDict(ParamsOf(Current(i)), <<TableFor(Current(i))[Current(i).method].type>>) = {}
    <3>1. PICK x \in Seq(Item) : x = ReplyTo(Current(i), "invalid params") /\ Encoded(x) = Expected(Current(i))
      <4>1. Expected(Current(i)) = ReplyTo(Current(i), "invalid params")
        BY <2>1, <2>3, CallExpected
      <4> QED BY <1>2, <2>1, <4>1, ReplyToEncoded DEF Writable
    <3>2. GoOn(i, x) /\ UNCHANGED <<readerVars, calls, written>>
      BY <1>6, <2>3, <3>1 DEF CallHandler
    <3>3. Advances(i, x)
      BY <1>1, <2>1, <2>2, <3>1, <3>2 DEF Advances
    <3> QED BY <3>3
  <2>4. CASE FromDict(ParamsOf(Current(i)), <<TableFor(Current(i))[Current(i).method].type>>) # {}
    <3>1. tasks' = [tasks EXCEPT ![i].running = TRUE] /\ UNCHANGED <<readerVars, calls, written>>
      BY <1>6, <2>4 DEF CallHandler
    <3>2. Starts(i)
      BY <1>1, <2>1, <2>4, <3>1 DEF Starts, Called
    <3> QED BY <3>2
  <2> QED BY <2>3, <2>4
<1>7. CASE HandlerReturns(i)
  <2>1. /\ tasks[i].running /\ started[i].does = "handle"
        /\ tasks[i].next <= Len(started[i].message.elements) /\ Called(Current(i))
    BY <1>7 DEF HandlerReturns, TaskInv, Current
  <2>2. Current(i) \in Elements /\ ~tasks[i].over
    <3>1. tasks[i].next \in Nat \ {0} /\ Len(started[i].message.elements) \in Nat
      BY <1>0, <2>1, MessageOf DEF TaskState
    <3> QED BY <1>0, <2>1, <3>1, MessageOf DEF Current, TaskInv
  <2>3. PICK code : code = TableFor(Current(i))[Current(i).method].ends
    OBVIOUS
  <2>4. code \in Codes
    BY <1>2, <2>1, <2>3, HandlersAssumption DEF Called, TableFor
  <2>5. PICK x \in Seq(Item) : x = ReplyTo(Current(i), code) /\ Encoded(x) = Expected(Current(i))
    <3>1. Expected(Current(i)) = ReplyTo(Current(i), Writable(code))
      BY <2>1, <2>2, <2>3, CallExpected DEF Called
    <3> QED BY <2>2, <2>4, <3>1, ReplyToEncoded
  <2>6. ~IsResponse(Current(i))
    BY <2>1 DEF Called, IsCall
  <2>7. Advances(i, x)
    BY <1>7, <2>1, <2>2, <2>3, <2>5, <2>6 DEF HandlerReturns, Advances
  <2> QED BY <2>7
<1> QED BY <1>3, <1>4, <1>5, <1>6, <1>7 DEF TaskStep

LEMMA AdvancesTo ==
  ASSUME TypeOK, NEW i \in DOMAIN tasks, NEW extra \in Seq(Item), Advances(i, extra)
  PROVE  /\ tasks' \in Seq(TaskState) /\ DOMAIN tasks' = DOMAIN tasks /\ Len(tasks') = Len(tasks)
         /\ tasks'[i] = Advanced(tasks[i], extra) /\ \A j \in DOMAIN tasks : j # i => tasks'[j] = tasks[j]
         /\ started' = started /\ written' = written
<1>0. tasks \in Seq(TaskState) /\ DOMAIN tasks = 1..Len(tasks) /\ tasks[i] \in TaskState
  BY TaskTypes
<1>1. tasks' = [tasks EXCEPT ![i] = Advanced(tasks[i], extra)]
  BY DEF Advances, GoOn
<1>2. PICK t \in TaskState : t = Advanced(tasks[i], extra)
  BY <1>0, AdvancedIs
<1>3. tasks' = [tasks EXCEPT ![i] = t]
  BY <1>1, <1>2
<1>4. tasks' \in Seq(TaskState) /\ Len(tasks') = Len(tasks)
  BY <1>0, <1>3, ExceptSeq
<1> QED BY <1>0, <1>2, <1>3, <1>4 DEF Advances, readerVars

LEMMA StartsTo ==
  ASSUME TypeOK, NEW i \in DOMAIN tasks, Starts(i)
  PROVE  /\ tasks' \in Seq(TaskState) /\ DOMAIN tasks' = DOMAIN tasks /\ Len(tasks') = Len(tasks)
         /\ tasks'[i] = [tasks[i] EXCEPT !.running = TRUE]
         /\ \A j \in DOMAIN tasks : j # i => tasks'[j] = tasks[j]
         /\ started' = started /\ written' = written /\ calls' = calls
<1>0. tasks \in Seq(TaskState) /\ DOMAIN tasks = 1..Len(tasks) /\ tasks[i] \in TaskState
  BY TaskTypes
<1>1. PICK t \in TaskState : t = [tasks[i] EXCEPT !.running = TRUE]
  BY <1>0 DEF TaskState
<1>2. tasks' = [tasks EXCEPT ![i] = t]
  BY <1>1 DEF Starts
<1>3. tasks' \in Seq(TaskState) /\ Len(tasks') = Len(tasks)
  BY <1>0, <1>2, ExceptSeq
<1> QED BY <1>0, <1>1, <1>2, <1>3 DEF Starts, readerVars

LEMMA EndsTo ==
  ASSUME TypeOK, NEW i \in DOMAIN tasks, EndTask(i)
  PROVE  /\ tasks' \in Seq(TaskState) /\ DOMAIN tasks' = DOMAIN tasks /\ Len(tasks') = Len(tasks)
         /\ tasks'[i] = [tasks[i] EXCEPT !.over = TRUE]
         /\ \A j \in DOMAIN tasks : j # i => tasks'[j] = tasks[j]
         /\ started' = started /\ calls' = calls
<1>0. tasks \in Seq(TaskState) /\ DOMAIN tasks = 1..Len(tasks) /\ tasks[i] \in TaskState
  BY TaskTypes
<1>1. PICK t \in TaskState : t = [tasks[i] EXCEPT !.over = TRUE]
  BY <1>0 DEF TaskState
<1>2. tasks' = [tasks EXCEPT ![i] = t]
  BY <1>1 DEF EndTask
<1>3. tasks' \in Seq(TaskState) /\ Len(tasks') = Len(tasks)
  BY <1>0, <1>2, ExceptSeq
<1> QED BY <1>0, <1>1, <1>2, <1>3 DEF EndTask, readerVars

LEMMA ReadsOnTo ==
  ASSUME TypeOK, ReadOn
  PROVE  /\ ReaderTypeOK' /\ tasks' \in Seq(TaskState) /\ Len(tasks') = Len(started')
         /\ DOMAIN tasks \subseteq DOMAIN tasks' /\ started' \in Seq(Task)
         /\ \A i \in DOMAIN tasks : tasks'[i] = tasks[i] /\ started'[i] = started[i]
         /\ \A i \in DOMAIN tasks' \ DOMAIN tasks : tasks'[i] = Fresh
         /\ calls' = calls /\ written' = written
<1>0. /\ tasks \in Seq(TaskState) /\ started \in Seq(Task) /\ Len(tasks) = Len(started) /\ Len(tasks) \in Nat
      /\ DOMAIN tasks = 1..Len(tasks) /\ DOMAIN started = 1..Len(tasks)
      /\ \A i \in DOMAIN tasks : tasks[i] \in TaskState
  BY TaskTypes
<1>1. ReaderTypeOK' /\ (started' = started \/ \E task \in Task : started' = Append(started, task))
  BY ReaderSteps DEF ReadOn, TypeOK
<1>2. /\ tasks' = [i \in DOMAIN started' |-> IF i \in DOMAIN tasks THEN tasks[i] ELSE Fresh]
      /\ calls' = calls /\ written' = written
  BY DEF ReadOn
<1>3. /\ started' \in Seq(Task) /\ DOMAIN started \subseteq DOMAIN started'
      /\ \A i \in DOMAIN started : started'[i] = started[i]
  <2>1. CASE started' = started
    BY <1>0, <2>1
  <2>2. CASE \E task \in Task : started' = Append(started, task)
    <3>1. PICK task \in Task : started' = Append(started, task)
      BY <2>2
    <3>2. started' \in Seq(Task) /\ Len(started') = Len(started) + 1 /\ \A j \in 1..Len(started) : started'[j] = started[j]
      BY <1>0, <3>1, AppendIs
    <3>3. DOMAIN started' = 1..(Len(started) + 1) /\ DOMAIN started = 1..Len(started) /\ Len(started) \in Nat
      BY <1>0, <3>2, SeqIs
    <3> QED BY <3>2, <3>3
  <2> QED BY <1>1, <2>1, <2>2
<1>4. DOMAIN started' = 1..Len(started') /\ Len(started') \in Nat
  BY <1>3, SeqIs
<1>5. \A i \in 1..Len(started') : tasks'[i] \in TaskState
  <2>1. Fresh \in TaskState
    BY EncodedNothing DEF Fresh, TaskState
  <2> QED BY <1>0, <1>2, <1>4, <2>1
<1>6. DOMAIN tasks' = 1..Len(started') /\ tasks' = [i \in 1..Len(started') |-> tasks'[i]]
  BY <1>2, <1>4
<1>7. tasks' \in Seq(TaskState) /\ Len(tasks') = Len(started')
  BY <1>4, <1>5, <1>6, FunctionIsSeq
<1>8. \A i \in DOMAIN tasks : i \in DOMAIN started' /\ i \in DOMAIN tasks' /\ tasks'[i] = tasks[i]
  BY <1>0, <1>2, <1>3
<1>9. \A i \in DOMAIN tasks' \ DOMAIN tasks : tasks'[i] = Fresh
  BY <1>2
<1> QED BY <1>0, <1>1, <1>2, <1>3, <1>7, <1>8, <1>9

\* What a task writes at its end is what its messages call for.
LEMMA AnswerIs ==
  ASSUME TypeOK, NEW i \in DOMAIN tasks, TaskInv(started[i], tasks[i]), EndTask(i)
  PROVE  /\ AnswerOf(i) = ExpectedAnswer(started[i])
         /\ AnswerOf(i) = <<>> \/ \E a \in [batch : BOOLEAN, items : Seq(Item)] : AnswerOf(i) = <<a>>
         /\ started[i].does = "handle" => tasks[i].next > Len(started[i].message.elements)
<1>0. tasks[i] \in TaskState /\ started[i] \in Task /\ ~tasks[i].running /\ ~Busy(i)
  BY TaskTypes DEF EndTask
<1>1. {"parse error", "invalid request"} \subseteq Codes /\ "null" \in Ids
  BY DEF Codes, Ids
<1>2. \A b \in BOOLEAN : \A s \in Seq(Item) : Answer(b, s) \in [batch : BOOLEAN, items : Seq(Item)]
  BY DEF Answer
<1>3. \A code \in {"parse error", "invalid request"} : Reply("null", code) \in Seq(Item)
  BY <1>1, EncodedReply
<1>4. CASE started[i].does = "report"
  <2>1. AnswerOf(i) = <<Answer(FALSE, Reply("null", started[i].code))>>
    BY <1>4 DEF AnswerOf
  <2>2. started[i].code \in {"parse error", "invalid request"}
    BY <1>0, <1>4 DEF Task
  <2>3. ExpectedAnswer(started[i]) = <<Answer(FALSE, Reply("null", started[i].code))>>
    BY <1>4, <2>2 DEF ExpectedAnswer
  <2> QED BY <1>2, <1>3, <1>4, <2>1, <2>2, <2>3
<1>5. CASE started[i].does = "handle"
  <2>1. /\ started[i].message \in Messages /\ started[i].message.elements \in Seq(Elements)
        /\ Len(started[i].message.elements) \in Nat
    BY <1>0, <1>5, MessageOf
  <2> PICK m : m = started[i].message
    OBVIOUS
  <2> PICK s : s = tasks[i].answers
    OBVIOUS
  <2>2. tasks[i].next = Len(m.elements) + 1 /\ s \in Seq(Item)
    <3>1. PICK next, length \in Nat : next = tasks[i].next /\ length = Len(m.elements)
      BY <1>0, <2>1 DEF TaskState
    <3>2. ~(next <= length)
      BY <1>0, <1>5, <3>1 DEF Busy
    <3>3. next <= length + 1
      BY <1>5, <3>1 DEF TaskInv
    <3>4. next = length + 1
      BY <3>2, <3>3
    <3>5. s \in Seq(Item)
      BY <1>0 DEF TaskState
    <3> QED BY <3>1, <3>4, <3>5
  <2>a. tasks[i].next > Len(started[i].message.elements)
    <3>1. PICK length \in Nat : length = Len(m.elements)
      BY <2>1
    <3>2. tasks[i].next = length + 1
      BY <2>2, <3>1
    <3>3. length + 1 > length
      OBVIOUS
    <3> QED BY <3>1, <3>2, <3>3
  <2>3. DOMAIN m.elements = 1..Len(m.elements)
    BY <2>1, SeqIs
  <2>4. PICK items : items = FlattenSeq([j \in DOMAIN m.elements |-> Expected(m.elements[j])])
    OBVIOUS
  <2>5. Encoded(s) = items
    <3>1. tasks[i].next - 1 = Len(m.elements)
      BY <2>1, <2>2
    <3>2. Encoded(s) = FlattenSeq(ExpectedUpTo(started[i], Len(m.elements)))
      BY <1>5, <3>1 DEF TaskInv
    <3>3. ExpectedUpTo(started[i], Len(m.elements)) = [j \in DOMAIN m.elements |-> Expected(m.elements[j])]
      BY <2>3 DEF ExpectedUpTo
    <3> QED BY <2>4, <3>2, <3>3
  <2>6. Encoded(s) \in Seq(Item) /\ Len(Encoded(s)) = Len(s)
    BY <2>2, EncodedType
  <2>7. items = <<>> <=> s = <<>>
    <3>1. s = <<>> => items = <<>>
      BY <2>5, EncodedNothing
    <3>2. items = <<>> => Len(s) = 0
      BY <2>5, <2>6
    <3> QED BY <2>2, <3>1, <3>2, EmptySeq
  <2>8. CASE m.form = "text"
    <3>1. AnswerOf(i) = <<Answer(FALSE, Reply("null", "parse error"))>>
      BY <1>5, <2>8 DEF AnswerOf
    <3>2. ExpectedAnswer(started[i]) = <<Answer(FALSE, Reply("null", "parse error"))>>
      BY <1>5, <2>8 DEF ExpectedAnswer
    <3>3. PICK a \in [batch : BOOLEAN, items : Seq(Item)] : a = Answer(FALSE, Reply("null", "parse error"))
      BY <1>2, <1>3
    <3>4. AnswerOf(i) = <<a>> /\ ExpectedAnswer(started[i]) = <<a>>
      BY <3>1, <3>2, <3>3
    <3> QED BY <2>a, <3>4
  <2>9. CASE m.form = "batch" /\ m.elements = <<>>
    <3>1. AnswerOf(i) = <<Answer(FALSE, Reply("null", "invalid request"))>>
      BY <1>5, <2>9 DEF AnswerOf
    <3>2. ExpectedAnswer(started[i]) = <<Answer(FALSE, Reply("null", "invalid request"))>>
      BY <1>5, <2>9 DEF ExpectedAnswer
    <3>3. PICK a \in [batch : BOOLEAN, items : Seq(Item)] : a = Answer(FALSE, Reply("null", "invalid request"))
      BY <1>2, <1>3
    <3>4. AnswerOf(i) = <<a>> /\ ExpectedAnswer(started[i]) = <<a>>
      BY <3>1, <3>2, <3>3
    <3> QED BY <2>a, <3>4
  <2>10. CASE m.form # "text" /\ ~(m.form = "batch" /\ m.elements = <<>>)
    <3>1. AnswerOf(i) = IF s = <<>> THEN <<>> ELSE <<Answer(m.form = "batch", Encoded(s))>>
      BY <1>5, <2>10 DEF AnswerOf
    <3>2. ExpectedAnswer(started[i]) = IF items = <<>> THEN <<>> ELSE <<Answer(m.form = "batch", items)>>
      BY <1>5, <2>4, <2>10 DEF ExpectedAnswer
    <3>3. AnswerOf(i) = ExpectedAnswer(started[i])
      BY <2>5, <2>7, <3>1, <3>2
    <3>4. (m.form = "batch") \in BOOLEAN
      OBVIOUS
    <3>5. Answer(m.form = "batch", Encoded(s)) \in [batch : BOOLEAN, items : Seq(Item)]
      BY <1>2, <2>6, <3>4
    <3>6. AnswerOf(i) = <<>> \/ \E a \in [batch : BOOLEAN, items : Seq(Item)] : AnswerOf(i) = <<a>>
      BY <3>1, <3>5
    <3> QED BY <2>a, <3>3, <3>6
  <2> QED BY <2>8, <2>9, <2>10
<1> QED BY <1>0, <1>4, <1>5 DEF Task

\* A task that went on is in a state of its kind again.
LEMMA TaskStepInv ==
  ASSUME TypeOK, TasksInv, NEW i \in DOMAIN tasks, TaskStep(i)
  PROVE  TypeOK' /\ TasksInv'
<1>0. /\ tasks[i] \in TaskState /\ started[i] \in Task /\ TaskInv(started[i], tasks[i])
      /\ tasks \in Seq(TaskState) /\ written \in Seq([batch : BOOLEAN, items : Seq(Item)])
      /\ calls \in [Waiting -> {"waiting", "invalid version", "error", "invalid response", "result"}]
      /\ Len(tasks) = Len(started)
  BY TaskTypes DEF TasksInv
<1>1. ASSUME tasks' \in Seq(TaskState), Len(tasks') = Len(tasks), UNCHANGED readerVars,
             written' \in Seq([batch : BOOLEAN, items : Seq(Item)]),
             calls' \in [Waiting -> {"waiting", "invalid version", "error", "invalid response", "result"}]
      PROVE  TypeOK'
  BY <1>0, <1>1 DEF TypeOK, ReaderTypeOK, readerVars, TaskState
<1>2. ASSUME DOMAIN tasks' = DOMAIN tasks, started' = started, TaskInv(started[i], tasks'[i]),
             \A j \in DOMAIN tasks : j # i => tasks'[j] = tasks[j]
      PROVE  TasksInv'
  <2>1. \A j \in DOMAIN tasks : TaskInv(started[j], tasks'[j])
    BY <1>2 DEF TasksInv
  <2> QED BY <1>2, <2>1 DEF TasksInv
<1>3. CASE \E extra \in Seq(Item) : Advances(i, extra)
  <2>1. PICK extra \in Seq(Item) : Advances(i, extra)
    BY <1>3
  <2>2. /\ tasks' \in Seq(TaskState) /\ DOMAIN tasks' = DOMAIN tasks /\ Len(tasks') = Len(tasks)
        /\ tasks'[i] = Advanced(tasks[i], extra) /\ \A j \in DOMAIN tasks : j # i => tasks'[j] = tasks[j]
        /\ started' = started /\ written' = written
    BY <2>1, AdvancesTo
  <2>3. /\ started[i].does = "handle" /\ tasks[i].next <= Len(started[i].message.elements) /\ ~tasks[i].over
        /\ Encoded(extra) = Expected(started[i].message.elements[tasks[i].next]) /\ UNCHANGED readerVars
    BY <2>1 DEF Advances, Current
  <2>4. TaskInv(started[i], Advanced(tasks[i], extra))
    BY <1>0, <2>3, AdvancedInv
  <2>5. calls' \in [Waiting -> {"waiting", "invalid version", "error", "invalid response", "result"}]
    <3>1. Verdict(Current(i)) \in {"waiting", "invalid version", "error", "invalid response", "result"}
      BY DEF Verdict
    <3> QED BY <1>0, <2>1, <3>1 DEF Advances, HandleResponse
  <2> QED BY <1>0, <1>1, <1>2, <2>2, <2>3, <2>4, <2>5
<1>4. CASE Starts(i)
  <2>1. /\ tasks' \in Seq(TaskState) /\ DOMAIN tasks' = DOMAIN tasks /\ Len(tasks') = Len(tasks)
        /\ tasks'[i] = [tasks[i] EXCEPT !.running = TRUE] /\ \A j \in DOMAIN tasks : j # i => tasks'[j] = tasks[j]
        /\ started' = started /\ written' = written /\ calls' = calls
    BY <1>4, StartsTo
  <2>2. PICK t : t = [tasks[i] EXCEPT !.running = TRUE]
    OBVIOUS
  <2>3. t.next = tasks[i].next /\ t.answers = tasks[i].answers /\ t.running = TRUE /\ t.over = tasks[i].over
    BY <1>0, <2>2 DEF TaskState
  <2>4. TaskInv(started[i], t)
    BY <1>0, <1>4, <2>3 DEF TaskInv, Starts, Current
  <2> QED BY <1>0, <1>1, <1>2, <1>4, <2>1, <2>2, <2>4 DEF Starts
<1>5. CASE EndTask(i)
  <2>1. /\ tasks' \in Seq(TaskState) /\ DOMAIN tasks' = DOMAIN tasks /\ Len(tasks') = Len(tasks)
        /\ tasks'[i] = [tasks[i] EXCEPT !.over = TRUE] /\ \A j \in DOMAIN tasks : j # i => tasks'[j] = tasks[j]
        /\ started' = started /\ calls' = calls
    BY <1>5, EndsTo
  <2>2. PICK t : t = [tasks[i] EXCEPT !.over = TRUE]
    OBVIOUS
  <2>3. t.next = tasks[i].next /\ t.answers = tasks[i].answers /\ t.running = tasks[i].running /\ t.over = TRUE
    BY <1>0, <2>2 DEF TaskState
  <2>4. /\ AnswerOf(i) = <<>> \/ \E a \in [batch : BOOLEAN, items : Seq(Item)] : AnswerOf(i) = <<a>>
        /\ started[i].does = "handle" => tasks[i].next > Len(started[i].message.elements)
    BY <1>0, <1>5, AnswerIs
  <2>5. TaskInv(started[i], t)
    BY <1>0, <1>5, <2>3, <2>4 DEF TaskInv, EndTask
  <2>6. written' \in Seq([batch : BOOLEAN, items : Seq(Item)])
    <3>1. AnswerOf(i) \in Seq([batch : BOOLEAN, items : Seq(Item)])
      BY <2>4, OneIsSeq, EmptySeq
    <3> QED BY <1>0, <1>5, <3>1, ConcatProperties DEF EndTask
  <2> QED BY <1>0, <1>1, <1>2, <1>5, <2>1, <2>2, <2>5, <2>6 DEF EndTask
<1> QED BY <1>0, <1>3, <1>4, <1>5, TaskSteps

LEMMA ReadOnInv ==
  ASSUME TypeOK, TasksInv, ReadOn
  PROVE  TypeOK' /\ TasksInv'
<1>1. /\ ReaderTypeOK' /\ tasks' \in Seq(TaskState) /\ Len(tasks') = Len(started')
      /\ DOMAIN tasks \subseteq DOMAIN tasks' /\ started' \in Seq(Task)
      /\ \A i \in DOMAIN tasks : tasks'[i] = tasks[i] /\ started'[i] = started[i]
      /\ \A i \in DOMAIN tasks' \ DOMAIN tasks : tasks'[i] = Fresh
      /\ calls' = calls /\ written' = written
  BY ReadsOnTo
<1>2. TypeOK'
  BY <1>1, TaskTypes DEF TypeOK, TaskState
<1>3. DOMAIN tasks' = 1..Len(tasks') /\ \A i \in 1..Len(tasks') : started'[i] \in Task
  BY <1>1, SeqIs
<1>4. \A i \in DOMAIN tasks' : TaskInv(started'[i], tasks'[i])
  <2>1. \A i \in DOMAIN tasks : TaskInv(started'[i], tasks'[i])
    BY <1>1 DEF TasksInv
  <2>2. \A i \in DOMAIN tasks' \ DOMAIN tasks : TaskInv(started'[i], tasks'[i])
    BY <1>1, <1>3, FreshInv
  <2> QED BY <2>1, <2>2
<1> QED BY <1>2, <1>4 DEF TasksInv

-----------------------------------------------------------------------------
(* The answers on the connection *)

\* The tasks that are over and had something to answer; the answers are theirs, one each.
Owed == {i \in DOMAIN tasks : tasks[i].over /\ ExpectedAnswer(started[i]) # <<>>}

AnswersOf(task, tasksOwed) ==
    /\ task \in [DOMAIN written -> tasksOwed]
    /\ \A k, l \in DOMAIN written : task[k] = task[l] => k = l
    /\ \A i \in tasksOwed : \E k \in DOMAIN written : task[k] = i
    /\ \A k \in DOMAIN written : ExpectedAnswer(started[task[k]]) = <<written[k]>>

AnsweredInv == \E task : AnswersOf(task, Owed)

LEMMA SameAnswers ==
  ASSUME TypeOK, AnsweredInv, written' = written, Owed' = Owed,
         \A i \in DOMAIN tasks : started'[i] = started[i]
  PROVE  AnsweredInv'
<1>1. PICK task : AnswersOf(task, Owed)
  BY DEF AnsweredInv
<1>2. \A k \in DOMAIN written : task[k] \in DOMAIN tasks
  BY <1>1 DEF AnswersOf, Owed
<1>3. AnswersOf(task, Owed)'
  BY <1>1, <1>2 DEF AnswersOf
<1> QED BY <1>3 DEF AnsweredInv

LEMMA EndTaskAnswered ==
  ASSUME TypeOK, TasksInv, AnsweredInv, NEW i \in DOMAIN tasks, EndTask(i)
  PROVE  AnsweredInv'
<1>0. /\ written \in Seq([batch : BOOLEAN, items : Seq(Item)]) /\ tasks[i] \in TaskState
      /\ TaskInv(started[i], tasks[i]) /\ ~tasks[i].over
  BY TaskTypes DEF TasksInv, EndTask
<1>1. /\ AnswerOf(i) = ExpectedAnswer(started[i])
      /\ AnswerOf(i) = <<>> \/ \E a \in [batch : BOOLEAN, items : Seq(Item)] : AnswerOf(i) = <<a>>
  BY <1>0, AnswerIs
<1>2. /\ DOMAIN tasks' = DOMAIN tasks /\ tasks'[i] = [tasks[i] EXCEPT !.over = TRUE]
      /\ \A j \in DOMAIN tasks : j # i => tasks'[j] = tasks[j]
      /\ started' = started /\ written' = written \o AnswerOf(i)
  BY EndsTo DEF EndTask
<1>3. tasks'[i].over = TRUE
  BY <1>0, <1>2 DEF TaskState
<1>4. i \notin Owed
  BY <1>0 DEF Owed
<1>5. CASE AnswerOf(i) = <<>>
  <2>1. written' = written
    BY <1>0, <1>2, <1>5, ConcatEmptySeq
  <2>2. Owed' = Owed
    BY <1>1, <1>2, <1>3, <1>5 DEF Owed
  <2> QED BY <1>2, <2>1, <2>2, SameAnswers
<1>6. CASE \E a \in [batch : BOOLEAN, items : Seq(Item)] : AnswerOf(i) = <<a>>
  <2>1. PICK a \in [batch : BOOLEAN, items : Seq(Item)] : AnswerOf(i) = <<a>>
    BY <1>6
  <2>2. AnswerOf(i) # <<>>
    BY <2>1
  <2>3. Owed' = Owed \cup {i}
    BY <1>1, <1>2, <1>3, <2>2 DEF Owed
  <2>4. PICK n \in Nat : n = Len(written) /\ DOMAIN written = 1..n
    BY <1>0
  <2>5. DOMAIN written' = 1..(n + 1) /\ written'[n + 1] = a /\ \A k \in 1..n : written'[k] = written[k]
    <3>1. PICK u : u = Append(written, a)
      OBVIOUS
    <3>2. u = written \o <<a>>
      BY <1>0, <2>1, <3>1, AppendIsConcat
    <3>3. u \in Seq([batch : BOOLEAN, items : Seq(Item)]) /\ Len(u) = n + 1 /\ u[n + 1] = a
          /\ \A k \in 1..n : u[k] = written[k]
      BY <1>0, <2>1, <2>4, <3>1, AppendIs
    <3>4. DOMAIN u = 1..(n + 1)
      BY <3>3, SeqIs
    <3> QED BY <1>2, <2>1, <3>2, <3>3, <3>4
  <2>6. PICK task : AnswersOf(task, Owed)
    BY DEF AnsweredInv
  <2>7. /\ task \in [1..n -> Owed] /\ \A k, l \in 1..n : task[k] = task[l] => k = l
        /\ \A j \in Owed : \E k \in 1..n : task[k] = j
        /\ \A k \in 1..n : ExpectedAnswer(started[task[k]]) = <<written[k]>>
    BY <2>4, <2>6 DEF AnswersOf
  <2>8. PICK more : more = [k \in 1..(n + 1) |-> IF k = n + 1 THEN i ELSE task[k]]
    OBVIOUS
  <2>9. more[n + 1] = i /\ \A k \in 1..n : more[k] = task[k] /\ more[k] \in Owed
    BY <2>7, <2>8
  <2>10. \A k \in 1..(n + 1) : k = n + 1 \/ k \in 1..n
    OBVIOUS
  <2>11. more \in [1..(n + 1) -> Owed \cup {i}]
    BY <2>8, <2>9, <2>10
  <2>12. \A k, l \in 1..(n + 1) : more[k] = more[l] => k = l
    BY <1>4, <2>7, <2>9, <2>10
  <2>13. \A j \in Owed \cup {i} : \E k \in 1..(n + 1) : more[k] = j
    <3>1. n + 1 \in 1..(n + 1) /\ 1..n \subseteq 1..(n + 1)
      OBVIOUS
    <3> QED BY <2>7, <2>9, <3>1
  <2>14. \A k \in 1..(n + 1) : ExpectedAnswer(started[more[k]]) = <<written'[k]>>
    <3>1. ExpectedAnswer(started[i]) = <<a>>
      BY <1>1, <2>1
    <3> QED BY <2>5, <2>7, <2>9, <2>10, <3>1
  <2>15. \A k \in 1..(n + 1) : ExpectedAnswer(started'[more[k]]) = <<written'[k]>>
    BY <1>2, <2>14
  <2>16. AnswersOf(more, Owed)'
    <3>1. more \in [DOMAIN written' -> Owed']
      BY <2>3, <2>5, <2>11
    <3> QED BY <2>3, <2>5, <2>12, <2>13, <2>15, <3>1 DEF AnswersOf
  <2> QED BY <2>16 DEF AnsweredInv
<1> QED BY <1>1, <1>5, <1>6

LEMMA OthersAnswered ==
  ASSUME TypeOK, TasksInv, AnsweredInv,
         ReadOn \/ \E i \in DOMAIN tasks : Starts(i) \/ \E extra \in Seq(Item) : Advances(i, extra)
  PROVE  AnsweredInv'
<1>1. CASE ReadOn
  <2>1. /\ DOMAIN tasks \subseteq DOMAIN tasks' /\ written' = written
        /\ \A i \in DOMAIN tasks : tasks'[i] = tasks[i] /\ started'[i] = started[i]
        /\ \A i \in DOMAIN tasks' \ DOMAIN tasks : tasks'[i] = Fresh
    BY <1>1, ReadsOnTo
  <2>2. Owed' = Owed
    BY <2>1 DEF Owed, Fresh
  <2> QED BY <2>1, <2>2, SameAnswers
<1>2. ASSUME NEW i \in DOMAIN tasks, NEW extra \in Seq(Item), Advances(i, extra)
      PROVE  AnsweredInv'
  <2>1. /\ DOMAIN tasks' = DOMAIN tasks /\ tasks'[i] = Advanced(tasks[i], extra)
        /\ \A j \in DOMAIN tasks : j # i => tasks'[j] = tasks[j]
        /\ started' = started /\ written' = written /\ tasks[i] \in TaskState
    BY <1>2, AdvancesTo, TaskTypes
  <2>2. tasks'[i].over = tasks[i].over
    <3>1. Advanced(tasks[i], extra).over = tasks[i].over
      BY <2>1, AdvancedIs
    <3> QED BY <2>1, <3>1
  <2>3. Owed' = Owed
    BY <2>1, <2>2 DEF Owed
  <2> QED BY <2>1, <2>3, SameAnswers
<1>3. ASSUME NEW i \in DOMAIN tasks, Starts(i)
      PROVE  AnsweredInv'
  <2>1. /\ DOMAIN tasks' = DOMAIN tasks /\ tasks'[i] = [tasks[i] EXCEPT !.running = TRUE]
        /\ \A j \in DOMAIN tasks : j # i => tasks'[j] = tasks[j]
        /\ started' = started /\ written' = written /\ tasks[i] \in TaskState
    BY <1>3, StartsTo, TaskTypes
  <2>2. tasks'[i].over = tasks[i].over
    BY <2>1 DEF TaskState
  <2>3. Owed' = Owed
    BY <2>1, <2>2 DEF Owed
  <2> QED BY <2>1, <2>3, SameAnswers
<1> QED BY <1>1, <1>2, <1>3

-----------------------------------------------------------------------------
(* The waiting requests *)

\* A waiting request has no response among the elements that were handled, and one that was
\* settled has got the first response in some message.
SettledInv ==
    \A id \in Waiting :
        /\ calls[id] = "waiting" =>
            \A i \in DOMAIN tasks : \A j \in ResponsesFor(id, started[i]) : tasks[i].next <= j
        /\ calls[id] # "waiting" =>
            \E i \in DOMAIN tasks : \E j \in ResponsesFor(id, started[i]) :
                /\ \A k \in ResponsesFor(id, started[i]) : j <= k
                /\ calls[id] = Verdict(started[i].message.elements[j])

LEMMA ResponsesType ==
  ASSUME NEW task \in Task, NEW id
  PROVE  /\ ResponsesFor(id, task) \subseteq Nat
         /\ ResponsesFor(id, task) # {} => task.does = "handle"
         /\ \A j \in ResponsesFor(id, task) : j \in 1..Len(task.message.elements)
<1>1. CASE task.does = "report"
  BY <1>1 DEF ResponsesFor
<1>2. CASE task.does = "handle"
  <2>1. DOMAIN task.message.elements = 1..Len(task.message.elements) /\ Len(task.message.elements) \in Nat
    BY <1>2, MessageOf
  <2> QED BY <1>2, <2>1 DEF ResponsesFor
<1> QED BY <1>1, <1>2 DEF Task

\* Nothing happens to the calls, and no task leaves a response behind.
LEMMA SameCalls ==
  ASSUME SettledInv, calls' = calls, DOMAIN tasks \subseteq DOMAIN tasks',
         \A i \in DOMAIN tasks : started'[i] = started[i],
         \A id \in Waiting : \A i \in DOMAIN tasks' : \A j \in ResponsesFor(id, started'[i]) :
            calls[id] = "waiting" /\ (i \in DOMAIN tasks => tasks[i].next <= j) => tasks'[i].next <= j
  PROVE  SettledInv'
<1> SUFFICES ASSUME NEW id \in Waiting
             PROVE  /\ calls'[id] = "waiting" =>
                        \A i \in DOMAIN tasks' : \A j \in ResponsesFor(id, started'[i]) : tasks'[i].next <= j
                    /\ calls'[id] # "waiting" =>
                        \E i \in DOMAIN tasks' : \E j \in ResponsesFor(id, started'[i]) :
                            /\ \A k \in ResponsesFor(id, started'[i]) : j <= k
                            /\ calls'[id] = Verdict(started'[i].message.elements[j])
  BY DEF SettledInv
<1>1. CASE calls[id] = "waiting"
  <2>1. \A i \in DOMAIN tasks : \A j \in ResponsesFor(id, started'[i]) : tasks[i].next <= j
    BY <1>1 DEF SettledInv
  <2> QED BY <1>1, <2>1
<1>2. CASE calls[id] # "waiting"
  <2>1. PICK i \in DOMAIN tasks : \E j \in ResponsesFor(id, started[i]) :
            /\ \A k \in ResponsesFor(id, started[i]) : j <= k
            /\ calls[id] = Verdict(started[i].message.elements[j])
    BY <1>2 DEF SettledInv
  <2> QED BY <1>2, <2>1
<1> QED BY <1>1, <1>2

LEMMA AdvanceSettles ==
  ASSUME TypeOK, TasksInv, SettledInv, NEW i \in DOMAIN tasks, NEW extra \in Seq(Item), Advances(i, extra)
  PROVE  SettledInv'
<1>1. /\ DOMAIN tasks' = DOMAIN tasks /\ tasks'[i] = Advanced(tasks[i], extra)
      /\ \A j \in DOMAIN tasks : j # i => tasks'[j] = tasks[j]
      /\ started' = started
  BY AdvancesTo
<1>2. /\ \A j \in DOMAIN tasks : tasks[j] \in TaskState /\ started[j] \in Task
      /\ calls \in [Waiting -> {"waiting", "invalid version", "error", "invalid response", "result"}]
  BY TaskTypes
<1>3. PICK n \in Nat \ {0} : n = tasks[i].next
  BY <1>2 DEF TaskState
<1>4. tasks'[i].next = n + 1
  <2>1. Advanced(tasks[i], extra).next = tasks[i].next + 1
    BY <1>2, AdvancedIs
  <2> QED BY <1>1, <1>3, <2>1
<1>5. PICK e : e = Current(i) /\ e = started[i].message.elements[n]
  BY <1>3 DEF Current
<1>6. \A id : n \in ResponsesFor(id, started[i]) <=> IsResponse(e) /\ e.id = id
  <2>1. started[i].does = "handle" /\ n <= Len(started[i].message.elements)
    BY <1>3 DEF Advances
  <2>2. started[i].message.elements \in Seq(Elements)
    BY <1>2, <2>1, MessageOf
  <2>3. n \in DOMAIN started[i].message.elements
    BY <2>1, <2>2, SeqIs
  <2> QED BY <1>5, <2>1, <2>3 DEF ResponsesFor
<1>7. \A id : ResponsesFor(id, started[i]) \subseteq Nat
  BY <1>2, ResponsesType
<1>8. CASE IsResponse(e) /\ e.id \in Waiting /\ calls[e.id] = "waiting"
  <2>1. calls' = [calls EXCEPT ![e.id] = Verdict(e)]
    BY <1>5, <1>8 DEF Advances, HandleResponse
  <2>2. calls'[e.id] = Verdict(e) /\ Verdict(e) # "waiting" /\ \A id \in Waiting : id # e.id => calls'[id] = calls[id]
    <3>1. Verdict(e) # "waiting"
      BY DEF Verdict
    <3> QED BY <1>2, <1>8, <2>1, <3>1
  <2> SUFFICES ASSUME NEW id \in Waiting
               PROVE  /\ calls'[id] = "waiting" =>
                          \A k \in DOMAIN tasks' : \A j \in ResponsesFor(id, started'[k]) : tasks'[k].next <= j
                      /\ calls'[id] # "waiting" =>
                          \E k \in DOMAIN tasks' : \E j \in ResponsesFor(id, started'[k]) :
                              /\ \A l \in ResponsesFor(id, started'[k]) : j <= l
                              /\ calls'[id] = Verdict(started'[k].message.elements[j])
    BY DEF SettledInv
  <2>3. CASE id = e.id
    <3>1. n \in ResponsesFor(id, started[i])
      BY <1>6, <1>8, <2>3
    <3>2. \A j \in ResponsesFor(id, started[i]) : n <= j
      BY <1>3, <1>8, <2>3 DEF SettledInv
    <3>3. calls'[id] = Verdict(started[i].message.elements[n])
      BY <1>5, <2>2, <2>3
    <3> QED BY <1>1, <2>2, <2>3, <3>1, <3>2, <3>3
  <2>4. CASE id # e.id /\ calls[id] = "waiting"
    <3>1. n \notin ResponsesFor(id, started[i])
      BY <1>6, <2>4
    <3>2. \A j \in ResponsesFor(id, started[i]) : n <= j /\ j \in Nat
      BY <1>3, <1>7, <2>4 DEF SettledInv
    <3>3. \A j \in ResponsesFor(id, started[i]) : n + 1 <= j
      BY <3>1, <3>2
    <3>4. \A k \in DOMAIN tasks : \A j \in ResponsesFor(id, started[k]) : tasks[k].next <= j
      BY <2>4 DEF SettledInv
    <3>5. \A k \in DOMAIN tasks : \A j \in ResponsesFor(id, started[k]) : tasks'[k].next <= j
      BY <1>1, <1>4, <3>3, <3>4
    <3> QED BY <1>1, <2>2, <2>4, <3>5
  <2>5. CASE id # e.id /\ calls[id] # "waiting"
    <3>1. PICK k \in DOMAIN tasks : \E j \in ResponsesFor(id, started[k]) :
              /\ \A l \in ResponsesFor(id, started[k]) : j <= l
              /\ calls[id] = Verdict(started[k].message.elements[j])
      BY <2>5 DEF SettledInv
    <3> QED BY <1>1, <2>2, <2>5, <3>1
  <2> QED BY <2>3, <2>4, <2>5
<1>9. CASE ~(IsResponse(e) /\ e.id \in Waiting /\ calls[e.id] = "waiting")
  <2>1. calls' = calls
    BY <1>5, <1>9 DEF Advances, HandleResponse
  <2>2. ASSUME NEW id \in Waiting, NEW k \in DOMAIN tasks, NEW j \in ResponsesFor(id, started[k]),
               calls[id] = "waiting", tasks[k].next <= j
        PROVE  tasks'[k].next <= j
    <3>1. CASE k = i
      <4>1. n \notin ResponsesFor(id, started[i])
        BY <1>6, <1>9, <2>2
      <4>2. j # n /\ n <= j /\ j \in Nat
        BY <1>3, <1>7, <2>2, <3>1, <4>1
      <4> QED BY <1>4, <3>1, <4>2
    <3>2. CASE k # i
      BY <1>1, <2>2, <3>2
    <3> QED BY <3>1, <3>2
  <2> QED BY <1>1, <2>1, <2>2, SameCalls
<1> QED BY <1>8, <1>9

LEMMA OthersSettle ==
  ASSUME TypeOK, SettledInv, ReadOn \/ \E i \in DOMAIN tasks : Starts(i) \/ EndTask(i)
  PROVE  SettledInv'
<1>1. CASE ReadOn
  <2>1. /\ DOMAIN tasks \subseteq DOMAIN tasks' /\ calls' = calls
        /\ \A i \in DOMAIN tasks : tasks'[i] = tasks[i] /\ started'[i] = started[i]
        /\ \A i \in DOMAIN tasks' \ DOMAIN tasks : tasks'[i] = Fresh
        /\ started' \in Seq(Task) /\ DOMAIN tasks' = DOMAIN started'
    <3>1. tasks' \in Seq(TaskState) /\ Len(tasks') = Len(started') /\ started' \in Seq(Task)
      BY <1>1, ReadsOnTo
    <3> QED BY <1>1, <3>1, ReadsOnTo, SeqIs
  <2>2. ASSUME NEW id \in Waiting, NEW i \in DOMAIN tasks' \ DOMAIN tasks, NEW j \in ResponsesFor(id, started'[i])
        PROVE  tasks'[i].next <= j
    <3>1. started'[i] \in Task
      BY <2>1
    <3>2. j \in 1..Len(started'[i].message.elements)
      BY <2>2, <3>1, ResponsesType
    <3> QED BY <2>1, <3>2 DEF Fresh
  <2> QED BY <2>1, <2>2, SameCalls
<1>2. ASSUME NEW i \in DOMAIN tasks, Starts(i) PROVE SettledInv'
  <2>1. /\ DOMAIN tasks' = DOMAIN tasks /\ tasks'[i] = [tasks[i] EXCEPT !.running = TRUE]
        /\ \A j \in DOMAIN tasks : j # i => tasks'[j] = tasks[j]
        /\ started' = started /\ calls' = calls /\ tasks[i] \in TaskState
    BY <1>2, StartsTo, TaskTypes
  <2>2. \A j \in DOMAIN tasks : tasks'[j].next = tasks[j].next
    BY <2>1 DEF TaskState
  <2> QED BY <2>1, <2>2, SameCalls
<1>3. ASSUME NEW i \in DOMAIN tasks, EndTask(i) PROVE SettledInv'
  <2>1. /\ DOMAIN tasks' = DOMAIN tasks /\ tasks'[i] = [tasks[i] EXCEPT !.over = TRUE]
        /\ \A j \in DOMAIN tasks : j # i => tasks'[j] = tasks[j]
        /\ started' = started /\ calls' = calls /\ tasks[i] \in TaskState
    BY <1>3, EndsTo, TaskTypes
  <2>2. \A j \in DOMAIN tasks : tasks'[j].next = tasks[j].next
    BY <2>1 DEF TaskState
  <2> QED BY <2>1, <2>2, SameCalls
<1> QED BY <1>1, <1>2, <1>3

-----------------------------------------------------------------------------
(* The inductive invariant *)

IInv == TypeOK /\ TasksInv /\ AnsweredInv /\ SettledInv

LEMMA IInvStarts == DispatchInit => IInv
<1> SUFFICES ASSUME DispatchInit PROVE IInv
  OBVIOUS
<1>1. /\ ReaderTypeOK /\ started = <<>> /\ tasks = <<>> /\ written = <<>>
      /\ calls = [id \in Waiting |-> "waiting"]
  BY ReaderStart DEF DispatchInit
<1>2. TypeOK /\ TasksInv
  BY <1>1 DEF TypeOK, TasksInv
<1>3. AnsweredInv
  <2>1. Owed = {} /\ DOMAIN written = {}
    BY <1>1 DEF Owed
  <2>2. AnswersOf([k \in {} |-> 0], Owed)
    BY <2>1 DEF AnswersOf
  <2> QED BY <2>2 DEF AnsweredInv
<1>4. SettledInv
  BY <1>1 DEF SettledInv
<1> QED BY <1>2, <1>3, <1>4 DEF IInv

LEMMA IInvKept == IInv /\ [Next]_vars => IInv'
<1> SUFFICES ASSUME TypeOK, TasksInv, AnsweredInv, SettledInv, [Next]_vars PROVE IInv'
  BY DEF IInv
<1>1. CASE ReadOn
  BY <1>1, ReadOnInv, OthersAnswered, OthersSettle DEF IInv
<1>2. ASSUME NEW i \in DOMAIN tasks, TaskStep(i) PROVE IInv'
  <2>1. TypeOK' /\ TasksInv'
    BY <1>2, TaskStepInv
  <2>2. (\E extra \in Seq(Item) : Advances(i, extra)) \/ Starts(i) \/ EndTask(i)
    BY <1>2, TaskSteps DEF TasksInv
  <2>3. AnsweredInv'
    BY <2>2, EndTaskAnswered, OthersAnswered
  <2>4. SettledInv'
    BY <2>2, AdvanceSettles, OthersSettle
  <2> QED BY <2>1, <2>3, <2>4 DEF IInv
<1>3. CASE UNCHANGED vars
  <2>1. TypeOK' /\ TasksInv'
    BY <1>3 DEF vars, readerVars, dispatchVars, TypeOK, ReaderTypeOK, TasksInv
  <2>2. AnsweredInv'
    <3>1. Owed' = Owed /\ written' = written /\ started' = started
      BY <1>3 DEF vars, readerVars, dispatchVars, Owed
    <3> QED BY <3>1, SameAnswers
  <2>3. SettledInv'
    <3>1. tasks' = tasks /\ started' = started /\ calls' = calls
      BY <1>3 DEF vars, readerVars, dispatchVars
    <3> QED BY <3>1 DEF SettledInv
  <2> QED BY <2>1, <2>2, <2>3 DEF IInv
<1> QED BY <1>1, <1>2, <1>3 DEF Next

LEMMA IInvAlways == Spec => []IInv
  BY IInvStarts, IInvKept, PTL DEF Spec

\* The reader and the tasks keep to their types: whatever arrives, the loop starts only tasks
\* that there are, and each task has its place in its message.
THEOREM TypeCorrect == Spec => []TypeOK
  BY IInvAlways, PTL DEF IInv

\* For any connection and any handlers, when all is over: the answers written are, one to one,
\* those that the tasks call for. Each request got one answer, in the array of its batch if it
\* had one, with its own id and the outcome of its own handler; an invalid message got an error,
\* and a notification or a response nothing, in whatever order the tasks took their steps.
THEOREM RequestsAnswered == Spec => []EveryRequestAnswered
<1>1. ASSUME IInv, AllOver PROVE EveryRequestAnswered
  <2>1. DOMAIN tasks = DOMAIN started /\ \A i \in DOMAIN tasks : tasks[i].over
    BY <1>1, TaskTypes DEF IInv, AllOver
  <2>2. Owed = {i \in DOMAIN started : ExpectedAnswer(started[i]) # <<>>}
    BY <2>1 DEF Owed
  <2>3. PICK task : AnswersOf(task, Owed)
    BY <1>1 DEF IInv, AnsweredInv
  <2>4. task \in Bijection(DOMAIN written, Owed)
    BY <2>3 DEF AnswersOf, Bijection, Injection, Surjection, IsInjective
  <2> QED BY <2>2, <2>3, <2>4 DEF EveryRequestAnswered, AnswersOf
<1>2. IInv => EveryRequestAnswered
  BY <1>1 DEF EveryRequestAnswered
<1> QED BY <1>2, IInvAlways, PTL

\* For any connection, when all is over: a request of this peer was settled by the first response
\* with its id in one of the messages, as that response says, an invalid one failing it; and it
\* still waits only if no message had one.
THEOREM WaitingSettled == Spec => []ResponsesSettle
<1>1. ASSUME IInv, AllOver, NEW id \in Waiting
      PROVE  LET some == {i \in DOMAIN started : ResponsesFor(id, started[i]) # {}}
                 first(i) == started[i].message.elements[Min(ResponsesFor(id, started[i]))]
             IN IF some = {} THEN calls[id] = "waiting"
                ELSE \E i \in some :
                    /\ calls[id] = "result" <=> first(i).version /\ first(i).error # "error" /\ first(i).result # "absent"
                    /\ calls[id] = "error" <=> first(i).version /\ first(i).error = "error"
                    /\ calls[id] # "waiting"
  <2> DEFINE some == {i \in DOMAIN started : ResponsesFor(id, started[i]) # {}}
             first(i) == started[i].message.elements[Min(ResponsesFor(id, started[i]))]
  <2>1. /\ DOMAIN tasks = DOMAIN started /\ \A i \in DOMAIN tasks : tasks[i].over
        /\ \A i \in DOMAIN tasks : started[i] \in Task /\ tasks[i] \in TaskState
    BY <1>1, TaskTypes DEF IInv, AllOver
  <2>2. CASE calls[id] = "waiting"
    <3>1. ASSUME NEW i \in DOMAIN tasks, NEW j \in ResponsesFor(id, started[i]) PROVE FALSE
      <4>1. tasks[i].next <= j
        BY <1>1, <2>2 DEF IInv, SettledInv
      <4>2. started[i].does = "handle" /\ j \in 1..Len(started[i].message.elements)
        BY <2>1, ResponsesType
      <4>3. tasks[i].next > Len(started[i].message.elements)
        BY <1>1, <2>1, <4>2 DEF IInv, TasksInv, TaskInv
      <4>4. tasks[i].next \in Nat /\ Len(started[i].message.elements) \in Nat
        BY <2>1, <4>2, MessageOf DEF TaskState
      <4> QED BY <4>1, <4>2, <4>3, <4>4
    <3>2. some = {}
      BY <2>1, <3>1
    <3> QED BY <2>2, <3>2
  <2>3. CASE calls[id] # "waiting"
    <3>1. PICK i \in DOMAIN tasks : \E j \in ResponsesFor(id, started[i]) :
              /\ \A k \in ResponsesFor(id, started[i]) : j <= k
              /\ calls[id] = Verdict(started[i].message.elements[j])
      BY <1>1, <2>3 DEF IInv, SettledInv
    <3>2. PICK j \in ResponsesFor(id, started[i]) :
              /\ \A k \in ResponsesFor(id, started[i]) : j <= k
              /\ calls[id] = Verdict(started[i].message.elements[j])
      BY <3>1
    <3>3. ResponsesFor(id, started[i]) \subseteq Nat /\ ResponsesFor(id, started[i]) # {}
      BY <2>1, ResponsesType
    <3>4. Min(ResponsesFor(id, started[i])) = j
      <4>1. /\ Min(ResponsesFor(id, started[i])) \in ResponsesFor(id, started[i])
            /\ \A k \in ResponsesFor(id, started[i]) : Min(ResponsesFor(id, started[i])) <= k
        BY <3>3, MinIsLeast
      <4> QED BY <3>2, <3>3, <4>1
    <3>5. calls[id] = Verdict(first(i)) /\ i \in some
      BY <2>1, <3>2, <3>3, <3>4
    <3>6. PICK e : e = first(i)
      OBVIOUS
    <3>7. e.version \in BOOLEAN
      <4>1. started[i].does = "handle" /\ j \in 1..Len(started[i].message.elements)
        BY <2>1, ResponsesType
      <4>2. e \in Elements
        BY <2>1, <3>4, <3>6, <4>1, MessageOf
      <4> QED BY <4>2, ElementsAssumption
    <3>8. /\ calls[id] = "result" <=> e.version /\ e.error # "error" /\ e.result # "absent"
          /\ calls[id] = "error" <=> e.version /\ e.error = "error"
      BY <3>5, <3>6, <3>7 DEF Verdict
    <3> QED BY <2>3, <3>5, <3>6, <3>8
  <2> QED BY <2>2, <2>3
<1>2. IInv => ResponsesSettle
  BY <1>1 DEF ResponsesSettle
<1> QED BY <1>2, IInvAlways, PTL

-----------------------------------------------------------------------------
(* Where the pieces are in what is sent *)

Upto(seqs, m) == [i \in 1..m |-> seqs[i]]

LEMMA UptoType ==
  ASSUME NEW S, NEW seqs, NEW m \in Nat, \A i \in 1..m : seqs[i] \in S
  PROVE  Upto(seqs, m) \in Seq(S) /\ Len(Upto(seqs, m)) = m /\ \A i \in 1..m : Upto(seqs, m)[i] = seqs[i]
<1>1. PICK f : f = Upto(seqs, m)
  OBVIOUS
<1>2. DOMAIN f = 1..m /\ f = [i \in 1..m |-> f[i]] /\ \A i \in 1..m : f[i] = seqs[i]
  BY <1>1 DEF Upto
<1>3. f \in Seq(S) /\ Len(f) = m
  BY <1>2, FunctionIsSeq
<1> QED BY <1>1, <1>2, <1>3

LEMMA UptoNext ==
  ASSUME NEW S, NEW seqs \in Seq(Seq(S)), NEW m \in Nat, m + 1 <= Len(seqs)
  PROVE  /\ FlattenSeq(Upto(seqs, m)) \in Seq(S) /\ seqs[m + 1] \in Seq(S)
         /\ FlattenSeq(Upto(seqs, m + 1)) = FlattenSeq(Upto(seqs, m)) \o seqs[m + 1]
<1>0. \A i \in 1..(m + 1) : seqs[i] \in Seq(S)
  OBVIOUS
<1>1. Upto(seqs, m) \in Seq(Seq(S)) /\ Len(Upto(seqs, m)) = m
  BY <1>0, UptoType
<1>2. Upto(seqs, m + 1) \in Seq(Seq(S)) /\ Len(Upto(seqs, m + 1)) = m + 1
  BY <1>0, UptoType
<1>3. PICK s \in Seq(Seq(S)) : s = Upto(seqs, m) /\ Len(s) = m
  BY <1>1
<1>4. PICK x \in Seq(S) : x = seqs[m + 1]
  BY <1>0
<1>5. PICK t \in Seq(Seq(S)) : t = Upto(seqs, m + 1) /\ Len(t) = m + 1
  BY <1>2
<1>6. PICK u : u = Append(s, x)
  OBVIOUS
<1>7. u \in Seq(Seq(S)) /\ Len(u) = m + 1 /\ u[m + 1] = x /\ \A j \in 1..m : u[j] = s[j]
  BY <1>3, <1>6, AppendIs
<1>8. \A j \in 1..(m + 1) : t[j] = u[j]
  <2>1. \A j \in 1..m : t[j] = seqs[j] /\ s[j] = seqs[j]
    BY <1>3, <1>5 DEF Upto
  <2>2. t[m + 1] = x
    BY <1>4, <1>5 DEF Upto
  <2> QED BY <1>7, <2>1, <2>2
<1>9. t = u
  BY <1>5, <1>7, <1>8, SeqEqual
<1>10. FlattenSeq(t) = FlattenSeq(s) \o x
  BY <1>6, <1>9, FlattenAppend
<1> QED BY <1>0, <1>3, <1>4, <1>5, <1>10, FlattenType

\* The first sequences are at the beginning of the flat one.
LEMMA FlattenBegins ==
  ASSUME NEW S, NEW seqs \in Seq(Seq(S)), NEW m \in Nat,
         NEW n \in Nat, m <= n, n <= Len(seqs)
  PROVE  /\ FlattenSeq(Upto(seqs, n)) \in Seq(S)
         /\ Len(FlattenSeq(Upto(seqs, m))) <= Len(FlattenSeq(Upto(seqs, n)))
         /\ \A p \in 1..Len(FlattenSeq(Upto(seqs, m))) :
                FlattenSeq(Upto(seqs, n))[p] = FlattenSeq(Upto(seqs, m))[p]
<1> DEFINE F(k) == FlattenSeq(Upto(seqs, k))
           T == {k \in Nat : m <= k /\ k <= Len(seqs) =>
                    /\ F(k) \in Seq(S) /\ Len(F(m)) <= Len(F(k))
                    /\ \A p \in 1..Len(F(m)) : F(k)[p] = F(m)[p]}
<1>0. ASSUME NEW k \in Nat, k <= Len(seqs) PROVE F(k) \in Seq(S)
  <2>1. \A i \in 1..k : seqs[i] \in Seq(S)
    BY <1>0
  <2>2. Upto(seqs, k) \in Seq(Seq(S))
    BY <2>1, UptoType
  <2> QED BY <2>2, FlattenType
<1>1. 0 \in T
  <2>1. m <= 0 => m = 0
    OBVIOUS
  <2>2. F(0) \in Seq(S)
    BY <1>0
  <2> HIDE DEF F
  <2> QED BY <2>1, <2>2
<1>2. ASSUME NEW k \in Nat, k \in T PROVE k + 1 \in T
  <2> SUFFICES ASSUME m <= k + 1, k + 1 <= Len(seqs)
               PROVE  /\ F(k + 1) \in Seq(S) /\ Len(F(m)) <= Len(F(k + 1))
                      /\ \A p \in 1..Len(F(m)) : F(k + 1)[p] = F(m)[p]
    OBVIOUS
  <2>1. CASE m = k + 1
    <3>1. F(k + 1) \in Seq(S)
      BY <1>0
    <3> HIDE DEF F
    <3> QED BY <2>1, <3>1
  <2>2. CASE m <= k
    <3>1. F(k) \in Seq(S) /\ Len(F(m)) <= Len(F(k)) /\ \A p \in 1..Len(F(m)) : F(k)[p] = F(m)[p]
      BY <1>2, <2>2
    <3>2. F(k + 1) = F(k) \o seqs[k + 1] /\ seqs[k + 1] \in Seq(S)
      BY UptoNext
    <3>3. F(m) \in Seq(S)
      BY <1>0, <2>2
    <3> HIDE DEF F
    <3>4. PICK s \in Seq(S) : s = F(k)
      BY <3>1
    <3>5. PICK x \in Seq(S) : x = seqs[k + 1]
      BY <3>2
    <3>6. PICK u \in Seq(S) : u = F(k + 1) /\ u = s \o x
      BY <3>2, <3>4, <3>5, ConcatProperties
    <3>7. Len(u) = Len(s) + Len(x) /\ \A p \in 1..Len(s) : u[p] = s[p]
      <4>1. /\ Len(u) = Len(s) + Len(x)
            /\ \A p \in 1..Len(s) + Len(x) : u[p] = IF p <= Len(s) THEN s[p] ELSE x[p - Len(s)]
        BY <3>6, ConcatProperties
      <4>2. \A p \in 1..Len(s) : p \in 1..Len(s) + Len(x) /\ p <= Len(s)
        OBVIOUS
      <4> QED BY <4>1, <4>2
    <3>8. PICK a \in Seq(S) : a = F(m)
      BY <3>3
    <3>9. Len(a) <= Len(s) /\ \A p \in 1..Len(a) : s[p] = a[p]
      BY <3>1, <3>4, <3>8
    <3>10. Len(a) <= Len(u)
      BY <3>7, <3>9
    <3>11. \A p \in 1..Len(a) : p \in 1..Len(s)
      BY <3>9
    <3>12. \A p \in 1..Len(a) : u[p] = a[p]
      BY <3>7, <3>9, <3>11
    <3> QED BY <3>6, <3>8, <3>10, <3>12
  <2> QED BY <2>1, <2>2
<1> HIDE DEF T, F
<1>3. Nat \subseteq T
  BY <1>1, <1>2, SetInduction
<1>4. n \in T
  BY <1>3
<1> QED BY <1>4 DEF T, F

LEMMA UptoAll ==
  ASSUME NEW S, NEW seqs \in Seq(S)
  PROVE  Upto(seqs, Len(seqs)) = seqs
  BY DEF Upto

\* A sequence is in its place in the flat one.
LEMMA FlattenAt ==
  ASSUME NEW S, NEW seqs \in Seq(Seq(S)), NEW m \in Nat, m + 1 <= Len(seqs)
  PROVE  /\ Len(FlattenSeq(Upto(seqs, m))) \in Nat /\ Len(seqs[m + 1]) \in Nat
         /\ Len(FlattenSeq(Upto(seqs, m + 1))) = Len(FlattenSeq(Upto(seqs, m))) + Len(seqs[m + 1])
         /\ Len(FlattenSeq(Upto(seqs, m + 1))) <= Len(FlattenSeq(seqs))
         /\ \A p \in 1..Len(seqs[m + 1]) :
                FlattenSeq(seqs)[Len(FlattenSeq(Upto(seqs, m))) + p] = seqs[m + 1][p]
<1>1. PICK s \in Seq(S) : s = FlattenSeq(Upto(seqs, m))
  BY UptoNext
<1>2. PICK x \in Seq(S) : x = seqs[m + 1]
  OBVIOUS
<1>3. PICK u : u = FlattenSeq(Upto(seqs, m + 1)) /\ u = s \o x
  <2>1. FlattenSeq(Upto(seqs, m + 1)) = FlattenSeq(Upto(seqs, m)) \o seqs[m + 1]
    BY UptoNext
  <2> QED BY <1>1, <1>2, <2>1
<1>4. /\ u \in Seq(S) /\ Len(u) = Len(s) + Len(x) /\ \A p \in 1..Len(x) : u[Len(s) + p] = x[p]
  <2>1. /\ u \in Seq(S) /\ Len(u) = Len(s) + Len(x)
        /\ \A i \in 1..Len(s) + Len(x) : u[i] = IF i <= Len(s) THEN s[i] ELSE x[i - Len(s)]
    <3>1. /\ s \o x \in Seq(S) /\ Len(s \o x) = Len(s) + Len(x)
          /\ \A i \in 1..Len(s) + Len(x) : (s \o x)[i] = IF i <= Len(s) THEN s[i] ELSE x[i - Len(s)]
      BY ConcatProperties
    <3> QED BY <1>3, <3>1
  <2>2. \A p \in 1..Len(x) : Len(s) + p \in 1..Len(s) + Len(x) /\ (Len(s) + p) - Len(s) = p
                            /\ ~(Len(s) + p <= Len(s))
    OBVIOUS
  <2> QED BY <2>1, <2>2
<1>5. PICK w : w = FlattenSeq(seqs)
  OBVIOUS
<1>6. w \in Seq(S) /\ Len(u) <= Len(w) /\ \A p \in 1..Len(u) : w[p] = u[p]
  <2>1. w = FlattenSeq(Upto(seqs, Len(seqs)))
    BY <1>5, UptoAll
  <2> QED BY <1>3, <2>1, FlattenBegins
<1>7. \A p \in 1..Len(x) : w[Len(s) + p] = x[p]
  BY <1>4, <1>6
<1>8. Len(s) \in Nat /\ Len(x) \in Nat
  OBVIOUS
<1> QED BY <1>1, <1>2, <1>3, <1>4, <1>5, <1>6, <1>7, <1>8

LEMMA UptoOf ==
  ASSUME NEW n \in Nat, NEW m \in Nat, m <= n, NEW f, NEW g, f = [i \in 1..n |-> g[i]]
  PROVE  Upto(f, m) = [i \in 1..m |-> g[i]]
  BY DEF Upto

-----------------------------------------------------------------------------
(* Where the read loop is *)

NextFrame(k) == input.frames[k + 1]
LinesEnd(frame, m) == Len(FlattenSeq([i \in 1..m |-> Append(frame.lines[i], Eol)]))

\* The place in front of the content of the frame that follows the first k.
ContentFrom(k) == Ends(k) + Len(HeaderPieces(NextFrame(k)))
FieldsOf(k) == Fields(NextFrame(k), Found[k].text)

\* All that was sent up to pos has been read, and nothing after it.
At(pos) ==
    /\ pos \in 0..input.cut /\ Len(stream) = input.cut - pos
    /\ \A p \in 1..Len(stream) : stream[p] = Sent(input.frames)[pos + p]

\* From pos on, nothing is left of the first k frames but contents without fields, in front of
\* the next frame with text if they do not end a line.
RestFrom(k, pos) ==
    /\ k \in 0..Len(input.frames) /\ pos <= Ends(k)
    /\ \A p \in (pos + 1)..Ends(k) : Sent(input.frames)[p].is \notin FieldKinds
    /\ Found[k].text <=> pos < Ends(k) /\ Sent(input.frames)[Ends(k)] # Eol

\* A header that has read these fields.
HeaderSays(h, fields) ==
    /\ h.length = "valid" <=> LengthsOf(fields) # {}
    /\ \A f \in LengthsOf(fields) : h.size = f.size
    /\ h.charset = (Charset(FALSE) \notin fields)

\* The fields in the first m lines of the next frame.
Seen(k, m) == {Field(NextFrame(k).lines[i]) : i \in {j \in 1..m : ~(j = 1 /\ Found[k].text)}}

InRest(k, pos) ==
    /\ RestFrom(k, pos) /\ At(pos)
    /\ reader = "header" /\ header = NoHeader /\ started = Found[k].tasks

InLines(k, m) ==
    /\ k \in 0..(Len(input.frames) - 1) /\ m \in 1..Len(NextFrame(k).lines)
    /\ At(Ends(k) + LinesEnd(NextFrame(k), m))
    /\ reader = "header" /\ HeaderSays(header, Seen(k, m)) /\ started = Found[k].tasks

InContent(k) ==
    /\ k \in 0..(Len(input.frames) - 1) /\ LengthsOf(FieldsOf(k)) # {} /\ SizeIn(FieldsOf(k)) <= MaxSize
    /\ At(ContentFrom(k)) /\ reader = "content" /\ started = Found[k].tasks
    /\ header.size = SizeIn(FieldsOf(k)) /\ header.charset = (Charset(FALSE) \notin FieldsOf(k))

InSkip(k, pos) ==
    /\ k \in 0..(Len(input.frames) - 1) /\ LengthsOf(FieldsOf(k)) # {} /\ SizeIn(FieldsOf(k)) > MaxSize
    /\ At(pos) /\ reader = "skip" /\ started = Found[k + 1].tasks
    /\ header.size = ContentFrom(k) + SizeIn(FieldsOf(k)) - pos

\* Nothing more arrives, and no frame is left that could be read.
AllRead ==
    /\ (reader = "header" /\ stream = <<>>) \/ reader = "ended"
    /\ started = Found[Len(input.frames)].tasks

FrameInv ==
    \/ \E k \in Nat :
        \/ \E n \in Nat : InRest(k, n) \/ InLines(k, n) \/ InSkip(k, n)
        \/ InContent(k)
    \/ AllRead


LEMMA HeaderLayout ==
  ASSUME NEW f \in Frame
  PROVE  /\ Len(f.lines) \in Nat /\ LinesEnd(f, 0) = 0 /\ LinesEnd(f, Len(f.lines)) \in Nat
         /\ Len(HeaderPieces(f)) = LinesEnd(f, Len(f.lines)) + 1
         /\ HeaderPieces(f)[Len(HeaderPieces(f))] = Eol
         /\ \A p \in 1..LinesEnd(f, Len(f.lines)) : HeaderPieces(f)[p] = FlattenSeq(WithEnds(f))[p]
<1>1. f.lines \in Seq(Seq(Piece))
  BY DEF Frame
<1>2. DOMAIN f.lines = 1..Len(f.lines) /\ Len(f.lines) \in Nat
  BY <1>1
<1>3. LinesEnd(f, 0) = 0
  <2>1. [i \in 1..0 |-> Append(f.lines[i], Eol)] = <<>>
    OBVIOUS
  <2> QED BY <2>1, FlattenEmpty DEF LinesEnd
<1>4. LinesEnd(f, Len(f.lines)) = Len(FlattenSeq(WithEnds(f)))
  BY <1>2 DEF LinesEnd, WithEnds
<1>5. PICK s \in Seq(Piece) : s = FlattenSeq(WithEnds(f))
  BY PiecesType
<1>6. PICK h : h = HeaderPieces(f) /\ h = s \o <<Eol>>
  BY <1>5 DEF HeaderPieces, WithEnds
<1>7. Eol \in Piece
  BY DEF Eol, Piece
<1>8. h = Append(s, Eol)
  BY <1>5, <1>6, <1>7, AppendIsConcat
<1>9. Len(h) = Len(s) + 1 /\ h[Len(s) + 1] = Eol /\ \A p \in 1..Len(s) : h[p] = s[p]
  BY <1>7, <1>8, AppendIs
<1> QED BY <1>2, <1>3, <1>4, <1>5, <1>6, <1>9

LEMMA LineLayout ==
  ASSUME NEW f \in Frame, NEW m \in Nat, m + 1 <= Len(f.lines)
  PROVE  /\ f.lines[m + 1] \in Seq(Piece) /\ LinesEnd(f, m) \in Nat
         /\ LinesEnd(f, m + 1) = LinesEnd(f, m) + Len(f.lines[m + 1]) + 1
         /\ LinesEnd(f, m + 1) < Len(HeaderPieces(f))
         /\ \A p \in 1..Len(f.lines[m + 1]) : HeaderPieces(f)[LinesEnd(f, m) + p] = f.lines[m + 1][p]
         /\ HeaderPieces(f)[LinesEnd(f, m + 1)] = Eol
<1>1. f.lines \in Seq(Seq(Piece)) /\ Len(f.lines) \in Nat /\ DOMAIN f.lines = 1..Len(f.lines)
  BY DEF Frame
<1>2. PICK seqs \in Seq(Seq(Piece)) : seqs = WithEnds(f) /\ Len(seqs) = Len(f.lines)
  BY PiecesType
<1>3. \A j \in 1..(m + 1) : seqs[j] = Append(f.lines[j], Eol)
  <2>1. \A j \in 1..(m + 1) : j \in DOMAIN f.lines
    BY <1>1
  <2> QED BY <1>2, <2>1 DEF WithEnds
<1>4. LinesEnd(f, m) = Len(FlattenSeq(Upto(seqs, m))) /\ LinesEnd(f, m + 1) = Len(FlattenSeq(Upto(seqs, m + 1)))
  <2>1. Upto(seqs, m) = [j \in 1..m |-> Append(f.lines[j], Eol)]
    <3>1. \A j \in 1..m : j \in 1..(m + 1)
      OBVIOUS
    <3> QED BY <1>3, <3>1 DEF Upto
  <2>2. Upto(seqs, m + 1) = [j \in 1..(m + 1) |-> Append(f.lines[j], Eol)]
    BY <1>3 DEF Upto
  <2> QED BY <2>1, <2>2 DEF LinesEnd
<1>5. PICK x \in Seq(Piece) : x = f.lines[m + 1]
  BY <1>1
<1>6. PICK y : y = seqs[m + 1] /\ y = Append(x, Eol)
  BY <1>3, <1>5
<1>7. Eol \in Piece
  BY DEF Eol, Piece
<1>8. Len(y) = Len(x) + 1 /\ y[Len(x) + 1] = Eol /\ \A p \in 1..Len(x) : y[p] = x[p]
  BY <1>6, <1>7, AppendIs
<1>9. PICK w : w = FlattenSeq(seqs)
  OBVIOUS
<1>10. /\ LinesEnd(f, m) \in Nat /\ LinesEnd(f, m + 1) = LinesEnd(f, m) + Len(y)
       /\ LinesEnd(f, m + 1) <= Len(w) /\ \A p \in 1..Len(y) : w[LinesEnd(f, m) + p] = y[p]
  <2>1. /\ Len(FlattenSeq(Upto(seqs, m))) \in Nat
        /\ Len(FlattenSeq(Upto(seqs, m + 1))) = Len(FlattenSeq(Upto(seqs, m))) + Len(seqs[m + 1])
        /\ Len(FlattenSeq(Upto(seqs, m + 1))) <= Len(FlattenSeq(seqs))
        /\ \A p \in 1..Len(seqs[m + 1]) :
            FlattenSeq(seqs)[Len(FlattenSeq(Upto(seqs, m))) + p] = seqs[m + 1][p]
    BY <1>2, FlattenAt
  <2> QED BY <1>4, <1>6, <1>9, <2>1
<1>11. /\ Len(w) = LinesEnd(f, Len(f.lines)) /\ Len(HeaderPieces(f)) = Len(w) + 1 /\ Len(w) \in Nat
       /\ \A p \in 1..Len(w) : HeaderPieces(f)[p] = w[p]
  <2>1. Len(w) = LinesEnd(f, Len(f.lines))
    BY <1>1, <1>2, <1>9 DEF LinesEnd, WithEnds
  <2> QED BY <1>2, <1>9, <2>1, HeaderLayout
<1>12. Len(x) \in Nat
  OBVIOUS
<1>13. \A p \in 1..Len(y) : LinesEnd(f, m) + p \in 1..Len(w)
  BY <1>8, <1>10, <1>11, <1>12
<1>14. \A p \in 1..Len(y) : HeaderPieces(f)[LinesEnd(f, m) + p] = y[p]
  BY <1>10, <1>11, <1>13
<1>15. Len(x) + 1 \in 1..Len(y) /\ \A p \in 1..Len(x) : p \in 1..Len(y)
  BY <1>8, <1>12
<1>16. HeaderPieces(f)[LinesEnd(f, m + 1)] = Eol
  <2>1. HeaderPieces(f)[LinesEnd(f, m) + (Len(x) + 1)] = Eol
    BY <1>8, <1>14, <1>15
  <2> QED BY <1>8, <1>10, <2>1
<1>17. \A p \in 1..Len(x) : HeaderPieces(f)[LinesEnd(f, m) + p] = x[p]
  BY <1>8, <1>14, <1>15
<1>18. LinesEnd(f, m + 1) = LinesEnd(f, m) + Len(x) + 1 /\ LinesEnd(f, m + 1) < Len(HeaderPieces(f))
  BY <1>8, <1>10, <1>11, <1>12
<1> QED BY <1>5, <1>10, <1>16, <1>17, <1>18

LEMMA EndsLayout ==
  ASSUME input \in Inputs
  PROVE  /\ Ends(0) = 0 /\ Ends(Len(input.frames)) = Len(Sent(input.frames))
         /\ \A k \in 0..Len(input.frames) : Ends(k) \in Nat /\ \A j \in 0..k : Ends(j) <= Ends(k)
<1>1. input.frames \in Seq(Frame) /\ Len(input.frames) \in Nat /\ DOMAIN input.frames = 1..Len(input.frames)
  BY InputTypes
<1>2. PICK seqs \in Seq(Seq(Piece)) : seqs = AllPieces(input.frames) /\ Len(seqs) = Len(input.frames)
  BY <1>1, SentType
<1>3. \A i \in 0..Len(input.frames) : Upto(seqs, i) = [j \in 1..i |-> Pieces(input.frames[j])]
  BY <1>1, <1>2 DEF Upto, AllPieces
<1>4. \A i \in 0..Len(input.frames) : Ends(i) = Len(FlattenSeq(Upto(seqs, i)))
  BY <1>3 DEF Ends
<1>5. Ends(0) = 0
  <2>1. [j \in 1..0 |-> Pieces(input.frames[j])] = <<>>
    OBVIOUS
  <2> QED BY <2>1, FlattenEmpty DEF Ends
<1>6. Ends(Len(input.frames)) = Len(Sent(input.frames))
  BY <1>1 DEF Ends, Sent
<1>7. ASSUME NEW k \in 0..Len(input.frames), NEW j \in 0..k PROVE Ends(k) \in Nat /\ Ends(j) <= Ends(k)
  <2>1. /\ FlattenSeq(Upto(seqs, k)) \in Seq(Piece)
        /\ Len(FlattenSeq(Upto(seqs, j))) <= Len(FlattenSeq(Upto(seqs, k)))
    BY <1>2, FlattenBegins
  <2>2. Len(FlattenSeq(Upto(seqs, k))) \in Nat
    BY <2>1
  <2>3. j \in 0..Len(input.frames)
    BY <1>1
  <2>4. Ends(k) = Len(FlattenSeq(Upto(seqs, k))) /\ Ends(j) = Len(FlattenSeq(Upto(seqs, j)))
    BY <1>4, <2>3
  <2> QED BY <2>1, <2>2, <2>4
<1>8. \A k \in 0..Len(input.frames) : 0 \in 0..k
  OBVIOUS
<1> QED BY <1>5, <1>6, <1>7, <1>8

LEMMA FrameLayout ==
  ASSUME input \in Inputs, NEW k \in 0..(Len(input.frames) - 1)
  PROVE  /\ NextFrame(k) \in Frame /\ WellSent(NextFrame(k)) /\ Ends(k) \in Nat /\ k + 1 \in 0..Len(input.frames)
         /\ HeaderPieces(NextFrame(k)) \in Seq(Piece) /\ NextFrame(k).content \in Seq(Piece)
         /\ ContentFrom(k) = Ends(k) + Len(HeaderPieces(NextFrame(k)))
         /\ Ends(k + 1) = ContentFrom(k) + Len(NextFrame(k).content)
         /\ Ends(k + 1) <= Len(Sent(input.frames))
         /\ \A p \in 1..Len(HeaderPieces(NextFrame(k))) :
                Sent(input.frames)[Ends(k) + p] = HeaderPieces(NextFrame(k))[p]
         /\ \A p \in 1..Len(NextFrame(k).content) :
                Sent(input.frames)[ContentFrom(k) + p] = NextFrame(k).content[p]
<1>1. input.frames \in Seq(Frame) /\ Len(input.frames) \in Nat /\ DOMAIN input.frames = 1..Len(input.frames)
  BY InputTypes
<1>2. PICK f \in Frame : f = NextFrame(k) /\ WellSent(f)
  BY <1>1, FramesAssumption DEF NextFrame
<1>3. PICK seqs \in Seq(Seq(Piece)) : seqs = AllPieces(input.frames) /\ Len(seqs) = Len(input.frames)
  BY <1>1, SentType
<1>4. \A i \in 0..Len(input.frames) : Upto(seqs, i) = [j \in 1..i |-> Pieces(input.frames[j])]
  BY <1>1, <1>3 DEF Upto, AllPieces
<1>5. Ends(k) = Len(FlattenSeq(Upto(seqs, k))) /\ Ends(k + 1) = Len(FlattenSeq(Upto(seqs, k + 1)))
  <2>1. k \in 0..Len(input.frames) /\ k + 1 \in 0..Len(input.frames)
    BY <1>1
  <2>2. Upto(seqs, k) = [j \in 1..k |-> Pieces(input.frames[j])]
    BY <1>4, <2>1
  <2>3. Upto(seqs, k + 1) = [j \in 1..(k + 1) |-> Pieces(input.frames[j])]
    BY <1>4, <2>1
  <2> QED BY <2>2, <2>3 DEF Ends
<1>6. seqs[k + 1] = Pieces(f)
  BY <1>1, <1>2, <1>3 DEF AllPieces, NextFrame
<1>7. PICK w : w = Sent(input.frames) /\ w = FlattenSeq(seqs)
  BY <1>3 DEF Sent, AllPieces
<1>8. /\ Ends(k) \in Nat /\ Ends(k + 1) = Ends(k) + Len(Pieces(f)) /\ Ends(k + 1) <= Len(w)
      /\ \A p \in 1..Len(Pieces(f)) : w[Ends(k) + p] = Pieces(f)[p]
  <2>1. k \in Nat /\ k + 1 <= Len(seqs)
    BY <1>1, <1>3
  <2>2. /\ Len(FlattenSeq(Upto(seqs, k))) \in Nat
        /\ Len(FlattenSeq(Upto(seqs, k + 1))) = Len(FlattenSeq(Upto(seqs, k))) + Len(seqs[k + 1])
        /\ Len(FlattenSeq(Upto(seqs, k + 1))) <= Len(FlattenSeq(seqs))
        /\ \A p \in 1..Len(seqs[k + 1]) :
            FlattenSeq(seqs)[Len(FlattenSeq(Upto(seqs, k))) + p] = seqs[k + 1][p]
    BY <2>1, FlattenAt
  <2> QED BY <1>5, <1>6, <1>7, <2>2
<1>9. PICK h \in Seq(Piece) : h = HeaderPieces(f)
  BY PiecesType
<1>10. PICK c \in Seq(Piece) : c = f.content
  BY PiecesType
<1>11. PICK q : q = Pieces(f) /\ q = h \o c
  BY <1>9, <1>10 DEF Pieces
<1>12. /\ Len(q) = Len(h) + Len(c)
       /\ \A i \in 1..Len(h) + Len(c) : q[i] = IF i <= Len(h) THEN h[i] ELSE c[i - Len(h)]
  BY <1>11, ConcatProperties
<1>13. Len(h) \in Nat /\ Len(c) \in Nat
  OBVIOUS
<1>14. \A p \in 1..Len(h) : w[Ends(k) + p] = h[p]
  BY <1>8, <1>11, <1>12, <1>13
<1>15. \A p \in 1..Len(c) : w[Ends(k) + Len(h) + p] = c[p]
  <2> SUFFICES ASSUME NEW p \in 1..Len(c) PROVE w[Ends(k) + Len(h) + p] = c[p]
    OBVIOUS
  <2>1. Len(h) + p \in 1..Len(q) /\ ~(Len(h) + p <= Len(h)) /\ (Len(h) + p) - Len(h) = p
    BY <1>12, <1>13
  <2>2. w[Ends(k) + (Len(h) + p)] = c[p]
    BY <1>8, <1>11, <1>12, <2>1
  <2> QED BY <1>8, <1>13, <2>2
<1>16. k + 1 \in 0..Len(input.frames)
  BY <1>1
<1>17. ContentFrom(k) = Ends(k) + Len(h) /\ Ends(k + 1) = ContentFrom(k) + Len(c)
  BY <1>2, <1>8, <1>9, <1>11, <1>12, <1>13 DEF ContentFrom
<1> QED BY <1>2, <1>7, <1>8, <1>9, <1>10, <1>14, <1>15, <1>16, <1>17

-----------------------------------------------------------------------------
(* What the reference finds *)

NothingFound == [tasks |-> <<>>, text |-> FALSE]
FoundStep(f, i) == IF i = 0 THEN NothingFound ELSE WithFrame(f[i - 1], i)
IsFound(f, n) == f = [i \in 0..n |-> FoundStep(f, i)]

LEMMA FoundStepLocal ==
  ASSUME NEW f, NEW g, NEW i, i # 0 => f[i - 1] = g[i - 1]
  PROVE  FoundStep(f, i) = FoundStep(g, i)
  BY DEF FoundStep

LEMMA FoundExists ==
  ASSUME Len(input.frames) \in Nat
  PROVE  IsFound(Found, Len(input.frames))
<1> DEFINE T == {n \in Nat : \E f : IsFound(f, n)}
<1>1. 0 \in T
  <2> DEFINE f == [i \in 0..0 |-> NothingFound]
  <2>1. f = [i \in 0..0 |-> FoundStep(f, i)]
    BY DEF FoundStep
  <2>2. IsFound(f, 0)
    BY <2>1 DEF IsFound
  <2> QED BY <2>2
<1>2. ASSUME NEW n \in Nat, n \in T PROVE n + 1 \in T
  <2>1. PICK f : IsFound(f, n)
    BY <1>2
  <2> DEFINE g == [i \in 0..(n + 1) |-> FoundStep(f, i)]
  <2>2. \A i \in 0..n : g[i] = f[i]
    BY <2>1 DEF IsFound
  <2>3. \A i \in 0..(n + 1) : i # 0 => f[i - 1] = g[i - 1]
    <3> HIDE DEF g
    <3> QED BY <2>2
  <2>4. \A i \in 0..(n + 1) : FoundStep(f, i) = FoundStep(g, i)
    <3> HIDE DEF g
    <3> QED BY <2>3, FoundStepLocal
  <2>5. IsFound(g, n + 1)
    BY <2>4 DEF IsFound
  <2> QED BY <2>5
<1> HIDE DEF T
<1>3. Nat \subseteq T
  BY <1>1, <1>2, SetInduction
<1>4. \E f : IsFound(f, Len(input.frames))
  BY <1>3 DEF T
<1>5. Found = CHOOSE f : IsFound(f, Len(input.frames))
  BY DEF Found, IsFound, FoundStep, NothingFound
<1> QED BY <1>4, <1>5

LEMMA FoundNext ==
  ASSUME input \in Inputs
  PROVE  /\ Found[0] = NothingFound
         /\ \A k \in 0..(Len(input.frames) - 1) : Found[k + 1] = WithFrame(Found[k], k + 1)
<1>1. Len(input.frames) \in Nat
  BY InputTypes
<1>2. \A i \in 0..Len(input.frames) : Found[i] = FoundStep(Found, i)
  BY <1>1, FoundExists DEF IsFound
<1>3. Found[0] = NothingFound
  BY <1>1, <1>2 DEF FoundStep
<1>4. ASSUME NEW k \in 0..(Len(input.frames) - 1) PROVE Found[k + 1] = WithFrame(Found[k], k + 1)
  <2>1. k + 1 \in 0..Len(input.frames) /\ k + 1 # 0 /\ (k + 1) - 1 = k
    BY <1>1
  <2> QED BY <1>2, <2>1 DEF FoundStep
<1> QED BY <1>3, <1>4

LEMMA FieldType ==
  ASSUME NEW line \in Seq(Piece)
  PROVE  Field(line) \in Piece
<1>1. Other \in Piece
  BY DEF Other, Piece
<1> QED BY <1>1 DEF Field

\* The fields of a frame, and its length, which is that of any of its lengths.
LEMMA FieldsAre ==
  ASSUME NEW frame \in Frame, WellSent(frame), NEW text
  PROVE  /\ Fields(frame, text) \subseteq Fields(frame, FALSE) /\ Fields(frame, FALSE) \subseteq Piece
         /\ \A f \in LengthsOf(Fields(frame, text)) : SizeIn(Fields(frame, text)) = f.size
         /\ SizeIn(Fields(frame, text)) \in 0..Len(frame.content)
         /\ LengthsOf(Fields(frame, text)) = {} => SizeIn(Fields(frame, text)) = 0
<1>1. frame.lines \in Seq(Seq(Piece)) /\ Len(frame.content) \in Nat
  BY DEF Frame
<1>2. Fields(frame, text) \subseteq Fields(frame, FALSE)
  BY DEF Fields
<1>3. Fields(frame, FALSE) \subseteq Piece
  <2>1. \A i \in DOMAIN frame.lines : frame.lines[i] \in Seq(Piece)
    BY <1>1
  <2> QED BY <2>1, FieldType DEF Fields
<1> PICK fields : fields = Fields(frame, text)
  OBVIOUS
<1>4. \A f, g \in LengthsOf(fields) : f = g
  BY <1>2 DEF LengthsOf, WellSent
<1>5. \A f \in LengthsOf(fields) : f.size \in Nat /\ f.size <= Len(frame.content)
  <2>1. \A f \in LengthsOf(fields) : f \in Piece /\ f.is = "length" /\ f \in Fields(frame, FALSE)
    BY <1>2, <1>3 DEF LengthsOf
  <2>2. \A f \in Piece : f.is = "length" => f.size \in Nat
    BY DEF Piece
  <2> QED BY <2>1, <2>2 DEF WellSent
<1>6. CASE LengthsOf(fields) = {}
  <2>1. SizeIn(fields) = 0
    BY <1>6 DEF SizeIn
  <2>2. \A f \in LengthsOf(fields) : SizeIn(fields) = f.size
    BY <1>6
  <2>3. SizeIn(fields) \in 0..Len(frame.content)
    BY <1>1, <2>1
  <2> QED BY <1>2, <1>3, <2>1, <2>2, <2>3
<1>7. CASE LengthsOf(fields) # {}
  <2>1. PICK f \in LengthsOf(fields) : f = CHOOSE g \in LengthsOf(fields) : TRUE
    BY <1>7
  <2>2. SizeIn(fields) = f.size
    BY <1>7, <2>1 DEF SizeIn
  <2>3. f.size \in 0..Len(frame.content)
    BY <1>1, <1>5
  <2> QED BY <1>2, <1>3, <1>4, <1>7, <2>2, <2>3
<1> QED BY <1>6, <1>7

\* What a frame adds to what was found before it.
LEMMA FoundAfter ==
  ASSUME input \in Inputs, NEW k \in 0..(Len(input.frames) - 1)
  PROVE  LET frame == NextFrame(k)
             size == SizeIn(FieldsOf(k))
             none == LengthsOf(FieldsOf(k)) = {}
         IN /\ Found[k + 1].text <=> Len(frame.content) > size /\ Last(frame.content) # Eol
            /\ none => Found[k + 1].tasks = Found[k].tasks
            /\ ~none /\ size > MaxSize /\ ContentFrom(k) <= input.cut
                => Found[k + 1].tasks = Append(Found[k].tasks, Problem("invalid request"))
            /\ ~none /\ ~(size > MaxSize) /\ ContentFrom(k) + size <= input.cut
                => Found[k + 1].tasks = Append(Found[k].tasks,
                        IF Charset(FALSE) \in FieldsOf(k) THEN Problem("parse error")
                        ELSE Handle(Decoded(SubSeq(frame.content, 1, size))))
            /\ ContentFrom(k) > input.cut => Found[k + 1].tasks = Found[k].tasks
            /\ ~(size > MaxSize) /\ ContentFrom(k) + size > input.cut => Found[k + 1].tasks = Found[k].tasks
<1> PICK before : before = Found[k]
  OBVIOUS
<1> PICK frame \in Frame : frame = NextFrame(k) /\ WellSent(frame)
  BY FrameLayout
<1> PICK fields : fields = FieldsOf(k) /\ fields = Fields(frame, before.text)
  BY DEF FieldsOf
<1>1. PICK size \in Nat : size = SizeIn(fields)
  <2>1. SizeIn(Fields(frame, before.text)) \in 0..Len(frame.content)
    BY FieldsAre
  <2>2. Len(frame.content) \in Nat
    BY DEF Frame
  <2> QED BY <2>1, <2>2
<1>2. PICK from \in Nat : from = ContentFrom(k) /\ from = Ends(k) + Len(HeaderPieces(frame))
  <2>1. Ends(k) \in Nat /\ Len(HeaderPieces(frame)) \in Nat
    BY FrameLayout
  <2> QED BY <2>1 DEF ContentFrom
<1>3. PICK cut \in Nat : cut = input.cut
  BY InputTypes
<1> DEFINE task == IF size > MaxSize THEN Problem("invalid request")
                   ELSE IF Charset(FALSE) \in fields THEN Problem("parse error")
                   ELSE Handle(Decoded(SubSeq(frame.content, 1, size)))
           needed == from + (IF size > MaxSize THEN 0 ELSE size)
<1>4. Found[k + 1] = [tasks |-> IF LengthsOf(fields) # {} /\ needed <= cut THEN Append(before.tasks, task) ELSE before.tasks,
                      text |-> Len(frame.content) > size /\ Last(frame.content) # Eol]
  <2>1. Found[k + 1] = WithFrame(before, k + 1)
    BY FoundNext
  <2>2. (k + 1) - 1 = k
    OBVIOUS
  <2> QED BY <1>1, <1>2, <1>3, <2>1, <2>2 DEF WithFrame, NextFrame
<1>5. /\ Found[k + 1].text <=> Len(frame.content) > size /\ Last(frame.content) # Eol
      /\ LengthsOf(fields) # {} /\ needed <= cut => Found[k + 1].tasks = Append(before.tasks, task)
      /\ ~(LengthsOf(fields) # {} /\ needed <= cut) => Found[k + 1].tasks = before.tasks
  <2>1. PICK x : x = IF LengthsOf(fields) # {} /\ needed <= cut THEN Append(before.tasks, task) ELSE before.tasks
    OBVIOUS
  <2>2. PICK y : y = (Len(frame.content) > size /\ Last(frame.content) # Eol)
    OBVIOUS
  <2>3. Found[k + 1] = [tasks |-> x, text |-> y]
    BY <1>4, <2>1, <2>2
  <2>4. Found[k + 1].tasks = x /\ Found[k + 1].text = y
    BY <2>3
  <2> HIDE DEF task, needed
  <2> QED BY <2>1, <2>2, <2>4
<1>6. MaxSize \in Nat
  BY MaxSizeAssumption
<1>7. size > MaxSize => task = Problem("invalid request") /\ needed = from
  BY <1>2
<1>8. ~(size > MaxSize) => /\ needed = from + size
                           /\ task = IF Charset(FALSE) \in fields THEN Problem("parse error")
                                     ELSE Handle(Decoded(SubSeq(frame.content, 1, size)))
  OBVIOUS
<1>9. from > cut => ~(needed <= cut)
  BY <1>1, <1>2, <1>3
<1> HIDE DEF task, needed
<1>10. LengthsOf(fields) = {} => Found[k + 1].tasks = before.tasks
  BY <1>5
<1>11. LengthsOf(fields) # {} /\ size > MaxSize /\ from <= cut
            => Found[k + 1].tasks = Append(before.tasks, Problem("invalid request"))
  BY <1>5, <1>7
<1>12. LengthsOf(fields) # {} /\ ~(size > MaxSize) /\ from + size <= cut
            => Found[k + 1].tasks = Append(before.tasks,
                    IF Charset(FALSE) \in fields THEN Problem("parse error")
                    ELSE Handle(Decoded(SubSeq(frame.content, 1, size))))
  BY <1>5, <1>8
<1>13. from > cut => Found[k + 1].tasks = before.tasks
  BY <1>5, <1>9
<1>14. ~(size > MaxSize) /\ from + size > cut => Found[k + 1].tasks = before.tasks
  <2>1. from + size > cut => ~(from + size <= cut)
    BY <1>1, <1>2, <1>3
  <2> QED BY <1>5, <1>8, <2>1
<1> QED BY <1>1, <1>2, <1>3, <1>5, <1>10, <1>11, <1>12, <1>13, <1>14

\* Of the frames that begin after the end of the connection nothing is found.
LEMMA NothingMore ==
  ASSUME input \in Inputs, NEW k \in 0..Len(input.frames), input.cut <= Ends(k)
  PROVE  Found[Len(input.frames)].tasks = Found[k].tasks
<1> DEFINE T == {j \in Nat : k <= j /\ j <= Len(input.frames) => Found[j].tasks = Found[k].tasks}
<1>0. Len(input.frames) \in Nat /\ input.cut \in Nat
  BY InputTypes
<1>1. 0 \in T
  <2>1. k <= 0 => k = 0
    BY <1>0
  <2> QED BY <2>1
<1>2. ASSUME NEW j \in Nat, j \in T PROVE j + 1 \in T
  <2> SUFFICES ASSUME k <= j + 1, j + 1 <= Len(input.frames) PROVE Found[j + 1].tasks = Found[k].tasks
    OBVIOUS
  <2>1. CASE k = j + 1
    BY <2>1
  <2>2. CASE k <= j
    <3>1. Found[j].tasks = Found[k].tasks
      BY <1>2, <2>2
    <3>2. j \in 0..(Len(input.frames) - 1) /\ j \in 0..Len(input.frames) /\ k \in 0..j
      BY <1>0, <2>2
    <3>3. input.cut <= Ends(j)
      BY <1>0, <3>2, EndsLayout
    <3>4. Len(HeaderPieces(NextFrame(j))) >= 1
      <4>1. NextFrame(j) \in Frame
        BY <3>2, FrameLayout
      <4> QED BY <4>1, HeaderLayout
    <3>5. ContentFrom(j) > input.cut
      <4>1. Ends(j) \in Nat /\ Len(HeaderPieces(NextFrame(j))) \in Nat
        BY <3>2, FrameLayout
      <4> QED BY <1>0, <3>3, <3>4, <4>1 DEF ContentFrom
    <3>6. Found[j + 1].tasks = Found[j].tasks
      BY <3>2, <3>5, FoundAfter
    <3> QED BY <3>1, <3>6
  <2> QED BY <1>0, <2>1, <2>2
<1> HIDE DEF T
<1>3. Nat \subseteq T
  BY <1>1, <1>2, SetInduction
<1>4. Len(input.frames) \in T
  BY <1>0, <1>3
<1> QED BY <1>0, <1>4 DEF T

-----------------------------------------------------------------------------
(* Places of the stream *)

LEMMA SameFrames ==
  ASSUME input' = input
  PROVE  /\ Found' = Found
         /\ \A k : Ends(k)' = Ends(k) /\ NextFrame(k)' = NextFrame(k) /\ ContentFrom(k)' = ContentFrom(k)
         /\ \A k : FieldsOf(k)' = FieldsOf(k) /\ \A m : Seen(k, m)' = Seen(k, m)
         /\ \A k, pos : RestFrom(k, pos)' <=> RestFrom(k, pos)
<1>1. Found' = Found
  BY DEF Found, WithFrame, Ends
<1>2. \A k : Ends(k)' = Ends(k)
  BY DEF Ends
<1>3. \A k : NextFrame(k)' = NextFrame(k)
  BY DEF NextFrame
<1>4. \A k : ContentFrom(k)' = ContentFrom(k)
  BY <1>2, <1>3 DEF ContentFrom
<1>5. \A k : FieldsOf(k)' = FieldsOf(k)
  BY <1>1, <1>3 DEF FieldsOf
<1>6. \A k, m : Seen(k, m)' = Seen(k, m)
  BY <1>1, <1>3 DEF Seen
<1>7. \A k, pos : RestFrom(k, pos)' <=> RestFrom(k, pos)
  BY <1>1, <1>2 DEF RestFrom
<1> QED BY <1>1, <1>2, <1>3, <1>4, <1>5, <1>6, <1>7

LEMMA DropTo ==
  ASSUME input \in Inputs, stream \in Seq(Piece), NEW pos \in Nat, At(pos), NEW n \in 0..Len(stream),
         input' = input, stream' = SubSeq(stream, n + 1, Len(stream))
  PROVE  At(pos + n)'
<1>1. input.cut \in Nat /\ Len(stream) \in Nat /\ Len(stream) = input.cut - pos /\ pos <= input.cut
  BY InputTypes DEF At
<1>2. /\ Len(SubSeq(stream, n + 1, Len(stream))) = Len(stream) - n
      /\ \A i \in 1..(Len(stream) - n) : SubSeq(stream, n + 1, Len(stream))[i] = stream[n + i]
  <2>1. \A i \in (n + 1)..Len(stream) : stream[i] \in Piece
    OBVIOUS
  <2>2. /\ Len(SubSeq(stream, n + 1, Len(stream))) = IF n + 1 <= Len(stream) THEN Len(stream) - (n + 1) + 1 ELSE 0
        /\ \A i \in 1..(Len(stream) - (n + 1) + 1) :
                SubSeq(stream, n + 1, Len(stream))[i] = stream[(n + 1) + i - 1]
    <3>1. PICK first, last \in Int : first = n + 1 /\ last = Len(stream)
      BY <1>1
    <3>2. \A i \in first..last : stream[i] \in Piece
      BY <2>1, <3>1
    <3>3. /\ Len(SubSeq(stream, first, last)) = IF first <= last THEN last - first + 1 ELSE 0
          /\ \A i \in 1..(last - first + 1) : SubSeq(stream, first, last)[i] = stream[first + i - 1]
      BY <3>2, SubSeqProperties
    <3> QED BY <3>1, <3>3
  <2>3. Len(stream) - (n + 1) + 1 = Len(stream) - n /\ \A i \in Nat : (n + 1) + i - 1 = n + i
    <3>1. PICK length \in Nat : length = Len(stream)
      BY <1>1
    <3>2. length - (n + 1) + 1 = length - n /\ \A i \in Nat : (n + 1) + i - 1 = n + i
      OBVIOUS
    <3> QED BY <3>1, <3>2
  <2>4. n + 1 <= Len(stream) \/ Len(stream) - n = 0
    BY <1>1
  <2> QED BY <1>1, <2>2, <2>3, <2>4, SMTT(20)
<1>3. Len(stream') = input.cut - (pos + n) /\ pos + n \in 0..input.cut
  BY <1>1, <1>2
<1>4. ASSUME NEW p \in 1..Len(stream') PROVE stream'[p] = Sent(input.frames)[(pos + n) + p]
  <2>1. p \in 1..(Len(stream) - n) /\ n + p \in 1..Len(stream) /\ pos + (n + p) = (pos + n) + p
    BY <1>1, <1>2, <1>4
  <2>2. stream'[p] = stream[n + p]
    BY <1>2, <2>1
  <2>3. stream[n + p] = Sent(input.frames)[pos + (n + p)]
    BY <2>1 DEF At
  <2> QED BY <2>1, <2>2, <2>3
<1> QED BY <1>3, <1>4 DEF At

\* The line at a place: its n pieces.
LineTo(pos, n) ==
    /\ pos + n + 1 <= input.cut /\ Sent(input.frames)[pos + n + 1] = Eol
    /\ \A p \in 1..n : Sent(input.frames)[pos + p] # Eol
    /\ Line = <<>> <=> n = 0
    /\ Field(Line) = IF n = 1 THEN Sent(input.frames)[pos + 1] ELSE Other

LEMMA LineIs ==
  ASSUME input \in Inputs, stream \in Seq(Piece), NEW pos \in Nat, At(pos), LineEnds # {}
  PROVE  \E n \in Nat : LineTo(pos, n) /\ (input' = input /\ DropLine => At(pos + n + 1)')
<1>1. PICK e \in 1..Len(stream) : /\ stream[e] = Eol /\ \A j \in 1..(e - 1) : stream[j] # Eol
                                  /\ Line = SubSeq(stream, 1, e - 1)
  BY FirstLine
<1>2. PICK n \in Nat : n = e - 1
  OBVIOUS
<1>3. /\ input.cut \in Nat /\ Len(stream) = input.cut - pos /\ n + 1 \in 1..Len(stream) /\ Len(stream) \in Nat
      /\ pos + (n + 1) = pos + n + 1
  BY <1>2, InputTypes DEF At
<1>4. pos + n + 1 <= input.cut
  BY <1>3
<1>5. \A p \in 1..Len(stream) : stream[p] = Sent(input.frames)[pos + p]
  BY DEF At
<1>6. Sent(input.frames)[pos + n + 1] = Eol /\ \A p \in 1..n : Sent(input.frames)[pos + p] # Eol
  <2>1. stream[n + 1] = Eol
    BY <1>1, <1>2
  <2>2. \A p \in 1..n : p \in 1..Len(stream) /\ stream[p] # Eol
    BY <1>1, <1>2, <1>3
  <2> QED BY <1>3, <1>5, <2>1, <2>2
<1>7. Line \in Seq(Piece) /\ Len(Line) = n /\ \A p \in 1..n : Line[p] = stream[p]
  <2>1. \A i \in 1..n : stream[i] \in Piece
    BY <1>3
  <2>2. n - 1 + 1 = n /\ \A i \in 1..n : 1 + i - 1 = i
    OBVIOUS
  <2>3. (IF 1 <= n THEN n - 1 + 1 ELSE 0) = n
    OBVIOUS
  <2> QED BY <1>1, <1>2, <2>1, <2>2, <2>3, SubSeqProperties
<1>8. Line = <<>> <=> n = 0
  BY <1>7
<1>9. Field(Line) = IF n = 1 THEN Sent(input.frames)[pos + 1] ELSE Other
  <2>1. n = 1 => 1 \in 1..n /\ 1 \in 1..Len(stream)
    BY <1>3
  <2>2. n = 1 => Line[1] = Sent(input.frames)[pos + 1]
    BY <1>5, <1>7, <2>1
  <2> QED BY <1>7, <2>2 DEF Field
<1>10. ASSUME input' = input, DropLine PROVE At(pos + n + 1)'
  <2>1. stream' = SubSeq(stream, (n + 1) + 1, Len(stream))
    <3>1. n + 2 = (n + 1) + 1
      OBVIOUS
    <3> QED BY <1>7, <1>10, <3>1 DEF DropLine
  <2>2. n + 1 \in 0..Len(stream)
    BY <1>3
  <2>3. At(pos + (n + 1))'
    BY <1>10, <2>1, <2>2, DropTo
  <2> QED BY <1>3, <2>3
<1>11. LineTo(pos, n)
  BY <1>4, <1>6, <1>8, <1>9 DEF LineTo
<1> QED BY <1>10, <1>11

LEMMA NoLine ==
  ASSUME input \in Inputs, stream \in Seq(Piece), NEW pos \in Nat, At(pos), LineEnds = {},
         NEW e \in Nat, pos < e, Sent(input.frames)[e] = Eol
  PROVE  input.cut < e
<1> SUFFICES ASSUME e <= input.cut PROVE FALSE
  BY InputTypes
<1>1. input.cut \in Nat /\ Len(stream) = input.cut - pos /\ pos <= input.cut
  BY InputTypes DEF At
<1>2. e - pos \in 1..Len(stream) /\ pos + (e - pos) = e
  BY <1>1
<1>3. stream[e - pos] = Eol
  BY <1>2 DEF At
<1> QED BY <1>2, <1>3 DEF LineEnds

\* What is left of the contents after a line of it.
LEMMA LessRest ==
  ASSUME input \in Inputs, NEW k, NEW pos \in Nat, RestFrom(k, pos), NEW e \in Nat,
         pos < e, e <= Ends(k), Sent(input.frames)[e] = Eol
  PROVE  RestFrom(k, e)
<1>1. Ends(k) \in Nat /\ k \in 0..Len(input.frames)
  BY EndsLayout DEF RestFrom
<1>2. \A p \in (e + 1)..Ends(k) : p \in (pos + 1)..Ends(k)
  BY <1>1
<1>3. (pos < Ends(k) /\ Sent(input.frames)[Ends(k)] # Eol) <=> (e < Ends(k) /\ Sent(input.frames)[Ends(k)] # Eol)
  BY <1>1
<1> QED BY <1>1, <1>2, <1>3 DEF RestFrom

\* What a frame leaves behind its header part and what was read of its content.
LEMMA RestAfter ==
  ASSUME input \in Inputs, NEW k \in 0..(Len(input.frames) - 1), NEW pos,
         pos = ContentFrom(k) + SizeIn(FieldsOf(k))
  PROVE  RestFrom(k + 1, pos) /\ pos \in Nat
<1> PICK frame \in Frame : frame = NextFrame(k) /\ WellSent(frame)
  BY FrameLayout
<1> PICK c \in Seq(Piece) : c = frame.content
  BY DEF Frame
<1>1. PICK size \in 0..Len(c) : size = SizeIn(FieldsOf(k))
  BY FieldsAre DEF FieldsOf
<1>2. PICK from \in Nat : from = ContentFrom(k)
  <2>1. Ends(k) \in Nat /\ HeaderPieces(NextFrame(k)) \in Seq(Piece) /\ ContentFrom(k) = Ends(k) + Len(HeaderPieces(NextFrame(k)))
    BY FrameLayout
  <2>2. Len(HeaderPieces(NextFrame(k))) \in Nat
    BY <2>1
  <2> QED BY <2>1, <2>2
<1>3. Len(c) \in Nat /\ pos = from + size /\ pos \in Nat
  BY <1>1, <1>2
<1>4. Ends(k + 1) = from + Len(c) /\ \A p \in 1..Len(c) : Sent(input.frames)[from + p] = c[p]
  BY <1>2, FrameLayout
<1>5. ASSUME NEW p \in (pos + 1)..Ends(k + 1) PROVE Sent(input.frames)[p].is \notin FieldKinds
  <2>0. p \in Int /\ from + size + 1 <= p /\ p <= from + Len(c)
    <3>1. PICK length \in Nat : length = Len(c)
      BY <1>3
    <3>2. p \in (from + size + 1)..(from + length)
      BY <1>3, <1>4, <3>1
    <3> QED BY <3>1, <3>2
  <2>1. p - from \in 1..Len(c) /\ from + (p - from) = p
    <3>1. from \in Int /\ size \in Int /\ 0 <= size /\ Len(c) \in Int
      BY <1>1, <1>3
    <3>2. p - from \in Int /\ p - from >= 1 /\ p - from <= Len(c)
      BY <2>0, <3>1
    <3>3. from + (p - from) = p
      BY <2>0, <3>1
    <3> QED BY <3>1, <3>2, <3>3
  <2>2. Sent(input.frames)[p] = c[p - from]
    BY <1>4, <2>1
  <2>3. p - from \in DOMAIN c
    BY <2>1
  <2> QED BY <2>2, <2>3 DEF WellSent
<1>6. Found[k + 1].text <=> Len(c) > size /\ Last(c) # Eol
  BY <1>1, FoundAfter
<1>7. Len(c) > size => Last(c) = Sent(input.frames)[Ends(k + 1)]
  <2>1. Len(c) > size => Len(c) \in 1..Len(c)
    BY <1>1
  <2> QED BY <1>4, <2>1 DEF Last
<1>8. Len(c) > size <=> pos < Ends(k + 1)
  BY <1>1, <1>2, <1>3, <1>4
<1>9. k + 1 \in 0..Len(input.frames) /\ pos <= Ends(k + 1)
  BY <1>1, <1>3, <1>4, FrameLayout
<1> QED BY <1>3, <1>5, <1>6, <1>7, <1>8, <1>9 DEF RestFrom

LEMMA PlacesWithin ==
  ASSUME NEW end \in Nat, NEW length \in Nat, NEW size \in Nat, NEW ends \in Nat, end + length + 1 < size
  PROVE  /\ \A p \in 1..(length + 1) : end + p \in 1..size /\ ends + (end + p) = (ends + end) + p
         /\ end + length + 1 = end + (length + 1)
         /\ length + 1 \in 1..(length + 1) /\ (ends + end) + (length + 1) = (ends + end) + length + 1
         /\ \A p \in 1..length : p \in 1..(length + 1)
         /\ ends + end \in Nat
  OBVIOUS

\* The line after the first m of the next frame's header part, which begins after from.
LineIsAt(k, m, from, line) ==
    /\ line \in Seq(Piece) /\ Len(line) \in Nat \ {0} /\ from \in Nat
    /\ Ends(k) + LinesEnd(NextFrame(k), m + 1) = from + Len(line) + 1
    /\ \A p \in 1..Len(line) : Sent(input.frames)[from + p] = line[p] /\ Sent(input.frames)[from + p] # Eol
    /\ Sent(input.frames)[from + Len(line) + 1] = Eol

\* The places of the lines of a frame, and of the end of its header part.
LEMMA LinePlace ==
  ASSUME input \in Inputs, NEW k \in 0..(Len(input.frames) - 1), NEW m \in Nat, m + 1 <= Len(NextFrame(k).lines),
         NEW from, from = Ends(k) + LinesEnd(NextFrame(k), m),
         NEW line, line = NextFrame(k).lines[m + 1]
  PROVE  LineIsAt(k, m, from, line)
<1> PICK frame \in Frame : frame = NextFrame(k) /\ WellSent(frame)
  BY FrameLayout
<1>1. line \in Seq(Piece) /\ line = frame.lines[m + 1]
  BY LineLayout
<1>2. frame.lines \in Seq(Seq(Piece)) /\ m + 1 \in DOMAIN frame.lines
  <2>1. frame.lines \in Seq(Seq(Piece))
    BY DEF Frame
  <2> QED BY <2>1
<1>3. line # <<>> /\ \A j \in DOMAIN line : line[j] # Eol
  BY <1>1, <1>2 DEF WellSent
<1>4. Len(line) \in Nat \ {0} /\ DOMAIN line = 1..Len(line)
  BY <1>3
<1> PICK h : h = HeaderPieces(frame)
  OBVIOUS
<1>5. /\ LinesEnd(frame, m) \in Nat /\ LinesEnd(frame, m + 1) = LinesEnd(frame, m) + Len(line) + 1
      /\ LinesEnd(frame, m + 1) < Len(h) /\ Len(h) \in Nat
      /\ \A p \in 1..Len(line) : h[LinesEnd(frame, m) + p] = line[p]
      /\ h[LinesEnd(frame, m + 1)] = Eol
  <2>1. Len(h) \in Nat
    <3>1. PICK end \in Nat : end = LinesEnd(frame, Len(frame.lines))
      BY HeaderLayout
    <3>2. Len(HeaderPieces(frame)) = end + 1
      BY <3>1, HeaderLayout
    <3> QED BY <3>1, <3>2
  <2>2. m + 1 <= Len(frame.lines)
    OBVIOUS
  <2>3. /\ LinesEnd(frame, m) \in Nat /\ LinesEnd(frame, m + 1) = LinesEnd(frame, m) + Len(frame.lines[m + 1]) + 1
        /\ LinesEnd(frame, m + 1) < Len(HeaderPieces(frame))
        /\ \A p \in 1..Len(frame.lines[m + 1]) : HeaderPieces(frame)[LinesEnd(frame, m) + p] = frame.lines[m + 1][p]
        /\ HeaderPieces(frame)[LinesEnd(frame, m + 1)] = Eol
    BY <2>2, LineLayout
  <2> QED BY <1>1, <2>1, <2>3
<1>6. Ends(k) \in Nat /\ \A p \in 1..Len(h) : Sent(input.frames)[Ends(k) + p] = h[p]
  BY FrameLayout
<1>7. /\ \A p \in 1..(Len(line) + 1) :
            LinesEnd(frame, m) + p \in 1..Len(h) /\ Ends(k) + (LinesEnd(frame, m) + p) = from + p
      /\ LinesEnd(frame, m) + Len(line) + 1 = LinesEnd(frame, m) + (Len(line) + 1)
      /\ Len(line) + 1 \in 1..(Len(line) + 1) /\ from + (Len(line) + 1) = from + Len(line) + 1
      /\ \A p \in 1..Len(line) : p \in 1..(Len(line) + 1)
      /\ from \in Nat
  <2>1. PICK end \in Nat : end = LinesEnd(frame, m)
    BY <1>5
  <2>2. PICK size \in Nat : size = Len(h)
    BY <1>5
  <2>3. PICK length \in Nat : length = Len(line)
    BY <1>4
  <2>4. PICK ends \in Nat : ends = Ends(k)
    BY <1>6
  <2>5. end + length + 1 < size /\ from = ends + end
    BY <1>5, <2>1, <2>2, <2>3, <2>4
  <2>6. /\ \A p \in 1..(length + 1) : end + p \in 1..size /\ ends + (end + p) = (ends + end) + p
        /\ end + length + 1 = end + (length + 1)
        /\ length + 1 \in 1..(length + 1) /\ (ends + end) + (length + 1) = (ends + end) + length + 1
        /\ \A p \in 1..length : p \in 1..(length + 1)
        /\ ends + end \in Nat
    BY <2>5, Zenon, PlacesWithin
  <2> QED BY <2>1, <2>2, <2>3, <2>4, <2>5, <2>6
<1>8. ASSUME NEW p \in 1..Len(line) PROVE Sent(input.frames)[from + p] = line[p]
  <2>1. LinesEnd(frame, m) + p \in 1..Len(h) /\ Ends(k) + (LinesEnd(frame, m) + p) = from + p
    BY <1>7
  <2> QED BY <1>5, <1>6, <2>1
<1>9. Sent(input.frames)[from + Len(line) + 1] = Eol /\ Ends(k) + LinesEnd(frame, m + 1) = from + Len(line) + 1
  <2>1. LinesEnd(frame, m + 1) \in 1..Len(h) /\ Ends(k) + LinesEnd(frame, m + 1) = from + Len(line) + 1
    <3>1. LinesEnd(frame, m + 1) = LinesEnd(frame, m) + (Len(line) + 1)
      BY <1>5, <1>7
    <3>2. /\ LinesEnd(frame, m) + (Len(line) + 1) \in 1..Len(h)
          /\ Ends(k) + (LinesEnd(frame, m) + (Len(line) + 1)) = from + (Len(line) + 1)
      BY <1>7
    <3> QED BY <1>7, <3>1, <3>2
  <2> QED BY <1>5, <1>6, <2>1
<1>10. \A p \in 1..Len(line) : Sent(input.frames)[from + p] = line[p] /\ Sent(input.frames)[from + p] # Eol
  <2>1. \A p \in 1..Len(line) : line[p] # Eol
    BY <1>3, <1>4
  <2> QED BY <1>8, <2>1
<1>11. Ends(k) + LinesEnd(NextFrame(k), m + 1) = from + Len(line) + 1 /\ from \in Nat
  BY <1>7, <1>9
<1>12. Len(line) \in Nat \ {0} /\ Sent(input.frames)[from + Len(line) + 1] = Eol
  BY <1>4, <1>9
<1> QED BY <1>1, <1>10, <1>11, <1>12 DEF LineIsAt

LEMMA HeaderPlace ==
  ASSUME input \in Inputs, NEW k \in 0..(Len(input.frames) - 1)
  PROVE  LET last == Ends(k) + LinesEnd(NextFrame(k), Len(NextFrame(k).lines))
         IN /\ ContentFrom(k) = last + 1 /\ last \in Nat /\ Sent(input.frames)[last + 1] = Eol
            /\ Ends(k) < ContentFrom(k) /\ Ends(k) \in Nat /\ Len(NextFrame(k).lines) \in Nat
<1> PICK frame \in Frame : frame = NextFrame(k)
  BY FrameLayout
<1> PICK h : h = HeaderPieces(frame)
  OBVIOUS
<1>1. PICK end \in Nat : end = LinesEnd(frame, Len(frame.lines)) /\ Len(h) = end + 1 /\ h[Len(h)] = Eol
  BY HeaderLayout
<1>2. /\ Ends(k) \in Nat /\ \A p \in 1..Len(h) : Sent(input.frames)[Ends(k) + p] = h[p]
      /\ ContentFrom(k) = Ends(k) + Len(h)
  BY FrameLayout
<1>3. end + 1 \in 1..Len(h) /\ Ends(k) + (end + 1) = (Ends(k) + end) + 1
  BY <1>1, <1>2
<1>4. Sent(input.frames)[(Ends(k) + end) + 1] = Eol
  BY <1>1, <1>2, <1>3
<1>5. ContentFrom(k) = (Ends(k) + end) + 1 /\ Ends(k) + end \in Nat /\ Ends(k) < ContentFrom(k)
  BY <1>1, <1>2
<1>6. Len(frame.lines) \in Nat
  BY HeaderLayout
<1> QED BY <1>1, <1>2, <1>4, <1>5, <1>6

-----------------------------------------------------------------------------
(* What the header has read *)

LEMMA NoHeaderSays == HeaderSays(NoHeader, {})
  BY DEF HeaderSays, NoHeader, LengthsOf

LEMMA OtherField ==
  ASSUME NEW f, f.is \notin FieldKinds
  PROVE  WithField(f) = header
  BY DEF WithField, FieldKinds

LEMMA FieldEffect ==
  ASSUME NEW f, header \in HeaderType
  PROVE  /\ f.is = "length" => /\ WithField(f).length = "valid" /\ WithField(f).size = f.size
                               /\ WithField(f).charset = header.charset
         /\ f.is = "bad length" => /\ WithField(f).length = "invalid" /\ WithField(f).size = header.size
                                   /\ WithField(f).charset = header.charset
         /\ f.is = "charset" => /\ WithField(f).length = header.length /\ WithField(f).size = header.size
                                /\ WithField(f).charset = f.known
  BY DEF WithField, HeaderType

LEMMA WithFieldSays ==
  ASSUME header \in HeaderType, NEW frame \in Frame, WellSent(frame), NEW fields,
         fields \subseteq Fields(frame, FALSE), HeaderSays(header, fields), NEW f \in Fields(frame, FALSE)
  PROVE  HeaderSays(WithField(f), fields \cup {f})
<1>0. f \in Piece /\ Charset(FALSE).is = "charset" /\ Charset(FALSE).known = FALSE
  BY FieldsAre DEF Charset
<1>1. CASE f.is = "length"
  <2>1. \A g \in LengthsOf(fields \cup {f}) : g = f
    BY <1>1 DEF LengthsOf, WellSent
  <2>2. f \in LengthsOf(fields \cup {f})
    BY <1>1 DEF LengthsOf
  <2>3. f # Charset(FALSE)
    BY <1>0, <1>1
  <2> QED BY <1>1, <2>1, <2>2, <2>3, FieldEffect DEF HeaderSays
<1>2. CASE f.is = "bad length"
  <2>1. LengthsOf(fields \cup {f}) = {} /\ LengthsOf(fields) = {}
    BY <1>2 DEF LengthsOf, WellSent
  <2>2. f # Charset(FALSE)
    BY <1>0, <1>2
  <2>3. WithField(f).length # "valid" /\ WithField(f).charset = header.charset
    BY <1>2, FieldEffect
  <2> QED BY <2>1, <2>2, <2>3 DEF HeaderSays
<1>3. CASE f.is = "charset"
  <2>1. LengthsOf(fields \cup {f}) = LengthsOf(fields)
    BY <1>3 DEF LengthsOf
  <2>2. WithField(f).length = header.length /\ WithField(f).size = header.size /\ WithField(f).charset = f.known
    BY <1>3, FieldEffect
  <2>3. f = Charset(f.known) /\ f.known \in BOOLEAN
    BY <1>0, <1>3 DEF Piece, Charset
  <2>4. f.known = (Charset(FALSE) \notin fields \cup {f})
    <3>1. CASE f.known = FALSE
      BY <2>3, <3>1
    <3>2. CASE f.known = TRUE
      <4>1. Charset(FALSE) # f
        BY <1>0, <3>2
      <4>2. Charset(FALSE) \notin fields
        BY <1>0, <1>3, <4>1 DEF WellSent
      <4> QED BY <3>2, <4>1, <4>2
    <3> QED BY <2>3, <3>1, <3>2
  <2> QED BY <2>1, <2>2, <2>4 DEF HeaderSays
<1>4. CASE f.is \notin FieldKinds
  <2>1. LengthsOf(fields \cup {f}) = LengthsOf(fields)
    BY <1>4 DEF LengthsOf, FieldKinds
  <2>2. f # Charset(FALSE)
    BY <1>0, <1>4 DEF FieldKinds
  <2>3. WithField(f) = header
    BY <1>4, OtherField
  <2> QED BY <2>1, <2>2, <2>3 DEF HeaderSays
<1> QED BY <1>1, <1>2, <1>3, <1>4 DEF FieldKinds

\* The fields of the lines, one line after the other.
LEMMA SeenNext ==
  ASSUME input \in Inputs, NEW k \in 0..(Len(input.frames) - 1), NEW m \in Nat, m + 1 <= Len(NextFrame(k).lines)
  PROVE  /\ Field(NextFrame(k).lines[m + 1]) \in Fields(NextFrame(k), FALSE)
         /\ Seen(k, m) \subseteq Fields(NextFrame(k), FALSE)
         /\ m # 0 \/ ~Found[k].text => Seen(k, m + 1) = Seen(k, m) \cup {Field(NextFrame(k).lines[m + 1])}
         /\ Found[k].text => Seen(k, 1) = {}
         /\ Seen(k, 0) = {}
<1> PICK lines \in Seq(Seq(Piece)) : lines = NextFrame(k).lines
  BY FrameLayout DEF Frame
<1>1. DOMAIN lines = 1..Len(lines) /\ Len(lines) \in Nat
  OBVIOUS
<1>2. Fields(NextFrame(k), FALSE) = {Field(lines[i]) : i \in 1..Len(lines)}
  BY <1>1 DEF Fields
<1>3. \A i \in 1..(m + 1) : i \in 1..Len(lines)
  BY <1>1
<1>4. Field(lines[m + 1]) \in Fields(NextFrame(k), FALSE)
  <2>1. m + 1 \in 1..(m + 1)
    OBVIOUS
  <2>2. m + 1 \in 1..Len(lines)
    BY <1>3, <2>1
  <2> QED BY <1>2, <2>2
<1>5. Seen(k, m) \subseteq Fields(NextFrame(k), FALSE)
  <2>1. \A i \in 1..m : i \in 1..Len(lines)
    BY <1>3
  <2> QED BY <1>2, <2>1 DEF Seen
<1>6. m # 0 \/ ~Found[k].text => Seen(k, m + 1) = Seen(k, m) \cup {Field(lines[m + 1])}
  <2> SUFFICES ASSUME m # 0 \/ ~Found[k].text
               PROVE  Seen(k, m + 1) = Seen(k, m) \cup {Field(lines[m + 1])}
    OBVIOUS
  <2>1. {j \in 1..(m + 1) : ~(j = 1 /\ Found[k].text)} = {j \in 1..m : ~(j = 1 /\ Found[k].text)} \cup {m + 1}
    OBVIOUS
  <2> QED BY <2>1 DEF Seen
<1>7. Found[k].text => Seen(k, 1) = {}
  BY DEF Seen
<1>8. Seen(k, 0) = {}
  BY DEF Seen
<1> QED BY <1>4, <1>5, <1>6, <1>7, <1>8

LEMMA SeenAll ==
  ASSUME input \in Inputs, NEW k \in 0..(Len(input.frames) - 1)
  PROVE  Seen(k, Len(NextFrame(k).lines)) = FieldsOf(k)
<1>1. DOMAIN NextFrame(k).lines = 1..Len(NextFrame(k).lines)
  BY FrameLayout DEF Frame
<1> QED BY <1>1 DEF Seen, FieldsOf, Fields

-----------------------------------------------------------------------------
(* One line further *)

\* A line of what is left of a content, the first line of the next frame with it if it has no
\* end, or the first line of that frame.
LineFromRest(k, pos, e) ==
    \/ /\ RestFrom(k, e) /\ Field(Line).is \notin FieldKinds
    \/ /\ k \in 0..(Len(input.frames) - 1) /\ e = ContentFrom(k)
       /\ RestFrom(k + 1, e) /\ Found[k + 1].tasks = Found[k].tasks /\ Field(Line).is \notin FieldKinds
    \/ /\ k \in 0..(Len(input.frames) - 1) /\ Len(NextFrame(k).lines) >= 1 /\ Line # <<>>
       /\ e = Ends(k) + LinesEnd(NextFrame(k), 1)
       /\ (Field(Line).is \notin FieldKinds /\ Seen(k, 1) = {})
            \/ (Field(Line) \in Fields(NextFrame(k), FALSE) /\ Seen(k, 1) = {Field(Line)})

LEMMA FromRest ==
  ASSUME input \in Inputs, NEW k, NEW pos \in Nat, RestFrom(k, pos), At(pos), NEW n \in Nat, LineTo(pos, n)
  PROVE  LineFromRest(k, pos, pos + n + 1)
<1> DEFINE S == Sent(input.frames)
<1> PICK e \in Nat : e = pos + n + 1
  OBVIOUS
<1>0. /\ e <= input.cut /\ S[e] = Eol /\ \A p \in 1..n : S[pos + p] # Eol
      /\ Line = <<>> <=> n = 0
      /\ Field(Line) = IF n = 1 THEN S[pos + 1] ELSE Other
  BY DEF LineTo
<1>1. /\ k \in 0..Len(input.frames) /\ Ends(k) \in Nat /\ pos <= Ends(k) /\ Len(input.frames) \in Nat
      /\ \A p \in (pos + 1)..Ends(k) : S[p].is \notin FieldKinds
      /\ Found[k].text <=> pos < Ends(k) /\ S[Ends(k)] # Eol
  BY EndsLayout, InputTypes DEF RestFrom
<1>2. Other.is \notin FieldKinds /\ Other # Eol /\ Eol.is \notin FieldKinds
  BY DEF Other, Eol, FieldKinds
<1> HIDE DEF S
<1>3. pos < Ends(k) => Field(Line).is \notin FieldKinds
  <2>1. pos < Ends(k) => pos + 1 \in (pos + 1)..Ends(k)
    BY <1>1
  <2> QED BY <1>0, <1>1, <1>2, <2>1
<1>4. CASE e <= Ends(k)
  <2>1. pos < e /\ pos < Ends(k)
    BY <1>1, <1>4
  <2>2. RestFrom(k, e)
    BY <1>0, <1>4, <2>1, LessRest DEF S
  <2> QED BY <1>3, <2>1, <2>2 DEF LineFromRest
<1>5. CASE Ends(k) < e
  <2>1. k \in 0..(Len(input.frames) - 1)
    <3>1. k = Len(input.frames) => Ends(k) = Len(S)
      BY EndsLayout DEF S
    <3>2. e <= Len(S) /\ Len(S) \in Nat
      BY <1>0, InputTypes DEF S
    <3> QED BY <1>1, <1>5, <3>1, <3>2
  <2>2. Found[k].text <=> pos < Ends(k)
    <3>1. pos < Ends(k) => Ends(k) - pos \in 1..n /\ pos + (Ends(k) - pos) = Ends(k)
      BY <1>1, <1>5
    <3> QED BY <1>0, <1>1, <3>1
  <2>3. \A q \in Nat : pos < q /\ q < e => S[q] # Eol
    <3>1. \A q \in Nat : pos < q /\ q < e => q - pos \in 1..n /\ pos + (q - pos) = q
      OBVIOUS
    <3> QED BY <1>0, <3>1
  <2>4. /\ NextFrame(k) \in Frame /\ WellSent(NextFrame(k)) /\ Len(NextFrame(k).lines) \in Nat
        /\ Ends(k) < ContentFrom(k) /\ ContentFrom(k) \in Nat
    <3>1. ContentFrom(k) \in Nat
      BY <2>1, HeaderPlace
    <3> QED BY <2>1, <3>1, FrameLayout, HeaderPlace
  <2>5. CASE Len(NextFrame(k).lines) = 0
    <3>1. ContentFrom(k) = Ends(k) + 1 /\ S[Ends(k) + 1] = Eol
      <4>1. LinesEnd(NextFrame(k), 0) = 0
        BY <2>4, HeaderLayout
      <4> QED BY <1>1, <2>1, <2>5, <4>1, HeaderPlace DEF S
    <3>2. e = Ends(k) + 1
      <4>1. Ends(k) + 1 \in Nat /\ pos < Ends(k) + 1
        BY <1>1
      <4> QED BY <1>1, <1>5, <2>3, <3>1, <4>1
    <3>3. LengthsOf(FieldsOf(k)) = {} /\ SizeIn(FieldsOf(k)) = 0
      <4>1. Seen(k, 0) = {}
        BY DEF Seen
      <4>2. FieldsOf(k) = {}
        BY <2>1, <2>5, <4>1, SeenAll
      <4> QED BY <4>2 DEF LengthsOf, SizeIn
    <3>4. Found[k + 1].tasks = Found[k].tasks
      BY <2>1, <3>3, FoundAfter
    <3>5. RestFrom(k + 1, e)
      <4>1. e = ContentFrom(k) + SizeIn(FieldsOf(k))
        BY <2>4, <3>1, <3>2, <3>3
      <4> QED BY <2>1, <4>1, RestAfter
    <3>6. Field(Line).is \notin FieldKinds
      <4>1. pos = Ends(k) => n = 0
        BY <1>1, <3>2
      <4> QED BY <1>0, <1>1, <1>2, <1>3, <4>1
    <3> QED BY <2>1, <3>1, <3>2, <3>4, <3>5, <3>6 DEF LineFromRest
  <2>6. CASE Len(NextFrame(k).lines) # 0
    <3>1. PICK line : line = NextFrame(k).lines[1]
      OBVIOUS
    <3>2. /\ line \in Seq(Piece) /\ Len(line) \in Nat \ {0}
          /\ Ends(k) + LinesEnd(NextFrame(k), 1) = Ends(k) + Len(line) + 1
          /\ \A p \in 1..Len(line) : S[Ends(k) + p] = line[p] /\ S[Ends(k) + p] # Eol
          /\ S[Ends(k) + Len(line) + 1] = Eol
      <4>1. LinesEnd(NextFrame(k), 0) = 0 /\ Ends(k) = Ends(k) + 0
        BY <1>1, <2>4, HeaderLayout
      <4>2. 0 \in Nat /\ 0 + 1 <= Len(NextFrame(k).lines) /\ 0 + 1 = 1
        BY <2>4, <2>6
      <4>3. LineIsAt(k, 0, Ends(k), line)
        <5>1. Ends(k) = Ends(k) + LinesEnd(NextFrame(k), 0) /\ line = NextFrame(k).lines[0 + 1]
          BY <3>1, <4>1, <4>2
        <5> QED BY <2>1, <4>2, <5>1, LinePlace
      <4> QED BY <4>2, <4>3 DEF LineIsAt, S
    <3>3. e = Ends(k) + Len(line) + 1
      <4>1. ~(Ends(k) + Len(line) + 1 < e)
        <5>1. Ends(k) + Len(line) + 1 \in Nat /\ pos < Ends(k) + Len(line) + 1
          BY <1>1, <3>2
        <5> QED BY <2>3, <3>2, <5>1
      <4>2. ~(e < Ends(k) + Len(line) + 1)
        <5> SUFFICES ASSUME e < Ends(k) + Len(line) + 1
                     PROVE  FALSE
          OBVIOUS
        <5>1. Ends(k) \in Nat /\ Len(line) \in Nat
          BY <1>1, <3>2
        <5>2. PICK q \in Int : q = e - Ends(k)
          BY <5>1
        <5>3. q \in 1..Len(line) /\ Ends(k) + q = e
          BY <1>5, <5>1, <5>2
        <5>4. S[Ends(k) + q] # Eol
          BY <3>2, <5>3
        <5> QED BY <1>0, <5>3, <5>4
      <4>3. Ends(k) \in Nat /\ Len(line) \in Nat
        BY <1>1, <3>2
      <4> QED BY <4>1, <4>2, <4>3
    <3>4. n = (Ends(k) - pos) + Len(line) /\ n # 0
      <4>1. Ends(k) \in Nat /\ pos <= Ends(k) /\ Len(line) \in Nat \ {0}
        BY <1>1, <3>2
      <4>2. e = Ends(k) + Len(line) + 1 /\ e = pos + n + 1
        BY <3>3
      <4> QED BY <4>1, <4>2
    <3>5. CASE pos < Ends(k)
      <4>1. Seen(k, 1) = {}
        BY <2>2, <3>5 DEF Seen
      <4>2. Len(NextFrame(k).lines) >= 1
        BY <2>4, <2>6
      <4>3. Line # <<>>
        BY <1>0, <3>4
      <4>4. e = Ends(k) + LinesEnd(NextFrame(k), 1)
        BY <3>2, <3>3
      <4>5. Field(Line).is \notin FieldKinds
        BY <1>3, <3>5
      <4> QED BY <2>1, <4>1, <4>2, <4>3, <4>4, <4>5 DEF LineFromRest
    <3>6. CASE pos = Ends(k)
      <4>1. n = Len(line)
        BY <1>1, <3>2, <3>4, <3>6
      <4>2. Field(Line) = Field(line)
        <5>1. n = 1 => S[pos + 1] = line[1]
          BY <3>2, <3>6, <4>1
        <5> QED BY <1>0, <4>1, <5>1 DEF Field
      <4>3. Field(line) \in Fields(NextFrame(k), FALSE) /\ Seen(k, 1) = {Field(line)}
        <5>1. 0 \in Nat /\ 0 + 1 <= Len(NextFrame(k).lines) /\ 0 + 1 = 1
          BY <2>4, <2>6
        <5>2. ~Found[k].text
          BY <1>1, <2>2, <3>6
        <5>3. Field(line) \in Fields(NextFrame(k), FALSE) /\ Seen(k, 1) = Seen(k, 0) \cup {Field(line)} /\ Seen(k, 0) = {}
          BY <2>1, <3>1, <5>1, <5>2, SeenNext
        <5> QED BY <5>3
      <4>4. Len(NextFrame(k).lines) >= 1
        BY <2>4, <2>6
      <4>5. Line # <<>>
        BY <1>0, <3>4
      <4>6. e = Ends(k) + LinesEnd(NextFrame(k), 1)
        BY <3>2, <3>3
      <4> QED BY <2>1, <4>2, <4>3, <4>4, <4>5, <4>6 DEF LineFromRest
    <3> QED BY <1>1, <3>5, <3>6
  <2> QED BY <2>4, <2>5, <2>6
<1> QED BY <1>1, <1>4, <1>5

\* The next line of a header part, or its end.
LineFromLines(k, m, e) ==
    \/ /\ m + 1 \in 1..Len(NextFrame(k).lines) /\ e = Ends(k) + LinesEnd(NextFrame(k), m + 1) /\ Line # <<>>
       /\ Field(Line) \in Fields(NextFrame(k), FALSE) /\ Seen(k, m) \subseteq Fields(NextFrame(k), FALSE)
       /\ Seen(k, m + 1) = Seen(k, m) \cup {Field(Line)}
    \/ /\ m = Len(NextFrame(k).lines) /\ e = ContentFrom(k) /\ Line = <<>>
       /\ Seen(k, m) = FieldsOf(k)

LEMMA FromLines ==
  ASSUME input \in Inputs, NEW k \in 0..(Len(input.frames) - 1), NEW m \in 1..Len(NextFrame(k).lines),
         NEW pos \in Nat, pos = Ends(k) + LinesEnd(NextFrame(k), m), NEW n \in Nat, LineTo(pos, n)
  PROVE  LineFromLines(k, m, pos + n + 1)
<1> DEFINE S == Sent(input.frames)
<1>0. /\ S[pos + n + 1] = Eol /\ \A p \in 1..n : S[pos + p] # Eol
      /\ Line = <<>> <=> n = 0
      /\ Field(Line) = IF n = 1 THEN S[pos + 1] ELSE Other
  BY DEF LineTo
<1> HIDE DEF S
<1>1. m \in Nat /\ m # 0 /\ Len(NextFrame(k).lines) \in Nat
  BY HeaderPlace
<1>2. CASE m = Len(NextFrame(k).lines)
  <2>1. ContentFrom(k) = pos + 1 /\ S[pos + 1] = Eol
    BY <1>2, HeaderPlace DEF S
  <2>2. n = 0
    <3>1. n # 0 => 1 \in 1..n
      OBVIOUS
    <3> QED BY <1>0, <2>1, <3>1
  <2>3. Seen(k, m) = FieldsOf(k)
    BY <1>2, SeenAll
  <2> QED BY <1>0, <1>2, <2>1, <2>2, <2>3 DEF LineFromLines
<1>3. CASE m + 1 <= Len(NextFrame(k).lines)
  <2>1. PICK line : line = NextFrame(k).lines[m + 1]
    OBVIOUS
  <2>2. /\ line \in Seq(Piece) /\ Len(line) \in Nat \ {0}
        /\ Ends(k) + LinesEnd(NextFrame(k), m + 1) = pos + Len(line) + 1
        /\ \A p \in 1..Len(line) : S[pos + p] = line[p] /\ S[pos + p] # Eol
        /\ S[pos + Len(line) + 1] = Eol
    <3>1. LineIsAt(k, m, pos, line)
      BY <1>1, <1>3, <2>1, LinePlace
    <3> QED BY <3>1 DEF LineIsAt, S
  <2>3. n = Len(line)
    <3>1. ~(n < Len(line))
      <4>1. n < Len(line) => n + 1 \in 1..Len(line) /\ pos + (n + 1) = pos + n + 1
        BY <2>2, SMTT(20)
      <4> QED BY <1>0, <2>2, <4>1
    <3>2. ~(Len(line) < n)
      <4>1. Len(line) < n => Len(line) + 1 \in 1..n /\ pos + (Len(line) + 1) = pos + Len(line) + 1
        BY <2>2
      <4> QED BY <1>0, <2>2, <4>1
    <3> QED BY <2>2, <3>1, <3>2
  <2>4. Field(Line) = Field(line)
    <3>1. n = 1 => S[pos + 1] = line[1]
      BY <2>2, <2>3
    <3> QED BY <1>0, <2>3, <3>1 DEF Field
  <2>5. /\ Field(line) \in Fields(NextFrame(k), FALSE) /\ Seen(k, m) \subseteq Fields(NextFrame(k), FALSE)
        /\ Seen(k, m + 1) = Seen(k, m) \cup {Field(line)}
    BY <1>1, <1>3, <2>1, SeenNext
  <2>6. m + 1 \in 1..Len(NextFrame(k).lines)
    BY <1>1, <1>3
  <2> QED BY <1>0, <2>2, <2>3, <2>4, <2>5, <2>6 DEF LineFromLines
<1> QED BY <1>1, <1>2, <1>3

-----------------------------------------------------------------------------
(* The steps of the read loop *)

LEMMA FrameIs ==
  ASSUME NEW k \in Nat, NEW pos \in Nat
  PROVE  InRest(k, pos)' \/ InLines(k, pos)' \/ InSkip(k, pos)' \/ InContent(k)' \/ AllRead' => FrameInv'
  BY DEF FrameInv

\* Where the next frame is.
LEMMA FramePlace ==
  ASSUME input \in Inputs, NEW k \in 0..(Len(input.frames) - 1)
  PROVE  /\ k \in Nat /\ k + 1 \in 0..Len(input.frames) /\ k + 1 \in Nat /\ input.cut \in Nat
         /\ Ends(k) \in Nat /\ ContentFrom(k) \in Nat /\ Ends(k) < ContentFrom(k)
         /\ SizeIn(FieldsOf(k)) \in Nat
         /\ SizeIn(FieldsOf(k)) \in 0..Len(NextFrame(k).content) /\ NextFrame(k).content \in Seq(Piece)
         /\ Ends(k + 1) = ContentFrom(k) + Len(NextFrame(k).content)
         /\ Sent(input.frames)[ContentFrom(k)] = Eol
         /\ \A f \in LengthsOf(FieldsOf(k)) : SizeIn(FieldsOf(k)) = f.size
<1>1. NextFrame(k) \in Frame /\ WellSent(NextFrame(k)) /\ k + 1 \in 0..Len(input.frames)
  BY FrameLayout
<1>2. /\ SizeIn(FieldsOf(k)) \in 0..Len(NextFrame(k).content)
      /\ \A f \in LengthsOf(FieldsOf(k)) : SizeIn(FieldsOf(k)) = f.size
  BY <1>1, FieldsAre DEF FieldsOf
<1>3. ContentFrom(k) \in Nat /\ Ends(k) < ContentFrom(k) /\ Sent(input.frames)[ContentFrom(k)] = Eol
  BY HeaderPlace
<1>4. input.cut \in Nat /\ Len(input.frames) \in Nat
  BY InputTypes
<1> QED BY <1>1, <1>2, <1>3, <1>4, FrameLayout

\* The content of a frame is not reached.
LEMMA NotReached ==
  ASSUME input \in Inputs, NEW k \in 0..(Len(input.frames) - 1), Found[k + 1].tasks = Found[k].tasks,
         input.cut <= ContentFrom(k) + SizeIn(FieldsOf(k))
  PROVE  Found[Len(input.frames)].tasks = Found[k].tasks
<1>1. PICK size, length \in Nat : size = SizeIn(FieldsOf(k)) /\ size \in 0..length
                                 /\ Ends(k + 1) = ContentFrom(k) + length /\ ContentFrom(k) \in Nat
  <2>1. PICK c \in Seq(Piece) : c = NextFrame(k).content
    BY FramePlace
  <2>2. Len(c) \in Nat
    OBVIOUS
  <2>3. PICK size \in Nat : size = SizeIn(FieldsOf(k))
    BY FramePlace
  <2>4. size \in 0..Len(c) /\ Ends(k + 1) = ContentFrom(k) + Len(c) /\ ContentFrom(k) \in Nat
    BY <2>1, <2>3, FramePlace
  <2> QED BY <2>2, <2>3, <2>4
<1>2. input.cut <= Ends(k + 1)
  BY <1>1, InputTypes
<1> QED BY <1>2, FramePlace, NothingMore

LEMMA StepFromRest ==
  ASSUME ReaderTypeOK, ReaderStep, NEW k, NEW pos \in Nat, InRest(k, pos)
  PROVE  FrameInv'
<1>0. /\ input \in Inputs /\ stream \in Seq(Piece) /\ reader = "header" /\ header = NoHeader
      /\ started = Found[k].tasks /\ RestFrom(k, pos) /\ At(pos) /\ NoHeader.length # "valid"
      /\ k \in 0..Len(input.frames) /\ Len(input.frames) \in Nat /\ k \in Nat
  BY InputTypes DEF ReaderTypeOK, InRest, RestFrom, NoHeader
<1>1. CASE ReadHeaderLine \/ NoLength
  <2>1. /\ LineEnds # {} /\ input' = input /\ reader' = "header" /\ started' = started /\ DropLine
        /\ (Line # <<>> /\ header' = WithField(Field(Line))) \/ (Line = <<>> /\ header' = NoHeader)
    BY <1>0, <1>1 DEF ReadHeaderLine, NoLength, HeaderPartEnds
  <2>2. PICK n \in Nat : LineTo(pos, n) /\ At(pos + n + 1)'
    BY <1>0, <2>1, LineIs
  <2>3. PICK e \in Nat : e = pos + n + 1
    OBVIOUS
  <2>4. At(e)' /\ LineFromRest(k, pos, e)
    BY <1>0, <2>2, <2>3, FromRest
  <2>5. Field(Line).is \notin FieldKinds => header' = NoHeader
    BY <1>0, <2>1, OtherField
  <2>6. CASE RestFrom(k, e) /\ Field(Line).is \notin FieldKinds
    <3>1. InRest(k, e)'
      BY <1>0, <2>1, <2>4, <2>5, <2>6, SameFrames DEF InRest
    <3> QED BY <1>0, <3>1, FrameIs
  <2>7. CASE /\ k \in 0..(Len(input.frames) - 1) /\ e = ContentFrom(k)
             /\ RestFrom(k + 1, e) /\ Found[k + 1].tasks = Found[k].tasks /\ Field(Line).is \notin FieldKinds
    <3>1. InRest(k + 1, e)'
      BY <1>0, <2>1, <2>4, <2>5, <2>7, SameFrames DEF InRest
    <3> QED BY <1>0, <3>1, FrameIs
  <2>8. CASE /\ k \in 0..(Len(input.frames) - 1) /\ Len(NextFrame(k).lines) >= 1 /\ Line # <<>>
             /\ e = Ends(k) + LinesEnd(NextFrame(k), 1)
             /\ (Field(Line).is \notin FieldKinds /\ Seen(k, 1) = {})
                  \/ (Field(Line) \in Fields(NextFrame(k), FALSE) /\ Seen(k, 1) = {Field(Line)})
    <3>1. HeaderSays(header', Seen(k, 1))
      <4>1. CASE Field(Line).is \notin FieldKinds /\ Seen(k, 1) = {}
        BY <2>5, <4>1, NoHeaderSays
      <4>2. CASE Field(Line) \in Fields(NextFrame(k), FALSE) /\ Seen(k, 1) = {Field(Line)}
        <5>1. HeaderSays(header, {}) /\ header \in HeaderType
          BY <1>0, NoHeaderSays DEF NoHeader, HeaderType
        <5>2. NextFrame(k) \in Frame /\ WellSent(NextFrame(k))
          BY <1>0, <2>8, FrameLayout
        <5>3. HeaderSays(WithField(Field(Line)), {} \cup {Field(Line)})
          BY <4>2, <5>1, <5>2, WithFieldSays
        <5> QED BY <2>1, <2>8, <4>2, <5>3
      <4> QED BY <2>8, <4>1, <4>2
    <3>2. HeaderSays(header, Seen(k, 1))'
      BY <2>1, <3>1, SameFrames DEF HeaderSays
    <3>3. 1 \in 1..Len(NextFrame(k).lines)
      BY <1>0, <2>8, HeaderPlace
    <3>4. LinesEnd(NextFrame(k), 1)' = LinesEnd(NextFrame(k), 1)
      BY <2>1 DEF LinesEnd, NextFrame
    <3>5. At(Ends(k) + LinesEnd(NextFrame(k), 1))'
      BY <2>1, <2>4, <2>8, <3>4, SameFrames
    <3>6. InLines(k, 1)'
      BY <1>0, <2>1, <2>8, <3>2, <3>3, <3>5, SameFrames DEF InLines
    <3> QED BY <1>0, <3>6, FrameIs
  <2> QED BY <2>4, <2>6, <2>7, <2>8 DEF LineFromRest
<1>2. CASE ReadEnd
  <2>1. /\ LineEnds = {} /\ reader' = "ended" /\ started' = started /\ input' = input
    BY <1>0, <1>2 DEF ReadEnd
  <2>2. Found[Len(input.frames)].tasks = Found[k].tasks
    <3>1. CASE k \in 0..(Len(input.frames) - 1)
      <4>1. PICK from \in Nat : from = ContentFrom(k) /\ pos < from /\ Sent(input.frames)[from] = Eol
        <5>1. pos <= Ends(k)
          BY <1>0 DEF RestFrom
        <5> QED BY <1>0, <3>1, <5>1, FramePlace
      <4>2. input.cut < from
        BY <1>0, <2>1, <4>1, NoLine
      <4>3. Found[k + 1].tasks = Found[k].tasks
        BY <1>0, <3>1, <4>1, <4>2, FoundAfter, InputTypes
      <4>4. input.cut <= ContentFrom(k) + SizeIn(FieldsOf(k))
        BY <1>0, <3>1, <4>1, <4>2, FramePlace
      <4> QED BY <1>0, <3>1, <4>3, <4>4, NotReached
    <3>2. CASE k = Len(input.frames)
      BY <3>2
    <3> QED BY <1>0, <3>1, <3>2
  <2>3. AllRead'
    BY <1>0, <2>1, <2>2, SameFrames DEF AllRead
  <2> QED BY <1>0, <2>3, FrameIs
<1>3. ReadHeaderLine \/ NoLength \/ ReadEnd
  BY <1>0 DEF ReaderStep, RefuseOversized, BeginContent, HeaderPartEnds, SkipContent, Skipped, ReadContent
<1> QED BY <1>1, <1>2, <1>3

\* The end of a line is in its header part.
LEMMA LinePlaced ==
  ASSUME input \in Inputs, NEW k \in 0..(Len(input.frames) - 1), NEW m \in 1..Len(NextFrame(k).lines)
  PROVE  LinesEnd(NextFrame(k), m) \in Nat /\ LinesEnd(NextFrame(k), m) < Len(HeaderPieces(NextFrame(k)))
<1>1. PICK frame \in Frame : frame = NextFrame(k)
  BY FrameLayout
<1>2. PICK l \in Nat : m = l + 1 /\ l + 1 <= Len(frame.lines)
  <2>1. Len(frame.lines) \in Nat
    BY <1>1, HeaderPlace
  <2>2. m - 1 \in Nat /\ m = (m - 1) + 1 /\ m <= Len(frame.lines)
    BY <1>1, <2>1
  <2> QED BY <2>2
<1>3. /\ LinesEnd(frame, l) \in Nat /\ Len(frame.lines[l + 1]) \in Nat
      /\ LinesEnd(frame, l + 1) = LinesEnd(frame, l) + Len(frame.lines[l + 1]) + 1
      /\ LinesEnd(frame, l + 1) < Len(HeaderPieces(frame))
  <2>1. /\ frame.lines[l + 1] \in Seq(Piece) /\ LinesEnd(frame, l) \in Nat
        /\ LinesEnd(frame, l + 1) = LinesEnd(frame, l) + Len(frame.lines[l + 1]) + 1
        /\ LinesEnd(frame, l + 1) < Len(HeaderPieces(frame))
    <3>1. l + 1 <= Len(frame.lines)
      BY <1>2
    <3>2. /\ frame.lines[l + 1] \in Seq(Piece) /\ LinesEnd(frame, l) \in Nat
          /\ LinesEnd(frame, l + 1) = LinesEnd(frame, l) + Len(frame.lines[l + 1]) + 1
          /\ LinesEnd(frame, l + 1) < Len(HeaderPieces(frame))
          /\ \A p \in 1..Len(frame.lines[l + 1]) : HeaderPieces(frame)[LinesEnd(frame, l) + p] = frame.lines[l + 1][p]
          /\ HeaderPieces(frame)[LinesEnd(frame, l + 1)] = Eol
      BY <3>1, LineLayout
    <3> QED BY <3>2
  <2>2. PICK line \in Seq(Piece) : line = frame.lines[l + 1]
    BY <2>1
  <2>3. Len(line) \in Nat
    OBVIOUS
  <2> QED BY <2>1, <2>2, <2>3
<1>4. LinesEnd(frame, l + 1) \in Nat
  <2>1. PICK before, length \in Nat : before = LinesEnd(frame, l) /\ length = Len(frame.lines[l + 1])
    BY <1>3
  <2>2. LinesEnd(frame, l + 1) = before + length + 1
    BY <1>3, <2>1
  <2> QED BY <2>2
<1> QED BY <1>1, <1>2, <1>3, <1>4

LEMMA StepFromLines ==
  ASSUME ReaderTypeOK, ReaderStep, NEW k, NEW m, InLines(k, m)
  PROVE  FrameInv'
<1> PICK pos : pos = Ends(k) + LinesEnd(NextFrame(k), m)
  OBVIOUS
<1>0. /\ input \in Inputs /\ stream \in Seq(Piece) /\ reader = "header" /\ header \in HeaderType
      /\ started = Found[k].tasks /\ HeaderSays(header, Seen(k, m)) /\ At(pos)
      /\ k \in 0..(Len(input.frames) - 1) /\ m \in 1..Len(NextFrame(k).lines)
  BY DEF ReaderTypeOK, InLines, HeaderType
<1>1. /\ k \in Nat /\ k + 1 \in 0..Len(input.frames) /\ k + 1 \in Nat /\ pos \in Nat /\ m \in Nat /\ m + 1 \in Nat
      /\ NextFrame(k) \in Frame /\ WellSent(NextFrame(k))
  BY <1>0, FramePlace, FrameLayout, HeaderPlace, InputTypes DEF At
<1>2. ASSUME LineEnds # {}, input' = input, DropLine
      PROVE  \E n \in Nat : LineTo(pos, n) /\ At(pos + n + 1)' /\ LineFromLines(k, m, pos + n + 1)
  <2>1. PICK n \in Nat : LineTo(pos, n) /\ At(pos + n + 1)'
    BY <1>0, <1>1, <1>2, LineIs
  <2>2. PICK from \in Nat : from = pos
    BY <1>1
  <2>3. LineFromLines(k, m, from + n + 1)
    BY <1>0, <1>1, <2>1, <2>2, FromLines
  <2> QED BY <2>1, <2>2, <2>3
<1>3. CASE ReadHeaderLine
  <2>1. /\ LineEnds # {} /\ input' = input /\ reader' = "header" /\ started' = started /\ DropLine
        /\ Line # <<>> /\ header' = WithField(Field(Line))
    BY <1>0, <1>3 DEF ReadHeaderLine
  <2>2. PICK e : At(e)' /\ LineFromLines(k, m, e)
    BY <1>2, <2>1
  <2>3. /\ m + 1 \in 1..Len(NextFrame(k).lines) /\ e = Ends(k) + LinesEnd(NextFrame(k), m + 1)
        /\ Field(Line) \in Fields(NextFrame(k), FALSE) /\ Seen(k, m) \subseteq Fields(NextFrame(k), FALSE)
        /\ Seen(k, m + 1) = Seen(k, m) \cup {Field(Line)}
    BY <2>1, <2>2 DEF LineFromLines
  <2>4. HeaderSays(header', Seen(k, m + 1))
    <3>1. HeaderSays(WithField(Field(Line)), Seen(k, m) \cup {Field(Line)})
      BY <1>0, <1>1, <2>3, WithFieldSays
    <3> QED BY <2>1, <2>3, <3>1
  <2>5. HeaderSays(header, Seen(k, m + 1))'
    BY <2>1, <2>4, SameFrames DEF HeaderSays
  <2>6. LinesEnd(NextFrame(k), m + 1)' = LinesEnd(NextFrame(k), m + 1)
    BY <2>1 DEF LinesEnd, NextFrame
  <2>7. At(Ends(k) + LinesEnd(NextFrame(k), m + 1))'
    BY <2>1, <2>2, <2>3, <2>6, SameFrames
  <2>8. InLines(k, m + 1)'
    BY <1>0, <2>1, <2>3, <2>5, <2>7, SameFrames DEF InLines
  <2> QED BY <1>1, <2>8, FrameIs
<1>4. CASE NoLength \/ RefuseOversized \/ BeginContent
  <2>1. LineEnds # {} /\ Line = <<>> /\ input' = input /\ DropLine
    BY <1>4 DEF NoLength, RefuseOversized, BeginContent, HeaderPartEnds
  <2>2. PICK e : At(e)' /\ LineFromLines(k, m, e)
    BY <1>2, <2>1
  <2>3. e = ContentFrom(k) /\ Seen(k, m) = FieldsOf(k)
    BY <2>1, <2>2 DEF LineFromLines
  <2>4. HeaderSays(header, FieldsOf(k)) /\ At(ContentFrom(k))'
    BY <1>0, <2>1, <2>2, <2>3, SameFrames
  <2>5. ContentFrom(k) \in Nat /\ ContentFrom(k) <= input.cut
    BY <1>0, <2>1, <2>4, FramePlace, SameFrames DEF At
  <2>6. LengthsOf(FieldsOf(k)) # {} => header.size = SizeIn(FieldsOf(k))
    <3>1. ASSUME NEW f \in LengthsOf(FieldsOf(k)) PROVE header.size = SizeIn(FieldsOf(k))
      BY <1>0, <2>4, FramePlace DEF HeaderSays
    <3> QED BY <3>1
  <2>7. CASE NoLength
    <3>1. reader' = "header" /\ header' = NoHeader /\ started' = started /\ LengthsOf(FieldsOf(k)) = {}
      BY <1>0, <2>4, <2>7 DEF NoLength, HeaderSays
    <3>2. Found[k + 1].tasks = Found[k].tasks
      BY <1>0, <3>1, FoundAfter
    <3>3. RestFrom(k + 1, ContentFrom(k))
      <4>1. ContentFrom(k) = ContentFrom(k) + SizeIn(FieldsOf(k))
        BY <2>5, <3>1 DEF SizeIn
      <4> QED BY <1>0, <4>1, RestAfter
    <3>4. InRest(k + 1, ContentFrom(k))'
      BY <1>0, <2>1, <2>4, <3>1, <3>2, <3>3, SameFrames DEF InRest
    <3> QED BY <1>1, <2>1, <2>5, <3>4, SameFrames, FrameIs
  <2>8. CASE RefuseOversized
    <3>1. /\ reader' = "skip" /\ header' = header /\ LengthsOf(FieldsOf(k)) # {} /\ SizeIn(FieldsOf(k)) > MaxSize
          /\ started' = Append(started, Problem("invalid request"))
      BY <1>0, <2>4, <2>6, <2>8 DEF RefuseOversized, HeaderSays, Oversized, StartTask
    <3>2. started' = Found[k + 1].tasks
      BY <1>0, <2>5, <3>1, FoundAfter
    <3>3. header'.size = ContentFrom(k) + SizeIn(FieldsOf(k)) - ContentFrom(k)
      <4>1. PICK c, size \in Nat : c = ContentFrom(k) /\ size = SizeIn(FieldsOf(k))
        BY <1>0, FramePlace
      <4>2. header'.size = size
        BY <2>6, <3>1, <4>1
      <4>3. c + size - c = size
        BY <4>1
      <4> QED BY <4>1, <4>2, <4>3
    <3>4. PICK c \in Nat : c = ContentFrom(k)
      BY <2>5
    <3>5. InSkip(k, c)'
      BY <1>0, <2>1, <2>4, <3>1, <3>2, <3>3, <3>4, SameFrames DEF InSkip
    <3> QED BY <1>1, <3>5, FrameIs
  <2>9. CASE BeginContent
    <3>1. /\ reader' = "content" /\ header' = header /\ LengthsOf(FieldsOf(k)) # {} /\ ~(SizeIn(FieldsOf(k)) > MaxSize)
          /\ started' = started
      BY <1>0, <2>4, <2>6, <2>9 DEF BeginContent, HeaderSays, Oversized
    <3>2. SizeIn(FieldsOf(k)) <= MaxSize
      BY <1>0, <3>1, FramePlace, MaxSizeAssumption
    <3>3. header'.charset = (Charset(FALSE) \notin FieldsOf(k)) /\ header'.size = SizeIn(FieldsOf(k))
      <4>1. header.charset = (Charset(FALSE) \notin FieldsOf(k))
        BY <2>4 DEF HeaderSays
      <4>2. header.size = SizeIn(FieldsOf(k))
        BY <2>6, <3>1
      <4> QED BY <3>1, <4>1, <4>2
    <3>4. InContent(k)'
      <4>1. k \in (0..(Len(input.frames) - 1))' /\ LengthsOf(FieldsOf(k))' # {} /\ (SizeIn(FieldsOf(k)) <= MaxSize)'
        BY <1>0, <2>1, <3>1, <3>2, SameFrames
      <4>2. At(ContentFrom(k))' /\ reader' = "content" /\ (started = Found[k].tasks)'
        BY <1>0, <2>1, <2>4, <3>1, SameFrames
      <4>3. (header.size = SizeIn(FieldsOf(k)))'
        BY <2>1, <3>3, SameFrames
      <4>4. (header.charset = (Charset(FALSE) \notin FieldsOf(k)))'
        <5>1. PICK unknown : unknown = Charset(FALSE)
          OBVIOUS
        <5>2. FieldsOf(k)' = FieldsOf(k) /\ header'.charset = (unknown \notin FieldsOf(k))
          BY <2>1, <3>3, <5>1, SameFrames
        <5>3. header'.charset = (unknown \notin FieldsOf(k)')
          BY <5>2
        <5> QED BY <5>1, <5>3
      <4> QED BY <4>1, <4>2, <4>3, <4>4 DEF InContent
    <3> QED BY <1>1, <3>4, FrameIs
  <2> QED BY <1>4, <2>7, <2>8, <2>9
<1>5. CASE ReadEnd
  <2>1. /\ LineEnds = {} /\ reader' = "ended" /\ started' = started /\ input' = input
    BY <1>0, <1>5 DEF ReadEnd
  <2>2. PICK from \in Nat : from = ContentFrom(k) /\ Sent(input.frames)[from] = Eol /\ pos < from
    <3>1. LinesEnd(NextFrame(k), m) \in Nat /\ LinesEnd(NextFrame(k), m) < Len(HeaderPieces(NextFrame(k)))
      BY <1>0, LinePlaced
    <3>2. Ends(k) \in Nat /\ HeaderPieces(NextFrame(k)) \in Seq(Piece)
          /\ ContentFrom(k) = Ends(k) + Len(HeaderPieces(NextFrame(k)))
      BY <1>0, FrameLayout
    <3>3. PICK end, length, ends \in Nat : end = LinesEnd(NextFrame(k), m) /\ ends = Ends(k)
                                         /\ length = Len(HeaderPieces(NextFrame(k)))
      BY <3>1, <3>2
    <3>4. pos = ends + end /\ ContentFrom(k) = ends + length /\ end < length
      BY <3>1, <3>2, <3>3
    <3>5. ContentFrom(k) \in Nat /\ pos < ContentFrom(k)
      BY <3>4
    <3>6. Sent(input.frames)[ContentFrom(k)] = Eol
      BY <1>0, FramePlace
    <3> QED BY <3>5, <3>6
  <2>3. input.cut < from
    BY <1>0, <1>1, <2>1, <2>2, NoLine
  <2>4. Found[k + 1].tasks = Found[k].tasks
    BY <1>0, <2>2, <2>3, FoundAfter, InputTypes
  <2>5. input.cut <= ContentFrom(k) + SizeIn(FieldsOf(k))
    BY <1>0, <2>2, <2>3, FramePlace
  <2>6. AllRead'
    BY <1>0, <2>1, <2>4, <2>5, NotReached, SameFrames DEF AllRead
  <2> QED BY <1>1, <2>6, FrameIs
<1>6. ReadHeaderLine \/ NoLength \/ RefuseOversized \/ BeginContent \/ ReadEnd
  BY <1>0 DEF ReaderStep, SkipContent, Skipped, ReadContent
<1> QED BY <1>3, <1>4, <1>5, <1>6

\* What has arrived of the content of a frame is that content.
LEMMA ContentIs ==
  ASSUME input \in Inputs, stream \in Seq(Piece), NEW k \in 0..(Len(input.frames) - 1), At(ContentFrom(k)),
         NEW size \in Nat, size <= Len(stream), size = SizeIn(FieldsOf(k))
  PROVE  SubSeq(stream, 1, size) = SubSeq(NextFrame(k).content, 1, size)
<1>1. PICK c \in Seq(Piece) : c = NextFrame(k).content
  BY FramePlace
<1>2. size <= Len(c)
  BY <1>1, FramePlace
<1>3. /\ \A i \in 1..size : i \in 1..Len(stream) /\ i \in 1..Len(c)
      /\ \A i \in 1..Len(stream) : stream[i] \in Piece
      /\ \A i \in 1..Len(c) : c[i] \in Piece
  BY <1>2
<1>4. \A i \in 1..size : stream[i] = c[i]
  <2>1. \A i \in 1..Len(stream) : stream[i] = Sent(input.frames)[ContentFrom(k) + i]
    BY DEF At
  <2>2. \A i \in 1..Len(c) : c[i] = Sent(input.frames)[ContentFrom(k) + i]
    BY <1>1, FrameLayout
  <2> QED BY <1>3, <2>1, <2>2
<1>5. PICK one : one = SubSeq(stream, 1, size)
  OBVIOUS
<1>6. PICK other : other = SubSeq(c, 1, size)
  OBVIOUS
<1>7. one \in Seq(Piece) /\ Len(one) = size /\ \A i \in 1..size : one[i] = stream[i]
  <2>1. /\ one \in Seq(Piece) /\ Len(one) = IF 1 <= size THEN size - 1 + 1 ELSE 0
        /\ \A i \in 1..(size - 1 + 1) : one[i] = stream[1 + i - 1]
    BY <1>3, <1>5, SubSeqProperties
  <2> QED BY <2>1
<1>8. other \in Seq(Piece) /\ Len(other) = size /\ \A i \in 1..size : other[i] = c[i]
  <2>1. /\ other \in Seq(Piece) /\ Len(other) = IF 1 <= size THEN size - 1 + 1 ELSE 0
        /\ \A i \in 1..(size - 1 + 1) : other[i] = c[1 + i - 1]
    BY <1>3, <1>6, SubSeqProperties
  <2> QED BY <2>1
<1>9. one = other
  BY <1>4, <1>7, <1>8, SeqEqual
<1> QED BY <1>1, <1>5, <1>6, <1>9

LEMMA StepFromContent ==
  ASSUME ReaderTypeOK, ReaderStep, NEW k, InContent(k)
  PROVE  FrameInv'
<1>0. /\ input \in Inputs /\ stream \in Seq(Piece) /\ reader = "content" /\ Len(stream) \in Nat
      /\ started = Found[k].tasks /\ At(ContentFrom(k)) /\ k \in 0..(Len(input.frames) - 1)
      /\ LengthsOf(FieldsOf(k)) # {} /\ SizeIn(FieldsOf(k)) <= MaxSize
      /\ header.size = SizeIn(FieldsOf(k)) /\ header.charset = (Charset(FALSE) \notin FieldsOf(k))
  BY DEF ReaderTypeOK, InContent
<1>1. PICK from, size \in Nat : from = ContentFrom(k) /\ size = SizeIn(FieldsOf(k)) /\ size = header.size
  BY <1>0, FramePlace
<1>2. k \in Nat /\ k + 1 \in Nat /\ input.cut \in Nat /\ Len(stream) = input.cut - from /\ ~(size > MaxSize)
  BY <1>0, <1>1, FramePlace, MaxSizeAssumption DEF At
<1>3. CASE ReadContent
  <2>1. /\ size <= Len(stream) /\ input' = input /\ stream' = SubSeq(stream, size + 1, Len(stream))
        /\ reader' = "header" /\ header' = NoHeader
        /\ started' = Append(started, IF header.charset THEN Handle(Decoded(SubSeq(stream, 1, size)))
                                      ELSE Problem("parse error"))
    BY <1>0, <1>1, <1>3 DEF ReadContent, StartTask, NextMessage
  <2>2. At(from + size)'
    <3>1. PICK n \in 0..Len(stream) : n = size
      <4>1. PICK len \in Nat : len = Len(stream)
        BY <1>0
      <4>2. size <= Len(stream)
        BY <2>1
      <4>3. size \in 0..len
        BY <4>1, <4>2
      <4> QED BY <4>1, <4>3
    <3>2. At(from)
      BY <1>0, <1>1
    <3>3. At(from + n)'
      BY <1>0, <2>1, <3>1, <3>2, DropTo
    <3> QED BY <3>1, <3>3
  <2>3. RestFrom(k + 1, from + size)
    BY <1>0, <1>1, RestAfter
  <2>4. started' = Found[k + 1].tasks
    <3>1. SubSeq(stream, 1, size) = SubSeq(NextFrame(k).content, 1, size)
      BY <1>0, <1>1, <2>1, ContentIs
    <3>2. from + size <= input.cut
      <4>1. PICK cut \in Nat : cut = input.cut
        BY <1>2
      <4>2. size <= cut - from
        BY <1>2, <2>1, <4>1
      <4> QED BY <4>1, <4>2
    <3>3. Found[k + 1].tasks = Append(Found[k].tasks,
              IF Charset(FALSE) \in FieldsOf(k) THEN Problem("parse error")
              ELSE Handle(Decoded(SubSeq(NextFrame(k).content, 1, size))))
      BY <1>0, <1>1, <1>2, <3>2, FoundAfter
    <3>4. header.charset <=> Charset(FALSE) \notin FieldsOf(k)
      BY <1>0
    <3> QED BY <1>0, <2>1, <3>1, <3>3, <3>4
  <2>5. PICK pos \in Nat : pos = from + size
    OBVIOUS
  <2>6. InRest(k + 1, pos)'
    BY <2>1, <2>2, <2>3, <2>4, <2>5, SameFrames DEF InRest
  <2> QED BY <1>2, <2>6, FrameIs
<1>4. CASE ReadEnd
  <2>1. /\ Len(stream) < size /\ reader' = "ended" /\ started' = started /\ input' = input
    BY <1>0, <1>1, <1>4 DEF ReadEnd
  <2>2. input.cut < from + size
    BY <1>0, <1>2, <2>1
  <2>3. Found[k + 1].tasks = Found[k].tasks
    <3>1. ContentFrom(k) + SizeIn(FieldsOf(k)) > input.cut
      BY <1>1, <1>2, <2>2
    <3> QED BY <1>0, <1>1, <1>2, <3>1, FoundAfter
  <2>4. input.cut <= ContentFrom(k) + SizeIn(FieldsOf(k))
    BY <1>1, <1>2, <2>2
  <2>5. AllRead'
    BY <1>0, <2>1, <2>3, <2>4, NotReached, SameFrames DEF AllRead
  <2> QED BY <1>2, <2>5, FrameIs
<1>5. ReadContent \/ ReadEnd
  BY <1>0 DEF ReaderStep, ReadHeaderLine, NoLength, RefuseOversized, BeginContent, HeaderPartEnds, SkipContent, Skipped
<1> QED BY <1>3, <1>4, <1>5

LEMMA StepFromSkip ==
  ASSUME ReaderTypeOK, ReaderStep, NEW k, NEW pos, InSkip(k, pos)
  PROVE  FrameInv'
<1>0. /\ input \in Inputs /\ stream \in Seq(Piece) /\ reader = "skip" /\ Len(stream) \in Nat
      /\ started = Found[k + 1].tasks /\ At(pos) /\ k \in 0..(Len(input.frames) - 1)
      /\ LengthsOf(FieldsOf(k)) # {} /\ SizeIn(FieldsOf(k)) > MaxSize
      /\ header \in HeaderType /\ header.size = ContentFrom(k) + SizeIn(FieldsOf(k)) - pos
  BY DEF ReaderTypeOK, InSkip, HeaderType
<1>1. PICK end \in Nat : end = ContentFrom(k) + SizeIn(FieldsOf(k))
  BY <1>0, FramePlace
<1>2. /\ k \in Nat /\ k + 1 \in Nat /\ input.cut \in Nat /\ Len(stream) = input.cut - pos /\ pos \in Nat
      /\ header.size \in Nat /\ header.size = end - pos
  BY <1>0, <1>1, FramePlace DEF At, HeaderType
<1>3. RestFrom(k + 1, end)
  BY <1>0, <1>1, RestAfter
<1>4. CASE SkipContent
  <2>1. PICK n \in 1..header.size : /\ n <= Len(stream) /\ stream' = SubSeq(stream, n + 1, Len(stream))
                                    /\ header' = [header EXCEPT !.size = @ - n]
    BY <1>4 DEF SkipContent
  <2>2. input' = input /\ reader' = "skip" /\ started' = started
    BY <1>0, <1>4 DEF SkipContent
  <2>3. PICK next \in Nat : next = pos + n
    BY <1>2
  <2>4. At(next)'
    <3>1. n \in 0..Len(stream)
      BY <1>0, <2>1
    <3> QED BY <1>0, <1>2, <2>1, <2>2, <2>3, <3>1, DropTo
  <2>5. header'.size = end - next
    <3>1. header'.size = header.size - n
      BY <1>0, <2>1 DEF HeaderType
    <3> QED BY <1>2, <2>1, <2>3, <3>1
  <2>6. InSkip(k, next)'
    <3>1. (header.size = ContentFrom(k) + SizeIn(FieldsOf(k)) - next)'
      <4>1. ContentFrom(k)' = ContentFrom(k) /\ FieldsOf(k)' = FieldsOf(k)
        BY <2>2, SameFrames
      <4>2. PICK from, size \in Nat : from = ContentFrom(k) /\ size = SizeIn(FieldsOf(k)) /\ end = from + size
        BY <1>0, <1>1, FramePlace
      <4>3. header'.size = from + size - next
        BY <2>5, <4>2
      <4> QED BY <4>1, <4>2, <4>3
    <3>2. (k \in 0..(Len(input.frames) - 1) /\ LengthsOf(FieldsOf(k)) # {} /\ SizeIn(FieldsOf(k)) > MaxSize)'
      BY <1>0, <2>2, SameFrames
    <3>3. (reader = "skip" /\ started = Found[k + 1].tasks)'
      BY <1>0, <2>2, SameFrames
    <3> QED BY <2>4, <3>1, <3>2, <3>3 DEF InSkip
  <2> QED BY <1>2, <2>6, FrameIs
<1>5. CASE Skipped
  <2>1. /\ header.size = 0 \/ stream = <<>>
        /\ reader' = "header" /\ header' = NoHeader /\ started' = started /\ stream' = stream /\ input' = input
    BY <1>5 DEF Skipped, NextMessage
  <2>2. CASE header.size = 0
    <3>1. pos = end
      BY <1>1, <1>2, <2>2
    <3>2. At(end)'
      BY <1>0, <2>1, <3>1 DEF At
    <3>3. InRest(k + 1, end)'
      BY <1>0, <1>3, <2>1, <3>2, SameFrames DEF InRest
    <3> QED BY <1>2, <3>3, FrameIs
  <2>3. CASE stream = <<>>
    <3>1. input.cut <= end
      BY <1>1, <1>2, <2>3
    <3>2. k + 1 \in 0..Len(input.frames) /\ input.cut <= Ends(k + 1)
      <4>1. end <= Ends(k + 1) /\ k + 1 \in 0..Len(input.frames)
        BY <1>0, <1>3, FramePlace DEF RestFrom
      <4>2. Ends(k + 1) \in Nat
        BY <1>0, <4>1, EndsLayout
      <4> QED BY <1>2, <3>1, <4>1, <4>2
    <3>3. Found[Len(input.frames)].tasks = Found[k + 1].tasks
      BY <1>0, <3>2, NothingMore
    <3>4. AllRead'
      BY <1>0, <2>1, <2>3, <3>3, SameFrames DEF AllRead
    <3> QED BY <1>2, <3>4, FrameIs
  <2> QED BY <2>1, <2>2, <2>3
<1>6. SkipContent \/ Skipped
  BY <1>0 DEF ReaderStep, ReadHeaderLine, NoLength, RefuseOversized, BeginContent, HeaderPartEnds, ReadContent, ReadEnd
<1> QED BY <1>4, <1>5, <1>6

LEMMA StepFromEnd ==
  ASSUME ReaderTypeOK, ReaderStep, AllRead
  PROVE  FrameInv'
<1>0. reader = "header" /\ stream = <<>> /\ started = Found[Len(input.frames)].tasks
  BY DEF AllRead, ReaderStep, ReadHeaderLine, NoLength, RefuseOversized, BeginContent, HeaderPartEnds,
         SkipContent, Skipped, ReadContent, ReadEnd
<1>1. LineEnds = {}
  BY <1>0 DEF LineEnds
<1>2. ReadEnd
  BY <1>0, <1>1 DEF ReaderStep, ReadHeaderLine, NoLength, RefuseOversized, BeginContent, HeaderPartEnds,
         SkipContent, Skipped, ReadContent
<1>3. reader' = "ended" /\ input' = input /\ started' = started
  BY <1>2 DEF ReadEnd
<1>4. AllRead'
  BY <1>0, <1>3, SameFrames DEF AllRead
<1> QED BY <1>4 DEF FrameInv

LEMMA FrameInvStarts == DispatchInit => FrameInv
<1> SUFFICES ASSUME DispatchInit PROVE FrameInv
  OBVIOUS
<1>1. /\ input \in Inputs /\ reader = "header" /\ header = NoHeader /\ started = <<>>
      /\ stream = SubSeq(Sent(input.frames), 1, input.cut)
  BY DEF DispatchInit, Init
<1>2. PICK S \in Seq(Piece) : S = Sent(input.frames)
  BY <1>1, InputTypes
<1>3. input.cut \in Nat /\ input.cut <= Len(S) /\ Len(S) \in Nat
  BY <1>1, <1>2, InputTypes
<1>4. PICK cut \in Nat : cut = input.cut
  BY <1>3
<1>5. Len(stream) = cut - 0 /\ \A p \in 1..Len(stream) : stream[p] = S[0 + p]
  <2>1. \A i \in 1..cut : S[i] \in Piece
    BY <1>3, <1>4
  <2>2. /\ Len(stream) = IF 1 <= cut THEN cut - 1 + 1 ELSE 0
        /\ \A i \in 1..(cut - 1 + 1) : stream[i] = S[1 + i - 1]
    BY <1>1, <1>2, <1>4, <2>1, SubSeqProperties
  <2> QED BY <2>2
<1>6. At(0)
  BY <1>2, <1>4, <1>5 DEF At
<1>7. RestFrom(0, 0)
  <2>1. 0 \in 0..Len(input.frames) /\ Ends(0) = 0
    BY <1>1, InputTypes, EndsLayout
  <2>2. ~Found[0].text
    BY <1>1, FoundNext DEF NothingFound
  <2> QED BY <2>1, <2>2 DEF RestFrom
<1>8. started = Found[0].tasks
  BY <1>1, FoundNext DEF NothingFound
<1>9. InRest(0, 0)
  BY <1>1, <1>6, <1>7, <1>8 DEF InRest
<1> QED BY <1>9 DEF FrameInv

LEMMA FrameInvKept == TypeOK /\ FrameInv /\ [Next]_vars => FrameInv'
<1> SUFFICES ASSUME ReaderTypeOK, FrameInv, [Next]_vars PROVE FrameInv'
  BY DEF TypeOK
<1>1. CASE ReadOn
  <2>1. ReaderStep
    BY <1>1 DEF ReadOn
  <2> QED BY <2>1, StepFromRest, StepFromLines, StepFromContent, StepFromSkip, StepFromEnd DEF FrameInv
<1>2. ASSUME UNCHANGED readerVars PROVE FrameInv'
  <2>1. input' = input /\ stream' = stream /\ reader' = reader /\ header' = header /\ started' = started
    BY <1>2 DEF readerVars
  <2>2. \A pos : At(pos)' <=> At(pos)
    BY <2>1 DEF At
  <2>3. \A k, m : LinesEnd(NextFrame(k), m)' = LinesEnd(NextFrame(k), m)
    BY <2>1 DEF LinesEnd, NextFrame
  <2>4. ASSUME NEW k, NEW n, InRest(k, n) PROVE InRest(k, n)'
    BY <2>1, <2>2, <2>4, SameFrames DEF InRest
  <2>5. ASSUME NEW k, NEW n, InLines(k, n) PROVE InLines(k, n)'
    <3>1. Seen(k, n)' = Seen(k, n) /\ HeaderSays(header, Seen(k, n))' <=> HeaderSays(header, Seen(k, n))
      BY <2>1, SameFrames DEF HeaderSays
    <3> QED BY <2>1, <2>2, <2>3, <2>5, <3>1, SameFrames DEF InLines
  <2>6. ASSUME NEW k, NEW n \in Nat, InSkip(k, n) PROVE InSkip(k, n)'
    <3>1. ContentFrom(k)' = ContentFrom(k) /\ FieldsOf(k)' = FieldsOf(k) /\ Found' = Found
      BY <2>1, SameFrames
    <3>2. (header.size = ContentFrom(k) + SizeIn(FieldsOf(k)) - n)'
      BY <2>1, <2>6, <3>1 DEF InSkip
    <3>3. (k \in 0..(Len(input.frames) - 1))' /\ (LengthsOf(FieldsOf(k)) # {})' /\ (SizeIn(FieldsOf(k)) > MaxSize)'
      BY <2>1, <2>6, <3>1 DEF InSkip
    <3>4. At(n)' /\ (reader = "skip")' /\ (started = Found[k + 1].tasks)'
      BY <2>1, <2>2, <2>6, <3>1 DEF InSkip
    <3> QED BY <3>2, <3>3, <3>4 DEF InSkip
  <2>7. ASSUME NEW k, InContent(k) PROVE InContent(k)'
    <3>1. PICK unknown : unknown = Charset(FALSE)
      OBVIOUS
    <3>2. ContentFrom(k)' = ContentFrom(k) /\ FieldsOf(k)' = FieldsOf(k) /\ Found' = Found
      BY <2>1, SameFrames
    <3>3. (k \in 0..(Len(input.frames) - 1))' /\ (LengthsOf(FieldsOf(k)) # {})' /\ (SizeIn(FieldsOf(k)) <= MaxSize)'
      BY <2>1, <2>7, <3>2 DEF InContent
    <3>4. At(ContentFrom(k))' /\ (reader = "content")' /\ (started = Found[k].tasks)'
      BY <2>1, <2>2, <2>7, <3>2 DEF InContent
    <3>5. (header.size = SizeIn(FieldsOf(k)))'
      BY <2>1, <2>7, <3>2 DEF InContent
    <3>6. header.charset = (unknown \notin FieldsOf(k))
      BY <2>7, <3>1 DEF InContent
    <3>7. header'.charset = (unknown \notin FieldsOf(k)')
      BY <2>1, <3>2, <3>6
    <3>8. (header.charset = (Charset(FALSE) \notin FieldsOf(k)))'
      BY <3>1, <3>7
    <3> QED BY <3>3, <3>4, <3>5, <3>8 DEF InContent
  <2>8. ASSUME AllRead PROVE AllRead'
    BY <2>1, <2>8, SameFrames DEF AllRead
  <2> QED BY <2>4, <2>5, <2>6, <2>7, <2>8 DEF FrameInv
<1>3. ASSUME NEW i \in DOMAIN tasks, TaskStep(i) PROVE UNCHANGED readerVars
  BY <1>3 DEF TaskStep, AnswerInvalid, TakeResponse, UnknownMethod, CallHandler, HandlerReturns, EndTask, GoOn
<1>4. CASE UNCHANGED vars
  BY <1>2, <1>4 DEF vars
<1> QED BY <1>1, <1>2, <1>3, <1>4 DEF Next

\* For any connection that sends frames, and however it ends: when the read loop has ended, it
\* has started the tasks that the frames ask for, in their order. None of them is misread or
\* lost for one in front of it that was too large, in an unknown charset, without a length or
\* with a bad one, except by the text without a line end that a frame without a length leaves.
THEOREM FramesFound == Spec => []FramesAreFound
<1>1. FrameInv => FramesAreFound
  BY DEF FrameInv, FramesAreFound, AllRead, InRest, InLines, InContent, InSkip
<1>2. IInv => TypeOK
  BY DEF IInv
<1>3. Spec => []FrameInv
  BY <1>2, IInvAlways, FrameInvStarts, FrameInvKept, PTL DEF Spec
<1> QED BY <1>1, <1>3, PTL
=============================================================================
