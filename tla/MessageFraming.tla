--------------------------- MODULE MessageFraming ---------------------------
(***************************************************************************)
(* The read loop of a JsonRpcPeer over the bytes of its connection: header *)
(* parts, contents, and what is skipped when one of them cannot be read.   *)
(* The stream is a sequence of pieces, which a length counts: line ends,   *)
(* header fields, the messages in the contents, and other text. A piece    *)
(* "long" is more text than the reader holds without a line end.           *)
(***************************************************************************)
EXTENDS Integers, Sequences, SequencesExt

CONSTANTS
    Elements,   \* what a message, or an element of a batch, may be
    Inputs,     \* what may arrive: [frames, cut], the pieces that arrive before the end
    MaxSize     \* max_message_size

VARIABLES
    input,      \* the element of Inputs
    stream,     \* what of it has not been read
    reader,     \* _read_message(): "header", "content" or "skip"; "ended" with the connection
    header,     \* what the header part has said so far
    started     \* the tasks that were started, one after the other

readerVars == <<input, stream, reader, header, started>>

Eol == [is |-> "eol"]
Text == [is |-> "text"]
Long == [is |-> "long"]
Other == [is |-> "other"]
BadLength == [is |-> "bad length"]
Length(n) == [is |-> "length", size |-> n]
Charset(known) == [is |-> "charset", known |-> known]
Body(message) == [is |-> "body", message |-> message]

NoHeader == [length |-> "missing", size |-> 0, charset |-> TRUE]
NotJson == [form |-> "text", elements |-> <<>>]

Messages == [form : {"text", "single", "batch"}, elements : Seq(Elements)]
Piece ==
    [is : {"eol", "text", "long", "other", "bad length"}] \cup [is : {"length"}, size : Nat]
    \cup [is : {"charset"}, known : BOOLEAN] \cup [is : {"body"}, message : Messages]

\* A frame: the lines of its header part, each of one or more pieces, and its content.
HeaderPieces(frame) == FlattenSeq([i \in DOMAIN frame.lines |-> Append(frame.lines[i], Eol)]) \o <<Eol>>
Pieces(frame) == HeaderPieces(frame) \o frame.content
Frame == [lines : Seq(Seq(Piece)), content : Seq(Piece)]

\* All that is sent; the connection may end in the middle of it.
Sent(frames) == FlattenSeq([i \in DOMAIN frames |-> Pieces(frames[i])])

ASSUME InputsAssumption ==
    \A in \in Inputs :
        in \in [frames : Seq(Frame), cut : Nat] /\ in.cut <= Len(Sent(in.frames))
ASSUME MaxSizeAssumption == MaxSize \in Nat

Init ==
    /\ input \in Inputs
    /\ stream = SubSeq(Sent(input.frames), 1, input.cut)
    /\ reader = "header" /\ header = NoHeader /\ started = <<>>

-----------------------------------------------------------------------------
(* Header parts *)

LineEnds == {i \in DOMAIN stream : stream[i] = Eol}
Line == SubSeq(stream, 1, SelectInSeq(stream, LAMBDA p : p = Eol) - 1)
DropLine == stream' = SubSeq(stream, Len(Line) + 2, Len(stream))

\* A line is a known field if it is nothing else: text before it changes its name, and of a
\* line that is too long nothing is kept.
Field(line) == IF Len(line) = 1 THEN line[1] ELSE Other

\* The last field of a kind counts.
WithField(field) ==
    CASE field.is = "length" -> [header EXCEPT !.length = "valid", !.size = field.size]
      [] field.is = "bad length" -> [header EXCEPT !.length = "invalid"]
      [] field.is = "charset" -> [header EXCEPT !.charset = field.known]
      [] OTHER -> header

ReadHeaderLine ==
    /\ reader = "header" /\ LineEnds # {} /\ Line # <<>>
    /\ header' = WithField(Field(Line))
    /\ DropLine
    /\ UNCHANGED <<input, reader, started>>

HeaderPartEnds == reader = "header" /\ LineEnds # {} /\ Line = <<>>

\* Only reported: the next bytes are the next header part.
NoLength ==
    /\ HeaderPartEnds /\ header.length # "valid"
    /\ header' = NoHeader
    /\ DropLine
    /\ UNCHANGED <<input, reader, started>>

StartTask(task) == started' = Append(started, task)
Problem(code) == [does |-> "report", code |-> code]
Handle(message) == [does |-> "handle", message |-> message]

\* Defect: the limit itself is too large.
OversizedAtLimit == header.size >= MaxSize

Oversized == header.size > MaxSize

RefuseOversized ==
    /\ HeaderPartEnds /\ header.length = "valid" /\ Oversized
    /\ StartTask(Problem("invalid request"))
    /\ reader' = "skip"
    /\ DropLine
    /\ UNCHANGED <<input, header>>

BeginContent ==
    /\ HeaderPartEnds /\ header.length = "valid" /\ ~Oversized
    /\ reader' = "content"
    /\ DropLine
    /\ UNCHANGED <<input, header, started>>

-----------------------------------------------------------------------------
(* Contents *)

NextMessage == reader' = "header" /\ header' = NoHeader

\* In chunks of what has arrived.
SkipContent ==
    /\ reader = "skip" /\ header.size > 0 /\ stream # <<>>
    /\ \E n \in 1..header.size :
        /\ n <= Len(stream)
        /\ stream' = SubSeq(stream, n + 1, Len(stream))
        /\ header' = [header EXCEPT !.size = @ - n]
    /\ UNCHANGED <<input, reader, started>>

Skipped ==
    /\ reader = "skip" /\ (header.size = 0 \/ stream = <<>>)
    /\ NextMessage
    /\ UNCHANGED <<input, stream, started>>

\* json.loads() takes a message with the line end that follows it, or without.
Decoded(content) ==
    IF content # <<>> /\ content[1].is = "body" /\ Tail(content) \in {<<>>, <<Eol>>}
    THEN content[1].message ELSE NotJson

ReadContent ==
    /\ reader = "content" /\ Len(stream) >= header.size
    /\ LET content == SubSeq(stream, 1, header.size)
       IN StartTask(IF header.charset THEN Handle(Decoded(content)) ELSE Problem("parse error"))
    /\ stream' = SubSeq(stream, header.size + 1, Len(stream))
    /\ NextMessage
    /\ UNCHANGED input

\* readuntil() or readexactly() meets the end of the connection.
ReadEnd ==
    /\ \/ reader = "header" /\ LineEnds = {}
       \/ reader = "content" /\ Len(stream) < header.size
    /\ reader' = "ended"
    /\ UNCHANGED <<input, stream, header, started>>

ReaderStep ==
    \/ ReadHeaderLine \/ NoLength \/ RefuseOversized \/ BeginContent
    \/ SkipContent \/ Skipped \/ ReadContent \/ ReadEnd

-----------------------------------------------------------------------------
(* Properties *)

Task ==
    [does : {"report"}, code : {"invalid request", "parse error"}] \cup [does : {"handle"}, message : Messages]

ReaderTypeOK ==
    /\ input \in Inputs /\ stream \in Seq(Piece)
    /\ reader \in {"header", "content", "skip", "ended"}
    /\ header \in [length : {"missing", "valid", "invalid"}, size : Nat, charset : BOOLEAN]
    /\ started \in Seq(Task)

(* The reference goes frame by frame and knows no reader: a frame is lost only if its  *)
(* header has no valid length, also for text that was left in front of it.             *)

Ends(i) == Len(FlattenSeq([j \in 1..i |-> Pieces(input.frames[j])]))

Fields(frame, textBefore) ==
    {Field(frame.lines[i]) : i \in {j \in DOMAIN frame.lines : ~(j = 1 /\ textBefore)}}
LengthsOf(fields) == {f \in fields : f.is = "length"}
SizeIn(fields) == IF LengthsOf(fields) = {} THEN 0 ELSE (CHOOSE f \in LengthsOf(fields) : TRUE).size

\* The i-th frame, after those before it: [tasks, text], the tasks that the frames ask for, and
\* whether text without a line end is left after them.
WithFrame(before, i) ==
    LET frame == input.frames[i]
        fields == Fields(frame, before.text)
        size == SizeIn(fields)
        task == IF size > MaxSize THEN Problem("invalid request")
                ELSE IF Charset(FALSE) \in fields THEN Problem("parse error")
                ELSE Handle(Decoded(SubSeq(frame.content, 1, size)))
        needed == Ends(i - 1) + Len(HeaderPieces(frame)) + (IF size > MaxSize THEN 0 ELSE size)
    IN [tasks |-> IF LengthsOf(fields) # {} /\ needed <= input.cut THEN Append(before.tasks, task) ELSE before.tasks,
        text |-> Len(frame.content) > size /\ Last(frame.content) # Eol]

Found[i \in 0..Len(input.frames)] ==
    IF i = 0 THEN [tasks |-> <<>>, text |-> FALSE] ELSE WithFrame(Found[i - 1], i)

\* A frame has its fields in its lines, names its length and its charset once, and has a content
\* that is no shorter.
FieldKinds == {"length", "bad length", "charset"}
WellSent(frame) ==
    /\ \A i \in DOMAIN frame.lines :
        frame.lines[i] # <<>> /\ \A j \in DOMAIN frame.lines[i] : frame.lines[i][j] # Eol
    /\ \A i \in DOMAIN frame.content : frame.content[i].is \notin FieldKinds
    /\ \A f, g \in Fields(frame, FALSE) :
        /\ f.is \in {"length", "bad length"} /\ g.is \in {"length", "bad length"} => f = g
        /\ f.is = "charset" /\ g.is = "charset" => f = g
        /\ f.is = "length" => f.size <= Len(frame.content)
ASSUME FramesAssumption == \A in \in Inputs : \A i \in DOMAIN in.frames : WellSent(in.frames[i])

\* When the connection has ended, the loop has started what its frames ask for, in their order:
\* nothing that cannot be read (no length, an over-long line, too large, not text) makes it
\* misread what follows, except by the text that a frame without a length leaves.
FramesAreFound == reader = "ended" => started = Found[Len(input.frames)].tasks
=============================================================================
