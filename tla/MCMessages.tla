----------------------------- MODULE MCMessages -----------------------------
(***************************************************************************)
(* What arrives: frames of every kind, up to three in a row, and cut off   *)
(* anywhere; single messages and batches of every kind of element; and the *)
(* params of one request, of every kind, for handlers of every type.       *)
(***************************************************************************)
EXTENDS MessageParams

---------------------------- (* Types *) ------------------------------------

I == Plain("int")
S == Plain("str")
N == Plain("null")
A == Scalar("str", "a")
One == Scalar("int", "1")
True == Scalar("bool", "1")

\* Point(x: int), Span(x: int, y: int | None = None), Label(x: str), Wide(x: str, y: int | None = None),
\* Level(log_level: str) in camel case, Mark(kind: Literal["a"], at: Point | None),
\* Count(x: int, y: int | None = 1), Choice(y: int | None = None),
\* Tags(x: int, y: list[int] | None = field(default_factory=list)), and around
\* them Box(x: Point), Case(x: Span), Crate(x: Point | Wide).
Classes == [
    Point |-> [types |-> [x |-> I], names |-> [x |-> "x"], defaults |-> <<>>, factories |-> {}],
    Span |-> [types |-> [x |-> I, y |-> Typed("union", <<I, N>>)], names |-> [x |-> "x", y |-> "y"],
              defaults |-> [y |-> Null], factories |-> {}],
    Wide |-> [types |-> [x |-> S, y |-> Typed("union", <<I, N>>)], names |-> [x |-> "x", y |-> "y"],
              defaults |-> [y |-> Null], factories |-> {}],
    Count |-> [types |-> [x |-> I, y |-> Typed("union", <<I, N>>)], names |-> [x |-> "x", y |-> "y"],
               defaults |-> [y |-> One], factories |-> {}],
    Choice |-> [types |-> [y |-> Typed("union", <<I, N>>)], names |-> [y |-> "y"], defaults |-> [y |-> Null], factories |-> {}],
    Tags |-> [types |-> [x |-> I, y |-> Typed("union", <<Typed("list", <<I>>), N>>)],
             names |-> [x |-> "x", y |-> "y"], defaults |-> [y |-> List(<<>>)], factories |-> {"y"}],
    Box |-> [types |-> [x |-> ClassType("Point")], names |-> [x |-> "x"], defaults |-> <<>>, factories |-> {}],
    Case |-> [types |-> [x |-> ClassType("Span")], names |-> [x |-> "x"], defaults |-> <<>>, factories |-> {}],
    Crate |-> [types |-> [x |-> Typed("union", <<ClassType("Point"), ClassType("Wide")>>)],
               names |-> [x |-> "x"], defaults |-> <<>>, factories |-> {}],
    Label |-> [types |-> [x |-> S], names |-> [x |-> "x"], defaults |-> <<>>, factories |-> {}],
    Level |-> [types |-> [log_level |-> S], names |-> [log_level |-> "logLevel"], defaults |-> <<>>, factories |-> {}],
    Mark |-> [types |-> [kind |-> Values("literal", {A}), at |-> Typed("union", <<ClassType("Point"), N>>)],
              names |-> [kind |-> "kind", at |-> "at"], defaults |-> <<>>, factories |-> {}]]

Union(a, b) == Typed("union", <<a, b>>)
Dict(type) == Typed("dict", <<type>>)
ListOf(type) == Typed("list", <<type>>)
AnyType == Plain("any")
Point == ClassType("Point")
Span == ClassType("Span")

Types == <<
    I, Plain("float"), Plain("bool"), AnyType, Union(I, N), Union(S, I),
    Typed("union", <<I, Plain("float"), Plain("bool")>>), Values("literal", {A}), Values("enum", {A, One}),
    ListOf(I), Union(ListOf(I), ListOf(S)), ListOf(Union(I, S)), Typed("tuple", <<I, S>>),
    Union(Typed("tuple", <<I, S>>), Typed("tuple", <<S, I>>)), Dict(I), Dict(AnyType), Union(Dict(I), N),
    Point, Union(Point, Span), Union(Span, Point), Union(Point, ClassType("Label")), Union(ClassType("Label"), Span),
    Union(Point, Dict(AnyType)), Union(Dict(AnyType), Point), Union(N, Span), Union(Dict(Point), Dict(ClassType("Label"))),
    ClassType("Level"), ClassType("Mark"), ListOf(Union(Point, ClassType("Mark"))),
    Union(ListOf(Point), ListOf(Span)), Union(Point, ClassType("Wide")), Union(ClassType("Box"), ClassType("Case")),
    Union(Dict(AnyType), ClassType("Crate")), ClassType("Count"), ClassType("Tags"), Union(Point, ClassType("Choice")),
    Union(Dict(Point), ClassType("Choice"))>>

Scalars == {Null, True, One, A, Scalar("float", "1"), Scalar("float", "1.5")}
Objects == {Object(<<>>), Object([logLevel |-> A]), Object([log_level |-> A])}
           \cup {Object([x |-> v]) : v \in {Null, True, One, A}}
           \cup {Object([x |-> One, y |-> v]) : v \in {Null, One, A, List(<<>>)}}
           \cup {Object([y |-> v]) : v \in {Null, One}} \cup {Object([kind |-> A])}
           \cup {Object([x |-> One, z |-> One]), Object([x |-> Object([x |-> A])])}
           \cup {Object([x |-> Object([x |-> One])]), Object([x |-> Object([x |-> One, y |-> One])])}
           \cup {Object([kind |-> k, at |-> p]) : k \in {A, One}, p \in {Null, One, Object([x |-> One])}}
Lists == {List(<<>>), List(<<One, A>>), List(<<A, One>>)} \cup {List(<<v>>) : v \in Scalars \cup Objects}
Params == {List(<<v>>) : v \in Scalars \cup Objects \cup Lists}

\* A method for each type, which gets it in a tuple, because params are a list or an object.
MethodOf(n) == "take " \o ToString(n)
Taking == [m \in {MethodOf(n) : n \in DOMAIN Types} |->
    [type |-> Typed("tuple", <<Types[CHOOSE n \in DOMAIN Types : MethodOf(n) = m]>>), ends |-> "result"]]

\* The types with those they are made of, and the JSON with its parts.
RECURSIVE TypesIn(_), HeightOf(_), PartsIn(_), DepthOf(_)
TypesIn(type) == {type} \cup UNION {TypesIn(u) : u \in Members(type)}
HeightOf(type) == 1 + Max({0} \cup {HeightOf(u) : u \in Members(type)})
PartsIn(x) == {x} \cup UNION {PartsIn(y) : y \in Parts(x)}
DepthOf(x) == 1 + Max({0} \cup {DepthOf(y) : y \in Parts(x)})

MCHeight ==
    LET types == {Taking[m].type : m \in DOMAIN Taking}
                 \cup UNION {{Classes[c].types[f] : f \in DOMAIN Classes[c].types} : c \in DOMAIN Classes}
    IN [type \in UNION {TypesIn(t) : t \in types} |-> HeightOf(type)]

MCJson == UNION {PartsIn(v) : v \in Params} \cup {NoParams}

\* What can be made of it: members of the enum, instances, and lists, objects and tuples of them.
With(class, xs) == {Instance(class, [x |-> x]) : x \in xs}
WithTwo(class, xs, ys) == {Instance(class, [x |-> x, y |-> y]) : x \in xs, y \in ys}
Points == With("Point", {One})
Spans == WithTwo("Span", {One}, {One, Null})
Wides == WithTwo("Wide", {A}, {Null})
Instances ==
    Points \cup Spans \cup Wides \cup With("Label", {A}) \cup WithTwo("Count", {One}, {One, Null})
    \cup With("Box", Points) \cup With("Case", Spans) \cup With("Crate", Points \cup Wides)
    \cup WithTwo("Tags", {One}, {List(<<>>), Null}) \cup {Instance("Choice", [y |-> y]) : y \in {One, Null}} \cup {Instance("Level", [log_level |-> A])}
    \cup {Instance("Mark", [kind |-> A, at |-> p]) : p \in Points \cup {Null}}
Items == {Member(A), Member(One)} \cup Instances \cup {List(<<x>>) : x \in Instances}
         \cup {Object([x |-> x]) : x \in Instances} \cup {Tuple(<<One, A>>), Tuple(<<A, One>>)}
MCValues == MCJson \cup Items \cup {Tuple(<<x>>) : x \in MCJson \cup Items}

MCDepth == [x \in MCValues |-> DepthOf(x)]

--------------------------- (* Elements *) -----------------------------------

MCHandlers == Taking @@ [
    echo |-> [type |-> AnyType, ends |-> "result"],
    typed |-> [type |-> Point, ends |-> "result"],
    fail |-> [type |-> AnyType, ends |-> "internal error"],
    refuse |-> [type |-> AnyType, ends |-> "own error"],
    huge |-> [type |-> AnyType, ends |-> "unwritable"]]
MCNotified == [changed |-> [type |-> AnyType, ends |-> "result"], typed |-> [type |-> Point, ends |-> "own error"]]
MCWaiting == {"1"}

Blank == [object |-> TRUE, version |-> TRUE, id |-> "absent", method |-> "absent",
          params |-> [k |-> "absent"], error |-> "absent", result |-> "absent"]
Request(id, method, params) == [Blank EXCEPT !.id = id, !.method = method, !.params = params]
Response(id, result, error) == [Blank EXCEPT !.id = id, !.result = result, !.error = error]
Absent == Blank.params

Echo == Request("7", "echo", Absent)
Requests == {Echo, Request("8", "echo", List(<<One>>)), Request("7", "huge", Null), Request("8", "fail", Absent),
             Request("7", "refuse", Absent), Request("7", "nope", Absent), Request("7", "typed", Object([x |-> One])),
             Request("8", "typed", Absent)}
Notifications == {Request("absent", m, p) : m \in {"changed", "typed", "nope"}, p \in {Absent, One}}
Invalid == {[Blank EXCEPT !.object = FALSE], Blank, Request("7", "bad", Absent), Request("null", "echo", Absent),
            Request("bad", "echo", Absent), Request("7", "echo", One), [Echo EXCEPT !.version = FALSE]}
Responses == {Response("1", r, e) : r \in {"absent", "present"}, e \in {"absent", "null", "error"}}
             \cup {[Response("1", "present", "absent") EXCEPT !.version = FALSE]}
             \cup {Response(id, "present", "absent") : id \in {"null", "bad", "7"}}
Kinds == Requests \cup Notifications \cup Invalid \cup Responses

Message(form, elements) == [form |-> form, elements |-> elements]
Single(e) == Message("single", <<e>>)
Batch(es) == Message("batch", es)

---------------------------- (* Frames *) ------------------------------------

FrameOf(lines, content) == [lines |-> lines, content |-> content]
Good(m) == FrameOf(<<<<Length(2)>>>>, <<Body(m), Eol>>)

\* The maximum is two pieces.
Content == <<Body(Single(Echo)), Eol>>
Frames == {
    Good(Single(Echo)), Good(Single(Request("absent", "changed", Absent))), Good(NotJson),
    FrameOf(<<<<Charset(TRUE)>>, <<Length(2)>>>>, Content), FrameOf(<<<<Length(2)>>, <<Charset(FALSE)>>>>, Content),
    FrameOf(<<<<Long, Charset(FALSE)>>, <<Length(2)>>>>, Content), FrameOf(<<<<Long, Length(2)>>>>, Content),
    FrameOf(<<<<Length(1)>>>>, Content), FrameOf(<<<<Length(1)>>>>, <<Text, Text>>), FrameOf(<<<<Length(0)>>>>, <<>>),
    FrameOf(<<<<Length(4)>>>>, <<Text, Eol, Text, Eol>>), FrameOf(<<<<Length(3)>>>>, <<Text, Eol, Text>>),
    FrameOf(<<<<Other>>>>, Content), FrameOf(<<<<BadLength>>>>, <<Text>>), FrameOf(<<<<BadLength>>>>, <<Long>>)}

SizeOf(frames) == Len(Sent(frames))
Whole(frames) == [frames |-> frames, cut |-> SizeOf(frames)]

FrameInputs ==
    {Whole(<<f, g, h>>) : f \in Frames, g \in Frames, h \in {Good(Single(Echo))}}
    \cup UNION {{[frames |-> <<f, g>>, cut |-> n] : n \in 0..SizeOf(<<f, g>>)} : f \in Frames, g \in Frames}

MessageInputs ==
    {Whole(<<Good(m)>>) : m \in {Single(e) : e \in Kinds} \cup {Batch(<<>>)}}
    \cup {Whole(<<Good(Batch(<<d, e>>))>>) : d \in Kinds, e \in Kinds}
    \cup {Whole(<<Good(Batch(<<d, e>>)), Good(Single(f))>>) :
            d \in Responses, e \in {Echo} \cup Responses, f \in Responses}

TakeRequests == {Request("7", m, p) : m \in DOMAIN Taking, p \in Params}
ParamInputs == {Whole(<<Good(Single(e))>>) : e \in TakeRequests}

MCElements == Kinds \cup TakeRequests

MCInputs == FrameInputs \cup MessageInputs \cup ParamInputs
=============================================================================
