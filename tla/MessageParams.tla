--------------------------- MODULE MessageParams ---------------------------
(***************************************************************************)
(* The dispatch of messages with the conversion of their params: what the  *)
(* handlers of a JsonRpcPeer get from from_dict().                         *)
(***************************************************************************)
EXTENDS MessageDispatch, JsonConversion

\* The FromDict of the dispatch is the one of JsonConversion.
ASSUME FromDictAssumption == \A v \in Json, type \in Type : FromDict(v, <<type>>) = Converted(v, <<type>>)

\* Params are JSON, and handlers take types of Python.
ASSUME ParamsAssumption ==
    /\ NoParams \in Json
    /\ \A e \in Elements : ParamsUsable(e) => ParamsOf(e) \in Json
    /\ \A m \in DOMAIN Handlers : Handlers[m].type \in Type
    /\ \A m \in DOMAIN Notified : Notified[m].type \in Type

\* What a value of a type may be written as is JSON. A default is a value of its type,
\* or a None that no factory makes.
ASSUME WritingAssumption ==
    /\ \A v \in Json, type \in Type : \A x \in Readings(v, type, "any") : x \in Value /\ AsJson[x] \in Json
    /\ \A c \in DOMAIN Class : \A f \in DOMAIN Class[c].defaults :
        LET default == Class[c].defaults[f]
        IN \/ default.k = "null" /\ f \notin Class[c].factories
           \/ /\ default \in Value /\ AsJson[default] \in Json
              /\ Readings(AsJson[default], Class[c].types[f], "exact") # {}

-----------------------------------------------------------------------------

\* What a handler gets is a value of its type that the params may stand for. If they stand for one
\* such value apart from the others, and for it no key is ignored, the handler gets that one,
\* whatever the order of a union.
ParamsAreRead ==
    \A r \in read :
        LET readings == Readings(r.sent, r.type, "apart")
        IN /\ r.got \subseteq Readings(r.sent, r.type, "any")
           /\ IsOne(readings) /\ Readings(r.sent, r.type, "exact") # {} => r.got = readings

\* What a handler got reads back as the same value when it is written as its result, unless the
\* JSON stands for another value of the type, too.
ReadsBack ==
    \A r \in read : \A x \in r.got :
        LET json == AsJson[x]
        IN Readings(json, r.type, "apart") \subseteq {x} => Converted(json, <<r.type>>) = {x}
=============================================================================
