--------------------------- MODULE JsonConversion ---------------------------
(***************************************************************************)
(* from_dict() and as_json(): JSON against the types of Python. The peer   *)
(* converts the params of a request for its handler, and writes the result *)
(* of the handler; neither uses the strict mode, which is left out, and so *)
(* is an integer too large for a float: float() raises an OverflowError,   *)
(* which ends the conversion of the whole value, also within a union.      *)
(*                                                                         *)
(* A JSON value is [k, v] with its text in v (a number by its digits, TRUE *)
(* as "1"), a list [k, items] or an object [k, fields]. from_dict() makes  *)
(* a member of an enum, a tuple or an instance of a class out of them. A   *)
(* type is a record too; "of" holds the types it is made of.               *)
(*                                                                         *)
(* The recursions of the code are recursive functions: of the pairs of a   *)
(* value and a type, and of the values. Each has its one step in a         *)
(* definition of its own (...By), where "deeper" is the function itself.   *)
(***************************************************************************)
EXTENDS Naturals, Sequences, FiniteSets, SequencesExt

CONSTANTS
    Class,      \* the classes by name: [types, names, defaults], functions of the fields, and
                \* factories, the fields whose default a factory makes
    Json,       \* the JSON values; an integer is one that a float can hold
    Depth,      \* of each value of Python, of JSON or not: how deep it nests others
    Height      \* of each type: how deep it nests others

Value == DOMAIN Depth
Type == DOMAIN Height

Null == [k |-> "null", v |-> "null"]
Scalar(kind, text) == [k |-> kind, v |-> text]
List(items) == [k |-> "list", items |-> items]
Tuple(items) == [k |-> "tuple", items |-> items]
Object(fields) == [k |-> "object", fields |-> fields]
Member(value) == [k |-> "member", of |-> value]
Instance(class, fields) == [k |-> "instance", class |-> class, fields |-> fields]

Plain(kind) == [t |-> kind, of |-> <<>>]
Typed(kind, types) == [t |-> kind, of |-> types]
Values(kind, values) == [t |-> kind, values |-> values]
ClassType(name) == [t |-> "class", class |-> name]

Numbers == {"bool", "int", "float"}
BasicTypes == Numbers \cup {"str", "null"}

\* == of Python, where TRUE and 1 and 1.0 are equal.
PyEqual(a, b) ==
    /\ a.k \notin {"list", "object"} /\ b.k \notin {"list", "object"}
    /\ a.v = b.v
    /\ a.k = b.k \/ {a.k, b.k} \subseteq Numbers

\* What a value and a type are made of.
Parts(x) ==
    CASE x.k \in {"list", "tuple"} -> ToSet(x.items)
      [] x.k \in {"object", "instance"} -> {x.fields[f] : f \in DOMAIN x.fields}
      [] x.k = "member" -> {x.of}
      [] OTHER -> {}
Members(type) == IF type.t \in {"union", "list", "tuple", "dict"} THEN ToSet(type.of) ELSE {}

IsOne(S) == \E x \in S : S = {x}

-----------------------------------------------------------------------------
(* The fields of a class *)

FieldNames(class) == DOMAIN Class[class].types

\* The field that a key of an object stands for: by its alias, its case, or its own name.
FieldOf(class, key) == {f \in FieldNames(class) : key \in {f, Class[class].names[f]}}

Present(class, object) == UNION {FieldOf(class, key) : key \in DOMAIN object.fields}
Required(class) == FieldNames(class) \ DOMAIN Class[class].defaults
KnowsAll(class, object) == \A key \in DOMAIN object.fields : FieldOf(class, key) # {}
ValueOf(class, object, field) ==
    object.fields[CHOOSE key \in DOMAIN object.fields : field \in FieldOf(class, key)]

\* Values and types nest others to some depth only, classes may be of each other's types.
ASSUME ValuesAssumption ==
    /\ Depth \in [Value -> Nat] /\ Json \subseteq Value
    /\ \A x \in Value : \A y \in Parts(x) : y \in Value /\ Depth[y] < Depth[x]
    /\ \A v \in Json :
        /\ Parts(v) \subseteq Json
        /\ \/ v.k \in BasicTypes /\ v = Scalar(v.k, v.v)
           \/ v.k = "list" /\ v = List(v.items) /\ v.items \in Seq(Json)
           \/ v.k = "object" /\ v = Object(v.fields) /\ v.fields \in [DOMAIN v.fields -> Json] /\ IsFiniteSet(DOMAIN v.fields)
ASSUME TypesAssumption ==
    /\ Height \in [Type -> Nat]
    /\ \A type \in Type :
        /\ \A u \in Members(type) : u \in Type /\ Height[u] < Height[type]
        /\ \/ type.t \in BasicTypes \cup {"any", "literal", "enum"}
           \/ type.t \in {"union", "tuple"} /\ type.of \in Seq(Type)
           \/ type.t \in {"list", "dict"} /\ type.of \in Seq(Type) /\ Len(type.of) = 1
           \/ type.t = "class" /\ type = ClassType(type.class) /\ type.class \in DOMAIN Class

\* A key stands for one field of a class, and no object names a field by two keys.
ASSUME ClassesAssumption ==
    \A c \in DOMAIN Class :
        /\ Class[c].types \in [FieldNames(c) -> Type] /\ IsFiniteSet(FieldNames(c))
        /\ DOMAIN Class[c].names = FieldNames(c) /\ DOMAIN Class[c].defaults \subseteq FieldNames(c)
        /\ Class[c].factories \subseteq DOMAIN Class[c].defaults
        /\ \A f, g \in FieldNames(c) : f # g => {f, Class[c].names[f]} \cap {g, Class[c].names[g]} = {}
        /\ \A v \in Json : v.k = "object" =>
            \A key, other \in DOMAIN v.fields : FieldOf(c, key) \cap FieldOf(c, other) # {} => key = other

-----------------------------------------------------------------------------
(* Reading. A result is the set of the value, or {} for a TypeError. *)

\* Defect: bool is a subclass of int.
BasicTypeOfPython(value, kind) ==
    IF value.k = kind \/ (kind = "int" /\ value.k = "bool") THEN {value}
    ELSE IF kind = "float" /\ value.k = "int" THEN {Scalar("float", value.v)} ELSE {}

BasicType(value, kind) ==
    IF value.k = kind THEN {value}
    ELSE IF kind = "float" /\ value.k = "int" THEN {Scalar("float", value.v)} ELSE {}

\* Each part with its own conversion; none of them may fail.
All(results) ==
    IF \E i \in DOMAIN results : results[i] = {} THEN {}
    ELSE {[i \in DOMAIN results |-> CHOOSE x \in results[i] : TRUE]}

\* The classes of a union whose required keys are there. Next to a dict type, which
\* keeps every key, a class has to know them all.
Fitting(object, types, knownKeysOnly) ==
    {c \in {types[i].class : i \in {j \in DOMAIN types : types[j].t = "class"}} :
        /\ Required(c) \subseteq Present(c, object)
        /\ knownKeysOnly => KnowsAll(c, object)}

\* Those with the most keys.
Matches(object, types, knownKeysOnly) ==
    LET fitting == Fitting(object, types, knownKeysOnly)
        keys(c) == Cardinality(Present(c, object))
    IN {c \in fitting : \A d \in fitting : keys(d) <= keys(c)}

\* The result of a list of types, of the results of each.
Chosen(value, types, results) ==
    LET handled == {i \in DOMAIN types : types[i].t # "class" /\ results[types[i]] # {}}
        first == types[Min(handled)]
        isMapping == handled # {} /\ Len(types) > 1 /\ first.t = "dict"
        created == IF value.k # "object" THEN {}
                   ELSE UNION {results[ClassType(c)] : c \in Matches(value, types, isMapping)}
    IN IF handled # {} /\ ~isMapping THEN results[first]
       ELSE IF IsOne(created) THEN created
       ELSE IF isMapping THEN results[first] ELSE {}

\* An instance of a class from the values of the keys that it knows, and its defaults.
Filled(object, class, deeper) ==
    LET given == Present(class, object)
        params == All([f \in given |-> deeper[<<ValueOf(class, object, f), Class[class].types[f]>>]])
    IN IF ~(Required(class) \subseteq given) THEN {}
       ELSE {Instance(class, [f \in FieldNames(class) |->
                IF f \in given THEN p[f] ELSE Class[class].defaults[f]]) : p \in params}

\* The handler of a type, or the creation of an instance.
ConvertedBy(deeper, value, type) ==
    CASE type.t \in BasicTypes -> BasicType(value, type.t)
      [] type.t = "any" -> {value}
      [] type.t = "union" -> Chosen(value, type.of, [u \in ToSet(type.of) |-> deeper[<<value, u>>]])
      [] type.t = "literal" -> {a \in {value} : \E b \in type.values : PyEqual(a, b)}
      [] type.t = "enum" -> {Member(a) : a \in {b \in type.values : PyEqual(b, value)}}
      [] type.t = "list" /\ value.k = "list" ->
            {List(s) : s \in All([i \in DOMAIN value.items |-> deeper[<<value.items[i], type.of[1]>>]])}
      [] type.t = "tuple" /\ value.k = "list" /\ Len(type.of) = Len(value.items) ->
            {Tuple(s) : s \in All([i \in DOMAIN value.items |-> deeper[<<value.items[i], type.of[i]>>]])}
      [] type.t = "dict" /\ value.k = "object" ->
            {Object(f) : f \in All([key \in DOMAIN value.fields |-> deeper[<<value.fields[key], type.of[1]>>]])}
      [] type.t = "class" /\ value.k = "object" -> Filled(value, type.class, deeper)
      [] OTHER -> {}

Conversion[p \in Json \X Type] == ConvertedBy(Conversion, p[1], p[2])

Converted(value, types) ==
    IF types = <<>> THEN {value}
    ELSE Chosen(value, types, [u \in ToSet(types) |-> Conversion[<<value, u>>]])

-----------------------------------------------------------------------------
(* Writing *)

\* Defect: every None is left out.
OmittedIfNone(class, field, value) == value.k = "null"

\* A field that is None and has a default is left out; one with a default factory is not.
Omitted(class, field, value) ==
    value.k = "null" /\ field \in DOMAIN Class[class].defaults \ Class[class].factories

AsJsonBy(deeper, x) ==
    CASE x.k = "member" -> deeper[x.of]
      [] x.k \in {"list", "tuple"} -> List([i \in DOMAIN x.items |-> deeper[x.items[i]]])
      [] x.k = "object" -> Object([key \in DOMAIN x.fields |-> deeper[x.fields[key]]])
      [] x.k = "instance" ->
            LET saved == {f \in DOMAIN x.fields : ~Omitted(x.class, f, x.fields[f])}
                name(f) == Class[x.class].names[f]
            IN Object([key \in {name(f) : f \in saved} |->
                deeper[x.fields[CHOOSE f \in saved : name(f) = key]]])
      [] OTHER -> x

AsJson[x \in Value] == AsJsonBy(AsJson, x)

-----------------------------------------------------------------------------
(* The reference: every value of a type that a JSON value may stand for. It has    *)
(* no order of types, no first pass and no count of keys. It reads "exact"ly, so    *)
(* that no key of an object is ignored, or keys may be ignored in it where no other *)
(* type of a union calls for them ("apart"), or anywhere ("any").                   *)

Modes == {"exact", "apart", "any"}

\* The functions that take one of the readings of each part.
Product(sets) ==
    {f \in [DOMAIN sets -> UNION {sets[i] : i \in DOMAIN sets}] : \A i \in DOMAIN sets : f[i] \in sets[i]}

\* The only class that keeps every key goes before a dict type, and a dict type that fits
\* before a class that does not know every key.
Counted(value, types, exact) ==
    LET kept == {t \in types : t.t \in {"class", "dict"} /\ exact[t] # {}}
        classes == {t \in kept : t.t = "class"}
    IN {t \in types : /\ t.t = "dict" => ~IsOne(classes)
                      /\ t.t = "class" /\ kept # classes => KnowsAll(t.class, value)}

UnionReadings(value, types, how, deeper) ==
    LET exact == [t \in types |-> deeper[<<value, t, "exact">>]]
    IN UNION {deeper[<<value, t, how>>] : t \in IF how = "any" THEN types ELSE Counted(value, types, exact)}

ClassReadings(object, class, how, deeper) ==
    LET given == Present(class, object)
    IN IF Required(class) \subseteq given /\ (how = "exact" => KnowsAll(class, object))
       THEN {Instance(class, f) : f \in Product([g \in FieldNames(class) |->
                IF g \in given THEN deeper[<<ValueOf(class, object, g), Class[class].types[g], how>>]
                ELSE {Class[class].defaults[g]}])}
       ELSE {}

\* An integer also stands for a number of type float.
ReadingsBy(deeper, value, type, how) ==
    CASE type.t \in BasicTypes /\ type.t = value.k -> {value}
      [] type.t = "float" /\ value.k = "int" -> {Scalar("float", value.v)}
      [] type.t = "any" -> {value}
      [] type.t = "literal" -> {a \in {value} : \E b \in type.values : PyEqual(a, b)}
      [] type.t = "enum" -> {Member(a) : a \in {b \in type.values : PyEqual(b, value)}}
      [] type.t = "union" -> UnionReadings(value, ToSet(type.of), how, deeper)
      [] type.t = "list" /\ value.k = "list" ->
            {List(s) : s \in Product([i \in DOMAIN value.items |-> deeper[<<value.items[i], type.of[1], how>>]])}
      [] type.t = "tuple" /\ value.k = "list" /\ Len(value.items) = Len(type.of) ->
            {Tuple(s) : s \in Product([i \in DOMAIN value.items |-> deeper[<<value.items[i], type.of[i], how>>]])}
      [] type.t = "dict" /\ value.k = "object" ->
            {Object(f) : f \in Product([key \in DOMAIN value.fields |-> deeper[<<value.fields[key], type.of[1], how>>]])}
      [] type.t = "class" /\ value.k = "object" -> ClassReadings(value, type.class, how, deeper)
      [] OTHER -> {}

Reading[q \in Json \X Type \X Modes] == ReadingsBy(Reading, q[1], q[2], q[3])
Readings(value, type, how) == Reading[<<value, type, how>>]
=============================================================================
