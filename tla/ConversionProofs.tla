-------------------------- MODULE ConversionProofs --------------------------
(***************************************************************************)
(* Proofs about JsonConversion and MessageParams, for all values and types.*)
(* Conversion, Reading and AsJson are recursive functions: each is there,  *)
(* and meets its equation, because a step only looks at what is nested     *)
(* less deep. The induction is over the pairs of a value and a type: the   *)
(* value first, because a class may be of any type.                        *)
(***************************************************************************)
EXTENDS MessageParams, MessageProofs, FiniteSetTheorems

-----------------------------------------------------------------------------
(* Pairs of a value and a type *)

Pairs == Json \X Type

Below(p, q) ==
    \/ Depth[p[1]] < Depth[q[1]]
    \/ Depth[p[1]] = Depth[q[1]] /\ Height[p[2]] < Height[q[2]]

LEMMA Measures ==
  /\ \A v \in Json : v \in Value /\ Depth[v] \in Nat
  /\ \A x \in Value : Depth[x] \in Nat
  /\ \A type \in Type : Height[type] \in Nat
  BY ValuesAssumption, TypesAssumption

\* D holds pairs, or what begins with a pair.
IsPaired(D) == \A p \in D : p[1] \in Json /\ p[2] \in Type

LEMMA BelowTransitive ==
  ASSUME NEW D, IsPaired(D), NEW p \in D, NEW q \in D, NEW r \in D, Below(p, q), Below(q, r)
  PROVE  Below(p, r)
<1>1. /\ Depth[p[1]] \in Nat /\ Depth[q[1]] \in Nat /\ Depth[r[1]] \in Nat
      /\ Height[p[2]] \in Nat /\ Height[q[2]] \in Nat /\ Height[r[2]] \in Nat
  BY Measures DEF IsPaired
<1> QED BY <1>1 DEF Below

LEMMA PairInduction ==
  ASSUME NEW D, IsPaired(D), NEW T,
         \A p \in D : (\A q \in D : Below(q, p) => q \in T) => p \in T
  PROVE  D \subseteq T
<1> SUFFICES ASSUME NEW worst \in D, worst \notin T PROVE FALSE
  OBVIOUS
<1> DEFINE depths == {Depth[p[1]] : p \in D \ T}
<1>1. PICK d \in depths : \A n \in depths : d <= n
  <2>1. depths \subseteq Nat
    BY Measures DEF IsPaired
  <2>2. Depth[worst[1]] \in depths
    OBVIOUS
  <2> HIDE DEF depths
  <2> QED BY <2>1, <2>2, LeastNumber
<1> DEFINE heights == {Height[p[2]] : p \in {q \in D \ T : Depth[q[1]] = d}}
<1>2. PICK h \in heights : \A n \in heights : h <= n
  <2>0. PICK p \in D \ T : Depth[p[1]] = d
    BY <1>1
  <2>1. heights \subseteq Nat
    BY Measures DEF IsPaired
  <2>2. Height[p[2]] \in heights
    BY <2>0
  <2> HIDE DEF heights
  <2> QED BY <2>1, <2>2, LeastNumber
<1>3. PICK p \in D \ T : Depth[p[1]] = d /\ Height[p[2]] = h
  BY <1>2
<1>4. ASSUME NEW q \in D, Below(q, p) PROVE q \in T
  <2>1. SUFFICES ASSUME q \notin T PROVE FALSE
    OBVIOUS
  <2>2. Depth[q[1]] \in Nat /\ Depth[p[1]] \in Nat /\ Height[q[2]] \in Nat /\ Height[p[2]] \in Nat
    BY Measures DEF IsPaired
  <2>3. d <= Depth[q[1]]
    BY <1>1, <2>1
  <2>4. Depth[q[1]] = d /\ Height[q[2]] < h
    BY <1>3, <1>4, <2>2, <2>3 DEF Below
  <2>5. h <= Height[q[2]]
    BY <1>2, <2>1, <2>4
  <2> QED BY <1>3, <2>2, <2>4, <2>5
<1> QED BY <1>3, <1>4

\* D, or a part of it, with everything below.
IsClosed(S, D) == S \subseteq D /\ \A p \in S : \A q \in D : Below(q, p) => q \in S
AtMost(p, D) == {q \in D : q = p \/ Below(q, p)}

LEMMA AtMostClosed ==
  ASSUME NEW D, IsPaired(D), NEW p \in D
  PROVE  IsClosed(AtMost(p, D), D) /\ p \in AtMost(p, D)
  BY BelowTransitive DEF IsClosed, AtMost

\* The values and types that are below, by what they are.
LEMMA PartsBelow ==
  ASSUME NEW v \in Json, NEW type \in Type
  PROVE  /\ \A u \in Members(type) : u \in Type /\ Below(<<v, u>>, <<v, type>>)
         /\ \A w \in Parts(v), u \in Type : w \in Json /\ Below(<<w, u>>, <<v, type>>)
  BY ValuesAssumption, TypesAssumption, Measures DEF Below

-----------------------------------------------------------------------------
(* What values and types are made of *)

LEMMA ListParts ==
  ASSUME NEW v \in Json, v.k = "list"
  PROVE  /\ v = List(v.items) /\ v.items \in Seq(Json)
         /\ \A i \in DOMAIN v.items : v.items[i] \in Json /\ v.items[i] \in Parts(v)
<1>1. v = List(v.items) /\ v.items \in Seq(Json)
  BY ValuesAssumption DEF Scalar, Object, BasicTypes, Numbers
<1>2. \A i \in DOMAIN v.items : v.items[i] \in Parts(v)
  BY DEF Parts, ToSet
<1> QED BY <1>1, <1>2

LEMMA ObjectParts ==
  ASSUME NEW v \in Json, v.k = "object"
  PROVE  /\ v = Object(v.fields) /\ v.fields \in [DOMAIN v.fields -> Json]
         /\ IsFiniteSet(DOMAIN v.fields)
         /\ \A key \in DOMAIN v.fields : v.fields[key] \in Json /\ v.fields[key] \in Parts(v)
<1>1. /\ v = Object(v.fields) /\ v.fields \in [DOMAIN v.fields -> Json]
      /\ IsFiniteSet(DOMAIN v.fields)
  BY ValuesAssumption DEF Scalar, List, BasicTypes, Numbers
<1>2. \A key \in DOMAIN v.fields : v.fields[key] \in Parts(v)
  BY DEF Parts
<1> QED BY <1>1, <1>2

LEMMA JsonKinds ==
  ASSUME NEW v \in Json
  PROVE  v.k \in BasicTypes \cup {"list", "object"} /\ (v.k \in BasicTypes => v = Scalar(v.k, v.v))
  BY ValuesAssumption DEF List, Object, BasicTypes, Numbers

LEMMA MemberTypes ==
  ASSUME NEW type \in Type
  PROVE  /\ type.t \in {"union", "tuple"} =>
              type.of \in Seq(Type) /\ \A i \in DOMAIN type.of : type.of[i] \in Members(type)
         /\ type.t \in {"list", "dict"} =>
              type.of \in Seq(Type) /\ Len(type.of) = 1 /\ type.of[1] \in Type
         /\ type.t = "class" => type = ClassType(type.class) /\ type.class \in DOMAIN Class
<1>1. type.t \in {"union", "tuple"} => type.of \in Seq(Type)
  BY TypesAssumption DEF BasicTypes, Numbers, ClassType
<1>2. type.t \in {"list", "dict"} => type.of \in Seq(Type) /\ Len(type.of) = 1
  BY TypesAssumption DEF BasicTypes, Numbers, ClassType
<1>3. type.t = "class" => type = ClassType(type.class) /\ type.class \in DOMAIN Class
  BY TypesAssumption DEF BasicTypes, Numbers, ClassType
<1>4. type.t \in {"union", "tuple"} => \A i \in DOMAIN type.of : type.of[i] \in Members(type)
  BY DEF Members, ToSet
<1> QED BY <1>1, <1>2, <1>3, <1>4

LEMMA FieldParts ==
  ASSUME NEW v \in Json, v.k = "object", NEW c \in DOMAIN Class, NEW f \in Present(c, v)
  PROVE  /\ f \in FieldNames(c) /\ Class[c].types[f] \in Type
         /\ ValueOf(c, v, f) \in Json /\ ValueOf(c, v, f) \in Parts(v)
<1>1. PICK key \in DOMAIN v.fields : f \in FieldOf(c, key)
  BY DEF Present
<1>2. f \in FieldNames(c)
  BY <1>1 DEF FieldOf
<1>3. Class[c].types[f] \in Type
  BY <1>2, ClassesAssumption
<1> DEFINE chosen == CHOOSE k \in DOMAIN v.fields : f \in FieldOf(c, k)
<1>4. chosen \in DOMAIN v.fields
  BY <1>1
<1>5. ValueOf(c, v, f) = v.fields[chosen]
  BY DEF ValueOf
<1> QED BY <1>2, <1>3, <1>4, <1>5, ObjectParts

-----------------------------------------------------------------------------
(* Conversion is there *)

LEMMA ConvertedLocal ==
  ASSUME NEW v \in Json, NEW type \in Type, NEW g, NEW h,
         \A q \in Pairs : Below(q, <<v, type>>) => g[q] = h[q]
  PROVE  ConvertedBy(g, v, type) = ConvertedBy(h, v, type)
<1>1. \A u \in Members(type) : g[<<v, u>>] = h[<<v, u>>]
  BY PartsBelow DEF Pairs
<1>2. \A w \in Parts(v), u \in Type : g[<<w, u>>] = h[<<w, u>>]
  BY PartsBelow DEF Pairs
<1>3. type.t = "union" =>
        [u \in ToSet(type.of) |-> g[<<v, u>>]] = [u \in ToSet(type.of) |-> h[<<v, u>>]]
  BY <1>1 DEF Members
<1>4. type.t = "list" /\ v.k = "list" =>
        [i \in DOMAIN v.items |-> g[<<v.items[i], type.of[1]>>]]
          = [i \in DOMAIN v.items |-> h[<<v.items[i], type.of[1]>>]]
  BY <1>2, ListParts, MemberTypes
<1>5. type.t = "tuple" /\ v.k = "list" /\ Len(type.of) = Len(v.items) =>
        [i \in DOMAIN v.items |-> g[<<v.items[i], type.of[i]>>]]
          = [i \in DOMAIN v.items |-> h[<<v.items[i], type.of[i]>>]]
  <2> SUFFICES ASSUME type.t = "tuple", v.k = "list", Len(type.of) = Len(v.items),
                      NEW i \in DOMAIN v.items
               PROVE  g[<<v.items[i], type.of[i]>>] = h[<<v.items[i], type.of[i]>>]
    OBVIOUS
  <2>1. v.items \in Seq(Json) /\ v.items[i] \in Parts(v)
    BY ListParts
  <2>2. type.of \in Seq(Type)
    BY MemberTypes
  <2>3. type.of[i] \in Type
    BY <2>1, <2>2
  <2> QED BY <1>2, <2>1, <2>3
<1>6. type.t = "dict" /\ v.k = "object" =>
        [key \in DOMAIN v.fields |-> g[<<v.fields[key], type.of[1]>>]]
          = [key \in DOMAIN v.fields |-> h[<<v.fields[key], type.of[1]>>]]
  BY <1>2, ObjectParts, MemberTypes
<1>7. type.t = "class" /\ v.k = "object" => Filled(v, type.class, g) = Filled(v, type.class, h)
  <2> SUFFICES ASSUME type.t = "class", v.k = "object"
               PROVE  Filled(v, type.class, g) = Filled(v, type.class, h)
    OBVIOUS
  <2> DEFINE c == type.class
  <2>1. c \in DOMAIN Class
    BY MemberTypes
  <2>2. \A f \in Present(c, v) : ValueOf(c, v, f) \in Parts(v) /\ Class[c].types[f] \in Type
    BY <2>1, FieldParts
  <2>3. [f \in Present(c, v) |-> g[<<ValueOf(c, v, f), Class[c].types[f]>>]]
          = [f \in Present(c, v) |-> h[<<ValueOf(c, v, f), Class[c].types[f]>>]]
    BY <1>2, <2>2
  <2> QED BY <2>3 DEF Filled
<1> QED BY <1>3, <1>4, <1>5, <1>6, <1>7 DEF ConvertedBy

LEMMA ConversionPaired == IsPaired(Pairs)
  BY DEF IsPaired, Pairs

LEMMA ConversionStep ==
  ASSUME NEW p \in Pairs, NEW g, NEW h, \A q \in Pairs : Below(q, p) => g[q] = h[q]
  PROVE  ConvertedBy(g, p[1], p[2]) = ConvertedBy(h, p[1], p[2])
<1>1. p = <<p[1], p[2]>> /\ p[1] \in Json /\ p[2] \in Type
  BY DEF Pairs
<1>2. \A q \in Pairs : Below(q, <<p[1], p[2]>>) => g[q] = h[q]
  BY <1>1
<1> QED BY <1>1, <1>2, ConvertedLocal

IsConversion(S, g) == g = [p \in S |-> ConvertedBy(g, p[1], p[2])]
TheConversion(p) == CHOOSE g : IsConversion(AtMost(p, Pairs), g)

LEMMA ConversionUnique ==
  ASSUME NEW S, NEW R, IsClosed(S, Pairs), IsClosed(R, Pairs), NEW g, NEW h, IsConversion(S, g), IsConversion(R, h)
  PROVE  \A p \in S \cap R : g[p] = h[p]
<1> DEFINE T == {p \in Pairs : p \in S \cap R => g[p] = h[p]}
<1>1. ASSUME NEW p \in Pairs, \A q \in Pairs : Below(q, p) => q \in T PROVE p \in T
  <2>1. SUFFICES ASSUME p \in S, p \in R PROVE g[p] = h[p]
    OBVIOUS
  <2>2. \A q \in Pairs : Below(q, p) => g[q] = h[q]
    BY <1>1, <2>1 DEF IsClosed
  <2>3. ConvertedBy(g, p[1], p[2]) = ConvertedBy(h, p[1], p[2])
    BY <2>2, ConversionStep
  <2>4. g[p] = ConvertedBy(g, p[1], p[2]) /\ h[p] = ConvertedBy(h, p[1], p[2])
    BY <2>1 DEF IsConversion
  <2> QED BY <2>3, <2>4
<1> HIDE DEF T
<1>2. Pairs \subseteq T
  BY <1>1, ConversionPaired, PairInduction
<1> QED BY <1>2 DEF T, IsClosed

LEMMA ConversionGlued ==
  ASSUME NEW S, IsClosed(S, Pairs), \A p \in S : IsConversion(AtMost(p, Pairs), TheConversion(p))
  PROVE  IsConversion(S, [p \in S |-> TheConversion(p)[p]])
<1> DEFINE h == [p \in S |-> TheConversion(p)[p]]
<1>1. ASSUME NEW p \in S PROVE h[p] = ConvertedBy(h, p[1], p[2])
  <2>0. p \in Pairs /\ IsClosed(AtMost(p, Pairs), Pairs) /\ p \in AtMost(p, Pairs)
    BY ConversionPaired, AtMostClosed DEF IsClosed
  <2>1. ASSUME NEW q \in Pairs, Below(q, p) PROVE TheConversion(p)[q] = h[q]
    <3>1. q \in S /\ q \in AtMost(p, Pairs)
      BY <2>0, <2>1 DEF IsClosed, AtMost
    <3>2. IsClosed(AtMost(q, Pairs), Pairs) /\ q \in AtMost(q, Pairs)
      BY <2>1, ConversionPaired, AtMostClosed
    <3>3. IsConversion(AtMost(p, Pairs), TheConversion(p)) /\ IsConversion(AtMost(q, Pairs), TheConversion(q))
      BY <3>1
    <3>4. TheConversion(p)[q] = TheConversion(q)[q]
      BY <2>0, <3>1, <3>2, <3>3, ConversionUnique
    <3> QED BY <3>1, <3>4
  <2>2. ConvertedBy(TheConversion(p), p[1], p[2]) = ConvertedBy(h, p[1], p[2])
    <3> HIDE DEF h
    <3> QED BY <2>0, <2>1, ConversionStep
  <2>3. TheConversion(p)[p] = ConvertedBy(TheConversion(p), p[1], p[2])
    BY <2>0 DEF IsConversion
  <2> QED BY <2>2, <2>3
<1>2. DOMAIN h = S
  OBVIOUS
<1>3. h = [p \in S |-> ConvertedBy(h, p[1], p[2])]
  <2>1. h = [p \in S |-> h[p]]
    OBVIOUS
  <2> HIDE DEF h
  <2> QED BY <1>1, <2>1
<1> QED BY <1>3 DEF IsConversion

LEMMA ConversionExists == IsConversion(Pairs, Conversion)
<1> DEFINE T == {p \in Pairs : IsConversion(AtMost(p, Pairs), TheConversion(p))}
<1>1. ASSUME NEW p \in Pairs, \A q \in Pairs : Below(q, p) => q \in T PROVE p \in T
  <2> DEFINE S == {q \in Pairs : Below(q, p)}
             below == [q \in S |-> TheConversion(q)[q]]
             g == [q \in AtMost(p, Pairs) |-> ConvertedBy(below, q[1], q[2])]
  <2>1. IsClosed(S, Pairs)
    BY ConversionPaired, BelowTransitive DEF IsClosed
  <2>2. IsConversion(S, below)
    <3>1. \A q \in S : IsConversion(AtMost(q, Pairs), TheConversion(q))
      BY <1>1
    <3> QED BY <2>1, <3>1, ConversionGlued
  <2>3. ASSUME NEW q \in S PROVE below[q] = g[q]
    <3>1. q \in AtMost(p, Pairs)
      BY DEF AtMost
    <3>2. below[q] = ConvertedBy(below, q[1], q[2])
      <4> HIDE DEF below, S
      <4> QED BY <2>2, <2>3 DEF IsConversion
    <3> HIDE DEF below, S
    <3> QED BY <3>1, <3>2
  <2>4. ASSUME NEW q \in AtMost(p, Pairs) PROVE ConvertedBy(below, q[1], q[2]) = ConvertedBy(g, q[1], q[2])
    <3>1. q \in Pairs
      BY DEF AtMost
    <3>2. \A r \in Pairs : Below(r, q) => r \in S
      BY ConversionPaired, BelowTransitive DEF AtMost
    <3>3. \A r \in Pairs : Below(r, q) => below[r] = g[r]
      <4> HIDE DEF S, below, g
      <4> QED BY <2>3, <3>2
    <3> HIDE DEF S, below, g
    <3> QED BY <3>1, <3>3, ConversionStep
  <2>5. g = [q \in AtMost(p, Pairs) |-> ConvertedBy(g, q[1], q[2])]
    BY <2>4
  <2>6. IsConversion(AtMost(p, Pairs), g)
    <3> HIDE DEF g, below
    <3> QED BY <2>5 DEF IsConversion
  <2> HIDE DEF g, below, S
  <2> QED BY <2>6 DEF TheConversion
<1> HIDE DEF T
<1>2. Pairs \subseteq T
  BY <1>1, ConversionPaired, PairInduction
<1>3. IsClosed(Pairs, Pairs)
  BY DEF IsClosed
<1>4. IsConversion(Pairs, [p \in Pairs |-> TheConversion(p)[p]])
  BY <1>2, <1>3, ConversionGlued DEF T
<1>5. Conversion = CHOOSE g : IsConversion(Pairs, g)
  BY DEF Conversion, IsConversion, Pairs
<1> QED BY <1>4, <1>5

LEMMA ConversionIs ==
  ASSUME NEW v \in Json, NEW type \in Type
  PROVE  Conversion[<<v, type>>] = ConvertedBy(Conversion, v, type)
<1>1. <<v, type>> \in Pairs /\ <<v, type>>[1] = v /\ <<v, type>>[2] = type
  BY DEF Pairs
<1>2. Conversion = [p \in Pairs |-> ConvertedBy(Conversion, p[1], p[2])]
  BY ConversionExists DEF IsConversion
<1> QED BY <1>1, <1>2

-----------------------------------------------------------------------------
(* Reading is there *)

Triples == Json \X Type \X Modes

LEMMA ReadingsLocal ==
  ASSUME NEW v \in Json, NEW type \in Type, NEW how \in Modes, NEW g, NEW h,
         \A q \in Triples : Below(q, <<v, type>>) => g[q] = h[q]
  PROVE  ReadingsBy(g, v, type, how) = ReadingsBy(h, v, type, how)
<1>0. \A w \in Json, u \in Type, m \in Modes :
        Below(<<w, u>>, <<v, type>>) => g[<<w, u, m>>] = h[<<w, u, m>>]
  BY DEF Triples, Below
<1>1. \A u \in Members(type), m \in Modes : g[<<v, u, m>>] = h[<<v, u, m>>]
  BY <1>0, PartsBelow
<1>2. \A w \in Parts(v), u \in Type : g[<<w, u, how>>] = h[<<w, u, how>>]
  BY <1>0, PartsBelow
<1>3. type.t = "union" => UnionReadings(v, ToSet(type.of), how, g) = UnionReadings(v, ToSet(type.of), how, h)
  <2> SUFFICES ASSUME type.t = "union"
               PROVE  UnionReadings(v, ToSet(type.of), how, g) = UnionReadings(v, ToSet(type.of), how, h)
    OBVIOUS
  <2> DEFINE types == ToSet(type.of)
  <2>1. types = Members(type)
    BY DEF Members
  <2>2. [t \in types |-> g[<<v, t, "exact">>]] = [t \in types |-> h[<<v, t, "exact">>]]
    BY <1>1, <2>1 DEF Modes
  <2> DEFINE exact == [t \in types |-> g[<<v, t, "exact">>]]
             counted == IF how = "any" THEN types ELSE Counted(v, types, exact)
  <2>3. counted \subseteq types
    BY DEF Counted
  <2>4. {g[<<v, t, how>>] : t \in counted} = {h[<<v, t, how>>] : t \in counted}
    <3> HIDE DEF counted, types
    <3> QED BY <1>1, <2>1, <2>3
  <2>5. UnionReadings(v, types, how, g) = UNION {g[<<v, t, how>>] : t \in counted}
    BY DEF UnionReadings
  <2>6. UnionReadings(v, types, how, h) = UNION {h[<<v, t, how>>] : t \in counted}
    BY <2>2 DEF UnionReadings
  <2> HIDE DEF counted, exact
  <2> QED BY <2>4, <2>5, <2>6
<1>4. type.t = "list" /\ v.k = "list" =>
        [i \in DOMAIN v.items |-> g[<<v.items[i], type.of[1], how>>]]
          = [i \in DOMAIN v.items |-> h[<<v.items[i], type.of[1], how>>]]
  BY <1>2, ListParts, MemberTypes
<1>5. type.t = "tuple" /\ v.k = "list" /\ Len(v.items) = Len(type.of) =>
        [i \in DOMAIN v.items |-> g[<<v.items[i], type.of[i], how>>]]
          = [i \in DOMAIN v.items |-> h[<<v.items[i], type.of[i], how>>]]
  <2> SUFFICES ASSUME type.t = "tuple", v.k = "list", Len(v.items) = Len(type.of),
                      NEW i \in DOMAIN v.items
               PROVE  g[<<v.items[i], type.of[i], how>>] = h[<<v.items[i], type.of[i], how>>]
    OBVIOUS
  <2>1. v.items \in Seq(Json) /\ v.items[i] \in Parts(v)
    BY ListParts
  <2>2. type.of \in Seq(Type)
    BY MemberTypes
  <2>3. type.of[i] \in Type
    BY <2>1, <2>2
  <2> QED BY <1>2, <2>1, <2>3
<1>6. type.t = "dict" /\ v.k = "object" =>
        [key \in DOMAIN v.fields |-> g[<<v.fields[key], type.of[1], how>>]]
          = [key \in DOMAIN v.fields |-> h[<<v.fields[key], type.of[1], how>>]]
  BY <1>2, ObjectParts, MemberTypes
<1>7. type.t = "class" /\ v.k = "object" => ClassReadings(v, type.class, how, g) = ClassReadings(v, type.class, how, h)
  <2> SUFFICES ASSUME type.t = "class", v.k = "object"
               PROVE  ClassReadings(v, type.class, how, g) = ClassReadings(v, type.class, how, h)
    OBVIOUS
  <2> DEFINE c == type.class
  <2>1. c \in DOMAIN Class
    BY MemberTypes
  <2>2. \A f \in Present(c, v) : ValueOf(c, v, f) \in Parts(v) /\ Class[c].types[f] \in Type
    BY <2>1, FieldParts
  <2>3. [f \in FieldNames(c) |-> IF f \in Present(c, v) THEN g[<<ValueOf(c, v, f), Class[c].types[f], how>>]
                                 ELSE {Class[c].defaults[f]}]
          = [f \in FieldNames(c) |-> IF f \in Present(c, v) THEN h[<<ValueOf(c, v, f), Class[c].types[f], how>>]
                                     ELSE {Class[c].defaults[f]}]
    BY <1>2, <2>2
  <2> QED BY <2>3 DEF ClassReadings
<1> QED BY <1>3, <1>4, <1>5, <1>6, <1>7 DEF ReadingsBy

LEMMA ReadingPaired == IsPaired(Triples)
  BY DEF IsPaired, Triples

LEMMA ReadingStep ==
  ASSUME NEW p \in Triples, NEW g, NEW h, \A q \in Triples : Below(q, p) => g[q] = h[q]
  PROVE  ReadingsBy(g, p[1], p[2], p[3]) = ReadingsBy(h, p[1], p[2], p[3])
<1>1. p[1] \in Json /\ p[2] \in Type /\ p[3] \in Modes
  BY DEF Triples
<1>2. \A q \in Triples : Below(q, <<p[1], p[2]>>) => g[q] = h[q]
  BY DEF Below
<1> QED BY <1>1, <1>2, ReadingsLocal

IsReading(S, g) == g = [p \in S |-> ReadingsBy(g, p[1], p[2], p[3])]
TheReading(p) == CHOOSE g : IsReading(AtMost(p, Triples), g)

LEMMA ReadingUnique ==
  ASSUME NEW S, NEW R, IsClosed(S, Triples), IsClosed(R, Triples), NEW g, NEW h, IsReading(S, g), IsReading(R, h)
  PROVE  \A p \in S \cap R : g[p] = h[p]
<1> DEFINE T == {p \in Triples : p \in S \cap R => g[p] = h[p]}
<1>1. ASSUME NEW p \in Triples, \A q \in Triples : Below(q, p) => q \in T PROVE p \in T
  <2>1. SUFFICES ASSUME p \in S, p \in R PROVE g[p] = h[p]
    OBVIOUS
  <2>2. \A q \in Triples : Below(q, p) => g[q] = h[q]
    BY <1>1, <2>1 DEF IsClosed
  <2>3. ReadingsBy(g, p[1], p[2], p[3]) = ReadingsBy(h, p[1], p[2], p[3])
    BY <2>2, ReadingStep
  <2>4. g[p] = ReadingsBy(g, p[1], p[2], p[3]) /\ h[p] = ReadingsBy(h, p[1], p[2], p[3])
    BY <2>1 DEF IsReading
  <2> QED BY <2>3, <2>4
<1> HIDE DEF T
<1>2. Triples \subseteq T
  BY <1>1, ReadingPaired, PairInduction
<1> QED BY <1>2 DEF T, IsClosed

LEMMA ReadingGlued ==
  ASSUME NEW S, IsClosed(S, Triples), \A p \in S : IsReading(AtMost(p, Triples), TheReading(p))
  PROVE  IsReading(S, [p \in S |-> TheReading(p)[p]])
<1> DEFINE h == [p \in S |-> TheReading(p)[p]]
<1>1. ASSUME NEW p \in S PROVE h[p] = ReadingsBy(h, p[1], p[2], p[3])
  <2>0. p \in Triples /\ IsClosed(AtMost(p, Triples), Triples) /\ p \in AtMost(p, Triples)
    BY ReadingPaired, AtMostClosed DEF IsClosed
  <2>1. ASSUME NEW q \in Triples, Below(q, p) PROVE TheReading(p)[q] = h[q]
    <3>1. q \in S /\ q \in AtMost(p, Triples)
      BY <2>0, <2>1 DEF IsClosed, AtMost
    <3>2. IsClosed(AtMost(q, Triples), Triples) /\ q \in AtMost(q, Triples)
      BY <2>1, ReadingPaired, AtMostClosed
    <3>3. IsReading(AtMost(p, Triples), TheReading(p)) /\ IsReading(AtMost(q, Triples), TheReading(q))
      BY <3>1
    <3>4. TheReading(p)[q] = TheReading(q)[q]
      BY <2>0, <3>1, <3>2, <3>3, ReadingUnique
    <3> QED BY <3>1, <3>4
  <2>2. ReadingsBy(TheReading(p), p[1], p[2], p[3]) = ReadingsBy(h, p[1], p[2], p[3])
    <3> HIDE DEF h
    <3> QED BY <2>0, <2>1, ReadingStep
  <2>3. TheReading(p)[p] = ReadingsBy(TheReading(p), p[1], p[2], p[3])
    BY <2>0 DEF IsReading
  <2> QED BY <2>2, <2>3
<1>2. DOMAIN h = S
  OBVIOUS
<1>3. h = [p \in S |-> ReadingsBy(h, p[1], p[2], p[3])]
  <2>1. h = [p \in S |-> h[p]]
    OBVIOUS
  <2> HIDE DEF h
  <2> QED BY <1>1, <2>1
<1> QED BY <1>3 DEF IsReading

LEMMA ReadingExists == IsReading(Triples, Reading)
<1> DEFINE T == {p \in Triples : IsReading(AtMost(p, Triples), TheReading(p))}
<1>1. ASSUME NEW p \in Triples, \A q \in Triples : Below(q, p) => q \in T PROVE p \in T
  <2> DEFINE S == {q \in Triples : Below(q, p)}
             below == [q \in S |-> TheReading(q)[q]]
             g == [q \in AtMost(p, Triples) |-> ReadingsBy(below, q[1], q[2], q[3])]
  <2>1. IsClosed(S, Triples)
    BY ReadingPaired, BelowTransitive DEF IsClosed
  <2>2. IsReading(S, below)
    <3>1. \A q \in S : IsReading(AtMost(q, Triples), TheReading(q))
      BY <1>1
    <3> QED BY <2>1, <3>1, ReadingGlued
  <2>3. ASSUME NEW q \in S PROVE below[q] = g[q]
    <3>1. q \in AtMost(p, Triples)
      BY DEF AtMost
    <3>2. below[q] = ReadingsBy(below, q[1], q[2], q[3])
      <4> HIDE DEF below, S
      <4> QED BY <2>2, <2>3 DEF IsReading
    <3> HIDE DEF below, S
    <3> QED BY <3>1, <3>2
  <2>4. ASSUME NEW q \in AtMost(p, Triples) PROVE ReadingsBy(below, q[1], q[2], q[3]) = ReadingsBy(g, q[1], q[2], q[3])
    <3>1. q \in Triples
      BY DEF AtMost
    <3>2. \A r \in Triples : Below(r, q) => r \in S
      BY ReadingPaired, BelowTransitive DEF AtMost
    <3>3. \A r \in Triples : Below(r, q) => below[r] = g[r]
      <4> HIDE DEF S, below, g
      <4> QED BY <2>3, <3>2
    <3> HIDE DEF S, below, g
    <3> QED BY <3>1, <3>3, ReadingStep
  <2>5. g = [q \in AtMost(p, Triples) |-> ReadingsBy(g, q[1], q[2], q[3])]
    BY <2>4
  <2>6. IsReading(AtMost(p, Triples), g)
    <3> HIDE DEF g, below
    <3> QED BY <2>5 DEF IsReading
  <2> HIDE DEF g, below, S
  <2> QED BY <2>6 DEF TheReading
<1> HIDE DEF T
<1>2. Triples \subseteq T
  BY <1>1, ReadingPaired, PairInduction
<1>3. IsClosed(Triples, Triples)
  BY DEF IsClosed
<1>4. IsReading(Triples, [p \in Triples |-> TheReading(p)[p]])
  BY <1>2, <1>3, ReadingGlued DEF T
<1>5. Reading = CHOOSE g : IsReading(Triples, g)
  BY DEF Reading, IsReading, Triples
<1> QED BY <1>4, <1>5

LEMMA ReadingsAre ==
  ASSUME NEW v \in Json, NEW type \in Type, NEW how \in Modes
  PROVE  Readings(v, type, how) = ReadingsBy(Reading, v, type, how)
<1> DEFINE q == <<v, type, how>>
<1>1. q \in Triples /\ q[1] = v /\ q[2] = type /\ q[3] = how
  BY DEF Triples
<1>2. Reading = [p \in Triples |-> ReadingsBy(Reading, p[1], p[2], p[3])]
  BY ReadingExists DEF IsReading
<1>3. Reading[q] = ReadingsBy(Reading, q[1], q[2], q[3])
  <2> HIDE DEF q
  <2> QED BY <1>1, <1>2
<1> QED BY <1>1, <1>3 DEF Readings

-----------------------------------------------------------------------------
(* The results of the parts of a value *)

\* What a conversion has to do with the readings: exact, apart and any.
Agree(c, e, a, y) ==
    /\ c \subseteq y
    /\ e # {} => a # {}
    /\ c # {} => a # {}
    /\ IsOne(a) => c \subseteq a
    /\ IsOne(a) /\ e # {} => c # {}

LEMMA AllIs ==
  ASSUME NEW cs
  PROVE  /\ (\E i \in DOMAIN cs : cs[i] = {}) => All(cs) = {}
         /\ (\A i \in DOMAIN cs : cs[i] # {}) =>
              \E f : /\ All(cs) = {f} /\ f = [i \in DOMAIN cs |-> f[i]]
                     /\ \A i \in DOMAIN cs : f[i] \in cs[i]
<1>1. ASSUME \A i \in DOMAIN cs : cs[i] # {}
      PROVE  \E f : /\ All(cs) = {f} /\ f = [i \in DOMAIN cs |-> f[i]]
                    /\ \A i \in DOMAIN cs : f[i] \in cs[i]
  <2> DEFINE f == [i \in DOMAIN cs |-> CHOOSE x \in cs[i] : TRUE]
  <2>1. All(cs) = {f}
    BY <1>1 DEF All
  <2>2. \A i \in DOMAIN cs : f[i] \in cs[i]
    BY <1>1
  <2>3. f = [i \in DOMAIN cs |-> f[i]]
    OBVIOUS
  <2> HIDE DEF f
  <2> QED BY <2>1, <2>2, <2>3
<1> QED BY <1>1 DEF All

LEMMA ProductHas ==
  ASSUME NEW sets, NEW f
  PROVE  f \in Product(sets) <=>
           /\ f = [i \in DOMAIN sets |-> f[i]]
           /\ \A i \in DOMAIN sets : f[i] \in sets[i]
<1> DEFINE all == UNION {sets[i] : i \in DOMAIN sets}
<1>1. ASSUME f \in Product(sets)
      PROVE  f = [i \in DOMAIN sets |-> f[i]] /\ \A i \in DOMAIN sets : f[i] \in sets[i]
  BY <1>1 DEF Product
<1>2. ASSUME f = [i \in DOMAIN sets |-> f[i]], \A i \in DOMAIN sets : f[i] \in sets[i]
      PROVE  f \in Product(sets)
  <2>1. \A i \in DOMAIN sets : f[i] \in all
    BY <1>2
  <2>2. f \in [DOMAIN sets -> all]
    <3> HIDE DEF all
    <3> QED BY <1>2, <2>1
  <2> QED BY <1>2, <2>2 DEF Product
<1> QED BY <1>1, <1>2

LEMMA ProductEmpty ==
  ASSUME NEW sets
  PROVE  Product(sets) # {} <=> \A i \in DOMAIN sets : sets[i] # {}
<1>1. ASSUME NEW f \in Product(sets) PROVE \A i \in DOMAIN sets : sets[i] # {}
  BY ProductHas
<1>2. ASSUME \A i \in DOMAIN sets : sets[i] # {} PROVE Product(sets) # {}
  <2> DEFINE f == [i \in DOMAIN sets |-> CHOOSE x \in sets[i] : TRUE]
  <2>1. f = [i \in DOMAIN sets |-> f[i]] /\ \A i \in DOMAIN sets : f[i] \in sets[i]
    BY <1>2
  <2> HIDE DEF f
  <2> QED BY <2>1, ProductHas
<1> QED BY <1>1, <1>2

LEMMA ProductOne ==
  ASSUME NEW sets, IsOne(Product(sets)), NEW i \in DOMAIN sets
  PROVE  IsOne(sets[i])
<1>1. PICK f \in Product(sets) : Product(sets) = {f}
  BY DEF IsOne
<1>2. f = [j \in DOMAIN sets |-> f[j]] /\ \A j \in DOMAIN sets : f[j] \in sets[j]
  BY <1>1, ProductHas
<1>3. ASSUME NEW x \in sets[i] PROVE x = f[i]
  <2> DEFINE g == [j \in DOMAIN sets |-> IF j = i THEN x ELSE f[j]]
  <2>1. g = [j \in DOMAIN sets |-> g[j]] /\ (\A j \in DOMAIN sets : g[j] \in sets[j]) /\ g[i] = x
    BY <1>2
  <2>2. g \in Product(sets)
    <3> HIDE DEF g
    <3> QED BY <2>1, ProductHas
  <2>3. g = f
    <3> HIDE DEF g
    <3> QED BY <1>1, <2>2
  <2> QED BY <2>1, <2>3
<1> QED BY <1>2, <1>3 DEF IsOne

LEMMA ProductsAgree ==
  ASSUME NEW D, NEW cs, NEW es, NEW as, NEW ys,
         DOMAIN cs = D, DOMAIN es = D, DOMAIN as = D, DOMAIN ys = D,
         \A i \in D : Agree(cs[i], es[i], as[i], ys[i])
  PROVE  Agree(All(cs), Product(es), Product(as), Product(ys))
<1>1. ASSUME NEW f \in All(cs), NEW sets, DOMAIN sets = D, \A i \in D : cs[i] \subseteq sets[i]
      PROVE  f \in Product(sets)
  <2>1. PICK g : /\ All(cs) = {g} /\ g = [i \in D |-> g[i]]
                 /\ \A i \in D : g[i] \in cs[i]
    BY <1>1, AllIs
  <2>2. f = g
    BY <1>1, <2>1
  <2> QED BY <1>1, <2>1, <2>2, ProductHas
<1>2. All(cs) \subseteq Product(ys)
  BY <1>1 DEF Agree
<1>3. Product(es) # {} => Product(as) # {}
  BY ProductEmpty DEF Agree
<1>4. All(cs) # {} => Product(as) # {}
  BY AllIs, ProductEmpty DEF Agree
<1>5. IsOne(Product(as)) => All(cs) \subseteq Product(as)
  BY <1>1, ProductOne DEF Agree
<1>6. ASSUME IsOne(Product(as)), Product(es) # {} PROVE All(cs) # {}
  <2>1. \A i \in D : cs[i] # {}
    BY <1>6, ProductOne, ProductEmpty DEF Agree
  <2> QED BY <2>1, AllIs
<1> QED BY <1>2, <1>3, <1>4, <1>5, <1>6 DEF Agree

\* A list, a tuple, an object or an instance of the parts.
LEMMA WrappedAgree ==
  ASSUME NEW c, NEW e, NEW a, NEW y, Agree(c, e, a, y),
         NEW w, \A s, r \in c \cup e \cup a \cup y : w[s] = w[r] => s = r
  PROVE  Agree({w[s] : s \in c}, {w[s] : s \in e}, {w[s] : s \in a}, {w[s] : s \in y})
<1>1. \A s \in a : w[s] \in {w[r] : r \in a}
  OBVIOUS
<1>2. ASSUME IsOne({w[s] : s \in a}) PROVE IsOne(a)
  <2>1. PICK s \in a : \A r \in a : w[r] = w[s]
    BY <1>2, <1>1 DEF IsOne
  <2>2. \A r \in a : r = s
    BY <2>1
  <2> QED BY <2>1, <2>2 DEF IsOne
<1>3. {w[s] : s \in c} \subseteq {w[s] : s \in y}
  BY DEF Agree
<1>4. {w[s] : s \in e} # {} => {w[s] : s \in a} # {}
  BY DEF Agree
<1>5. {w[s] : s \in c} # {} => {w[s] : s \in a} # {}
  BY DEF Agree
<1>6. IsOne({w[s] : s \in a}) => {w[s] : s \in c} \subseteq {w[s] : s \in a}
  BY <1>2 DEF Agree
<1>7. IsOne({w[s] : s \in a}) /\ {w[s] : s \in e} # {} => {w[s] : s \in c} # {}
  BY <1>2 DEF Agree
<1> QED BY <1>3, <1>4, <1>5, <1>6, <1>7 DEF Agree

-----------------------------------------------------------------------------
(* The keys of an object that a class knows *)

LEMMA OneField ==
  ASSUME NEW c \in DOMAIN Class, NEW key, NEW f \in FieldOf(c, key), NEW g \in FieldOf(c, key)
  PROVE  f = g
<1>1. /\ f \in FieldNames(c) /\ key \in {f, Class[c].names[f]}
      /\ g \in FieldNames(c) /\ key \in {g, Class[c].names[g]}
  BY DEF FieldOf
<1>2. key \in {f, Class[c].names[f]} \cap {g, Class[c].names[g]}
  BY <1>1
<1>3. f # g => {f, Class[c].names[f]} \cap {g, Class[c].names[g]} = {}
  BY <1>1, ClassesAssumption
<1> QED BY <1>2, <1>3

LEMMA OneKey ==
  ASSUME NEW c \in DOMAIN Class, NEW v \in Json, v.k = "object",
         NEW key \in DOMAIN v.fields, NEW other \in DOMAIN v.fields,
         NEW f \in FieldOf(c, key), f \in FieldOf(c, other)
  PROVE  key = other
  BY ClassesAssumption

\* A class counts all the keys of an object exactly if it knows all of them.
LEMMA CountedKeys ==
  ASSUME NEW c \in DOMAIN Class, NEW v \in Json, v.k = "object"
  PROVE  /\ Cardinality(Present(c, v)) \in Nat /\ Cardinality(DOMAIN v.fields) \in Nat
         /\ Cardinality(Present(c, v)) <= Cardinality(DOMAIN v.fields)
         /\ KnowsAll(c, v) <=> Cardinality(Present(c, v)) = Cardinality(DOMAIN v.fields)
<1> DEFINE known == {key \in DOMAIN v.fields : FieldOf(c, key) # {}}
           field == [key \in known |-> CHOOSE f \in FieldOf(c, key) : TRUE]
<1>1. IsFiniteSet(DOMAIN v.fields) /\ IsFiniteSet(known)
  BY ObjectParts, FS_Subset
<1>2. \A key \in known : field[key] \in FieldOf(c, key)
  OBVIOUS
<1>3. \A key \in known : field[key] \in Present(c, v)
  BY <1>2 DEF Present
<1>4. \A key, other \in known : field[key] = field[other] => key = other
  <2> SUFFICES ASSUME NEW key \in known, NEW other \in known, field[key] = field[other] PROVE key = other
    OBVIOUS
  <2>1. field[key] \in FieldOf(c, key) /\ field[key] \in FieldOf(c, other)
    BY <1>2
  <2>2. key \in DOMAIN v.fields /\ other \in DOMAIN v.fields
    OBVIOUS
  <2> HIDE DEF field, known
  <2> QED BY <2>1, <2>2, OneKey
<1>5. ASSUME NEW f \in Present(c, v) PROVE \E key \in known : field[key] = f
  <2>1. PICK key \in DOMAIN v.fields : f \in FieldOf(c, key)
    BY DEF Present
  <2>2. key \in known
    BY <2>1
  <2>3. field[key] = f
    <3>1. field[key] \in FieldOf(c, key)
      BY <1>2, <2>2
    <3> HIDE DEF field, known
    <3> QED BY <2>1, <3>1, OneField
  <2> QED BY <2>2, <2>3
<1>6. field \in Bijection(known, Present(c, v))
  <2>1. field \in [known -> Present(c, v)]
    <3>1. field = [key \in known |-> field[key]]
      OBVIOUS
    <3> HIDE DEF field
    <3> QED BY <1>3, <3>1
  <2> HIDE DEF field, known
  <2> QED BY <1>4, <1>5, <2>1 DEF Bijection, Injection, IsInjective, Surjection
<1>7. IsFiniteSet(Present(c, v)) /\ Cardinality(Present(c, v)) = Cardinality(known)
  <2> HIDE DEF field, known
  <2> QED BY <1>1, <1>6, FS_Bijection DEF ExistsBijection
<1>8. /\ Cardinality(known) \in Nat /\ Cardinality(DOMAIN v.fields) \in Nat
      /\ Cardinality(known) <= Cardinality(DOMAIN v.fields)
      /\ Cardinality(known) = Cardinality(DOMAIN v.fields) => known = DOMAIN v.fields
  <2>1. known \subseteq DOMAIN v.fields
    OBVIOUS
  <2> HIDE DEF known
  <2> QED BY <1>1, <2>1, FS_Subset, FS_CardinalityType
<1>9. KnowsAll(c, v) <=> known = DOMAIN v.fields
  BY DEF KnowsAll
<1> QED BY <1>7, <1>8, <1>9

-----------------------------------------------------------------------------
(* An instance of a class *)

LEMMA FilledOne ==
  ASSUME NEW v, NEW c, NEW g, Filled(v, c, g) # {}
  PROVE  IsOne(Filled(v, c, g)) /\ Required(c) \subseteq Present(c, v)
<1> DEFINE params == All([f \in Present(c, v) |-> g[<<ValueOf(c, v, f), Class[c].types[f]>>]])
           made(p) == Instance(c, [f \in FieldNames(c) |->
                        IF f \in Present(c, v) THEN p[f] ELSE Class[c].defaults[f]])
<1>1. Filled(v, c, g) = {made(p) : p \in params} /\ Required(c) \subseteq Present(c, v)
  BY DEF Filled
<1>2. PICK p : params = {p}
  <2>1. params # {}
    BY <1>1
  <2> QED BY <2>1, AllIs
<1>3. {made(q) : q \in params} = {made(p)}
  <2> HIDE DEF params, made
  <2> QED BY <1>2
<1> HIDE DEF params, made
<1> QED BY <1>1, <1>3 DEF IsOne

LEMMA FilledAgrees ==
  ASSUME NEW v \in Json, v.k = "object", NEW c \in DOMAIN Class,
         \A f \in Present(c, v) :
            LET w == ValueOf(c, v, f)
                u == Class[c].types[f]
            IN Agree(Conversion[<<w, u>>], Readings(w, u, "exact"), Readings(w, u, "apart"), Readings(w, u, "any"))
  PROVE  Agree(Filled(v, c, Conversion), ClassReadings(v, c, "exact", Reading),
               ClassReadings(v, c, "apart", Reading), ClassReadings(v, c, "any", Reading))
<1> DEFINE given == Present(c, v)
           at(f) == <<ValueOf(c, v, f), Class[c].types[f]>>
           params == [f \in given |-> Conversion[at(f)]]
           filled == [f \in FieldNames(c) |-> IF f \in given THEN Conversion[at(f)] ELSE {Class[c].defaults[f]}]
           parts(how) == [f \in FieldNames(c) |->
                            IF f \in given THEN Reading[<<ValueOf(c, v, f), Class[c].types[f], how>>]
                            ELSE {Class[c].defaults[f]}]
<1>1. given \subseteq FieldNames(c)
  BY FieldParts
<1>2. CASE ~(Required(c) \subseteq given)
  <2>1. /\ Filled(v, c, Conversion) = {}
        /\ \A how : ClassReadings(v, c, how, Reading) = {}
    BY <1>2 DEF Filled, ClassReadings
  <2> QED BY <2>1 DEF Agree, IsOne
<1>3. CASE Required(c) \subseteq given
  <2>1. Agree(All(filled), Product(parts("exact")), Product(parts("apart")), Product(parts("any")))
    <3>1. ASSUME NEW f \in FieldNames(c)
          PROVE  Agree(filled[f], parts("exact")[f], parts("apart")[f], parts("any")[f])
      <4>1. CASE f \in given
        BY <4>1 DEF Readings
      <4>2. CASE f \notin given
        BY <4>2 DEF Agree
      <4> QED BY <4>1, <4>2
    <3>2. /\ DOMAIN filled = FieldNames(c)
          /\ \A how : DOMAIN parts(how) = FieldNames(c)
      OBVIOUS
    <3> HIDE DEF filled, parts
    <3> QED BY <3>1, <3>2, ProductsAgree
  <2>2. {[f \in FieldNames(c) |-> IF f \in given THEN p[f] ELSE Class[c].defaults[f]] : p \in All(params)}
          = All(filled)
    <3>1. CASE \E f \in given : Conversion[at(f)] = {}
      <4>1. All(params) = {}
        BY <3>1, AllIs
      <4>2. All(filled) = {}
        <5>1. PICK f \in given : Conversion[at(f)] = {}
          BY <3>1
        <5>2. f \in DOMAIN filled /\ filled[f] = {}
          BY <1>1, <5>1
        <5> HIDE DEF filled
        <5> QED BY <5>2, AllIs
      <4> HIDE DEF params, filled
      <4> QED BY <4>1, <4>2
    <3>2. CASE \A f \in given : Conversion[at(f)] # {}
      <4>1. All(params) = {[f \in given |-> CHOOSE x \in params[f] : TRUE]}
        BY <3>2 DEF All
      <4>2. All(filled) = {[f \in FieldNames(c) |-> CHOOSE x \in filled[f] : TRUE]}
        BY <3>2 DEF All
      <4>3. \A f \in given : filled[f] = params[f]
        BY <1>1
      <4>4. \A f \in FieldNames(c) \ given : filled[f] = {Class[c].defaults[f]}
        OBVIOUS
      <4> DEFINE p == [f \in given |-> CHOOSE x \in params[f] : TRUE]
      <4>5. [f \in FieldNames(c) |-> CHOOSE x \in filled[f] : TRUE]
              = [f \in FieldNames(c) |-> IF f \in given THEN p[f] ELSE Class[c].defaults[f]]
        <5> HIDE DEF filled, params, given
        <5> QED BY <4>3, <4>4
      <4>6. /\ All(params) = {p}
            /\ All(filled) = {[f \in FieldNames(c) |-> IF f \in given THEN p[f] ELSE Class[c].defaults[f]]}
        BY <4>1, <4>2, <4>5
      <4> HIDE DEF filled, params, given, p
      <4> QED BY <4>6
    <3> QED BY <3>1, <3>2
  <2> DEFINE all == All(filled) \cup Product(parts("exact")) \cup Product(parts("apart")) \cup Product(parts("any"))
             instance == [s \in all |-> Instance(c, s)]
  <2>3. \A s, r \in all : instance[s] = instance[r] => s = r
    <3>1. ASSUME NEW s, NEW r, Instance(c, s) = Instance(c, r) PROVE s = r
      <4>1. Instance(c, s).fields = s /\ Instance(c, r).fields = r
        BY DEF Instance
      <4> QED BY <3>1, <4>1
    <3> HIDE DEF all
    <3> QED BY <3>1
  <2>4. Agree({instance[s] : s \in All(filled)}, {instance[s] : s \in Product(parts("exact"))},
              {instance[s] : s \in Product(parts("apart"))}, {instance[s] : s \in Product(parts("any"))})
    <3>1. \A s, r \in All(filled) \cup Product(parts("exact")) \cup Product(parts("apart")) \cup Product(parts("any")) :
            instance[s] = instance[r] => s = r
      BY <2>3
    <3> HIDE DEF filled, parts, instance, all
    <3> QED BY <2>1, <3>1, WrappedAgree
  <2>5. Filled(v, c, Conversion) = {instance[s] : s \in All(filled)}
    <3>1. Filled(v, c, Conversion)
            = {Instance(c, [f \in FieldNames(c) |-> IF f \in given THEN p[f] ELSE Class[c].defaults[f]]) :
                 p \in All(params)}
      BY <1>3 DEF Filled
    <3>2. {instance[s] : s \in All(filled)} = {Instance(c, s) : s \in All(filled)}
      <4>1. \A s \in All(filled) : instance[s] = Instance(c, s)
        OBVIOUS
      <4> HIDE DEF filled, instance
      <4> QED BY <4>1
    <3> DEFINE made == {[f \in FieldNames(c) |-> IF f \in given THEN p[f] ELSE Class[c].defaults[f]] :
                          p \in All(params)}
    <3>3. Filled(v, c, Conversion) = {Instance(c, s) : s \in made}
      <4> HIDE DEF params, given
      <4> QED BY <3>1
    <3>4. made = All(filled)
      BY <2>2
    <3> HIDE DEF filled, instance, made
    <3> QED BY <3>2, <3>3, <3>4
  <2>6. ASSUME NEW how \in Modes, how # "exact" \/ KnowsAll(c, v)
        PROVE  ClassReadings(v, c, how, Reading) = {instance[s] : s \in Product(parts(how))}
    <3>1. ClassReadings(v, c, how, Reading) = {Instance(c, s) : s \in Product(parts(how))}
      BY <1>3, <2>6 DEF ClassReadings
    <3>2. \A s \in Product(parts(how)) : instance[s] = Instance(c, s)
      <4>1. \A s \in Product(parts(how)) : s \in all
        <5> HIDE DEF parts, filled
        <5> QED BY DEF Modes
      <4> HIDE DEF all, parts
      <4> QED BY <4>1
    <3> HIDE DEF parts, instance
    <3> QED BY <3>1, <3>2
  <2>7. ~KnowsAll(c, v) => ClassReadings(v, c, "exact", Reading) = {}
    BY DEF ClassReadings
  <2> DEFINE C == {instance[s] : s \in All(filled)}
             E == {instance[s] : s \in Product(parts("exact"))}
             A == {instance[s] : s \in Product(parts("apart"))}
             Y == {instance[s] : s \in Product(parts("any"))}
  <2>8. Agree(C, E, A, Y) => Agree(C, {}, A, Y)
    BY DEF Agree
  <2>9. /\ ClassReadings(v, c, "apart", Reading) = A
        /\ ClassReadings(v, c, "any", Reading) = Y
        /\ ClassReadings(v, c, "exact", Reading) \in {E, {}}
    BY <2>6, <2>7 DEF Modes
  <2> HIDE DEF C, E, A, Y
  <2>10. Agree(C, E, A, Y) /\ Filled(v, c, Conversion) = C
    BY <2>4, <2>5 DEF C, E, A, Y
  <2> QED BY <2>8, <2>9, <2>10
<1> QED BY <1>2, <1>3

-----------------------------------------------------------------------------
(* The types of a union *)

LEMMA ReadsClass ==
  ASSUME NEW v \in Json, NEW type \in Type, type.t = "class", NEW how \in Modes
  PROVE  /\ v.k = "object" => Readings(v, type, how) = ClassReadings(v, type.class, how, Reading)
         /\ Readings(v, type, how) # {} =>
              /\ v.k = "object" /\ Required(type.class) \subseteq Present(type.class, v)
              /\ how = "exact" => KnowsAll(type.class, v)
         /\ \A x \in Readings(v, type, how) : x.class = type.class
<1>1. Readings(v, type, how) = IF v.k = "object" THEN ClassReadings(v, type.class, how, Reading) ELSE {}
  <2>1. Readings(v, type, how) = ReadingsBy(Reading, v, type, how)
    BY ReadingsAre
  <2>2. type.t \notin BasicTypes \cup {"any", "literal", "enum", "union", "list", "tuple", "dict"}
    BY DEF BasicTypes, Numbers
  <2>3. v.k = "object" => ReadingsBy(Reading, v, type, how) = ClassReadings(v, type.class, how, Reading)
    BY <2>2 DEF ReadingsBy, BasicTypes, Numbers
  <2>4. v.k # "object" => ReadingsBy(Reading, v, type, how) = {}
    BY <2>2 DEF ReadingsBy, BasicTypes, Numbers
  <2> QED BY <2>1, <2>3, <2>4
<1>2. \A x \in ClassReadings(v, type.class, how, Reading) : x.class = type.class
  <2> SUFFICES ASSUME NEW x \in ClassReadings(v, type.class, how, Reading) PROVE x.class = type.class
    OBVIOUS
  <2>1. PICK f : x = Instance(type.class, f)
    BY DEF ClassReadings
  <2> QED BY <2>1 DEF Instance
<1>3. ClassReadings(v, type.class, how, Reading) # {} =>
        /\ Required(type.class) \subseteq Present(type.class, v)
        /\ how = "exact" => KnowsAll(type.class, v)
  BY DEF ClassReadings
<1> QED BY <1>1, <1>2, <1>3

LEMMA ConvertsClass ==
  ASSUME NEW v \in Json, NEW type \in Type, type.t = "class"
  PROVE  /\ v.k = "object" => Conversion[<<v, type>>] = Filled(v, type.class, Conversion)
         /\ Conversion[<<v, type>>] # {} =>
              /\ v.k = "object" /\ Required(type.class) \subseteq Present(type.class, v)
              /\ IsOne(Conversion[<<v, type>>])
<1>1. Conversion[<<v, type>>] = IF v.k = "object" THEN Filled(v, type.class, Conversion) ELSE {}
  BY ConversionIs DEF ConvertedBy, BasicTypes, Numbers
<1> QED BY <1>1, FilledOne

\* The instances of the classes of a union.
Created(v, types, results, knownKeysOnly) ==
    IF v.k # "object" THEN {} ELSE UNION {results[ClassType(c)] : c \in Matches(v, types, knownKeysOnly)}

Handles(types, results, t) == t \in ToSet(types) /\ t.t # "class" /\ results[t] # {}

LEMMA ChosenCases ==
  ASSUME NEW v, NEW types \in Seq(Type), NEW results
  PROVE  \/ \E t : /\ Handles(types, results, t) /\ (t.t = "dict" => Len(types) = 1)
                   /\ Chosen(v, types, results) = results[t]
         \/ \E t : /\ Handles(types, results, t) /\ t.t = "dict"
                   /\ ~IsOne(Created(v, types, results, TRUE))
                   /\ Chosen(v, types, results) = results[t]
         \/ /\ IsOne(Created(v, types, results, TRUE))
            /\ Chosen(v, types, results) = Created(v, types, results, TRUE)
         \/ /\ \A t : ~Handles(types, results, t)
            /\ IsOne(Created(v, types, results, FALSE))
            /\ Chosen(v, types, results) = Created(v, types, results, FALSE)
         \/ /\ \A t : ~Handles(types, results, t)
            /\ ~IsOne(Created(v, types, results, FALSE))
            /\ Chosen(v, types, results) = {}
<1> DEFINE handled == {i \in DOMAIN types : types[i].t # "class" /\ results[types[i]] # {}}
           first == types[Min(handled)]
           isMapping == handled # {} /\ Len(types) > 1 /\ first.t = "dict"
           created == Created(v, types, results, isMapping)
<1>1. Chosen(v, types, results) =
        IF handled # {} /\ ~isMapping THEN results[first]
        ELSE IF IsOne(created) THEN created ELSE IF isMapping THEN results[first] ELSE {}
  BY DEF Chosen, Created
<1>2. CASE handled = {}
  <2>1. \A t : ~Handles(types, results, t)
    BY <1>2 DEF Handles, ToSet
  <2>2. ~isMapping
    BY <1>2
  <2>3. created = Created(v, types, results, FALSE)
    BY <2>2
  <2> HIDE DEF handled, isMapping, created
  <2> QED BY <1>1, <1>2, <2>1, <2>2, <2>3
<1>3. CASE handled # {}
  <2>1. Min(handled) \in handled
    <3>1. handled \subseteq Nat
      OBVIOUS
    <3> HIDE DEF handled
    <3>2. PICK n \in handled : \A m \in handled : n <= m
      BY <1>3, <3>1, LeastNumber
    <3> QED BY <3>2 DEF Min
  <2>2. Handles(types, results, first)
    BY <2>1 DEF Handles, ToSet
  <2>3. Len(types) \in Nat /\ Len(types) # 0
    <3>1. PICK i \in DOMAIN types : TRUE
      BY <1>3
    <3>2. i \in 1..Len(types) /\ Len(types) \in Nat
      BY <3>1
    <3> QED BY <3>2
  <2>4. ~isMapping => (first.t = "dict" => Len(types) = 1)
    <3>1. SUFFICES ASSUME ~isMapping, first.t = "dict" PROVE Len(types) = 1
      OBVIOUS
    <3>2. ~(Len(types) > 1)
      BY <1>3, <3>1
    <3>3. \A n \in Nat : n # 0 /\ ~(n > 1) => n = 1
      OBVIOUS
    <3> HIDE DEF handled, first, isMapping, created
    <3> QED BY <2>3, <3>2, <3>3, Zenon
  <2>5. isMapping => first.t = "dict" /\ created = Created(v, types, results, TRUE)
    OBVIOUS
  <2> HIDE DEF handled, first, isMapping, created
  <2> QED BY <1>1, <1>3, <2>2, <2>4, <2>5
<1> QED BY <1>2, <1>3

\* One instance that is created is of a class of the union.
LEMMA CreatedOne ==
  ASSUME NEW v \in Json, NEW types \in Seq(Type), NEW results, NEW knownKeysOnly \in BOOLEAN,
         IsOne(Created(v, types, results, knownKeysOnly))
  PROVE  \E t \in ToSet(types) :
            /\ t.t = "class" /\ results[t] # {} /\ results[t] = Created(v, types, results, knownKeysOnly)
            /\ knownKeysOnly => KnowsAll(t.class, v)
<1> DEFINE created == Created(v, types, results, knownKeysOnly)
<1>1. PICK x \in created : created = {x}
  BY DEF IsOne
<1>2. created = UNION {results[ClassType(c)] : c \in Matches(v, types, knownKeysOnly)}
  BY <1>1 DEF Created
<1> HIDE DEF created
<1>3. PICK c \in Matches(v, types, knownKeysOnly) : x \in results[ClassType(c)]
  BY <1>1, <1>2
<1>4. results[ClassType(c)] \subseteq created
  BY <1>2, <1>3
<1>5. results[ClassType(c)] = created
  BY <1>1, <1>3, <1>4
<1>6. c \in Fitting(v, types, knownKeysOnly)
  BY <1>3 DEF Matches
<1>7. PICK i \in DOMAIN types : types[i].t = "class" /\ types[i].class = c
  BY <1>6 DEF Fitting
<1>8. types[i] = ClassType(c)
  BY <1>7, MemberTypes
<1>9. knownKeysOnly => KnowsAll(c, v)
  BY <1>6 DEF Fitting
<1>10. types[i] \in ToSet(types)
  BY DEF ToSet
<1> QED BY <1>3, <1>5, <1>7, <1>8, <1>9, <1>10 DEF created

\* A class that knows every key of an object is among those with the most keys, and so does each of them.
LEMMA MostKeys ==
  ASSUME NEW v \in Json, v.k = "object", NEW types \in Seq(Type), NEW t \in ToSet(types), t.t = "class",
         Required(t.class) \subseteq Present(t.class, v), KnowsAll(t.class, v), NEW knownKeysOnly \in BOOLEAN
  PROVE  /\ t.class \in Matches(v, types, knownKeysOnly)
         /\ \A c \in Matches(v, types, knownKeysOnly) :
              c \in DOMAIN Class /\ ClassType(c) \in ToSet(types) /\ KnowsAll(c, v)
<1> DEFINE fitting == Fitting(v, types, knownKeysOnly)
           keys(c) == Cardinality(Present(c, v))
<1>1. \A c \in fitting : c \in DOMAIN Class /\ ClassType(c) \in ToSet(types)
  <2> SUFFICES ASSUME NEW c \in fitting PROVE c \in DOMAIN Class /\ ClassType(c) \in ToSet(types)
    OBVIOUS
  <2>1. PICK i \in DOMAIN types : types[i].t = "class" /\ types[i].class = c
    BY DEF Fitting
  <2>2. types[i] = ClassType(c) /\ c \in DOMAIN Class
    BY <2>1, MemberTypes
  <2>3. types[i] \in ToSet(types)
    BY DEF ToSet
  <2> QED BY <2>2, <2>3
<1>2. t.class \in fitting
  <2>1. PICK i \in DOMAIN types : types[i] = t
    BY DEF ToSet
  <2> QED BY <2>1 DEF Fitting
<1>3. keys(t.class) = Cardinality(DOMAIN v.fields)
  BY <1>1, <1>2, CountedKeys
<1>4. \A c \in fitting : keys(c) <= keys(t.class)
  BY <1>1, <1>3, CountedKeys
<1>5. Matches(v, types, knownKeysOnly) = {c \in fitting : \A d \in fitting : keys(d) <= keys(c)}
  BY DEF Matches
<1>6. t.class \in Matches(v, types, knownKeysOnly)
  <2> HIDE DEF fitting, keys
  <2> QED BY <1>2, <1>4, <1>5
<1>7. ASSUME NEW c \in Matches(v, types, knownKeysOnly) PROVE c \in fitting /\ KnowsAll(c, v)
  <2>1. c \in fitting /\ keys(t.class) <= keys(c)
    <3> HIDE DEF fitting, keys
    <3> QED BY <1>2, <1>5, <1>7
  <2>2. /\ keys(c) \in Nat /\ Cardinality(DOMAIN v.fields) \in Nat
        /\ keys(c) <= Cardinality(DOMAIN v.fields)
        /\ KnowsAll(c, v) <=> keys(c) = Cardinality(DOMAIN v.fields)
    BY <1>1, <2>1, CountedKeys
  <2> HIDE DEF fitting, keys
  <2> QED BY <1>3, <2>1, <2>2
<1> QED BY <1>1, <1>6, <1>7

Exact(v, t) == Readings(v, t, "exact")
Apart(v, t) == Readings(v, t, "apart")
Anyway(v, t) == Readings(v, t, "any")
Result(v, t) == Conversion[<<v, t>>]
ExactOf(v, types) == [t \in types |-> Exact(v, t)]
CountedOf(v, types) == Counted(v, types, ExactOf(v, types))

LEMMA ReadsUnion ==
  ASSUME NEW v, NEW types
  PROVE  /\ UnionReadings(v, types, "exact", Reading) = UNION {Exact(v, t) : t \in CountedOf(v, types)}
         /\ UnionReadings(v, types, "apart", Reading) = UNION {Apart(v, t) : t \in CountedOf(v, types)}
         /\ UnionReadings(v, types, "any", Reading) = UNION {Anyway(v, t) : t \in types}
  BY DEF UnionReadings, CountedOf, ExactOf, Exact, Apart, Anyway, Readings

\* Which types count.
LEMMA CountedIs ==
  ASSUME NEW v \in Json, NEW types, types \subseteq Type
  PROVE  /\ CountedOf(v, types) \subseteq types
         /\ \A t \in types : t.t \notin {"class", "dict"} => t \in CountedOf(v, types)
         /\ \A t \in types : t.t = "class" /\ KnowsAll(t.class, v) => t \in CountedOf(v, types)
         /\ \A t \in types : t.t = "dict" /\ t \notin CountedOf(v, types) =>
              \E k \in CountedOf(v, types) : k.t = "class" /\ Exact(v, k) # {}
         /\ \A t \in types : t.t = "class" /\ t \notin CountedOf(v, types) =>
              \E u \in types : u.t = "dict" /\ Exact(v, u) # {}
<1> DEFINE exact == ExactOf(v, types)
           kept == {t \in types : t.t \in {"class", "dict"} /\ exact[t] # {}}
           classes == {t \in kept : t.t = "class"}
           counted == CountedOf(v, types)
<1>1. counted = {t \in types : /\ t.t = "dict" => ~IsOne(classes)
                               /\ t.t = "class" /\ kept # classes => KnowsAll(t.class, v)}
  BY DEF CountedOf, Counted
<1>2. \A t \in types : exact[t] = Exact(v, t)
  BY DEF ExactOf
<1>3. \A t \in kept : t \in types /\ t.t \in {"class", "dict"} /\ Exact(v, t) # {}
  BY <1>2
<1>4. \A k \in classes : k \in types /\ k.t = "class" /\ Exact(v, k) # {} /\ KnowsAll(k.class, v)
  BY <1>3, ReadsClass DEF Exact, Modes
<1>5. \A t \in types : t.t = "class" /\ KnowsAll(t.class, v) => t \in counted
  <2> HIDE DEF counted, kept, classes
  <2> QED BY <1>1
<1>6. \A t \in types : t.t = "dict" /\ t \notin counted => \E k \in classes : TRUE
  <2> HIDE DEF counted, kept, classes
  <2> QED BY <1>1 DEF IsOne
<1>7. \A t \in types : t.t = "class" /\ t \notin counted => \E u \in kept : u \notin classes
  <2>1. classes \subseteq kept
    OBVIOUS
  <2> HIDE DEF counted, kept, classes
  <2> QED BY <1>1, <2>1
<1>8. \A u \in kept : u \notin classes => u.t = "dict"
  OBVIOUS
<1>9. \A t \in types : t.t \notin {"class", "dict"} => t \in counted
  <2> HIDE DEF counted, kept, classes
  <2> QED BY <1>1
<1>10. counted \subseteq types
  BY <1>1
<1> HIDE DEF kept, classes, counted, exact
<1>11. \A t \in types : t.t = "dict" /\ t \notin counted =>
         \E k \in counted : k.t = "class" /\ Exact(v, k) # {}
  BY <1>4, <1>5, <1>6
<1>12. \A t \in types : t.t = "class" /\ t \notin counted => \E u \in types : u.t = "dict" /\ Exact(v, u) # {}
  BY <1>3, <1>7, <1>8
<1> QED BY <1>5, <1>9, <1>10, <1>11, <1>12 DEF counted

\* A union has an exact reading if one of its types has.
LEMMA ExactUnion ==
  ASSUME NEW v \in Json, NEW types, types \subseteq Type, NEW t \in types, Exact(v, t) # {}
  PROVE  \E u \in CountedOf(v, types) : Exact(v, u) # {}
<1>1. t.t = "class" => KnowsAll(t.class, v)
  BY ReadsClass DEF Exact, Modes
<1> QED BY <1>1, CountedIs

LEMMA UnionAgrees ==
  ASSUME NEW v \in Json, NEW types \in Seq(Type),
         \A t \in ToSet(types) : Agree(Result(v, t), Exact(v, t), Apart(v, t), Anyway(v, t))
  PROVE  LET union == ToSet(types)
         IN Agree(Chosen(v, types, [t \in union |-> Conversion[<<v, t>>]]),
                  UnionReadings(v, union, "exact", Reading), UnionReadings(v, union, "apart", Reading),
                  UnionReadings(v, union, "any", Reading))
<1> DEFINE union == ToSet(types)
           counted == CountedOf(v, union)
           results == [t \in union |-> Conversion[<<v, t>>]]
           chosen == Chosen(v, types, results)
           created(b) == Created(v, types, results, b)
           exact == UNION {Exact(v, t) : t \in counted}
           apart == UNION {Apart(v, t) : t \in counted}
           anyway == UNION {Anyway(v, t) : t \in union}
<1>1. union \subseteq Type
  BY DEF ToSet
<1>2. \A t \in union : results[t] = Result(v, t)
  BY DEF Result
<1>3. \A t : Handles(types, results, t) => t \in union /\ t.t # "class" /\ Result(v, t) # {}
  BY <1>2 DEF Handles
<1>4. \A t \in union : t.t # "class" /\ Result(v, t) # {} => Handles(types, results, t)
  BY <1>2 DEF Handles
<1> HIDE DEF results, union
<1>5. exact # {} => apart # {}
  <2> SUFFICES ASSUME exact # {} PROVE apart # {}
    OBVIOUS
  <2>1. PICK t \in counted : Exact(v, t) # {}
    OBVIOUS
  <2>2. Apart(v, t) # {}
    BY <2>1, <1>1, CountedIs DEF Agree, union
  <2> QED BY <2>1, <2>2
<1>6. ASSUME NEW t \in union, Exact(v, t) # {} PROVE exact # {}
  <2>1. PICK u \in counted : Exact(v, u) # {}
    BY <1>1, <1>6, ExactUnion
  <2> QED BY <2>1
<1>7. ASSUME NEW t \in union, Result(v, t) # {} PROVE apart # {}
  <2>1. CASE t \in counted
    <3>1. Apart(v, t) # {}
      BY <1>7 DEF Agree, union
    <3> QED BY <2>1, <3>1
  <2>2. CASE t \notin counted
    <3>1. \E u \in union : Exact(v, u) # {}
      BY <1>1, <2>2, CountedIs
    <3> QED BY <3>1, <1>5, <1>6
  <2> QED BY <2>1, <2>2
\* What a type that counts is converted to, if there is one reading.
<1>8. ASSUME IsOne(apart), NEW t \in counted, Exact(v, t) # {} \/ Result(v, t) # {}
      PROVE  Result(v, t) # {} /\ Result(v, t) \subseteq apart /\ Apart(v, t) = apart
  <2>1. t \in union
    BY <1>1, CountedIs
  <2>2. Agree(Result(v, t), Exact(v, t), Apart(v, t), Anyway(v, t))
    BY <2>1 DEF union
  <2>3. Apart(v, t) # {} /\ Apart(v, t) \subseteq apart
    BY <1>8, <2>2 DEF Agree
  <2> HIDE DEF apart, counted
  <2>4. Apart(v, t) = apart
    BY <1>8, <2>3 DEF IsOne
  <2> QED BY <1>8, <2>2, <2>4 DEF Agree
\* A class with an exact reading is the one that an instance is created of.
<1>9. ASSUME IsOne(apart), NEW k \in union, k.t = "class", Exact(v, k) # {}, NEW b \in BOOLEAN
      PROVE  created(b) = Result(v, k) /\ IsOne(created(b)) /\ created(b) \subseteq apart
  <2>1. /\ v.k = "object" /\ Required(k.class) \subseteq Present(k.class, v) /\ KnowsAll(k.class, v)
    BY <1>1, <1>9, ReadsClass DEF Exact, Modes
  <2>2. k \in counted
    BY <1>1, <1>9, <2>1, CountedIs
  <2>3. Result(v, k) # {} /\ Result(v, k) \subseteq apart /\ Apart(v, k) = apart
    BY <1>8, <1>9, <2>2
  <2>4. k = ClassType(k.class)
    BY <1>1, <1>9, MemberTypes
  <2>5. ASSUME NEW c \in Matches(v, types, b), Result(v, ClassType(c)) # {} PROVE c = k.class
    <3>1. ClassType(c) \in union /\ KnowsAll(c, v)
      BY <1>9, <2>1, MostKeys DEF union
    <3>2. ClassType(c).t = "class" /\ ClassType(c).class = c
      BY DEF ClassType
    <3>3. ClassType(c) \in counted
      BY <1>1, <3>1, <3>2, CountedIs
    <3>4. Apart(v, ClassType(c)) = apart
      BY <1>8, <1>9, <2>5, <3>3
    <3>5. PICK x \in apart : TRUE
      BY <1>9 DEF IsOne
    <3>6. x.class = c /\ x.class = k.class
      BY <1>1, <1>9, <2>3, <3>1, <3>2, <3>4, <3>5, ReadsClass DEF Apart, Modes
    <3> QED BY <3>6
  <2>6. created(b) = UNION {results[ClassType(c)] : c \in Matches(v, types, b)}
    BY <2>1 DEF Created
  <2>7. \A c \in Matches(v, types, b) : results[ClassType(c)] = Result(v, ClassType(c))
    BY <1>2, <1>9, <2>1, MostKeys DEF union
  <2>8. k.class \in Matches(v, types, b)
    BY <1>9, <2>1, MostKeys DEF union
  <2>9. created(b) = Result(v, k)
    <3> HIDE DEF created, apart, counted
    <3> QED BY <2>4, <2>5, <2>6, <2>7, <2>8
  <2>10. IsOne(Result(v, k))
    BY <1>1, <1>9, <2>3, ConvertsClass DEF Result
  <2> QED BY <2>3, <2>9, <2>10
<1>10. \/ chosen = {} /\ (\A t : ~Handles(types, results, t)) /\ ~IsOne(created(FALSE))
       \/ \E t \in union : Result(v, t) # {} /\ chosen = Result(v, t)
  <2>1. ASSUME NEW b \in BOOLEAN, IsOne(created(b))
        PROVE  \E t \in union : Result(v, t) # {} /\ created(b) = Result(v, t)
    BY <1>2, <2>1, CreatedOne DEF union
  <2> QED BY <1>2, <1>3, <2>1, ChosenCases
<1>11. chosen \subseteq anyway
  <2>1. \A t \in union : Result(v, t) \subseteq Anyway(v, t)
    BY DEF Agree, union
  <2> HIDE DEF chosen
  <2> QED BY <1>10, <2>1
<1>12. chosen # {} => apart # {}
  <2> HIDE DEF chosen, apart
  <2> QED BY <1>7, <1>10
<1>13. ASSUME IsOne(apart), exact # {} PROVE chosen # {}
  <2>1. PICK t \in counted : Exact(v, t) # {}
    BY <1>13
  <2>2. t \in union
    BY <1>1, CountedIs
  <2>3. Result(v, t) # {}
    BY <1>8, <1>13, <2>1
  <2>4. t.t # "class" => Handles(types, results, t)
    BY <1>4, <2>2, <2>3
  <2>5. t.t = "class" => IsOne(created(FALSE))
    BY <1>9, <1>13, <2>1, <2>2
  <2> HIDE DEF chosen, created
  <2> QED BY <1>10, <2>4, <2>5
<1>14. ASSUME IsOne(apart) PROVE chosen \subseteq apart
  \* A type that counts, and a class that has an exact reading, are no matter.
  <2>1. ASSUME NEW t \in counted, chosen = Result(v, t) PROVE chosen \subseteq apart
    BY <1>8, <1>14, <2>1
  <2>2. ASSUME NEW t \in union, t.t = "dict", t \notin counted, NEW b \in BOOLEAN
        PROVE  IsOne(created(b)) /\ created(b) \subseteq apart
    <3>1. \E k \in union : k.t = "class" /\ Exact(v, k) # {}
      BY <1>1, <2>2, CountedIs
    <3> QED BY <1>9, <1>14, <3>1
  <2>3. ASSUME NEW t, Handles(types, results, t), t.t = "dict" => Len(types) = 1, chosen = results[t]
        PROVE  chosen \subseteq apart
    <3>1. t \in union /\ t.t # "class" /\ chosen = Result(v, t)
      BY <1>2, <1>3, <2>3
    <3>2. t \in counted
      <4>1. CASE t.t # "dict"
        BY <1>1, <3>1, <4>1, CountedIs
      <4>2. CASE t.t = "dict"
        <5>1. union = {t}
          BY <2>3, <3>1, <4>2 DEF union, ToSet
        <5> QED BY <1>1, <4>2, <5>1, CountedIs
      <4> QED BY <4>1, <4>2
    <3> HIDE DEF chosen, counted, apart
    <3> QED BY <2>1, <3>1, <3>2
  <2>4. ASSUME NEW t, Handles(types, results, t), t.t = "dict", ~IsOne(created(TRUE)), chosen = results[t]
        PROVE  chosen \subseteq apart
    <3>1. t \in union /\ chosen = Result(v, t)
      BY <1>2, <1>3, <2>4
    <3>2. t \in counted
      BY <2>2, <2>4, <3>1
    <3> HIDE DEF chosen, counted, apart
    <3> QED BY <2>1, <3>1, <3>2
  <2>5. ASSUME IsOne(created(TRUE)), chosen = created(TRUE) PROVE chosen \subseteq apart
    <3>1. PICK t \in union : t.t = "class" /\ results[t] = created(TRUE) /\ KnowsAll(t.class, v)
      BY <2>5, CreatedOne DEF union
    <3>2. t \in counted
      BY <1>1, <3>1, CountedIs
    <3>3. chosen = Result(v, t)
      BY <1>2, <2>5, <3>1
    <3> HIDE DEF chosen, counted, apart
    <3> QED BY <2>1, <3>2, <3>3
  <2>6. ASSUME \A t : ~Handles(types, results, t), IsOne(created(FALSE)), chosen = created(FALSE)
        PROVE  chosen \subseteq apart
    <3>1. PICK t \in union : t.t = "class" /\ results[t] = created(FALSE)
      BY <2>6, CreatedOne DEF union
    <3>2. chosen = Result(v, t)
      BY <1>2, <2>6, <3>1
    <3>3. CASE t \in counted
      BY <2>1, <3>2, <3>3
    <3>4. CASE t \notin counted
      <4>1. PICK u \in union : u.t = "dict" /\ Exact(v, u) # {}
        BY <1>1, <3>1, <3>4, CountedIs
      <4>2. u \notin counted
        BY <1>4, <1>8, <1>14, <2>6, <4>1
      <4> QED BY <2>2, <2>6, <4>1, <4>2
    <3> QED BY <3>3, <3>4
  <2> HIDE DEF chosen, counted, apart
  <2>7. chosen = {} => chosen \subseteq apart
    OBVIOUS
  <2> QED BY <2>3, <2>4, <2>5, <2>6, <2>7, ChosenCases DEF chosen
<1>15. Agree(chosen, exact, apart, anyway)
  <2> HIDE DEF chosen, exact, apart, anyway
  <2> QED BY <1>5, <1>11, <1>12, <1>13, <1>14 DEF Agree
<1>16. /\ UnionReadings(v, union, "exact", Reading) = exact
       /\ UnionReadings(v, union, "apart", Reading) = apart
       /\ UnionReadings(v, union, "any", Reading) = anyway
  BY ReadsUnion
<1> HIDE DEF exact, apart, anyway
<1> QED BY <1>15, <1>16 DEF chosen, results, union

-----------------------------------------------------------------------------
(* What a conversion gives *)

Agreed(v, type) == Agree(Result(v, type), Exact(v, type), Apart(v, type), Anyway(v, type))

LEMMA AgreesOnItself ==
  ASSUME NEW S
  PROVE  Agree(S, S, S, S)
  BY DEF Agree

LEMMA ListAgrees ==
  ASSUME NEW v \in Json, v.k = "list", NEW type \in Type,
         \/ type.t = "list"
         \/ type.t = "tuple" /\ Len(type.of) = Len(v.items),
         \A i \in DOMAIN v.items : Agreed(v.items[i], IF type.t = "list" THEN type.of[1] ELSE type.of[i])
  PROVE  Agreed(v, type)
<1> DEFINE D == DOMAIN v.items
           of(i) == IF type.t = "list" THEN type.of[1] ELSE type.of[i]
           made(s) == IF type.t = "list" THEN List(s) ELSE Tuple(s)
           cs == [i \in D |-> Conversion[<<v.items[i], of(i)>>]]
           parts(how) == [i \in D |-> Reading[<<v.items[i], of(i), how>>]]
           C == All(cs)
           E == Product(parts("exact"))
           A == Product(parts("apart"))
           Y == Product(parts("any"))
           all == C \cup E \cup A \cup Y
           wrapped == [s \in all |-> made(s)]
<1>1. Agree(C, E, A, Y)
  <2>1. \A i \in D : Agree(cs[i], parts("exact")[i], parts("apart")[i], parts("any")[i])
    BY DEF Agreed, Result, Exact, Apart, Anyway, Readings
  <2>2. DOMAIN cs = D /\ \A how : DOMAIN parts(how) = D
    OBVIOUS
  <2> HIDE DEF cs, parts, D
  <2> QED BY <2>1, <2>2, ProductsAgree
<1>2. \A s, r \in all : wrapped[s] = wrapped[r] => s = r
  <2>1. ASSUME NEW s, NEW r, made(s) = made(r) PROVE s = r
    <3>1. made(s).items = s /\ made(r).items = r
      BY DEF List, Tuple
    <3> QED BY <2>1, <3>1
  <2> HIDE DEF all, made
  <2> QED BY <2>1
<1>3. Agree({wrapped[s] : s \in C}, {wrapped[s] : s \in E}, {wrapped[s] : s \in A}, {wrapped[s] : s \in Y})
  <2>1. \A s, r \in C \cup E \cup A \cup Y : wrapped[s] = wrapped[r] => s = r
    BY <1>2
  <2> HIDE DEF C, E, A, Y, wrapped
  <2> QED BY <1>1, <2>1, WrappedAgree
<1>4. Result(v, type) = {made(s) : s \in C}
  <2>1. CASE type.t = "list"
    <3>1. Conversion[<<v, type>>] = {List(s) : s \in All([i \in D |-> Conversion[<<v.items[i], type.of[1]>>]])}
      BY <2>1, ConversionIs DEF ConvertedBy, BasicTypes, Numbers
    <3> QED BY <2>1, <3>1 DEF Result
  <2>2. CASE type.t = "tuple"
    <3>1. Conversion[<<v, type>>] = {Tuple(s) : s \in All([i \in D |-> Conversion[<<v.items[i], type.of[i]>>]])}
      BY <2>2, ConversionIs DEF ConvertedBy, BasicTypes, Numbers
    <3> QED BY <2>2, <3>1 DEF Result
  <2> QED BY <2>1, <2>2
<1>5. ASSUME NEW how \in Modes PROVE Readings(v, type, how) = {made(s) : s \in Product(parts(how))}
  <2>1. CASE type.t = "list"
    <3>1. ReadingsBy(Reading, v, type, how)
            = {List(s) : s \in Product([i \in D |-> Reading[<<v.items[i], type.of[1], how>>]])}
      BY <2>1 DEF ReadingsBy, BasicTypes, Numbers
    <3>2. Readings(v, type, how) = ReadingsBy(Reading, v, type, how)
      BY ReadingsAre
    <3> QED BY <2>1, <3>1, <3>2
  <2>2. CASE type.t = "tuple"
    <3>1. ReadingsBy(Reading, v, type, how)
            = {Tuple(s) : s \in Product([i \in D |-> Reading[<<v.items[i], type.of[i], how>>]])}
      BY <2>2 DEF ReadingsBy, BasicTypes, Numbers
    <3>2. Readings(v, type, how) = ReadingsBy(Reading, v, type, how)
      BY ReadingsAre
    <3> QED BY <2>2, <3>1, <3>2
  <2> QED BY <2>1, <2>2
<1>6. /\ Exact(v, type) = {made(s) : s \in E} /\ Apart(v, type) = {made(s) : s \in A}
      /\ Anyway(v, type) = {made(s) : s \in Y}
  BY <1>5 DEF Exact, Apart, Anyway, Modes
<1>7. /\ \A s \in C : wrapped[s] = made(s)
      /\ \A s \in E : wrapped[s] = made(s)
      /\ \A s \in A : wrapped[s] = made(s)
      /\ \A s \in Y : wrapped[s] = made(s)
  <2> HIDE DEF C, E, A, Y, made
  <2> QED OBVIOUS
<1>8. /\ {made(s) : s \in C} = {wrapped[s] : s \in C} /\ {made(s) : s \in E} = {wrapped[s] : s \in E}
      /\ {made(s) : s \in A} = {wrapped[s] : s \in A} /\ {made(s) : s \in Y} = {wrapped[s] : s \in Y}
  <2> HIDE DEF C, E, A, Y, made, wrapped
  <2> QED BY <1>7
<1> HIDE DEF C, E, A, Y, made, wrapped
<1> QED BY <1>3, <1>4, <1>6, <1>8 DEF Agreed

LEMMA ObjectAgrees ==
  ASSUME NEW v \in Json, v.k = "object", NEW type \in Type, type.t = "dict",
         \A key \in DOMAIN v.fields : Agreed(v.fields[key], type.of[1])
  PROVE  Agreed(v, type)
<1> DEFINE D == DOMAIN v.fields
           cs == [key \in D |-> Conversion[<<v.fields[key], type.of[1]>>]]
           parts(how) == [key \in D |-> Reading[<<v.fields[key], type.of[1], how>>]]
           C == All(cs)
           E == Product(parts("exact"))
           A == Product(parts("apart"))
           Y == Product(parts("any"))
           all == C \cup E \cup A \cup Y
           wrapped == [s \in all |-> Object(s)]
<1>1. Agree(C, E, A, Y)
  <2>1. \A key \in D : Agree(cs[key], parts("exact")[key], parts("apart")[key], parts("any")[key])
    BY DEF Agreed, Result, Exact, Apart, Anyway, Readings
  <2>2. DOMAIN cs = D /\ \A how : DOMAIN parts(how) = D
    OBVIOUS
  <2> HIDE DEF cs, parts, D
  <2> QED BY <2>1, <2>2, ProductsAgree
<1>2. \A s, r \in all : wrapped[s] = wrapped[r] => s = r
  <2>1. ASSUME NEW s, NEW r, Object(s) = Object(r) PROVE s = r
    <3>1. Object(s).fields = s /\ Object(r).fields = r
      BY DEF Object
    <3> QED BY <2>1, <3>1
  <2> HIDE DEF all
  <2> QED BY <2>1
<1>3. Agree({wrapped[s] : s \in C}, {wrapped[s] : s \in E}, {wrapped[s] : s \in A}, {wrapped[s] : s \in Y})
  <2>1. \A s, r \in C \cup E \cup A \cup Y : wrapped[s] = wrapped[r] => s = r
    BY <1>2
  <2> HIDE DEF C, E, A, Y, wrapped
  <2> QED BY <1>1, <2>1, WrappedAgree
<1>4. Result(v, type) = {Object(s) : s \in C}
  BY ConversionIs DEF Result, ConvertedBy, BasicTypes, Numbers
<1>5. ASSUME NEW how \in Modes PROVE Readings(v, type, how) = {Object(s) : s \in Product(parts(how))}
  <2>1. ReadingsBy(Reading, v, type, how) = {Object(s) : s \in Product(parts(how))}
    BY DEF ReadingsBy, BasicTypes, Numbers
  <2> QED BY <2>1, ReadingsAre
<1>6. /\ Exact(v, type) = {Object(s) : s \in E} /\ Apart(v, type) = {Object(s) : s \in A}
      /\ Anyway(v, type) = {Object(s) : s \in Y}
  BY <1>5 DEF Exact, Apart, Anyway, Modes
<1>7. /\ \A s \in C : wrapped[s] = Object(s)
      /\ \A s \in E : wrapped[s] = Object(s)
      /\ \A s \in A : wrapped[s] = Object(s)
      /\ \A s \in Y : wrapped[s] = Object(s)
  <2> HIDE DEF C, E, A, Y
  <2> QED OBVIOUS
<1>8. /\ {Object(s) : s \in C} = {wrapped[s] : s \in C} /\ {Object(s) : s \in E} = {wrapped[s] : s \in E}
      /\ {Object(s) : s \in A} = {wrapped[s] : s \in A} /\ {Object(s) : s \in Y} = {wrapped[s] : s \in Y}
  <2> HIDE DEF C, E, A, Y, wrapped
  <2> QED BY <1>7
<1> HIDE DEF C, E, A, Y, wrapped
<1> QED BY <1>3, <1>4, <1>6, <1>8 DEF Agreed

LEMMA AgreedStep ==
  ASSUME NEW v \in Json, NEW type \in Type,
         \A w \in Json, u \in Type : Below(<<w, u>>, <<v, type>>) => Agreed(w, u)
  PROVE  Agreed(v, type)
<1> DEFINE converted == ConvertedBy(Conversion, v, type)
           parts(how) == ReadingsBy(Reading, v, type, how)
<1>0. /\ Result(v, type) = converted
      /\ Exact(v, type) = parts("exact") /\ Apart(v, type) = parts("apart") /\ Anyway(v, type) = parts("any")
  BY ConversionIs, ReadingsAre DEF Result, Exact, Apart, Anyway, Modes
<1>1. CASE type.t \in BasicTypes
  <2>1. converted = BasicType(v, type.t)
    BY <1>1 DEF ConvertedBy, BasicTypes, Numbers
  <2>2. \A how : parts(how) = BasicType(v, type.t)
    BY <1>1 DEF ReadingsBy, BasicType, BasicTypes, Numbers
  <2> QED BY <1>0, <2>1, <2>2, AgreesOnItself DEF Agreed
<1>2. CASE type.t \in {"any", "literal", "enum"}
  <2>1. \A how : parts(how) = converted
    BY <1>2 DEF ReadingsBy, ConvertedBy, BasicTypes, Numbers
  <2> QED BY <1>0, <2>1, AgreesOnItself DEF Agreed
<1>3. CASE type.t = "union"
  <2>1. type.of \in Seq(Type) /\ ToSet(type.of) = Members(type)
    BY <1>3, MemberTypes DEF Members
  <2>2. \A u \in ToSet(type.of) : Agreed(v, u)
    BY <2>1, PartsBelow
  <2>3. converted = Chosen(v, type.of, [u \in ToSet(type.of) |-> Conversion[<<v, u>>]])
    BY <1>3 DEF ConvertedBy, BasicTypes, Numbers
  <2>4. \A how : parts(how) = UnionReadings(v, ToSet(type.of), how, Reading)
    BY <1>3 DEF ReadingsBy, BasicTypes, Numbers
  <2> HIDE DEF converted, parts
  <2> QED BY <1>0, <2>1, <2>2, <2>3, <2>4, UnionAgrees DEF Agreed
<1>4. CASE type.t = "list" /\ v.k = "list"
  <2>1. \A i \in DOMAIN v.items : Agreed(v.items[i], type.of[1])
    <3>1. type.of[1] \in Type /\ \A i \in DOMAIN v.items : v.items[i] \in Json /\ v.items[i] \in Parts(v)
      BY <1>4, ListParts, MemberTypes
    <3> QED BY <3>1, PartsBelow
  <2> QED BY <1>4, <2>1, ListAgrees
<1>5. CASE type.t = "tuple" /\ v.k = "list" /\ Len(type.of) = Len(v.items)
  <2>1. ASSUME NEW i \in DOMAIN v.items PROVE Agreed(v.items[i], type.of[i])
    <3>1. v.items \in Seq(Json) /\ type.of \in Seq(Type) /\ v.items[i] \in Parts(v)
      BY <1>5, ListParts, MemberTypes
    <3>2. type.of[i] \in Type
      BY <1>5, <3>1
    <3> QED BY <3>1, <3>2, PartsBelow
  <2>2. type.t # "list"
    BY <1>5
  <2> QED BY <1>5, <2>1, <2>2, ListAgrees
<1>6. CASE type.t = "dict" /\ v.k = "object"
  <2>1. \A key \in DOMAIN v.fields : Agreed(v.fields[key], type.of[1])
    <3>1. type.of[1] \in Type
      BY <1>6, MemberTypes
    <3>2. \A key \in DOMAIN v.fields : v.fields[key] \in Json /\ v.fields[key] \in Parts(v)
      BY <1>6, ObjectParts
    <3> QED BY <3>1, <3>2, PartsBelow
  <2> QED BY <1>6, <2>1, ObjectAgrees
<1>7. CASE type.t = "class" /\ v.k = "object"
  <2> DEFINE c == type.class
  <2>1. c \in DOMAIN Class
    BY <1>7, MemberTypes
  <2>2. \A f \in Present(c, v) : Agreed(ValueOf(c, v, f), Class[c].types[f])
    BY <1>7, <2>1, FieldParts, PartsBelow
  <2>3. Agree(Filled(v, c, Conversion), ClassReadings(v, c, "exact", Reading),
              ClassReadings(v, c, "apart", Reading), ClassReadings(v, c, "any", Reading))
    BY <1>7, <2>1, <2>2, FilledAgrees DEF Agreed, Result, Exact, Apart, Anyway
  <2>4. /\ Result(v, type) = Filled(v, c, Conversion)
        /\ Exact(v, type) = ClassReadings(v, c, "exact", Reading)
        /\ Apart(v, type) = ClassReadings(v, c, "apart", Reading)
        /\ Anyway(v, type) = ClassReadings(v, c, "any", Reading)
    BY <1>7, ConvertsClass, ReadsClass DEF Result, Exact, Apart, Anyway, Modes
  <2> QED BY <2>3, <2>4 DEF Agreed
<1>8. CASE /\ type.t \notin BasicTypes \cup {"any", "literal", "enum", "union"}
           /\ ~(type.t = "list" /\ v.k = "list")
           /\ ~(type.t = "tuple" /\ v.k = "list" /\ Len(type.of) = Len(v.items))
           /\ ~(type.t = "dict" /\ v.k = "object") /\ ~(type.t = "class" /\ v.k = "object")
  <2>1. converted = {}
    BY <1>8 DEF ConvertedBy
  <2>2. \A how : parts(how) = {}
    BY <1>8 DEF ReadingsBy, BasicTypes, Numbers
  <2> QED BY <1>0, <2>1, <2>2, AgreesOnItself DEF Agreed
<1> QED BY <1>1, <1>2, <1>3, <1>4, <1>5, <1>6, <1>7, <1>8

\* What a value is converted to is among its readings. It is the one reading apart from the others, if
\* there is one and for some reading no key is ignored.
LEMMA ConversionAgrees ==
  ASSUME NEW v \in Json, NEW type \in Type
  PROVE  Agreed(v, type)
<1> DEFINE T == {p \in Pairs : Agreed(p[1], p[2])}
<1>1. ASSUME NEW p \in Pairs, \A q \in Pairs : Below(q, p) => q \in T PROVE p \in T
  <2>1. p[1] \in Json /\ p[2] \in Type
    BY DEF Pairs
  <2>2. ASSUME NEW w \in Json, NEW u \in Type, Below(<<w, u>>, <<p[1], p[2]>>) PROVE Agreed(w, u)
    <3> DEFINE q == <<w, u>>
    <3>1. q \in Pairs /\ q[1] = w /\ q[2] = u
      BY DEF Pairs
    <3>2. Below(q, p)
      BY <2>2 DEF Below
    <3>3. q \in T
      <4> HIDE DEF q
      <4> QED BY <1>1, <3>1, <3>2
    <3> QED BY <3>1, <3>3
  <2> QED BY <2>1, <2>2, AgreedStep
<1> HIDE DEF T
<1>2. Pairs \subseteq T
  BY <1>1, ConversionPaired, PairInduction
<1>3. <<v, type>> \in T
  BY <1>2 DEF Pairs
<1> QED BY <1>3 DEF T

\* A list of one type is that type.
LEMMA ConvertedIs ==
  ASSUME NEW v \in Json, NEW type \in Type
  PROVE  Converted(v, <<type>>) = Result(v, type)
<1> DEFINE types == <<type>>
           results == [u \in ToSet(types) |-> Conversion[<<v, u>>]]
<1>1. types \in Seq(Type) /\ Len(types) = 1 /\ ToSet(types) = {type} /\ types # <<>>
  BY DEF ToSet
<1>2. Converted(v, types) = Chosen(v, types, results)
  BY <1>1 DEF Converted
<1>3. results[type] = Result(v, type)
  BY <1>1 DEF Result
<1>4. \A t : Handles(types, results, t) <=> t = type /\ type.t # "class" /\ Result(v, type) # {}
  BY <1>1, <1>3 DEF Handles
<1>5. ASSUME NEW b \in BOOLEAN PROVE Created(v, types, results, b) \in {{}, Result(v, type)}
  <2>1. ASSUME NEW c \in Matches(v, types, b) PROVE ClassType(c) = type
    <3>1. PICK i \in DOMAIN types : types[i].t = "class" /\ types[i].class = c
      BY <2>1 DEF Matches, Fitting
    <3>2. types[i] = type
      BY <3>1
    <3> QED BY <3>1, <3>2, MemberTypes
  <2> HIDE DEF results, types
  <2> QED BY <1>3, <2>1 DEF Created
<1>6. SUFFICES Chosen(v, types, results) = Result(v, type)
  BY <1>2
<1>7. CASE type.t # "class"
  <2>1. Matches(v, types, FALSE) = {} /\ Matches(v, types, TRUE) = {}
    <3>1. \A b \in BOOLEAN : Fitting(v, types, b) = {}
      BY <1>7 DEF Fitting
    <3> QED BY <3>1 DEF Matches
  <2>2. \A b \in BOOLEAN : Created(v, types, results, b) = {}
    BY <2>1 DEF Created
  <2>3. \A b \in BOOLEAN : ~IsOne(Created(v, types, results, b))
    BY <2>2 DEF IsOne
  <2>4. (\A t : ~Handles(types, results, t)) => Result(v, type) = {}
    BY <1>4, <1>7
  <2>5. \A t : Handles(types, results, t) => results[t] = Result(v, type)
    BY <1>3, <1>4
  <2> HIDE DEF results, types
  <2> QED BY <1>1, <2>3, <2>4, <2>5, ChosenCases
<1>8. CASE type.t = "class"
  <2>1. \A t : ~Handles(types, results, t)
    BY <1>4, <1>8
  <2>2. CASE Result(v, type) = {}
    <3>1. \A b \in BOOLEAN : ~IsOne(Created(v, types, results, b))
      BY <1>5, <2>2 DEF IsOne
    <3> HIDE DEF results, types
    <3> QED BY <1>1, <2>1, <2>2, <3>1, ChosenCases
  <2>3. CASE Result(v, type) # {}
    <3>1. v.k = "object" /\ Required(type.class) \subseteq Present(type.class, v) /\ IsOne(Result(v, type))
      BY <1>8, <2>3, ConvertsClass DEF Result
    <3>2. type = ClassType(type.class) /\ type.class \in DOMAIN Class
      BY <1>8, MemberTypes
    <3>3. Fitting(v, types, FALSE) = {type.class}
      BY <1>8, <3>1 DEF Fitting
    <3>4. type.class \in Matches(v, types, FALSE)
      <4>1. Cardinality(Present(type.class, v)) <= Cardinality(Present(type.class, v))
        BY <3>1, <3>2, CountedKeys
      <4> QED BY <3>3, <4>1 DEF Matches
    <3>5. Result(v, type) \subseteq Created(v, types, results, FALSE)
      BY <1>3, <3>1, <3>2, <3>4 DEF Created
    <3>6. Created(v, types, results, FALSE) = Result(v, type)
      BY <1>5, <2>3, <3>5
    <3>7. IsOne(Created(v, types, results, TRUE)) => Created(v, types, results, TRUE) = Result(v, type)
      BY <1>5 DEF IsOne
    <3> HIDE DEF results, types
    <3> QED BY <1>1, <2>1, <3>1, <3>6, <3>7, ChosenCases
  <2> QED BY <2>2, <2>3
<1> QED BY <1>7, <1>8

-----------------------------------------------------------------------------
(* AsJson is there *)

Shallower(x, y) == Depth[x] < Depth[y]
IsDown(S) == S \subseteq Value /\ \A x \in S : \A y \in Value : Shallower(y, x) => y \in S
UpTo(x) == {y \in Value : y = x \/ Shallower(y, x)}

LEMMA ShallowerTransitive ==
  ASSUME NEW x \in Value, NEW y \in Value, NEW z \in Value, Shallower(x, y), Shallower(y, z)
  PROVE  Shallower(x, z)
  BY Measures DEF Shallower

LEMMA UpToDown ==
  ASSUME NEW x \in Value
  PROVE  IsDown(UpTo(x)) /\ x \in UpTo(x)
  BY ShallowerTransitive DEF IsDown, UpTo

LEMMA ValueInduction ==
  ASSUME NEW T, \A x \in Value : (\A y \in Value : Shallower(y, x) => y \in T) => x \in T
  PROVE  Value \subseteq T
<1> SUFFICES ASSUME NEW worst \in Value, worst \notin T PROVE FALSE
  OBVIOUS
<1> DEFINE depths == {Depth[x] : x \in Value \ T}
<1>1. PICK d \in depths : \A n \in depths : d <= n
  <2>1. depths \subseteq Nat
    BY Measures
  <2>2. Depth[worst] \in depths
    OBVIOUS
  <2> HIDE DEF depths
  <2> QED BY <2>1, <2>2, LeastNumber
<1>2. PICK x \in Value \ T : Depth[x] = d
  BY <1>1
<1>3. ASSUME NEW y \in Value, Shallower(y, x) PROVE y \in T
  <2>1. y \notin T => d <= Depth[y]
    BY <1>1
  <2> HIDE DEF depths
  <2> QED BY <1>2, <1>3, <2>1, Measures DEF Shallower
<1> QED BY <1>2, <1>3

LEMMA AsJsonLocal ==
  ASSUME NEW x \in Value, NEW g, NEW h, \A y \in Parts(x) : g[y] = h[y]
  PROVE  AsJsonBy(g, x) = AsJsonBy(h, x)
<1>1. CASE x.k = "member"
  BY <1>1 DEF AsJsonBy, Parts
<1>2. CASE x.k \in {"list", "tuple"}
  <2>1. \A i \in DOMAIN x.items : x.items[i] \in Parts(x)
    BY <1>2 DEF Parts, ToSet
  <2>2. [i \in DOMAIN x.items |-> g[x.items[i]]] = [i \in DOMAIN x.items |-> h[x.items[i]]]
    BY <2>1
  <2> QED BY <1>2, <2>2 DEF AsJsonBy
<1>3. CASE x.k = "object"
  <2>1. \A key \in DOMAIN x.fields : x.fields[key] \in Parts(x)
    BY <1>3 DEF Parts
  <2>2. [key \in DOMAIN x.fields |-> g[x.fields[key]]] = [key \in DOMAIN x.fields |-> h[x.fields[key]]]
    BY <2>1
  <2> QED BY <1>3, <2>2 DEF AsJsonBy
<1>4. CASE x.k = "instance"
  <2> DEFINE saved == {f \in DOMAIN x.fields : ~Omitted(x.class, f, x.fields[f])}
             name(f) == Class[x.class].names[f]
             field(key) == CHOOSE f \in saved : name(f) = key
  <2>1. \A f \in saved : x.fields[f] \in Parts(x)
    BY <1>4 DEF Parts
  <2>2. \A key \in {name(f) : f \in saved} : field(key) \in saved
    <3> SUFFICES ASSUME NEW f \in saved PROVE field(name(f)) \in saved
      OBVIOUS
    <3> HIDE DEF saved, name
    <3> QED OBVIOUS
  <2>3. [key \in {name(f) : f \in saved} |-> g[x.fields[field(key)]]]
          = [key \in {name(f) : f \in saved} |-> h[x.fields[field(key)]]]
    <3> HIDE DEF saved, name, field
    <3> QED BY <2>1, <2>2
  <2>4. /\ AsJsonBy(g, x) = Object([key \in {name(f) : f \in saved} |-> g[x.fields[field(key)]]])
        /\ AsJsonBy(h, x) = Object([key \in {name(f) : f \in saved} |-> h[x.fields[field(key)]]])
    BY <1>4 DEF AsJsonBy
  <2> HIDE DEF saved, name, field
  <2> QED BY <2>3, <2>4
<1>5. CASE x.k \notin {"member", "list", "tuple", "object", "instance"}
  BY <1>5 DEF AsJsonBy
<1> QED BY <1>1, <1>2, <1>3, <1>4, <1>5

LEMMA AsJsonStep ==
  ASSUME NEW p \in Value, NEW g, NEW h, \A q \in Value : Shallower(q, p) => g[q] = h[q]
  PROVE  AsJsonBy(g, p) = AsJsonBy(h, p)
<1>1. \A y \in Parts(p) : y \in Value /\ Shallower(y, p)
  BY ValuesAssumption DEF Shallower
<1> QED BY <1>1, AsJsonLocal

IsAsJson(S, g) == g = [p \in S |-> AsJsonBy(g, p)]
TheJson(p) == CHOOSE g : IsAsJson(UpTo(p), g)

LEMMA AsJsonUnique ==
  ASSUME NEW S, NEW R, IsDown(S), IsDown(R), NEW g, NEW h, IsAsJson(S, g), IsAsJson(R, h)
  PROVE  \A p \in S \cap R : g[p] = h[p]
<1> DEFINE T == {p \in Value : p \in S \cap R => g[p] = h[p]}
<1>1. ASSUME NEW p \in Value, \A q \in Value : Shallower(q, p) => q \in T PROVE p \in T
  <2>1. SUFFICES ASSUME p \in S, p \in R PROVE g[p] = h[p]
    OBVIOUS
  <2>2. \A q \in Value : Shallower(q, p) => g[q] = h[q]
    BY <1>1, <2>1 DEF IsDown
  <2>3. AsJsonBy(g, p) = AsJsonBy(h, p)
    BY <2>2, AsJsonStep
  <2>4. g[p] = AsJsonBy(g, p) /\ h[p] = AsJsonBy(h, p)
    BY <2>1 DEF IsAsJson
  <2> QED BY <2>3, <2>4
<1> HIDE DEF T
<1>2. Value \subseteq T
  BY <1>1, ValueInduction
<1> QED BY <1>2 DEF T, IsDown

LEMMA AsJsonGlued ==
  ASSUME NEW S, IsDown(S), \A p \in S : IsAsJson(UpTo(p), TheJson(p))
  PROVE  IsAsJson(S, [p \in S |-> TheJson(p)[p]])
<1> DEFINE h == [p \in S |-> TheJson(p)[p]]
<1>1. ASSUME NEW p \in S PROVE h[p] = AsJsonBy(h, p)
  <2>0. p \in Value /\ IsDown(UpTo(p)) /\ p \in UpTo(p)
    BY UpToDown DEF IsDown
  <2>1. ASSUME NEW q \in Value, Shallower(q, p) PROVE TheJson(p)[q] = h[q]
    <3>1. q \in S /\ q \in UpTo(p)
      BY <2>0, <2>1 DEF IsDown, UpTo
    <3>2. IsDown(UpTo(q)) /\ q \in UpTo(q)
      BY <2>1, UpToDown
    <3>3. IsAsJson(UpTo(p), TheJson(p)) /\ IsAsJson(UpTo(q), TheJson(q))
      BY <3>1
    <3>4. TheJson(p)[q] = TheJson(q)[q]
      BY <2>0, <3>1, <3>2, <3>3, AsJsonUnique
    <3> QED BY <3>1, <3>4
  <2>2. AsJsonBy(TheJson(p), p) = AsJsonBy(h, p)
    <3> HIDE DEF h
    <3> QED BY <2>0, <2>1, AsJsonStep
  <2>3. TheJson(p)[p] = AsJsonBy(TheJson(p), p)
    BY <2>0 DEF IsAsJson
  <2> QED BY <2>2, <2>3
<1>2. DOMAIN h = S
  OBVIOUS
<1>3. h = [p \in S |-> AsJsonBy(h, p)]
  <2>1. h = [p \in S |-> h[p]]
    OBVIOUS
  <2> HIDE DEF h
  <2> QED BY <1>1, <2>1
<1> QED BY <1>3 DEF IsAsJson

LEMMA AsJsonExists == IsAsJson(Value, AsJson)
<1> DEFINE T == {p \in Value : IsAsJson(UpTo(p), TheJson(p))}
<1>1. ASSUME NEW p \in Value, \A q \in Value : Shallower(q, p) => q \in T PROVE p \in T
  <2> DEFINE S == {q \in Value : Shallower(q, p)}
             below == [q \in S |-> TheJson(q)[q]]
             g == [q \in UpTo(p) |-> AsJsonBy(below, q)]
  <2>1. IsDown(S)
    BY ShallowerTransitive DEF IsDown
  <2>2. IsAsJson(S, below)
    <3>1. \A q \in S : IsAsJson(UpTo(q), TheJson(q))
      BY <1>1
    <3> QED BY <2>1, <3>1, AsJsonGlued
  <2>3. ASSUME NEW q \in S PROVE below[q] = g[q]
    <3>1. q \in UpTo(p)
      BY DEF UpTo
    <3>2. below[q] = AsJsonBy(below, q)
      <4> HIDE DEF below, S
      <4> QED BY <2>2, <2>3 DEF IsAsJson
    <3> HIDE DEF below, S
    <3> QED BY <3>1, <3>2
  <2>4. ASSUME NEW q \in UpTo(p) PROVE AsJsonBy(below, q) = AsJsonBy(g, q)
    <3>1. q \in Value
      BY DEF UpTo
    <3>2. \A r \in Value : Shallower(r, q) => r \in S
      BY ShallowerTransitive DEF UpTo
    <3>3. \A r \in Value : Shallower(r, q) => below[r] = g[r]
      <4> HIDE DEF S, below, g
      <4> QED BY <2>3, <3>2
    <3> HIDE DEF S, below, g
    <3> QED BY <3>1, <3>3, AsJsonStep
  <2>5. g = [q \in UpTo(p) |-> AsJsonBy(g, q)]
    BY <2>4
  <2>6. IsAsJson(UpTo(p), g)
    <3> HIDE DEF g, below
    <3> QED BY <2>5 DEF IsAsJson
  <2> HIDE DEF g, below, S
  <2> QED BY <2>6 DEF TheJson
<1> HIDE DEF T
<1>2. Value \subseteq T
  BY <1>1, ValueInduction
<1>3. IsDown(Value)
  BY DEF IsDown
<1>4. IsAsJson(Value, [p \in Value |-> TheJson(p)[p]])
  BY <1>2, <1>3, AsJsonGlued DEF T
<1>5. AsJson = CHOOSE g : IsAsJson(Value, g)
  BY DEF AsJson, IsAsJson
<1> QED BY <1>4, <1>5

LEMMA AsJsonIs ==
  ASSUME NEW x \in Value
  PROVE  AsJson[x] = AsJsonBy(AsJson, x)
  BY AsJsonExists DEF IsAsJson

-----------------------------------------------------------------------------
(* What a handler gets *)

ReadInv == \A r \in read : r.type \in Type /\ r.sent \in Json /\ r.got = Converted(r.sent, <<r.type>>)

LEMMA ReadInvStarts == DispatchInit => ReadInv
  BY DEF DispatchInit, ReadInv

LEMMA ReadInvKept == TypeOK /\ ReadInv /\ [Next]_vars => ReadInv'
<1> SUFFICES ASSUME TypeOK, ReadInv, [Next]_vars PROVE ReadInv'
  OBVIOUS
<1>1. CASE read' = read
  BY <1>1 DEF ReadInv
<1>2. ASSUME NEW i \in DOMAIN tasks, CallHandler(i) PROVE ReadInv'
  <2> DEFINE e == Current(i)
             type == TableFor(e)[e.method].type
             sent == ParamsOf(e)
             got == FromDict(sent, <<type>>)
  <2>1. /\ Busy(i) /\ IsCall(e) /\ e.method \in DOMAIN TableFor(e)
        /\ read' = read \cup {[type |-> type, sent |-> sent, got |-> got]}
    BY <1>2 DEF CallHandler
  <2>2. e \in Elements
    <3>1. /\ started[i] \in Task /\ started[i].does = "handle" /\ tasks[i] \in TaskState
          /\ tasks[i].next <= Len(started[i].message.elements)
      BY <2>1, TaskTypes DEF Busy
    <3>2. tasks[i].next \in 1..Len(started[i].message.elements)
      BY <3>1, MessageOf DEF TaskState
    <3> QED BY <3>1, <3>2, MessageOf DEF Current
  <2>3. ParamsUsable(e)
    BY <2>1 DEF IsCall, IsInvalid
  <2>4. type \in Type
    BY <2>1, ParamsAssumption DEF TableFor
  <2>5. sent \in Json
    BY <2>2, <2>3, ParamsAssumption
  <2>6. got = Converted(sent, <<type>>)
    BY <2>4, <2>5, FromDictAssumption
  <2> DEFINE new == [type |-> type, sent |-> sent, got |-> got]
  <2>7. new.type \in Type /\ new.sent \in Json /\ new.got = Converted(new.sent, <<new.type>>)
    <3> HIDE DEF type, sent, got
    <3> QED BY <2>4, <2>5, <2>6
  <2>8. read' = read \cup {new}
    BY <2>1
  <2> HIDE DEF new
  <2> QED BY <2>7, <2>8 DEF ReadInv
<1>3. read' = read \/ \E i \in DOMAIN tasks : CallHandler(i)
  BY DEF Next, ReadOn, TaskStep, AnswerInvalid, TakeResponse, UnknownMethod, HandlerReturns, EndTask,
         vars, dispatchVars
<1> QED BY <1>1, <1>2, <1>3

LEMMA ReadInvAlways == Spec => []ReadInv
  BY TypeCorrect, ReadInvStarts, ReadInvKept, PTL DEF Spec

\* For any classes, types and JSON, and in any message: what a handler gets is a value of its type that
\* the params may stand for, and it is the one such value if there is one apart from the others for
\* which no key is ignored.
THEOREM ParamsRead == Spec => []ParamsAreRead
<1>1. ASSUME ReadInv, NEW r \in read
      PROVE  LET readings == Readings(r.sent, r.type, "apart")
             IN /\ r.got \subseteq Readings(r.sent, r.type, "any")
                /\ IsOne(readings) /\ Readings(r.sent, r.type, "exact") # {} => r.got = readings
  <2>1. r.type \in Type /\ r.sent \in Json /\ r.got = Result(r.sent, r.type)
    BY <1>1, ConvertedIs DEF ReadInv
  <2>2. Agree(r.got, Readings(r.sent, r.type, "exact"), Readings(r.sent, r.type, "apart"),
              Readings(r.sent, r.type, "any"))
    BY <2>1, ConversionAgrees DEF Agreed, Exact, Apart, Anyway
  <2> QED BY <2>2 DEF Agree, IsOne
<1>2. ReadInv => ParamsAreRead
  BY <1>1 DEF ParamsAreRead
<1> QED BY <1>2, ReadInvAlways, PTL

-----------------------------------------------------------------------------
(* What a value is written as *)

\* What is written of a reading can be read exactly.
ReadsAgain(v, type) == \A x \in Anyway(v, type) : Exact(AsJson[x], type) # {}

LEMMA Written ==
  ASSUME NEW v \in Json, NEW type \in Type, NEW x \in Anyway(v, type)
  PROVE  /\ x \in Value /\ AsJson[x] \in Json /\ AsJson[x] = AsJsonBy(AsJson, x)
         /\ Exact(AsJson[x], type) = ReadingsBy(Reading, AsJson[x], type, "exact")
  BY WritingAssumption, AsJsonIs, ReadingsAre DEF Anyway, Exact, Modes

LEMMA ScalarWritten ==
  ASSUME NEW x \in Value, x.k \in BasicTypes
  PROVE  AsJson[x] = x
  BY AsJsonIs DEF AsJsonBy, BasicTypes, Numbers

LEMMA BasicReadsAgain ==
  ASSUME NEW v \in Json, NEW type \in Type, type.t \in BasicTypes
  PROVE  ReadsAgain(v, type)
<1> SUFFICES ASSUME NEW x \in Anyway(v, type) PROVE Exact(AsJson[x], type) # {}
  BY DEF ReadsAgain
<1>1. Anyway(v, type) = ReadingsBy(Reading, v, type, "any")
  BY ReadingsAre DEF Anyway, Modes
<1>2. x.k = type.t
  BY <1>1 DEF ReadingsBy, BasicTypes, Numbers, Scalar
<1>3. AsJson[x] = x
  BY <1>2, Written, ScalarWritten
<1>4. ReadingsBy(Reading, x, type, "exact") = {x}
  BY <1>2 DEF ReadingsBy, BasicTypes, Numbers
<1> QED BY <1>3, <1>4, Written

LEMMA AnyReadsAgain ==
  ASSUME NEW v \in Json, NEW type \in Type, type.t = "any"
  PROVE  ReadsAgain(v, type)
<1> SUFFICES ASSUME NEW x \in Anyway(v, type) PROVE Exact(AsJson[x], type) # {}
  BY DEF ReadsAgain
<1>1. ReadingsBy(Reading, AsJson[x], type, "exact") = {AsJson[x]}
  BY DEF ReadingsBy, BasicTypes, Numbers
<1> QED BY <1>1, Written

LEMMA EqualScalars ==
  ASSUME NEW a, NEW v \in Json, PyEqual(a, v)
  PROVE  a.k \in BasicTypes /\ v.k \in BasicTypes /\ PyEqual(a, a) /\ PyEqual(v, v)
<1>1. v.k \in BasicTypes
  BY JsonKinds DEF PyEqual
<1> QED BY <1>1 DEF PyEqual, BasicTypes, Numbers

LEMMA LiteralReadsAgain ==
  ASSUME NEW v \in Json, NEW type \in Type, type.t = "literal"
  PROVE  ReadsAgain(v, type)
<1> SUFFICES ASSUME NEW x \in Anyway(v, type) PROVE Exact(AsJson[x], type) # {}
  BY DEF ReadsAgain
<1>1. \A w, how : ReadingsBy(Reading, w, type, how) = {a \in {w} : \E b \in type.values : PyEqual(a, b)}
  BY DEF ReadingsBy, BasicTypes, Numbers
<1>2. PICK b \in type.values : x = v /\ PyEqual(v, b)
  BY <1>1, ReadingsAre DEF Anyway, Modes
<1>3. PyEqual(b, v)
  BY <1>2 DEF PyEqual
<1>4. AsJson[x] = x
  BY <1>2, <1>3, EqualScalars, Written, ScalarWritten
<1>5. x \in ReadingsBy(Reading, x, type, "exact")
  BY <1>1, <1>2
<1> QED BY <1>4, <1>5, Written

LEMMA EnumReadsAgain ==
  ASSUME NEW v \in Json, NEW type \in Type, type.t = "enum"
  PROVE  ReadsAgain(v, type)
<1> SUFFICES ASSUME NEW x \in Anyway(v, type) PROVE Exact(AsJson[x], type) # {}
  BY DEF ReadsAgain
<1>1. \A w, how : ReadingsBy(Reading, w, type, how) = {Member(a) : a \in {b \in type.values : PyEqual(b, w)}}
  BY DEF ReadingsBy, BasicTypes, Numbers
<1>2. PICK a \in type.values : x = Member(a) /\ PyEqual(a, v)
  BY <1>1, ReadingsAre DEF Anyway, Modes
<1>3. x.k = "member" /\ x.of = a
  BY <1>2 DEF Member
<1>4. a \in Value
  BY <1>3, Written, ValuesAssumption DEF Parts
<1>5. AsJson[x] = a
  <2>0. AsJsonBy(AsJson, x) = AsJson[a]
    BY <1>3 DEF AsJsonBy
  <2>1. AsJson[x] = AsJson[a]
    BY <2>0, Written
  <2>2. a.k \in BasicTypes
    BY <1>2, EqualScalars
  <2>3. AsJson[a] = a
    BY <2>2, <1>4, ScalarWritten
  <2> QED BY <2>1, <2>3
<1>6. PyEqual(a, a)
  BY <1>2, EqualScalars
<1>7. x \in ReadingsBy(Reading, a, type, "exact")
  BY <1>1, <1>2, <1>6
<1> QED BY <1>5, <1>7, Written

LEMMA UnionReadsAgain ==
  ASSUME NEW v \in Json, NEW type \in Type, type.t = "union",
         \A u \in ToSet(type.of) : ReadsAgain(v, u)
  PROVE  ReadsAgain(v, type)
<1> SUFFICES ASSUME NEW x \in Anyway(v, type) PROVE Exact(AsJson[x], type) # {}
  BY DEF ReadsAgain
<1> DEFINE union == ToSet(type.of)
<1>1. union \subseteq Type
  BY MemberTypes DEF ToSet
<1>2. \A w, how : ReadingsBy(Reading, w, type, how) = UnionReadings(w, union, how, Reading)
  BY DEF ReadingsBy, BasicTypes, Numbers
<1>3. Anyway(v, type) = UNION {Anyway(v, u) : u \in union}
  BY <1>2, ReadingsAre, ReadsUnion DEF Anyway, Modes
<1>4. PICK u \in union : x \in Anyway(v, u)
  BY <1>3
<1>5. Exact(AsJson[x], u) # {}
  BY <1>4 DEF ReadsAgain
<1>6. PICK fit \in CountedOf(AsJson[x], union) : Exact(AsJson[x], fit) # {}
  BY <1>1, <1>5, Written, ExactUnion
<1>7. Exact(AsJson[x], type) = UNION {Exact(AsJson[x], t) : t \in CountedOf(AsJson[x], union)}
  BY <1>2, Written, ReadsUnion
<1> HIDE DEF union
<1> QED BY <1>6, <1>7

LEMMA ListReadsAgain ==
  ASSUME NEW v \in Json, v.k = "list", NEW type \in Type,
         \/ type.t = "list"
         \/ type.t = "tuple" /\ Len(v.items) = Len(type.of),
         \A i \in DOMAIN v.items : ReadsAgain(v.items[i], IF type.t = "list" THEN type.of[1] ELSE type.of[i])
  PROVE  ReadsAgain(v, type)
<1> SUFFICES ASSUME NEW x \in Anyway(v, type) PROVE Exact(AsJson[x], type) # {}
  BY DEF ReadsAgain
<1> DEFINE of(i) == IF type.t = "list" THEN type.of[1] ELSE type.of[i]
           made(s) == IF type.t = "list" THEN List(s) ELSE Tuple(s)
           parts(w, how) == [i \in DOMAIN w.items |-> Reading[<<w.items[i], of(i), how>>]]
           json == AsJson[x]
<1>1. ASSUME NEW w, w.k = "list", type.t = "list" \/ Len(w.items) = Len(type.of), NEW how
      PROVE  ReadingsBy(Reading, w, type, how) = {made(s) : s \in Product(parts(w, how))}
  <2>1. CASE type.t = "list"
    BY <1>1, <2>1 DEF ReadingsBy, BasicTypes, Numbers
  <2>2. CASE type.t = "tuple"
    BY <1>1, <2>2 DEF ReadingsBy, BasicTypes, Numbers
  <2> QED BY <2>1, <2>2
<1>2. PICK s \in Product(parts(v, "any")) : x = made(s)
  <2>1. Anyway(v, type) = {made(s) : s \in Product(parts(v, "any"))}
    BY <1>1, ReadingsAre DEF Anyway, Modes
  <2> HIDE DEF parts, made
  <2> QED BY <2>1
<1>3. /\ s = [i \in DOMAIN v.items |-> s[i]]
      /\ \A i \in DOMAIN v.items : s[i] \in Anyway(v.items[i], of(i))
  <2>1. DOMAIN parts(v, "any") = DOMAIN v.items
    OBVIOUS
  <2>2. s = [i \in DOMAIN v.items |-> s[i]] /\ \A i \in DOMAIN v.items : s[i] \in parts(v, "any")[i]
    <3> HIDE DEF parts
    <3> QED BY <1>2, <2>1, ProductHas
  <2> QED BY <2>2 DEF Anyway, Readings
<1>4. x.k \in {"list", "tuple"} /\ x.items = s
  BY <1>2 DEF List, Tuple
<1>5. json = List([i \in DOMAIN s |-> AsJson[s[i]]])
  <2>1. AsJsonBy(AsJson, x) = List([i \in DOMAIN x.items |-> AsJson[x.items[i]]])
    BY <1>4 DEF AsJsonBy
  <2> QED BY <1>4, <2>1, Written
<1>6. /\ json.k = "list" /\ DOMAIN json.items = DOMAIN v.items
      /\ \A i \in DOMAIN v.items : json.items[i] = AsJson[s[i]]
  <2>1. DOMAIN s = DOMAIN v.items
    BY <1>3
  <2> HIDE DEF json
  <2> QED BY <1>5, <2>1 DEF List
<1>7. type.t = "list" \/ Len(json.items) = Len(type.of)
  <2>1. json.items \in Seq(Json) /\ v.items \in Seq(Json)
    BY <1>6, Written, ListParts
  <2>2. Len(json.items) = Len(v.items)
    <3> HIDE DEF json
    <3> QED BY <1>6, <2>1
  <2> QED BY <2>2
<1>8. ASSUME NEW i \in DOMAIN json.items PROVE parts(json, "exact")[i] # {}
  <2>1. i \in DOMAIN v.items /\ json.items[i] = AsJson[s[i]]
    BY <1>6
  <2>2. Exact(AsJson[s[i]], of(i)) # {}
    BY <1>3, <2>1 DEF ReadsAgain
  <2>3. parts(json, "exact")[i] = Exact(json.items[i], of(i))
    BY DEF Exact, Readings
  <2> HIDE DEF json, parts, of
  <2> QED BY <2>1, <2>2, <2>3
<1>9. Product(parts(json, "exact")) # {}
  <2>1. DOMAIN parts(json, "exact") = DOMAIN json.items
    OBVIOUS
  <2> HIDE DEF parts, json
  <2> QED BY <1>8, <2>1, ProductEmpty
<1>10. Exact(json, type) = {made(r) : r \in Product(parts(json, "exact"))}
  <2>1. ReadingsBy(Reading, json, type, "exact") = {made(r) : r \in Product(parts(json, "exact"))}
    <3> HIDE DEF parts, json, made
    <3> QED BY <1>1, <1>6, <1>7
  <2> QED BY <2>1, Written
<1> HIDE DEF parts, json, made
<1> QED BY <1>9, <1>10 DEF json

LEMMA ObjectReadsAgain ==
  ASSUME NEW v \in Json, v.k = "object", NEW type \in Type, type.t = "dict",
         \A key \in DOMAIN v.fields : ReadsAgain(v.fields[key], type.of[1])
  PROVE  ReadsAgain(v, type)
<1> SUFFICES ASSUME NEW x \in Anyway(v, type) PROVE Exact(AsJson[x], type) # {}
  BY DEF ReadsAgain
<1> DEFINE parts(w, how) == [key \in DOMAIN w.fields |-> Reading[<<w.fields[key], type.of[1], how>>]]
           json == AsJson[x]
<1>1. ASSUME NEW w, w.k = "object", NEW how
      PROVE  ReadingsBy(Reading, w, type, how) = {Object(s) : s \in Product(parts(w, how))}
  BY <1>1 DEF ReadingsBy, BasicTypes, Numbers
<1>2. PICK s \in Product(parts(v, "any")) : x = Object(s)
  <2>1. Anyway(v, type) = {Object(s) : s \in Product(parts(v, "any"))}
    BY <1>1, ReadingsAre DEF Anyway, Modes
  <2> HIDE DEF parts
  <2> QED BY <2>1
<1>3. /\ s = [key \in DOMAIN v.fields |-> s[key]]
      /\ \A key \in DOMAIN v.fields : s[key] \in Anyway(v.fields[key], type.of[1])
  <2>1. DOMAIN parts(v, "any") = DOMAIN v.fields
    OBVIOUS
  <2>2. s = [key \in DOMAIN v.fields |-> s[key]] /\ \A key \in DOMAIN v.fields : s[key] \in parts(v, "any")[key]
    <3> HIDE DEF parts
    <3> QED BY <1>2, <2>1, ProductHas
  <2> QED BY <2>2 DEF Anyway, Readings
<1>4. x.k = "object" /\ x.fields = s
  BY <1>2 DEF Object
<1>5. json = Object([key \in DOMAIN s |-> AsJson[s[key]]])
  <2>1. AsJsonBy(AsJson, x) = Object([key \in DOMAIN x.fields |-> AsJson[x.fields[key]]])
    BY <1>4 DEF AsJsonBy
  <2> QED BY <1>4, <2>1, Written
<1>6. /\ json.k = "object" /\ DOMAIN json.fields = DOMAIN v.fields
      /\ \A key \in DOMAIN v.fields : json.fields[key] = AsJson[s[key]]
  <2>1. DOMAIN s = DOMAIN v.fields
    BY <1>3
  <2> HIDE DEF json
  <2> QED BY <1>5, <2>1 DEF Object
<1>7. ASSUME NEW key \in DOMAIN json.fields PROVE parts(json, "exact")[key] # {}
  <2>1. key \in DOMAIN v.fields /\ json.fields[key] = AsJson[s[key]]
    BY <1>6
  <2>2. Exact(AsJson[s[key]], type.of[1]) # {}
    BY <1>3, <2>1 DEF ReadsAgain
  <2>3. parts(json, "exact")[key] = Exact(json.fields[key], type.of[1])
    BY DEF Exact, Readings
  <2> HIDE DEF json, parts
  <2> QED BY <2>1, <2>2, <2>3
<1>8. Product(parts(json, "exact")) # {}
  <2>1. DOMAIN parts(json, "exact") = DOMAIN json.fields
    OBVIOUS
  <2> HIDE DEF parts, json
  <2> QED BY <1>7, <2>1, ProductEmpty
<1>9. Exact(json, type) = {Object(r) : r \in Product(parts(json, "exact"))}
  <2>1. ReadingsBy(Reading, json, type, "exact") = {Object(r) : r \in Product(parts(json, "exact"))}
    <3> HIDE DEF parts, json
    <3> QED BY <1>1, <1>6
  <2> QED BY <2>1, Written
<1> HIDE DEF parts, json
<1> QED BY <1>8, <1>9 DEF json

LEMMA ClassReadsAgain ==
  ASSUME NEW v \in Json, v.k = "object", NEW type \in Type, type.t = "class",
         \A f \in Present(type.class, v) : ReadsAgain(ValueOf(type.class, v, f), Class[type.class].types[f])
  PROVE  ReadsAgain(v, type)
<1> SUFFICES ASSUME NEW x \in Anyway(v, type) PROVE Exact(AsJson[x], type) # {}
  BY DEF ReadsAgain
<1> DEFINE c == type.class
           names == Class[c].names
           fieldTypes == Class[c].types
           given == Present(c, v)
           sets(w, how) == [f \in FieldNames(c) |->
                                IF f \in Present(c, w) THEN Reading[<<ValueOf(c, w, f), fieldTypes[f], how>>]
                                ELSE {Class[c].defaults[f]}]
           json == AsJson[x]
<1>0. /\ c \in DOMAIN Class /\ DOMAIN names = FieldNames(c)
      /\ \A f, g \in FieldNames(c) : f # g => {f, names[f]} \cap {g, names[g]} = {}
  BY MemberTypes, ClassesAssumption
\* The fields of the instance, and those of them that are written.
<1>1. PICK s \in Product(sets(v, "any")) : x = Instance(c, s)
  <2>1. Anyway(v, type) = ClassReadings(v, c, "any", Reading)
    BY ReadsClass DEF Anyway, Modes
  <2>2. x \in {Instance(c, f) : f \in Product(sets(v, "any"))}
    BY <2>1 DEF ClassReadings
  <2> HIDE DEF sets
  <2> QED BY <2>2
<1>2. /\ DOMAIN s = FieldNames(c)
      /\ \A f \in given : s[f] \in Anyway(ValueOf(c, v, f), fieldTypes[f])
      /\ \A f \in FieldNames(c) \ given : s[f] = Class[c].defaults[f]
  <2>1. DOMAIN sets(v, "any") = FieldNames(c)
    OBVIOUS
  <2>2. s = [f \in FieldNames(c) |-> s[f]] /\ \A f \in FieldNames(c) : s[f] \in sets(v, "any")[f]
    <3> HIDE DEF sets
    <3> QED BY <1>1, <2>1, ProductHas
  <2>3. given \subseteq FieldNames(c)
    BY <1>0, FieldParts
  <2>4. \A f \in given : sets(v, "any")[f] = Anyway(ValueOf(c, v, f), fieldTypes[f])
    BY <2>3 DEF Anyway, Readings
  <2>5. \A f \in FieldNames(c) \ given : sets(v, "any")[f] = {Class[c].defaults[f]}
    OBVIOUS
  <2>6. DOMAIN s = FieldNames(c)
    BY <2>2
  <2> HIDE DEF sets, given
  <2> QED BY <2>2, <2>3, <2>4, <2>5, <2>6
<1>3. x.k = "instance" /\ x.class = c /\ x.fields = s
  BY <1>1 DEF Instance
<1> DEFINE saved == {f \in FieldNames(c) : ~Omitted(c, f, s[f])}
           fieldOf(key) == CHOOSE f \in saved : names[f] = key
<1>4. json = Object([key \in {names[f] : f \in saved} |-> AsJson[s[fieldOf(key)]]])
  <2> DEFINE kept == {f \in DOMAIN x.fields : ~Omitted(x.class, f, x.fields[f])}
             Make(w, n, fields) ==
                Object([key \in {n[f] : f \in w} |-> AsJson[fields[CHOOSE f \in w : n[f] = key]]])
  <2>1. json = AsJsonBy(AsJson, x)
    BY Written
  <2>2. AsJsonBy(AsJson, x) = Make(kept, Class[x.class].names, x.fields)
    BY <1>3 DEF AsJsonBy
  <2>3. saved = kept /\ names = Class[x.class].names /\ x.fields = s
    BY <1>2, <1>3
  <2>4. json = Make(saved, names, s)
    <3> HIDE DEF saved, kept, json, names, Make
    <3> QED BY <2>1, <2>2, <2>3
  <2> HIDE DEF saved, json, names
  <2> QED BY <2>4
<1>5. /\ json.k = "object" /\ DOMAIN json.fields = {names[f] : f \in saved}
      /\ \A f \in saved : json.fields[names[f]] = AsJson[s[f]]
  <2>1. json.k = "object" /\ json.fields = [key \in {names[f] : f \in saved} |-> AsJson[s[fieldOf(key)]]]
    <3> HIDE DEF json
    <3> QED BY <1>4 DEF Object
  <2>2. ASSUME NEW f \in saved PROVE fieldOf(names[f]) = f
    <3>1. fieldOf(names[f]) \in saved /\ names[fieldOf(names[f])] = names[f]
      <4> HIDE DEF saved, names
      <4> QED OBVIOUS
    <3>2. \A g \in saved : names[g] = names[f] => g = f
      BY <1>0
    <3> HIDE DEF fieldOf, saved, names
    <3> QED BY <3>1, <3>2
  <2> HIDE DEF json, saved, fieldOf, names
  <2> QED BY <2>1, <2>2
\* The class knows each key that is written, and every field that it requires is there.
<1>6. ASSUME NEW f \in saved PROVE FieldOf(c, names[f]) = {f}
  <2>1. FieldOf(c, names[f]) = {g \in FieldNames(c) : names[f] \in {g, names[g]}}
    BY DEF FieldOf
  <2>2. \A g \in FieldNames(c) : names[f] \in {g, names[g]} => g = f
    BY <1>0
  <2>3. f \in FieldNames(c)
    OBVIOUS
  <2> HIDE DEF names, saved
  <2> QED BY <2>1, <2>2, <2>3
<1>7. Present(c, json) = saved /\ KnowsAll(c, json)
  <2>1. DOMAIN json.fields = {names[f] : f \in saved}
    BY <1>5
  <2> HIDE DEF json, saved, names
  <2> QED BY <1>6, <2>1 DEF Present, KnowsAll
<1>8. Required(c) \subseteq saved
  BY DEF Required, Omitted
<1>9. ASSUME NEW f \in saved PROVE ValueOf(c, json, f) = AsJson[s[f]]
  <2> DEFINE key == CHOOSE key \in DOMAIN json.fields : f \in FieldOf(c, key)
  <2>1. key \in DOMAIN json.fields /\ f \in FieldOf(c, key)
    <3>1. names[f] \in DOMAIN json.fields /\ f \in FieldOf(c, names[f])
      BY <1>5, <1>6
    <3> HIDE DEF json, names
    <3> QED BY <3>1
  <2>2. PICK g \in saved : key = names[g]
    <3> HIDE DEF json, saved, key, names
    <3> QED BY <1>5, <2>1
  <2>3. g = f
    <3> HIDE DEF json, saved, key, names
    <3> QED BY <1>6, <2>1, <2>2
  <2>4. ValueOf(c, json, f) = json.fields[key]
    BY DEF ValueOf
  <2> HIDE DEF json, saved, key, names
  <2> QED BY <1>5, <2>2, <2>3, <2>4
\* What is written of each field can be read exactly.
<1>10. ASSUME NEW f \in FieldNames(c) PROVE sets(json, "exact")[f] # {}
  <2>1. CASE f \notin saved
    <3>1. sets(json, "exact")[f] = {Class[c].defaults[f]}
      BY <1>7, <2>1
    <3> QED BY <3>1
  <2>2. CASE f \in saved
    <3>1. sets(json, "exact")[f] = Exact(AsJson[s[f]], fieldTypes[f])
      BY <1>7, <1>9, <2>2 DEF Exact, Readings
    <3>2. Exact(AsJson[s[f]], fieldTypes[f]) # {}
      <4>1. CASE f \in given
        BY <1>2, <4>1 DEF ReadsAgain
      <4>2. CASE f \notin given
        <5>1. s[f] = Class[c].defaults[f]
          BY <1>2, <4>2
        <5>2. f \in DOMAIN Class[c].defaults
          <6>1. Required(c) \subseteq given
            BY ReadsClass DEF Anyway, Modes
          <6> QED BY <4>2, <6>1 DEF Required
        <5>3. s[f].k # "null" \/ f \in Class[c].factories
          BY <2>2, <5>2 DEF Omitted
        <5> QED BY <1>0, <5>1, <5>2, <5>3, WritingAssumption DEF Exact
      <4> QED BY <4>1, <4>2
    <3> HIDE DEF sets
    <3> QED BY <3>1, <3>2
  <2> QED BY <2>1, <2>2
<1>11. Product(sets(json, "exact")) # {}
  <2>1. DOMAIN sets(json, "exact") = FieldNames(c)
    OBVIOUS
  <2> HIDE DEF sets, json
  <2> QED BY <1>10, <2>1, ProductEmpty
<1>12. Exact(json, type) = {Instance(c, f) : f \in Product(sets(json, "exact"))}
  <2>1. Exact(json, type) = ClassReadings(json, c, "exact", Reading)
    BY <1>5, Written, ReadsClass DEF Exact, Modes
  <2>2. Required(c) \subseteq Present(c, json) /\ KnowsAll(c, json)
    BY <1>7, <1>8
  <2>3. ClassReadings(json, c, "exact", Reading) = {Instance(c, f) : f \in Product(sets(json, "exact"))}
    <3> HIDE DEF json
    <3> QED BY <2>2 DEF ClassReadings
  <2> QED BY <2>1, <2>3
<1> HIDE DEF sets, json
<1> QED BY <1>11, <1>12 DEF json

LEMMA ReadsAgainStep ==
  ASSUME NEW v \in Json, NEW type \in Type,
         \A w \in Json, u \in Type : Below(<<w, u>>, <<v, type>>) => ReadsAgain(w, u)
  PROVE  ReadsAgain(v, type)
<1>1. CASE type.t \in BasicTypes \cup {"any", "literal", "enum"}
  BY <1>1, BasicReadsAgain, AnyReadsAgain, LiteralReadsAgain, EnumReadsAgain
<1>2. CASE type.t = "union"
  <2>1. \A u \in ToSet(type.of) : ReadsAgain(v, u)
    BY <1>2, PartsBelow DEF Members
  <2> QED BY <1>2, <2>1, UnionReadsAgain
<1>3. CASE type.t = "list" /\ v.k = "list"
  <2>1. type.of[1] \in Type /\ \A i \in DOMAIN v.items : v.items[i] \in Json /\ v.items[i] \in Parts(v)
    BY <1>3, ListParts, MemberTypes
  <2>2. \A i \in DOMAIN v.items : ReadsAgain(v.items[i], type.of[1])
    BY <2>1, PartsBelow
  <2> QED BY <1>3, <2>2, ListReadsAgain
<1>4. CASE type.t = "tuple" /\ v.k = "list" /\ Len(v.items) = Len(type.of)
  <2>1. ASSUME NEW i \in DOMAIN v.items PROVE ReadsAgain(v.items[i], type.of[i])
    <3>1. v.items \in Seq(Json) /\ type.of \in Seq(Type) /\ v.items[i] \in Parts(v)
      BY <1>4, ListParts, MemberTypes
    <3>2. type.of[i] \in Type
      BY <1>4, <3>1
    <3> QED BY <3>1, <3>2, PartsBelow
  <2>2. type.t # "list"
    BY <1>4
  <2> QED BY <1>4, <2>1, <2>2, ListReadsAgain
<1>5. CASE type.t = "dict" /\ v.k = "object"
  <2>1. type.of[1] \in Type
    BY <1>5, MemberTypes
  <2>2. \A key \in DOMAIN v.fields : v.fields[key] \in Json /\ v.fields[key] \in Parts(v)
    BY <1>5, ObjectParts
  <2>3. \A key \in DOMAIN v.fields : ReadsAgain(v.fields[key], type.of[1])
    BY <2>1, <2>2, PartsBelow
  <2> QED BY <1>5, <2>3, ObjectReadsAgain
<1>6. CASE type.t = "class" /\ v.k = "object"
  <2>1. type.class \in DOMAIN Class
    BY <1>6, MemberTypes
  <2>2. \A f \in Present(type.class, v) : ReadsAgain(ValueOf(type.class, v, f), Class[type.class].types[f])
    BY <1>6, <2>1, FieldParts, PartsBelow
  <2> QED BY <1>6, <2>2, ClassReadsAgain
<1>7. CASE /\ type.t \notin BasicTypes \cup {"any", "literal", "enum", "union"}
           /\ ~(type.t = "list" /\ v.k = "list")
           /\ ~(type.t = "tuple" /\ v.k = "list" /\ Len(v.items) = Len(type.of))
           /\ ~(type.t = "dict" /\ v.k = "object") /\ ~(type.t = "class" /\ v.k = "object")
  <2>1. ReadingsBy(Reading, v, type, "any") = {}
    BY <1>7 DEF ReadingsBy, BasicTypes, Numbers
  <2>2. Anyway(v, type) = {}
    BY <2>1, ReadingsAre DEF Anyway, Modes
  <2> QED BY <2>2 DEF ReadsAgain
<1> QED BY <1>1, <1>2, <1>3, <1>4, <1>5, <1>6, <1>7

LEMMA AllReadAgain ==
  ASSUME NEW v \in Json, NEW type \in Type
  PROVE  ReadsAgain(v, type)
<1> DEFINE T == {p \in Pairs : ReadsAgain(p[1], p[2])}
<1>1. ASSUME NEW p \in Pairs, \A q \in Pairs : Below(q, p) => q \in T PROVE p \in T
  <2>1. p[1] \in Json /\ p[2] \in Type
    BY DEF Pairs
  <2>2. ASSUME NEW w \in Json, NEW u \in Type, Below(<<w, u>>, <<p[1], p[2]>>) PROVE ReadsAgain(w, u)
    <3> DEFINE q == <<w, u>>
    <3>1. q \in Pairs /\ q[1] = w /\ q[2] = u
      BY DEF Pairs
    <3>2. Below(q, p)
      BY <2>2 DEF Below
    <3>3. q \in T
      <4> HIDE DEF q
      <4> QED BY <1>1, <3>1, <3>2
    <3> QED BY <3>1, <3>3
  <2> QED BY <2>1, <2>2, ReadsAgainStep
<1> HIDE DEF T
<1>2. Pairs \subseteq T
  BY <1>1, ConversionPaired, PairInduction
<1>3. <<v, type>> \in T
  BY <1>2 DEF Pairs
<1> QED BY <1>3 DEF T

\* For any classes, types and JSON: what a handler got, written as JSON and read as the same type, is the
\* same value again, unless that JSON stands for another value of the type, too.
THEOREM WhatIsReadReadsBack == Spec => []ReadsBack
<1>1. ASSUME ReadInv, NEW r \in read, NEW x \in r.got, Readings(AsJson[x], r.type, "apart") \subseteq {x}
      PROVE  Converted(AsJson[x], <<r.type>>) = {x}
  <2> DEFINE json == AsJson[x]
  <2>1. r.type \in Type /\ r.sent \in Json /\ r.got = Result(r.sent, r.type)
    BY <1>1, ConvertedIs DEF ReadInv
  <2>2. x \in Anyway(r.sent, r.type)
    BY <2>1, ConversionAgrees DEF Agreed, Agree
  <2>3. json \in Json /\ Exact(json, r.type) # {}
    BY <2>1, <2>2, Written, AllReadAgain DEF ReadsAgain
  <2>4. Apart(json, r.type) \subseteq {x}
    BY <1>1 DEF Apart
  <2> HIDE DEF json
  <2>5. Agree(Result(json, r.type), Exact(json, r.type), Apart(json, r.type), Anyway(json, r.type))
    BY <2>1, <2>3, ConversionAgrees DEF Agreed
  <2>6. Result(json, r.type) = {x}
    BY <2>3, <2>4, <2>5 DEF Agree, IsOne
  <2>7. Converted(json, <<r.type>>) = Result(json, r.type)
    BY <2>1, <2>3, ConvertedIs
  <2> QED BY <2>6, <2>7 DEF json
<1>2. ReadInv => ReadsBack
  BY <1>1 DEF ReadsBack
<1> QED BY <1>2, ReadInvAlways, PTL
=============================================================================
