------------------------------ MODULE Metadata ------------------------------
(***************************************************************************)
(* The metadata of a signal: a JSON document that metadata_builder writes, *)
(* the connections carry and wss::metadata reads.                          *)
(*                                                                         *)
(* A document is a function from paths to typed values.  An object is a    *)
(* path of type "obj"; its members are the paths one key longer.  An array *)
(* is the sequence of its elements, each a document of its own.  A test    *)
(* such as contains(key) && is_object() of every level of a path is one    *)
(* test here, since a path has members only if it is an object.            *)
(***************************************************************************)
EXTENDS Integers, Sequences, SequencesExt

CONSTANT Base \* 2^32, the weight of a word of a direct TCP time interval

ASSUME BaseAssumption == Base \in Nat /\ Base > 1 /\ Base % 2 = 0

IntValue(n) == <<"int", n>>
StrValue(s) == <<"str", s>>
ArrValue(s) == <<"arr", s>>
ObjValue == <<"obj">>
NullValue == <<"null">>

Has(doc, path, type) == path \in DOMAIN doc /\ doc[path][1] = type

\* A typed read with a default, and an optional one: <<>> or <<value>>.
Read(doc, path, type, default) == IF Has(doc, path, type) THEN doc[path][2] ELSE default
ReadOpt(doc, path, type) == IF Has(doc, path, type) THEN <<doc[path][2]>> ELSE <<>>

Erase(doc, path) == [p \in {q \in DOMAIN doc : ~IsPrefix(path, q)} |-> doc[p]]

\* Assignment of a value other than a filled object.
Assign(doc, path, value) ==
  [p \in DOMAIN Erase(doc, path) \cup {path} |-> IF p = path THEN value ELSE doc[p]]

\* Assignment of an object with the given members.
AssignObject(doc, path, members) ==
  LET cleared == Assign(doc, path, ObjValue)
      own     == {Append(path, k) : k \in DOMAIN members}
  IN  [p \in DOMAIN cleared \cup own |->
         IF p \in own THEN members[p[Len(p)]] ELSE cleared[p]]

\* What every JSON document satisfies: members belong to objects.
WellFormed(doc) ==
  \A p \in DOMAIN doc : p # <<>> =>
    Len(p) = 1 \/ Has(doc, SubSeq(p, 1, Len(p) - 1), "obj")

\* A document: its paths are sequences of keys.
IsDoc(doc) == (\A p \in DOMAIN doc : p \in Seq(STRING)) /\ WellFormed(doc)
-----------------------------------------------------------------------------
(* wss::metadata_builder. *)

Definition(key) == <<"definition", key>>
Interpretation(key) == <<"interpretation", key>>
RuleParameters == <<"interpretation", "rule", "parameters">>

EmptyDoc == [p \in {} |-> ObjValue]

\* metadata_builder(name); of the descriptive members of the interpretation,
\* which nothing reads, one is kept.
Builder(name) ==
  LET d1 == AssignObject(EmptyDoc, <<"definition">>,
              [name |-> StrValue(name), rule |-> StrValue("explicit")])
      d2 == AssignObject(d1, <<"interpretation">>, [sig_name |-> StrValue(name)])
      d3 == AssignObject(d2, Interpretation("rule"),
              [type |-> IntValue(3), parameters |-> NullValue])
  IN  Assign(d3, <<"valueIndex">>, IntValue(0))

\* metadata_builder(from_json, metadata).
Ensure(doc, path) == IF Has(doc, path, "obj") THEN doc ELSE Assign(doc, path, ObjValue)
FromJson(doc) == Ensure(Ensure(doc, <<"definition">>), <<"interpretation">>)

\* constant_rule: the parameters are left empty.
ConstantRule(doc) ==
  AssignObject(Erase(Assign(doc, Definition("rule"), StrValue("constant")), Definition("linear")),
               Interpretation("rule"), [type |-> IntValue(2), parameters |-> NullValue])

\* Mutant of LinearRule: the parameters of the interpretation are not written.
LinearRuleHalf(doc, start, delta) ==
  AssignObject(Assign(doc, Definition("rule"), StrValue("linear")), Definition("linear"),
               [delta |-> IntValue(delta), start |-> IntValue(start)])

LinearRule(doc, start, delta) ==
  LET both == [delta |-> IntValue(delta), start |-> IntValue(start)]
      d1 == Assign(doc, Definition("rule"), StrValue("linear"))
      d2 == AssignObject(d1, Definition("linear"),
              IF start = 0 THEN [delta |-> IntValue(delta)] ELSE both)
      d3 == AssignObject(d2, Interpretation("rule"), [type |-> IntValue(1)])
  IN  AssignObject(d3, RuleParameters, both)

DataType(doc, type) == Assign(doc, Definition("dataType"), StrValue(type))
Endian(doc, endian) == Assign(doc, Definition("endian"), StrValue(endian))
Origin(doc, origin) == Assign(doc, Interpretation("origin"), StrValue(origin))
Table(doc, id) == Assign(doc, <<"tableId">>, StrValue(id))

ValueRange(doc, low, high) ==
  AssignObject(doc, Definition("range"), [low |-> IntValue(low), high |-> IntValue(high)])

TickResolution(doc, num, denom) ==
  AssignObject(doc, Definition("resolution"), [num |-> IntValue(num), denom |-> IntValue(denom)])

ExtraMetadata(doc, key, value) ==
  Assign(Ensure(doc, Interpretation("metadata")), <<"interpretation", "metadata", key>>, StrValue(value))

\* The fields of a structure, each a document.
FieldsOf(doc) == Read(doc, Definition("struct"), "arr", <<>>)

StructField(doc, field) == Assign(doc, Definition("struct"), ArrValue(Append(FieldsOf(doc), field)))

\* unit: a unit is [id, name, quantity, symbol].
Unit(doc, u) ==
  AssignObject(
    AssignObject(doc, Definition("unit"),
      [unitId |-> IntValue(u.id), quantity |-> StrValue(u.quantity), displayName |-> StrValue(u.symbol)]),
    Interpretation("unit"),
      [id |-> IntValue(u.id), name |-> StrValue(u.name), quantity |-> StrValue(u.quantity),
       symbol |-> StrValue(u.symbol)])

\* tcp_signal_rate: a rate is [seconds, fraction, subFraction, samples].
TcpSignalRate(doc, rate) ==
  LET d == AssignObject(doc, <<"signalRate">>, [samples |-> IntValue(rate.samples)])
  IN  AssignObject(d, <<"signalRate", "delta">>,
        [seconds |-> IntValue(rate.seconds), fraction |-> IntValue(rate.fraction),
         subFraction |-> IntValue(rate.subFraction)])

(* dimension_builder and struct_field_builder. *)

\* dimension_builder(name).linear_rule(start, delta, size).  The names of
\* dimensions and fields are left out.
Dimension(start, delta, size) ==
  AssignObject(Assign(EmptyDoc, <<"rule">>, StrValue("linear")), <<"linear">>,
    [start |-> IntValue(start), delta |-> IntValue(delta), size |-> IntValue(size)])

\* struct_field_builder(name).data_type(type).
Field(type) ==
  Assign(Assign(EmptyDoc, <<"rule">>, StrValue("explicit")), <<"dataType">>, StrValue(type))

\* array(size).
ArrayField(field, size) == Assign(field, <<"dimensions">>, ArrValue(<<Dimension(1, 0, size)>>))

\* dimension(dimension): the array of dimensions that is there is cleared first.
DimensionField(field, dimension) == Assign(field, <<"dimensions">>, ArrValue(<<dimension>>))
-----------------------------------------------------------------------------
(* wss::metadata. *)

\* get_primitive_size.
PrimitiveSize(type) ==
  CASE type \in {"int8", "uint8"} -> 1
    [] type \in {"int16", "uint16"} -> 2
    [] type \in {"int32", "uint32", "real32"} -> 4
    [] type \in {"int64", "uint64", "real64"} -> 8
    [] OTHER -> 0

NameOf(doc) == Read(doc, Definition("name"), "str", "")
EndianOf(doc) == Read(doc, Definition("endian"), "str", "unknown")
DataTypeOf(doc) == Read(doc, Definition("dataType"), "str", "unknown")
RuleOf(doc) == Read(doc, Definition("rule"), "str", "explicit")
TableIdOf(doc) == Read(doc, <<"tableId">>, "str", "")
ValueIndexOf(doc) == ReadOpt(doc, <<"valueIndex">>, "int")

LinearStartDelta(doc) ==
  LET at == IF Has(doc, RuleParameters, "obj") THEN RuleParameters ELSE Definition("linear")
  IN  IF RuleOf(doc) = "linear"
        THEN <<ReadOpt(doc, Append(at, "start"), "int"), ReadOpt(doc, Append(at, "delta"), "int")>>
        ELSE <<<<>>, <<>>>>

OriginOf(doc) ==
  Read(doc, Definition("origin"), "str", Read(doc, Interpretation("origin"), "str", ""))

RangeOf(doc) ==
  LET at == Definition("range")
  IN  IF Has(doc, at, "obj")
        THEN <<Read(doc, Append(at, "low"), "int", 0), Read(doc, Append(at, "high"), "int", 0)>>
        ELSE <<>>

TickResolutionOf(doc) ==
  LET at == Definition("resolution")
  IN  IF Has(doc, at, "obj")
        THEN <<Read(doc, Append(at, "num"), "int", 1), Read(doc, Append(at, "denom"), "int", 1)>>
        ELSE <<>>

UnitOf(doc) ==
  LET i == Interpretation("unit")
      d == Definition("unit")
      shown == Read(doc, Append(d, "displayName"), "str", "")
  IN  IF Has(doc, i, "obj")
        THEN <<[id |-> Read(doc, Append(i, "id"), "int", -1),
                name |-> Read(doc, Append(i, "name"), "str", ""),
                quantity |-> Read(doc, Append(i, "quantity"), "str", ""),
                symbol |-> Read(doc, Append(i, "symbol"), "str", "")]>>
      ELSE IF Has(doc, d, "obj")
        THEN <<[id |-> Read(doc, Append(d, "unitId"), "int", -1), name |-> shown,
                quantity |-> Read(doc, Append(d, "quantity"), "str", ""), symbol |-> shown]>>
      ELSE <<>>

\* extra_metadata: the members of an object.  The code throws at one that is no
\* string, which is not modelled.
ExtraMetadataOf(doc) ==
  LET at   == Interpretation("metadata")
      keys == {p[Len(p)] : p \in DOMAIN doc \ {<<>>}}
  IN  [k \in {key \in keys : Append(at, key) \in DOMAIN doc} |-> doc[Append(at, k)]]

\* struct_fields: of each field its data_type, and of each of its dimensions the
\* size in linear_start_delta_size.
DimensionSizeOf(dimension) ==
  IF Read(dimension, <<"rule">>, "str", "explicit") = "linear"
    THEN ReadOpt(dimension, <<"linear", "size">>, "int") ELSE <<>>

StructFieldOf(field) ==
  LET dims == Read(field, <<"dimensions">>, "arr", <<>>)
  IN  [type |-> Read(field, <<"dataType">>, "str", "unknown"),
       sizes |-> [i \in DOMAIN dims |-> DimensionSizeOf(dims[i])]]

StructFieldsOf(doc) == [i \in DOMAIN FieldsOf(doc) |-> StructFieldOf(FieldsOf(doc)[i])]

\* The elements of a field: the size of its first dimension, if linear.
FieldCount(field) ==
  LET dims == Read(field, <<"dimensions">>, "arr", <<>>)
  IN  IF dims # <<>> /\ Has(dims[1], <<"linear">>, "obj")
        THEN Read(dims[1], <<"linear", "size">>, "int", 1) ELSE 1

FieldSize(field) == PrimitiveSize(Read(field, <<"dataType">>, "str", "unknown")) * FieldCount(field)

\* The sum of a sequence of numbers.
Total(numbers) ==
  LET sum[i \in 0 .. Len(numbers)] == IF i = 0 THEN 0 ELSE sum[i - 1] + numbers[i]
  IN  sum[Len(numbers)]

\* sample_size.
SampleSize(doc) ==
  IF DataTypeOf(doc) = "struct"
    THEN Total([i \in DOMAIN FieldsOf(doc) |-> FieldSize(FieldsOf(doc)[i])])
    ELSE PrimitiveSize(DataTypeOf(doc))

\* tcp_signal_rate_ticks: the interval of a sample, counted in num/denom
\* seconds; "half" is divided by denom once more than a half tick would be.
Ticks(rate, num, denom) ==
  LET ticks2_64 == (rate.seconds * Base + rate.fraction) * Base + rate.subFraction
      two64 == Base * Base
  IN  (2 * denom * ticks2_64 * denom + two64 * num * rate.samples)
        \div (2 * denom * two64 * rate.samples * num)

TcpSignalRateTicks(doc, num, denom) ==
  LET at == <<"signalRate", "delta">>
  IN  IF ~Has(doc, <<"signalRate">>, "obj") THEN 0
      ELSE Ticks([seconds     |-> Read(doc, Append(at, "seconds"), "int", 0),
                  fraction    |-> Read(doc, Append(at, "fraction"), "int", 0),
                  subFraction |-> Read(doc, Append(at, "subFraction"), "int", 0),
                  samples     |-> Read(doc, <<"signalRate", "samples">>, "int", 1)], num, denom)
=============================================================================
