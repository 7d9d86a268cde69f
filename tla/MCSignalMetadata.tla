-------------------------- MODULE MCSignalMetadata --------------------------
(* SignalMetadata with a word of two bits and ten ticks to a second.       *)
EXTENDS SignalMetadata

\* A document with values of unexpected types, and one that another peer wrote:
\* its unit and origin are in the definition, its linear rule in the interpretation.
\* A third has metadata of its own.
Junk ==
  AssignObject(Assign(EmptyDoc, <<"interpretation">>, StrValue("x")), <<"definition">>,
    [rule |-> IntValue(1), linear |-> StrValue("x"), struct |-> IntValue(2), dataType |-> NullValue])
Written ==
  LET d1 == AssignObject(EmptyDoc, <<"definition">>, [rule |-> StrValue("linear"), origin |-> StrValue("2000")])
      d2 == AssignObject(d1, Definition("unit"), [unitId |-> IntValue(7), displayName |-> StrValue("V")])
      d3 == AssignObject(d2, <<"interpretation">>, [rule |-> ObjValue, metadata |-> StrValue("x")])
  IN  AssignObject(d3, RuleParameters, [start |-> IntValue(5), delta |-> IntValue(5)])
Noted ==
  AssignObject(Assign(EmptyDoc, <<"interpretation">>, ObjValue), Interpretation("metadata"),
    [key |-> StrValue("old"), note |-> StrValue("x")])
SomeForeign == {Junk, Written, Noted}

SomeRules == {<<0, 2>>, <<3, 1>>}
SomeFields == {[type |-> "int16", array |-> 0], [type |-> "int8", array |-> 3]}
SomeUnits == {[id |-> 1, name |-> "volts", quantity |-> "voltage", symbol |-> "V"]}

\* A quarter of a second, which is two ticks and a half, for one sample; and two
\* seconds and a sixteenth for three, each six ticks and seven eighths.
SomeRates ==
  {[seconds |-> 0, fraction |-> 1, subFraction |-> 0, samples |-> 1],
   [seconds |-> 2, fraction |-> 0, subFraction |-> 1, samples |-> 3]}
SomeStamps == {<<0, 0>>, <<1, 3>>}
=============================================================================
