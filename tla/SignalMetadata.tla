--------------------------- MODULE SignalMetadata ---------------------------
(***************************************************************************)
(* What a remote signal makes of its metadata.  A WebSocket peer describes *)
(* a signal in one document, which its application builds call by call and *)
(* may rebuild while samples flow.  A direct TCP device describes it piece *)
(* by piece (signalRate, data, time), in any order and repeatedly, and the *)
(* remote signal merges the pieces into a document of its own.  Either way *)
(* remote_signal_impl caches what it needs to count and stamp samples.     *)
(*                                                                         *)
(* Messages arrive in order (Peer, PeerTls) and are taken here where they  *)
(* arrive.  Domain tables are left to LinearDomain, subscriptions to       *)
(* SignalLink.                                                             *)
(***************************************************************************)
EXTENDS Metadata, FiniteSets

CONSTANTS Foreign,    \* documents of other peers, to build on
          LinearRules,\* arguments of linear_rule: <<start, delta>>
          DataTypes,  \* arguments of data_type, and of the data message
          Fields,     \* the fields of structures: [type, array], array 0 for a scalar
          Units,      \* arguments of unit
          Rates,      \* arguments of tcp_signal_rate, and of the signalRate message
          Stamps,     \* the time message: <<seconds, fraction>>
          TickDenom,  \* 1000000000, ticks to a second
          Epoch,      \* 946684800, the seconds from 1970 to 2000
          MaxCalls,   \* bound: builder calls in one behaviour
          Fineness,   \* a common multiple of the "samples" of the rates
          MaxSamples  \* bound: samples between two time messages

ASSUME SignalMetadataAssumption ==
  /\ TickDenom \in Nat \ {0} /\ Epoch \in Nat /\ Fineness \in Nat \ {0}
  /\ MaxCalls \in Nat /\ MaxSamples \in Nat
  /\ \A r \in Rates : /\ r.seconds \in Nat /\ r.fraction \in Nat /\ r.subFraction \in Nat
                       /\ r.samples \in Nat \ {0} /\ Fineness % r.samples = 0
  /\ \A s \in Stamps : s[1] \in Nat /\ s[2] \in Nat
  /\ \A f \in Fields : f.array \in Nat
  /\ \A u \in Units : u = [id |-> u.id, name |-> u.name, quantity |-> u.quantity, symbol |-> u.symbol]

\* Documents of other peers are JSON, and the structure of a sample is told to
\* the builder, not found in them.
ASSUME ForeignAssumption ==
  \A d \in Foreign : IsDoc(d) /\ FieldsOf(d) = <<>>

VARIABLES kind,      \* "ws" or "tcp"
          draft,     \* the builder's document
          told,      \* what the builder was told, by accessor
          calls,
          subscribed,\* _is_subscribed
          metadata,  \* _metadata
          sampleSize,\* _sample_size
          isLinear,  \* whether _table is set
          isExplicit,\* _is_explicit
          tcpDelta,  \* _tcp_delta
          tcpTime,   \* _tcp_time
          source,    \* what the samples really are: [type, size, rate]
          clock,     \* the device's time of the next sample, exactly; NoTime if not sent
          since,     \* samples since the last time message
          delivered  \* samples sent and reported in the last payload

builderVars == <<draft, told, calls>>
sinkVars == <<subscribed, metadata, sampleSize, isLinear, isExplicit, tcpDelta, tcpTime>>
metadataVars == <<kind, builderVars, sinkVars, source, clock, since, delivered>>

NoTime == -1
NoRate == [seconds |-> 0, fraction |-> 0, subFraction |-> 0, samples |-> 1]

\* The clock counts this many to a tick.
Fine == Base * Base * Fineness

\* The interval between two samples, exactly.
Interval(rate) ==
  ((rate.seconds * Base + rate.fraction) * Base + rate.subFraction) * TickDenom
    * (Fineness \div rate.samples)

\* What half a second is on the clock.
HalfSecond == (Base \div 2) * TickDenom * Base * Fineness

\* What the accessors say of a document; struct_fields is compared apart.
View(doc) ==
  [name |-> NameOf(doc), dataType |-> DataTypeOf(doc), endian |-> EndianOf(doc),
   rule |-> RuleOf(doc), linear |-> LinearStartDelta(doc), origin |-> OriginOf(doc),
   range |-> RangeOf(doc), resolution |-> TickResolutionOf(doc), unit |-> UnitOf(doc),
   table |-> TableIdOf(doc), valueIndex |-> ValueIndexOf(doc), sampleSize |-> SampleSize(doc),
   ticks |-> TcpSignalRateTicks(doc, 1, TickDenom), extra |-> ExtraMetadataOf(doc)]

MetadataInit ==
  /\ kind \in {"ws", "tcp"}
  /\ draft \in {Builder("v")} \cup {FromJson(d) : d \in Foreign}
  /\ kind = "tcp" => draft = Builder("v")
  /\ told = [a \in DOMAIN View(draft) \cup {"fields"} |->
               IF a = "fields" THEN <<>> ELSE View(draft)[a]]
  /\ calls = 0
  /\ subscribed = FALSE
  /\ metadata = EmptyDoc
  /\ sampleSize = 0 /\ isLinear = FALSE /\ isExplicit = FALSE
  /\ tcpDelta = 0 /\ tcpTime = 0
  /\ source = [type |-> "unknown", size |-> 0, rate |-> NoRate]
  /\ clock = NoTime /\ since = 0
  /\ delivered = [sent |-> 0, reported |-> 0]
-----------------------------------------------------------------------------
(* The builder, one action per call. *)

Build(doc, expected) ==
  /\ kind = "ws" /\ calls < MaxCalls
  /\ calls' = calls + 1
  /\ draft' = doc
  /\ told' = expected
  /\ UNCHANGED <<kind, sinkVars, source, clock, since, delivered>>

\* The size of a field, and of a sample of a type, the fields of a structure
\* being laid out one after the other.
ElementSize(f) == PrimitiveSize(f.type) * (IF f.array = 0 THEN 1 ELSE f.array)
RealSize(type, fields) ==
  IF type # "struct" THEN PrimitiveSize(type) ELSE Total([i \in DOMAIN fields |-> ElementSize(fields[i])])

\* What struct_fields has to say of a field.
FieldTold(f) == [type |-> f.type, sizes |-> IF f.array = 0 THEN <<>> ELSE <<<<f.array>>>>]

\* The calls of struct_field_builder that describe a field.
FieldDoc(f, way) ==
  IF f.array = 0 THEN Field(f.type)
  ELSE IF way = "array" THEN ArrayField(Field(f.type), f.array)
  ELSE DimensionField(Field(f.type), Dimension(0, 1, f.array))

BuildConstantRule ==
  Build(ConstantRule(draft), [told EXCEPT !.rule = "constant", !.linear = <<<<>>, <<>>>>])
BuildLinearRule ==
  \E r \in LinearRules :
    Build(LinearRule(draft, r[1], r[2]),
          [told EXCEPT !.rule = "linear", !.linear = <<<<r[1]>>, <<r[2]>>>>])
BuildDataType ==
  \E t \in DataTypes :
    Build(DataType(draft, t), [told EXCEPT !.dataType = t, !.sampleSize = RealSize(t, told.fields)])
BuildEndian == Build(Endian(draft, "little"), [told EXCEPT !.endian = "little"])
BuildOrigin == Build(Origin(draft, "1970"), [told EXCEPT !.origin = "1970"])
BuildRange == Build(ValueRange(draft, -1, 1), [told EXCEPT !.range = <<-1, 1>>])
BuildTickResolution == Build(TickResolution(draft, 1, 10), [told EXCEPT !.resolution = <<1, 10>>])
BuildUnit == \E u \in Units : Build(Unit(draft, u), [told EXCEPT !.unit = <<u>>])
BuildTable == Build(Table(draft, "t"), [told EXCEPT !.table = "t"])
BuildExtra ==
  \E v \in {"value", "other"} :
    LET extra == [k \in DOMAIN told.extra \cup {"key"} |-> IF k = "key" THEN StrValue(v) ELSE told.extra[k]]
    IN  Build(ExtraMetadata(draft, "key", v), [told EXCEPT !.extra = extra])
BuildStructField ==
  \E f \in Fields, way \in {"array", "dimension"} :
    LET fields == Append(told.fields, f)
    IN  Build(StructField(draft, FieldDoc(f, way)),
              [told EXCEPT !.fields = fields, !.sampleSize = RealSize(told.dataType, fields)])
BuildTcpSignalRate ==
  \E r \in Rates : Build(TcpSignalRate(draft, r), [told EXCEPT !.ticks = Ticks(r, 1, TickDenom)])
-----------------------------------------------------------------------------
(* remote_signal_impl. *)

\* handle_subscribe: a device sends its time anew, so the old one is void.
HandleSubscribe ==
  /\ ~subscribed
  /\ subscribed' = TRUE
  /\ clock' = NoTime
  /\ UNCHANGED <<kind, builderVars, metadata, sampleSize, isLinear, isExplicit, tcpDelta, tcpTime,
                 source, since, delivered>>

HandleUnsubscribe ==
  /\ subscribed
  /\ subscribed' = FALSE
  /\ UNCHANGED <<kind, builderVars, metadata, sampleSize, isLinear, isExplicit, tcpDelta, tcpTime,
                 source, clock, since, delivered>>

\* Mutant of HandleSignal: the sample size of the first description is kept.
HandleSignalKeepsSize ==
  /\ kind = "ws"
  /\ metadata' = draft
  /\ sampleSize' = IF sampleSize = 0 THEN SampleSize(draft) ELSE sampleSize
  /\ isLinear' = (RuleOf(draft) = "linear")
  /\ isExplicit' = (RuleOf(draft) = "explicit")
  /\ source' = [source EXCEPT !.type = told.dataType, !.size = RealSize(told.dataType, told.fields)]
  /\ UNCHANGED <<kind, builderVars, subscribed, tcpDelta, tcpTime, clock, since, delivered>>

\* handle_signal: the source sends the document as built, and samples of that
\* description from then on.
HandleSignal ==
  /\ kind = "ws"
  /\ metadata' = draft
  /\ sampleSize' = SampleSize(draft)
  /\ isLinear' = (RuleOf(draft) = "linear")
  /\ isExplicit' = (RuleOf(draft) = "explicit")
  /\ source' = [source EXCEPT !.type = told.dataType, !.size = RealSize(told.dataType, told.fields)]
  /\ UNCHANGED <<kind, builderVars, subscribed, tcpDelta, tcpTime, clock, since, delivered>>

\* handle_signal_rate.
HandleSignalRate(rate) ==
  /\ kind = "tcp"
  /\ metadata' = TcpSignalRate(FromJson(metadata), rate)
  /\ tcpDelta' = TcpSignalRateTicks(metadata', 1, TickDenom)
  /\ source' = [source EXCEPT !.rate = rate]
  /\ UNCHANGED <<kind, builderVars, subscribed, sampleSize, isLinear, isExplicit, tcpTime, clock, since, delivered>>

\* handle_data(params).
HandleData(type) ==
  /\ kind = "tcp"
  /\ metadata' = Endian(DataType(FromJson(metadata), type), "little")
  /\ sampleSize' = SampleSize(metadata')
  /\ source' = [source EXCEPT !.type = type, !.size = PrimitiveSize(type)]
  /\ UNCHANGED <<kind, builderVars, subscribed, isLinear, isExplicit, tcpDelta, tcpTime, clock, since, delivered>>

\* The time a stamp stands for.  The half that rounds is half a second.
TimeOf(stamp) ==
  LET two31 == Base \div 2
  IN  ((two31 + stamp[2] + (stamp[1] + Epoch) * two31 * 2) * TickDenom) \div (two31 * 2)

\* The time that the device means by a stamp, exactly.
StampTime(stamp) == ((stamp[1] + Epoch) * Base + stamp[2]) * TickDenom * Base * Fineness

\* handle_time.
HandleTime(stamp) ==
  /\ kind = "tcp"
  /\ tcpTime' = TimeOf(stamp)
  /\ clock' = StampTime(stamp)
  /\ since' = 0
  /\ UNCHANGED <<kind, builderVars, subscribed, metadata, sampleSize, isLinear, isExplicit, tcpDelta,
                 source, delivered>>

\* The number of samples a payload of this many bytes is reported to hold.
SampleCount(bytes) ==
  CASE tcpDelta # 0               -> IF sampleSize = 0 THEN 0 ELSE bytes \div sampleSize
    [] tcpDelta = 0 /\ isLinear   -> 0
    [] tcpDelta = 0 /\ ~isLinear /\ isExplicit ->
         IF sampleSize # 0 THEN bytes \div sampleSize
         ELSE IF DataTypeOf(metadata) = "binary" THEN 1 ELSE 0
    [] OTHER -> IF bytes >= sampleSize THEN 1 ELSE 0

\* Mutant of HandlePayload: the time of the next block does not advance.
HandlePayloadStill(count) ==
  /\ subscribed /\ source.type # "unknown" /\ since + count <= MaxSamples
  /\ since' = since + count
  /\ LET bytes == IF source.size = 0 THEN 3 ELSE count * source.size
     IN  delivered' = [sent |-> IF source.size = 0 THEN 1 ELSE count, reported |-> SampleCount(bytes)]
  /\ clock' = IF clock = NoTime THEN NoTime ELSE clock + count * Interval(source.rate)
  /\ UNCHANGED <<kind, builderVars, subscribed, metadata, sampleSize, isLinear, isExplicit, tcpDelta,
                 tcpTime, source>>

\* handle_data(data, size), while subscribed.  The source sends this many
\* samples, or one blob, of some length, if its samples have no size.
HandlePayload(count) ==
  /\ subscribed /\ source.type # "unknown" /\ since + count <= MaxSamples
  /\ since' = since + count
  /\ LET bytes == IF source.size = 0 THEN 3 ELSE count * source.size
     IN  /\ delivered' = [sent |-> IF source.size = 0 THEN 1 ELSE count, reported |-> SampleCount(bytes)]
         /\ tcpTime' = IF tcpDelta # 0 THEN tcpTime + tcpDelta * SampleCount(bytes) ELSE tcpTime
  /\ clock' = IF clock = NoTime THEN NoTime ELSE clock + count * Interval(source.rate)
  /\ UNCHANGED <<kind, builderVars, subscribed, metadata, sampleSize, isLinear, isExplicit, tcpDelta, source>>

MetadataNext ==
  \/ BuildConstantRule \/ BuildLinearRule \/ BuildDataType \/ BuildEndian \/ BuildOrigin \/ BuildRange
  \/ BuildTickResolution \/ BuildUnit \/ BuildTable \/ BuildExtra \/ BuildStructField \/ BuildTcpSignalRate
  \/ HandleSubscribe \/ HandleUnsubscribe \/ HandleSignal
  \/ \E r \in Rates : HandleSignalRate(r)
  \/ \E t \in {d \in DataTypes : PrimitiveSize(d) # 0} : HandleData(t)
  \/ \E s \in Stamps : HandleTime(s)
  \/ \E n \in 1 .. 2 : HandlePayload(n)

MetadataSpec == MetadataInit /\ [][MetadataNext]_metadataVars
-----------------------------------------------------------------------------
(* Properties. *)

\* Every variable has its type, and the documents are what a JSON library can
\* hold: no builder call puts a member into a value that is no object.
MetadataTypeOK ==
  /\ kind \in {"ws", "tcp"} /\ calls \in 0 .. MaxCalls
  /\ WellFormed(draft) /\ WellFormed(metadata)
  /\ subscribed \in BOOLEAN /\ isLinear \in BOOLEAN /\ isExplicit \in BOOLEAN
  /\ sampleSize \in Nat /\ tcpDelta \in Nat /\ tcpTime \in Nat
  /\ source.size \in Nat /\ clock \in Int /\ since \in 0 .. MaxSamples
  /\ delivered \in [sent : 0 .. MaxSamples, reported : 0 .. MaxSamples]

\* Whatever the order of the builder calls, each accessor returns what the last
\* call about it said, and no call disturbs another accessor, also in a document
\* that another peer wrote.  The exceptions are an "origin" that such a document
\* has in its definition, where the builder writes the other one, and the
\* sample_size of a signal that is not explicit-rule, which the code
\* computes and metadata.hpp:143 says is zero.
ReadsAsTold ==
  /\ \A a \in DOMAIN View(draft) :
       \/ View(draft)[a] = told[a]
       \/ a = "origin" /\ Has(draft, Definition("origin"), "str")
       \/ a = "sampleSize" /\ RuleOf(draft) # "explicit"
  /\ StructFieldsOf(draft) = [i \in DOMAIN told.fields |-> FieldTold(told.fields[i])]

\* The remote signal reports as many samples as the source put into a payload,
\* through every change of the description: explicit-rule samples of known size
\* or binary ones, and those of a direct TCP device that has sent its rate.
SamplesCounted ==
  [][ /\ since' > since
      /\ tcpDelta # 0 \/ isExplicit
      /\ source.size # 0 \/ source.type = "binary"
      => delivered'.reported = delivered'.sent ]_metadataVars

\* A direct TCP signal's time stays near the device's own clock, from the last
\* time message on, through changes of the rate and of the data type: behind it
\* by at most a tick, and ahead by at most the half second that handle_time adds
\* where half a tick would round, and one tick per sample either way.
DriftBounded ==
  clock # NoTime => /\ tcpTime * Fine - clock <= HalfSecond + since * Fine
                    /\ clock - tcpTime * Fine <= Fine + since * Fine

\* Documents stay well-formed and read as they were told.
DocumentsSound == MetadataTypeOK /\ ReadsAsTold
=============================================================================
