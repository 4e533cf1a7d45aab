----------------------------- MODULE GraphCodec -----------------------------
(***************************************************************************)
(* The graph codec of package codec: the property row encoder and decoder  *)
(* (encoder.go, decoder.go) and the vertex and edge keys (vertex_key.go,   *)
(* edge_key.go).                                                           *)
(*                                                                         *)
(* A byte has Radix values (256 in the code), so intN is N bytes of Radix   *)
(* and the code's int8/16/32/64 are 1/2/4/8 bytes.  A datum is a record of *)
(* its type and payload (s for a string).  The row layout helpers of rowBytes and the        *)
(* integer and float codecs EncodeInt/DecodeInt/EncodeFloat/DecodeFloat    *)
(* are not in the sources: getData(i) is data[offsets[i-1]:offsets[i]]     *)
(* (row_test.go), EncodeInt is 8 big-endian bytes of the value with its     *)
(* sign bit flipped and EncodeFloat 8 big-endian bytes of the payload.      *)
(***************************************************************************)
EXTENDS Integers, Sequences, SequencesExt

CONSTANTS
    Radix,          \* values of a byte
    TInt, TFloat, TString, TDate, TBool   \* types.T of a datum

\* An N-byte two's complement integer: its range, uintN(v) and intN(u).
Lo(n) == -((Radix ^ n) \div 2)
Hi(n) == (Radix ^ n) \div 2 - 1
Fits(n, v) == Lo(n) <= v /\ v <= Hi(n)
Unsigned(n, v) == v % (Radix ^ n)
Signed(n, u) == IF u > Hi(n) THEN u - Radix ^ n ELSE u

LittleEndian(n, u) == [i \in 1..n |-> (u \div (Radix ^ (i - 1))) % Radix]
FromLittleEndian(s) == FoldRight(LAMBDA d, acc : acc * Radix + d, s, 0)
BigEndian8(u) == [i \in 1..8 |-> (u \div (Radix ^ (8 - i))) % Radix]
FromBigEndian8(s) == FoldLeft(LAMBDA acc, d : acc * Radix + d, 0, SubSeq(s, 1, 8))

-----------------------------------------------------------------------------
(* Property rows.                                                          *)

\* Mutant: the width test by magnitude, as if the value were unsigned.
EncodeIntUnsigned(buf, v) ==
    buf \o CASE 0 <= v /\ v < Radix        -> << v >>
             [] 0 <= v /\ v < Radix ^ 2    -> LittleEndian(2, v)
             [] 0 <= v /\ v < Radix ^ 4    -> LittleEndian(4, v)
             [] OTHER                      -> LittleEndian(8, Unsigned(8, v))

\* encodeInt(buf, iVal): the narrowest of int8/16/32/64 that holds iVal,
\* little-endian.
EncodeInt(buf, v) ==
    buf \o CASE Fits(1, v) -> << Unsigned(1, v) >>
             [] Fits(2, v) -> LittleEndian(2, Unsigned(2, v))
             [] Fits(4, v) -> LittleEndian(4, Unsigned(4, v))
             [] OTHER      -> LittleEndian(8, Unsigned(8, v))

\* decodeInt(val): the width is the length; 8 bytes otherwise, and
\* binary.LittleEndian.Uint64 panics on fewer than 8.
DecodeIntPanics(val) == Len(val) \notin {1, 2, 4} /\ Len(val) < 8
DecodeInt(val) ==
    LET n == IF Len(val) \in {1, 2, 4} THEN Len(val) ELSE 8
    IN  Signed(n, FromLittleEndian(SubSeq(val, 1, n)))

\* codec.EncodeFloat / DecodeFloat (not in the sources).
EncodeFloat(buf, f) == buf \o BigEndian8(f)
DecodeFloat(b) == IF Len(b) < 8 THEN [err |-> TRUE] ELSE [err |-> FALSE, v |-> FromBigEndian8(b)]

Fail == [err |-> TRUE]
Panic == [err |-> TRUE, panic |-> TRUE]

\* PropertyEncoder.encodeDatum: the type byte, then the payload.
EncodeDatum(data, value) ==
    LET d == Append(data, value.type)
    IN  CASE value.type = TInt    -> [err |-> FALSE, data |-> EncodeInt(d, value.v)]
          [] value.type = TFloat  -> [err |-> FALSE, data |-> EncodeFloat(d, value.v)]
          [] value.type = TString -> [err |-> FALSE, data |-> d \o value.s]
          [] value.type = TDate   -> [err |-> FALSE, data |-> EncodeInt(d, value.v)]
          [] OTHER                -> Fail

\* PropertyDecoder.decodeColDatum and decodeDate (int32 of decodeInt).
\* An empty propData panics on propData[0].
DecodeColDatum(propData) ==
    LET typ == propData[1]
        rest == Tail(propData)
    IN  CASE propData = << >> -> Panic
          [] typ \in {TInt, TDate} /\ DecodeIntPanics(rest) -> Panic
          [] typ = TInt    -> [err |-> FALSE, v |-> [type |-> TInt, v |-> DecodeInt(rest)]]
          [] typ = TFloat  -> LET f == DecodeFloat(rest)
                              IN  IF f.err THEN Fail
                                  ELSE [err |-> FALSE, v |-> [type |-> TFloat, v |-> f.v]]
          [] typ = TString -> [err |-> FALSE, v |-> [type |-> TString, s |-> rest]]
          [] typ = TDate   -> [err |-> FALSE,
                               v |-> [type |-> TDate, v |-> Signed(4, Unsigned(4, DecodeInt(rest)))]]
          [] OTHER         -> Fail

\* propertySorter: Less compares property IDs, Swap swaps the IDs and the
\* values together.
Less(ps, i, j) == ps.ids[i] < ps.ids[j]

\* Mutant: Swap that leaves the values in place.
SwapIdsOnly(ps, i, j) ==
    [ps EXCEPT !.ids = [@ EXCEPT ![i] = ps.ids[j], ![j] = ps.ids[i]]]

Swap(ps, i, j) ==
    [ps EXCEPT !.ids = [@ EXCEPT ![i] = ps.ids[j], ![j] = ps.ids[i]],
               !.values = [@ EXCEPT ![i] = ps.values[j], ![j] = ps.values[i]]]

\* sort.Sort on at most 12 elements is insertionSort:
\* for i := 1; i < n; i++ { for j := i; j > 0 && Less(j, j-1); j-- { Swap(j, j-1) } }
\* (indices here are 1-based).
RECURSIVE SinkDown(_, _)
SinkDown(ps, j) ==
    IF j > 1 /\ Less(ps, j, j - 1) THEN SinkDown(Swap(ps, j, j - 1), j - 1) ELSE ps

InsertionSort(ps) ==
    FoldLeft(LAMBDA acc, i : SinkDown(acc, i), ps, [i \in 1..Len(ps.ids) |-> i])

\* PropertyEncoder.reform: copy the IDs and values and sort the properties.
\* (The labels are sorted too; labels are carried through unchanged here.)
Reform(propertyIDs, values) == InsertionSort([ids |-> propertyIDs, values |-> values])

\* PropertyEncoder.Encode: encode the sorted values one by one; offsets[i]
\* is uint16(len(data)), the end of value i in data, a 2-byte integer.  An
\* unsupported type fails the call.
Encode(propertyIDs, values) ==
    LET ps == Reform(propertyIDs, values)
        step(acc, i) ==
            IF acc.err THEN acc
            ELSE LET e == EncodeDatum(acc.data, ps.values[i])
                 IN  IF e.err THEN Fail
                     ELSE [acc EXCEPT !.data = e.data,
                                      !.offsets = Append(@, Unsigned(2, Len(e.data)))]
    IN  FoldLeft(step, [err |-> FALSE, ids |-> ps.ids, data |-> << >>,
                        offsets |-> << >>],
                 [i \in 1..Len(ps.ids) |-> i])

\* rowBytes.getData(i) (row_test.go): data[offsets[i-1]:offsets[i]], the
\* bytes of value i; the slice expression panics when the start is past
\* the end.
DataStart(row, i) == IF i = 1 THEN 0 ELSE row.offsets[i - 1]
GetDataPanics(row, i) == DataStart(row, i) > row.offsets[i]
GetData(row, i) == SubSeq(row.data, DataStart(row, i) + 1, row.offsets[i])

\* rowBytes.findProperty(id): the position of id among the sorted IDs, 0 if
\* absent (row_test.go).
FindProperty(row, id) ==
    IF \E i \in 1..Len(row.ids) : row.ids[i] = id
    THEN CHOOSE i \in 1..Len(row.ids) : row.ids[i] = id
    ELSE 0

\* PropertyDecoder.Decode(rowData): for each property of the schema that
\* the row has, getData and decodeColDatum; the first error fails the
\* call.  fromBytes is not in the sources: the row is read back as Encode
\* left it.  Labels are not modelled.
DecodeRow(row, properties) ==
    LET step(acc, id) ==
            LET idx == FindProperty(row, id)
                d == DecodeColDatum(GetData(row, idx))
            IN  IF acc.err \/ idx = 0 THEN acc
                ELSE IF GetDataPanics(row, idx) THEN Panic
                ELSE IF d.err THEN d
                ELSE [acc EXCEPT !.row = @ @@ (id :> d.v)]
    IN  FoldLeft(step, [err |-> FALSE, row |-> << >>], properties)

-----------------------------------------------------------------------------
(* Vertex and edge keys.                                                   *)

Prefix == << 3 >>                       \* "g"
IncomingEdgeSep == 1                    \* 'i'
OutgoingEdgeSep == 2                    \* 'o'
VertexKeyLen == 1 + 8 + 8
EdgeKeyLen == 1 + 8 + 8 + 1 + 8

\* codec.EncodeInt / DecodeInt (not in the sources): memcomparable int64.
EncodeKeyInt(b, v) == b \o BigEndian8(Unsigned(8, v + Radix ^ 8 \div 2))
DecodeKeyInt(b) ==
    IF Len(b) < 8 THEN Fail
    ELSE [err |-> FALSE, v |-> Signed(8, Unsigned(8, FromBigEndian8(b) - Radix ^ 8 \div 2))]

\* key[from:] in Go, 0-based.
From(key, off) == SubSeq(key, off + 1, Len(key))

VertexKey(graphID, vertexID) ==
    EncodeKeyInt(EncodeKeyInt(Prefix, graphID), vertexID)

\* ParseVertexKey and the edge parsers: length check, then one DecodeInt
\* per field, returning at the first error.
ParseVertexKey(key) ==
    IF Len(key) < VertexKeyLen THEN Fail
    ELSE LET g == DecodeKeyInt(From(key, Len(Prefix)))
             v == DecodeKeyInt(From(key, Len(Prefix) + 8))
         IN  IF g.err \/ v.err THEN Fail ELSE [err |-> FALSE, ids |-> << g.v, v.v >>]

IncomingEdgeKey(graphID, src, dst) ==
    EncodeKeyInt(Append(EncodeKeyInt(EncodeKeyInt(Prefix, graphID), dst), IncomingEdgeSep), src)

OutgoingEdgeKey(graphID, src, dst) ==
    EncodeKeyInt(Append(EncodeKeyInt(EncodeKeyInt(Prefix, graphID), src), OutgoingEdgeSep), dst)

\* Mutant: the third field read without skipping the separator byte.
ParseIncomingEdgeKeyNoSep(key) ==
    IF Len(key) < EdgeKeyLen THEN Fail
    ELSE LET g == DecodeKeyInt(From(key, Len(Prefix)))
             d == DecodeKeyInt(From(key, Len(Prefix) + 8))
             s == DecodeKeyInt(From(key, Len(Prefix) + 8 + 8))
         IN  IF g.err \/ d.err \/ s.err THEN Fail
             ELSE [err |-> FALSE, ids |-> << g.v, s.v, d.v >>]

\* ParseIncomingEdgeKey: graphID, dstVertexID, then srcVertexID after the
\* separator; the result is (graphID, src, dst).
ParseIncomingEdgeKey(key) ==
    IF Len(key) < EdgeKeyLen THEN Fail
    ELSE LET g == DecodeKeyInt(From(key, Len(Prefix)))
             d == DecodeKeyInt(From(key, Len(Prefix) + 8))
             s == DecodeKeyInt(From(key, Len(Prefix) + 8 + 8 + 1))
         IN  IF g.err \/ d.err \/ s.err THEN Fail
             ELSE [err |-> FALSE, ids |-> << g.v, s.v, d.v >>]

ParseOutgoingEdgeKey(key) ==
    IF Len(key) < EdgeKeyLen THEN Fail
    ELSE LET g == DecodeKeyInt(From(key, Len(Prefix)))
             s == DecodeKeyInt(From(key, Len(Prefix) + 8))
             d == DecodeKeyInt(From(key, Len(Prefix) + 8 + 8 + 1))
         IN  IF g.err \/ s.err \/ d.err THEN Fail
             ELSE [err |-> FALSE, ids |-> << g.v, s.v, d.v >>]

=============================================================================
