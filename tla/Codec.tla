------------------------------- MODULE Codec --------------------------------
(***************************************************************************)
(* The wire format (wire.rs, the WaveWire derive), the descriptor the      *)
(* wave_db macro emits, and the filters a node evaluates on encoded        *)
(* records with that descriptor alone (query.rs).                          *)
(*                                                                         *)
(* A type is a tree, a value of it a tree of the same shape, and an        *)
(* encoding a sequence of bytes 0 .. Byte - 1: a stack section of a size   *)
(* the type fixes, then a heap section.  The state is a record under       *)
(* construction, its schema and its values.  Floats, chars and UTF-8       *)
(* checking are left out; strings and byte blobs are byte sequences.       *)
(***************************************************************************)
EXTENDS Integers, Sequences, SequencesExt, FiniteSets

CONSTANTS Byte,        \* values of a byte (256)
          SlotBytes,   \* bytes of a length slot (4)
          IdBits,      \* widths of tenant, shard, struct and time in an Id
          Samples,     \* typed values a field may have: <<type, value>>
          Documents,   \* typed values of the engine's own records
          Probes,      \* values a filter compares with
          MaxFields

VARIABLES schema, record
codecVars == <<schema, record>>

\* The shapes of types.
UInt(n) == [k |-> "int", bytes |-> n, signed |-> FALSE]
SInt(n) == [k |-> "int", bytes |-> n, signed |-> TRUE]
Bool == [k |-> "bool"]
IdType == [k |-> "id"]
Str == [k |-> "str"]
Vec(t) == [k |-> "vec", of |-> t]
Opt(t) == [k |-> "opt", of |-> t]
Struct(ts) == [k |-> "struct", fields |-> ts]
Enum(vs) == [k |-> "enum", variants |-> vs]

\* permission.rs and metadata.rs write by hand what the derive would; a user, a
\* group and a time take n bytes.
PermissionGroupId(n) == UInt(n)
PermissionRef(n) == Enum(<< <<Vec(UInt(n))>>, <<PermissionGroupId(n)>> >>)
Metadata(n) == Struct(<<UInt(2 * n), UInt(2 * n), UInt(1), UInt(n), UInt(n),
                        Opt(PermissionRef(n))>>)

\* What data.bin and the journal hold: versioned records, anchors and entries.
VersionedRecord(n) == Struct(<<UInt(2 * n), Vec(UInt(1)), UInt(2 * n), UInt(2 * n)>>)
AnchorKey(n) == UInt(2 * n)
AnchorMode(n) == Enum(<< <<Vec(UInt(1))>>, <<UInt(2 * n)>> >>)
AnchorKind(n) == Enum(<< <<UInt(n), AnchorMode(n), Vec(AnchorKey(n))>>,
                         <<AnchorKey(n), UInt(n)>>, <<UInt(n)>>, <<>>, <<UInt(n)>> >>)
AnchorSlot(n) == Struct(<<AnchorKind(n), Vec(AnchorKey(n))>>)
FileKind == Enum(<< <<>>, <<>>, <<>>, <<>> >>)
JournalEntry(n) == Enum(<< <<AnchorKey(n), AnchorSlot(n)>>, <<VersionedRecord(n)>>,
                           <<AnchorKey(n)>>, <<FileKind, UInt(n), UInt(n)>>,
                           <<UInt(n), UInt(n), Vec(UInt(1))>>, <<UInt(n)>> >>)

\* AnchorSlot's constructors.
AnchorOf(tag, fields) == <<[tag |-> tag, vals |-> fields], <<>> >>
inline(bytes, at) == AnchorOf(0, <<at, [tag |-> 0, vals |-> <<bytes>>], <<>> >>)
pointer(id, at) == AnchorOf(0, <<at, [tag |-> 1, vals |-> <<id>>], <<>> >>)
secondary(primary, marker) == AnchorOf(1, <<primary, marker>>)
primary_tombstone(at) == AnchorOf(2, <<at>>)
secondary_tombstone == AnchorOf(3, <<>>)
heap_ref(block) == AnchorOf(4, <<block>>)

ASSUME CodecLimits ==
    /\ {Byte, SlotBytes, MaxFields} \subseteq Nat \ {0}
    /\ IdBits \in Seq(Nat \ {0}) /\ Byte > 1

RECURSIVE Pow(_, _)
Pow(b, n) == IF n = 0 THEN 1 ELSE b * Pow(b, n - 1)
RECURSIVE Total(_)
Total(s) == IF s = <<>> THEN 0 ELSE Head(s) + Total(Tail(s))

\* to_le_bytes and from_le_bytes.
ToLe(x, n) == [i \in 1..n |-> (x \div Pow(Byte, i - 1)) % Byte]
FromLe(b) == Total([i \in DOMAIN b |-> b[i] * Pow(Byte, i - 1)])
ToNumber(b, signed) ==
    LET u == FromLe(b)
    IN  IF signed /\ 2 * u >= Pow(Byte, Len(b)) THEN u - Pow(Byte, Len(b)) ELSE u

\* Id::new masks each component to its width; the accessors shift back.
IdShift(i) == Pow(2, Total(SubSeq(IdBits, i + 1, Len(IdBits))))
IdRaw(c) == Total([i \in DOMAIN IdBits |-> (c[i] % Pow(2, IdBits[i])) * IdShift(i)])
IdParts(raw) == [i \in DOMAIN IdBits |-> (raw \div IdShift(i)) % Pow(2, IdBits[i])]
IdBytes == CHOOSE n \in 1..Total(IdBits) :
               /\ Pow(Byte, n) >= Pow(2, Total(IdBits))
               /\ Pow(Byte, n - 1) < Pow(2, Total(IdBits))

\* An enum with only field-less variants is its tag.
UnitOnly(t) == \A i \in DOMAIN t.variants : t.variants[i] = <<>>

\* Wire::STACK_SIZE.
RECURSIVE StackSize(_)
StackSizes(ts) == Total([i \in DOMAIN ts |-> StackSize(ts[i])])
StackSize(t) ==
    CASE t.k = "int" -> t.bytes
      [] t.k = "bool" -> 1
      [] t.k = "id" -> IdBytes
      [] t.k \in {"str", "vec"} -> SlotBytes
      [] t.k = "opt" -> 1 + StackSize(t.of)
      [] t.k = "struct" -> StackSizes(t.fields)
      [] t.k = "enum" -> IF UnitOnly(t) THEN 1 ELSE 1 + SlotBytes

\* Wire::FIXED.
RECURSIVE Fixed(_)
Fixed(t) ==
    CASE t.k \in {"int", "bool", "id"} -> TRUE
      [] t.k \in {"str", "vec"} -> FALSE
      [] t.k = "opt" -> Fixed(t.of)
      [] t.k = "struct" -> \A i \in DOMAIN t.fields : Fixed(t.fields[i])
      [] t.k = "enum" -> UnitOnly(t)

\* Wire::heap_size.
RECURSIVE HeapSize(_, _)
HeapSizes(ts, vs) == Total([i \in DOMAIN ts |-> HeapSize(ts[i], vs[i])])
HeapSize(t, v) ==
    CASE t.k \in {"int", "bool", "id"} -> 0
      [] t.k = "str" -> Len(v)
      [] t.k = "vec" -> Total([i \in DOMAIN v |-> StackSize(t.of) + HeapSize(t.of, v[i])])
      [] t.k = "opt" -> IF v = <<>> THEN 0 ELSE HeapSize(t.of, v[1])
      [] t.k = "struct" -> HeapSizes(t.fields, v)
      [] t.k = "enum" -> IF UnitOnly(t) THEN 0
                         ELSE LET ts == t.variants[v.tag + 1]
                              IN  StackSizes(ts) + HeapSizes(ts, v.vals)

-----------------------------------------------------------------------------
\* WireWriter.  An error ends the encoding (the ? operator).
Zeros(n) == [i \in 1..n |-> 0]
PutStack(w, bs) ==
    IF w.err THEN w
    ELSE [w EXCEPT !.buf = [i \in DOMAIN @ |-> IF i > w.pos /\ i <= w.pos + Len(bs)
                                              THEN bs[i - w.pos] ELSE @[i]],
                   !.pos = @ + Len(bs)]
SkipStack(w, n) == IF w.err THEN w ELSE [w EXCEPT !.pos = @ + n]
PutHeap(w, bs) == IF w.err THEN w ELSE [w EXCEPT !.buf = @ \o bs]
MutPutLenSlot(w, n) == PutStack(w, ToLe(n, SlotBytes))
PutLenSlot(w, n) ==
    IF n >= Pow(Byte, SlotBytes) THEN [w EXCEPT !.err = TRUE]
    ELSE PutStack(w, ToLe(n, SlotBytes))

\* with_unit: the stack cursor goes to a fresh region at the end, then back.
OpenUnit(w, n) ==
    IF w.err THEN w ELSE [w EXCEPT !.pos = Len(w.buf), !.buf = @ \o Zeros(n)]
CloseUnit(w, saved) == IF w.err THEN w ELSE [w EXCEPT !.pos = saved]

\* Wire::write_stack of the implementations in wire.rs and of the derive.
RECURSIVE WriteStack(_, _, _)
RECURSIVE WriteFields(_, _, _)
WriteFields(ts, vs, w) ==
    IF ts = <<>> THEN w
    ELSE WriteFields(Tail(ts), Tail(vs), WriteStack(Head(ts), Head(vs), w))
WriteUnit(ts, vs, w) ==
    CloseUnit(WriteFields(ts, vs, OpenUnit(w, StackSizes(ts))), w.pos)
RECURSIVE WriteUnits(_, _, _)
WriteUnits(t, vs, w) ==
    IF vs = <<>> THEN w
    ELSE WriteUnits(t, Tail(vs), WriteUnit(<<t>>, <<Head(vs)>>, w))
WriteStack(t, v, w) ==
    CASE t.k = "int" -> PutStack(w, ToLe(v % Pow(Byte, t.bytes), t.bytes))
      [] t.k = "bool" -> PutStack(w, <<IF v THEN 1 ELSE 0>>)
      [] t.k = "id" -> PutStack(w, ToLe(IdRaw(v), IdBytes))
      [] t.k = "str" -> PutHeap(PutLenSlot(w, Len(v)), v)
      [] t.k = "vec" ->
             LET w1 == PutLenSlot(w, HeapSize(t, v))
             IN  IF Fixed(t.of) THEN WriteUnit([i \in DOMAIN v |-> t.of], v, w1)
                 ELSE WriteUnits(t.of, v, w1)
      [] t.k = "opt" -> IF v = <<>> THEN SkipStack(PutStack(w, <<0>>), StackSize(t.of))
                        ELSE WriteStack(t.of, v[1], PutStack(w, <<1>>))
      [] t.k = "struct" -> WriteFields(t.fields, v, w)
      [] t.k = "enum" ->
             LET w1 == PutStack(w, <<v.tag>>)
             IN  IF UnitOnly(t) THEN w1
                 ELSE WriteUnit(t.variants[v.tag + 1], v.vals, PutLenSlot(w1, HeapSize(t, v)))

\* to_wire: what the writer has when the value is written.
ToWire(t, v) == WriteStack(t, v, [buf |-> Zeros(StackSize(t)), pos |-> 0, err |-> FALSE])

-----------------------------------------------------------------------------
\* WireReader.  A result is a value and the reader after it; err stops.
Bad(r) == [val |-> <<>>, r |-> [r EXCEPT !.err = TRUE]]
TakeStack(r, n) ==
    IF r.err \/ r.pos + n > Len(r.buf) THEN Bad(r)
    ELSE [val |-> SubSeq(r.buf, r.pos + 1, r.pos + n), r |-> [r EXCEPT !.pos = @ + n]]
TakeHeap(r, n) ==
    IF r.err \/ r.heap + n > Len(r.buf) THEN Bad(r)
    ELSE [val |-> SubSeq(r.buf, r.heap + 1, r.heap + n), r |-> [r EXCEPT !.heap = @ + n]]
TakeRegion(r) ==
    LET n == TakeStack(r, SlotBytes)
    IN  IF n.r.err THEN n ELSE TakeHeap(n.r, FromLe(n.val))

\* Wire::read.
RECURSIVE ReadVal(_, _)
RECURSIVE ReadFields(_, _)
Prepend(v, xs) == [val |-> <<v>> \o xs.val, r |-> xs.r]
ReadRest(ts, x) == IF x.r.err THEN Bad(x.r) ELSE Prepend(x.val, ReadFields(ts, x.r))
ReadFields(ts, r) ==
    IF ts = <<>> THEN [val |-> <<>>, r |-> r] ELSE ReadRest(Tail(ts), ReadVal(Head(ts), r))

\* finish_unit, read_unit and from_wire: a unit ends where its region does.
ReadUnitAt(ts, buf, at) ==
    ReadFields(ts, [buf |-> buf, pos |-> at, heap |-> at + StackSizes(ts),
                    err |-> at + StackSizes(ts) > Len(buf)])
EndsAt(x, n) == IF x.r.err \/ x.r.heap # n THEN Bad(x.r) ELSE x
ReadExactly(ts, region) == EndsAt(ReadUnitAt(ts, region, 0), Len(region))
RECURSIVE ReadUnits(_, _, _)
Joined(v, xs) == [val |-> v \o xs.val, err |-> xs.err]
UnitsAfter(t, region, x) ==
    IF x.r.err THEN [val |-> <<>>, err |-> TRUE]
    ELSE Joined(x.val, ReadUnits(t, region, x.r.heap))
ReadUnits(t, region, at) ==
    IF at >= Len(region) THEN [val |-> <<>>, err |-> at # Len(region)]
    ELSE UnitsAfter(t, region, ReadUnitAt(<<t>>, region, at))

\* Elements of fixed size fill their region; the others are units one by one.
FixedVec(x, g, whole) ==
    IF g.r.err \/ x.r.err \/ ~whole THEN Bad(g.r) ELSE [val |-> x.val, r |-> g.r]
UnitVec(xs, g) == IF g.r.err \/ xs.err THEN Bad(g.r) ELSE [val |-> xs.val, r |-> g.r]
ReadVec(t, g, n) ==
    IF ~Fixed(t) THEN UnitVec(ReadUnits(t, g.val, 0), g)
    ELSE IF n = 0 THEN Bad(g.r)
    ELSE FixedVec(ReadFields([i \in 1..(Len(g.val) \div n) |-> t],
                             [buf |-> g.val, pos |-> 0, heap |-> Len(g.val), err |-> FALSE]),
                  g, Len(g.val) % n = 0)
ReadVariant(tag, x, g) ==
    IF x.r.err THEN Bad(g.r) ELSE [val |-> [tag |-> tag, vals |-> x.val], r |-> g.r]
ReadVal(t, r) ==
    IF r.err THEN Bad(r) ELSE
    CASE t.k = "int" -> LET x == TakeStack(r, t.bytes)
                        IN  [x EXCEPT !.val = ToNumber(@, t.signed)]
      [] t.k = "bool" -> LET x == TakeStack(r, 1)
                         IN  IF x.r.err \/ x.val[1] > 1 THEN Bad(r)
                             ELSE [x EXCEPT !.val = (@[1] = 1)]
      [] t.k = "id" -> LET x == TakeStack(r, IdBytes)
                       IN  [x EXCEPT !.val = IdParts(FromLe(@))]
      [] t.k = "str" -> TakeRegion(r)
      [] t.k = "vec" -> ReadVec(t.of, TakeRegion(r), StackSize(t.of))
      [] t.k = "opt" ->
             LET f == TakeStack(r, 1)
                 x == ReadVal(t.of, f.r)
             IN  IF f.r.err \/ f.val[1] > 1 THEN Bad(r)
                 ELSE IF f.val[1] = 0 THEN [TakeStack(f.r, StackSize(t.of)) EXCEPT !.val = <<>>]
                 ELSE [x EXCEPT !.val = <<@>>]
      [] t.k = "struct" -> ReadFields(t.fields, r)
      [] t.k = "enum" ->
             LET f == TakeStack(r, 1)
                 g == IF UnitOnly(t) THEN f ELSE TakeRegion(f.r)
             IN  IF f.r.err \/ g.r.err \/ f.val[1] >= Len(t.variants) THEN Bad(r)
                 ELSE IF UnitOnly(t) THEN [f EXCEPT !.val = [tag |-> @[1], vals |-> <<>>]]
                 ELSE ReadVariant(f.val[1], ReadExactly(t.variants[f.val[1] + 1], g.val), g)

-----------------------------------------------------------------------------
\* descriptor.rs: what the engine knows of the i-th field.
FieldKind(t) ==
    CASE t.k = "str" -> "Str"
      [] t.k = "vec" -> IF t.of = UInt(1) THEN "Bytes" ELSE "List"
      [] t.k = "int" -> "Number"
      [] t.k = "bool" -> "Bool"
      [] t.k = "id" -> "Id"
      [] t.k = "opt" -> "Option"
      [] OTHER -> "Other"
StackOffset(ts, i) == StackSizes(SubSeq(ts, 1, i - 1))
Heapable(t) == ~Fixed(t)

\* heap_bytes: the payload of a heap field.  A length slot gives the region of
\* a string, a blob or a list; other heap fields cannot be hopped over.
Hoppable(t) == FieldKind(t) \in {"Str", "Bytes", "List"}
RegionLen(ts, body, i) ==
    FromLe(SubSeq(body, StackOffset(ts, i) + 1, StackOffset(ts, i) + SlotBytes))
HeapFields(ts, range) == {i \in range : Heapable(ts[i])}
Hop(ts, body, fs) == Total([j \in 1..Len(ts) |-> IF j \in fs THEN RegionLen(ts, body, j) ELSE 0])
Nowhere == [found |-> FALSE, bytes |-> <<>>]
Slice(body, from, n) ==
    IF from >= 0 /\ from + n <= Len(body)
    THEN [found |-> TRUE, bytes |-> SubSeq(body, from + 1, from + n)] ELSE Nowhere
MutHeapBytes(ts, body, i) ==
    LET before == HeapFields(ts, 1..(i - 1))
    IN  Slice(body, StackSizes(ts) + Hop(ts, body, before), RegionLen(ts, body, i))
HeapBytes(ts, body, i) ==
    LET before == HeapFields(ts, 1..(i - 1))
        after == HeapFields(ts, (i + 1)..Len(ts))
        n == RegionLen(ts, body, i)
    IN  CASE \A j \in before : Hoppable(ts[j]) ->
                 Slice(body, StackSizes(ts) + Hop(ts, body, before), n)
          [] \A j \in after : Hoppable(ts[j]) ->
                 Slice(body, Len(body) - Hop(ts, body, after) - n, n)
          [] OTHER -> Nowhere

\* Orderings of numbers, flags and byte strings; "none" where there is none.
Order(a, b) == IF a < b THEN "lt" ELSE IF a = b THEN "eq" ELSE "gt"
Before(a, b) == \E i \in 1..Len(b) : /\ SubSeq(a, 1, i - 1) = SubSeq(b, 1, i - 1)
                                     /\ i > Len(a) \/ (i <= Len(a) /\ a[i] < b[i])
OrderBytes(a, b) == IF a = b THEN "eq" ELSE IF Before(a, b) THEN "lt" ELSE "gt"
OrderFlags(a, b) == Order(IF a THEN 1 ELSE 0, IF b THEN 1 ELSE 0)

\* compare: the i-th field of an encoded record against a query value.
Compare(ts, body, i, q) ==
    LET kind == FieldKind(ts[i])
        at == StackOffset(ts, i)
        slot == SubSeq(body, at + 1, at + StackSize(ts[i]))
    IN  CASE Len(body) < StackSizes(ts) -> "none"
          [] kind = q.kind /\ kind \in {"Str", "Bytes"} ->
                 LET h == HeapBytes(ts, body, i)
                 IN  IF h.found THEN OrderBytes(h.bytes, q.val) ELSE "none"
          [] kind = q.kind /\ kind = "Bool" -> OrderFlags(slot[1] # 0, q.val)
          [] kind = q.kind /\ kind = "Number" ->
                 Order(ToNumber(slot, ts[i].signed), q.val)
          [] OTHER -> "none"

\* eval.  Field 0 is a name the descriptor does not have.
RECURSIVE Eval(_, _, _)
Matches(op) ==
    CASE op = "Eq" -> {"eq"} [] op = "Ne" -> {"lt", "gt"}
      [] op = "Gt" -> {"gt"} [] op = "Gte" -> {"gt", "eq"}
      [] op = "Lt" -> {"lt"} [] op = "Lte" -> {"lt", "eq"}
Eval(ts, body, e) ==
    CASE e.op = "All" -> TRUE
      [] e.op = "And" -> Eval(ts, body, e.left) /\ Eval(ts, body, e.right)
      [] e.op = "Or" -> Eval(ts, body, e.left) \/ Eval(ts, body, e.right)
      [] e.op = "Not" -> ~Eval(ts, body, e.inner)
      [] OTHER -> e.field > 0 /\ Compare(ts, body, e.field, e.value) \in Matches(e.op)

\* frame::encode and frame::decode.  The length is cast to its width.
FrameEncode(bs) == ToLe(Len(bs) % Pow(Byte, SlotBytes), SlotBytes) \o bs
Framed(x, rest) ==
    IF x.r.err THEN [st |-> "err"] ELSE [st |-> "some", val |-> x.val[1], rest |-> rest]
FrameDecode(t, buf) ==
    LET n == FromLe(SubSeq(buf, 1, SlotBytes))
    IN  IF Len(buf) < SlotBytes THEN [st |-> "more"]
        ELSE IF Len(buf) < SlotBytes + n THEN [st |-> "more"]
        ELSE Framed(ReadExactly(<<t>>, SubSeq(buf, SlotBytes + 1, SlotBytes + n)),
                    SubSeq(buf, SlotBytes + n + 1, Len(buf)))

-----------------------------------------------------------------------------
\* A record is declared field by field, or is one of the engine's own.
CodecInit == schema = <<>> /\ record = <<>>
AddField == \E s \in Samples :
    /\ Len(schema) < MaxFields
    /\ Range(schema) \subseteq {t[1] : t \in Samples}
    /\ schema' = Append(schema, s[1])
    /\ record' = Append(record, s[2])
OwnRecord == \E d \in Documents :
    /\ schema = <<>>
    /\ schema' = <<d[1]>> /\ record' = <<d[2]>>
CodecNext == AddField \/ OwnRecord

Whole == Struct(schema)
Encoded == ToWire(Whole, record)

Cuts(b) == Prefixes(b) \ {b}
DecodedFrom(bs) == [b \in bs |-> ReadExactly(<<Whole>>, b)]
FrameCut(frame) ==
    LET cut == [b \in Cuts(frame) \cup {frame \o frame} |-> FrameDecode(Whole, b)]
    IN  /\ cut[frame \o frame] = [st |-> "some", val |-> record, rest |-> frame]
        /\ \A b \in Cuts(frame) : cut[b].st = "more"
EncodingExact(e) ==
    IF e.err
    THEN \E i \in DOMAIN schema : HeapSize(schema[i], record[i]) >= Pow(Byte, SlotBytes)
    ELSE LET wrong == Cuts(e.buf) \cup {Append(e.buf, 0)}
             got == DecodedFrom(wrong \cup {e.buf})
         IN  /\ Len(e.buf) = StackSize(Whole) + HeapSize(Whole, record)
             /\ ~got[e.buf].r.err /\ got[e.buf].val = <<record>>
             /\ \A b \in wrong : got[b].r.err
             /\ Len(e.buf) < Pow(Byte, SlotBytes) => FrameCut(FrameEncode(e.buf))
\* Decoding gives back the record and takes neither less nor more than its
\* bytes; the size promised is the size written; and a region too long for its
\* length slot is an error, never a truncated length (to_wire, from_wire).  A
\* stream of frames is cut where the frames end, however it is delivered
\* (frame::decode), provided the payload's length fits the frame's slot.
WireExact == EncodingExact(Encoded)

\* The order a comparison of the decoded field would give.
Reference(i, q) ==
    LET t == schema[i]
        v == record[i]
        Opaque(range) == \E j \in HeapFields(schema, range) : ~Hoppable(schema[j])
    IN  CASE FieldKind(t) # q.kind -> "none"
          [] q.kind \in {"Str", "Bytes"} ->
                 IF Opaque(1..(i - 1)) /\ Opaque((i + 1)..Len(schema)) THEN "none"
                 ELSE OrderBytes(v, q.val)
          [] q.kind = "Bool" -> OrderFlags(v, q.val)
          [] q.kind = "Number" -> Order(v, q.val)
          [] OTHER -> "none"

\* A filter evaluated on the bytes gives what it would give on the decoded
\* field.  A string or blob is out of reach only between two heap fields whose
\* lengths the descriptor does not give; such a comparison is false (eval,
\* compare, heap_bytes).
QueryExact ==
    ~Encoded.err =>
        \A i \in DOMAIN schema, q \in Probes, op \in {"Eq", "Ne", "Gt", "Gte", "Lt", "Lte"} :
            LET e == [op |-> op, field |-> i, value |-> q]
            IN  /\ Eval(schema, Encoded.buf, e) = (Reference(i, q) \in Matches(op))
                /\ Eval(schema, Encoded.buf, [op |-> "Not", inner |-> e]) =
                       ~(Reference(i, q) \in Matches(op))
=============================================================================
