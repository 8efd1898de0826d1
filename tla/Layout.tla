------------------------------- MODULE Layout -------------------------------
(***************************************************************************)
(* ByteRepr: the bytes that the implementations generated by the derive    *)
(* macro write for a value, and what they read back.                       *)
(*                                                                         *)
(* A type is a tree of records.  Its fields come in two parts: the fixed   *)
(* parts of all fields at offsets known when the macro runs (numbers,      *)
(* flags of options, lengths of strings and vectors), then the variable    *)
(* parts, at a running offset `byte_ptr`.  A value of a scalar is its      *)
(* sequence of bytes, Some(x) is <<x>> and None is << >>.                  *)
(***************************************************************************)
EXTENDS Integers, SequencesExt

CONSTANTS
    MaxString,      \* the length assumed of a string for MAX_BYTE_LEN, 1020
    MaxVec,         \* the same for a vector, 1000
    MaxPacketData   \* MAX_PACKET_DATA_LEN, 1024

ASSUME LayoutAssumption == {MaxString, MaxVec, MaxPacketData} \subseteq Nat

-----------------------------------------------------------------------------
(* Types.  Struct and Enum are user types: a field of such a type, or of a *)
(* type parameter, is Delegated to the type's own implementation.          *)

Scalar(n) == [kind |-> "scalar", len |-> n]         \* bool, u8, ..., i128, f64
Text == [kind |-> "string"]
Option(t) == [kind |-> "option", of |-> t]
Cow(t) == [kind |-> "cow", of |-> t]
Vec(t) == [kind |-> "vec", of |-> t]
Array(t, n) == [kind |-> "array", of |-> t, len |-> n]
Delegated(t) == IF t.kind = "delegated" THEN t ELSE [kind |-> "delegated", of |-> t]
Struct(fields) == [kind |-> "struct", fields |-> fields]
Enum(variants) == [kind |-> "enum", variants |-> variants]

\* An enum of 2 to 256 variants starts with one byte that tells the variant.
VariantLen(t) == IF t.kind = "enum" /\ Len(t.variants) > 1 THEN 1 ELSE 0

\* The fields of the implementation for t: those of a struct or of the variant
\* of a value, else t itself.  The implementations for Option<T>, Cow<T>,
\* [T; N] and Vec<T> are generic: they delegate to the one of T.
Fields(t, v) ==
    CASE t.kind = "struct" -> t.fields
      [] t.kind = "enum" -> t.variants[v.variant]
      [] t.kind \in {"scalar", "string"} -> <<t>>
      [] OTHER -> <<[t EXCEPT !.of = Delegated(@)]>>

FieldValues(t, v) ==
    CASE t.kind = "struct" -> v
      [] t.kind = "enum" -> v.fields
      [] OTHER -> <<v>>

-----------------------------------------------------------------------------
(* Lengths.                                                                *)

RECURSIVE FixedBytes(_), IsStatic(_), ByteLen(_, _), LenBound(_, _)

\* ByteLen::fixed_bytes: how long the fixed part of a field is.
FixedBytes(t) ==
    CASE t.kind = "scalar" -> t.len
      [] t.kind \in {"string", "vec"} -> 4
      [] t.kind = "option" -> 1
      [] t.kind = "cow" -> FixedBytes(t.of)
      [] OTHER -> 0

\* ByteLen::is_static: the fixed part is all there is.
IsStatic(t) ==
    \/ t.kind = "scalar"
    \/ t.kind = "cow" /\ IsStatic(t.of)

Total(term(_), n) == FoldLeft(LAMBDA sum, i : sum + term(i), 0, [i \in 1 .. n |-> i])

\* byte_len
ByteLen(t, v) ==
    CASE t.kind = "scalar" -> t.len
      [] t.kind = "string" -> 4 + Len(v)
      [] t.kind \in {"cow", "delegated"} -> ByteLen(t.of, v)
      [] t.kind = "option" -> 1 + IF v = << >> THEN 0 ELSE ByteLen(t.of, v[1])
      [] t.kind \in {"vec", "array"} ->
            FixedBytes(t) + Total(LAMBDA i : ByteLen(t.of, v[i]), Len(v))
      [] OTHER ->
            LET fields == Fields(t, v)
                values == FieldValues(t, v)
            IN  VariantLen(t) + Total(LAMBDA i : ByteLen(fields[i], values[i]), Len(fields))

ExtremeFaulty(which, lens) == Min(lens)     \* lowest_max_len copied from lowest_min_len

Extreme(which, lens) == IF which = "min" THEN Min(lens) ELSE Max(lens)

\* MIN_BYTE_LEN and MAX_BYTE_LEN.
LenBound(t, which) ==
    LET sum(ts) == Total(LAMBDA i : LenBound(ts[i], which), Len(ts))
        sums == {sum(t.variants[i]) : i \in DOMAIN t.variants}
    IN  CASE t.kind = "scalar" -> t.len
          [] t.kind = "string" -> 4 + IF which = "min" THEN 0 ELSE MaxString
          [] t.kind = "option" -> 1 + IF which = "min" THEN 0 ELSE LenBound(t.of, which)
          [] t.kind = "vec" -> 4 + IF which = "min" THEN 0 ELSE MaxVec * LenBound(t.of, which)
          [] t.kind = "array" -> t.len * LenBound(t.of, which)
          [] t.kind \in {"cow", "delegated"} -> LenBound(t.of, which)
          [] t.kind = "struct" -> sum(t.fields)
          [] t.kind = "enum" -> VariantLen(t) + Extreme(which, sums)

-----------------------------------------------------------------------------
(* write_to_bytes, on a record of the buffer, byte_ptr and whether all     *)
(* writes so far had room.  An offset is static, or byte_ptr itself.       *)

Dynamic == -1

StaticOffsetFaulty(start, fields, k) ==     \* the context skips a Cow
    start + Total(LAMBDA i : IF fields[i].kind = "cow" THEN 0 ELSE FixedBytes(fields[i]),
                  k - 1)

\* The start of the fixed part of the k-th field.
StaticOffset(start, fields, k) == start + Total(LAMBDA i : FixedBytes(fields[i]), k - 1)

WordFaulty(n) == <<n % 256, n \div 256>>     \* the length as a u16

\* u32::to_le_bytes, for the numbers below 256^2.
Word(n) == <<n % 256, n \div 256, 0, 0>>

Put(w, offset, bytes) ==
    LET at == IF offset = Dynamic THEN w.ptr ELSE offset
        end == at + Len(bytes)
    IN  IF ~ w.ok \/ end > Len(w.buffer)
        THEN [w EXCEPT !.ok = FALSE]
        ELSE [w EXCEPT
                !.buffer = [k \in DOMAIN @ |->
                               IF k \in at + 1 .. end THEN bytes[k - at] ELSE @[k]],
                !.ptr = IF offset = Dynamic THEN end ELSE @]

RECURSIVE WriteVariable(_, _, _, _), WriteValue(_, _, _)

\* write_fixed_part
WriteFixed(w, t, v, offset) ==
    CASE t.kind = "scalar" -> Put(w, offset, v)
      [] t.kind = "cow" /\ IsStatic(t) -> Put(w, offset, v)
      [] t.kind = "option" -> Put(w, offset, IF v = << >> THEN <<0>> ELSE <<1>>)
      [] t.kind \in {"string", "vec"} -> Put(w, offset, Word(Len(v)))
      [] OTHER -> w

\* write_variable_part
WriteVariable(w, t, v, offset) ==
    CASE t.kind = "scalar" -> w
      [] t.kind = "string" -> Put(w, Dynamic, v)
      [] t.kind = "cow" ->
            WriteVariable(WriteFixed(w, t.of, v, offset), t.of, v, offset)
      [] t.kind = "option" ->
            IF v = << >> THEN w
            ELSE WriteVariable(WriteFixed(w, t.of, v[1], Dynamic), t.of, v[1], Dynamic)
      [] t.kind \in {"vec", "array"} ->
            FoldLeft(LAMBDA x, item : WriteValue(x, t.of, item), w, v)
      [] OTHER -> WriteValue(w, t, v)

\* write_to_bytes of the type's own implementation, on the bytes from byte_ptr
\* on.  An enum writes its variant last.
WriteValue(w, type, v) ==
    LET t == IF type.kind = "delegated" THEN type.of ELSE type
        fields == Fields(t, v)
        values == FieldValues(t, v)
        start == w.ptr + VariantLen(t)
        offset(k) == StaticOffset(start, fields, k)
        all == [k \in DOMAIN fields |-> k]
        fixed == FoldLeft(LAMBDA x, k : WriteFixed(x, fields[k], values[k], offset(k)), w, all)
        variable == FoldLeft(
            LAMBDA x, k : WriteVariable(x, fields[k], values[k], offset(k)),
            [fixed EXCEPT !.ptr = offset(Len(fields) + 1)], all)
        whole == IF VariantLen(t) = 0 THEN variable
                 ELSE Put(variable, w.ptr, <<v.variant - 1>>)
    IN  [whole EXCEPT !.ptr = w.ptr + ByteLen(t, v)]

-----------------------------------------------------------------------------
(* from_bytes: the value found and byte_ptr after it.  Reading past the    *)
(* end leaves byte_ptr past the end, which stands for SliceTooShort.       *)

Slice(bytes, at, n) == IF at + n <= Len(bytes) THEN SubSeq(bytes, at + 1, at + n) ELSE << >>

Number(bytes, at) ==
    LET word == Slice(bytes, at, 4)
    IN  IF word = << >> THEN 0
        ELSE word[1] + 256 * (word[2] + 256 * (word[3] + 256 * word[4]))

RECURSIVE ReadField(_, _, _, _), ReadItems(_, _, _, _), ReadValue(_, _, _)

\* read_fixed_part and read_variable_part: reading changes nothing but
\* byte_ptr, so the two can be joined.
ReadField(bytes, t, offset, ptr) ==
    LET at == IF offset = Dynamic THEN ptr ELSE offset
        after(n) == IF offset = Dynamic THEN ptr + n ELSE ptr
    IN  CASE t.kind = "scalar" ->
                [value |-> Slice(bytes, at, t.len), ptr |-> after(t.len)]
          [] t.kind = "string" ->
                LET len == Number(bytes, at)
                IN  [value |-> Slice(bytes, after(4), len), ptr |-> after(4) + len]
          [] t.kind = "cow" -> ReadField(bytes, t.of, offset, ptr)
          [] t.kind = "option" ->
                IF Slice(bytes, at, 1) # <<1>>
                THEN [value |-> << >>, ptr |-> after(1)]
                ELSE LET inner == ReadField(bytes, t.of, Dynamic, after(1))
                     IN  [value |-> <<inner.value>>, ptr |-> inner.ptr]
          [] t.kind = "vec" -> ReadItems(bytes, t.of, Number(bytes, at), after(4))
          [] t.kind = "array" -> ReadItems(bytes, t.of, t.len, ptr)
          [] OTHER -> ReadValue(bytes, t, ptr)

\* n items, or those before the end of the bytes.
ReadItems(bytes, t, n, ptr) ==
    IF n = 0 \/ ptr > Len(bytes)
    THEN [value |-> << >>, ptr |-> ptr]
    ELSE LET first == ReadValue(bytes, t, ptr)
             others == ReadItems(bytes, t, n - 1, first.ptr)
         IN  [value |-> <<first.value>> \o others.value, ptr |-> others.ptr]

\* from_bytes of the type's own implementation.
ReadValue(bytes, type, ptr) ==
    LET t == IF type.kind = "delegated" THEN type.of ELSE type
        variant == IF VariantLen(t) = 0 \/ ptr >= Len(bytes) THEN 1 ELSE bytes[ptr + 1] + 1
        fields == Fields(t, [variant |-> variant])
        offset(k) == StaticOffset(ptr + VariantLen(t), fields, k)
        read == FoldLeft(
            LAMBDA x, k :
                LET field == ReadField(bytes, fields[k], offset(k), x.ptr)
                IN  [value |-> Append(x.value, field.value), ptr |-> field.ptr],
            [value |-> << >>, ptr |-> offset(Len(fields) + 1)],
            [k \in DOMAIN fields |-> k])
        value == CASE t.kind = "struct" -> read.value
                   [] t.kind = "enum" -> [variant |-> variant, fields |-> read.value]
                   [] OTHER -> read.value[1]
    IN  IF t.kind = "enum" /\ variant \notin DOMAIN t.variants      \* InvalidValue
        THEN [value |-> << >>, ptr |-> Len(bytes) + 1]
        ELSE IF read.ptr > Len(bytes) THEN read
        ELSE [value |-> value, ptr |-> ptr + ByteLen(t, value)]

-----------------------------------------------------------------------------
(* Packets.                                                                *)

PacketAckType == Struct(<<Scalar(2), Scalar(2), Scalar(4), Scalar(2), Scalar(4)>>)

PacketType(message) ==
    Struct(<<Delegated(PacketAckType), Scalar(1), Scalar(1), Vec(Delegated(message))>>)

\* MAX_PACKET_LEN less the four bytes of the checksum: the room of a packet.
PacketRoom == LenBound(PacketAckType, "max") + 2 + 4 + MaxPacketData

IncludedFaulty(message, queue) ==       \* one message more than fits
    LET total(n) == Total(LAMBDA i : ByteLen(message, queue[i]), n)
    IN  Max({0} \cup {n \in 1 .. Len(queue) : total(n - 1) <= MaxPacketData})

\* flush_messages: how many messages of a queue go into the next packet.
Included(message, queue) ==
    LET total(n) == Total(LAMBDA i : ByteLen(message, queue[i]), n)
    IN  Max({n \in 0 .. Len(queue) : total(n) <= MaxPacketData})

-----------------------------------------------------------------------------
(* write_many followed by read_many: values of one type are written into a *)
(* buffer, one after the other, and what was written is read back.         *)

CONSTANT Cases      \* inputs: a type, values to write, the room in the
                    \* buffer, and whether the value is a packet of flush_messages

Stale == 9          \* what the buffer holds from earlier uses

VARIABLES
    input,          \* what is written, an element of Cases
    buffer,         \* its bytes
    ptr,            \* where write_many or read_many is
    count,          \* how many values were written
    read,           \* the values read
    phase

vars == <<input, buffer, ptr, count, read, phase>>

Init ==
    /\ input \in Cases
    /\ buffer = [k \in 1 .. input.room |-> Stale]
    /\ ptr = 0
    /\ count = 0
    /\ read = << >>
    /\ phase = "writing"

type == input.type

values == input.values

Room == Len(buffer) - ptr

Written == WriteValue([buffer |-> buffer, ptr |-> ptr, ok |-> TRUE], type, values[count + 1])

NextIsWritten ==
    /\ count < Len(values)
    /\ Room >= ByteLen(type, values[count + 1])
    /\ Written.ok

WriteOne ==
    /\ phase = "writing"
    /\ NextIsWritten
    /\ buffer' = Written.buffer
    /\ ptr' = Written.ptr
    /\ count' = count + 1
    /\ UNCHANGED <<input, read, phase>>

\* All values are written, or the next one does not fit.  The caller goes on
\* with the bytes that were written.
WriteEnds ==
    /\ phase = "writing"
    /\ ~ NextIsWritten
    /\ phase' = "reading"
    /\ buffer' = SubSeq(buffer, 1, ptr)
    /\ ptr' = 0
    /\ UNCHANGED <<input, count, read>>

MoreToRead == Len(buffer) > ptr /\ Room >= LenBound(type, "min")

ReadOne ==
    /\ phase = "reading"
    /\ MoreToRead
    /\ LET next == ReadValue(buffer, type, ptr)
       IN  /\ phase' = IF next.ptr > Len(buffer) THEN "failed" ELSE phase
           /\ ptr' = next.ptr
           /\ read' = IF next.ptr > Len(buffer) THEN read ELSE Append(read, next.value)
    /\ UNCHANGED <<input, buffer, count>>

ReadEnds ==
    /\ phase = "reading"
    /\ ~ MoreToRead
    /\ phase' = "done"
    /\ UNCHANGED <<input, buffer, ptr, count, read>>

Next == WriteOne \/ WriteEnds \/ ReadOne \/ ReadEnds

Spec == Init /\ [][Next]_vars

-----------------------------------------------------------------------------
(* Properties.                                                             *)

\* byte_repr.rs:62-73, lib.rs:711-719 (test_bitrepr_roundtrip): read_many returns
\* the values that write_many wrote, and reads all their bytes.
ReadsBack ==
    /\ phase # "failed"
    /\ phase = "done" => read = SubSeq(values, 1, count) /\ ptr = Len(buffer)

\* byte_repr.rs:35: write_to_bytes writes byte_len() bytes, no more (the bytes
\* behind stay as they are) and no fewer (no stale byte remains).
WritesItsLength ==
    [][WriteOne =>
          \A k \in DOMAIN buffer :
              IF k \in ptr + 1 .. ptr + ByteLen(type, values[count + 1])
              THEN buffer'[k] # Stale
              ELSE buffer'[k] = buffer[k]]_vars

\* byte_repr.rs:32-34: MIN_BYTE_LEN and MAX_BYTE_LEN bound the length of every
\* value whose strings and vectors keep to the assumed lengths.
LengthsBounded ==
    \A k \in DOMAIN values :
        ByteLen(type, values[k]) \in LenBound(type, "min") .. LenBound(type, "max")

\* inner.rs:374-402, 447-455: the messages that go into one packet fit the buffer
\* of the socket together with the header, so writing a packet never fails.
PacketsFit ==
    phase # "writing" /\ input.packet => count = Len(values)

=============================================================================
