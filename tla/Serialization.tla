---------------------------- MODULE Serialization ----------------------------
(* Values written to and read from payloads (src/src/serialization.rs) and  *)
(* the payload reader (src/src/zbytes.rs).                                  *)
(*                                                                          *)
(* A payload is produced by one ze_serialize_<T>, or by a serializer and    *)
(* any number of ze_serializer_serialize_<T>; it then travels, and what the *)
(* receiving application holds is that payload, a part of it, or bytes      *)
(* another program made.  The receiver reads it in one ze_deserialize_<T>,  *)
(* through a deserializer, or byte by byte through a reader.                *)
(*                                                                          *)
(* A byte has Base values where the code has 256.  The numeric types differ *)
(* only in their width: uint8 stands for the one-byte types, uint16 for the *)
(* wider ones, float and double included.                                   *)
EXTENDS Integers, Sequences, FiniteSets, FiniteSetsExt, SequencesExt

CONSTANTS Base,       \* values of a byte; the upper half marks "more" in a VarInt
          Items,      \* the values the sender serializes
          Foreign,    \* byte strings another program may have sent
          MaxItems,   \* values in one payload
          MaxReads,   \* calls the receiver makes with one cursor
          MaxVarInt,  \* groups a VarInt<usize> may have
          Offset,     \* offsets passed to z_bytes_reader_seek
          MaxLen,     \* largest buffer passed to z_bytes_reader_read
          None, Kept, Gravestone

ASSUME BaseAssumption == Base \in Nat /\ Base >= 4 /\ Base % 2 = 0
ASSUME LimitsAssumption == {MaxItems, MaxReads, MaxVarInt, MaxLen} \subseteq Nat

VARIABLES ser,     \* the owned serializer: None, or what was written
          payload, \* the z_owned_bytes_t at the receiver: None, or its bytes
          cur,     \* the receiver's ze_deserializer_t or z_bytes_reader_t
          reads,   \* the results of the calls made with cur
          one      \* the result of the last ze_deserialize_<T>
vars == <<ser, payload, cur, reads, one>>

Byte == 0..(Base - 1)
Half == Base \div 2
Number == {"uint8", "uint16", "bool"}
OwnedKind == {"slice", "string"}

(* str::from_utf8: bytes of the lower half are characters, and the model    *)
(* has no character of several bytes.                                       *)
IsText(b) == \A i \in DOMAIN b : b[i] < Half

------------------------------------------------------------------------------
(* The formats of zenoh_ext: fixed-width little-endian numbers, and byte    *)
(* strings after their length as a variable-length integer, whose groups    *)
(* but the last are marked.                                                 *)
VarInt[n \in Nat] == IF n < Half THEN <<n>>
                     ELSE <<Half + (n % Half)>> \o VarInt[n \div Half]

Encode(item) ==
    CASE item.kind = "uint8" -> <<item.val>>
      [] item.kind = "uint16" -> <<item.val % Base, item.val \div Base>>
      [] item.kind = "bool" -> IF item.val THEN <<1>> ELSE <<0>>
      [] item.kind \in OwnedKind -> VarInt[Len(item.val)] \o item.val
      [] item.kind = "length" -> VarInt[item.val]

(* The values of the types, and the lengths that fit a usize.               *)
Item == [kind : {"uint8"}, val : Byte] \cup [kind : {"uint16"}, val : 0..(Base * Base - 1)]
          \cup [kind : {"bool"}, val : BOOLEAN]
          \cup [kind : OwnedKind, val : Seq(Byte)] \cup [kind : {"length"}, val : Nat]

ASSUME ItemsAssumption ==
    \A item \in Items :
      /\ item \in Item
      /\ item.kind \in OwnedKind => Len(VarInt[Len(item.val)]) <= MaxVarInt
      /\ item.kind = "length" => Len(VarInt[item.val]) <= MaxVarInt
ASSUME BytesAssumption == Foreign \subseteq Seq(Byte) /\ Offset \subseteq Int
ASSUME NoneAssumption == None \notin [type : {"deserializer", "reader"}, pos : Nat]

Error == [ok |-> FALSE, val |-> None, used |-> 0]
Decoded(v, n) == [ok |-> TRUE, val |-> v, used |-> n]

(* The number whose groups these are, the least significant first.         *)
Value[groups \in Seq(Byte)] ==
    IF groups = <<>> THEN 0 ELSE (groups[1] % Half) + Half * Value[Tail(groups)]

(* What a deserializer makes of the bytes in front of it, and how many it   *)
(* uses.                                                                    *)
DecodeVarInt(b) ==
    LET last == {i \in DOMAIN b : b[i] < Half}
    IN IF last = {} \/ Min(last) > MaxVarInt THEN Error
       ELSE Decoded(Value[SubSeq(b, 1, Min(last))], Min(last))

(* Slip: the length prefix is not compared with what is left.               *)
DecodeTrustingLength(b) ==
    LET len == DecodeVarInt(b)
    IN IF ~len.ok THEN Error
       ELSE Decoded(SubSeq(b, len.used + 1, Min({len.used + len.val, Len(b)})), len.used + len.val)

DecodeBytes(b) ==
    LET len == DecodeVarInt(b)
    IN IF ~len.ok \/ len.used + len.val > Len(b) THEN Error
       ELSE Decoded(SubSeq(b, len.used + 1, len.used + len.val), len.used + len.val)

DecodeNumber(b, width) ==
    IF Len(b) < width THEN Error
    ELSE Decoded(IF width = 1 THEN b[1] ELSE b[1] + Base * b[2], width)

DecodeBool(b) == LET n == DecodeNumber(b, 1)
                 IN IF n.ok /\ n.val \in {0, 1} THEN Decoded(n.val = 1, 1) ELSE Error

DecodeText(b) == LET s == DecodeBytes(b)
                 IN IF s.ok /\ IsText(s.val) THEN s ELSE Error

Decode(kind, b) ==
    CASE kind = "uint8" -> DecodeNumber(b, 1)
      [] kind = "uint16" -> DecodeNumber(b, 2)
      [] kind = "bool" -> DecodeBool(b)
      [] kind = "slice" -> DecodeBytes(b)
      [] kind = "string" -> DecodeText(b)
      [] kind = "length" -> DecodeVarInt(b)

------------------------------------------------------------------------------
(* The sender.  A text that is not UTF-8 is refused with Z_EUTF8: by a      *)
(* serializer without writing anything, by ze_serialize_str and its         *)
(* siblings with an empty payload.                                          *)
Refused(item) == item.kind = "string" /\ ~IsText(item.val)

Written(bytes, items) == [bytes |-> bytes, items |-> items, whole |-> TRUE]
Empty == Written(<<>>, <<>>)

Init == ser = None /\ payload = None /\ cur = None /\ reads = <<>> /\ one = None

ze_serializer_empty ==
    /\ ser = None /\ payload = None
    /\ ser' = Empty
    /\ UNCHANGED <<payload, cur, reads, one>>

(* ZSerializer::serialize.                                                  *)
Serialize(item) ==
    /\ ser # None /\ Len(ser.items) < MaxItems
    /\ ser' = Written(ser.bytes \o Encode(item), Append(ser.items, item))
    /\ UNCHANGED <<payload, cur, reads, one>>

ze_serializer_serialize_arithmetic(item) == item.kind \in Number /\ Serialize(item)

ze_serializer_serialize_slice(item) == item.kind = "slice" /\ Serialize(item)

(* Slip: the text is written although the call fails.                       *)
SerializeThenCheck(item) ==
    /\ item.kind = "string"
    /\ ser # None /\ Len(ser.items) < MaxItems
    /\ ser' = Written(ser.bytes \o Encode(item),
                      IF Refused(item) THEN ser.items ELSE Append(ser.items, item))
    /\ UNCHANGED <<payload, cur, reads, one>>

ze_serializer_serialize_string(item) ==
    /\ item.kind = "string"
    /\ IF Refused(item) THEN ser # None /\ UNCHANGED vars ELSE Serialize(item)

ze_serializer_serialize_sequence_length(item) == item.kind = "length" /\ Serialize(item)

ze_serializer_finish ==
    /\ ser # None
    /\ payload' = ser /\ ser' = None
    /\ UNCHANGED <<cur, reads, one>>

ze_serializer_drop ==
    /\ ser # None
    /\ ser' = None
    /\ UNCHANGED <<payload, cur, reads, one>>

(* z_serialize.                                                             *)
Produce(made) ==
    /\ ser = None /\ payload = None
    /\ payload' = made
    /\ UNCHANGED <<ser, cur, reads, one>>

ze_serialize_arithmetic(item) ==
    item.kind \in Number /\ Produce(Written(Encode(item), <<item>>))

ze_serialize_slice(item) ==
    item.kind = "slice" /\ Produce(Written(Encode(item), <<item>>))

ze_serialize_string(item) ==
    /\ item.kind = "string"
    /\ Produce(IF Refused(item) THEN Empty ELSE Written(Encode(item), <<item>>))

------------------------------------------------------------------------------
(* What the receiver gets instead: a payload that lost its end, or one of   *)
(* which nothing is known.                                                  *)
Truncate(n) ==
    /\ payload # None /\ cur = None /\ one = None
    /\ payload.whole /\ n < Len(payload.bytes)
    /\ payload' = [payload EXCEPT !.bytes = SubSeq(@, 1, n), !.whole = FALSE]
    /\ UNCHANGED <<ser, cur, reads, one>>

Replace(b) ==
    /\ ser = None /\ payload = None
    /\ payload' = [bytes |-> b, items |-> None, whole |-> FALSE]
    /\ UNCHANGED <<ser, cur, reads, one>>

------------------------------------------------------------------------------
(* The receiver.  `dst' is what the destination holds after the call: a     *)
(* number that could not be read is left alone, a slice or string becomes   *)
(* a gravestone, a length 0.                                                *)
(* Slip: an owned destination is only written on success.                   *)
OnErrorUnwritten(kind) == IF kind = "length" THEN 0 ELSE Kept

OnError(kind) == CASE kind \in OwnedKind -> Gravestone
                   [] kind = "length" -> 0
                   [] OTHER -> Kept

Result(kind, d, code) == [kind |-> kind, res |-> IF d.ok THEN "Z_OK" ELSE code,
                          dst |-> IF d.ok THEN d.val ELSE OnError(kind)]

(* z_deserialize: the value must be all there is.  The calls on a payload   *)
(* share nothing, so these are made while no cursor is in use.              *)
Whole(d) == IF d.ok /\ d.used = Len(payload.bytes) THEN d ELSE Error

(* Slip: bytes after the value are ignored.                                 *)
DeserializeLeniently(kind, code) ==
    /\ payload # None /\ cur = None
    /\ one' = Result(kind, Decode(kind, payload.bytes), code)
    /\ UNCHANGED <<ser, payload, cur, reads>>

z_deserialize(kind, code) ==
    /\ payload # None /\ cur = None
    /\ one' = Result(kind, Whole(Decode(kind, payload.bytes)), code)
    /\ UNCHANGED <<ser, payload, cur, reads>>

ze_deserialize_arithmetic(kind) == kind \in Number /\ z_deserialize(kind, "Z_EPARSE")

ze_deserialize_slice == z_deserialize("slice", "Z_EDESERIALIZE")

ze_deserialize_string == z_deserialize("string", "Z_EDESERIALIZE")

(* A deserializer and a reader are copies of a cursor; the application may  *)
(* get a new one at any time.                                               *)
GetCursor(type) ==
    /\ payload # None
    /\ cur' = [type |-> type, pos |-> 0]
    /\ reads' = <<>> /\ one' = None
    /\ UNCHANGED <<ser, payload>>

ze_deserializer_from_bytes == GetCursor("deserializer")

ze_deserializer_is_done == cur.pos = Len(payload.bytes)

Rest == SubSeq(payload.bytes, cur.pos + 1, Len(payload.bytes))

(* Where a failed read leaves the cursor is not documented: anywhere        *)
(* between where it was and the end.                                        *)
Advanced(d) == IF d.ok THEN {cur.pos + d.used} ELSE cur.pos..Len(payload.bytes)

(* ZDeserializer::deserialize.                                              *)
Deserialize(kind) ==
    LET d == Decode(kind, Rest)
    IN /\ cur # None /\ cur.type = "deserializer" /\ Len(reads) < MaxReads
       /\ \E p \in Advanced(d) : cur' = [cur EXCEPT !.pos = p]
       /\ reads' = Append(reads, Result(kind, d, "Z_EDESERIALIZE"))
       /\ UNCHANGED <<ser, payload, one>>

ze_deserializer_deserialize_arithmetic(kind) == kind \in Number /\ Deserialize(kind)

ze_deserializer_deserialize_slice == Deserialize("slice")

ze_deserializer_deserialize_string == Deserialize("string")

ze_deserializer_deserialize_sequence_length == Deserialize("length")

z_bytes_get_reader == GetCursor("reader")

z_bytes_reader_tell == cur.pos
z_bytes_reader_remaining == Len(payload.bytes) - cur.pos

z_bytes_reader_read(n) ==
    LET got == Min({n, z_bytes_reader_remaining})
    IN /\ reads' = <<[kind |-> "read", len |-> n, res |-> got, dst |-> SubSeq(Rest, 1, got)]>>
       /\ cur' = [cur EXCEPT !.pos = @ + got]
       /\ UNCHANGED <<ser, payload, one>>

(* ZBytesReader::seek.                                                      *)
SeekTo(target) ==
    \E p \in 0..Len(payload.bytes) :
        /\ target \in 0..Len(payload.bytes) => p = target
        /\ cur' = [cur EXCEPT !.pos = p]

z_bytes_reader_seek(offset, origin) ==
    /\ CASE origin = "SEEK_SET" -> IF offset < 0 THEN UNCHANGED cur ELSE SeekTo(offset)
         [] origin = "SEEK_CUR" -> SeekTo(z_bytes_reader_tell + offset)
         [] origin = "SEEK_END" -> SeekTo(Len(payload.bytes) + offset)
         [] OTHER -> UNCHANGED cur
    /\ reads' = <<>>
    /\ UNCHANGED <<ser, payload, one>>

Read(n) == cur # None /\ cur.type = "reader" /\ z_bytes_reader_read(n)

Seek(offset, origin) ==
    cur # None /\ cur.type = "reader" /\ z_bytes_reader_seek(offset, origin)

(* Cursors borrow from the payload and end with it.                         *)
z_bytes_drop ==
    /\ payload # None
    /\ payload' = None /\ cur' = None /\ reads' = <<>> /\ one' = None
    /\ UNCHANGED ser

Next ==
    \/ ze_serializer_empty \/ ze_serializer_finish \/ ze_serializer_drop
    \/ \E item \in Items :
         \/ ze_serializer_serialize_arithmetic(item) \/ ze_serializer_serialize_slice(item)
         \/ ze_serializer_serialize_string(item)
         \/ ze_serializer_serialize_sequence_length(item)
         \/ ze_serialize_arithmetic(item) \/ ze_serialize_slice(item) \/ ze_serialize_string(item)
    \/ \E n \in 0..(MaxItems * Base) : Truncate(n)
    \/ \E b \in Foreign : Replace(b)
    \/ \E kind \in Number :
         ze_deserialize_arithmetic(kind) \/ ze_deserializer_deserialize_arithmetic(kind)
    \/ ze_deserialize_slice \/ ze_deserialize_string
    \/ ze_deserializer_deserialize_slice \/ ze_deserializer_deserialize_string
    \/ ze_deserializer_deserialize_sequence_length
    \/ ze_deserializer_from_bytes \/ z_bytes_get_reader \/ z_bytes_drop
    \/ \E n \in 0..MaxLen : Read(n)
    \/ \E o \in Offset, w \in {"SEEK_SET", "SEEK_CUR", "SEEK_END", "other"} : Seek(o, w)

Spec == Init /\ [][Next]_vars

------------------------------------------------------------------------------
Results == ToSet(reads) \cup (IF one = None THEN {} ELSE {one})
Succeeded(r) == r.kind # "read" /\ r.res = "Z_OK"

(* What the variables hold: the cursor of a deserializer or reader never    *)
(* leaves its payload, and nothing is read without one.                     *)
TypeOK ==
    /\ ser = None \/ (ser.bytes \in Seq(Byte) /\ ser.items \in Seq(Items))
    /\ payload = None \/ payload.bytes \in Seq(Byte)
    /\ cur = None => reads = <<>>
    /\ cur # None => payload # None /\ cur.pos \in 0..Len(payload.bytes)

(* The receiver asked for the types that were written, in their order.      *)
Follows == /\ payload # None /\ payload.items # None
           /\ Len(reads) <= Len(payload.items)
           /\ \A i \in DOMAIN reads : reads[i].kind = payload.items[i].kind

AllRead == \A i \in DOMAIN reads : /\ reads[i].res = "Z_OK"
                                   /\ reads[i].dst = payload.items[i].val

(* A deserializer that is asked for the types in the order in which the     *)
(* serializer wrote them returns the values that were written, none of the  *)
(* calls the serializer refused among them, and ze_deserializer_is_done     *)
(* answers TRUE exactly after the last one.  ze_deserialize_<T> returns the *)
(* value of a payload that holds one T and nothing of a longer payload.     *)
RoundTrip ==
    payload # None /\ payload.whole =>
      /\ cur # None /\ cur.type = "deserializer" /\ Follows =>
            /\ AllRead
            /\ ze_deserializer_is_done <=> Len(reads) = Len(payload.items)
      /\ one # None /\ payload.items # <<>> /\ one.kind = payload.items[1].kind =>
            IF Len(payload.items) = 1
            THEN one.res = "Z_OK" /\ one.dst = payload.items[1].val
            ELSE one.res # "Z_OK"

(* A payload that lost its end is noticed: a receiver that asks for the     *)
(* types that were written gets an error before it has them all, and until  *)
(* then the values that were written.                                       *)
TruncationDetected ==
    payload # None /\ ~payload.whole /\ Follows =>
      \/ \E i \in DOMAIN reads : reads[i].res # "Z_OK"
      \/ AllRead /\ Len(reads) < Len(payload.items)

(* Whatever the bytes of a payload, a slice or string read from it is a     *)
(* part of it, however large its length prefix, a string is UTF-8, and the  *)
(* destination of a failed call can be dropped; a reader reports the bytes  *)
(* it copied, and fewer than asked for only at the end.                     *)
NothingInvented ==
    \A r \in Results :
      /\ r.kind \in OwnedKind =>
            IF Succeeded(r)
            THEN /\ \E i \in 0..Len(payload.bytes) :
                        r.dst = SubSeq(payload.bytes, i + 1, i + Len(r.dst))
                 /\ r.kind = "string" => IsText(r.dst)
            ELSE r.dst = Gravestone
      /\ r.kind = "read" =>
            /\ r.res = Len(r.dst)
            /\ r.dst = SubSeq(payload.bytes, cur.pos - r.res + 1, cur.pos)
            /\ r.res < r.len => ze_deserializer_is_done
=============================================================================
