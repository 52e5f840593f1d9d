------------------------------ MODULE SerDes ------------------------------
(***************************************************************************)
(* JSON to and from aura buffers (serdes-json.c): the arguments of a call   *)
(* are written to a buffer by the object's argument format, the results and *)
(* events a node sends are read by its return format, item by item.         *)
(*                                                                          *)
(* A byte has Base values and a JSON integer JsonBytes bytes (256 and 8 in  *)
(* the code). The formats u16, s16, u32 and s32 behave as u8 and s8 do:     *)
(* narrower than a JSON integer. Formats come from the aura core, which     *)
(* builds them of these items only. JSON text and the aura buffer (a        *)
(* cursor over bytes, little-endian, zero where nothing was written) are    *)
(* external.                                                                *)
(***************************************************************************)
EXTENDS Integers, Sequences, FiniteSetsExt

CONSTANTS
    Base,       \* values of a byte
    JsonBytes,  \* bytes of a JSON integer
    BinLen,     \* the length in a binary item
    StrLens,    \* bound: lengths of strings in JSON, with their quotes
    MaxItems    \* bound: items of a format and values in an array

\* A byte is of bits, and a JSON integer is wider than a byte.
ASSUME BaseAssumption == Base \in Nat \ {0, 1} /\ JsonBytes \in Nat \ {0, 1}
                         /\ Base % 2 = 0
ASSUME BinLenAssumption == BinLen \in Nat \ {0} /\ StrLens \subseteq Nat
ASSUME MaxItemsAssumption == MaxItems \in Nat

Numeric == {"u8", "s8", "u64", "s64"}
WithSign == {"s8", "s64"}
Item == Numeric \cup {"bin", "buf"}

\* The powers of Base: Pow[n] integers have n bytes.
Pow[n \in 0 .. JsonBytes] == IF n = 0 THEN 1 ELSE Base * Pow[n - 1]

\* The integers of JSON (json_object_get_int64).
Ints == -(Pow[JsonBytes] \div 2) .. Pow[JsonBytes] \div 2 - 1

\* What an array may hold: an integer, a string, or something else.
Value == [type : {"int"}, n : Ints] \cup [type : {"string"}, n : StrLens]
         \cup [type : {"other"}, n : {0}]

UpTo(S) == UNION {[1 .. k -> S] : k \in 0 .. MaxItems}

VARIABLES
    pc,       \* marshalling, reading, or how it ended
    fmt,      \* arg_fmt or ret_fmt
    json,     \* the values of the array; of a result, what the node sends
    isarray,  \* the JSON of the request is an array
    i,        \* items dealt with
    buf,      \* bytes written to the buffer
    pos,      \* the cursor of the reader
    result    \* the array made of a result

vars == <<pc, fmt, json, isarray, i, buf, pos, result>>

\* Bytes of an item in the buffer. A buffer argument is a handle.
Bytes(item) ==
    CASE item \in {"u8", "s8"} -> 1
      [] item = "bin" -> BinLen
      [] OTHER -> JsonBytes

\* Where item j starts, and, for the item after the last, the length of all:
\* o->arglen, which the buffer was requested with.
Offset(f, j) ==
    LET end[k \in 0 .. Len(f)] == IF k = 0 THEN 0 ELSE end[k - 1] + Bytes(f[k])
    IN  end[j - 1]
Size(f) == Offset(f, Len(f) + 1)

Result == [type : {"int"}, n : Ints]
          \cup [type : {"buffer"}, n : {0}]

TypeOK ==
    /\ pc \in {"marshal", "sent", "refused", "aborted", "read", "done"}
    /\ fmt \in UpTo(Item)
    /\ json \in UpTo(Value)
    /\ isarray \in BOOLEAN
    /\ i \in 0 .. Len(fmt)
    /\ buf \in Seq(0 .. Base - 1)
    /\ pos \in 0 .. Size(fmt)
    /\ result \in Seq(Result)

\* A request to call an object, or a result or an event of a node.
Init ==
    /\ pc \in {"marshal", "read"}
    /\ fmt \in UpTo(Item)
    /\ json \in UpTo(Value)
    /\ isarray \in (IF pc = "marshal" THEN BOOLEAN ELSE {TRUE})
    /\ i = 0
    /\ buf = <<>>
    /\ pos = 0
    /\ result = <<>>

---------------------------------------------------------------------------
(* ahttpd_format_to_json                                                   *)

\* What /exports says of each item: its C type, its length or that it is a
\* buffer.
FormatToJson(f) ==
    [j \in DOMAIN f |-> CASE f[j] = "u8" -> "uint8_t"
                          [] f[j] = "s8" -> "int8_t"
                          [] f[j] = "u64" -> "uint64_t"
                          [] f[j] = "s64" -> "int64_t"
                          [] f[j] = "bin" -> "binary"
                          [] f[j] = "buf" -> "buffer"]

\* The C types it names, and the integers of each.
IntType == {"uint8_t", "int8_t", "uint64_t", "int64_t"}
IntsOf(t) ==
    CASE t = "uint8_t" -> 0 .. Pow[1] - 1
      [] t = "int8_t" -> -(Pow[1] \div 2) .. Pow[1] \div 2 - 1
      [] t = "uint64_t" -> 0 .. Pow[JsonBytes] - 1
      [] t = "int64_t" -> Ints

---------------------------------------------------------------------------
(* Integers of n bytes.                                                    *)

\* The bytes of v modulo Pow[n], the lowest first.
Encode(v, n) == [k \in 1 .. n |-> ((v % Pow[n]) \div Pow[k - 1]) % Base]

\* The integer without a sign that the bytes b stand for.
Decode(b) ==
    LET sum[k \in 0 .. Len(b)] ==
            IF k = 0 THEN 0 ELSE sum[k - 1] + b[k] * Pow[k - 1]
    IN  sum[Len(b)]

\* The integer that u stands for in n bytes with a sign.
Signed(u, n) == IF 2 * u >= Pow[n] THEN u - Pow[n] ELSE u

\* Faulty variant: every item is read without a sign.
FetchUnsigned(item, b) == Signed(Decode(b), JsonBytes)

\* FETCH_VAR_IN_CASE: the variable has the sign of the item, the JSON integer
\* made of it always has one.
Fetch(item, b) ==
    IF item \in WithSign THEN Signed(Decode(b), Len(b))
    ELSE Signed(Decode(b), JsonBytes)

\* The integer v as a variable of the item's C type has it.
Typed(item, v) ==
    LET n == Bytes(item)
        u == v % Pow[n]
    IN  IF item \in WithSign THEN Signed(u, n) ELSE u

---------------------------------------------------------------------------
(* ahttpd_buffer_from_json                                                 *)

\* The item to deal with next, and the value for it.
Next1 == fmt[i + 1]
HasValue == i < Len(json)
ValueIs(type) == HasValue /\ json[i + 1].type = type

Marshalling(items) ==
    /\ pc = "marshal" /\ isarray
    /\ i < Len(fmt)
    /\ Next1 \in items

\* An item is done with and bytes are written for it.
Put(bytes) ==
    /\ buf' = buf \o bytes
    /\ i' = i + 1
    /\ UNCHANGED <<pc, fmt, json, isarray, pos, result>>

NotArray ==
    /\ pc = "marshal" /\ ~isarray
    /\ pc' = "refused"
    /\ UNCHANGED <<fmt, json, isarray, i, buf, pos, result>>

\* Faulty variant: every number takes the room of a JSON integer.
PutNumberWide ==
    /\ Marshalling(Numeric)
    /\ ValueIs("int")
    /\ Put(Encode(json[i + 1].n, JsonBytes))

\* PUT_VAR_IN_CASE: the integer is cut to the width of the item.
PutNumber ==
    /\ Marshalling(Numeric)
    /\ ValueIs("int")
    /\ Put(Encode(json[i + 1].n, Bytes(Next1)))

\* No value is left for the number, or it is not an integer.
PutRefused ==
    /\ Marshalling(Numeric)
    /\ ~ValueIs("int")
    /\ pc' = "refused"
    /\ UNCHANGED <<fmt, json, isarray, i, buf, pos, result>>

\* The text of a string, quotes included, up to the length of the item; nothing
\* for any other value.
PutBin ==
    /\ Marshalling({"bin"})
    /\ Put(IF ValueIs("string")
           THEN [k \in 1 .. Min({json[i + 1].n, BinLen}) |-> 1] ELSE <<>>)

\* BUG(): a buffer cannot be passed.
PutBuf ==
    /\ Marshalling({"buf"})
    /\ pc' = "aborted"
    /\ UNCHANGED <<fmt, json, isarray, i, buf, pos, result>>

Marshalled ==
    /\ pc = "marshal" /\ isarray
    /\ i = Len(fmt)
    /\ pc' = "sent"
    /\ UNCHANGED <<fmt, json, isarray, i, buf, pos, result>>

---------------------------------------------------------------------------
(* ahttpd_buffer_to_json                                                   *)

\* The node's value for item j: an integer of the item's type.
Sent(j) ==
    Typed(fmt[j],
          IF j <= Len(json) /\ json[j].type = "int" THEN json[j].n ELSE 0)

\* The byte at position p of the node's buffer: of the item that lies there.
ByteAt(p) ==
    LET j == Max({k \in 1 .. Len(fmt) : Offset(fmt, k) <= p})
    IN  IF fmt[j] \in Numeric
        THEN Encode(Sent(j), Bytes(fmt[j]))[p - Offset(fmt, j) + 1]
        ELSE 1

\* The n bytes of the node's buffer from offset o on.
Arrived(o, n) == [k \in 1 .. n |-> ByteAt(o + k - 1)]

Reading(items) ==
    /\ pc = "read"
    /\ i < Len(fmt)
    /\ Next1 \in items

GetNumber ==
    /\ Reading(Numeric)
    /\ LET n == Bytes(Next1)
       IN  /\ result' = Append(result, [type |-> "int",
                                        n |-> Fetch(Next1, Arrived(pos, n))])
           /\ pos' = pos + n
    /\ i' = i + 1
    /\ UNCHANGED <<pc, fmt, json, isarray, buf>>

\* "buffer" stands for the item in the array. Its bytes are not passed over.
GetBuffer ==
    /\ Reading({"bin", "buf"})
    /\ result' = Append(result, [type |-> "buffer", n |-> 0])
    /\ i' = i + 1
    /\ UNCHANGED <<pc, fmt, json, isarray, buf, pos>>

ReadOut ==
    /\ pc = "read"
    /\ i = Len(fmt)
    /\ pc' = "done"
    /\ UNCHANGED <<fmt, json, isarray, i, buf, pos, result>>

Next ==
    \/ NotArray \/ PutNumber \/ PutRefused \/ PutBin \/ PutBuf \/ Marshalled
    \/ GetNumber \/ GetBuffer \/ ReadOut

Spec == Init /\ [][Next]_vars

---------------------------------------------------------------------------
\* The binary items before item j were given strings that fill them.
Filled(j) ==
    \A k \in 1 .. j - 1 : fmt[k] = "bin" =>
        k <= Len(json) /\ json[k].type = "string" /\ json[k].n >= BinLen

\* At the offset of number j lie the bytes of the client's integer: the node
\* reads an integer congruent to it, and the integer itself if it is one of the
\* type /exports announces.
InPlace(j) ==
    LET n == Bytes(fmt[j])
        o == Offset(fmt, j)
        r == Typed(fmt[j], Decode(SubSeq(buf, o + 1, o + n)))
    IN  /\ Len(buf) >= o + n
        /\ r % Pow[n] = json[j].n % Pow[n]
        /\ json[j].n \in IntsOf(FormatToJson(fmt)[j]) => r = json[j].n

\* A call's arguments: whatever the client sends, marshalling stays within
\* o->arglen bytes, and a call that reaches the node has a JSON integer for every
\* number. Where the strings of the client fill the binary items in front of a
\* number it is in its place, and where they fill all of them the buffer is full.
\* Nothing is said of a number behind a binary item that was left short.
ArgsInPlace ==
    /\ Len(buf) <= Size(fmt)
    /\ pc = "sent" =>
         /\ isarray
         /\ \A j \in DOMAIN fmt : fmt[j] \in Numeric =>
               j <= Len(json) /\ json[j].type = "int"
         /\ Filled(Len(fmt) + 1) => Len(buf) = Size(fmt)
    /\ pc \in {"marshal", "sent"} =>
         \A j \in 1 .. i : fmt[j] \in Numeric /\ Filled(j) => InPlace(j)

\* The integer r made of the integer v of an announced type t: v itself, in the
\* range of t, unless it is too large for a JSON integer, which has a sign: such
\* a uint64_t comes out negative.
FetchedRight(t, v, r) ==
    IF v \in Ints THEN r = v /\ r \in IntsOf(t)
    ELSE t = "uint64_t" /\ r = v - Pow[JsonBytes] /\ r \notin IntsOf(t)

\* Results beside what /exports announces: one entry for each item, an integer
\* for exactly the items announced as one. Up to the first binary item or buffer,
\* whose bytes are not passed over, the integers are those the node sent, in the
\* range of the announced type, but for the uint64_t of 2^63 and more
\* (FetchedRight). Nothing is said of the integers behind such an item.
ResultRight ==
    /\ pc = "done" => Len(result) = Len(fmt)
    /\ \A j \in DOMAIN result :
         result[j].type = "int" <=> FormatToJson(fmt)[j] \in IntType
    /\ \A j \in DOMAIN result : (\A k \in 1 .. j : fmt[k] \in Numeric) =>
         FetchedRight(FormatToJson(fmt)[j], Sent(j), result[j].n)
===========================================================================
