----------------------------- MODULE RespProto -----------------------------
(***************************************************************************)
(* The RESP2 wire format of crates/resp-proto/src/lib.rs, both directions: *)
(* commands are encoded by the client and parsed by the server, replies    *)
(* written by the server and parsed by the client, each parser on a buffer *)
(* that may end anywhere.                                                  *)
(*                                                                         *)
(* A byte is a string: "CR", "LF", "SP", a digit, a sigil, or a word that  *)
(* stands for a text without any of these.  Positions count from 1.  An    *)
(* Option is a set with at most one element.                               *)
(***************************************************************************)
EXTENDS Integers, Sequences, SequencesExt

CONSTANTS
    Byte,
    MAX_BULK_LEN, MAX_ARRAY_LEN, MAX_INLINE_LEN, MAX_REPLY_DEPTH,
    I64Max  \* the largest i64

CRLF == <<"CR", "LF">>
Digit == <<"0", "1", "2", "3", "4", "5", "6", "7", "8", "9">>

ASSUME ProtoAssumption ==
    /\ {MAX_BULK_LEN, MAX_ARRAY_LEN, MAX_INLINE_LEN, MAX_REPLY_DEPTH, I64Max} \subseteq Nat
    /\ {"CR", "LF", "SP", "+", "-", ":", "$", "*"} \cup {Digit[i] : i \in 1..10} \subseteq Byte

The(option) == CHOOSE x \in option : TRUE

-----------------------------------------------------------------------------
(***************************************************************************)
(* Numbers.                                                                *)
(***************************************************************************)
decimal[n \in Nat] ==
    IF n < 10 THEN <<Digit[n + 1]>> ELSE Append(decimal[n \div 10], Digit[(n % 10) + 1])
to_string(n) == IF n < 0 THEN <<"-">> \o decimal[-n] ELSE decimal[n]

\* A length fits an i64, and the header that announces it a line.
ASSUME LimitsAssumption ==
    /\ MAX_BULK_LEN <= I64Max /\ MAX_ARRAY_LEN <= I64Max
    /\ \A n \in 0..MAX_BULK_LEN \cup 0..MAX_ARRAY_LEN : Len(to_string(n)) + 2 <= MAX_INLINE_LEN

Number(digits) ==
    LET value[n \in 0..Len(digits)] ==
            IF n = 0 THEN 0
            ELSE 10 * value[n - 1] + (CHOOSE i \in 0..9 : Digit[i + 1] = digits[n])
    IN  value[Len(digits)]

\* str::parse: an optional sign, at least one digit, a result in lo..hi.
parse(bytes, signs, lo, hi) ==
    LET signed == bytes # <<>> /\ bytes[1] \in signs
        digits == IF signed THEN Tail(bytes) ELSE bytes
        n == IF signed /\ bytes[1] = "-" THEN -Number(digits) ELSE Number(digits)
    IN  IF digits = <<>> \/ \E i \in 1..Len(digits) : digits[i] \notin Range(Digit)
        THEN {}
        ELSE {n} \cap lo..hi

parse_i64_strict(bytes) == parse(bytes, {"+", "-"}, -(I64Max + 1), I64Max)

-----------------------------------------------------------------------------
(***************************************************************************)
(* Outcomes, and what commands and replies have in common.                 *)
(***************************************************************************)
Incomplete == [out |-> "Incomplete"]
Malformed == [out |-> "Invalid", why |-> "malformed"]
TooLong == [out |-> "Invalid", why |-> "too long"]
Done(value, next) == [out |-> "Complete", value |-> value, next |-> next]

find_crlf(buf, from) ==
    LET at == {i \in from..(Len(buf) - 1) : SubSeq(buf, i, i + 1) = CRLF}
    IN  IF at = {} THEN {} ELSE {Min(at)}

\* Faulty variant of read_line: a line that has not ended yet is an error.
read_whole_line(buf, from, start) ==
    LET crlf == find_crlf(buf, from)
    IN  IF crlf = {} THEN Malformed
        ELSE Done(SubSeq(buf, from, The(crlf) - 1), The(crlf) + 2)

\* The line that begins at from; without a CRLF yet, its length is counted
\* from start.
read_line(buf, from, start) ==
    LET crlf == find_crlf(buf, from)
    IN  CASE crlf # {} -> Done(SubSeq(buf, from, The(crlf) - 1), The(crlf) + 2)
          [] crlf = {} /\ Len(buf) - start + 1 > MAX_INLINE_LEN -> TooLong
          [] OTHER -> Incomplete

\* Faulty variant of Payload: the CRLF is left in the buffer.
PayloadOnly(buf, start, len) ==
    IF start + len + 1 > Len(buf) THEN Incomplete
    ELSE Done(SubSeq(buf, start, start + len - 1), start + len)

\* The len bytes of a bulk string at start, and their CRLF.
Payload(buf, start, len) ==
    CASE start + len + 1 > Len(buf) -> Incomplete
      [] start + len + 1 <= Len(buf) /\ SubSeq(buf, start + len, start + len + 1) # CRLF ->
            Malformed
      [] OTHER -> Done(SubSeq(buf, start, start + len - 1), start + len + 2)

\* One more element behind those collected before.
CollectNext(elements, before) ==
    LET item == elements[before.next]
    IN  CASE before.out # "Complete" -> before
          [] before.out = "Complete" /\ item.out # "Complete" -> item
          [] OTHER -> Done(Append(before.value, item.value), item.next)

\* count elements from start on; the first that is not Complete is the outcome.
Collect(elements, start, count) ==
    LET after[n \in Nat] ==
            IF n = 0 THEN Done(<<>>, start) ELSE CollectNext(elements, after[n - 1])
    IN  after[count]

-----------------------------------------------------------------------------
(***************************************************************************)
(* Commands.                                                               *)
(***************************************************************************)
encode_bulk(bytes) == <<"$">> \o to_string(Len(bytes)) \o CRLF \o bytes \o CRLF

encode_command(args) ==
    <<"*">> \o to_string(Len(args)) \o CRLF
        \o FlattenSeq([i \in 1..Len(args) |-> encode_bulk(args[i])])

\* The loop body of parse_array_command: the bulk string at pos.
bulk_at(buf, pos) ==
    LET line == read_line(buf, pos + 1, pos)
        len == parse_i64_strict(line.value) \cap 0..MAX_BULK_LEN
    IN  CASE pos > Len(buf) -> Incomplete
          [] pos <= Len(buf) /\ buf[pos] # "$" -> Malformed
          [] pos <= Len(buf) /\ buf[pos] = "$" /\ line.out # "Complete" -> line
          [] pos <= Len(buf) /\ buf[pos] = "$" /\ line.out = "Complete" ->
                IF len = {} THEN Malformed ELSE Payload(buf, line.next, The(len))

parse_array_command(buf) ==
    LET line == read_line(buf, 2, 1)
        count == parse_i64_strict(line.value) \cap 0..MAX_ARRAY_LEN
    IN  CASE line.out # "Complete" -> line
          [] line.out = "Complete" /\ count = {} -> Malformed
          [] OTHER -> Collect([pos \in Nat |-> bulk_at(buf, pos)], line.next, The(count))

\* The words of a line, without the empty ones.
Words(line) ==
    LET words[n \in 0..Len(line)] ==
            IF n = 0 THEN <<>>
            ELSE LET before == words[n - 1]
                 IN  CASE line[n] = "SP" -> before
                       [] line[n] # "SP" /\ (n = 1 \/ line[n - 1] = "SP") ->
                             Append(before, <<line[n]>>)
                       [] OTHER -> [before EXCEPT ![Len(before)] = Append(@, line[n])]
    IN  words[Len(line)]

parse_inline_command(buf) ==
    LET line == read_line(buf, 1, 1)
    IN  IF line.out # "Complete" THEN line ELSE Done(Words(line.value), line.next)

parse_command(buf) ==
    CASE buf = <<>> -> Incomplete
      [] buf # <<>> /\ buf[1] = "*" -> parse_array_command(buf)
      [] OTHER -> parse_inline_command(buf)

-----------------------------------------------------------------------------
(***************************************************************************)
(* Replies.                                                                *)
(***************************************************************************)
Simple(text) == [type |-> "Simple", text |-> text]
Error(text) == [type |-> "Error", text |-> text]
Integer(n) == [type |-> "Integer", n |-> n]
Bulk(data) == [type |-> "Bulk", data |-> data]
Nil == [type |-> "NullBulk"]
Array(items) == [type |-> "Array", items |-> items]
NullArray == [type |-> "NullArray"]

\* Faulty variant of null_bulk: a missing value is written as an empty one.
null_as_empty == encode_bulk(<<>>)

null_bulk == <<"$", "-", "1">> \o CRLF

\* How deep dispatch nests arrays, and the replies with arrays nested so deep.
Nesting == 2
ReplyType[depth \in 0..Nesting] ==
    [type : {"Simple", "Error"}, text : Seq(Byte)] \cup [type : {"Integer"}, n : Int]
    \cup [type : {"Bulk"}, data : Seq(Byte)] \cup {Nil, NullArray}
    \cup IF depth = 0 THEN {} ELSE [type : {"Array"}, items : Seq(ReplyType[depth - 1])]

\* The bytes of a reply; nested are those of its elements.
Written(reply, nested) ==
    CASE reply.type = "Simple" -> <<"+">> \o reply.text \o CRLF
      [] reply.type = "Error" -> <<"-">> \o reply.text \o CRLF
      [] reply.type = "Integer" -> <<":">> \o to_string(reply.n) \o CRLF
      [] reply.type = "NullBulk" -> null_bulk
      [] reply.type = "Bulk" -> encode_bulk(reply.data)
      [] reply.type = "NullArray" -> <<"*", "-", "1">> \o CRLF
      [] reply.type = "Array" ->
            <<"*">> \o to_string(Len(reply.items)) \o CRLF
                \o FlattenSeq([i \in 1..Len(reply.items) |-> nested[reply.items[i]]])

write_to(reply) ==
    LET bytes[depth \in 0..Nesting] ==
            [r \in ReplyType[depth] |-> Written(r, bytes[depth - 1])]
    IN  bytes[Nesting][reply]

\* A bulk or array header: -1 is the null form and the only negative length.
Sized(line, max) == parse_i64_strict(line.value) \cap -1..max

bulk_reply(buf, line) ==
    LET len == Sized(line, MAX_BULK_LEN)
        data == Payload(buf, line.next, The(len))
    IN  CASE len = {} -> Malformed
          [] len = {-1} -> Done(Nil, line.next)
          [] len \notin {{}, {-1}} /\ data.out # "Complete" -> data
          [] OTHER -> Done(Bulk(data.value), data.next)

array_reply(buf, line, nested) ==
    LET count == Sized(line, MAX_ARRAY_LEN)
        items == Collect(nested, line.next, The(count))
    IN  CASE count = {} -> Malformed
          [] count = {-1} -> Done(NullArray, line.next)
          [] count \notin {{}, {-1}} /\ items.out # "Complete" -> items
          [] OTHER -> Done(Array(items.value), items.next)

\* The reply at pos; nested are the replies at each position one level deeper.
parse_reply_at(buf, pos, nested) ==
    IF pos > Len(buf) THEN Incomplete
    ELSE LET line == read_line(buf, pos + 1, pos + 1)
         IN  CASE buf[pos] \notin {"+", "-", ":", "$", "*"} -> Malformed
               [] buf[pos] \in {"+", "-", ":", "$", "*"} /\ line.out # "Complete" -> line
               [] buf[pos] = "+" /\ line.out = "Complete" -> Done(Simple(line.value), line.next)
               [] buf[pos] = "-" /\ line.out = "Complete" -> Done(Error(line.value), line.next)
               [] buf[pos] = ":" /\ line.out = "Complete" ->
                     LET n == parse_i64_strict(line.value)
                     IN  IF n = {} THEN Malformed ELSE Done(Integer(The(n)), line.next)
               [] buf[pos] = "$" /\ line.out = "Complete" -> bulk_reply(buf, line)
               [] buf[pos] = "*" /\ line.out = "Complete" -> array_reply(buf, line, nested)

\* left counts the levels down to MAX_REPLY_DEPTH.
parse_reply(buf) ==
    LET at[left \in Nat] ==
            [pos \in Nat |-> IF left = 0 THEN Malformed ELSE parse_reply_at(buf, pos, at[left - 1])]
    IN  at[MAX_REPLY_DEPTH + 1][1]
=============================================================================
