-------------------------------- MODULE Glob --------------------------------
(***************************************************************************)
(* Pattern matching of KEYS and SCAN MATCH, crates/pg_resp/src/glob.rs, as *)
(* the code does it, and what a pattern means: a sequence of elements,     *)
(* each of them a set of bytes or any text, that cut a key into pieces.    *)
(* A byte is a one-character string.                                       *)
(***************************************************************************)
EXTENDS Integers, Sequences

CONSTANT Bytes  \* the bytes used, in the order of their codes

Code(b) == CHOOSE i \in 1..Len(Bytes) : Bytes[i] = b
AnyByte == {Bytes[i] : i \in 1..Len(Bytes)}

\* The slice s[n..].
Drop(s, n) == SubSeq(s, n + 1, Len(s))

\* `[lo-hi]`, with the ends in either order.
Between(c, lo, hi) ==
    \/ Code(lo) <= Code(c) /\ Code(c) <= Code(hi)
    \/ Code(hi) <= Code(c) /\ Code(c) <= Code(lo)

IsEscape(p) == Len(p) >= 2 /\ p[1] = "\\"
IsRange(p) == Len(p) >= 3 /\ ~IsEscape(p) /\ p[2] = "-" /\ p[3] # "]"

-----------------------------------------------------------------------------
(***************************************************************************)
(* The code.                                                               *)
(***************************************************************************)
\* The loop of match_class: whether c has matched, and the pattern behind "]".
class_loop(c) ==
    LET loop[p \in Seq(AnyByte)] ==
            [matched \in BOOLEAN |->
                CASE p = <<>> -> [matched |-> matched, rest |-> p]
                  [] p # <<>> /\ p[1] = "]" -> [matched |-> matched, rest |-> Tail(p)]
                  [] IsEscape(p) -> loop[Drop(p, 2)][matched \/ c = p[2]]
                  [] p # <<>> /\ p[1] # "]" /\ IsRange(p) ->
                        loop[Drop(p, 3)][matched \/ Between(c, p[1], p[3])]
                  [] OTHER -> loop[Tail(p)][matched \/ c = p[1]]]
    IN  loop

match_class(p, c) ==
    LET negate == p # <<>> /\ p[1] = "^"
        class == class_loop(c)[IF negate THEN Tail(p) ELSE p][FALSE]
    IN  [matched |-> class.matched # negate, rest |-> class.rest]

\* Faulty variant of star: "*" stands for at least one byte.
star_nonempty(rest, s, match) == rest = <<>> \/ \E i \in 1..Len(s) : match[rest][Drop(s, i)]

\* "*" in front of rest: every split is tried.
star(rest, s, match) == rest = <<>> \/ \E i \in 0..Len(s) : match[rest][Drop(s, i)]

glob_match[p \in Seq(AnyByte)] ==
    [s \in Seq(AnyByte) |->
        CASE p = <<>> -> s = <<>>
          [] p # <<>> /\ p[1] = "*" ->
                IF Len(p) > 1 /\ p[2] = "*" THEN glob_match[Tail(p)][s]
                ELSE star(Tail(p), s, glob_match)
          [] p # <<>> /\ p[1] = "?" -> s # <<>> /\ glob_match[Tail(p)][Tail(s)]
          [] p # <<>> /\ p[1] = "[" ->
                /\ s # <<>>
                /\ LET class == match_class(Tail(p), s[1])
                   IN  class.matched /\ glob_match[class.rest][Tail(s)]
          [] IsEscape(p) -> s # <<>> /\ p[2] = s[1] /\ glob_match[Drop(p, 2)][Tail(s)]
          [] OTHER -> s # <<>> /\ p[1] = s[1] /\ glob_match[Tail(p)][Tail(s)]]

-----------------------------------------------------------------------------
(***************************************************************************)
(* The meaning.                                                            *)
(***************************************************************************)
\* The bytes the first item of a class stands for, and how long it is.
Item(p) == CASE IsEscape(p) -> {p[2]}
             [] IsRange(p) -> {c \in AnyByte : Between(c, p[1], p[3])}
             [] OTHER -> {p[1]}
ItemLen(p) == IF IsEscape(p) THEN 2 ELSE IF IsRange(p) THEN 3 ELSE 1

\* The bytes listed in a class, and the pattern behind it.
Class[p \in Seq(AnyByte)] ==
    IF p = <<>> \/ p[1] = "]" THEN [of |-> {}, rest |-> Drop(p, 1)]
    ELSE [Class[Drop(p, ItemLen(p))] EXCEPT !.of = @ \cup Item(p)]

\* The first element of a pattern, and the pattern behind it.
AnyText == [any |-> TRUE, of |-> {}]
OneOf(set) == [any |-> FALSE, of |-> set]

Negated(p) == Len(p) >= 2 /\ p[2] = "^"
ClassOf(p) == Class[Drop(p, IF Negated(p) THEN 2 ELSE 1)]

Element(p) == CASE p[1] = "*" -> AnyText
                [] p[1] = "?" -> OneOf(AnyByte)
                [] p[1] = "[" -> OneOf(IF Negated(p) THEN AnyByte \ ClassOf(p).of ELSE ClassOf(p).of)
                [] IsEscape(p) -> OneOf({p[2]})
                [] OTHER -> OneOf({p[1]})
Behind(p) == IF p[1] = "[" THEN ClassOf(p).rest ELSE Drop(p, IF IsEscape(p) THEN 2 ELSE 1)

Elements[p \in Seq(AnyByte)] ==
    IF p = <<>> THEN <<>> ELSE <<Element(p)>> \o Elements[Behind(p)]

\* The bytes of s behind the first a and up to b are a piece for the element x.
IsPiece(x, s, a, b) == IF x.any THEN a <= b ELSE b = a + 1 /\ s[b] \in x.of

\* s can be cut into one piece for each element of e, in order.
Cuts(e, s) ==
    \E cut \in [0..Len(e) -> 0..Len(s)] :
        /\ cut[0] = 0 /\ cut[Len(e)] = Len(s)
        /\ \A i \in 1..Len(e) : IsPiece(e[i], s, cut[i - 1], cut[i])

Means(p, s) == Cuts(Elements[p], s)
=============================================================================
