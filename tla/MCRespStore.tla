---------------------------- MODULE MCRespStore ----------------------------
(***************************************************************************)
(* RespStore for TLC: byte strings are named by what they spell.           *)
(***************************************************************************)
EXTENDS RespStore

CONSTANTS v0, v1, word  \* "0", "1" and a longer string that is no number

MCParse == [v \in Value |-> IF v = word THEN NotInt ELSE IF v = v0 THEN 0 ELSE 1]
MCRender == [n \in Ints |-> IF n = 0 THEN v0 ELSE v1]
MCKeyLen == [k \in Keys |-> 1]
MCValueLen == [v \in Value |-> IF v = word THEN 6 ELSE 1]

\* No guard and no property of a state reads the statistics or the last reply;
\* the action properties that do are evaluated on every step.
View == <<map, used_bytes, slot, protect, doomed>>
=============================================================================
