---- MODULE MCDurability ----
(* A small instance of Durability for TLC. *)
EXTENDS Durability, TLC

CONSTANTS c1, c2, c3, r1, r2, k1, k2, b1, b2

\* Two calls share a key, and one of them may carry another body; the third call
\* is unrelated.
MCKeyOf == [c \in Calls |-> IF c = c3 THEN k2 ELSE k1]
MCBodiesOf == [c \in Calls |-> IF c = c2 THEN {b1, b2} ELSE {b1}]
====
