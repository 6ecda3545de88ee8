------------------------------ MODULE MCLedger ------------------------------
(* Two writers and one lock-free reader over a handful of events of two    *)
(* projects; e1 and e3 carry the same payload.                             *)
EXTENDS Ledger

CONSTANTS e1, e2, e3, x, y

TwoProjects == [e \in Event |-> IF e = e2 THEN y ELSE x]
Payloads == [e \in Event |-> IF e = e3 THEN e1 ELSE e]
=============================================================================
