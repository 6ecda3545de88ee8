---------------------------- MODULE MCTransition ----------------------------
(* Two processes over one project, or over two that share the ledger. *)
EXTENDS Transition

CONSTANTS p1, p2, x, y

(* Nothing tells processes or projects apart: the project a resting process keeps is never
   read. *)
Alike == Permutations({p1, p2}) \cup Permutations({x, y})
=============================================================================
