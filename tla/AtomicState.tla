---------------------------- MODULE AtomicState -----------------------------
(***************************************************************************)
(* What a project's transitions promise together: each commits the next    *)
(* current state and its ledger event as one step, on exactly the state it *)
(* replaces.                                                               *)
(***************************************************************************)
EXTENDS Naturals

CONSTANTS Project, Absent, Damaged

VARIABLES
    state,    \* per project: the current image, Absent or Damaged
    recorded  \* per project: the events of its history

IsImage(s) == s \notin {Absent, Damaged}

Init ==
    /\ state = [pr \in Project |-> Absent]
    /\ recorded = [pr \in Project |-> {}]

(* An image follows the one it replaces; where there is none to follow,    *)
(* the chain starts again.                                                 *)
Follows(new, old) ==
    IF IsImage(old) THEN new.rev = old.rev + 1 /\ new.prev = old.event
                    ELSE new.rev = 1 /\ new.prev = 0

Commit(pr) ==
    /\ state'[pr] # state[pr] /\ IsImage(state'[pr])
    /\ Follows(state'[pr], state[pr])
    /\ state'[pr].event \notin recorded[pr]
    /\ recorded' = [recorded EXCEPT ![pr] = @ \cup {state'[pr].event}]
    /\ \A other \in Project \ {pr} : state'[other] = state[other]

(* An event that changes no state. *)
Record(pr) ==
    /\ \E e \in recorded'[pr] \ recorded[pr] :
          recorded' = [recorded EXCEPT ![pr] = @ \cup {e}]
    /\ UNCHANGED state

(* The file is damaged or removed from outside. *)
Lose(pr) ==
    /\ IsImage(state[pr])
    /\ \E s \in {Absent, Damaged} : state' = [state EXCEPT ![pr] = s]
    /\ UNCHANGED recorded

Next == \E pr \in Project : Commit(pr) \/ Record(pr) \/ Lose(pr)

Spec == Init /\ [][Next]_<<state, recorded>>
=============================================================================
