------------------------------ MODULE EventLog ------------------------------
(***************************************************************************)
(* What the runtime ledger promises to its writers: a history that only    *)
(* grows, holds no event twice, and holds every event whose append was     *)
(* acknowledged.  The one exception is a record whose writer died within   *)
(* it: the history may end by losing that record, and only that.           *)
(***************************************************************************)
EXTENDS Sequences, Naturals

CONSTANT Event

VARIABLES
    log,      \* the history
    acked,    \* the events whose append returned
    severed,  \* did the writer of the last record die within it?
    ended     \* is the history at its end?

Holds(history, e) == \E i \in 1 .. Len(history) : history[i] = e

Init ==
    /\ log = <<>>
    /\ acked = {}
    /\ severed = FALSE
    /\ ended = FALSE

(* Nothing is recorded behind a severed record. *)
Record(e) ==
    /\ ~severed
    /\ ~Holds(log, e)
    /\ log' = Append(log, e)
    /\ UNCHANGED <<acked, severed, ended>>

Acknowledge(e) ==
    /\ ~ended
    /\ Holds(log, e)
    /\ acked' = acked \cup {e}
    /\ UNCHANGED <<log, severed, ended>>

Sever ==
    /\ log # <<>>
    /\ severed' = TRUE
    /\ UNCHANGED <<log, acked, ended>>

(* The attempt to record behind a severed record loses both. *)
Lose ==
    /\ severed /\ ~ended
    /\ log' = SubSeq(log, 1, Len(log) - 1)
    /\ ended' = TRUE
    /\ UNCHANGED <<acked, severed>>

Next == (\E e \in Event : Record(e) \/ Acknowledge(e)) \/ Sever \/ Lose

Spec == Init /\ [][Next]_<<log, acked, severed, ended>>
=============================================================================
