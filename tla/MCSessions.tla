----------------------------- MODULE MCSessions -----------------------------
(* What hangs off a session of a project: its teams, the conversation of its  *)
(* terminals, and the search a request runs.  They share no state; which one  *)
(* a behaviour is about is chosen in its initial state.                       *)
EXTENDS Team, Conversation, LineScan

CONSTANTS e, f, a, b

(* Nothing tells the processes of a team or the terminals apart. *)
Alike == Permutations({e, f}) \cup Permutations({a, b})

MCAllowance == [command |-> 3, stop |-> 1, other |-> 1]
Two == {1, 2}

VARIABLE part

sessionsVars == <<part, allTeamVars, conversationVars, lineScanVars>>

SessionsInit ==
  /\ part \in {"team", "conversation", "scan"}
  /\ TeamInit /\ ConversationInit /\ LineScanInit

SessionsNext ==
  \/ part = "team" /\ TeamNext /\ UNCHANGED <<part, conversationVars, lineScanVars>>
  \/ part = "conversation" /\ ConversationNext /\ UNCHANGED <<part, allTeamVars, lineScanVars>>
  \/ part = "scan" /\ LineScanNext /\ UNCHANGED <<part, allTeamVars, conversationVars>>

SessionsSpec == SessionsInit /\ [][SessionsNext]_sessionsVars
=============================================================================
