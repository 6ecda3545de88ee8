---------------------------- MODULE WorkflowLife ----------------------------
(***************************************************************************)
(* What the approval, verification and terminal transactions promise of a  *)
(* workflow, whatever is interrupted: it goes through its phases one       *)
(* decision at a time, and its verification command runs at most once,     *)
(* after the approval of exactly that command.                             *)
(***************************************************************************)
EXTENDS Naturals

CONSTANT Projects     \* each project has one active workflow

VARIABLES phase, ran

Phases == {"pending-approval", "pending-verification-approval", "verification-started",
           "verified", "failed", "cancelled"}
Terminal == {"failed", "cancelled"}

LifeInit ==
  /\ phase = [p \in Projects |-> "pending-approval"]
  /\ ran = [p \in Projects |-> 0]

(* the phases one decision may lead to *)
Next(f) ==
  CASE f = "pending-approval" -> {"pending-verification-approval", "cancelled"}
    [] f = "pending-verification-approval" -> {"verification-started", "cancelled"}
    [] f = "verification-started" -> {"verified", "failed", "cancelled"}
    [] f = "verified" -> {"cancelled"}
    [] OTHER -> {}

Decide(p) ==
  /\ \E f \in Next(phase[p]) :
       /\ f \in {"verified", "failed"} => ran[p] = 1
       /\ phase' = [phase EXCEPT ![p] = f]
  /\ ran' = ran

RunCommand(p) ==
  /\ phase[p] = "verification-started" /\ ran[p] = 0
  /\ ran' = [ran EXCEPT ![p] = 1]
  /\ phase' = phase

LifeNext == \E p \in Projects : Decide(p) \/ RunCommand(p)
LifeSpec == LifeInit /\ [][LifeNext]_<<phase, ran>>
=============================================================================
