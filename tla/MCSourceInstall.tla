-------------------------- MODULE MCSourceInstall --------------------------
(* Two processes, four inodes: target, guard and temporary file of one install
   and the new file of an editor that saves by a rename. *)
EXTENDS SourceInstall
CONSTANTS r1, r2
=============================================================================
