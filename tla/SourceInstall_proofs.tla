------------------------ MODULE SourceInstall_proofs ------------------------
(***************************************************************************)
(* Three promises of the source replacement, for any number of processes,  *)
(* inodes, edits and stops: the rollback record is complete before the     *)
(* target is touched, the bytes the user saved last are never lost, and    *)
(* without an edit the file is never lost and a success is a success.      *)
(***************************************************************************)
EXTENDS SourceInstall, TLAPS

(* What the proofs know of the constants. *)
Constant ==
  /\ NoInode \notin Inodes /\ NoRunner \notin Runners
  /\ EditBudget \in Nat /\ StopBudget \in Nat
  /\ TornWrites \in BOOLEAN /\ LateEdits \in BOOLEAN /\ Unguarded \in BOOLEAN

(* The part of the module's assumption that the proofs use. *)
LEMMA ConstantFacts == Constant
BY SourceInstallAssumption DEF Constant

(* The initial state is typed. *)
LEMMA InitType == Init => TypeOK
<1> USE ConstantFacts DEF Constant
<1> SUFFICES ASSUME Init PROVE TypeOK
  OBVIOUS
<1>1. name \in [Files -> Inodes \cup {NoInode}]
  BY DEF Init
<1>2. Unseen \in [target : Hashes, guard : Hashes, temp : Hashes]
  BY DEF Unseen, Hashes
<1>3. seen \in [Runners -> [target : Hashes, guard : Hashes, temp : Hashes]]
  BY <1>2 DEF Init
<1>4. /\ data \in [Inodes -> Bytes]
      /\ pc \in [Runners -> Labels]
      /\ open \in [Runners -> Inodes \cup {NoInode}]
      /\ outcome \in [Runners -> {"none", "installed", "failed"}]
  BY DEF Init, Bytes, Labels
<1>5. /\ plan \in Inodes \cup {NoInode} /\ holder \in Runners \cup {NoRunner}
      /\ wanted \in {"nothing", "user", "gone"}
  BY DEF Init
<1>6. journal \in BOOLEAN
  BY DEF Init
<1>7. edits \in 0..EditBudget /\ stops \in 0..StopBudget
  BY DEF Init
<1> QED
  BY <1>1, <1>3, <1>4, <1>5, <1>6, <1>7 DEF TypeOK

(* Every step keeps the types: one step of the proof per system call. *)
LEMMA StepType == TypeOK /\ [Next]_vars => TypeOK'
<1> USE ConstantFacts DEF Constant
<1> SUFFICES ASSUME TypeOK, [Next]_vars PROVE TypeOK'
  OBVIOUS
<1> USE DEF TypeOK, Files, Bytes, Labels, Goto, Local, Steady
<1>h. /\ Unseen \in [target : Hashes, guard : Hashes, temp : Hashes]
      /\ \A f \in Files : Hash(f) \in Hashes
  BY DEF Unseen, Hashes, Hash, Exists
<1>f. ASSUME NEW r \in Runners, Fail(r) PROVE TypeOK'
  BY <1>f, <1>h DEF Fail, Leave
<1>1. ASSUME NEW r \in Runners, Plan(r) PROVE TypeOK'
  BY <1>1 DEF Plan
<1>2. ASSUME NEW r \in Runners, Recover(r) PROVE TypeOK'
  BY <1>2 DEF Recover
<1>3. ASSUME NEW r \in Runners, Commit(r) PROVE TypeOK'
  BY <1>3 DEF Commit
<1>4. ASSUME NEW r \in Runners, ReadTarget(r) PROVE TypeOK'
  BY <1>4, <1>h DEF ReadTarget
<1>5. ASSUME NEW r \in Runners, CheckRollback(r) PROVE TypeOK'
  BY <1>5, <1>f DEF CheckRollback
<1>6. ASSUME NEW r \in Runners, MakeRollback(r) PROVE TypeOK'
  BY <1>6, <1>f, SMTT(30) DEF MakeRollback, Create, Free
<1>7. ASSUME NEW r \in Runners, WriteRollback(r) PROVE TypeOK'
  BY <1>7 DEF WriteRollback, Write
<1>8. ASSUME NEW r \in Runners, MakeTemp(r) PROVE TypeOK'
  BY <1>8, <1>f, SMTT(30) DEF MakeTemp, Create, Free
<1>9. ASSUME NEW r \in Runners, WriteTemp(r) PROVE TypeOK'
  BY <1>9 DEF WriteTemp, Write
<1>10. ASSUME NEW r \in Runners, ReadHashes(r) PROVE TypeOK'
  <2> DEFINE s == [seen[r] EXCEPT !.guard = Hash("guard"), !.temp = Hash("temp")]
  <2>1. s \in [target : Hashes, guard : Hashes, temp : Hashes]
    BY <1>h
  <2>2. CASE Fail(r)
    BY <2>2, <1>f
  <2>3. CASE seen' = [seen EXCEPT ![r] = s] /\ Goto(r, "guard") /\ Local
             /\ UNCHANGED <<open, outcome, holder>>
    BY <2>1, <2>3
  <2> QED
    BY <1>10, <2>2, <2>3 DEF ReadHashes
<1>11. ASSUME NEW r \in Runners, CheckGuard(r) PROVE TypeOK'
  BY <1>11, <1>f DEF CheckGuard
<1>12. ASSUME NEW r \in Runners, LinkGuard(r) PROVE TypeOK'
  BY <1>12, <1>f DEF LinkGuard, Link
<1>13. ASSUME NEW r \in Runners, CheckPair(r) PROVE TypeOK'
  BY <1>13, <1>f DEF CheckPair
<1>14. ASSUME NEW r \in Runners, UnlinkCheck(r) PROVE TypeOK'
  BY <1>14, <1>f DEF UnlinkCheck
<1>15. ASSUME NEW r \in Runners, UnlinkTarget(r) PROVE TypeOK'
  BY <1>15, <1>f DEF UnlinkTarget, Unlink
<1>16. ASSUME NEW r \in Runners, CheckInstall(r) PROVE TypeOK'
  BY <1>16, <1>f DEF CheckInstall
<1>17. ASSUME NEW r \in Runners, LinkTarget(r) PROVE TypeOK'
  BY <1>17, <1>f DEF LinkTarget, Link
<1>18. ASSUME NEW r \in Runners, Settled(r) PROVE TypeOK'
  BY <1>18, <1>f DEF Settled
<1>19. ASSUME NEW r \in Runners, CheckTempGone(r) PROVE TypeOK'
  BY <1>19 DEF CheckTempGone
<1>20. ASSUME NEW r \in Runners, UnlinkTemp(r) PROVE TypeOK'
  BY <1>20, <1>f DEF UnlinkTemp, Unlink
<1>21. ASSUME NEW r \in Runners, CheckGuardGone(r) PROVE TypeOK'
  BY <1>21 DEF CheckGuardGone
<1>22. ASSUME NEW r \in Runners, UnlinkGuard(r) PROVE TypeOK'
  BY <1>22, <1>f DEF UnlinkGuard, Unlink
<1>23. ASSUME NEW r \in Runners, Cleanup(r) PROVE TypeOK'
  <2>1. CASE Leave(r, "installed") /\ journal' = FALSE
             /\ UNCHANGED <<name, data, plan, wanted, edits, stops>>
    BY <2>1, <1>h DEF Leave
  <2> QED
    BY <1>23, <1>f, <2>1 DEF Cleanup
<1>24. ASSUME NEW r \in Runners, Stop(r) PROVE TypeOK'
  BY <1>24, <1>h DEF Stop, Leave
<1>25. ASSUME SaveInPlace PROVE TypeOK'
  BY <1>25 DEF SaveInPlace, Edited, MayEdit, Exists
<1>26. ASSUME SaveByRename PROVE TypeOK'
  BY <1>26 DEF SaveByRename, Edited, MayEdit, Free
<1>27. ASSUME Remove PROVE TypeOK'
  BY <1>27 DEF Remove, Edited, MayEdit
<1>28. CASE UNCHANGED vars
  BY <1>28 DEF vars
<1> QED
  BY <1>1, <1>2, <1>3, <1>4, <1>5, <1>6, <1>7, <1>8, <1>9, <1>10, <1>11, <1>12, <1>13,
     <1>14, <1>15, <1>16, <1>17, <1>18, <1>19, <1>20, <1>21, <1>22, <1>23, <1>24,
     <1>25, <1>26, <1>27, <1>28 DEF Next, Step, Editor

(* Every variable keeps its type (recover_source_replace and its callers). *)
THEOREM TypeCorrect == Spec => []TypeOK
BY InitType, StepType, PTL DEF Spec

-----------------------------------------------------------------------------
(* The steps that a runner takes with the rollback record behind it. *)
Late == Labels \ {"idle", "commit", "readTarget", "rollback", "makeRollback", "writeRollback"}

(* The inode of the rollback record belongs to no other name, only its own
   writer writes to it, and it is complete for whoever is past it. *)
EvidenceInv ==
  /\ TypeOK
  /\ Exists("rollback") => \A f \in {"target", "temp", "guard"} : name[f] # name["rollback"]
  /\ \A r \in Runners : pc[r] = "writeTemp" => open[r] \notin {NoInode, name["rollback"]}
  /\ \A r \in Runners : pc[r] = "writeRollback" => open[r] = name["rollback"] /\ Exists("rollback")
  /\ \A r \in Runners : pc[r] \in Late => Hash("rollback") = "before"
  /\ EvidenceFirst

(* A step that leaves names, bytes and the editor alone only has to account
   for the place the runner goes to (most steps of recover_source_replace). *)
LEMMA EvidenceQuiet ==
  ASSUME EvidenceInv, TypeOK', NEW r \in Runners,
         UNCHANGED <<name, data, wanted>>,
         \A q \in Runners \ {r} : pc'[q] = pc[q] /\ open'[q] = open[q],
         pc'[r] \notin {"writeTemp", "writeRollback"},
         pc'[r] \in Late => Hash("rollback") = "before"
  PROVE  EvidenceInv'
BY DEF EvidenceInv, EvidenceFirst, Exists, Hash

(* A new file takes an inode nobody names or writes (create_new). *)
LEMMA EvidenceCreate ==
  ASSUME EvidenceInv, TypeOK', NEW r \in Runners, NEW f \in {"temp", "rollback"},
         NEW l \in Labels, Create(r, f, l), ~Fail(r),
         f = "temp" => l = "writeTemp" /\ pc[r] = "temp",
         f = "rollback" => l = "writeRollback"
  PROVE  EvidenceInv'
<1> USE DEF EvidenceInv, TypeOK
<1>1. PICK i \in Free : /\ name' = [name EXCEPT ![f] = i]
                       /\ data' = [data EXCEPT ![i] = "part"]
                       /\ open' = [open EXCEPT ![r] = i]
  BY DEF Create
<1>2. ~Exists(f) /\ pc' = [pc EXCEPT ![r] = l] /\ wanted' = wanted
  BY DEF Create, Goto
<1>3. /\ i \in Inodes /\ i # NoInode
      /\ \A g \in Files : name[g] # i
      /\ \A q \in Runners : open[q] # i
  BY ConstantFacts DEF Free, Constant
<1>4. Hash("target")' = Hash("target") /\ Exists("target")' = Exists("target")
  BY <1>1, <1>3 DEF Hash, Exists, Files
<1>5. CASE f = "temp"
  <2>1. Hash("rollback")' = Hash("rollback") /\ name'["rollback"] = name["rollback"]
    BY <1>1, <1>3, <1>5 DEF Hash, Exists, Files
  <2>2. Hash("rollback") = "before"
    BY <1>5 DEF Late, Labels
  <2> QED
    BY <1>1, <1>2, <1>3, <1>4, <1>5, <2>1, <2>2 DEF EvidenceFirst, Exists, Files
<1>6. CASE f = "rollback"
  <2>1. Hash("rollback") # "before"
    BY <1>2, <1>6 DEF Hash
  <2>2. \A q \in Runners : pc[q] \notin Late
    BY <2>1
  <2>3. EvidenceFirst'
    BY <1>2, <1>4, <2>1 DEF EvidenceFirst
  <2>4. \A q \in Runners : pc'[q] \notin Late
    BY <1>2, <1>6, <2>2 DEF Late
  <2>5. \A q \in Runners \ {r} : pc[q] # "writeRollback"
    BY <1>2, <1>6
  <2> QED
    BY <1>1, <1>2, <1>3, <1>6, <2>3, <2>4, <2>5 DEF Late, Labels, Exists, Files
<1> QED
  BY <1>5, <1>6

(* Making or removing a link of the siblings keeps the rollback record:
   target and guard are only linked to inodes of target and temporary file. *)
LEMMA EvidenceRename ==
  ASSUME EvidenceInv, TypeOK', NEW r \in Runners,
         NEW f \in {"target", "temp", "guard"}, NEW i \in Inodes \cup {NoInode},
         i = NoInode \/ \E g \in {"target", "temp"} : i = name[g],
         name' = [name EXCEPT ![f] = i],
         Hash("rollback") = "before",
         \A q \in Runners \ {r} : pc'[q] = pc[q],
         pc'[r] \notin {"writeTemp", "writeRollback"},
         UNCHANGED <<data, wanted, open>>
  PROVE  EvidenceInv'
<1> USE DEF EvidenceInv, TypeOK
<1>1. name'["rollback"] = name["rollback"] /\ Exists("rollback")
  BY DEF Hash, Exists, Files
<1>2. Hash("rollback")' = "before"
  BY <1>1 DEF Hash, Exists
<1>3. \A g \in {"target", "temp", "guard"} : name'[g] # name["rollback"]
  BY <1>1 DEF Exists, Files
<1> QED
  BY <1>1, <1>2, <1>3 DEF EvidenceFirst, Exists

(* The bytes before the patch are kept before the target is touched: no step,
   stop or edit leaves the target replaced or missing without the rollback
   record being complete (source_install.rs:100-117). *)
THEOREM EvidenceKept == Spec => []EvidenceFirst
<1> USE ConstantFacts DEF Constant
<1>1. Init => EvidenceInv
  <2> SUFFICES ASSUME Init PROVE EvidenceInv
    OBVIOUS
  <2>1. TypeOK
    BY InitType
  <2>2. Hash("target") = "before" /\ Exists("target") /\ ~Exists("rollback")
    BY DEF Init, Hash, Exists, Files
  <2>3. \A r \in Runners : pc[r] = "idle"
    BY DEF Init
  <2> QED
    BY <2>1, <2>2, <2>3 DEF EvidenceInv, EvidenceFirst, Late
<1>2. EvidenceInv /\ [Next]_vars => EvidenceInv'
  <2> SUFFICES ASSUME EvidenceInv, [Next]_vars PROVE EvidenceInv'
    OBVIOUS
  <2>t. TypeOK /\ TypeOK'
    BY StepType DEF EvidenceInv
  <2>l. \A r \in Runners : pc[r] \in Late => Hash("rollback") = "before"
    BY DEF EvidenceInv
  <2> USE <2>t DEF TypeOK, Goto, Local, Steady
  <2>f. ASSUME NEW r \in Runners, Fail(r) PROVE EvidenceInv'
    BY <2>f, EvidenceQuiet DEF Fail, Leave, Late
  <2>1. ASSUME NEW r \in Runners, Plan(r) PROVE EvidenceInv'
    BY <2>1, EvidenceQuiet DEF Plan, Late
  <2>2. ASSUME NEW r \in Runners, Recover(r) PROVE EvidenceInv'
    BY <2>2, EvidenceQuiet DEF Recover, Late
  <2>3. ASSUME NEW r \in Runners, Commit(r) PROVE EvidenceInv'
    BY <2>3, EvidenceQuiet DEF Commit, Late
  <2>4. ASSUME NEW r \in Runners, ReadTarget(r) PROVE EvidenceInv'
    BY <2>4, EvidenceQuiet DEF ReadTarget, Late
  <2>5. ASSUME NEW r \in Runners, CheckRollback(r) PROVE EvidenceInv'
    BY <2>5, <2>f, EvidenceQuiet DEF CheckRollback, Late
  <2>6. ASSUME NEW r \in Runners, MakeRollback(r) PROVE EvidenceInv'
    BY <2>6, <2>f, EvidenceCreate DEF MakeRollback, Labels
  <2>7. ASSUME NEW r \in Runners, WriteRollback(r) PROVE EvidenceInv'
    <3>1. open[r] = name["rollback"] /\ name["rollback"] \in Inodes
      BY <2>7 DEF WriteRollback, EvidenceInv, Exists, Files
    <3>2. name' = name /\ Hash("rollback")' = "before"
      BY <2>7, <3>1 DEF WriteRollback, Write, Hash, Exists
    <3> QED
      BY <2>7, <3>1, <3>2 DEF WriteRollback, Write, EvidenceInv, EvidenceFirst, Exists
  <2>8. ASSUME NEW r \in Runners, MakeTemp(r) PROVE EvidenceInv'
    <3>1. pc[r] = "temp" /\ Hash("rollback") = "before"
      BY <2>8, <2>l DEF MakeTemp, Late, Labels
    <3> QED
      BY <2>8, <3>1, <2>f, EvidenceCreate, EvidenceQuiet DEF MakeTemp, Labels
  <2>9. ASSUME NEW r \in Runners, WriteTemp(r) PROVE EvidenceInv'
    <3>1. open[r] # name["rollback"] /\ Hash("rollback") = "before"
      BY <2>9, <2>l DEF WriteTemp, EvidenceInv, Late, Labels
    <3>2. name' = name /\ Hash("rollback")' = "before"
      BY <2>9, <3>1 DEF WriteTemp, Write, Hash, Exists, Files
    <3> QED
      BY <2>9, <3>1, <3>2 DEF WriteTemp, Write, EvidenceInv, EvidenceFirst, Exists
  <2>10. ASSUME NEW r \in Runners, ReadHashes(r) PROVE EvidenceInv'
    BY <2>10, <2>f, <2>l, EvidenceQuiet, SMTT(30) DEF ReadHashes, Late, Labels
  <2>11. ASSUME NEW r \in Runners, CheckGuard(r) PROVE EvidenceInv'
    BY <2>11, <2>f, <2>l, EvidenceQuiet, SMTT(30) DEF CheckGuard, Late, Labels
  <2>r. ASSUME NEW r \in Runners, NEW from \in {"target", "temp"}, NEW to \in {"target", "guard"},
               NEW l \in {"pair", "settled"}, Link(r, from, to, l), pc[r] \in Late
        PROVE  EvidenceInv'
    <3>1. CASE Fail(r)
      BY <3>1, <2>f
    <3>2. CASE ~Fail(r)
      <4>1. name' = [name EXCEPT ![to] = name[from]] /\ UNCHANGED <<data, wanted, open>>
            /\ pc' = [pc EXCEPT ![r] = l]
        BY <2>r, <3>2 DEF Link
      <4> QED
        BY <2>r, <4>1, <2>l, EvidenceRename DEF Files
    <3> QED
      BY <3>1, <3>2
  <2>u. ASSUME NEW r \in Runners, NEW f \in {"target", "temp", "guard"},
               NEW l \in {"install", "checkGuard", "cleanup"}, Unlink(r, f, l), pc[r] \in Late
        PROVE  EvidenceInv'
    <3>1. CASE Fail(r)
      BY <3>1, <2>f
    <3>2. CASE ~Fail(r)
      <4>1. name' = [name EXCEPT ![f] = NoInode] /\ UNCHANGED <<data, wanted, open>>
            /\ pc' = [pc EXCEPT ![r] = l]
        BY <2>u, <3>2 DEF Unlink
      <4> QED
        BY <2>u, <4>1, <2>l, EvidenceRename
    <3> QED
      BY <3>1, <3>2
  <2>12. ASSUME NEW r \in Runners, LinkGuard(r) PROVE EvidenceInv'
    BY <2>12, <2>r DEF LinkGuard, Late, Labels
  <2>13. ASSUME NEW r \in Runners, CheckPair(r) PROVE EvidenceInv'
    BY <2>13, <2>f, <2>l, EvidenceQuiet DEF CheckPair, Late, Labels
  <2>14. ASSUME NEW r \in Runners, UnlinkCheck(r) PROVE EvidenceInv'
    BY <2>14, <2>f, <2>l, EvidenceQuiet, SMTT(30) DEF UnlinkCheck, Late, Labels
  <2>15. ASSUME NEW r \in Runners, UnlinkTarget(r) PROVE EvidenceInv'
    BY <2>15, <2>u DEF UnlinkTarget, Late, Labels
  <2>16. ASSUME NEW r \in Runners, CheckInstall(r) PROVE EvidenceInv'
    BY <2>16, <2>f, <2>l, EvidenceQuiet DEF CheckInstall, Late, Labels
  <2>17. ASSUME NEW r \in Runners, LinkTarget(r) PROVE EvidenceInv'
    BY <2>17, <2>r DEF LinkTarget, Late, Labels
  <2>18. ASSUME NEW r \in Runners, Settled(r) PROVE EvidenceInv'
    BY <2>18, <2>f, <2>l, EvidenceQuiet DEF Settled, Late, Labels
  <2>19. ASSUME NEW r \in Runners, CheckTempGone(r) PROVE EvidenceInv'
    BY <2>19, <2>l, EvidenceQuiet DEF CheckTempGone, Late, Labels
  <2>20. ASSUME NEW r \in Runners, UnlinkTemp(r) PROVE EvidenceInv'
    BY <2>20, <2>u DEF UnlinkTemp, Late, Labels
  <2>21. ASSUME NEW r \in Runners, CheckGuardGone(r) PROVE EvidenceInv'
    BY <2>21, <2>l, EvidenceQuiet DEF CheckGuardGone, Late, Labels
  <2>22. ASSUME NEW r \in Runners, UnlinkGuard(r) PROVE EvidenceInv'
    BY <2>22, <2>u DEF UnlinkGuard, Late, Labels
  <2>23. ASSUME NEW r \in Runners, Cleanup(r) PROVE EvidenceInv'
    BY <2>23, <2>f, EvidenceQuiet DEF Cleanup, Leave, Late
  <2>24. ASSUME NEW r \in Runners, Stop(r) PROVE EvidenceInv'
    BY <2>24, EvidenceQuiet DEF Stop, Leave, Late
  <2>25. ASSUME SaveInPlace PROVE EvidenceInv'
    <3>1. name["target"] \in Inodes /\ data'[name["target"]] = "user"
      BY <2>25 DEF SaveInPlace, Exists, Files, Bytes
    <3>2. Hash("rollback")' = Hash("rollback") /\ Hash("target")' = "user"
      BY <2>25, <3>1 DEF SaveInPlace, EvidenceInv, Hash, Exists, Files, Edited
    <3> QED
      BY <2>25, <3>1, <3>2 DEF SaveInPlace, Edited, EvidenceInv, EvidenceFirst, Exists
  <2>26. ASSUME SaveByRename PROVE EvidenceInv'
    <3>1. PICK i \in Free : name' = [name EXCEPT !["target"] = i] /\ data' = [data EXCEPT ![i] = "user"]
      BY <2>26 DEF SaveByRename
    <3>2. i \in Inodes /\ \A f \in Files : name[f] # i
      BY <3>1 DEF Free
    <3>3. /\ Hash("rollback")' = Hash("rollback") /\ Hash("target")' = "user"
          /\ name'["rollback"] = name["rollback"] /\ name'["target"] = i
      BY <3>1, <3>2 DEF Hash, Exists, Files
    <3> QED
      BY <2>26, <3>1, <3>2, <3>3 DEF SaveByRename, Edited, EvidenceInv, EvidenceFirst, Exists, Files
  <2>27. ASSUME Remove PROVE EvidenceInv'
    BY <2>27 DEF Remove, Edited, EvidenceInv, EvidenceFirst, Exists, Hash, Files
  <2>28. CASE UNCHANGED vars
    BY <2>28 DEF vars, EvidenceInv, EvidenceFirst, Exists, Hash
  <2> QED
    BY <2>1, <2>2, <2>3, <2>4, <2>5, <2>6, <2>7, <2>8, <2>9, <2>10, <2>11, <2>12, <2>13,
       <2>14, <2>15, <2>16, <2>17, <2>18, <2>19, <2>20, <2>21, <2>22, <2>23, <2>24,
       <2>25, <2>26, <2>27, <2>28 DEF Next, Step, Editor
<1>3. EvidenceInv => EvidenceFirst
  BY DEF EvidenceInv
<1> QED
  BY <1>1, <1>2, <1>3, PTL DEF Spec

-----------------------------------------------------------------------------
(* The steps after the replacement has been seen in place. *)
Tidying == {"checkTemp", "unlinkTemp", "checkGuard", "unlinkGuard", "cleanup"}

(* What keeps the user's last bytes: one runner at a time, a writer's file is
   none of the names the user can reach, the target is only unlinked while
   both names are the original and only linked while the guard is, and the
   siblings only go once the target holds whatever the user wants. *)
KeptInv ==
  /\ TypeOK
  /\ \A r \in Runners : pc[r] # "idle" => holder = r
  /\ \A r \in Runners : open[r] # NoInode =>
       /\ pc[r] \in {"writeTemp", "writeRollback"}
       /\ open[r] \notin {name["target"], name["guard"]}
  /\ \A r \in Runners : pc[r] = "unlinkTarget" =>
       Hash("target") = "before" /\ Hash("guard") = "before"
  /\ \A r \in Runners : pc[r] = "linkTarget" =>
       Hash("guard") = "before" /\ name["target"] # name["guard"]
  /\ \A r \in Runners : pc[r] \in Tidying /\ wanted = "user" => Hash("target") = "user"
  /\ Hash("target") = "proposed" => wanted # "user"
  /\ NoClobber

(* A step that leaves names, bytes and the editor alone. *)
LEMMA KeptQuiet ==
  ASSUME KeptInv, TypeOK', NEW r \in Runners,
         UNCHANGED <<name, data, wanted>>,
         \A q \in Runners \ {r} : pc'[q] = pc[q],
         \A q \in Runners : open'[q] \in {open[q], NoInode},
         open'[r] = NoInode \/ pc'[r] = pc[r],
         pc[r] = "idle" => holder = NoRunner,
         pc'[r] # "idle" => holder' = r,
         pc'[r] = "idle" => holder' = IF holder = r THEN NoRunner ELSE holder,
         pc'[r] = "unlinkTarget" => Hash("target") = "before" /\ Hash("guard") = "before",
         pc'[r] = "linkTarget" => Hash("guard") = "before" /\ ~Exists("target"),
         pc'[r] \in Tidying => pc[r] \in Tidying \/ Hash("target") = "proposed"
  PROVE  KeptInv'
<1>1. Hash("target")' = Hash("target") /\ Hash("guard")' = Hash("guard")
  BY DEF Hash, Exists
<1>2. NoClobber'
  BY <1>1 DEF KeptInv, NoClobber
<1>3. \A q \in Runners : pc'[q] # "idle" => holder' = q
  BY ConstantFacts DEF KeptInv, Constant
<1>4. pc'[r] = "linkTarget" => name["target"] # name["guard"]
  BY DEF Hash, Exists
<1> QED
  BY <1>1, <1>2, <1>3, <1>4 DEF KeptInv

(* An active runner has the guard and is the only one active. *)
LEMMA OneActive ==
  ASSUME KeptInv, NEW r \in Runners, pc[r] # "idle"
  PROVE  /\ holder = r
         /\ \A q \in Runners \ {r} : pc[q] = "idle" /\ open[q] = NoInode
         /\ pc[r] \notin {"writeTemp", "writeRollback"} => open[r] = NoInode
BY DEF KeptInv

(* While nobody edits between the last check and the unlink, and installers
   keep the transition guard, the bytes the user saved last are behind the
   target or its guard: an edit is answered by a conflict, never overwritten
   (source_install.rs:125-161). *)
THEOREM NoOverwrite ==
  ASSUME ~LateEdits, ~Unguarded
  PROVE  Spec => []NoClobber
<1> USE ConstantFacts DEF Constant
<1>1. Init => KeptInv
  <2> SUFFICES ASSUME Init PROVE KeptInv
    OBVIOUS
  <2>1. TypeOK /\ Hash("target") = "before" /\ wanted = "nothing"
    BY InitType DEF Init, Hash, Exists, Files
  <2>2. \A r \in Runners : pc[r] = "idle" /\ open[r] = NoInode
    BY DEF Init
  <2> QED
    BY <2>1, <2>2 DEF KeptInv, NoClobber, Tidying
<1>2. KeptInv /\ [Next]_vars => KeptInv'
  <2> SUFFICES ASSUME KeptInv, [Next]_vars PROVE KeptInv'
    OBVIOUS
  <2>t. TypeOK /\ TypeOK'
    BY StepType DEF KeptInv
  <2> USE <2>t DEF TypeOK, Goto, Local, Steady
  <2>f. ASSUME NEW r \in Runners, Fail(r), pc[r] # "idle" PROVE KeptInv'
    BY <2>f, OneActive, KeptQuiet DEF Fail, Leave, Tidying
  <2>1. ASSUME NEW r \in Runners, Plan(r) PROVE KeptInv'
    <3>1. open[r] = NoInode
      BY <2>1 DEF KeptInv, Plan
    <3> QED
      BY <2>1, <3>1, KeptQuiet DEF Plan, Tidying
  <2>2. ASSUME NEW r \in Runners, Recover(r) PROVE KeptInv'
    <3>1. open[r] = NoInode
      BY <2>2 DEF KeptInv, Recover
    <3> QED
      BY <2>2, <3>1, KeptQuiet DEF Recover, Tidying
  <2>3. ASSUME NEW r \in Runners, Commit(r) PROVE KeptInv'
    BY <2>3, <2>f, OneActive, KeptQuiet DEF Commit, Tidying
  <2>4. ASSUME NEW r \in Runners, ReadTarget(r) PROVE KeptInv'
    BY <2>4, <2>f, OneActive, KeptQuiet DEF ReadTarget, Tidying
  <2>5. ASSUME NEW r \in Runners, CheckRollback(r) PROVE KeptInv'
    BY <2>5, <2>f, OneActive, KeptQuiet DEF CheckRollback, Tidying
  <2>c. ASSUME NEW r \in Runners, NEW f \in {"temp", "rollback"},
               NEW l \in {"writeTemp", "writeRollback"}, Create(r, f, l), pc[r] # "idle"
        PROVE  KeptInv'
    <3>1. CASE Fail(r)
      BY <2>c, <3>1, <2>f
    <3>2. CASE ~Fail(r)
      <4>1. PICK i \in Free : /\ name' = [name EXCEPT ![f] = i]
                             /\ data' = [data EXCEPT ![i] = "part"]
                             /\ open' = [open EXCEPT ![r] = i]
        BY <2>c, <3>2 DEF Create
      <4>2. UNCHANGED <<holder, wanted>> /\ pc' = [pc EXCEPT ![r] = l]
        BY <2>c, <3>2 DEF Create
      <4>3. i \in Inodes /\ \A g \in Files : name[g] # i
        BY DEF Free
      <4>4. /\ Hash("target")' = Hash("target") /\ Hash("guard")' = Hash("guard")
            /\ name'["target"] = name["target"] /\ name'["guard"] = name["guard"]
        BY <4>1, <4>3 DEF Hash, Exists, Files
      <4> QED
        BY <2>c, <4>1, <4>2, <4>3, <4>4, OneActive DEF KeptInv, NoClobber, Tidying, Files
    <3> QED
      BY <3>1, <3>2
  <2>w. ASSUME NEW r \in Runners, NEW f \in {"temp", "rollback"}, NEW b \in {"proposed", "before"},
               NEW l \in {"temp", "hashes"}, Write(r, f, b, l),
               pc[r] \in {"writeTemp", "writeRollback"}
        PROVE  KeptInv'
    <3>1. open[r] # NoInode => open[r] \notin {name["target"], name["guard"]}
      BY DEF KeptInv
    <3>2. Hash("target")' = Hash("target") /\ Hash("guard")' = Hash("guard")
      BY <2>w, <3>1 DEF Write, Hash, Exists, Files
    <3> QED
      BY <2>w, <3>2, OneActive DEF Write, KeptInv, NoClobber, Tidying
  <2>6. ASSUME NEW r \in Runners, MakeRollback(r) PROVE KeptInv'
    BY <2>6, <2>f, <2>c, OneActive, KeptQuiet DEF MakeRollback, Tidying, Labels
  <2>7. ASSUME NEW r \in Runners, WriteRollback(r) PROVE KeptInv'
    BY <2>7, <2>w DEF WriteRollback
  <2>8. ASSUME NEW r \in Runners, MakeTemp(r) PROVE KeptInv'
    BY <2>8, <2>f, <2>c, OneActive, KeptQuiet DEF MakeTemp, Tidying, Labels
  <2>9. ASSUME NEW r \in Runners, WriteTemp(r) PROVE KeptInv'
    BY <2>9, <2>w DEF WriteTemp
  <2>10. ASSUME NEW r \in Runners, ReadHashes(r) PROVE KeptInv'
    BY <2>10, <2>f, OneActive, KeptQuiet, SMTT(30) DEF ReadHashes, Tidying
  <2>11. ASSUME NEW r \in Runners, CheckGuard(r) PROVE KeptInv'
    BY <2>11, <2>f, OneActive, KeptQuiet DEF CheckGuard, Tidying
  <2>12. ASSUME NEW r \in Runners, LinkGuard(r) PROVE KeptInv'
    <3>1. CASE Fail(r)
      BY <2>12, <3>1, <2>f DEF LinkGuard
    <3>2. CASE ~Fail(r)
      <4>1. /\ pc[r] = "linkGuard" /\ ~Exists("guard") /\ pc' = [pc EXCEPT ![r] = "pair"]
            /\ name' = [name EXCEPT !["guard"] = name["target"]]
            /\ UNCHANGED <<data, wanted, open, holder>>
        BY <2>12, <3>2 DEF LinkGuard, Link
      <4>2. Hash("target")' = Hash("target") /\ Hash("guard") = "none"
            /\ name'["target"] = name["target"] /\ name'["guard"] = name["target"]
        BY <4>1 DEF Hash, Exists, Files
      <4>3. NoClobber'
        BY <4>1, <4>2 DEF KeptInv, NoClobber
      <4> QED
        BY <4>1, <4>2, <4>3, OneActive DEF KeptInv, Tidying
    <3> QED
      BY <3>1, <3>2
  <2>13. ASSUME NEW r \in Runners, CheckPair(r) PROVE KeptInv'
    BY <2>13, <2>f, OneActive, KeptQuiet DEF CheckPair, Tidying
  <2>14. ASSUME NEW r \in Runners, UnlinkCheck(r) PROVE KeptInv'
    BY <2>14, <2>f, OneActive, KeptQuiet DEF UnlinkCheck, Tidying, OriginalPair, Original
  <2>15. ASSUME NEW r \in Runners, UnlinkTarget(r) PROVE KeptInv'
    <3>1. CASE Fail(r)
      BY <2>15, <3>1, <2>f DEF UnlinkTarget
    <3>2. CASE ~Fail(r)
      <4>1. /\ pc[r] = "unlinkTarget" /\ pc' = [pc EXCEPT ![r] = "install"]
            /\ name' = [name EXCEPT !["target"] = NoInode]
            /\ UNCHANGED <<data, wanted, open, holder>>
        BY <2>15, <3>2 DEF UnlinkTarget, Unlink
      <4>2. wanted # "user"
        BY <4>1 DEF KeptInv, NoClobber
      <4>3. Hash("target")' = "none"
        BY <4>1 DEF Hash, Exists, Files
      <4> QED
        BY <4>1, <4>2, <4>3, OneActive DEF KeptInv, NoClobber, Tidying
    <3> QED
      BY <3>1, <3>2
  <2>16. ASSUME NEW r \in Runners, CheckInstall(r) PROVE KeptInv'
    BY <2>16, <2>f, OneActive, KeptQuiet DEF CheckInstall, Tidying, Original
  <2>17. ASSUME NEW r \in Runners, LinkTarget(r) PROVE KeptInv'
    <3>1. CASE Fail(r)
      BY <2>17, <3>1, <2>f DEF LinkTarget
    <3>2. CASE ~Fail(r)
      <4>1. /\ pc[r] = "linkTarget" /\ ~Exists("target") /\ pc' = [pc EXCEPT ![r] = "settled"]
            /\ name' = [name EXCEPT !["target"] = name["temp"]]
            /\ UNCHANGED <<data, wanted, open, holder>>
        BY <2>17, <3>2 DEF LinkTarget, Link
      <4>2. wanted # "user"
        BY <4>1 DEF KeptInv, NoClobber, Hash
      <4> QED
        BY <4>1, <4>2, OneActive DEF KeptInv, NoClobber, Tidying
    <3> QED
      BY <3>1, <3>2
  <2>18. ASSUME NEW r \in Runners, Settled(r) PROVE KeptInv'
    BY <2>18, <2>f, OneActive, KeptQuiet DEF Settled, Tidying
  <2>19. ASSUME NEW r \in Runners, CheckTempGone(r) PROVE KeptInv'
    BY <2>19, <2>f, OneActive, KeptQuiet DEF CheckTempGone, Tidying
  <2>20. ASSUME NEW r \in Runners, UnlinkTemp(r) PROVE KeptInv'
    <3>1. CASE Fail(r)
      BY <2>20, <3>1, <2>f DEF UnlinkTemp
    <3>2. CASE ~Fail(r)
      <4>1. /\ pc[r] = "unlinkTemp" /\ pc' = [pc EXCEPT ![r] = "checkGuard"]
            /\ name' = [name EXCEPT !["temp"] = NoInode]
            /\ UNCHANGED <<data, wanted, open, holder>>
        BY <2>20, <3>2 DEF UnlinkTemp, Unlink
      <4>2. Hash("target")' = Hash("target") /\ Hash("guard")' = Hash("guard")
        BY <4>1 DEF Hash, Exists, Files
      <4> QED
        BY <4>1, <4>2, OneActive DEF KeptInv, NoClobber, Tidying
    <3> QED
      BY <3>1, <3>2
  <2>21. ASSUME NEW r \in Runners, CheckGuardGone(r) PROVE KeptInv'
    BY <2>21, <2>f, OneActive, KeptQuiet DEF CheckGuardGone, Tidying
  <2>22. ASSUME NEW r \in Runners, UnlinkGuard(r) PROVE KeptInv'
    <3>1. CASE Fail(r)
      BY <2>22, <3>1, <2>f DEF UnlinkGuard
    <3>2. CASE ~Fail(r)
      <4>1. /\ pc[r] = "unlinkGuard" /\ pc' = [pc EXCEPT ![r] = "cleanup"]
            /\ name' = [name EXCEPT !["guard"] = NoInode]
            /\ UNCHANGED <<data, wanted, open, holder>>
        BY <2>22, <3>2 DEF UnlinkGuard, Unlink
      <4>2. Hash("target")' = Hash("target")
        BY <4>1 DEF Hash, Exists, Files
      <4> QED
        BY <4>1, <4>2, OneActive DEF KeptInv, NoClobber, Tidying
    <3> QED
      BY <3>1, <3>2
  <2>23. ASSUME NEW r \in Runners, Cleanup(r) PROVE KeptInv'
    BY <2>23, <2>f, OneActive, KeptQuiet DEF Cleanup, Leave, Tidying
  <2>24. ASSUME NEW r \in Runners, Stop(r) PROVE KeptInv'
    BY <2>24, OneActive, KeptQuiet DEF Stop, Leave, Tidying
  <2>25. ASSUME SaveInPlace PROVE KeptInv'
    <3>1. name["target"] \in Inodes /\ \A r \in Runners : pc[r] # "unlinkTarget"
      BY <2>25 DEF SaveInPlace, MayEdit, Exists, Files
    <3>2. /\ Hash("target")' = "user"
          /\ name["target"] # name["guard"] => Hash("guard")' = Hash("guard")
      BY <2>25, <3>1 DEF SaveInPlace, Hash, Exists, Files, Edited
    <3> QED
      BY <2>25, <3>1, <3>2 DEF SaveInPlace, Edited, KeptInv, NoClobber
  <2>26. ASSUME SaveByRename PROVE KeptInv'
    <3>1. PICK i \in Free : name' = [name EXCEPT !["target"] = i] /\ data' = [data EXCEPT ![i] = "user"]
      BY <2>26 DEF SaveByRename
    <3>2. /\ i \in Inodes /\ \A f \in Files : name[f] # i
          /\ \A r \in Runners : open[r] # i /\ pc[r] # "unlinkTarget"
      BY <2>26, <3>1 DEF Free, SaveByRename, MayEdit
    <3>3. /\ Hash("guard")' = Hash("guard") /\ Hash("target")' = "user"
          /\ name'["guard"] = name["guard"] /\ name'["target"] = i
      BY <3>1, <3>2 DEF Hash, Exists, Files
    <3> QED
      BY <2>26, <3>2, <3>3 DEF SaveByRename, Edited, KeptInv, NoClobber, Files
  <2>27. ASSUME Remove PROVE KeptInv'
    <3>1. /\ name' = [name EXCEPT !["target"] = NoInode] /\ wanted' = "gone"
          /\ UNCHANGED <<data, pc, open, holder>>
          /\ \A r \in Runners : pc[r] # "unlinkTarget"
      BY <2>27 DEF Remove, Edited, MayEdit
    <3>2. Hash("guard")' = Hash("guard") /\ name'["guard"] = name["guard"] /\ name'["target"] = NoInode
      BY <3>1 DEF Hash, Exists, Files
    <3>3. Hash("guard") = "before" => name["guard"] # NoInode
      BY DEF Hash, Exists
    <3> QED
      BY <3>1, <3>2, <3>3 DEF KeptInv, NoClobber, Tidying
  <2>28. CASE UNCHANGED vars
    BY <2>28 DEF vars, KeptInv, NoClobber, Exists, Hash
  <2> QED
    BY <2>1, <2>2, <2>3, <2>4, <2>5, <2>6, <2>7, <2>8, <2>9, <2>10, <2>11, <2>12, <2>13,
       <2>14, <2>15, <2>16, <2>17, <2>18, <2>19, <2>20, <2>21, <2>22, <2>23, <2>24,
       <2>25, <2>26, <2>27, <2>28 DEF Next, Step, Editor
<1>3. KeptInv => NoClobber
  BY DEF KeptInv
<1> QED
  BY <1>1, <1>2, <1>3, PTL DEF Spec
-----------------------------------------------------------------------------
(* The three states the two names are in while nobody edits: the target is
   still the original; it is unlinked, with both copies kept; the new bytes
   are in place. *)
Untouched == Original("target") /\ name["temp"] # plan
Parted == ~Exists("target") /\ Original("guard") /\ Hash("temp") = "proposed"
Replaced == Hash("target") = "proposed" /\ name["temp"] \in {NoInode, name["target"]}

(* What a runner may rely on at each of its steps. *)
Place(r) ==
  /\ pc[r] \in {"rollback", "makeRollback", "writeRollback", "temp"} =>
       seen[r].target = Hash("target")
  /\ pc[r] = "writeRollback" => open[r] \notin {name["target"], name["temp"], name["guard"]}
  /\ pc[r] = "writeTemp" => Untouched /\ open[r] = name["temp"] /\ Exists("temp")
  /\ pc[r] = "hashes" /\ Untouched => Exists("temp")
  /\ pc[r] \in {"guard", "linkGuard", "pair", "unlinkCheck"} /\ Untouched => Hash("temp") = "proposed"
  /\ pc[r] = "linkGuard" => Untouched
  /\ pc[r] = "unlinkTarget" => Untouched /\ Original("guard") /\ Hash("temp") = "proposed"
  /\ pc[r] \in Tidying => Replaced
  /\ pc[r] \in {"checkGuard", "unlinkGuard", "cleanup"} => ~Exists("temp")
  /\ pc[r] = "cleanup" => ~Exists("guard")

(* A replacement that is over: nothing of it can be picked up again. *)
Over ==
  /\ plan # NoInode /\ ~journal /\ Hash("target") = "proposed"
  /\ ~Exists("temp") /\ ~Exists("guard")
  /\ \A q \in Runners : pc[q] = "idle"

(* While nobody edits: one runner at a time, the names in one of the three
   states, and a success only reported of a replacement that is over. *)
Undisturbed ==
  /\ \A r \in Runners : pc[r] # "idle" => holder = r
  /\ plan = NoInode => Exists("target") /\ ~journal /\ \A r \in Runners : pc[r] = "idle"
  /\ plan # NoInode => Untouched \/ Parted \/ Replaced
  /\ Exists("guard") /\ plan # NoInode => Original("guard")
  /\ \A r \in Runners : Place(r)
  /\ \A r \in Runners : outcome[r] = "installed" => Over
InstallInv == TypeOK /\ (edits = 0 => Undisturbed)

(* An active runner is alone, its plan is made and nothing is over. *)
LEMMA Alone ==
  ASSUME TypeOK, Undisturbed, NEW r \in Runners, pc[r] # "idle"
  PROVE  /\ holder = r /\ plan # NoInode /\ ~Over
         /\ \A q \in Runners \ {r} : pc[q] = "idle"
         /\ Untouched \/ Parted \/ Replaced
         /\ Exists("guard") => Original("guard")
         /\ Place(r)
BY DEF Undisturbed, Over

(* What a step of the one active runner has to account for. *)
LEMMA Onward ==
  ASSUME Undisturbed, TypeOK', NEW r \in Runners, ~Over,
         \A q \in Runners \ {r} : pc[q] = "idle" /\ pc'[q] = "idle" /\ outcome'[q] = outcome[q],
         outcome'[r] \in {outcome[r], "failed"},
         pc'[r] # "idle" => holder' = r,
         plan' # NoInode,
         Untouched' \/ Parted' \/ Replaced',
         Exists("guard")' => Original("guard")',
         Place(r)'
  PROVE  Undisturbed'
<1>1. \A q \in Runners : outcome[q] # "installed"
  BY DEF Undisturbed
<1>2. \A q \in Runners : outcome'[q] # "installed"
  BY <1>1
<1>3. \A q \in Runners \ {r} : Place(q)'
  BY DEF Place, Tidying
<1>4. \A q \in Runners : pc'[q] # "idle" => holder' = q
  OBVIOUS
<1> QED
  BY <1>2, <1>3, <1>4 DEF Undisturbed

(* The same for a step that leaves names and bytes alone. *)
LEMMA OnwardQuiet ==
  ASSUME Undisturbed, TypeOK, TypeOK', NEW r \in Runners,
         UNCHANGED <<name, data, plan>>,
         pc[r] # "idle",
         \A q \in Runners \ {r} : pc'[q] = pc[q] /\ outcome'[q] = outcome[q],
         outcome'[r] \in {outcome[r], "failed"},
         pc'[r] # "idle" => holder' = r,
         Place(r)'
  PROVE  Undisturbed'
<1>1. /\ Untouched' = Untouched /\ Parted' = Parted /\ Replaced' = Replaced
      /\ Exists("guard")' = Exists("guard") /\ Original("guard")' = Original("guard")
  BY DEF Untouched, Parted, Replaced, Original, Hash, Exists
<1> QED
  BY <1>1, Alone, Onward

(* While nobody edits and installers keep the transition guard, the bytes of
   the user's file are never lost, and a success is only reported of a
   replacement that is in place with nothing left beside it, whatever stops
   where, a torn write included (source_install.rs:97-190). *)
THEOREM FileKept ==
  ASSUME ~Unguarded
  PROVE  Spec => [](SourceKept /\ ReportedInstalled)
<1> USE ConstantFacts DEF Constant
<1>1. Init => InstallInv
  <2> SUFFICES ASSUME Init PROVE InstallInv
    OBVIOUS
  <2>1. TypeOK /\ Exists("target")
    BY InitType DEF Init, Exists, Files
  <2>2. plan = NoInode /\ ~journal /\ \A r \in Runners : pc[r] = "idle" /\ outcome[r] = "none"
    BY DEF Init
  <2>3. \A r \in Runners : Place(r)
    BY <2>2 DEF Place, Tidying
  <2> QED
    BY <2>1, <2>2, <2>3 DEF InstallInv, Undisturbed
<1>2. InstallInv /\ [Next]_vars => InstallInv'
  <2> SUFFICES ASSUME InstallInv, [Next]_vars, edits = 0, edits' = 0 PROVE Undisturbed'
    <3>1. ASSUME edits # 0, InstallInv, [Next]_vars PROVE edits' # 0
      <4>1. edits \in Nat
        BY <3>1 DEF InstallInv, TypeOK
      <4>2. edits' = edits \/ edits' = edits + 1
        BY <3>1, ZenonT(30) DEF Next, Step, Editor, Plan, Recover, Stop, Commit, ReadTarget, CheckRollback,
           MakeRollback, WriteRollback, MakeTemp, WriteTemp, ReadHashes, CheckGuard, LinkGuard,
           CheckPair, UnlinkCheck, UnlinkTarget, CheckInstall, LinkTarget, Settled, CheckTempGone,
           UnlinkTemp, CheckGuardGone, UnlinkGuard, Cleanup, Fail, Local, Create, Write, Link,
           Unlink, SaveInPlace, SaveByRename, Remove, Edited, vars
      <4> QED
        BY <3>1, <4>1, <4>2
    <3> QED
      BY <3>1, StepType DEF InstallInv
  <2>t. TypeOK /\ TypeOK' /\ Undisturbed
    BY StepType DEF InstallInv
  <2> USE <2>t DEF TypeOK, Goto, Local, Steady
  <2>f. ASSUME NEW r \in Runners, Fail(r), pc[r] # "idle" PROVE Undisturbed'
    <3>1. Place(r)'
      BY <2>f DEF Fail, Leave, Place, Tidying
    <3> QED
      BY <2>f, <3>1, OnwardQuiet DEF Fail, Leave
  <2>1. ASSUME NEW r \in Runners, Plan(r) PROVE Undisturbed'
    <3>1. /\ pc' = [pc EXCEPT ![r] = "commit"] /\ holder' = r /\ plan' = name["target"]
          /\ UNCHANGED <<name, data, outcome>> /\ plan = NoInode
          /\ Hash("target") = "before" /\ \A f \in Files \ {"target"} : ~Exists(f)
      BY <2>1 DEF Plan
    <3>2. \A q \in Runners : pc[q] = "idle"
      BY <3>1 DEF Undisturbed
    <3>3. Untouched' /\ ~Exists("guard")' /\ plan' # NoInode
      BY <3>1 DEF Untouched, Original, Hash, Exists, Files
    <3>4. Place(r)'
      BY <3>1 DEF Place, Tidying
    <3> QED
      BY <3>1, <3>2, <3>3, <3>4, Onward DEF Over
  <2>2. ASSUME NEW r \in Runners, Recover(r) PROVE Undisturbed'
    <3>1. /\ pc' = [pc EXCEPT ![r] = "readTarget"] /\ holder' = r /\ journal /\ holder = NoRunner
          /\ UNCHANGED <<name, data, plan, outcome>>
      BY <2>2 DEF Recover
    <3>2. /\ \A q \in Runners : pc[q] = "idle"
          /\ plan # NoInode /\ ~Over
      BY <3>1 DEF Undisturbed, Over
    <3>3. /\ Untouched' = Untouched /\ Parted' = Parted /\ Replaced' = Replaced
          /\ Exists("guard")' = Exists("guard") /\ Original("guard")' = Original("guard")
      BY <3>1 DEF Untouched, Parted, Replaced, Original, Hash, Exists
    <3>4. Place(r)'
      BY <3>1 DEF Place, Tidying
    <3>5. (Untouched \/ Parted \/ Replaced) /\ (Exists("guard") => Original("guard"))
      BY <3>2 DEF Undisturbed
    <3> QED
      BY <3>1, <3>2, <3>3, <3>4, <3>5, Onward
  <2>q. ASSUME NEW r \in Runners, pc[r] # "idle", UNCHANGED <<name, data>>
        PROVE  /\ Untouched /\ plan' = plan => Untouched'
               /\ Untouched' /\ plan' = plan => Untouched
               /\ Original("guard") /\ plan' = plan => Original("guard")'
               /\ \A f \in Files : Hash(f)' = Hash(f) /\ Exists(f)' = Exists(f)
               /\ Replaced => Replaced'
    BY <2>q DEF Untouched, Original, Replaced, Hash, Exists
  <2>3. ASSUME NEW r \in Runners, Commit(r) PROVE Undisturbed'
    <3>1. Place(r)'
      BY <2>3 DEF Commit, Place, Tidying
    <3> QED
      BY <2>3, <3>1, Alone, OnwardQuiet DEF Commit
  <2>4. ASSUME NEW r \in Runners, ReadTarget(r) PROVE Undisturbed'
    <3>1. pc'[r] = "rollback" /\ seen'[r].target = Hash("target") /\ Hash("target")' = Hash("target")
      BY <2>4 DEF ReadTarget, Hash, Exists
    <3>2. Place(r)'
      BY <3>1 DEF Place, Tidying
    <3> QED
      BY <2>4, <3>2, Alone, OnwardQuiet DEF ReadTarget
  <2>5. ASSUME NEW r \in Runners, CheckRollback(r) PROVE Undisturbed'
    <3>1. CASE Fail(r)
      BY <2>5, <3>1, <2>f DEF CheckRollback
    <3>2. CASE ~Fail(r)
      <4>1. /\ pc[r] = "rollback" /\ pc' = [pc EXCEPT ![r] = pc'[r]]
            /\ pc'[r] \in {"temp", "makeRollback"} /\ seen' = seen
            /\ Local /\ Steady
        BY <2>5, <3>2 DEF CheckRollback
      <4>2. Place(r)'
        BY <4>1, <2>q, Alone DEF Place, Tidying, Files
      <4> QED
        BY <4>1, <4>2, Alone, OnwardQuiet
    <3> QED
      BY <3>1, <3>2
  <2>c. ASSUME NEW r \in Runners, NEW f \in {"temp", "rollback"},
               NEW l \in {"writeTemp", "writeRollback"}, Create(r, f, l), ~Fail(r),
               pc[r] # "idle"
        PROVE  /\ pc' = [pc EXCEPT ![r] = l] /\ UNCHANGED <<plan, seen, outcome, holder>>
               /\ ~Exists(f) /\ open'[r] = name'[f] /\ Exists(f)'
               /\ \A g \in Files \ {f} : /\ name'[g] = name[g] /\ Hash(g)' = Hash(g)
                                         /\ Exists(g)' = Exists(g) /\ open'[r] # name'[g]
               /\ \E i \in Inodes : name'[f] = i /\ data'[i] = "part"
    <3>1. PICK i \in Free : /\ name' = [name EXCEPT ![f] = i]
                           /\ data' = [data EXCEPT ![i] = "part"]
                           /\ open' = [open EXCEPT ![r] = i]
      BY <2>c DEF Create
    <3>2. i \in Inodes /\ i # NoInode /\ \A g \in Files : name[g] # i
      BY DEF Free
    <3>3. \A g \in Files \ {f} : /\ name'[g] = name[g] /\ Hash(g)' = Hash(g)
                                 /\ Exists(g)' = Exists(g) /\ open'[r] # name'[g]
      BY <3>1, <3>2 DEF Hash, Exists, Files
    <3>4. open'[r] = name'[f] /\ Exists(f)' /\ name'[f] = i /\ data'[i] = "part"
      BY <3>1, <3>2 DEF Exists, Files
    <3> QED
      BY <2>c, <3>2, <3>3, <3>4 DEF Create
  <2>6. ASSUME NEW r \in Runners, MakeRollback(r) PROVE Undisturbed'
    <3>1. CASE Fail(r)
      BY <2>6, <3>1, <2>f DEF MakeRollback
    <3>2. CASE ~Fail(r)
      <4>1. pc[r] = "makeRollback" /\ Create(r, "rollback", "writeRollback")
        BY <2>6, <3>2 DEF MakeRollback
      <4>2. /\ pc' = [pc EXCEPT ![r] = "writeRollback"] /\ UNCHANGED <<plan, seen, outcome, holder>>
            /\ \A g \in {"target", "temp", "guard"} :
                 /\ name'[g] = name[g] /\ Hash(g)' = Hash(g)
                 /\ Exists(g)' = Exists(g) /\ open'[r] # name'[g]
        BY <4>1, <3>2, <2>c DEF Files
      <4>3. Place(r)'
        BY <4>1, <4>2, Alone DEF Place, Tidying
      <4>4. /\ Untouched' = Untouched /\ Parted' = Parted /\ Replaced' = Replaced
            /\ Original("guard")' = Original("guard")
        BY <4>2 DEF Untouched, Parted, Replaced, Original
      <4> QED
        BY <4>1, <4>2, <4>3, <4>4, Alone, Onward
    <3> QED
      BY <3>1, <3>2
  <2>7. ASSUME NEW r \in Runners, WriteRollback(r) PROVE Undisturbed'
    <3>1. /\ pc[r] = "writeRollback" /\ pc' = [pc EXCEPT ![r] = "temp"]
          /\ data' = [data EXCEPT ![open[r]] = "before"]
          /\ UNCHANGED <<name, plan, seen, outcome, holder>>
      BY <2>7 DEF WriteRollback, Write
    <3>2. open[r] \notin {name["target"], name["temp"], name["guard"]}
      BY <3>1, Alone DEF Place
    <3>3. \A g \in {"target", "temp", "guard"} : Hash(g)' = Hash(g) /\ Exists(g)' = Exists(g)
      BY <3>1, <3>2 DEF Hash, Exists, Files
    <3>4. /\ Untouched' = Untouched /\ Parted' = Parted /\ Replaced' = Replaced
          /\ Original("guard")' = Original("guard")
      BY <3>1, <3>3 DEF Untouched, Parted, Replaced, Original
    <3>5. Place(r)'
      BY <3>1, <3>3, Alone DEF Place, Tidying
    <3> QED
      BY <3>1, <3>3, <3>4, <3>5, Alone, Onward
  <2>8. ASSUME NEW r \in Runners, MakeTemp(r) PROVE Undisturbed'
    <3>1. CASE Fail(r)
      BY <2>8, <3>1, <2>f DEF MakeTemp
    <3>2. CASE ~Fail(r) /\ Create(r, "temp", "writeTemp") /\ seen[r].target # "proposed"
      <4>1. pc[r] = "temp" /\ seen[r].target = Hash("target")
        BY <2>8, Alone DEF MakeTemp, Place
      <4>2. /\ pc' = [pc EXCEPT ![r] = "writeTemp"] /\ UNCHANGED <<plan, seen, outcome, holder>>
            /\ ~Exists("temp") /\ open'[r] = name'["temp"] /\ Exists("temp")'
            /\ \A g \in {"target", "guard"} :
                 /\ name'[g] = name[g] /\ Hash(g)' = Hash(g)
                 /\ Exists(g)' = Exists(g) /\ open'[r] # name'[g]
        BY <4>1, <3>2, <2>c DEF Files
      <4>3. Untouched
        BY <4>1, <4>2, <3>2, Alone DEF Parted, Replaced, Hash
      <4>4. Untouched' /\ Original("guard")' = Original("guard")
        BY <4>2, <4>3 DEF Untouched, Original
      <4>5. Place(r)'
        BY <4>2, <4>4 DEF Place, Tidying
      <4> QED
        BY <4>1, <4>2, <4>4, <4>5, Alone, Onward
    <3>3. CASE /\ Exists("temp") \/ seen[r].target = "proposed"
               /\ Goto(r, "hashes") /\ Local /\ Steady
      <4>1. pc[r] = "temp" /\ pc'[r] = "hashes" /\ seen[r].target = Hash("target")
        BY <2>8, <3>3, Alone DEF MakeTemp, Place
      <4>2. Untouched => Exists("temp")
        BY <4>1, <3>3 DEF Untouched, Original
      <4>3. Place(r)'
        BY <4>1, <4>2, <3>3, <2>q DEF Place, Tidying, Files
      <4> QED
        BY <3>3, <4>1, <4>3, Alone, OnwardQuiet
    <3> QED
      BY <2>8, <3>1, <3>2, <3>3 DEF MakeTemp
  <2>9. ASSUME NEW r \in Runners, WriteTemp(r) PROVE Undisturbed'
    <3>1. /\ pc[r] = "writeTemp" /\ pc' = [pc EXCEPT ![r] = "hashes"]
          /\ data' = [data EXCEPT ![open[r]] = "proposed"]
          /\ UNCHANGED <<name, plan, seen, outcome, holder>>
      BY <2>9 DEF WriteTemp, Write
    <3>2. Untouched /\ open[r] = name["temp"] /\ Exists("temp")
      BY <3>1, Alone DEF Place
    <3>3. /\ Untouched'
          /\ Exists("guard")' = Exists("guard") /\ Exists("temp")'
          /\ Original("guard") => Original("guard")'
      BY <3>1, <3>2 DEF Untouched, Original, Hash, Exists, Files
    <3>4. Place(r)'
      BY <3>1, <3>3 DEF Place, Tidying
    <3> QED
      BY <3>1, <3>3, <3>4, Alone, Onward
  <2>10. ASSUME NEW r \in Runners, ReadHashes(r) PROVE Undisturbed'
    <3>1. CASE Fail(r)
      BY <2>10, <3>1, <2>f DEF ReadHashes
    <3>2. CASE ~Fail(r)
      <4>1. /\ pc[r] = "hashes" /\ pc' = [pc EXCEPT ![r] = "guard"]
            /\ Hash("temp") \in {"none", "proposed"}
            /\ Local /\ UNCHANGED <<open, outcome, holder>>
            /\ \A q \in Runners \ {r} : pc'[q] = pc[q] /\ outcome'[q] = outcome[q]
        BY <2>10, <3>2 DEF ReadHashes, Conflict, Hashes
      <4>2. Untouched => Hash("temp") = "proposed"
        BY <4>1, Alone DEF Place, Hash, Exists, Files, Bytes
      <4>3. Place(r)'
        BY <4>1, <4>2, <2>q DEF Place, Tidying, Files
      <4> QED
        BY <4>1, <4>3, Alone, OnwardQuiet
    <3> QED
      BY <3>1, <3>2
  <2>11. ASSUME NEW r \in Runners, CheckGuard(r) PROVE Undisturbed'
    <3>1. CASE Fail(r)
      BY <2>11, <3>1, <2>f DEF CheckGuard
    <3>2. CASE ~Fail(r)
      <4>1. /\ pc[r] = "guard" /\ pc' = [pc EXCEPT ![r] = pc'[r]] /\ pc'[r] \in {"unlinkCheck", "linkGuard"}
            /\ Local /\ Steady
            /\ pc'[r] = "linkGuard" => Original("target")
        BY <2>11, <3>2 DEF CheckGuard
      <4>3. Replaced => ~Original("target")
        BY DEF Replaced, Original
      <4>4. Parted => ~Original("target")
        BY DEF Parted, Original, Hash
      <4>2. Place(r)'
        BY <4>1, <4>3, <4>4, <2>q, Alone DEF Place, Tidying, Files
      <4> QED
        BY <4>1, <4>2, Alone, OnwardQuiet
    <3> QED
      BY <3>1, <3>2
  <2>12. ASSUME NEW r \in Runners, LinkGuard(r) PROVE Undisturbed'
    <3>1. CASE Fail(r)
      BY <2>12, <3>1, <2>f DEF LinkGuard
    <3>2. CASE ~Fail(r)
      <4>1. /\ pc[r] = "linkGuard" /\ pc' = [pc EXCEPT ![r] = "pair"]
            /\ name' = [name EXCEPT !["guard"] = name["target"]]
            /\ UNCHANGED <<data, plan, outcome, holder>>
        BY <2>12, <3>2 DEF LinkGuard, Link
      <4>2. Untouched /\ Hash("temp") = "proposed"
        BY <4>1, Alone DEF Place, Tidying
      <4>3. Untouched' /\ Original("guard")' /\ Hash("temp")' = "proposed"
        BY <4>1, <4>2, Alone DEF Untouched, Parted, Replaced, Original, Hash, Exists, Files
      <4>4. Place(r)'
        BY <4>1, <4>2, <4>3, Alone DEF Place, Tidying, Exists, Files
      <4> QED
        BY <4>1, <4>3, <4>4, Alone, Onward
    <3> QED
      BY <3>1, <3>2
  <2>13. ASSUME NEW r \in Runners, CheckPair(r) PROVE Undisturbed'
    <3>1. CASE Fail(r)
      BY <2>13, <3>1, <2>f DEF CheckPair
    <3>2. CASE ~Fail(r)
      <4>1. /\ pc[r] = "pair" /\ pc' = [pc EXCEPT ![r] = pc'[r]] /\ pc'[r] \in {"unlinkCheck"}
            /\ Local /\ Steady
        BY <2>13, <3>2 DEF CheckPair
      <4>2. Place(r)'
        BY <4>1, <2>q, Alone DEF Place, Tidying, Files
      <4> QED
        BY <4>1, <4>2, Alone, OnwardQuiet
    <3> QED
      BY <3>1, <3>2
  <2>14. ASSUME NEW r \in Runners, UnlinkCheck(r) PROVE Undisturbed'
    <3>1. CASE Fail(r)
      BY <2>14, <3>1, <2>f DEF UnlinkCheck
    <3>2. CASE ~Fail(r)
      <4>1. /\ pc[r] = "unlinkCheck" /\ pc' = [pc EXCEPT ![r] = pc'[r]] /\ pc'[r] \in {"unlinkTarget", "install"}
            /\ Local /\ Steady
            /\ pc'[r] = "unlinkTarget" => OriginalPair
        BY <2>14, <3>2 DEF UnlinkCheck
      <4>3. OriginalPair => Untouched /\ Hash("temp") = "proposed" /\ Original("guard")
        BY <4>1, Alone DEF OriginalPair, Original, Parted, Replaced, Place, Hash
      <4>2. Place(r)'
        BY <4>1, <4>3, <2>q, Alone DEF Place, Tidying, Files
      <4> QED
        BY <4>1, <4>2, Alone, OnwardQuiet
    <3> QED
      BY <3>1, <3>2
  <2>15. ASSUME NEW r \in Runners, UnlinkTarget(r) PROVE Undisturbed'
    <3>1. CASE Fail(r)
      BY <2>15, <3>1, <2>f DEF UnlinkTarget
    <3>2. CASE ~Fail(r)
      <4>1. /\ pc[r] = "unlinkTarget" /\ pc' = [pc EXCEPT ![r] = "install"]
            /\ name' = [name EXCEPT !["target"] = NoInode]
            /\ UNCHANGED <<data, plan, outcome, holder>>
        BY <2>15, <3>2 DEF UnlinkTarget, Unlink
      <4>2. Untouched /\ Original("guard") /\ Hash("temp") = "proposed"
        BY <4>1, Alone DEF Place, Tidying
      <4>3. Parted' /\ Original("guard")' /\ ~Untouched'
        BY <4>1, <4>2, Alone DEF Untouched, Parted, Replaced, Original, Hash, Exists, Files
      <4>4. Place(r)'
        BY <4>1, <4>2, <4>3, Alone DEF Place, Tidying, Exists, Files
      <4> QED
        BY <4>1, <4>3, <4>4, Alone, Onward
    <3> QED
      BY <3>1, <3>2
  <2>16. ASSUME NEW r \in Runners, CheckInstall(r) PROVE Undisturbed'
    <3>1. CASE Fail(r)
      BY <2>16, <3>1, <2>f DEF CheckInstall
    <3>2. CASE ~Fail(r)
      <4>1. /\ pc[r] = "install" /\ pc' = [pc EXCEPT ![r] = pc'[r]] /\ pc'[r] \in {"linkTarget", "settled"}
            /\ Local /\ Steady
        BY <2>16, <3>2 DEF CheckInstall
      <4>2. Place(r)'
        BY <4>1, <2>q, Alone DEF Place, Tidying, Files
      <4> QED
        BY <4>1, <4>2, Alone, OnwardQuiet
    <3> QED
      BY <3>1, <3>2
  <2>17. ASSUME NEW r \in Runners, LinkTarget(r) PROVE Undisturbed'
    <3>1. CASE Fail(r)
      BY <2>17, <3>1, <2>f DEF LinkTarget
    <3>2. CASE ~Fail(r)
      <4>1. /\ pc[r] = "linkTarget" /\ pc' = [pc EXCEPT ![r] = "settled"]
            /\ name' = [name EXCEPT !["target"] = name["temp"]]
            /\ UNCHANGED <<data, plan, outcome, holder>>
            /\ ~Exists("target")
        BY <2>17, <3>2 DEF LinkTarget, Link
      <4>2. Parted
        BY <4>1, Alone DEF Place, Tidying, Untouched, Replaced, Original, Hash
      <4>3. Replaced' /\ (Exists("guard")' => Original("guard")')
        BY <4>1, <4>2, Alone DEF Untouched, Parted, Replaced, Original, Hash, Exists, Files
      <4>4. Place(r)'
        BY <4>1, <4>2, <4>3, Alone DEF Place, Tidying, Exists, Files
      <4> QED
        BY <4>1, <4>3, <4>4, Alone, Onward
    <3> QED
      BY <3>1, <3>2
  <2>18. ASSUME NEW r \in Runners, Settled(r) PROVE Undisturbed'
    <3>1. CASE Fail(r)
      BY <2>18, <3>1, <2>f DEF Settled
    <3>2. CASE ~Fail(r)
      <4>1. /\ pc[r] = "settled" /\ pc' = [pc EXCEPT ![r] = pc'[r]] /\ pc'[r] \in {"checkTemp"}
            /\ Local /\ Steady
            /\ Hash("target") = "proposed"
        BY <2>18, <3>2 DEF Settled
      <4>2. Place(r)'
        BY <4>1, <2>q, Alone DEF Place, Tidying, Files, Untouched, Parted, Original, Hash
      <4> QED
        BY <4>1, <4>2, Alone, OnwardQuiet
    <3> QED
      BY <3>1, <3>2
  <2>19. ASSUME NEW r \in Runners, CheckTempGone(r) PROVE Undisturbed'
    <3>1. CASE Fail(r)
      BY <2>19, <3>1, <2>f DEF CheckTempGone
    <3>2. CASE ~Fail(r)
      <4>1. /\ pc[r] = "checkTemp" /\ pc' = [pc EXCEPT ![r] = pc'[r]] /\ pc'[r] \in {"unlinkTemp", "checkGuard"}
            /\ Local /\ Steady
            /\ pc'[r] = "checkGuard" => ~Exists("temp")
        BY <2>19, <3>2 DEF CheckTempGone
      <4>2. Place(r)'
        BY <4>1, <2>q, Alone DEF Place, Tidying, Files
      <4> QED
        BY <4>1, <4>2, Alone, OnwardQuiet
    <3> QED
      BY <3>1, <3>2
  <2>20. ASSUME NEW r \in Runners, UnlinkTemp(r) PROVE Undisturbed'
    <3>1. CASE Fail(r)
      BY <2>20, <3>1, <2>f DEF UnlinkTemp
    <3>2. CASE ~Fail(r)
      <4>1. /\ pc[r] = "unlinkTemp" /\ pc' = [pc EXCEPT ![r] = "checkGuard"]
            /\ name' = [name EXCEPT !["temp"] = NoInode]
            /\ UNCHANGED <<data, plan, outcome, holder>>
        BY <2>20, <3>2 DEF UnlinkTemp, Unlink
      <4>2. Replaced
        BY <4>1, Alone DEF Place, Tidying
      <4>3. Replaced' /\ (Exists("guard")' => Original("guard")') /\ ~Exists("temp")'
        BY <4>1, <4>2, Alone DEF Untouched, Parted, Replaced, Original, Hash, Exists, Files
      <4>4. Place(r)'
        BY <4>1, <4>2, <4>3, Alone DEF Place, Tidying, Exists, Files
      <4> QED
        BY <4>1, <4>3, <4>4, Alone, Onward
    <3> QED
      BY <3>1, <3>2
  <2>21. ASSUME NEW r \in Runners, CheckGuardGone(r) PROVE Undisturbed'
    <3>1. CASE Fail(r)
      BY <2>21, <3>1, <2>f DEF CheckGuardGone
    <3>2. CASE ~Fail(r)
      <4>1. /\ pc[r] = "checkGuard" /\ pc' = [pc EXCEPT ![r] = pc'[r]] /\ pc'[r] \in {"unlinkGuard", "cleanup"}
            /\ Local /\ Steady
            /\ pc'[r] = "cleanup" => ~Exists("guard")
        BY <2>21, <3>2 DEF CheckGuardGone
      <4>2. Place(r)'
        BY <4>1, <2>q, Alone DEF Place, Tidying, Files
      <4> QED
        BY <4>1, <4>2, Alone, OnwardQuiet
    <3> QED
      BY <3>1, <3>2
  <2>22. ASSUME NEW r \in Runners, UnlinkGuard(r) PROVE Undisturbed'
    <3>1. CASE Fail(r)
      BY <2>22, <3>1, <2>f DEF UnlinkGuard
    <3>2. CASE ~Fail(r)
      <4>1. /\ pc[r] = "unlinkGuard" /\ pc' = [pc EXCEPT ![r] = "cleanup"]
            /\ name' = [name EXCEPT !["guard"] = NoInode]
            /\ UNCHANGED <<data, plan, outcome, holder>>
        BY <2>22, <3>2 DEF UnlinkGuard, Unlink
      <4>2. Replaced /\ ~Exists("temp")
        BY <4>1, Alone DEF Place, Tidying
      <4>3. Replaced' /\ ~Exists("guard")' /\ ~Exists("temp")'
        BY <4>1, <4>2, Alone DEF Untouched, Parted, Replaced, Original, Hash, Exists, Files
      <4>4. Place(r)'
        BY <4>1, <4>2, <4>3, Alone DEF Place, Tidying, Exists, Files
      <4> QED
        BY <4>1, <4>3, <4>4, Alone, Onward
    <3> QED
      BY <3>1, <3>2
  <2>23. ASSUME NEW r \in Runners, Cleanup(r) PROVE Undisturbed'
    <3>1. CASE Fail(r)
      BY <2>23, <3>1, <2>f DEF Cleanup
    <3>2. CASE ~Fail(r)
      <4>1. /\ pc[r] = "cleanup" /\ pc' = [pc EXCEPT ![r] = "idle"] /\ journal' = FALSE
            /\ UNCHANGED <<name, data, plan>>
        BY <2>23, <3>2 DEF Cleanup, Leave
      <4>2. /\ Replaced /\ ~Exists("temp") /\ ~Exists("guard") /\ plan # NoInode
            /\ \A q \in Runners \ {r} : pc[q] = "idle"
        BY <4>1, Alone DEF Place, Tidying
      <4>3. Over' /\ Replaced'
        BY <4>1, <4>2 DEF Over, Replaced, Hash, Exists
      <4>4. \A q \in Runners : Place(q)'
        BY <4>1, <4>2 DEF Place, Tidying
      <4> QED
        BY <4>3, <4>4 DEF Undisturbed, Over
    <3> QED
      BY <3>1, <3>2
  <2>24. ASSUME NEW r \in Runners, Stop(r) PROVE Undisturbed'
    <3>1. Place(r)'
      BY <2>24 DEF Stop, Leave, Place, Tidying
    <3> QED
      BY <2>24, <3>1, OnwardQuiet DEF Stop, Leave
  <2>25. ASSUME Editor PROVE FALSE
    BY <2>25 DEF Editor, SaveInPlace, SaveByRename, Remove, Edited
  <2>26. CASE UNCHANGED vars
    <3>1. /\ Untouched' = Untouched /\ Parted' = Parted /\ Replaced' = Replaced
          /\ \A f \in Files : Hash(f)' = Hash(f) /\ Exists(f)' = Exists(f) /\ Original(f)' = Original(f)
      BY <2>26 DEF vars, Untouched, Parted, Replaced, Original, Hash, Exists
    <3> QED
      BY <2>26, <3>1 DEF vars, Undisturbed, Place, Over, Files
  <2> QED
    BY <2>1, <2>2, <2>3, <2>4, <2>5, <2>6, <2>7, <2>8, <2>9, <2>10, <2>11, <2>12, <2>13,
       <2>14, <2>15, <2>16, <2>17, <2>18, <2>19, <2>20, <2>21, <2>22, <2>23, <2>24,
       <2>25, <2>26 DEF Next, Step
<1>3. InstallInv => SourceKept /\ ReportedInstalled
  BY DEF InstallInv, Undisturbed, SourceKept, ReportedInstalled, Over, Untouched, Replaced,
     Parted, Original, Hash, Exists
<1> QED
  BY <1>1, <1>2, <1>3, PTL DEF Spec
=============================================================================
