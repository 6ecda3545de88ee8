--------------------------- MODULE SourceInstall ---------------------------
(***************************************************************************)
(* The replacement of one user file by an approved patch, or by the        *)
(* rollback of one (state/source_install.rs, source_install/directory.rs,  *)
(* transition/source_install/preparation.rs and their callers).            *)
(*                                                                         *)
(* Four names of the project take part: the target, the temporary file     *)
(* that holds the new bytes, the guard (a second link to the original      *)
(* inode) and the rollback record.  Every system call on a name is a step  *)
(* of its own; the user's editor, a stop of the process and a recovery in  *)
(* another process come between any two of them.                           *)
(*                                                                         *)
(* Data is abstracted to what a SHA-256 comparison tells apart: the bytes  *)
(* before the patch, the proposed bytes, what the editor saved, and a file *)
(* whose write has not finished.  Modes, owners and the type of a file are *)
(* left out: no step of this code changes them.                            *)
(***************************************************************************)
EXTENDS Naturals, FiniteSets

CONSTANTS
  Runners,      \* processes that may install or recover
  Inodes,       \* inode numbers of the file system
  NoInode,      \* a name that does not exist
  NoRunner,     \* a free transition guard
  EditBudget,   \* bound: saves and removals by the editor
  StopBudget,   \* bound: stops of a runner
  TornWrites,   \* TRUE: a stop may come between a create and its write
  LateEdits,    \* TRUE: the editor may act between the last check of the
                \* target and its unlink
  Unguarded     \* TRUE: the installer gives the transition guard back once
                \* the journal is committed, as restore_bytes does

ASSUME SourceInstallAssumption ==
  /\ IsFiniteSet(Inodes)
  /\ NoInode \notin Inodes
  /\ NoRunner \notin Runners
  /\ EditBudget \in Nat /\ StopBudget \in Nat
  /\ TornWrites \in BOOLEAN /\ LateEdits \in BOOLEAN /\ Unguarded \in BOOLEAN

Files == {"target", "temp", "guard", "rollback"}
Bytes == {"before", "proposed", "user", "part"}
Hashes == Bytes \cup {"none"}

VARIABLES
  name,     \* the inode behind each name of the directory
  data,     \* the bytes of each inode
  plan,     \* the inode the prepared plan was made for
  journal,  \* the prepared journal of the replacement is on disk
  holder,   \* the runner that holds the transition guard
  pc,       \* the next step of each runner
  seen,     \* the hashes a runner has read and still uses
  open,     \* the inode behind the file a runner is writing
  outcome,  \* what a runner last reported
  wanted,   \* what the editor last did to the target
  edits, stops

vars == <<name, data, plan, journal, holder, pc, seen, open, outcome, wanted, edits, stops>>

Labels == {"idle", "commit", "readTarget", "rollback", "makeRollback", "writeRollback",
           "temp", "writeTemp", "hashes", "guard", "linkGuard", "pair", "unlinkCheck",
           "unlinkTarget", "install", "linkTarget", "settled", "checkTemp", "unlinkTemp",
           "checkGuard", "unlinkGuard", "cleanup"}

TypeOK ==
  /\ name \in [Files -> Inodes \cup {NoInode}]
  /\ data \in [Inodes -> Bytes]
  /\ plan \in Inodes \cup {NoInode}
  /\ journal \in BOOLEAN
  /\ holder \in Runners \cup {NoRunner}
  /\ pc \in [Runners -> Labels]
  /\ seen \in [Runners -> [target : Hashes, guard : Hashes, temp : Hashes]]
  /\ open \in [Runners -> Inodes \cup {NoInode}]
  /\ outcome \in [Runners -> {"none", "installed", "failed"}]
  /\ wanted \in {"nothing", "user", "gone"}
  /\ edits \in 0..EditBudget /\ stops \in 0..StopBudget

Unseen == [target |-> "none", guard |-> "none", temp |-> "none"]

Init ==
  /\ \E i \in Inodes : name = [f \in Files |-> IF f = "target" THEN i ELSE NoInode]
  /\ data = [i \in Inodes |-> "before"]
  /\ plan = NoInode /\ journal = FALSE /\ holder = NoRunner
  /\ pc = [r \in Runners |-> "idle"]
  /\ seen = [r \in Runners |-> Unseen]
  /\ open = [r \in Runners |-> NoInode]
  /\ outcome = [r \in Runners |-> "none"]
  /\ wanted = "nothing" /\ edits = 0 /\ stops = 0

-----------------------------------------------------------------------------
(* Reads. *)

Exists(f) == name[f] # NoInode
Hash(f) == IF Exists(f) THEN data[name[f]] ELSE "none"
Free == {i \in Inodes : (\A f \in Files : name[f] # i) /\ (\A r \in Runners : open[r] # i)}

(* validate_original: the bytes before the patch, in the inode the plan names *)
Original(f) == Hash(f) = "before" /\ name[f] = plan
(* validate_original_pair: both names are the original *)
OriginalPair == Original("target") /\ Original("guard")
(* validate_installed_pair: both names are one inode with the proposed bytes *)
InstalledPair == Hash("target") = "proposed" /\ name["target"] = name["temp"]

(* a step of runner r that moves it on and changes nothing else *)
Local == UNCHANGED <<name, data, plan, journal, wanted, edits, stops>>
Goto(r, l) == pc' = [pc EXCEPT ![r] = l]
Steady == UNCHANGED <<seen, open, outcome, holder>>

(* an error return: the lease, if this runner has it, is dropped with its guard *)
Leave(r, o) ==
  /\ pc' = [pc EXCEPT ![r] = "idle"]
  /\ seen' = [seen EXCEPT ![r] = Unseen]
  /\ open' = [open EXCEPT ![r] = NoInode]
  /\ holder' = IF holder = r THEN NoRunner ELSE holder
  /\ outcome' = [outcome EXCEPT ![r] = o]
Fail(r) == Leave(r, "failed") /\ Local

-----------------------------------------------------------------------------
(* Preparing and committing. *)

(* prepare_source_install_v1: nothing of the plan is on disk yet *)
Plan(r) ==
  /\ pc[r] = "idle" /\ plan = NoInode /\ holder = NoRunner
  /\ Hash("target") = "before"
  /\ \A f \in Files \ {"target"} : ~Exists(f)
  /\ plan' = name["target"]
  /\ holder' = r
  /\ Goto(r, "commit")
  /\ UNCHANGED <<name, data, journal, seen, open, outcome, wanted, edits, stops>>

(* the journal is renamed into place; restore_bytes and apply_proposal give
   the guard back here, the approval and terminal transactions keep it *)
Commit(r) ==
  /\ pc[r] = "commit"
  /\ journal' = TRUE
  /\ holder' = IF Unguarded THEN NoRunner ELSE holder
  /\ Goto(r, "readTarget")
  /\ UNCHANGED <<name, data, plan, seen, open, outcome, wanted, edits, stops>>

(* recover_pending_bundles_under_guard finds the journal and runs the same steps *)
Recover(r) ==
  /\ pc[r] = "idle" /\ journal /\ holder = NoRunner
  /\ holder' = r
  /\ Goto(r, "readTarget")
  /\ UNCHANGED <<name, data, plan, journal, seen, open, outcome, wanted, edits, stops>>

-----------------------------------------------------------------------------
(* recover_source_replace, one step per system call that matters. *)

ReadTarget(r) ==
  /\ pc[r] = "readTarget"
  /\ seen' = [seen EXCEPT ![r].target = Hash("target")]
  /\ Goto(r, "rollback")
  /\ Local /\ UNCHANGED <<open, outcome, holder>>

(* defect: missing evidence is not made, the temporary file is written first *)
CheckRollback_Later(r) ==
  /\ pc[r] = "rollback"
  /\ Goto(r, "temp") /\ Local /\ Steady

(* existing evidence is verified, missing evidence is only made from the original *)
CheckRollback(r) ==
  /\ pc[r] = "rollback"
  /\ \/ /\ Exists("rollback") /\ Hash("rollback") = "before"
        /\ Goto(r, "temp") /\ Local /\ Steady
     \/ /\ ~Exists("rollback") /\ seen[r].target = "before" /\ Original("target")
        /\ Goto(r, "makeRollback") /\ Local /\ Steady
     \/ /\ IF Exists("rollback") THEN Hash("rollback") # "before"
           ELSE ~(seen[r].target = "before" /\ Original("target"))
        /\ Fail(r)

(* create_new fails when the name exists; the new file is empty until written *)
Create(r, f, next) ==
  \/ /\ ~Exists(f)
     /\ \E i \in Free :
          /\ name' = [name EXCEPT ![f] = i]
          /\ data' = [data EXCEPT ![i] = "part"]
          /\ open' = [open EXCEPT ![r] = i]
     /\ Goto(r, next)
     /\ UNCHANGED <<plan, journal, seen, outcome, holder, wanted, edits, stops>>
  \/ Exists(f) /\ Fail(r)

Write(r, f, bytes, next) ==
  /\ data' = [data EXCEPT ![open[r]] = bytes]
  /\ open' = [open EXCEPT ![r] = NoInode]
  /\ Goto(r, next)
  /\ UNCHANGED <<name, plan, journal, seen, outcome, holder, wanted, edits, stops>>

MakeRollback(r) ==
  /\ pc[r] = "makeRollback"
  /\ \/ Hash("target") = "before" /\ Create(r, "rollback", "writeRollback")
     \/ Hash("target") # "before" /\ Fail(r)
WriteRollback(r) == pc[r] = "writeRollback" /\ Write(r, "rollback", "before", "temp")

(* defect: a recovery creates the temporary file although it is there *)
MakeTemp_Again(r) ==
  /\ pc[r] = "temp"
  /\ \/ seen[r].target # "proposed" /\ Create(r, "temp", "writeTemp")
     \/ seen[r].target = "proposed" /\ Goto(r, "hashes") /\ Local /\ Steady
MakeTemp(r) ==
  /\ pc[r] = "temp"
  /\ \/ /\ ~Exists("temp") /\ seen[r].target # "proposed"
        /\ Create(r, "temp", "writeTemp")
     \/ /\ Exists("temp") \/ seen[r].target = "proposed"
        /\ Goto(r, "hashes") /\ Local /\ Steady
WriteTemp(r) == pc[r] = "writeTemp" /\ Write(r, "temp", "proposed", "hashes")

(* the conflict check compares the target hash read at the start *)
Conflict(s) ==
  \/ s.temp \notin {"none", "proposed"}
  \/ s.guard \notin {"none", "before"}
  \/ s.target \notin {"none", "before", "proposed"}
ReadHashes(r) ==
  /\ pc[r] = "hashes"
  /\ LET s == [seen[r] EXCEPT !.guard = Hash("guard"), !.temp = Hash("temp")]
     IN \/ /\ ~Conflict(s)
           /\ seen' = [seen EXCEPT ![r] = s]
           /\ Goto(r, "guard")
           /\ Local /\ UNCHANGED <<open, outcome, holder>>
        \/ Conflict(s) /\ Fail(r)

NeedsGuard(s) == s.target = "before" /\ s.guard = "none"
CheckGuard(r) ==
  /\ pc[r] = "guard"
  /\ \/ ~NeedsGuard(seen[r]) /\ Goto(r, "unlinkCheck") /\ Local /\ Steady
     \/ /\ NeedsGuard(seen[r]) /\ seen[r].temp = "proposed" /\ Original("target")
        /\ Goto(r, "linkGuard") /\ Local /\ Steady
     \/ /\ NeedsGuard(seen[r]) /\ ~(seen[r].temp = "proposed" /\ Original("target"))
        /\ Fail(r)

(* defect: a rename in the place of a link: what the name held is lost *)
Link_Replace(r, from, to, next) ==
  \/ /\ Exists(from)
     /\ name' = [name EXCEPT ![to] = name[from]]
     /\ Goto(r, next)
     /\ Steady /\ UNCHANGED <<data, plan, journal, wanted, edits, stops>>
  \/ ~Exists(from) /\ Fail(r)
(* linkat never replaces a name *)
Link(r, from, to, next) ==
  \/ /\ Exists(from) /\ ~Exists(to)
     /\ name' = [name EXCEPT ![to] = name[from]]
     /\ Goto(r, next)
     /\ Steady /\ UNCHANGED <<data, plan, journal, wanted, edits, stops>>
  \/ ~(Exists(from) /\ ~Exists(to)) /\ Fail(r)
Unlink(r, f, next) ==
  \/ /\ Exists(f)
     /\ name' = [name EXCEPT ![f] = NoInode]
     /\ Goto(r, next)
     /\ Steady /\ UNCHANGED <<data, plan, journal, wanted, edits, stops>>
  \/ ~Exists(f) /\ Fail(r)

LinkGuard(r) == pc[r] = "linkGuard" /\ Link(r, "target", "guard", "pair")
CheckPair(r) ==
  /\ pc[r] = "pair"
  /\ IF OriginalPair THEN Goto(r, "unlinkCheck") /\ Local /\ Steady ELSE Fail(r)

(* defect: whatever the target holds is unlinked *)
UnlinkCheck_Any(r) ==
  /\ pc[r] = "unlinkCheck"
  /\ Goto(r, IF Exists("target") THEN "unlinkTarget" ELSE "install")
  /\ Local /\ Steady
(* the target is read again, and the pair is checked on both sides of a sync *)
UnlinkCheck(r) ==
  /\ pc[r] = "unlinkCheck"
  /\ \/ Hash("target") = "before" /\ OriginalPair
        /\ Goto(r, "unlinkTarget") /\ Local /\ Steady
     \/ Hash("target") = "before" /\ ~OriginalPair /\ Fail(r)
     \/ Hash("target") # "before" /\ Goto(r, "install") /\ Local /\ Steady
UnlinkTarget(r) == pc[r] = "unlinkTarget" /\ Unlink(r, "target", "install")

CheckInstall(r) ==
  /\ pc[r] = "install"
  /\ \/ /\ ~Exists("target") /\ Exists("guard")
        /\ Original("guard") /\ Hash("temp") = "proposed"
        /\ Goto(r, "linkTarget") /\ Local /\ Steady
     \/ /\ ~Exists("target") /\ Exists("guard")
        /\ ~(Original("guard") /\ Hash("temp") = "proposed")
        /\ Fail(r)
     \/ /\ Exists("target") \/ ~Exists("guard")
        /\ Goto(r, "settled") /\ Local /\ Steady
LinkTarget(r) == pc[r] = "linkTarget" /\ Link(r, "temp", "target", "settled")

Settled(r) ==
  /\ pc[r] = "settled"
  /\ IF Hash("target") = "proposed" /\ (Exists("temp") => InstalledPair)
     THEN Goto(r, "checkTemp") /\ Local /\ Steady ELSE Fail(r)

CheckTempGone(r) ==
  /\ pc[r] = "checkTemp"
  /\ Goto(r, IF Exists("temp") THEN "unlinkTemp" ELSE "checkGuard") /\ Local /\ Steady
UnlinkTemp(r) == pc[r] = "unlinkTemp" /\ Unlink(r, "temp", "checkGuard")
CheckGuardGone(r) ==
  /\ pc[r] = "checkGuard"
  /\ Goto(r, IF Exists("guard") THEN "unlinkGuard" ELSE "cleanup") /\ Local /\ Steady
UnlinkGuard(r) == pc[r] = "unlinkGuard" /\ Unlink(r, "guard", "cleanup")

(* remove_committed_source_bundle fails when the journal is gone *)
Cleanup(r) ==
  /\ pc[r] = "cleanup"
  /\ \/ /\ journal
        /\ journal' = FALSE
        /\ Leave(r, "installed")
        /\ UNCHANGED <<name, data, plan, wanted, edits, stops>>
     \/ ~journal /\ Fail(r)

-----------------------------------------------------------------------------
(* The environment. *)

(* a stop drops what the runner knows; its lease is recoverable *)
Stop(r) ==
  /\ pc[r] # "idle" /\ stops < StopBudget
  /\ TornWrites \/ open[r] = NoInode
  /\ stops' = stops + 1
  /\ Leave(r, outcome[r])
  /\ UNCHANGED <<name, data, plan, journal, wanted, edits>>

MayEdit == edits < EditBudget /\ (LateEdits \/ \A r \in Runners : pc[r] # "unlinkTarget")
Edited(w) ==
  /\ wanted' = w /\ edits' = edits + 1
  /\ UNCHANGED <<plan, journal, holder, pc, seen, open, outcome, stops>>
(* an editor that writes in place *)
SaveInPlace ==
  /\ MayEdit /\ Exists("target")
  /\ data' = [data EXCEPT ![name["target"]] = "user"]
  /\ Edited("user") /\ UNCHANGED name
(* an editor that writes a new file and renames it over the target *)
SaveByRename ==
  /\ MayEdit
  /\ \E i \in Free :
       /\ name' = [name EXCEPT !["target"] = i]
       /\ data' = [data EXCEPT ![i] = "user"]
  /\ Edited("user")
Remove ==
  /\ MayEdit /\ Exists("target")
  /\ name' = [name EXCEPT !["target"] = NoInode]
  /\ Edited("gone") /\ UNCHANGED data

-----------------------------------------------------------------------------
Step(r) ==
  \/ Commit(r) \/ ReadTarget(r) \/ CheckRollback(r)
  \/ MakeRollback(r) \/ WriteRollback(r) \/ MakeTemp(r) \/ WriteTemp(r)
  \/ ReadHashes(r) \/ CheckGuard(r) \/ LinkGuard(r) \/ CheckPair(r)
  \/ UnlinkCheck(r) \/ UnlinkTarget(r) \/ CheckInstall(r) \/ LinkTarget(r)
  \/ Settled(r) \/ CheckTempGone(r) \/ UnlinkTemp(r)
  \/ CheckGuardGone(r) \/ UnlinkGuard(r) \/ Cleanup(r)
Editor == SaveInPlace \/ SaveByRename \/ Remove
Next ==
  \/ \E r \in Runners : Plan(r) \/ Recover(r) \/ Step(r) \/ Stop(r)
  \/ Editor

Spec == Init /\ [][Next]_vars
(* a running process goes on, and the project is opened again after a stop *)
FairSpec ==
  /\ Spec
  /\ \A r \in Runners : WF_vars(Step(r))
  /\ WF_vars(\E r \in Runners : Recover(r))

-----------------------------------------------------------------------------
(* Properties. *)

(* The rollback record is complete before the target can be anything but what
   the user left there (source_install.rs:100-112): a stop at any step leaves
   the bytes before the patch in it. *)
EvidenceFirst ==
  (~Exists("target") /\ wanted # "gone") \/ Hash("target") = "proposed"
    => Hash("rollback") = "before"

(* A concurrent editor causes a conflict, never an overwrite: what the editor
   saved last is still behind the target or the guard (source_install.rs:129-131).
   True when no edit falls between the last check and the unlink, the interval
   the release notes exclude. *)
NoClobber == wanted = "user" => \E f \in {"target", "guard"} : Hash(f) = "user"

(* While nobody edits, the file is never lost: when the target is missing its
   original is behind the guard and the complete new bytes behind the temporary
   file, so that a recovery can go on from there (source_install.rs:144-170). *)
SourceKept == ~Exists("target") /\ edits = 0 => Original("guard") /\ Hash("temp") = "proposed"

(* A report of success is only given once the proposed bytes are in place and
   no sibling of the target is left, unless the user edited (source_install.rs:171-190). *)
ReportedInstalled ==
  \A r \in Runners : outcome[r] = "installed" /\ edits = 0 =>
    Hash("target") = "proposed" /\ ~Exists("temp") /\ ~Exists("guard")

(* A committed replacement is finished by a later recovery, unless the user
   edited the file or a stop left a half-written file. *)
Half == \E f \in {"temp", "rollback"} : Hash(f) = "part"
Finished == []<>(~journal \/ edits > 0 \/ Half)

(* A replacement that was begun ends, and ends as reported
   (recover_source_replace from its first read to the journal's removal). *)
EndsInstalled == []TypeOK /\ []ReportedInstalled /\ Finished

=============================================================================
