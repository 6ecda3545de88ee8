------------------------------ MODULE Approval ------------------------------
(***************************************************************************)
(* The bundle transactions of a workflow: the approval of a patch, the     *)
(* approval of its verification command, the denial and the cancellation   *)
(* (patch_adapter/approval_transaction, verification.rs, terminal/,        *)
(* workflow_adapter/state/transaction, transaction_coordinator).           *)
(*                                                                         *)
(* A command prepares one bundle (events, workflow revisions, the user's   *)
(* file, a transcript turn, the current image), commits it as a journal    *)
(* and then installs its members in a fixed order.  A stop or an error     *)
(* leaves the journal; the next command of that project that takes the     *)
(* transition guard runs the same steps again before anything else.  The   *)
(* ledger and the directory of the lag markers belong to the installation, *)
(* so projects meet there.                                                 *)
(*                                                                         *)
(* The steps of the leases, of the ledger's writer, of a journal's file    *)
(* and of the replacement of the file are those of Lease, Ledger,          *)
(* Transition and SourceInstall; here each is one step.                    *)
(***************************************************************************)
EXTENDS Naturals, Sequences, FiniteSets

CONSTANTS
  Projects,      \* projects of one installation
  NoProject,     \* the ledger's writer lease is free
  Short,         \* bound: projects whose workflow stops after its approval
  StopBudget,    \* bound: stops of a command
  EditBudget,    \* bound: edits of the patched file by the user
  FaultBudget    \* bound: failures to write a derived output, to restore a file, to record

ASSUME ApprovalAssumption ==
  /\ IsFiniteSet(Projects) /\ NoProject \notin Projects /\ Short \subseteq Projects
  /\ StopBudget \in Nat /\ EditBudget \in Nat /\ FaultBudget \in Nat

VARIABLES
  ledger,      \* the runtime ledger of the installation
  writer,      \* the project whose command holds the ledger's writer lease
  journal,     \* the committed bundle of each project
  stage,       \* what the command of a project is doing
  pc,          \* the next step of its bundle
  seen,        \* the ledger head an approval read before it took a guard
  chosen,      \* the decision that approval is about
  snapshots,   \* the phases of a workflow's revisions on disk
  pointer,     \* its committed revision
  source,      \* the bytes of the file the patch is for
  turn,        \* the transcript turn of the patch is on disk
  current,     \* what the current image shows: a revision and a ledger head
  derived,     \* the ledger head the derived outputs of a project show
  lag,         \* the projection-lag marker of its bundle
  ran,         \* how often the verification command was started
  stops, edits, faults

files == <<snapshots, pointer, source, turn, current, derived, lag>>
budgets == <<stops, edits, faults>>
vars == <<ledger, writer, journal, stage, pc, seen, chosen, files, ran, budgets>>

Kinds == {"approve", "verify", "deny", "cancel"}
Stages == {"idle", "observed", "running", "recovering", "lagTemp", "lagWrite", "lagRename",
           "command", "result", "restored", "unrestored"}
NoJournal == [kind |-> "none"]

-----------------------------------------------------------------------------
(* The plan of a bundle. *)

Event(n) == [do |-> "event", at |-> n]
Snapshot(n) == [do |-> "snapshot", at |-> n]
Pointer(n) == [do |-> "pointer", at |-> n]
Do(what) == [do |-> what, at |-> 0]

(* the order in which an approval installs its members, events from 1 *)
ApprovalOrder ==
  <<Event(1), Snapshot(1), Event(2), Pointer(1), Event(3), Event(4), Event(5),
    Do("source"), Event(6), Event(7), Event(8), Do("turn"), Event(9), Snapshot(2),
    Event(10), Pointer(2), Do("current"), Do("converge"), Do("removeLag"), Do("remove")>>
VerificationOrder ==
  <<Event(1), Snapshot(1), Event(2), Pointer(1), Event(3), Do("current"),
    Do("converge"), Do("remove")>>
TerminalOrder ==
  <<Event(1), Do("source"), Snapshot(1), Event(2), Pointer(1), Event(3), Do("current"),
    Do("converge"), Do("remove")>>
Script(kind) ==
  CASE kind = "approve" -> ApprovalOrder
    [] kind = "verify" -> VerificationOrder
    [] OTHER -> TerminalOrder

Events(kind) == IF kind = "approve" THEN 10 ELSE 3
(* "rollback-failed" is the phase failed whose failure_reason is
   verification-failed-rollback-failed, "failed" the one whose patch is undone *)
PhaseNames == {"pending-approval", "approved", "pending-verification-approval",
               "verification-started", "verified", "failed", "rollback-failed", "cancelled"}
(* the phases of the revisions a bundle adds *)
Phases(kind) ==
  CASE kind = "approve" -> <<"approved", "pending-verification-approval">>
    [] kind = "verify" -> <<"verification-started">>
    [] OTHER -> <<"cancelled">>
LastRevision(j) == j.revision + Len(Phases(j.kind))
Target(j) == j.head + Events(j.kind)

Planned(p, j, n) == [project |-> p, revision |-> j.revision, event |-> n]
Other == [project |-> NoProject, revision |-> 0, event |-> 0]

Phase(p) == snapshots[p][pointer[p]]
Applied == {"pending-verification-approval", "verification-started", "verified"}

Image == [revision : Nat, head : Nat]
Journals == [kind : Kinds, revision : Nat, head : Nat, before : Image, rollback : BOOLEAN]

TypeOK ==
  /\ ledger \in Seq([project : Projects \cup {NoProject}, revision : Nat, event : Nat])
  /\ writer \in Projects \cup {NoProject}
  /\ journal \in [Projects -> Journals \cup {NoJournal}]
  /\ stage \in [Projects -> Stages]
  /\ pc \in [Projects -> Nat]
  /\ seen \in [Projects -> Nat]
  /\ chosen \in [Projects -> Kinds]
  /\ snapshots \in [Projects -> Seq(PhaseNames)]
  /\ pointer \in [Projects -> Nat]
  /\ source \in [Projects -> {"before", "after", "user"}]
  /\ turn \in [Projects -> BOOLEAN]
  /\ current \in [Projects -> Image]
  /\ derived \in [Projects -> Nat]
  /\ lag \in [Projects -> {"none", "torn", "temp", "final"}]
  /\ ran \in [Projects -> Nat]
  /\ stops \in 0..StopBudget /\ edits \in 0..EditBudget
  /\ faults \in 0..FaultBudget

(* a workflow whose patch proposal waits for its approval *)
Init ==
  /\ ledger = << >> /\ writer = NoProject
  /\ journal = [p \in Projects |-> NoJournal]
  /\ stage = [p \in Projects |-> "idle"]
  /\ pc = [p \in Projects |-> 0]
  /\ seen = [p \in Projects |-> 0]
  /\ chosen = [p \in Projects |-> "approve"]
  /\ snapshots = [p \in Projects |-> <<"pending-approval">>]
  /\ pointer = [p \in Projects |-> 1]
  /\ source = [p \in Projects |-> "before"]
  /\ turn = [p \in Projects |-> FALSE]
  /\ current = [p \in Projects |-> [revision |-> 1, head |-> 0]]
  /\ derived = [p \in Projects |-> 0]
  /\ lag = [p \in Projects |-> "none"]
  /\ ran = [p \in Projects |-> 0]
  /\ stops = 0 /\ edits = 0 /\ faults = 0

-----------------------------------------------------------------------------
(* Conditions on the disk. *)

Journaled(p) == journal[p] # NoJournal
Approving(p) == journal[p].kind = "approve"
Installed(p, n) ==
  LET i == journal[p].head + n IN i <= Len(ledger) /\ ledger[i] = Planned(p, journal[p], n)
Length == Len(ledger)

(* validate_projection_lag_authority: every marker is that of a journal of the
   project that asks *)
LagAuthority(p) ==
  /\ \A q \in Projects \ {p} : lag[q] = "none"
  /\ lag[p] # "torn"
  /\ lag[p] # "none" => Approving(p)

(* prepared_target_is_converged *)
Prefix(p) ==
  /\ Length <= Target(journal[p])
  /\ \A n \in 1..Events(journal[p].kind) : journal[p].head + n <= Length => Installed(p, n)
Converged(p) == Length = Target(journal[p]) /\ Prefix(p) /\ derived[p] = Length

Completed(j) == [revision |-> LastRevision(j), head |-> Target(j)]

-----------------------------------------------------------------------------
(* A command starts. *)

(* defect: a verification is approved again after an inconclusive start *)
VerifiablePhases_Again == {"pending-verification-approval", "verification-started"}
VerifiablePhases == {"pending-verification-approval"}
(* defect: a finished workflow can be cancelled *)
CancellablePhases_Failed ==
  {"pending-approval", "pending-verification-approval", "verification-started", "verified",
   "failed"}
CancellablePhases ==
  {"pending-approval", "pending-verification-approval", "verification-started", "verified"}
(* defect: a started verification counts as not applied *)
HasAppliedSource_Pending(p) == Phase(p) = "pending-verification-approval"
HasAppliedSource(p) == Phase(p) \in Applied

(* the reads of approve and verify before they take a guard; with a journal
   pending their guard recovers it and they see what they read changed *)
Observe(p, k) ==
  /\ stage[p] = "idle" /\ ~Journaled(p)
  /\ \/ k = "approve" /\ Phase(p) = "pending-approval" /\ source[p] = "before"
     \/ k = "verify" /\ p \notin Short /\ Phase(p) \in VerifiablePhases /\ source[p] = "after"
  /\ stage' = [stage EXCEPT ![p] = "observed"]
  /\ seen' = [seen EXCEPT ![p] = Length]
  /\ chosen' = [chosen EXCEPT ![p] = k]
  /\ UNCHANGED <<ledger, writer, journal, pc, files, ran, budgets>>

(* the bundle is prepared under the guards and renamed into place *)
Commit(p, k, rollback) ==
  /\ writer = NoProject /\ LagAuthority(p)
  /\ writer' = p
  /\ journal' = [journal EXCEPT ![p] = [kind |-> k, revision |-> pointer[p], head |-> Length,
                                       before |-> current[p], rollback |-> rollback]]
  /\ stage' = [stage EXCEPT ![p] = "running"]
  /\ pc' = [pc EXCEPT ![p] = 1]
  /\ UNCHANGED <<ledger, seen, chosen, files, ran, budgets>>

(* approve_prepared_skill_transaction and approve_prepared_verification_transaction
   compare what they read before with what they find under the guards *)
AdmitApproval(p) ==
  /\ stage[p] = "observed" /\ chosen[p] = "approve" /\ Length = seen[p]
  /\ Commit(p, "approve", FALSE)
AdmitVerification(p) ==
  /\ stage[p] = "observed" /\ chosen[p] = "verify" /\ Length = seen[p]
  /\ Commit(p, "verify", FALSE)

(* one revision to a terminal phase, with the replacement of the file if the
   patch is in it *)
PrepareTerminal(p, k, rollback) == Commit(p, k, rollback)

Deny(p) ==
  /\ stage[p] = "idle" /\ ~Journaled(p) /\ p \notin Short
  /\ Phase(p) \in {"pending-approval", "pending-verification-approval"}
  /\ Phase(p) \in Applied => source[p] # "user"
  /\ PrepareTerminal(p, "deny", HasAppliedSource(p))

Cancel(p) ==
  /\ stage[p] = "idle" /\ ~Journaled(p) /\ p \notin Short
  /\ Phase(p) \in CancellablePhases
  /\ HasAppliedSource(p) => source[p] # "user"
  /\ PrepareTerminal(p, "cancel", HasAppliedSource(p) /\ source[p] = "after")

(* a return with or without an error; a journal stays where it is *)
Return(p) ==
  /\ stage' = [stage EXCEPT ![p] = "idle"]
  /\ pc' = [pc EXCEPT ![p] = 0]
  /\ writer' = IF writer = p THEN NoProject ELSE writer
(* defect: the journal of a refused recovery is removed *)
Abort_Removes(p) ==
  /\ Return(p)
  /\ journal' = [journal EXCEPT ![p] = NoJournal]
  /\ UNCHANGED <<ledger, seen, chosen, files, ran, budgets>>
Abort(p) == Return(p) /\ UNCHANGED <<ledger, journal, seen, chosen, files, ran, budgets>>

(* the head moved, or another project's marker is in the way *)
Stale(p) == stage[p] = "observed" /\ (Length # seen[p] \/ ~LagAuthority(p)) /\ Abort(p)

(* validate_current_state_recovery_cas *)
CurrentCas(p) == current[p] \in {journal[p].before, Completed(journal[p])}
(* load_recovery_current: the pointer is that of the predecessor or of the bundle *)
PointerAllowed(p) == pointer[p] \in journal[p].revision..LastRevision(journal[p])

(* a command of this project takes the guard and finds the journal *)
Recover(p, kinds, next, step) ==
  /\ stage[p] = "idle" /\ Journaled(p) /\ journal[p].kind \in kinds
  /\ writer = NoProject /\ LagAuthority(p)
  /\ CurrentCas(p) /\ PointerAllowed(p)
  /\ writer' = p
  /\ stage' = [stage EXCEPT ![p] = next]
  /\ pc' = [pc EXCEPT ![p] = step]
  /\ UNCHANGED <<ledger, journal, seen, chosen, files, ran, budgets>>

(* recover_through_projection_barrier: an approval that has not converged first
   gets a durable marker and is resumed by the next command *)
HoldAtBarrier(p) ==
  /\ Approving(p)
  /\ lag[p] = "temp" \/ (lag[p] = "none" /\ Prefix(p) /\ ~Converged(p))
  /\ Recover(p, {"approve"}, "lagTemp", 0)
RecoverApproval(p) ==
  /\ Approving(p)
  /\ lag[p] = "final" \/ (lag[p] = "none" /\ Converged(p))
  /\ Recover(p, {"approve"}, "recovering", 1)
RecoverVerification(p) == Recover(p, {"verify"}, "recovering", 1)
RecoverTerminal(p) == Recover(p, {"deny", "cancel"}, "recovering", 1)
Retry(p) ==
  HoldAtBarrier(p) \/ RecoverApproval(p) \/ RecoverVerification(p) \/ RecoverTerminal(p)

-----------------------------------------------------------------------------
(* The steps of a bundle, the same in a commit and in a recovery. *)

Executing(p) == stage[p] \in {"running", "recovering"}
Step(p) == Script(journal[p].kind)[pc[p]]
At(p, what) == Executing(p) /\ Step(p).do = what
Advance(p) ==
  /\ pc' = [pc EXCEPT ![p] = @ + 1]
  /\ UNCHANGED <<writer, journal, stage, seen, chosen, ran, budgets>>

(* defect: an event that is already installed is appended again *)
AppendEvent_Twice(p) ==
  LET n == Step(p).at
  IN /\ At(p, "event")
     /\ ledger' = Append(ledger, Planned(p, journal[p], n)) /\ Advance(p)
     /\ UNCHANGED files
(* append_runtime_planned: an installed event is kept, the next one appended *)
AppendEvent(p) ==
  LET n == Step(p).at
      e == Planned(p, journal[p], n)
      fresh == \A i \in 1..Length : ledger[i] # e
  IN /\ At(p, "event")
     /\ \/ Installed(p, n) /\ ledger' = ledger /\ Advance(p) /\ UNCHANGED files
        \/ /\ fresh /\ Length + 1 = journal[p].head + n
           /\ ledger' = Append(ledger, e) /\ Advance(p) /\ UNCHANGED files
        \/ ~Installed(p, n) /\ ~(fresh /\ Length + 1 = journal[p].head + n) /\ Abort(p)

(* write_workflow_snapshot_bytes: an existing snapshot is immutable *)
InstallSnapshot(p) ==
  LET r == journal[p].revision + Step(p).at
      f == Phases(journal[p].kind)[Step(p).at]
  IN /\ At(p, "snapshot")
     /\ \/ /\ r \in DOMAIN snapshots[p] => snapshots[p][r] = f
           /\ snapshots' = IF r \in DOMAIN snapshots[p] THEN snapshots
                           ELSE [snapshots EXCEPT ![p] = Append(@, f)]
           /\ Advance(p)
           /\ UNCHANGED <<ledger, pointer, source, turn, current, derived, lag>>
        \/ r \in DOMAIN snapshots[p] /\ snapshots[p][r] # f /\ Abort(p)

(* defect: the pointer is replaced without a look at the installed one *)
InstallPointer_Replace(p) ==
  /\ At(p, "pointer")
  /\ pointer' = [pointer EXCEPT ![p] = journal[p].revision + Step(p).at]
  /\ Advance(p)
  /\ UNCHANGED <<ledger, snapshots, source, turn, current, derived, lag>>
(* install_pointer: the revision after this one, with its snapshot, is kept *)
InstallPointer(p) ==
  LET r == journal[p].revision + Step(p).at
      newer == pointer[p] = r + 1 /\ r + 1 \in DOMAIN snapshots[p]
  IN /\ At(p, "pointer")
     /\ \/ /\ pointer[p] <= r \/ newer
           /\ pointer' = IF newer THEN pointer ELSE [pointer EXCEPT ![p] = r]
           /\ Advance(p)
           /\ UNCHANGED <<ledger, snapshots, source, turn, current, derived, lag>>
        \/ pointer[p] > r /\ ~newer /\ Abort(p)

(* install_prepared_source_bundle; what the user wrote is a conflict *)
InstallSource(p) ==
  LET j == journal[p]
  IN /\ At(p, "source")
     /\ \/ /\ j.kind # "approve" /\ ~j.rollback
           /\ Advance(p) /\ UNCHANGED <<ledger, files>>
        \/ /\ j.kind = "approve" \/ j.rollback
           /\ source[p] # "user"
           /\ source' = [source EXCEPT ![p] = IF j.kind = "approve" THEN "after" ELSE "before"]
           /\ Advance(p)
           /\ UNCHANGED <<ledger, snapshots, pointer, turn, current, derived, lag>>
        \/ (j.kind = "approve" \/ j.rollback) /\ source[p] = "user" /\ Abort(p)

InstallTranscript(p) ==
  /\ At(p, "turn")
  /\ turn' = [turn EXCEPT ![p] = TRUE]
  /\ Advance(p)
  /\ UNCHANGED <<ledger, snapshots, pointer, source, current, derived, lag>>

(* install_current_image, under its compare and swap *)
InstallCurrent(p) ==
  /\ At(p, "current")
  /\ \/ /\ current[p] \in {journal[p].before, Completed(journal[p])}
        /\ current' = [current EXCEPT ![p] = Completed(journal[p])]
        /\ Advance(p)
        /\ UNCHANGED <<ledger, snapshots, pointer, source, turn, derived, lag>>
     \/ ~CurrentCas(p) /\ Abort(p)

(* an error of converge: an approval leaves a lag marker, the others return *)
Refused(p) ==
  /\ stage' = [stage EXCEPT ![p] = IF journal[p].kind = "approve" THEN "lagTemp" ELSE "idle"]
  /\ pc' = [pc EXCEPT ![p] = 0]
  /\ writer' = IF journal[p].kind = "approve" THEN p ELSE NoProject

ConvergeFails(p) ==
  /\ At(p, "converge") /\ faults < FaultBudget
  /\ faults' = faults + 1
  /\ Refused(p)
  /\ UNCHANGED <<ledger, journal, seen, chosen, files, ran, stops, edits>>

(* converge_prepared: the derived outputs are written from the whole ledger,
   then the bundle must be its end *)
Converge(p) ==
  /\ At(p, "converge")
  /\ derived' = [derived EXCEPT ![p] = Length]
  /\ \/ Length = Target(journal[p]) /\ Advance(p)
     \/ /\ Length # Target(journal[p])
        /\ Refused(p)
        /\ UNCHANGED <<journal, seen, chosen, ran, budgets>>
  /\ UNCHANGED <<ledger, snapshots, pointer, source, turn, current, lag>>

RemoveLag(p) ==
  /\ At(p, "removeLag")
  /\ lag' = [lag EXCEPT ![p] = "none"]
  /\ Advance(p)
  /\ UNCHANGED <<ledger, snapshots, pointer, source, turn, current, derived>>

(* remove_committed_source_bundle; after the commit of a verification the same
   command goes on to run what was approved, a recovery never does *)
RemoveJournal(p) ==
  /\ At(p, "remove")
  /\ journal' = [journal EXCEPT ![p] = NoJournal]
  /\ stage' = [stage EXCEPT ![p] =
                 IF stage[p] = "running" /\ journal[p].kind = "verify" THEN "command" ELSE "idle"]
  /\ pc' = [pc EXCEPT ![p] = 0]
  /\ writer' = NoProject
  /\ UNCHANGED <<ledger, seen, chosen, files, ran, budgets>>

-----------------------------------------------------------------------------
(* install_projection_lag. *)

Marker(p, s, l) ==
  /\ stage' = [stage EXCEPT ![p] = s] /\ lag' = [lag EXCEPT ![p] = l]
  /\ UNCHANGED <<ledger, writer, journal, pc, seen, chosen, snapshots, pointer, source, turn,
                 current, derived, ran, budgets>>

(* defect: a complete temporary file is a conflict *)
StartLag_Conflict(p) ==
  /\ stage[p] = "lagTemp"
  /\ \/ lag[p] = "none" /\ Marker(p, "lagWrite", "torn")
     \/ lag[p] # "none" /\ Abort(p)
StartLag(p) ==
  /\ stage[p] = "lagTemp"
  /\ \/ lag[p] = "none" /\ Marker(p, "lagWrite", "torn")
     \/ lag[p] = "temp" /\ Marker(p, "lagRename", "temp")
     \/ lag[p] \in {"torn", "final"} /\ Abort(p)
WriteLag(p) == stage[p] = "lagWrite" /\ Marker(p, "lagRename", "temp")
RenameLag(p) ==
  /\ stage[p] = "lagRename"
  /\ lag' = [lag EXCEPT ![p] = "final"]
  /\ Return(p)
  /\ UNCHANGED <<ledger, journal, seen, chosen, snapshots, pointer, source, turn, current,
                 derived, ran, budgets>>

-----------------------------------------------------------------------------
(* The approved command. *)

(* continue_approved_workflow looks at the file again and starts the command *)
RunCommand(p) ==
  /\ stage[p] = "command"
  /\ \/ /\ source[p] = "after"
        /\ ran' = [ran EXCEPT ![p] = @ + 1]
        /\ stage' = [stage EXCEPT ![p] = "result"]
        /\ UNCHANGED <<ledger, writer, journal, pc, seen, chosen, files, budgets>>
     \/ source[p] # "after" /\ Abort(p)

(* restore_from_rollback, before anything of a failure is recorded.  What the
   user wrote is a conflict and stays.  A restore that fails (its journal is
   refused, its rollback record is damaged, its journal cannot be removed) may
   have put the original back. *)
Restore(p) ==
  /\ stage[p] = "result"
  /\ \/ /\ source[p] # "user" /\ LagAuthority(p)
        /\ source' = [source EXCEPT ![p] = "before"]
        /\ stage' = [stage EXCEPT ![p] = "restored"]
        /\ faults' = faults
     \/ /\ source[p] # "user" /\ LagAuthority(p) /\ faults < FaultBudget
        /\ \E s \in {"before", source[p]} : source' = [source EXCEPT ![p] = s]
        /\ stage' = [stage EXCEPT ![p] = "unrestored"]
        /\ faults' = faults + 1
     \/ /\ source[p] = "user" \/ ~LagAuthority(p)
        /\ stage' = [stage EXCEPT ![p] = "unrestored"]
        /\ UNCHANGED <<source, faults>>
  /\ UNCHANGED <<ledger, writer, journal, pc, seen, chosen, snapshots, pointer, turn, current,
                 derived, lag, ran, stops, edits>>

(* an error between the result of the command and its checkpoint, or the
   checkpoint is refused: the workflow stays in verification-started *)
Unrecorded(p) ==
  /\ stage[p] \in {"result", "restored", "unrestored"}
  /\ \/ faults < FaultBudget /\ faults' = faults + 1
     \/ ~LagAuthority(p) /\ faults' = faults
  /\ Return(p)
  /\ UNCHANGED <<ledger, journal, seen, chosen, files, ran, stops, edits>>

(* the result is one checkpoint: of the passed command, or of the failed one
   with what became of its file *)
Outcomes == {"verified", "failed", "rollback-failed"}
Recordable(p, f) ==
  \/ stage[p] = "result" /\ f = "verified"
  \/ stage[p] = "restored" /\ f = "failed"
  \/ stage[p] = "unrestored" /\ f = "rollback-failed"
Record(p, f) ==
  /\ Recordable(p, f) /\ writer = NoProject /\ LagAuthority(p)
  /\ ledger' = Append(ledger, Other)
  /\ snapshots' = [snapshots EXCEPT ![p] = Append(@, f)]
  /\ pointer' = [pointer EXCEPT ![p] = @ + 1]
  /\ current' = [current EXCEPT ![p] = [revision |-> pointer[p] + 1, head |-> Length + 1]]
  /\ derived' = [derived EXCEPT ![p] = Length + 1]
  /\ Return(p)
  /\ UNCHANGED <<journal, seen, chosen, source, turn, lag, ran, budgets>>

-----------------------------------------------------------------------------
(* The environment. *)

Stop(p) ==
  /\ stage[p] # "idle" /\ stops < StopBudget
  /\ stops' = stops + 1
  /\ Return(p)
  /\ UNCHANGED <<ledger, journal, seen, chosen, files, ran, edits, faults>>

Edit(p) ==
  /\ source[p] # "user" /\ edits < EditBudget
  /\ edits' = edits + 1
  /\ source' = [source EXCEPT ![p] = "user"]
  /\ UNCHANGED <<ledger, writer, journal, stage, pc, seen, chosen, snapshots, pointer, turn,
                 current, derived, lag, ran, stops, faults>>

Work(p) ==
  \/ AppendEvent(p) \/ InstallSnapshot(p) \/ InstallPointer(p) \/ InstallSource(p)
  \/ InstallTranscript(p) \/ InstallCurrent(p) \/ Converge(p)
  \/ RemoveLag(p) \/ RemoveJournal(p) \/ StartLag(p) \/ WriteLag(p) \/ RenameLag(p)
  \/ AdmitApproval(p) \/ AdmitVerification(p) \/ Stale(p) \/ RunCommand(p)

Next ==
  \/ \E p \in Projects :
       \/ Work(p) \/ Retry(p) \/ ConvergeFails(p) \/ Deny(p) \/ Cancel(p) \/ Stop(p) \/ Edit(p)
       \/ \E k \in {"approve", "verify"} : Observe(p, k)
       \/ Restore(p) \/ Unrecorded(p)
       \/ \E f \in Outcomes : Record(p, f)

Spec == Init /\ [][Next]_vars

(* A process goes on with its steps until it stops, and the user goes on to
   issue commands in a project whose last one failed: each begins with the
   recovery. *)
FairSpec == Spec /\ \A p \in Projects : WF_vars(Work(p)) /\ SF_vars(Retry(p))

-----------------------------------------------------------------------------
(* Properties. *)

Decided(p) == IF Journaled(p) THEN Phases(journal[p].kind)[Len(Phases(journal[p].kind))]
              ELSE Phase(p)

(* However often a bundle is interrupted and replayed
   (ledger/writer.rs:append_runtime_planned), its events are in the ledger
   once, in their order and with nothing between them. *)
EventsInOrder ==
  \A i \in 1..Length : ledger[i] # Other =>
    /\ \A k \in 1..Length : ledger[k] = ledger[i] => k = i
    /\ ledger[i].event > 1 =>
         i > 1 /\ ledger[i - 1] = [ledger[i] EXCEPT !.event = @ - 1]

(* A bundle whose journal is gone (persistence.rs:remove_committed_source_bundle)
   is installed as a whole: its last event, its last revision, the current image
   and, for an approval, the transcript turn. *)
Whole ==
  \A p \in Projects : ~Journaled(p) =>
    /\ current[p].revision = pointer[p] /\ pointer[p] = Len(snapshots[p])
    /\ pointer[p] > 1 => ledger[current[p].head].event \in {0, 3, 10}
    /\ Phase(p) \in Applied => turn[p]

(* The command ran and its result was not recorded: resume.rs calls it
   inconclusive and never runs it again. *)
Inconclusive(p) == Phase(p) = "verification-started" /\ ran[p] = 1

(* The file agrees with the decision (transaction_coordinator/approval.rs,
   terminal/rollback.rs:workflow_has_applied_source,
   execution.rs:restore_from_rollback): an applied patch is in it, a patch that
   was denied, cancelled or failed its verification is not, unless exactly that
   is recorded as a failed rollback; the ledger never reports an application
   that has not happened, and a command is only run with the patch in place.
   Only a failed command undoes an application without a decision, and until
   its failure is recorded the workflow is inconclusive. *)
SourceAgrees ==
  \A p \in Projects :
    /\ ~Journaled(p) /\ Phase(p) \in Applied =>
         source[p] # "before" \/ (Inconclusive(p) /\ stage[p] # "result")
    /\ ~Journaled(p) /\ Phase(p) \notin Applied =>
         source[p] # "after" \/ Phase(p) = "rollback-failed"
    /\ Approving(p) /\ Installed(p, 8) => source[p] # "before"

(* The current image (state/transition_commit.rs:install_current_image) shows a
   revision only when the pointer, its snapshot and the events it binds are
   on disk. *)
CurrentBehind ==
  \A p \in Projects :
    /\ current[p].revision <= pointer[p] /\ pointer[p] <= Len(snapshots[p])
    /\ current[p].head <= Length

(* When no bundle is pending the derived outputs
   (ledger/writer.rs:converge_prepared) show everything the current image binds. *)
DerivedShown == \A p \in Projects : ~Journaled(p) => derived[p] >= current[p].head

(* A lag marker (bundle_preparation/projection_lag.rs) always belongs to the
   pending approval of its project: an orphan would refuse the transitions of
   every project of the installation. *)
LagOwned == \A p \in Projects : lag[p] # "none" => Approving(p)

(* What the ledger and the files of an installation say of its bundles, between
   any two steps of any command (transaction_coordinator, journal/recovery.rs). *)
OnDisk == TypeOK /\ EventsInOrder /\ Whole /\ CurrentBehind /\ DerivedShown /\ LagOwned

(* The verification command is started at most once, and only after the ledger
   and its derived outputs show the last event of the bundle that approved
   exactly it (verification.rs; resume.rs never starts it again). *)
CommandApproved ==
  \A p \in Projects :
    /\ ran[p] <= 1
    /\ ran[p] = 1 =>
         \E i \in 1..derived[p] :
           /\ ledger[i].project = p /\ ledger[i].event = 3
           /\ snapshots[p][ledger[i].revision + 1] = "verification-started"

(* install_pointer never takes a workflow back to an earlier revision, in a
   commit or in any recovery. *)
PointerForward == [][\A p \in Projects : pointer'[p] >= pointer[p]]_vars

(* A marker is removed only after the derived outputs show the last event of
   its bundle (transaction_coordinator/approval.rs:execute_approval_transaction). *)
LagUntilConverged ==
  [][\A p \in Projects : lag[p] = "final" /\ lag'[p] = "none" =>
       derived[p] >= Target(journal[p])]_vars

(* No commit and no recovery undoes what another one finished. *)
NothingTakenBack == PointerForward /\ LagUntilConverged

(* The phases a workflow is decided to be in and its command follow the
   lifecycle: the journal's commit is the decision, and nothing takes it back. *)
LifePhase(f) == IF f = "rollback-failed" THEN "failed" ELSE f
Life == INSTANCE WorkflowLife WITH phase <- [p \in Projects |-> LifePhase(Decided(p))],
                                   ran <- ran
LifeSpec == Life!LifeSpec

(* What keeps a bundle pending whatever is retried: events after its own, the
   user's bytes in its file, a lag marker whose write was cut short, or a
   marker of another project. *)
Blocked(p) ==
  \/ ~Prefix(p)
  \/ source[p] = "user"
  \/ lag[p] = "torn"
  \/ \E q \in Projects \ {p} : lag[q] # "none"

(* Retried recoveries (journal/recovery.rs, projection_barrier.rs) finish every
   bundle that nothing of these blocks. *)
Recovered == \A p \in Projects : []<>(~Journaled(p) \/ Blocked(p))
=============================================================================
