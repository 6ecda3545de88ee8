----------------------------- MODULE Transition ------------------------------
(***************************************************************************)
(* The current state of a project and the transitions that replace it.  A  *)
(* transition is prepared as a bundle in the project's journal, installed  *)
(* member by member, and finished from the journal by whoever takes the    *)
(* project's transition guard next if its process stops halfway.           *)
(*                                                                         *)
(* An event id names one event, one current image and one workflow         *)
(* revision, so it also stands for their hashes; 0 is none of them.  The   *)
(* ledger only grows (module Ledger), so an ordinal and an id fix a prefix.*)
(***************************************************************************)
EXTENDS Integers, Sequences, FiniteSets, SequencesExt

CONSTANTS
    Proc,        \* processes of the command line and the interface
    NoProc,
    Project,
    Absent,      \* the current-state file does not exist
    Damaged,     \* it does not parse
    NoBundle,
    Kinds,       \* the operations that are exercised
    TornWrites,  \* can a process stop inside a write that is not a rename?
    MaxEvents,   \* bound on the events issued
    MaxKills     \* bound on the processes that stop halfway

ASSUME NoProcAssumption == NoProc \notin Proc /\ IsFiniteSet(Proc)
ASSUME ProjectAssumption == Project # {}
ASSUME BoundAssumption == MaxEvents \in Nat /\ MaxKills \in Nat

VARIABLES
    issued,   \* the content of every event id
    ledger,   \* the runtime ledger, as event ids
    current,  \* per project: the current image
    journal,  \* per project: the prepared bundle that is committed
    temp,     \* per project: the file the journal is renamed from
    snaps,    \* per project: the workflow's snapshots, by revision
    pointer,  \* per project: the workflow revision that is committed
    backup,   \* per project: the files that preserve a damaged current state
    derived,  \* per project: how much of the ledger its outputs show
    guard,    \* per project: who holds the transition guard
    writer,   \* who holds the ledger's writer lease
    pc, task, \* where a process stands, and what it was asked to do
    bundle,   \* the bundle it installs
    kills

diskVars == <<ledger, current, journal, temp, snaps, pointer, backup, derived>>
leaseVars == <<guard, writer>>
procVars == <<pc, task, bundle>>
vars == <<issued, diskVars, leaseVars, procVars, kills>>

IsImage(s) == s \notin {Absent, Damaged}

NoTask == [project |-> CHOOSE pr \in Project : TRUE, kind |-> "none", session |-> 0,
           base |-> 0, loaded |-> 0, seen |-> Absent, own |-> 0]

Init ==
    /\ issued = <<>> /\ ledger = <<>>
    /\ current = [pr \in Project |-> Absent]
    /\ journal = [pr \in Project |-> NoBundle]
    /\ temp = [pr \in Project |-> "none"]
    /\ snaps = [pr \in Project |-> <<>>]
    /\ pointer = [pr \in Project |-> 0]
    /\ backup = [pr \in Project |-> {}]
    /\ derived = [pr \in Project |-> 0]
    /\ guard = [pr \in Project |-> NoProc] /\ writer = NoProc
    /\ pc = [p \in Proc |-> "idle"] /\ task = [p \in Proc |-> NoTask]
    /\ bundle = [p \in Proc |-> NoBundle]
    /\ kills = 0

Doing(p, kind) == task[p].kind = kind
Of(p) == task[p].project
Prev(p) == current[Of(p)]

Goto(p, here, there) ==
    /\ pc[p] = here
    /\ pc' = [pc EXCEPT ![p] = there]

(* Every way out of an operation drops its leases. *)
Leave(p) ==
    /\ pc' = [pc EXCEPT ![p] = "idle"]
    /\ task' = [task EXCEPT ![p] = NoTask]
    /\ bundle' = [bundle EXCEPT ![p] = NoBundle]
    /\ guard' = [pr \in Project |-> IF guard[pr] = p THEN NoProc ELSE guard[pr]]
    /\ writer' = IF writer = p THEN NoProc ELSE writer

-----------------------------------------------------------------------------
(* What is read without the guard. *)

(* Room for one more event beside those that are under way. *)
Room == Len(issued) + Cardinality({p \in Proc : pc[p] # "idle"}) < MaxEvents

Session(s) == IF IsImage(s) THEN s.session ELSE 0
Workflow(s) == IF IsImage(s) THEN s.wf ELSE 0
Boundary(s) == IF IsImage(s) THEN s.boundary ELSE 0

(* The first read fixes the session an operation speaks for, the boundary  *)
(* a compaction builds on, or the revision that is to be followed.  A      *)
(* command that records needs a current state, an image it can read.       *)
MayBegin(kind, s) ==
    CASE kind \in {"record", "compact", "advance"} -> IsImage(s)
      [] kind \in {"init", "recover"} -> TRUE
      [] OTHER -> kind = "reconcile" \/ s # Damaged

Begin(p, pr, kind) ==
    /\ pc[p] = "idle"
    /\ kind = "recover" \/ Room
    /\ MayBegin(kind, current[pr])
    /\ task' = [task EXCEPT ![p] =
          [project |-> pr, kind |-> kind,
           session |-> IF kind \in {"record", "compact", "create"}
                       THEN Session(current[pr]) ELSE 0,
           base |-> IF kind = "compact" THEN Boundary(current[pr]) ELSE 0,
           loaded |-> IF kind = "advance" THEN pointer[pr] ELSE 0,
           seen |-> Absent, own |-> 0]]
    /\ pc' = [pc EXCEPT ![p] =
          IF kind \in {"record", "compact", "session"} THEN "observing" ELSE "waiting"]
    /\ UNCHANGED <<issued, diskVars, leaseVars, bundle, kills>>

(* The second read: the active workflow, or the predecessor to hold on to. *)
Observe(p) ==
    /\ Goto(p, "observing", "waiting")
    /\ Prev(p) # Damaged
    /\ task' = [task EXCEPT ![p].seen = Prev(p)]
    /\ UNCHANGED <<issued, diskVars, leaseVars, bundle, kills>>

(* TransitionGuard::acquire_for. *)
Enter(p) ==
    /\ Goto(p, "waiting", "recovering")
    /\ guard[Of(p)] = NoProc
    /\ guard' = [guard EXCEPT ![Of(p)] = p]
    /\ UNCHANGED <<issued, diskVars, writer, task, bundle, kills>>

-----------------------------------------------------------------------------
(* What a bundle may still find when its members are installed. *)

LastId == IF ledger = <<>> THEN 0 ELSE Last(ledger)
Planned(b) == issued[b.image.event]

(* The event is installed where it was planned.  Defect: that is not looked for. *)
Installed_Unnoticed(b) == FALSE
Installed(b) == b.image.count <= Len(ledger) /\ ledger[b.image.count] = b.image.event

AppendFits(b) == Installed(b) \/ (Len(ledger) + 1 = b.image.count /\ LastId = b.after)

(* Defect: an image that is already in place counts as a conflict. *)
CurrentFits_Once(b, pr) == current[pr] = b.over
CurrentFits(b, pr) == current[pr] \in {b.image, b.over}

(* No event follows the planned one. *)
IsHead(b) == Len(ledger) = b.image.count /\ LastId = b.image.event

Rev(e) == IF e = 0 THEN 0 ELSE issued[e].rev

SnapshotFits(b, pr) ==
    LET rev == Planned(b).rev
        had == Len(snaps[pr])
    IN  rev > 0 => rev = had + 1 \/ (rev <= had /\ snaps[pr][rev] = b.image.event)

Backup(b, how) == [event |-> b.image.event, how |-> how]
BackupFits(b, pr) == Backup(b, "torn") \notin backup[pr]

(* A later revision on top of this one is left in place. *)
PointerFits(b, pr) ==
    LET rev == Planned(b).rev
    IN  rev > 0 => \/ Rev(pointer[pr]) < rev
                   \/ pointer[pr] = b.image.event
                   \/ Rev(pointer[pr]) = rev + 1 /\ snaps[pr][rev] = b.image.event

-----------------------------------------------------------------------------
(* Installing a bundle: the same steps in the same order for the process   *)
(* that prepared it and for one that recovers it.                          *)

(* Defects: the current image before its event; the journal removed before *)
(* the pointer.                                                            *)
Steps_CurrentFirst ==
    <<"artifacts", "current", "append", "pointer", "converge", "remove", "done">>
Steps_PointerLast ==
    <<"artifacts", "append", "current", "converge", "remove", "pointer", "done">>
Steps == <<"artifacts", "append", "pointer", "current", "converge", "remove", "done">>

Advance(p, step) ==
    LET i == CHOOSE i \in 1 .. Len(Steps) : Steps[i] = step
    IN  Goto(p, step, Steps[i + 1])

-----------------------------------------------------------------------------
(* recover_pending_bundles_under_guard: the journal first, then a temporary *)
(* file, then the operation itself.                                        *)

TakeJournal(p) ==
    /\ Goto(p, "recovering", Steps[1])
    /\ journal[Of(p)] # NoBundle
    /\ CurrentFits(journal[Of(p)], Of(p))
    /\ writer = NoProc
    /\ writer' = p
    /\ bundle' = [bundle EXCEPT ![p] = journal[Of(p)]]
    /\ UNCHANGED <<issued, diskVars, guard, task, kills>>

DropTemp(p) ==
    /\ pc[p] = "recovering"
    /\ journal[Of(p)] = NoBundle /\ temp[Of(p)] = "whole"
    /\ temp' = [temp EXCEPT ![Of(p)] = "none"]
    /\ UNCHANGED <<issued, ledger, current, journal, snaps, pointer, backup, derived,
                   leaseVars, procVars, kills>>

Recovered(p) ==
    /\ Goto(p, "recovering", "ready")
    /\ journal[Of(p)] = NoBundle /\ temp[Of(p)] = "none"
    /\ UNCHANGED <<issued, diskVars, leaseVars, task, bundle, kills>>

-----------------------------------------------------------------------------
(* What an operation asks for once it holds the guard: the set is empty    *)
(* when the code refuses or has nothing to do.                             *)

Fresh == Len(issued) + 1

(* load_workflow_under_transition: the checkpoint events, sorted by their  *)
(* revisions, are those of the committed revisions, and each is that of    *)
(* its revision's snapshot.                                                *)
Checkpoints(pr) ==
    {i \in 1 .. Len(ledger) : issued[ledger[i]].project = pr /\ issued[ledger[i]].rev > 0}
Loads(pr) ==
    /\ pointer[pr] # 0
    /\ Cardinality(Checkpoints(pr)) = Rev(pointer[pr])
    /\ Len(snaps[pr]) >= Rev(pointer[pr])
    /\ \A rev \in 1 .. Rev(pointer[pr]) :
          \E i \in Checkpoints(pr) :
             issued[ledger[i]].rev = rev /\ snaps[pr][rev] = ledger[i]
    /\ snaps[pr][Rev(pointer[pr])] = pointer[pr]

(* discover_active_workflow. *)
Scans(pr) == Loads(pr) \/ (pointer[pr] = 0 /\ snaps[pr] = <<>>)
Closed(pr) == pointer[pr] # 0 /\ issued[pointer[pr]].closed
Active(pr) == IF Closed(pr) THEN 0 ELSE pointer[pr]

(* A boundary is kept within its session. *)
Kept(pr, session) == IF Session(current[pr]) = session THEN Boundary(current[pr]) ELSE 0

Target(session, wf, boundary) ==
    [session |-> session, wf |-> wf, boundary |-> boundary, rev |-> 0, closed |-> FALSE]
Checkpoint(session, boundary, rev, closed) ==
    [session |-> session, wf |-> Fresh, boundary |-> boundary, rev |-> rev, closed |-> closed]

InitTargets(p) ==
    {t \in {Target(Fresh, 0, 0)} : Prev(p) = Absent}

(* The workflow that was seen is loaded again, whatever its revision now. *)
RecordTarget(p, boundary) ==
    {t \in {Target(task[p].session, IF Workflow(task[p].seen) = 0 THEN 0 ELSE pointer[Of(p)],
                   boundary)} :
        /\ Prev(p) # Damaged
        /\ Workflow(task[p].seen) # 0 =>
              Loads(Of(p)) /\ issued[pointer[Of(p)]].session = task[p].session}

RecordTargets(p) == RecordTarget(p, Kept(Of(p), task[p].session))

(* The compare-and-set on the boundary.  Defect: it is left out. *)
BoundaryHolds_Unchecked(p) == TRUE
BoundaryHolds(p) == Boundary(Prev(p)) = task[p].base

CompactTargets(p) == {t \in RecordTarget(p, Fresh) : BoundaryHolds(p)}

SessionTargets(p) ==
    {t \in {Target(Fresh, 0, 0)} : Prev(p) # Damaged /\ Prev(p) = task[p].seen}

SelectTargets(p) ==
    {t \in {Target(issued[ledger[i]].session, Active(Of(p)),
                   Kept(Of(p), issued[ledger[i]].session)) : i \in 1 .. Len(ledger)} :
        /\ IsImage(Prev(p)) /\ Scans(Of(p))
        /\ \E i \in 1 .. Len(ledger) :
              issued[ledger[i]].project = Of(p) /\ issued[ledger[i]].session = t.session
        /\ Active(Of(p)) # 0 => issued[Active(Of(p))].session = t.session}

(* create_workflow: the session was read without the guard. *)
CreateTargets(p) ==
    LET session == IF task[p].session = 0 THEN Fresh ELSE task[p].session
    IN  {t \in {Checkpoint(session, Kept(Of(p), session), 1, FALSE)} :
            Prev(p) # Damaged /\ pointer[Of(p)] = 0}

(* checkpoint_workflow: the revision that was loaded must still be the last. *)
AdvanceTargets(p) ==
    {Checkpoint(issued[w].session, Kept(Of(p), issued[w].session), Rev(w) + 1, c) :
        c \in BOOLEAN,
        w \in {v \in {task[p].loaded} \ {0} :
                 /\ pointer[Of(p)] = v /\ ~issued[v].closed /\ Loads(Of(p))
                 /\ Prev(p) # Damaged}}

(* active_workflow_id: the pointer of an open workflow is recovered, that  *)
(* of a closed one is cleared.                                             *)
RepairTargets(p) ==
    LET wanted == Active(Of(p))
    IN  {Target(issued[w].session, wanted, Kept(Of(p), issued[w].session)) :
            w \in {v \in {pointer[Of(p)]} \ {0} :
                     /\ Loads(Of(p)) /\ Prev(p) # Damaged
                     /\ Workflow(Prev(p)) # wanted /\ (IsImage(Prev(p)) \/ wanted # 0)}}

ReconcileTargets(p) ==
    {t \in {Target(Fresh, 0, 0)} : ~IsImage(Prev(p))}

Targets(p) ==
    CASE Doing(p, "init") -> InitTargets(p)
      [] Doing(p, "record") -> RecordTargets(p)
      [] Doing(p, "compact") -> CompactTargets(p)
      [] Doing(p, "session") -> SessionTargets(p)
      [] Doing(p, "select") -> SelectTargets(p)
      [] Doing(p, "create") -> CreateTargets(p)
      [] Doing(p, "advance") -> AdvanceTargets(p)
      [] Doing(p, "repair") -> RepairTargets(p)
      [] Doing(p, "reconcile") -> ReconcileTargets(p)
      [] OTHER -> {}

-----------------------------------------------------------------------------
(* transition_project_current_state_under_guard. *)

(* The image a new one replaces.  Defect: the one seen before the guard. *)
Replaced_Seen(p) == IF Doing(p, "record") THEN task[p].seen ELSE current[Of(p)]
Replaced(p) == current[Of(p)]

(* validate_ledger_ancestor. *)
Ancestor(s) == IsImage(s) => s.count <= Len(ledger) /\ ledger[s.count] = s.event

(* A first image has revision 1. *)
NextRev(s) == IF IsImage(s) THEN s.rev + 1 ELSE 1

Image(s, t) ==
    [rev |-> NextRev(s), event |-> Fresh, prev |-> IF IsImage(s) THEN s.event ELSE 0,
     session |-> t.session, wf |-> t.wf, boundary |-> t.boundary, count |-> Len(ledger) + 1]

(* The writer lease is taken and held until the transition is over. *)
Prepare(p) ==
    /\ Goto(p, "ready", "temp")
    /\ writer = NoProc
    /\ Ancestor(Replaced(p))
    /\ \E t \in Targets(p) :
          /\ issued' = Append(issued, [project |-> Of(p), kind |-> task[p].kind,
                                       session |-> t.session, rev |-> t.rev,
                                       closed |-> t.closed, base |-> task[p].base])
          /\ bundle' = [bundle EXCEPT ![p] =
                [image |-> Image(Replaced(p), t), over |-> Replaced(p), after |-> LastId]]
    /\ writer' = p
    /\ task' = [task EXCEPT ![p].own = Fresh]
    /\ UNCHANGED <<diskVars, guard, kills>>

WriteTemp(p) ==
    /\ Goto(p, "temp", "rename")
    /\ temp' = [temp EXCEPT ![Of(p)] = "whole"]
    /\ UNCHANGED <<issued, ledger, current, journal, snaps, pointer, backup, derived,
                   leaseVars, task, bundle, kills>>

(* From here on the transition will happen. *)
CommitJournal(p) ==
    /\ Goto(p, "rename", Steps[1])
    /\ journal' = [journal EXCEPT ![Of(p)] = bundle[p]]
    /\ temp' = [temp EXCEPT ![Of(p)] = "none"]
    /\ UNCHANGED <<issued, ledger, current, snaps, pointer, backup, derived, leaseVars,
                   task, bundle, kills>>

-----------------------------------------------------------------------------
(* The steps of an installation.  A process may be finishing what another  *)
(* one prepared.                                                           *)
Recovering(p) == bundle[p].image.event # task[p].own

(* install_snapshot, or the backup of a damaged current state. *)
InstallArtifacts(p) ==
    LET b == bundle[p]
        rev == Planned(b).rev
    IN  /\ Advance(p, "artifacts")
        /\ SnapshotFits(b, Of(p)) /\ BackupFits(b, Of(p))
        /\ snaps' = IF rev = Len(snaps[Of(p)]) + 1
                    THEN [snaps EXCEPT ![Of(p)] = Append(@, b.image.event)] ELSE snaps
        /\ backup' = IF b.over = Damaged
                     THEN [backup EXCEPT ![Of(p)] = @ \cup {Backup(b, "whole")}] ELSE backup
        /\ UNCHANGED <<issued, ledger, current, journal, temp, pointer, derived, leaseVars,
                       task, bundle, kills>>

AppendPlanned(p) ==
    /\ Advance(p, "append")
    /\ AppendFits(bundle[p])
    /\ ledger' = IF Installed(bundle[p]) THEN ledger
                 ELSE Append(ledger, bundle[p].image.event)
    /\ UNCHANGED <<issued, current, journal, temp, snaps, pointer, backup, derived, leaseVars,
                   task, bundle, kills>>

InstallPointer(p) ==
    LET b == bundle[p]
        rev == Planned(b).rev
    IN  /\ Advance(p, "pointer")
        /\ PointerFits(b, Of(p))
        /\ pointer' = IF rev > 0 /\ Rev(pointer[Of(p)]) < rev
                      THEN [pointer EXCEPT ![Of(p)] = b.image.event] ELSE pointer
        /\ UNCHANGED <<issued, ledger, current, journal, temp, snaps, backup, derived,
                       leaseVars, task, bundle, kills>>

(* Recovery looks once more whether the planned event is the head. *)
InstallCurrent(p) ==
    /\ Advance(p, "current")
    /\ Recovering(p) => IsHead(bundle[p])
    /\ CurrentFits(bundle[p], Of(p))
    /\ current' = [current EXCEPT ![Of(p)] = bundle[p].image]
    /\ UNCHANGED <<issued, ledger, journal, temp, snaps, pointer, backup, derived, leaseVars,
                   task, bundle, kills>>

(* With this a recovery is over for the ledger. *)
Converge(p) ==
    /\ Advance(p, "converge")
    /\ derived' = [derived EXCEPT ![Of(p)] = Len(ledger)]
    /\ writer' = IF Recovering(p) THEN NoProc ELSE writer
    /\ UNCHANGED <<issued, ledger, current, journal, temp, snaps, pointer, backup, guard,
                   task, bundle, kills>>

RemoveJournal(p) ==
    /\ Advance(p, "remove")
    /\ journal' = [journal EXCEPT ![Of(p)] = NoBundle]
    /\ UNCHANGED <<issued, ledger, current, temp, snaps, pointer, backup, derived, leaseVars,
                   task, bundle, kills>>

(* After a recovery the operation itself begins; after a commit it returns. *)
Finish(p) ==
    /\ pc[p] = "done"
    /\ \/ /\ Recovering(p)
          /\ Goto(p, "done", "recovering")
          /\ bundle' = [bundle EXCEPT ![p] = NoBundle]
          /\ UNCHANGED <<leaseVars, task>>
       \/ ~Recovering(p) /\ Leave(p)
    /\ UNCHANGED <<issued, diskVars, kills>>

-----------------------------------------------------------------------------
(* The ways out: a lease that stays busy for five seconds, a check that    *)
(* fails, or nothing to do.                                                *)
Return(p) ==
    LET pr == Of(p)
        b == bundle[p]
    IN  /\ \/ pc[p] = "observing" /\ Prev(p) = Damaged
           \/ pc[p] = "waiting" /\ guard[pr] # NoProc
           \/ pc[p] = "recovering" /\ temp[pr] = "torn"
           \/ /\ pc[p] = "recovering" /\ journal[pr] # NoBundle
              /\ writer # NoProc \/ ~CurrentFits(journal[pr], pr)
           \/ /\ pc[p] = "ready"
              /\ writer # NoProc \/ Targets(p) = {} \/ ~Ancestor(Replaced(p))
           \/ pc[p] = "artifacts" /\ ~(SnapshotFits(b, pr) /\ BackupFits(b, pr))
           \/ pc[p] = "append" /\ ~AppendFits(b)
           \/ pc[p] = "pointer" /\ ~PointerFits(b, pr)
           \/ /\ pc[p] = "current"
              /\ ~CurrentFits(b, pr) \/ (Recovering(p) /\ ~IsHead(b))
        /\ Leave(p)
        /\ UNCHANGED <<issued, diskVars, kills>>

(* The process dies, or a system call fails and the operation gives up: a  *)
(* file that is not installed by a rename may be left unfinished.          *)
Kill(p) ==
    /\ pc[p] # "idle" /\ kills < MaxKills
    /\ kills' = kills + 1
    /\ \/ UNCHANGED <<temp, backup>>
       \/ /\ TornWrites /\ pc[p] = "temp"
          /\ temp' = [temp EXCEPT ![Of(p)] = "torn"]
          /\ UNCHANGED backup
       \/ /\ TornWrites /\ pc[p] = "artifacts" /\ bundle[p].over = Damaged
          /\ Backup(bundle[p], "whole") \notin backup[Of(p)]
          /\ backup' = [backup EXCEPT ![Of(p)] = @ \cup {Backup(bundle[p], "torn")}]
          /\ UNCHANGED temp
    /\ Leave(p)
    /\ UNCHANGED <<issued, ledger, current, journal, snaps, pointer, derived>>

(* ledger::append_event: an event that changes no state, appended under    *)
(* the writer lease alone.                                                 *)
AppendEvent(p, pr) ==
    /\ "append" \in Kinds
    /\ pc[p] = "idle" /\ writer = NoProc /\ Room
    /\ issued' = Append(issued, [project |-> pr, kind |-> "append",
                                 session |-> Session(current[pr]), rev |-> 0,
                                 closed |-> FALSE, base |-> 0])
    /\ ledger' = Append(ledger, Fresh)
    /\ derived' = [derived EXCEPT ![pr] = Len(ledger')]
    /\ UNCHANGED <<current, journal, temp, snaps, pointer, backup, leaseVars, procVars, kills>>

(* Something outside the program damages or removes the file, while no     *)
(* transition runs, and not again once a backup has been made.             *)
Lose(pr) ==
    /\ "lose" \in Kinds
    /\ IsImage(current[pr]) /\ backup[pr] = {} /\ guard[pr] = NoProc
    /\ \E s \in {Absent, Damaged} : current' = [current EXCEPT ![pr] = s]
    /\ UNCHANGED <<issued, ledger, journal, temp, snaps, pointer, backup, derived, leaseVars,
                   procVars, kills>>

Operation == Kinds \ {"append", "lose"}

Step(p) ==
    \/ Observe(p) \/ Enter(p) \/ TakeJournal(p) \/ DropTemp(p) \/ Recovered(p) \/ Prepare(p)
    \/ WriteTemp(p) \/ CommitJournal(p) \/ InstallArtifacts(p) \/ AppendPlanned(p)
    \/ InstallPointer(p) \/ InstallCurrent(p) \/ Converge(p) \/ RemoveJournal(p) \/ Finish(p)
    \/ Return(p)

Next ==
    \/ \E p \in Proc : Step(p) \/ Kill(p)
    \/ \E p \in Proc, pr \in Project : AppendEvent(p, pr)
    \/ \E p \in Proc, pr \in Project, kind \in Operation : Begin(p, pr, kind)
    \/ \E pr \in Project : Lose(pr)

Spec == Init /\ [][Next]_vars

(* A process that runs goes on, and a project is opened again. *)
Fairness ==
    /\ \A p \in Proc : WF_vars(Step(p))
    /\ \A pr \in Project : WF_vars(\E p \in Proc : Begin(p, pr, "recover"))

FairSpec == Spec /\ Fairness

-----------------------------------------------------------------------------
EventId == 1 .. MaxEvents
PcSet == {"idle", "observing", "waiting", "recovering", "ready", "temp", "rename",
          "artifacts", "append", "pointer", "current", "converge", "remove", "done"}
KindSet == {"init", "record", "compact", "session", "select", "create", "advance", "repair",
            "reconcile", "recover"}

ImageSet == [rev : 1 .. MaxEvents, event : EventId, prev : 0 .. MaxEvents,
             session : 0 .. MaxEvents, wf : 0 .. MaxEvents, boundary : 0 .. MaxEvents,
             count : EventId]
StateSet == ImageSet \cup {Absent, Damaged}
BundleSet == [image : ImageSet, over : StateSet, after : 0 .. MaxEvents]

ASSUME KindsAssumption == Kinds \subseteq KindSet \cup {"append", "lose"}
(* What is not there or does not parse is no image, and no bundle is none. *)
ASSUME MarkersAssumption ==
    Absent # Damaged /\ {Absent, Damaged} \cap ImageSet = {} /\ NoBundle \notin BundleSet

TypeOK ==
    /\ issued \in Seq([project : Project, kind : KindSet \cup {"append"},
                       session : 0 .. MaxEvents, rev : 0 .. MaxEvents, closed : BOOLEAN,
                       base : 0 .. MaxEvents])
    /\ Len(issued) <= MaxEvents /\ ledger \in Seq(1 .. Len(issued))
    /\ current \in [Project -> StateSet]
    /\ journal \in [Project -> BundleSet \cup {NoBundle}]
    /\ temp \in [Project -> {"none", "torn", "whole"}]
    /\ snaps \in [Project -> Seq(EventId)] /\ pointer \in [Project -> 0 .. Len(issued)]
    /\ \A pr \in Project : \A f \in backup[pr] : f.event \in EventId /\ f.how \in {"whole", "torn"}
    /\ derived \in [Project -> 0 .. Len(ledger)]
    /\ guard \in [Project -> Proc \cup {NoProc}] /\ writer \in Proc \cup {NoProc}
    /\ pc \in [Proc -> PcSet]
    /\ \A p \in Proc :
          /\ task[p].project \in Project /\ task[p].kind \in KindSet \cup {"none"}
          /\ {task[p].session, task[p].base, task[p].loaded, task[p].own} \subseteq 0 .. MaxEvents
          /\ task[p].seen \in StateSet
          /\ bundle[p] \in BundleSet \cup {NoBundle}
    /\ kills \in 0 .. MaxKills

(* The current state never runs ahead of the ledger: the event it is bound *)
(* to is installed at the ordinal it names.                                *)
CurrentInstalled == \A pr \in Project : Ancestor(current[pr])

(* Whoever has recovered what it found under the guard can load the        *)
(* workflow: pointer, snapshots and checkpoint events tell the same story, *)
(* and the current state names no other revision.                          *)
WorkflowAgrees ==
    \A p \in Proc :
        pc[p] = "ready" =>
            /\ Scans(Of(p))
            /\ Workflow(Prev(p)) \in {0, pointer[Of(p)]}

(* A project without a journal has its current event in its derived        *)
(* outputs: what a crash kept from them is still in the journal.           *)
Shown ==
    \A pr \in Project :
        journal[pr] = NoBundle /\ IsImage(current[pr]) => derived[pr] >= current[pr].count

(* What a process starts from once it has recovered: a workflow that loads *)
(* and derived outputs that show the current event                         *)
(* (recover_pending_bundles_under_guard).                                  *)
RecoveredWhole == TypeOK /\ WorkflowAgrees /\ Shown

(* What is found in a journal passes every check of its installation.      *)
Finishable(pr) ==
    LET b == journal[pr]
    IN  /\ CurrentFits(b, pr) /\ AppendFits(b) /\ (Installed(b) => IsHead(b))
        /\ SnapshotFits(b, pr) /\ BackupFits(b, pr) /\ PointerFits(b, pr)

(* "lets startup finish any interrupted window idempotently": whatever is  *)
(* found in the journal of a project can be finished.                      *)
Recoverable ==
    \A pr \in Project : temp[pr] # "torn" /\ (journal[pr] # NoBundle => Finishable(pr))

(* What the code leaves a journal to: a backup that a stop left half       *)
(* written, a current state that went missing or was damaged behind the    *)
(* journal, and an event of another project, or of no transition, that     *)
(* took the place in the ledger or came behind the planned event.          *)
Foreign(pr, e) == issued[e].project # pr \/ issued[e].kind = "append"
Overtaken(pr) ==
    \E i \in journal[pr].image.count .. Len(ledger) : Foreign(pr, ledger[i])
Hindered(pr) ==
    \/ ~BackupFits(journal[pr], pr)
    \/ ~IsImage(current[pr]) /\ current[pr] # journal[pr].over
    \/ Overtaken(pr)

(* Nothing else strands a journal: neither a stop at any other place, nor  *)
(* another process, nor a recovery that stops itself, whatever the         *)
(* operation was (recover_pending_bundles_under_guard).                    *)
FinishableUnlessHindered ==
    \A pr \in Project :
        journal[pr] # NoBundle => temp[pr] = "none" /\ (Finishable(pr) \/ Hindered(pr))

(* Compactions form one chain: the boundary that a compaction replaces is  *)
(* the one its artifact was built on.                                      *)
CompactionChain ==
    [][\A pr \in Project :
          /\ current'[pr] # current[pr] /\ IsImage(current'[pr])
          /\ current'[pr].boundary = current'[pr].event
          => issued'[current'[pr].event].base = Boundary(current[pr])]_vars

(* A damaged current state is replaced only when a backup holds it. *)
BackupKept ==
    [][\A pr \in Project :
          current[pr] = Damaged /\ IsImage(current'[pr]) =>
              [event |-> current'[pr].event, how |-> "whole"] \in backup[pr]]_vars

(* What may replace a current state: transition_project_current_state      *)
(* compares, compact_context checks its boundary, and a repair backs up.   *)
ReplacementsKept == CompactionChain /\ BackupKept

(* What a stopped process left in the journal is finished in the end. *)
JournalsEmptied == \A pr \in Project : []<>(journal[pr] = NoBundle)

(* Together the steps of a transition are atomic: it happens when its      *)
(* journal is renamed into place, whoever finishes it.                     *)
Committed == [pr \in Project |-> IF journal[pr] # NoBundle THEN journal[pr].image ELSE current[pr]]
RecordedOf(pr) == {e \in ToSet(ledger) : issued[e].project = pr}
Recorded ==
    [pr \in Project |-> RecordedOf(pr) \cup
        (IF journal[pr] # NoBundle THEN {journal[pr].image.event} ELSE {})]
Atomic == INSTANCE AtomicState WITH state <- Committed, recorded <- Recorded
ImplementsAtomic == Atomic!Spec
=============================================================================
