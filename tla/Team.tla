-------------------------------- MODULE Team --------------------------------
(* A team of subagents under one parent workflow: planning, execution, the    *)
(* cancel command and reconciliation, each a command that any process may     *)
(* run.  An operation lease serialises execution's admission, cancel and      *)
(* reconciliation; the workers and the bookkeeping after them run without it. *)
(* A checkpoint of the team installs the snapshot of the next revision, then  *)
(* replaces the current file.  Events of the stages are left out: nothing     *)
(* reads them.  A Stop is a crash of a process or an error that ends its      *)
(* command between two steps.                                                 *)
EXTENDS Integers, FiniteSets, TLC

CONSTANTS Process,        \* processes that run team commands
          Lane,           \* lanes of the manifest, numbered: one member each
          Nobody,         \* no process
          Allowance       \* bound on each kind of event the users or the world decide

Spending == {"command", "stop", "other"}

ASSUME TeamAssumption ==
    /\ Lane # {} /\ Lane \subseteq Nat /\ IsFiniteSet(Lane)
    /\ Nobody \notin Process
    /\ Allowance \in [Spending -> Nat]

VARIABLES
    teamStage, teamRev, teamSnap, teamMode, \* current file; teamSnap: highest snapshot
    cancelMark,                             \* the cancel marker is installed
    holder,                                 \* who holds which lease
    execution,                              \* who holds the execution lease of a subagent
    attempt,                                \* admissions so far; each makes one subagent a lane
    status,                                 \* state of each subagent record
    worker,                                 \* lane -> attempt its admitted event names, or 0
    sent,                                   \* prompts sent to the model, per subagent
    stray,                                  \* subagents whose action leaves their lane
    receipt,                                \* lanes with their completion events
    parentRev, evidence,                    \* parent revisions since the plan, evidence in it
    job,                                    \* what each process is doing
    spent                                   \* events counted against Allowance

teamVars == <<teamStage, teamRev, teamSnap, teamMode, cancelMark>>
subagentVars == <<attempt, status, worker, sent, stray, receipt>>
parentVars == <<parentRev, evidence>>
leaseVars == <<holder, execution>>
allTeamVars == <<teamVars, leaseVars, subagentVars, parentVars, job, spent>>

Attempt == 1 .. Allowance["stop"] + 1
Subagent == Attempt \X Lane
LeaseName == {"operation", "state", "parent"}

TeamEnded == {"complete", "failed", "cancelled"}
TeamStages == {"none", "plan", "dispatch", "execute", "review", "verify", "merge", "report"}
              \cup TeamEnded

(* TeamStage::permits, with the creation at revision 0. *)
Permits(from, to) ==
    \/ <<from, to>> \in {<<"none", "plan">>, <<"plan", "dispatch">>, <<"dispatch", "execute">>,
                         <<"execute", "review">>, <<"review", "verify">>, <<"verify", "merge">>,
                         <<"merge", "report">>, <<"report", "complete">>}
    \/ from \notin TeamEnded \cup {"none"} /\ to \in {"failed", "cancelled"}

Lowest(lanes) == {l \in lanes : \A k \in lanes : l <= k}

Live == {"admitted", "running"}
Living == {s \in Subagent : status[s] \in Live}
Bound(l) == <<worker[l], l>>
BoundLanes == {l \in Lane : worker[l] # 0}
TeamMembers == {Bound(l) : l \in BoundLanes}

-----------------------------------------------------------------------------
Resting == [at |-> "rest", stage |-> "none", goal |-> "none", then |-> "rest", seen |-> 0,
            todo |-> {}, lane |-> [l \in Lane |-> "off"], failed |-> FALSE]

Spend(kind) ==
    /\ spent[kind] < Allowance[kind]
    /\ spent' = [spent EXCEPT ![kind] = @ + 1]

(* Process p goes on with some fields of its job changed. *)
Set(p, change) ==
    job' = [job EXCEPT ![p] = [f \in DOMAIN @ |-> IF f \in DOMAIN change THEN change[f] ELSE @[f]]]

Advance(p, to, next) == Set(p, [at |-> "load", goal |-> to, then |-> next])

Take(p, name) == holder' = [holder EXCEPT ![name] = p]
Give(name) == holder' = [holder EXCEPT ![name] = Nobody]

(* The command of p returns, or p stops: every lease it held is free. *)
End(p) ==
    /\ job' = [job EXCEPT ![p] = Resting]
    /\ holder' = [name \in LeaseName |-> IF holder[name] = p THEN Nobody ELSE holder[name]]
    /\ execution' = [s \in Subagent |-> IF execution[s] = p THEN Nobody ELSE execution[s]]

Start(p) == job[p].at = "rest" /\ Spend("command")

At(p, step) == job[p].at = step /\ UNCHANGED spent

-----------------------------------------------------------------------------
(* plan_report installs the manifest and creates revision 1, without the operation lease. *)
PlanTeam(p) ==
    /\ Start(p) /\ teamRev = 0
    /\ Set(p, [at |-> "snapshot", goal |-> "plan", then |-> "end", seen |-> 0])
    /\ UNCHANGED <<teamVars, leaseVars, subagentVars, parentVars>>

(* advance_state reads the current state: it is there already, may be reached, or not. *)
LoadTeam(p) ==
    /\ At(p, "load")
    /\ \/ /\ teamStage = job[p].goal
          /\ Set(p, [at |-> job[p].then, stage |-> teamStage]) /\ UNCHANGED leaseVars
       \/ /\ Permits(teamStage, job[p].goal)
          /\ Set(p, [at |-> "snapshot", seen |-> teamRev]) /\ UNCHANGED leaseVars
       \/ /\ teamStage # job[p].goal /\ ~Permits(teamStage, job[p].goal)
          /\ End(p)
    /\ UNCHANGED <<teamVars, subagentVars, parentVars>>

(* checkpoint_state under the state lease: the revision is still the one read, and no
   snapshot with another body has the next number. *)
CanSnapshot(p) ==
    holder["state"] = Nobody /\ teamRev = job[p].seen /\ teamSnap = teamRev

InstallSnapshot(p) ==
    /\ At(p, "snapshot")
    /\ \/ /\ CanSnapshot(p)
          /\ teamSnap' = teamRev + 1
          /\ Take(p, "state") /\ Set(p, [at |-> "replace"])
          /\ UNCHANGED execution
       \/ /\ ~CanSnapshot(p)
          /\ End(p) /\ UNCHANGED teamSnap
    /\ UNCHANGED <<teamStage, teamRev, teamMode, cancelMark, subagentVars, parentVars>>

(* The current file is replaced.  Dispatch also records whether lanes run in parallel. *)
ReplaceTeam(p) ==
    /\ At(p, "replace")
    /\ teamStage' = job[p].goal /\ teamRev' = teamRev + 1
    /\ teamMode' \in IF job[p].goal = "dispatch" THEN {"parallel", "sequential"} ELSE {teamMode}
    /\ Give("state") /\ Set(p, [at |-> job[p].then, stage |-> job[p].goal])
    /\ UNCHANGED <<teamSnap, cancelMark, execution, subagentVars, parentVars>>

Done(p) ==
    /\ At(p, "end") /\ End(p)
    /\ UNCHANGED <<teamVars, subagentVars, parentVars>>

Checkpoint(p) == LoadTeam(p) \/ InstallSnapshot(p) \/ ReplaceTeam(p) \/ Done(p)

-----------------------------------------------------------------------------
(* execute_with up to the first checkpoint; critical pressure refuses before it. *)
ExecuteTeam(p) ==
    /\ Start(p) /\ holder["operation"] = Nobody
    /\ teamStage \in {"plan", "dispatch", "execute"} /\ ~cancelMark
    /\ Take(p, "operation")
    /\ IF teamStage = "plan" THEN Advance(p, "dispatch", "recover")
                             ELSE Set(p, [at |-> "recover", stage |-> teamStage])
    /\ UNCHANGED <<execution, teamVars, subagentVars, parentVars>>

AllAre(state) == BoundLanes = Lane /\ \A l \in Lane : status[Bound(l)] = state

(* recover_or_admit_execution. *)
NoneAdmitted(p) == /\ BoundLanes = {} /\ job[p].stage = "dispatch"
                   /\ \A s \in Living : status[s] # "running"
AllCompleted(p) == AllAre("completed") /\ job[p].stage = "execute"
Interrupted(p) == ~NoneAdmitted(p) /\ ~AllAre("admitted") /\ ~AllCompleted(p)

Recover(p) ==
    /\ At(p, "recover")
    /\ \/ /\ NoneAdmitted(p)
          /\ Set(p, [at |-> "clear", todo |-> Living, then |-> "admit"])
          /\ UNCHANGED holder
       \/ /\ AllAre("admitted")
          /\ IF job[p].stage = "dispatch" THEN Advance(p, "execute", "run")
                                          ELSE Set(p, [at |-> "run"])
          /\ UNCHANGED holder
       \/ /\ AllCompleted(p)
          /\ Give("operation")
          /\ Set(p, [at |-> "work", todo |-> Lane, lane |-> [l \in Lane |-> "ok"]])
       \/ /\ Interrupted(p)
          /\ Set(p, [at |-> "clear", todo |-> Living, goal |-> "failed", then |-> "load"])
          /\ UNCHANGED holder
    /\ UNCHANGED <<execution, teamVars, subagentVars, parentVars>>

(* terminalize_interrupted_team_members takes the execution lease of each subagent that is
   not at its end: a live worker refuses it. *)
CanClear(p) == \A s \in job[p].todo \cap Living : execution[s] \in {p, Nobody}

Clear(p) ==
    /\ At(p, "clear")
    /\ \/ /\ CanClear(p) /\ holder["parent"] = Nobody
          /\ Take(p, "parent") /\ Set(p, [at |-> "terminalize"])
          /\ execution' = [s \in Subagent |-> IF s \in job[p].todo \cap Living THEN p
                                               ELSE execution[s]]
       \/ /\ ~CanClear(p) /\ End(p)
    /\ UNCHANGED <<teamVars, subagentVars, parentVars>>

(* One record after the other: unsent work is cancelled, sent work failed. *)
Terminalize(p) ==
    /\ At(p, "terminalize")
    /\ \/ \E s \in job[p].todo \cap Living :
            /\ status' = [status EXCEPT ![s] = IF @ = "admitted" THEN "cancelled" ELSE "failed"]
            /\ UNCHANGED <<job, leaseVars>>
       \/ /\ job[p].todo \cap Living = {}
          /\ Give("parent")
          /\ execution' = [s \in Subagent |-> IF s \in job[p].todo /\ execution[s] = p
                                              THEN Nobody ELSE execution[s]]
          /\ Set(p, [at |-> job[p].then, then |-> "end", todo |-> {}])
          /\ UNCHANGED status
    /\ UNCHANGED <<teamVars, attempt, worker, sent, stray, receipt, parentVars>>

(* admit_team_members under the parent lease: the planned revision and no living child. *)
Admit(p) ==
    /\ At(p, "admit")
    /\ \/ /\ holder["parent"] = Nobody /\ parentRev = 0 /\ Living = {}
          /\ attempt + 1 \in Attempt
          /\ attempt' = attempt + 1
          /\ Take(p, "parent") /\ Set(p, [at |-> "record", todo |-> Lane])
          /\ UNCHANGED execution
       \/ /\ holder["parent"] # Nobody \/ parentRev # 0 \/ Living # {}
          /\ End(p) /\ UNCHANGED attempt
    /\ UNCHANGED <<teamVars, status, worker, sent, stray, receipt, parentVars>>

(* Each member is recorded; when one cannot be, those before it are cancelled. *)
RecordMember(p) ==
    /\ At(p, "record")
    /\ \E l \in Lowest(job[p].todo) :
       /\ status' = [status EXCEPT ![<<attempt, l>>] = "admitted"]
       /\ Set(p, [todo |-> job[p].todo \ {l}])
    /\ UNCHANGED <<teamVars, leaseVars, attempt, worker, sent, stray, receipt, parentVars>>

RollbackAdmission(p) ==
    /\ job[p].at = "record" /\ job[p].todo # {} /\ Spend("stop")
    /\ status' = [s \in Subagent |-> IF s[1] = attempt /\ status[s] \in Live
                                     THEN "cancelled" ELSE status[s]]
    /\ End(p)
    /\ UNCHANGED <<teamVars, attempt, worker, sent, stray, receipt, parentVars>>

MembersRecorded_LeaseKept(p) ==
    /\ At(p, "record") /\ job[p].todo = {}
    /\ Set(p, [at |-> "bind", todo |-> Lane])
    /\ UNCHANGED <<teamVars, leaseVars, subagentVars, parentVars>>

MembersRecorded(p) ==
    /\ At(p, "record") /\ job[p].todo = {}
    /\ Give("parent") /\ Set(p, [at |-> "bind", todo |-> Lane])
    /\ UNCHANGED <<teamVars, execution, subagentVars, parentVars>>

(* One admitted event per lane names its subagent; then the team is executing. *)
BindMember(p) ==
    /\ At(p, "bind")
    /\ \/ \E l \in Lowest(job[p].todo) :
             /\ worker' = [worker EXCEPT ![l] = attempt]
             /\ Set(p, [todo |-> job[p].todo \ {l}])
       \/ /\ job[p].todo = {}
          /\ Advance(p, "execute", "run") /\ UNCHANGED worker
    /\ UNCHANGED <<teamVars, leaseVars, attempt, status, sent, stray, receipt, parentVars>>

(* The operation lease is dropped before the workers run. *)
RunTeam(p) ==
    /\ At(p, "run")
    /\ Give("operation")
    /\ Set(p, [at |-> "work", todo |-> Lane, lane |-> [l \in Lane |-> "ready"]])
    /\ UNCHANGED <<execution, teamVars, subagentVars, parentVars>>

Admission(p) == Recover(p) \/ Clear(p) \/ Terminalize(p) \/ Admit(p) \/ RecordMember(p)
                \/ RollbackAdmission(p) \/ MembersRecorded(p) \/ BindMember(p) \/ RunTeam(p)

-----------------------------------------------------------------------------
Working(p, l, step) == At(p, "work") /\ job[p].lane[l] = step
SetLane(p, l, step) == job' = [job EXCEPT ![p].lane[l] = step]
LanesIn(p, steps) == {l \in Lane : job[p].lane[l] \in steps}

(* run_parallel prepares every lane before it starts a worker; run_sequential takes one
   lane to its end before the next. *)
MayPrepare(p, l) ==
    /\ l \in Lowest(LanesIn(p, {"ready"}))
    /\ teamMode = "sequential" => LanesIn(p, {"prepared", "sent"}) = {}
MaySend(p) == teamMode = "parallel" => LanesIn(p, {"ready"}) = {}

Preparable_Running(p, l) == parentRev = 0 /\ status[Bound(l)] \in Live

Preparable(p, l) ==
    execution[Bound(l)] = Nobody /\ parentRev = 0 /\ status[Bound(l)] = "admitted"

(* prepare_admitted_launch: execution lease, parent lease, exact parent, admitted record. *)
Prepare(p, l) ==
    /\ Working(p, l, "ready") /\ MayPrepare(p, l) /\ holder["parent"] = Nobody
    /\ \/ /\ Preparable(p, l)
          /\ execution' = [execution EXCEPT ![Bound(l)] = p]
          /\ status' = [status EXCEPT ![Bound(l)] = "running"]
          /\ SetLane(p, l, "prepared")
       \/ /\ ~Preparable(p, l)
          /\ IF teamMode = "parallel" THEN Set(p, [at |-> "rollback"])
                                      ELSE SetLane(p, l, "bad")
          /\ UNCHANGED <<execution, status>>
    /\ UNCHANGED <<teamVars, holder, attempt, worker, sent, stray, receipt, parentVars>>

(* rollback_team_preparation cancels every living member, whoever runs it; the error of
   the preparation ends the command and leaves the stage. *)
Rollback(p) ==
    /\ At(p, "rollback") /\ holder["parent"] = Nobody
    /\ status' = [s \in Subagent |-> IF s \in TeamMembers /\ status[s] \in Live
                                     THEN "cancelled" ELSE status[s]]
    /\ End(p)
    /\ UNCHANGED <<teamVars, attempt, worker, sent, stray, receipt, parentVars>>

(* The backend runner asks for the marker first. *)
Send(p, l) ==
    /\ Working(p, l, "prepared") /\ MaySend(p)
    /\ \/ /\ ~cancelMark
          /\ sent' = [sent EXCEPT ![Bound(l)] = @ + 1]
       \/ UNCHANGED sent
    /\ SetLane(p, l, "sent")
    /\ UNCHANGED <<teamVars, leaseVars, attempt, status, worker, stray, receipt, parentVars>>

Finished(p, l, outcome) ==
    /\ Working(p, l, "sent") /\ holder["parent"] = Nobody
    /\ execution' = [execution EXCEPT ![Bound(l)] = Nobody]
    /\ SetLane(p, l, outcome)
    /\ UNCHANGED <<teamVars, holder, attempt, worker, sent, receipt, parentVars>>

(* complete_generation: the record is still running and the parent where it was. *)
CompleteWorker(p, l) ==
    /\ Finished(p, l, "ok")
    /\ sent[Bound(l)] > 0
    /\ status[Bound(l)] = "running" /\ parentRev = 0
    /\ status' = [status EXCEPT ![Bound(l)] = "completed"]
    /\ \/ UNCHANGED stray
       \/ stray' = stray \cup {Bound(l)}

FailWorker_Always(p, l) ==
    /\ Finished(p, l, "bad")
    /\ status' = [status EXCEPT ![Bound(l)] = "failed"]
    /\ UNCHANGED stray

(* Its answer is late, stale or invalid, or the generation ended with an error. *)
FailWorker(p, l) ==
    /\ Finished(p, l, "bad")
    /\ status' = [status EXCEPT ![Bound(l)] = IF @ = "running" THEN "failed" ELSE @]
    /\ UNCHANGED stray

(* Each lane's outcome in turn: completion events, or a failure. *)
Collect(p) ==
    /\ At(p, "work") /\ LanesIn(p, {"ok", "bad"}) = Lane
    /\ \/ \E l \in Lowest(job[p].todo) :
            LET good == job[p].lane[l] = "ok" /\ Bound(l) \notin stray IN
            /\ receipt' = IF good THEN receipt \cup {l} ELSE receipt
            /\ Set(p, [todo |-> job[p].todo \ {l}, failed |-> job[p].failed \/ ~good])
            /\ UNCHANGED leaseVars
       \/ /\ job[p].todo = {} /\ job[p].failed
          /\ Advance(p, "failed", "end") /\ UNCHANGED <<receipt, leaseVars>>
       \/ /\ job[p].todo = {} /\ ~job[p].failed
          /\ End(p) /\ UNCHANGED receipt
    /\ UNCHANGED <<teamVars, attempt, status, worker, sent, stray, parentVars>>

Work(p) == Rollback(p) \/ Collect(p)
           \/ \E l \in Lane : Prepare(p, l) \/ Send(p, l) \/ CompleteWorker(p, l) \/ FailWorker(p, l)

-----------------------------------------------------------------------------
(* members::collect: every lane is bound to a completed record with its events. *)
Reconcilable == AllAre("completed") /\ receipt = Lane /\ TeamMembers \cap stray = {}

(* reconcile_report: refused without a change unless the result set is complete. *)
ReconcileTeam(p) ==
    /\ Start(p) /\ holder["operation"] = Nobody
    /\ teamStage \notin {"none", "plan", "dispatch", "failed", "cancelled"} /\ ~cancelMark
    /\ Reconcilable
    /\ Take(p, "operation") /\ Set(p, [at |-> "review", stage |-> teamStage])
    /\ UNCHANGED <<execution, teamVars, subagentVars, parentVars>>

(* A stage is advanced only from the one before it, as the command knows it: a retry walks
   through the others without looking at the current file. *)
Through(p, step, from, to, next) ==
    /\ At(p, step)
    /\ IF job[p].stage = from THEN Advance(p, to, next) ELSE Set(p, [at |-> next])
    /\ UNCHANGED <<leaseVars, teamVars, subagentVars, parentVars>>

(* Validation gaps or stale sources fail the stop gate before the parent changes. *)
GateFails(p) ==
    /\ At(p, "verify") /\ End(p)
    /\ UNCHANGED <<teamVars, subagentVars, parentVars>>

(* merge_parent: one checkpoint with all the evidence, or the same one found again. *)
MergeParent(p) ==
    /\ At(p, "merge")
    /\ \/ /\ parentRev = 0
          /\ parentRev' = 1 /\ evidence' = evidence \cup TeamMembers
          /\ Set(p, [at |-> "merged"]) /\ UNCHANGED leaseVars
       \/ /\ parentRev = 1 /\ evidence = TeamMembers
          /\ Set(p, [at |-> "merged"]) /\ UNCHANGED <<leaseVars, parentVars>>
       \/ /\ parentRev > 0 /\ ~(parentRev = 1 /\ evidence = TeamMembers)
          /\ End(p) /\ UNCHANGED parentVars
    /\ UNCHANGED <<teamVars, subagentVars>>

Reconcile(p) ==
    \/ Through(p, "review", "execute", "review", "verify")
    \/ Through(p, "verify", "review", "verify", "merge")
    \/ GateFails(p) \/ MergeParent(p)
    \/ Through(p, "merged", "verify", "merge", "gate")
    \/ Through(p, "gate", "merge", "report", "report")
    \/ Through(p, "report", "report", "complete", "end")

(* cancel_report: the marker, then the stage. *)
CancelTeam(p) ==
    /\ Start(p) /\ holder["operation"] = Nobody
    /\ teamRev > 0 /\ teamStage \notin TeamEnded
    /\ Take(p, "operation")
    /\ cancelMark' = TRUE
    /\ Advance(p, "cancelled", "end")
    /\ UNCHANGED <<execution, teamStage, teamRev, teamSnap, teamMode, subagentVars, parentVars>>

-----------------------------------------------------------------------------
Stop(p) ==
    /\ job[p].at # "rest" /\ Spend("stop") /\ End(p)
    /\ UNCHANGED <<teamVars, subagentVars, parentVars>>

(* `subagent cancel` of a living child, under the parent lease. *)
CancelSubagent(s) ==
    /\ Spend("other") /\ holder["parent"] = Nobody
    /\ s \in Living /\ status' = [status EXCEPT ![s] = "cancelled"]
    /\ UNCHANGED <<teamVars, leaseVars, attempt, worker, sent, stray, receipt, parentVars, job>>

(* Another command checkpoints the parent; an admission holds the workflow's guard. *)
ParentMoves ==
    /\ Spend("other") /\ \A p \in Process : job[p].at # "record"
    /\ parentRev' = parentRev + 1
    /\ UNCHANGED <<teamVars, leaseVars, subagentVars, evidence, job>>

(* admit_launch of a single subagent under the same parent first merges any completed
   child (recover_completed_parent_merges): the first one found while the parent is where
   the child left it.  Then a running child without its execution lease is failed. *)
LaunchMerges ==
    /\ Spend("other") /\ holder["parent"] = Nobody /\ parentRev = 0
    /\ \E s \in Subagent : /\ status[s] = "completed"
                           /\ evidence' = evidence \cup {s}
    /\ parentRev' = 1
    /\ UNCHANGED <<teamVars, leaseVars, subagentVars, job>>

LaunchRecovers ==
    /\ Spend("other") /\ holder["parent"] = Nobody
    /\ \A s \in Subagent : status[s] = "completed" => s \in evidence
    /\ \E s \in Subagent : /\ status[s] = "running" /\ execution[s] = Nobody
                           /\ status' = [status EXCEPT ![s] = "failed"]
    /\ UNCHANGED <<teamVars, leaseVars, attempt, worker, sent, stray, receipt, parentVars, job>>

(* No team yet, or one that was planned. *)
TeamInit ==
    /\ \/ teamStage = "none" /\ teamRev = 0
       \/ teamStage = "plan" /\ teamRev = 1
    /\ teamSnap = teamRev /\ teamMode = "none"
    /\ cancelMark = FALSE
    /\ holder = [name \in LeaseName |-> Nobody]
    /\ execution = [s \in Subagent |-> Nobody]
    /\ attempt = 0 /\ status = [s \in Subagent |-> "none"]
    /\ worker = [l \in Lane |-> 0] /\ sent = [s \in Subagent |-> 0]
    /\ stray = {} /\ receipt = {}
    /\ parentRev = 0 /\ evidence = {}
    /\ job = [p \in Process |-> Resting]
    /\ spent = [kind \in Spending |-> 0]

CommandStep(p) == Checkpoint(p) \/ Admission(p) \/ Work(p) \/ Reconcile(p)

TeamNext ==
    \/ \E p \in Process : \/ PlanTeam(p) \/ ExecuteTeam(p) \/ ReconcileTeam(p) \/ CancelTeam(p)
                          \/ CommandStep(p) \/ Stop(p)
    \/ \E s \in Subagent : CancelSubagent(s)
    \/ ParentMoves \/ LaunchMerges \/ LaunchRecovers

TeamSpec == TeamInit /\ [][TeamNext]_allTeamVars

-----------------------------------------------------------------------------
(* Every variable has its shape; the snapshot is at most one revision ahead, and a       *)
(* worker's record exists once its lane is bound.  Code: checkpoint_state.               *)
TeamTypeOK ==
    /\ teamStage \in TeamStages /\ teamRev \in Nat /\ teamSnap \in {teamRev, teamRev + 1}
    /\ teamMode \in {"none", "parallel", "sequential"} /\ cancelMark \in BOOLEAN
    /\ holder \in [LeaseName -> Process \cup {Nobody}]
    /\ execution \in [Subagent -> Process \cup {Nobody}]
    /\ attempt \in 0 .. Cardinality(Attempt)
    /\ \A s \in Subagent :
        status[s] \in Live \cup {"none", "completed", "cancelled", "failed"}
    /\ \A l \in BoundLanes : worker[l] \in Attempt /\ status[Bound(l)] # "none"
    /\ sent \in [Subagent -> Nat]
    /\ stray \subseteq Subagent /\ receipt \subseteq Lane
    /\ parentRev \in Nat /\ evidence \subseteq Subagent

(* The prompt of a lane reaches the model at most once, over all admissions, executions   *)
(* that overlap and recoveries.  Code: prepare_running, recover_or_admit_execution        *)
(* ("running or partial worker result cannot be replayed safely").                        *)
SentOnce ==
    \A l \in Lane : Cardinality({s \in Subagent : s[2] = l /\ sent[s] > 0}) <= 1
                    /\ \A a \in Attempt : sent[<<a, l>>] <= 1

(* A team past its merge has every lane's completed result in the parent.                 *)
(* Code: reconcile_report's order and members::collect.                                   *)
MergedWhole ==
    teamStage \in {"merge", "report", "complete"}
        => /\ AllAre("completed") /\ receipt = Lane
           /\ TeamMembers \subseteq evidence /\ TeamMembers \cap stray = {}

(* A record that reached its end keeps it: a worker that finishes after it was cancelled  *)
(* or recovered changes nothing.  Code: complete_generation, terminalize_running_error.   *)
RecordsFinal ==
    [][\A s \in Subagent : status[s] \in {"completed", "cancelled", "failed"}
        => status'[s] = status[s]]_status

(* A team at its end stays there, its records too, and a cancelled one merges nothing more, whichever      *)
(* command or worker of it is still running; only the launch of another subagent adds     *)
(* evidence.  "... so a cancelled team cannot merge late results" (team-runtime.md:107).     *)
EndIsFinal ==
    /\ [][(teamStage \in TeamEnded) =>
        /\ teamStage' = teamStage
        /\ \/ teamStage # "cancelled" \/ evidence' = evidence
           \/ spent["other"] < spent'["other"]]_allTeamVars
    /\ RecordsFinal

(* When no command runs and none was stopped, a marker means that the team has ended: no  *)
(* race leaves a marked team that refuses every command but another cancel.               *)
(* Code: cancel_report installs the marker before advance_state.                          *)
MarkerSettles ==
    cancelMark /\ spent["stop"] = 0 /\ (\A p \in Process : job[p].at = "rest")
        => teamStage \in TeamEnded

(* "... transitions to failed without merging partial results into the parent" and         *)
(* "Cancelled worker results are discarded and never merged" (docs/team-runtime.md:72,83). *)
PartialNeverMerged == teamStage \in {"failed", "cancelled"} => evidence = {}

(* While a command runs, some command can take its next step: the four leases never wait  *)
(* in a circle, and no command waits for a lease that nobody gives back.                  *)
(* Code: the leases of operation, state, execution and parent, released on every return.  *)
NoneStuck ==
    (\E p \in Process : job[p].at # "rest") => \E p \in Process : ENABLED CommandStep(p)

(* What a team's lanes sent and what its parent got (prepare_running, members::collect),  *)
(* with no team left marked (cancel_report).                                              *)
TeamKept == TeamTypeOK /\ SentOnce /\ MergedWhole /\ MarkerSettles
=============================================================================
