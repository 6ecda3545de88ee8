-------------------------- MODULE Sessions_proofs ---------------------------
(* What hangs off a session.  For any number of processes, lanes, commands,     *)
(* stops and steps of others: a team at its end stays there, a record at its    *)
(* end keeps it, a lane's prompt is sent at most once, and a team past its       *)
(* merge has every result in the parent.  For any number of terminals, sessions *)
(* and exchanges: a restart gives the model what the user saw and nothing else. *)
EXTENDS Team, Conversation, FiniteSetTheorems, NaturalsInduction, WellFoundedInduction,
        SequenceTheorems, TLAPS

(* The teams. *)

Fields == {"at", "stage", "goal", "then", "seen", "todo", "lane", "failed"}
Steps == {"rest", "load", "snapshot", "replace", "end", "recover", "clear", "terminalize",
          "admit", "record", "bind", "run", "work", "rollback", "review", "verify", "merge",
          "merged", "gate", "report"}
LaneSteps == {"off", "ready", "prepared", "sent", "ok", "bad"}
Final == {"completed", "cancelled", "failed"}
Statuses == Live \cup Final \cup {"none"}

JobOK(p) ==
    /\ DOMAIN job[p] = Fields
    /\ job[p].at \in Steps /\ job[p].then \in Steps
    /\ job[p].stage \in TeamStages /\ job[p].goal \in TeamStages
    /\ job[p].seen \in Nat /\ job[p].failed \in BOOLEAN
    /\ job[p].lane \in [Lane -> LaneSteps]
    /\ job[p].at \in {"record", "bind", "work"} => job[p].todo \subseteq Lane
    /\ job[p].at \in {"clear", "terminalize"} => job[p].todo \subseteq Subagent

Typed ==
    /\ TeamTypeOK
    /\ status \in [Subagent -> Statuses] /\ worker \in [Lane -> {0} \cup Attempt]
    /\ spent \in [Spending -> Nat]

Jobs == job = [p \in Process |-> job[p]] /\ \A p \in Process : JobOK(p)

(* A checkpoint leads to one step of the command that asked for it. *)
Itinerary == {<<"plan", "end">>, <<"dispatch", "recover">>, <<"execute", "run">>,
              <<"review", "verify">>, <<"verify", "merge">>, <<"merge", "gate">>,
              <<"report", "report">>, <<"complete", "end">>, <<"failed", "end">>,
              <<"cancelled", "end">>}
Checkpointing(p) == job[p].at \in {"load", "snapshot", "replace"}

Reviewing == {"review", "verify", "merge"}
Reporting == {"merged", "gate", "report"}
Operating == {"recover", "clear", "terminalize", "admit", "record", "bind", "run"}
             \cup Reviewing \cup Reporting

(* The leases a command holds at each of its steps. *)
Leased ==
    \A p \in Process :
        /\ Checkpointing(p) => <<job[p].goal, job[p].then>> \in Itinerary
        /\ job[p].at \in {"clear", "terminalize"}
             => job[p].then = "admit" \/ (job[p].then = "load" /\ job[p].goal = "failed")
        /\ job[p].at \in Operating \/ (Checkpointing(p) /\ job[p].goal \notin {"plan", "failed"})
             => holder["operation"] = p
        /\ job[p].at = "replace" <=> holder["state"] = p
        /\ job[p].at \in {"terminalize", "record"} => holder["parent"] = p

(* The current file is replaced by a stage it permits, whatever was read before. *)
Permitted ==
    /\ teamRev = 0 <=> teamStage = "none"
    /\ \A p \in Process :
        /\ job[p].at = "snapshot"
             => /\ job[p].seen <= teamRev
                /\ job[p].seen = teamRev => Permits(teamStage, job[p].goal)
        /\ job[p].at = "replace"
             => teamSnap = teamRev + 1 /\ Permits(teamStage, job[p].goal)

(* The records of an admission are new, and complete before a lane is bound. *)
Recorded ==
    /\ \A s \in Subagent : s[1] > attempt => status[s] = "none"
    /\ \A p \in Process :
        /\ job[p].at = "record"
             => /\ attempt \in Attempt
                /\ \A l \in Lane : status[<<attempt, l>>] = "none" <=> l \in job[p].todo
        /\ job[p].at = "bind"
             => attempt \in Attempt /\ \A l \in Lane : status[<<attempt, l>>] # "none"

(* A lane is bound once, before anything works on it. *)
BoundOnce ==
    \A p \in Process :
        /\ job[p].at \in {"admit", "record"} => BoundLanes = {}
        /\ job[p].at \in {"clear", "terminalize"} /\ job[p].then = "admit" => BoundLanes = {}
        /\ job[p].at = "bind" => BoundLanes = Lane \ job[p].todo
        /\ job[p].at \in {"run", "work", "rollback"} => BoundLanes = Lane
        /\ Checkpointing(p) /\ job[p].goal = "execute" => BoundLanes = Lane

(* Only the worker that prepared a bound record sends its prompt. *)
PreparedOnce ==
    /\ \A s \in Subagent : sent[s] > 0 => worker[s[2]] = s[1]
    /\ \A s \in Subagent : sent[s] <= 1
    /\ \A s \in Subagent : status[s] \in {"none", "admitted"} => sent[s] = 0
    /\ \A p \in Process, l \in Lane :
          job[p].lane[l] = "prepared"
            => /\ worker[l] # 0 /\ sent[Bound(l)] = 0
               /\ status[Bound(l)] \notin {"none", "admitted"}
               /\ \A q \in Process : job[q].lane[l] = "prepared" => q = p

(* A reconciliation works on results that stay complete, for a team nobody cancelled. *)
Reviews(p) ==
    \/ job[p].at \in Reviewing \cup Reporting
    \/ Checkpointing(p) /\ job[p].goal \in {"review", "verify", "merge", "report", "complete"}
Reports(p) ==
    \/ job[p].at \in Reporting
    \/ Checkpointing(p) /\ job[p].goal \in {"merge", "report", "complete"}
Reconciled ==
    \A p \in Process :
        /\ Reviews(p) => Reconcilable /\ teamStage # "cancelled"
        /\ Reports(p) => TeamMembers \subseteq evidence

(* Nothing stopped: whoever marked the team ends it, or somebody is about to. *)
Ending(p) ==
    \/ /\ job[p].goal = "cancelled"
       /\ \/ job[p].at \in {"load", "replace"}
          \/ job[p].at = "snapshot" /\ job[p].seen = teamRev
    \/ job[p].goal = "failed" /\ job[p].at = "replace"
Settling ==
    /\ cancelMark => teamRev > 0
    /\ spent["stop"] = 0 /\ teamSnap # teamRev => \E p \in Process : job[p].at = "replace"
    /\ cancelMark /\ spent["stop"] = 0 /\ teamStage \notin TeamEnded
         => \E p \in Process : Ending(p)

TeamInv ==
    /\ Typed /\ Jobs /\ Leased /\ Permitted /\ Recorded /\ BoundOnce /\ PreparedOnce /\ Reconciled
    /\ MergedWhole /\ Settling

LEMMA AttemptNat == \A a \in Attempt : a \in Nat /\ a > 0
BY TeamAssumption DEF Attempt, Spending

LEMMA BoundSubagent ==
    ASSUME Typed, NEW l \in BoundLanes
    PROVE  l \in Lane /\ Bound(l) \in Subagent /\ Bound(l)[1] = worker[l] /\ Bound(l)[2] = l
BY DEF Typed, BoundLanes, Bound, Subagent

(* A prompt that was prepared stays with its worker while records only move on. *)
LEMMA PreparedStays ==
    ASSUME Typed, PreparedOnce, UNCHANGED <<worker, sent>>,
           \A s \in Subagent :
              status'[s] \in {"none", "admitted"} => status[s] \in {"none", "admitted"},
           \A q \in Process, l \in Lane :
              job'[q].lane[l] = "prepared" => job[q].lane[l] = "prepared"
    PROVE  PreparedOnce'
BY BoundSubagent DEF PreparedOnce, Bound, BoundLanes

(* Complete results stay complete: the lanes are bound, and completed records final. *)
LEMMA ResultsStay ==
    ASSUME Typed, Typed',
           \A s \in Subagent : status[s] = "completed" => status'[s] = "completed",
           \A l \in BoundLanes : worker'[l] = worker[l],
           receipt \subseteq receipt', evidence \subseteq evidence',
           \A s \in stray' : s \in stray \/ status[s] # "completed"
    PROVE  /\ BoundLanes = Lane => TeamMembers' = TeamMembers
           /\ AllAre("completed") => AllAre("completed")'
           /\ Reconcilable => Reconcilable'
           /\ MergedWhole /\ teamStage' = teamStage => MergedWhole'
<1>1. \A l \in BoundLanes : l \in BoundLanes' /\ Bound(l)' = Bound(l)
  BY DEF BoundLanes, Bound
<1>2. BoundLanes \subseteq Lane /\ BoundLanes' \subseteq Lane
  BY DEF BoundLanes
<1>3. BoundLanes = Lane => BoundLanes' = Lane /\ TeamMembers' = TeamMembers
  <2>1. TeamMembers = {Bound(l) : l \in BoundLanes}
    BY DEF TeamMembers
  <2>2. TeamMembers' = {Bound(l)' : l \in BoundLanes'}
    BY DEF TeamMembers
  <2> QED  BY <1>1, <1>2, <2>1, <2>2
<1>4. AllAre("completed") => AllAre("completed")'
  BY <1>1, <1>3, BoundSubagent DEF AllAre
<1>5. AllAre("completed") /\ TeamMembers \cap stray = {} => (TeamMembers \cap stray)' = {}
  <2>1. AllAre("completed") => \A s \in TeamMembers : status[s] = "completed"
    BY DEF AllAre, TeamMembers
  <2> QED  BY <1>3, <2>1 DEF AllAre
<1>6. receipt = Lane => receipt' = Lane
  BY DEF Typed, TeamTypeOK
<1> QED  BY <1>3, <1>4, <1>5, <1>6 DEF Reconcilable, MergedWhole, AllAre

(* A step of a command that does not end the team leaves who does. *)
LEMMA SettlingStays ==
    ASSUME TeamInv, NEW p \in Process, job[p].at # "replace", ~Ending(p), UNCHANGED teamVars,
           spent["stop"] <= spent'["stop"], spent'["stop"] \in Nat,
           \A q \in Process : q # p => job'[q] = job[q]
    PROVE  Settling'
<1>1. spent["stop"] \in Nat
  BY DEF TeamInv, Typed, Spending
<1>2. \A q \in Process : Ending(q) => Ending(q)'
  BY DEF Ending, teamVars
<1> QED  BY <1>1, <1>2 DEF TeamInv, Settling, teamVars


LEMMA AttemptCount ==
    Attempt = 1 .. Allowance["stop"] + 1 /\ Cardinality(Attempt) = Allowance["stop"] + 1
    /\ Allowance["stop"] \in Nat
<1>1. Allowance["stop"] \in Nat
  BY TeamAssumption DEF Spending
<1> QED  BY <1>1, FS_Interval DEF Attempt

(* A command returns or stops, and every lease it held is free. *)
LEMMA CommandEnds ==
    ASSUME TeamInv, NEW p \in Process,
           End(p),
           spent' \in [Spending -> Nat],
           spent["stop"] <= spent'["stop"],
           job[p].at # "replace" \/ spent'["stop"] > 0,
           cancelMark /\ Ending(p) /\ teamStage \notin TeamEnded
             => spent'["stop"] > 0 \/ \E q \in Process : q # p /\ Ending(q),
           UNCHANGED <<teamStage, teamRev, teamSnap, teamMode, cancelMark, attempt, status,
                       worker, sent, stray, receipt, parentRev, evidence>>
    PROVE  TeamInv'
<1>1. /\ job' = [q \in Process |-> job'[q]]
      /\ \A q \in Process : q # p => job'[q] = job[q]
      /\ job'[p] = Resting
  BY DEF TeamInv, Jobs, JobOK, Fields, End, Resting
<1>2. Jobs'
  <2>1. JobOK(p)'
    BY <1>1, TeamAssumption
       DEF TeamInv, Jobs, JobOK, Fields, Steps, LaneSteps, TeamStages, TeamEnded, Itinerary,
           Leased, Checkpointing, Typed, TeamTypeOK, Subagent, End, Resting
  <2> QED  BY <1>1, <2>1 DEF TeamInv, Jobs, JobOK
<1>3. Typed'
  BY DEF TeamInv, Typed, TeamTypeOK, BoundLanes, Bound, TeamStages, Spending, Subagent,
         Permits, End, Resting
<1>4. Leased'
  BY <1>1, TeamAssumption
     DEF TeamInv, Leased, Itinerary, Checkpointing, Operating, Reviewing, Reporting,
         LeaseName, Typed, TeamTypeOK, Jobs, JobOK, Fields, End, Resting
<1>5. Permitted'
  BY <1>1, TeamAssumption
     DEF TeamInv, Permitted, TeamEnded, TeamStages, JobOK, Fields, End, Resting
<1>6. Recorded'
  BY <1>1, TeamAssumption DEF TeamInv, Recorded, Checkpointing, Operating, Resting
<1>7. BoundOnce'
  BY <1>1 DEF TeamInv, BoundOnce, BoundLanes, Checkpointing, End, Resting
<1>8. PreparedOnce'
  BY <1>1, TeamAssumption DEF TeamInv, PreparedOnce, BoundOnce, Bound, Resting
<1>9. Reconciled'
  BY <1>1
     DEF leaseVars, TeamInv, Reconciled, Reviews, Reports, Checkpointing, Reviewing,
         Reporting, Reconcilable, AllAre, TeamMembers, BoundLanes, Bound, Leased, Itinerary,
         End, Resting
<1>10. MergedWhole'
  BY <1>1 DEF TeamInv, MergedWhole, AllAre, TeamMembers, BoundLanes, Bound
<1>11. Settling'
  <2>1. spent["stop"] \in Nat /\ spent'["stop"] \in Nat
    BY DEF TeamInv, Typed, Spending
  <2>2. \A q \in Process : q # p => (Ending(q) => Ending(q)') /\ job'[q] = job[q]
    BY <1>1 DEF Ending, teamVars
  <2>3. /\ cancelMark' => teamRev' > 0
        /\ spent'["stop"] = 0 /\ teamSnap' # teamRev' => \E q \in Process : job'[q].at = "replace"
    BY <2>1, <2>2 DEF TeamInv, Settling, teamVars
  <2>4. ASSUME cancelMark, spent'["stop"] = 0, teamStage \notin TeamEnded
        PROVE  \E q \in Process : Ending(q)'
    <3>1. \E q \in Process : Ending(q)
      BY <2>1, <2>4 DEF TeamInv, Settling
    <3>2. \E q \in Process : q # p /\ Ending(q)
      BY <2>4, <3>1
    <3> QED  BY <2>2, <3>2
  <2> QED  BY <2>3, <2>4 DEF Settling, teamVars
<1> QED  BY <1>2, <1>3, <1>4, <1>5, <1>6, <1>7, <1>8, <1>9, <1>10, <1>11 DEF TeamInv

(* The steps of a checkpoint. *)
LEMMA Plans ==
    ASSUME TeamInv, NEW p \in Process,
           PlanTeam(p)
    PROVE  TeamInv'
<1>1. /\ job' = [q \in Process |-> job'[q]]
      /\ \A q \in Process : q # p => job'[q] = job[q]
      /\ DOMAIN job'[p] = Fields
      /\ job'[p].at = "snapshot"
      /\ job'[p].stage = job[p].stage
      /\ job'[p].goal = "plan"
      /\ job'[p].then = "end"
      /\ job'[p].seen = 0
      /\ job'[p].todo = job[p].todo
      /\ job'[p].lane = job[p].lane
      /\ job'[p].failed = job[p].failed
  BY DEF TeamInv, Jobs, JobOK, Fields, Set, PlanTeam, Start, Spend
<1>2. Jobs'
  <2>1. JobOK(p)'
    BY <1>1 DEF TeamInv, Jobs, JobOK, Fields, Steps, LaneSteps, TeamStages, TeamEnded
  <2> QED  BY <1>1, <2>1 DEF TeamInv, Jobs, JobOK
<1>3. Typed'
  BY TeamAssumption
     DEF teamVars, subagentVars, parentVars, leaseVars, TeamInv, Typed, TeamTypeOK,
         BoundLanes, Bound, TeamStages, Spending, Subagent, Permits, PlanTeam, Start, Spend
<1>4. Leased'
  BY <1>1
     DEF parentVars, leaseVars, TeamInv, Leased, Itinerary, Checkpointing, Operating,
         Reviewing, Reporting, LeaseName, Typed, TeamTypeOK, Jobs, JobOK, Fields, PlanTeam,
         Start, Spend
<1>5. Permitted'
  BY <1>1
     DEF teamVars, subagentVars, TeamInv, Permitted, Checkpointing, Permits, TeamEnded,
         TeamStages, JobOK, Fields, PlanTeam, Start, Spend
<1>6. Recorded'
  BY <1>1
     DEF teamVars, subagentVars, parentVars, leaseVars, TeamInv, Recorded, Leased, Itinerary,
         Checkpointing, Operating, TeamTypeOK, Jobs, JobOK, Fields, PlanTeam
<1>7. BoundOnce'
  BY <1>1, TeamAssumption
     DEF teamVars, subagentVars, TeamInv, BoundOnce, BoundLanes, Checkpointing, Leased,
         Operating, Fields, PlanTeam, Start, Spend
<1>8. PreparedOnce'
  BY <1>1, TeamAssumption, PreparedStays
     DEF teamVars, subagentVars, TeamInv, Typed, TeamTypeOK, Jobs, Statuses, PlanTeam
<1>9. Reconciled'
  BY <1>1, TeamAssumption
     DEF teamVars, subagentVars, parentVars, leaseVars, TeamInv, Reconciled, Reviews, Reports,
         Checkpointing, Reviewing, Reporting, Reconcilable, AllAre, TeamMembers, BoundLanes,
         Bound, Leased, Itinerary, Operating, Typed, TeamTypeOK, Jobs, JobOK, Fields,
         PlanTeam, Start, Spend
<1>10. MergedWhole'
  BY <1>1, TeamAssumption
     DEF teamVars, subagentVars, parentVars, leaseVars, TeamInv, MergedWhole, AllAre,
         TeamMembers, BoundLanes, Bound, Reconciled, Reviews, JobOK, Fields, PlanTeam, Start,
         Spend
<1>11. Settling'
  BY <1>1, TeamAssumption
     DEF teamVars, subagentVars, TeamInv, Settling, Ending, TeamEnded, Leased, Permitted,
         Jobs, JobOK, Fields, PlanTeam, Start, Spend
<1> QED  BY <1>2, <1>3, <1>4, <1>5, <1>6, <1>7, <1>8, <1>9, <1>10, <1>11 DEF TeamInv

LEMMA Arrives ==
    ASSUME TeamInv, NEW p \in Process,
           job[p].at = "load",
           teamStage = job[p].goal,
           Set(p, [at |-> job[p].then, stage |-> teamStage]),
           UNCHANGED <<teamStage, teamRev, teamSnap, teamMode, cancelMark, holder, execution,
                       attempt, status, worker, sent, stray, receipt, parentRev, evidence,
                       spent>>
    PROVE  TeamInv'
<1>1. /\ job' = [q \in Process |-> job'[q]]
      /\ \A q \in Process : q # p => job'[q] = job[q]
      /\ DOMAIN job'[p] = Fields
      /\ job'[p].at = job[p].then
      /\ job'[p].stage = teamStage
      /\ job'[p].goal = job[p].goal
      /\ job'[p].then = job[p].then
      /\ job'[p].seen = job[p].seen
      /\ job'[p].todo = job[p].todo
      /\ job'[p].lane = job[p].lane
      /\ job'[p].failed = job[p].failed
  BY DEF TeamInv, Jobs, JobOK, Fields, Set
<1>2. Jobs'
  <2>1. JobOK(p)'
    BY <1>1
       DEF TeamInv, Jobs, JobOK, TeamStages, TeamEnded, Itinerary, Leased, Checkpointing,
           Typed
  <2> QED  BY <1>1, <2>1 DEF TeamInv, Jobs, JobOK
<1>3. Typed'
  BY DEF TeamInv, Typed, TeamTypeOK, BoundLanes, Bound
<1>4. Leased'
  BY <1>1
     DEF TeamInv, Leased, Itinerary, Checkpointing, Operating, Reviewing, Reporting, LeaseName
<1>5. Permitted'
  BY <1>1
     DEF TeamInv, Permitted, Checkpointing, Permits, TeamEnded, TeamStages, Leased, Itinerary
<1>6. Recorded'
  BY SMTT(60), <1>1, TeamAssumption
     DEF teamVars, subagentVars, parentVars, leaseVars, TeamInv, Recorded, Leased, Itinerary,
         Checkpointing, Operating, Subagent, Statuses, Live, Final, Typed, TeamTypeOK, Jobs,
         JobOK, Fields
<1>7. BoundOnce'
  BY <1>1 DEF TeamInv, BoundOnce, BoundLanes, Checkpointing, Leased, Operating, Itinerary, Typed
<1>8. PreparedOnce'
  BY <1>1, PreparedStays DEF TeamInv, TeamTypeOK
<1>9. Reconciled'
  BY <1>1
     DEF leaseVars, TeamInv, Reconciled, Reviews, Reports, Checkpointing, Reviewing,
         Reporting, Reconcilable, AllAre, TeamMembers, BoundLanes, Bound, Leased, Itinerary
<1>10. MergedWhole'
  BY <1>1 DEF TeamInv, MergedWhole, AllAre, TeamMembers, BoundLanes, Bound
<1>11. Settling'
  BY <1>1 DEF TeamInv, Settling, Ending, TeamEnded
<1> QED  BY <1>2, <1>3, <1>4, <1>5, <1>6, <1>7, <1>8, <1>9, <1>10, <1>11 DEF TeamInv

LEMMA Intends ==
    ASSUME TeamInv, NEW p \in Process,
           job[p].at = "load",
           Permits(teamStage, job[p].goal),
           Set(p, [at |-> "snapshot", seen |-> teamRev]),
           UNCHANGED <<teamStage, teamRev, teamSnap, teamMode, cancelMark, holder, execution,
                       attempt, status, worker, sent, stray, receipt, parentRev, evidence,
                       spent>>
    PROVE  TeamInv'
<1>1. /\ job' = [q \in Process |-> job'[q]]
      /\ \A q \in Process : q # p => job'[q] = job[q]
      /\ DOMAIN job'[p] = Fields
      /\ job'[p].at = "snapshot"
      /\ job'[p].stage = job[p].stage
      /\ job'[p].goal = job[p].goal
      /\ job'[p].then = job[p].then
      /\ job'[p].seen = teamRev
      /\ job'[p].todo = job[p].todo
      /\ job'[p].lane = job[p].lane
      /\ job'[p].failed = job[p].failed
  BY DEF TeamInv, Jobs, JobOK, Fields, Set
<1>2. Jobs'
  <2>1. JobOK(p)'
    BY <1>1
       DEF TeamInv, Jobs, JobOK, Fields, Steps, LaneSteps, Leased, Checkpointing, Typed,
           TeamTypeOK, Subagent
  <2> QED  BY <1>1, <2>1 DEF TeamInv, Jobs, JobOK
<1>3. Typed'
  BY DEF TeamInv, Typed, TeamTypeOK, BoundLanes, Bound
<1>4. Leased'
  BY <1>1
     DEF TeamInv, Leased, Itinerary, Checkpointing, Operating, Reviewing, Reporting, LeaseName
<1>5. Permitted'
  BY <1>1 DEF TeamInv, Permitted, Typed, TeamTypeOK, Jobs, JobOK
<1>6. Recorded'
  BY <1>1 DEF TeamInv, Recorded
<1>7. BoundOnce'
  BY <1>1 DEF TeamInv, BoundOnce, BoundLanes, Checkpointing
<1>8. PreparedOnce'
  BY <1>1 DEF TeamInv, PreparedOnce, Bound
<1>9. Reconciled'
  BY <1>1
     DEF leaseVars, TeamInv, Reconciled, Reviews, Reports, Checkpointing, Reviewing,
         Reporting, Reconcilable, AllAre, TeamMembers, BoundLanes, Bound, Leased, Itinerary
<1>10. MergedWhole'
  BY <1>1 DEF TeamInv, MergedWhole, AllAre, TeamMembers, BoundLanes, Bound
<1>11. Settling'
  BY <1>1 DEF TeamInv, Settling, Ending, TeamEnded
<1> QED  BY <1>2, <1>3, <1>4, <1>5, <1>6, <1>7, <1>8, <1>9, <1>10, <1>11 DEF TeamInv

LEMMA Snapshots ==
    ASSUME TeamInv, NEW p \in Process,
           job[p].at = "snapshot",
           CanSnapshot(p),
           teamSnap' = teamRev + 1,
           Take(p, "state"),
           Set(p, [at |-> "replace"]),
           UNCHANGED <<teamStage, teamRev, teamMode, cancelMark, execution, attempt, status,
                       worker, sent, stray, receipt, parentRev, evidence, spent>>
    PROVE  TeamInv'
<1>1. /\ job' = [q \in Process |-> job'[q]]
      /\ \A q \in Process : q # p => job'[q] = job[q]
      /\ DOMAIN job'[p] = Fields
      /\ job'[p].at = "replace"
      /\ job'[p].stage = job[p].stage
      /\ job'[p].goal = job[p].goal
      /\ job'[p].then = job[p].then
      /\ job'[p].seen = job[p].seen
      /\ job'[p].todo = job[p].todo
      /\ job'[p].lane = job[p].lane
      /\ job'[p].failed = job[p].failed
  BY DEF TeamInv, Jobs, JobOK, Fields, Set, CanSnapshot, Take
<1>2. Jobs'
  <2>1. JobOK(p)'
    BY <1>1 DEF TeamInv, Jobs, JobOK, Fields, Steps, LaneSteps
  <2> QED  BY <1>1, <2>1 DEF TeamInv, Jobs, JobOK
<1>3. Typed'
  BY DEF TeamInv, Typed, TeamTypeOK, BoundLanes, Bound, TeamStages, TeamEnded, Statuses,
         Final, Live, LeaseName, Spending, Subagent, Permits, CanSnapshot, Take
<1>4. Leased'
  BY <1>1, TeamAssumption
     DEF TeamInv, Leased, Itinerary, Checkpointing, Operating, Reviewing, Reporting,
         LeaseName, Typed, TeamTypeOK, Jobs, JobOK, Fields, CanSnapshot, Take
<1>5. Permitted'
  BY <1>1, TeamAssumption
     DEF TeamInv, Permitted, TeamEnded, TeamStages, JobOK, Fields, CanSnapshot, Take
<1>6. Recorded'
  BY <1>1 DEF TeamInv, Recorded, Checkpointing, Operating
<1>7. BoundOnce'
  BY <1>1 DEF TeamInv, BoundOnce, BoundLanes, Checkpointing
<1>8. PreparedOnce'
  BY <1>1, PreparedStays DEF TeamInv, TeamTypeOK
<1>9. Reconciled'
  BY <1>1
     DEF leaseVars, TeamInv, Reconciled, Reviews, Reports, Checkpointing, Reviewing,
         Reporting, Reconcilable, AllAre, TeamMembers, BoundLanes, Bound, Leased, Itinerary
<1>10. MergedWhole'
  BY <1>1 DEF TeamInv, MergedWhole, AllAre, TeamMembers, BoundLanes, Bound
<1>11. Settling'
  BY <1>1 DEF TeamInv, Settling, Ending, TeamEnded, Leased, Permitted
<1> QED  BY <1>2, <1>3, <1>4, <1>5, <1>6, <1>7, <1>8, <1>9, <1>10, <1>11 DEF TeamInv

LEMMA Replaces ==
    ASSUME TeamInv, NEW p \in Process,
           ReplaceTeam(p)
    PROVE  TeamInv'
<1>1. /\ job' = [q \in Process |-> job'[q]]
      /\ \A q \in Process : q # p => job'[q] = job[q]
      /\ DOMAIN job'[p] = Fields
      /\ job'[p].at = job[p].then
      /\ job'[p].stage = job[p].goal
      /\ job'[p].goal = job[p].goal
      /\ job'[p].then = job[p].then
      /\ job'[p].seen = job[p].seen
      /\ job'[p].todo = job[p].todo
      /\ job'[p].lane = job[p].lane
      /\ job'[p].failed = job[p].failed
  BY DEF TeamInv, Jobs, JobOK, Fields, Set, ReplaceTeam, At, Give
<1>2. Jobs'
  <2>1. JobOK(p)'
    BY <1>1
       DEF TeamInv, Jobs, JobOK, Fields, Itinerary, Leased, Checkpointing, Typed, TeamTypeOK,
           Subagent, ReplaceTeam, At
  <2> QED  BY <1>1, <2>1 DEF TeamInv, Jobs, JobOK
<1>3. Typed'
  <2>1. /\ teamSnap = teamRev + 1 /\ teamRev \in Nat /\ job[p].goal \in TeamStages
        /\ teamStage' = job[p].goal /\ teamRev' = teamRev + 1 /\ teamSnap' = teamSnap
    BY DEF TeamInv, Typed, TeamTypeOK, Permitted, Jobs, JobOK, ReplaceTeam, At
  <2>2. teamMode' \in {"none", "parallel", "sequential"}
    BY DEF TeamInv, Typed, TeamTypeOK, ReplaceTeam
  <2>3. holder' \in [LeaseName -> Process \cup {Nobody}]
    BY DEF TeamInv, Typed, TeamTypeOK, ReplaceTeam, Give
  <2> QED
    BY <2>1, <2>2, <2>3
       DEF TeamInv, Typed, TeamTypeOK, BoundLanes, Bound, ReplaceTeam, At, subagentVars, parentVars
<1>4. Leased'
  BY <1>1, TeamAssumption
     DEF parentVars, leaseVars, TeamInv, Leased, Itinerary, Checkpointing, Operating,
         Reviewing, Reporting, LeaseName, Typed, TeamTypeOK, Jobs, JobOK, Fields, ReplaceTeam,
         At, Give
<1>5. Permitted'
  BY <1>1
     DEF TeamInv, Permitted, Checkpointing, Permits, TeamEnded, TeamStages, Leased, Itinerary,
         Typed, TeamTypeOK, Jobs, JobOK, Fields, ReplaceTeam, At, Give
<1>6. Recorded'
  BY <1>1
     DEF teamVars, subagentVars, parentVars, leaseVars, TeamInv, Recorded, Leased, Itinerary,
         Checkpointing, Operating, TeamTypeOK, Jobs, JobOK, Fields, ReplaceTeam, At, Give
<1>7. BoundOnce'
  BY <1>1, TeamAssumption
     DEF teamVars, subagentVars, TeamInv, BoundOnce, BoundLanes, Checkpointing, Leased,
         Operating, Itinerary, Typed, TeamTypeOK, Jobs, JobOK, Fields, ReplaceTeam, At, Give
<1>8. PreparedOnce'
  BY <1>1
     DEF teamVars, subagentVars, parentVars, leaseVars, TeamInv, PreparedOnce, BoundOnce,
         Bound, Jobs, JobOK, Fields, ReplaceTeam
<1>9. Reconciled'
  BY <1>1, TeamAssumption
     DEF teamVars, subagentVars, parentVars, leaseVars, TeamInv, Reconciled, Reviews, Reports,
         Checkpointing, Reviewing, Reporting, Reconcilable, AllAre, TeamMembers, BoundLanes,
         Bound, Leased, Itinerary, Operating, Typed, TeamTypeOK, Jobs, JobOK, Fields,
         ReplaceTeam, At, Give
<1>10. MergedWhole'
  BY <1>1, TeamAssumption
     DEF teamVars, subagentVars, parentVars, leaseVars, TeamInv, MergedWhole, AllAre,
         TeamMembers, BoundLanes, Bound, Reconciled, Reviews, Reports, Checkpointing,
         Reconcilable, Typed, TeamTypeOK, Jobs, JobOK, Fields, ReplaceTeam, At, Give
<1>11. Settling'
  <2>1. /\ job[p].at = "replace" /\ teamStage' = job[p].goal /\ teamRev' = teamRev + 1
        /\ teamSnap' = teamRev + 1 /\ teamRev \in Nat /\ Permits(teamStage, job[p].goal)
        /\ cancelMark' = cancelMark /\ spent' = spent
    BY DEF TeamInv, Typed, TeamTypeOK, Permitted, ReplaceTeam, At
  <2>2. ASSUME cancelMark, spent["stop"] = 0, job[p].goal \notin TeamEnded
        PROVE  \E q \in Process : Ending(q)'
    <3>1. teamStage \notin TeamEnded \cup {"none"}
      BY <2>1, <2>2 DEF Permits, TeamEnded, TeamInv, Settling, Permitted
    <3>2. PICK q \in Process : Ending(q)
      BY <2>2, <3>1 DEF TeamInv, Settling
    <3>3. q # p /\ job[q].at # "replace"
      BY ZenonT(60), <2>1, <2>2, <3>2 DEF Ending, TeamEnded, TeamInv, Leased
    <3>4. job[q].goal = "cancelled" /\ job[q].at \in {"load", "snapshot"}
      BY <3>2, <3>3 DEF Ending
    <3>5. CASE job[q].at = "load"
      BY <1>1, <3>3, <3>4, <3>5 DEF Ending
    <3>6. CASE job[q].at = "snapshot"
      <4>1. holder["operation"] = q
        BY <3>4, <3>6 DEF TeamInv, Leased, Checkpointing
      <4>2. job[p].goal \in {"plan", "failed"}
        BY <2>1, <3>3, <4>1 DEF TeamInv, Leased, Checkpointing
      <4> QED  BY <2>1, <2>2, <3>1, <4>2 DEF Permits, TeamEnded
    <3> QED  BY <3>4, <3>5, <3>6
  <2> QED  BY <2>1, <2>2 DEF Settling
<1> QED  BY <1>2, <1>3, <1>4, <1>5, <1>6, <1>7, <1>8, <1>9, <1>10, <1>11 DEF TeamInv

(* The admission of an execution. *)
LEMMA Executes ==
    ASSUME TeamInv, NEW p \in Process,
           ExecuteTeam(p),
           teamStage # "plan"
    PROVE  TeamInv'
<1>1. /\ job' = [q \in Process |-> job'[q]]
      /\ \A q \in Process : q # p => job'[q] = job[q]
      /\ DOMAIN job'[p] = Fields
      /\ job'[p].at = "recover"
      /\ job'[p].stage = teamStage
      /\ job'[p].goal = job[p].goal
      /\ job'[p].then = job[p].then
      /\ job'[p].seen = job[p].seen
      /\ job'[p].todo = job[p].todo
      /\ job'[p].lane = job[p].lane
      /\ job'[p].failed = job[p].failed
  BY DEF TeamInv, Jobs, JobOK, Fields, Set, ExecuteTeam, Start, Spend, Take
<1>2. Jobs'
  <2>1. JobOK(p)'
    BY <1>1
       DEF TeamInv, Jobs, JobOK, Fields, Steps, LaneSteps, TeamStages, TeamEnded, TeamTypeOK,
           Subagent, ExecuteTeam, Start
  <2> QED  BY <1>1, <2>1 DEF TeamInv, Jobs, JobOK
<1>3. Typed'
  BY DEF teamVars, subagentVars, parentVars, leaseVars, TeamInv, Typed, TeamTypeOK,
         BoundLanes, Bound, TeamStages, TeamEnded, Statuses, Final, Live, LeaseName, Spending,
         Subagent, Permits, ExecuteTeam, Start, Spend, Take
<1>4. Leased'
  BY <1>1, TeamAssumption
     DEF TeamInv, Leased, Itinerary, Checkpointing, Operating, Reviewing, Reporting,
         LeaseName, Typed, TeamTypeOK, Jobs, JobOK, Fields, ExecuteTeam, Start, Spend, Take
<1>5. Permitted'
  BY <1>1
     DEF teamVars, subagentVars, TeamInv, Permitted, Checkpointing, Permits, TeamEnded,
         TeamStages, JobOK, Fields, ExecuteTeam, Start, Spend
<1>6. Recorded'
  BY <1>1, TeamAssumption
     DEF teamVars, subagentVars, parentVars, leaseVars, TeamInv, Recorded, Fields,
         ExecuteTeam, Start, Spend, Take
<1>7. BoundOnce'
  BY <1>1
     DEF teamVars, subagentVars, TeamInv, BoundOnce, BoundLanes, Checkpointing, Leased,
         Operating, Fields, ExecuteTeam, Start, Spend, Take
<1>8. PreparedOnce'
  BY <1>1, TeamAssumption, PreparedStays
     DEF teamVars, subagentVars, TeamInv, Typed, TeamTypeOK, Jobs, Statuses, ExecuteTeam
<1>9. Reconciled'
  BY <1>1
     DEF teamVars, subagentVars, parentVars, leaseVars, TeamInv, Reconciled, Reviews, Reports,
         Checkpointing, Reviewing, Reporting, Reconcilable, AllAre, TeamMembers, BoundLanes,
         Bound, Leased, Itinerary, Operating, Typed, TeamTypeOK, Jobs, JobOK, Fields,
         ExecuteTeam, Start, Spend, Take
<1>10. MergedWhole'
  BY <1>1
     DEF teamVars, subagentVars, parentVars, leaseVars, TeamInv, MergedWhole, JobOK, Fields,
         ExecuteTeam, Start, Spend, Take
<1>11. Settling'
  BY <1>1
     DEF teamVars, subagentVars, parentVars, leaseVars, TeamInv, Settling, Ending, TeamEnded,
         Leased, Permitted, Jobs, JobOK, Fields, ExecuteTeam, Start, Spend, Take
<1> QED  BY <1>2, <1>3, <1>4, <1>5, <1>6, <1>7, <1>8, <1>9, <1>10, <1>11 DEF TeamInv

LEMMA Dispatches ==
    ASSUME TeamInv, NEW p \in Process,
           ExecuteTeam(p),
           teamStage = "plan"
    PROVE  TeamInv'
<1>1. /\ job' = [q \in Process |-> job'[q]]
      /\ \A q \in Process : q # p => job'[q] = job[q]
      /\ DOMAIN job'[p] = Fields
      /\ job'[p].at = "load"
      /\ job'[p].stage = job[p].stage
      /\ job'[p].goal = "dispatch"
      /\ job'[p].then = "recover"
      /\ job'[p].seen = job[p].seen
      /\ job'[p].todo = job[p].todo
      /\ job'[p].lane = job[p].lane
      /\ job'[p].failed = job[p].failed
  BY DEF TeamInv, Jobs, JobOK, Fields, Set, ExecuteTeam, Start, Spend, Take, Advance
<1>2. Jobs'
  <2>1. JobOK(p)'
    BY <1>1 DEF TeamInv, Jobs, JobOK, Fields, Steps, LaneSteps, TeamStages, TeamEnded
  <2> QED  BY <1>1, <2>1 DEF TeamInv, Jobs, JobOK
<1>3. Typed'
  BY TeamAssumption
     DEF teamVars, subagentVars, parentVars, leaseVars, TeamInv, Typed, TeamTypeOK,
         BoundLanes, Bound, TeamStages, TeamEnded, Statuses, Final, Live, LeaseName, Spending,
         Subagent, Permits, ExecuteTeam, Start, Spend, Take, Advance
<1>4. Leased'
  BY <1>1, TeamAssumption
     DEF parentVars, leaseVars, TeamInv, Leased, Itinerary, Checkpointing, Operating,
         Reviewing, Reporting, LeaseName, Typed, TeamTypeOK, Jobs, JobOK, Fields, ExecuteTeam,
         Start, Spend, Take, Advance
<1>5. Permitted'
  BY <1>1
     DEF teamVars, subagentVars, parentVars, leaseVars, TeamInv, Permitted, Checkpointing,
         Permits, TeamEnded, TeamStages, JobOK, Fields, ExecuteTeam, Start, Spend
<1>6. Recorded'
  BY <1>1
     DEF teamVars, subagentVars, parentVars, leaseVars, TeamInv, Recorded, Fields,
         ExecuteTeam, Start, Spend, Take, Advance
<1>7. BoundOnce'
  BY <1>1
     DEF teamVars, subagentVars, TeamInv, BoundOnce, BoundLanes, Checkpointing, Leased,
         Operating, Fields, ExecuteTeam, Start, Spend, Take
<1>8. PreparedOnce'
  BY <1>1, TeamAssumption, PreparedStays
     DEF teamVars, subagentVars, TeamInv, Typed, TeamTypeOK, Jobs, Statuses, ExecuteTeam
<1>9. Reconciled'
  BY <1>1
     DEF teamVars, subagentVars, parentVars, leaseVars, TeamInv, Reconciled, Reviews, Reports,
         Checkpointing, Reviewing, Reporting, Reconcilable, AllAre, TeamMembers, BoundLanes,
         Bound, Leased, Itinerary, Operating, Typed, TeamTypeOK, Jobs, JobOK, Fields,
         ExecuteTeam, Start, Spend, Take
<1>10. MergedWhole'
  BY <1>1
     DEF teamVars, subagentVars, parentVars, leaseVars, TeamInv, MergedWhole, JobOK, Fields,
         ExecuteTeam, Start, Spend, Take
<1>11. Settling'
  BY <1>1, TeamAssumption
     DEF teamVars, subagentVars, parentVars, leaseVars, TeamInv, Settling, ExecuteTeam, Start,
         Spend, Take, Advance
<1> QED  BY <1>2, <1>3, <1>4, <1>5, <1>6, <1>7, <1>8, <1>9, <1>10, <1>11 DEF TeamInv

LEMMA AdmitsNew ==
    ASSUME TeamInv, NEW p \in Process,
           job[p].at = "recover",
           NoneAdmitted(p),
           Set(p, [at |-> "clear", todo |-> Living, then |-> "admit"]),
           UNCHANGED <<teamStage, teamRev, teamSnap, teamMode, cancelMark, holder, execution,
                       attempt, status, worker, sent, stray, receipt, parentRev, evidence,
                       spent>>
    PROVE  TeamInv'
<1>1. /\ job' = [q \in Process |-> job'[q]]
      /\ \A q \in Process : q # p => job'[q] = job[q]
      /\ DOMAIN job'[p] = Fields
      /\ job'[p].at = "clear"
      /\ job'[p].stage = job[p].stage
      /\ job'[p].goal = job[p].goal
      /\ job'[p].then = "admit"
      /\ job'[p].seen = job[p].seen
      /\ job'[p].todo = Living
      /\ job'[p].lane = job[p].lane
      /\ job'[p].failed = job[p].failed
  BY DEF TeamInv, Jobs, JobOK, Fields, Set, NoneAdmitted, Living
<1>2. Jobs'
  <2>1. JobOK(p)'
    BY <1>1
       DEF TeamInv, Jobs, JobOK, Fields, Steps, LaneSteps, TeamStages, TeamEnded, TeamTypeOK,
           Subagent, NoneAdmitted, Living
  <2> QED  BY <1>1, <2>1 DEF TeamInv, Jobs, JobOK
<1>3. Typed'
  BY DEF TeamInv, Typed, TeamTypeOK, BoundLanes, Bound, TeamStages
<1>4. Leased'
  BY <1>1 DEF TeamInv, Leased, Itinerary, Checkpointing, Operating, Reviewing
<1>5. Permitted'
  BY <1>1 DEF TeamInv, Permitted
<1>6. Recorded'
  BY <1>1 DEF TeamInv, Recorded, Checkpointing, Operating
<1>7. BoundOnce'
  BY <1>1 DEF TeamInv, BoundOnce, BoundLanes, Checkpointing, NoneAdmitted, Living
<1>8. PreparedOnce'
  BY <1>1, PreparedStays DEF TeamInv, TeamTypeOK
<1>9. Reconciled'
  BY <1>1
     DEF leaseVars, TeamInv, Reconciled, Reviews, Reports, Checkpointing, Reviewing,
         Reporting, Reconcilable, AllAre, TeamMembers, BoundLanes, Bound, Leased, Itinerary
<1>10. MergedWhole'
  BY <1>1 DEF TeamInv, MergedWhole, AllAre, TeamMembers, BoundLanes, Bound
<1>11. Settling'
  BY <1>1 DEF TeamInv, Settling, Ending, TeamEnded, Leased, Permitted
<1> QED  BY <1>2, <1>3, <1>4, <1>5, <1>6, <1>7, <1>8, <1>9, <1>10, <1>11 DEF TeamInv

LEMMA RunsAgain ==
    ASSUME TeamInv, NEW p \in Process,
           job[p].at = "recover",
           AllAre("admitted"),
           Set(p, [at |-> "run"]),
           UNCHANGED <<teamStage, teamRev, teamSnap, teamMode, cancelMark, holder, execution,
                       attempt, status, worker, sent, stray, receipt, parentRev, evidence,
                       spent>>
    PROVE  TeamInv'
<1>1. /\ job' = [q \in Process |-> job'[q]]
      /\ \A q \in Process : q # p => job'[q] = job[q]
      /\ DOMAIN job'[p] = Fields
      /\ job'[p].at = "run"
      /\ job'[p].stage = job[p].stage
      /\ job'[p].goal = job[p].goal
      /\ job'[p].then = job[p].then
      /\ job'[p].seen = job[p].seen
      /\ job'[p].todo = job[p].todo
      /\ job'[p].lane = job[p].lane
      /\ job'[p].failed = job[p].failed
  BY DEF TeamInv, Jobs, JobOK, Fields, Set, AllAre
<1>2. Jobs'
  <2>1. JobOK(p)'
    BY <1>1 DEF TeamInv, Jobs, JobOK, Fields, Steps, LaneSteps
  <2> QED  BY <1>1, <2>1 DEF TeamInv, Jobs, JobOK
<1>3. Typed'
  BY DEF TeamInv, Typed, TeamTypeOK, BoundLanes, Bound, TeamStages
<1>4. Leased'
  BY <1>1 DEF TeamInv, Leased, Itinerary, Checkpointing, Operating
<1>5. Permitted'
  BY <1>1 DEF TeamInv, Permitted
<1>6. Recorded'
  BY <1>1 DEF TeamInv, Recorded, Checkpointing, Operating
<1>7. BoundOnce'
  BY <1>1, TeamAssumption DEF TeamInv, BoundOnce, BoundLanes, Checkpointing, AllAre
<1>8. PreparedOnce'
  BY <1>1 DEF TeamInv, PreparedOnce, BoundOnce, Bound
<1>9. Reconciled'
  BY <1>1
     DEF leaseVars, TeamInv, Reconciled, Reviews, Reports, Checkpointing, Reviewing,
         Reporting, Reconcilable, AllAre, TeamMembers, BoundLanes, Bound, Leased, Itinerary
<1>10. MergedWhole'
  BY <1>1 DEF TeamInv, MergedWhole, AllAre, TeamMembers, BoundLanes, Bound
<1>11. Settling'
  BY <1>1 DEF TeamInv, Settling, Ending, TeamEnded
<1> QED  BY <1>2, <1>3, <1>4, <1>5, <1>6, <1>7, <1>8, <1>9, <1>10, <1>11 DEF TeamInv

LEMMA MovesToExecute ==
    ASSUME TeamInv, NEW p \in Process,
           job[p].at \in {"recover", "bind"},
           BoundLanes = Lane,
           Advance(p, "execute", "run"),
           UNCHANGED <<teamStage, teamRev, teamSnap, teamMode, cancelMark, holder, execution,
                       attempt, status, worker, sent, stray, receipt, parentRev, evidence,
                       spent>>
    PROVE  TeamInv'
<1>1. /\ job' = [q \in Process |-> job'[q]]
      /\ \A q \in Process : q # p => job'[q] = job[q]
      /\ DOMAIN job'[p] = Fields
      /\ job'[p].at = "load"
      /\ job'[p].stage = job[p].stage
      /\ job'[p].goal = "execute"
      /\ job'[p].then = "run"
      /\ job'[p].seen = job[p].seen
      /\ job'[p].todo = job[p].todo
      /\ job'[p].lane = job[p].lane
      /\ job'[p].failed = job[p].failed
  BY DEF TeamInv, Jobs, JobOK, Fields, Set, Advance
<1>2. Jobs'
  <2>1. JobOK(p)'
    BY <1>1 DEF TeamInv, Jobs, JobOK, Fields, Steps, LaneSteps, TeamStages, TeamEnded
  <2> QED  BY <1>1, <2>1 DEF TeamInv, Jobs, JobOK
<1>3. Typed'
  BY DEF TeamInv, Typed, TeamTypeOK, BoundLanes, Bound, TeamStages
<1>4. Leased'
  BY <1>1 DEF TeamInv, Leased, Itinerary, Checkpointing, Operating
<1>5. Permitted'
  BY <1>1 DEF TeamInv, Permitted
<1>6. Recorded'
  BY <1>1 DEF TeamInv, Recorded, Checkpointing, Operating
<1>7. BoundOnce'
  BY <1>1 DEF TeamInv, BoundOnce, BoundLanes, Checkpointing
<1>8. PreparedOnce'
  BY <1>1 DEF TeamInv, PreparedOnce, BoundOnce, Bound
<1>9. Reconciled'
  BY <1>1
     DEF leaseVars, TeamInv, Reconciled, Reviews, Reports, Checkpointing, Reviewing,
         Reporting, Reconcilable, AllAre, TeamMembers, BoundLanes, Bound, Leased, Itinerary
<1>10. MergedWhole'
  BY <1>1 DEF TeamInv, MergedWhole, AllAre, TeamMembers, BoundLanes, Bound
<1>11. Settling'
  BY <1>1 DEF TeamInv, Settling, Ending, TeamEnded
<1> QED  BY <1>2, <1>3, <1>4, <1>5, <1>6, <1>7, <1>8, <1>9, <1>10, <1>11 DEF TeamInv

LEMMA Completes ==
    ASSUME TeamInv, NEW p \in Process,
           job[p].at = "recover",
           AllCompleted(p),
           Give("operation"),
           Set(p, [at |-> "work", todo |-> Lane, lane |-> [l \in Lane |-> "ok"]]),
           UNCHANGED <<teamStage, teamRev, teamSnap, teamMode, cancelMark, execution, attempt,
                       status, worker, sent, stray, receipt, parentRev, evidence, spent>>
    PROVE  TeamInv'
<1>1. /\ job' = [q \in Process |-> job'[q]]
      /\ \A q \in Process : q # p => job'[q] = job[q]
      /\ DOMAIN job'[p] = Fields
      /\ job'[p].at = "work"
      /\ job'[p].stage = job[p].stage
      /\ job'[p].goal = job[p].goal
      /\ job'[p].then = job[p].then
      /\ job'[p].seen = job[p].seen
      /\ job'[p].todo = Lane
      /\ job'[p].lane = [l \in Lane |-> "ok"]
      /\ job'[p].failed = job[p].failed
  BY DEF TeamInv, Jobs, JobOK, Fields, Set, AllCompleted, AllAre, Give
<1>2. Jobs'
  <2>1. JobOK(p)'
    BY <1>1 DEF TeamInv, Jobs, JobOK, Fields, Steps, LaneSteps
  <2> QED  BY <1>1, <2>1 DEF TeamInv, Jobs, JobOK
<1>3. Typed'
  BY TeamAssumption
     DEF TeamInv, Typed, TeamTypeOK, BoundLanes, Bound, TeamStages, TeamEnded, Statuses,
         Final, Live, LeaseName, Give
<1>4. Leased'
  BY <1>1
     DEF TeamInv, Leased, Itinerary, Checkpointing, Operating, Reviewing, Reporting,
         LeaseName, Typed, TeamTypeOK, Jobs, JobOK, Fields, AllCompleted, AllAre, Give
<1>5. Permitted'
  BY <1>1 DEF TeamInv, Permitted, TeamEnded, TeamStages
<1>6. Recorded'
  BY <1>1 DEF TeamInv, Recorded, Leased, Itinerary, Checkpointing, Operating
<1>7. BoundOnce'
  BY <1>1, TeamAssumption
     DEF TeamInv, BoundOnce, BoundLanes, Checkpointing, Leased, Operating, Fields,
         AllCompleted, AllAre, Give
<1>8. PreparedOnce'
  BY <1>1 DEF TeamInv, PreparedOnce, BoundOnce, Bound
<1>9. Reconciled'
  BY <1>1
     DEF leaseVars, TeamInv, Reconciled, Reviews, Reports, Checkpointing, Reviewing,
         Reporting, Reconcilable, AllAre, TeamMembers, BoundLanes, Bound, Leased, Itinerary
<1>10. MergedWhole'
  BY <1>1 DEF TeamInv, MergedWhole, AllAre, TeamMembers, BoundLanes, Bound
<1>11. Settling'
  BY SMTT(60), <1>1, TeamAssumption
     DEF teamVars, subagentVars, parentVars, leaseVars, TeamInv, Settling, Ending, TeamEnded,
         Leased, Permitted, Permits, Checkpointing, Operating, Typed, TeamTypeOK, Jobs, JobOK,
         Fields, AllCompleted, AllAre, Give
<1> QED  BY <1>2, <1>3, <1>4, <1>5, <1>6, <1>7, <1>8, <1>9, <1>10, <1>11 DEF TeamInv

LEMMA Interrupts ==
    ASSUME TeamInv, NEW p \in Process,
           job[p].at = "recover",
           Set(p, [at |-> "clear", todo |-> Living, goal |-> "failed", then |-> "load"]),
           UNCHANGED <<teamStage, teamRev, teamSnap, teamMode, cancelMark, holder, execution,
                       attempt, status, worker, sent, stray, receipt, parentRev, evidence,
                       spent>>
    PROVE  TeamInv'
<1>1. /\ job' = [q \in Process |-> job'[q]]
      /\ \A q \in Process : q # p => job'[q] = job[q]
      /\ DOMAIN job'[p] = Fields
      /\ job'[p].at = "clear"
      /\ job'[p].stage = job[p].stage
      /\ job'[p].goal = "failed"
      /\ job'[p].then = "load"
      /\ job'[p].seen = job[p].seen
      /\ job'[p].todo = Living
      /\ job'[p].lane = job[p].lane
      /\ job'[p].failed = job[p].failed
  BY DEF TeamInv, Jobs, JobOK, Fields, Set, Living
<1>2. Jobs'
  <2>1. JobOK(p)'
    BY <1>1, TeamAssumption
       DEF TeamInv, Jobs, JobOK, Fields, Steps, LaneSteps, TeamStages, TeamEnded, TeamTypeOK,
           Subagent, Living
  <2> QED  BY <1>1, <2>1 DEF TeamInv, Jobs, JobOK
<1>3. Typed'
  BY DEF TeamInv, Typed, TeamTypeOK, BoundLanes, Bound, TeamStages
<1>4. Leased'
  BY <1>1 DEF TeamInv, Leased, Itinerary, Checkpointing, Operating
<1>5. Permitted'
  BY <1>1 DEF TeamInv, Permitted
<1>6. Recorded'
  BY <1>1 DEF TeamInv, Recorded, Checkpointing, Operating
<1>7. BoundOnce'
  BY <1>1 DEF TeamInv, BoundOnce, BoundLanes, Checkpointing
<1>8. PreparedOnce'
  BY <1>1 DEF TeamInv, PreparedOnce, BoundOnce, Bound
<1>9. Reconciled'
  BY <1>1
     DEF leaseVars, TeamInv, Reconciled, Reviews, Reports, Checkpointing, Reviewing,
         Reporting, Reconcilable, AllAre, TeamMembers, BoundLanes, Bound, Leased, Itinerary
<1>10. MergedWhole'
  BY <1>1 DEF TeamInv, MergedWhole, AllAre, TeamMembers, BoundLanes, Bound
<1>11. Settling'
  BY <1>1 DEF TeamInv, Settling, Ending, TeamEnded
<1> QED  BY <1>2, <1>3, <1>4, <1>5, <1>6, <1>7, <1>8, <1>9, <1>10, <1>11 DEF TeamInv

LEMMA Clears ==
    ASSUME TeamInv, NEW p \in Process,
           job[p].at = "clear",
           holder["parent"] = Nobody,
           Take(p, "parent"),
           Set(p, [at |-> "terminalize"]),
           execution' \in [Subagent -> Process \cup {Nobody}],
           UNCHANGED <<teamStage, teamRev, teamSnap, teamMode, cancelMark, attempt, status,
                       worker, sent, stray, receipt, parentRev, evidence, spent>>
    PROVE  TeamInv'
<1>1. /\ job' = [q \in Process |-> job'[q]]
      /\ \A q \in Process : q # p => job'[q] = job[q]
      /\ DOMAIN job'[p] = Fields
      /\ job'[p].at = "terminalize"
      /\ job'[p].stage = job[p].stage
      /\ job'[p].goal = job[p].goal
      /\ job'[p].then = job[p].then
      /\ job'[p].seen = job[p].seen
      /\ job'[p].todo = job[p].todo
      /\ job'[p].lane = job[p].lane
      /\ job'[p].failed = job[p].failed
  BY DEF TeamInv, Jobs, JobOK, Fields, Set, Take
<1>2. Jobs'
  <2>1. JobOK(p)'
    BY <1>1 DEF TeamInv, Jobs, JobOK, Fields, Steps, LaneSteps
  <2> QED  BY <1>1, <2>1 DEF TeamInv, Jobs, JobOK
<1>3. Typed'
  BY TeamAssumption
     DEF TeamInv, Typed, TeamTypeOK, BoundLanes, Bound, TeamStages, TeamEnded, Statuses,
         Final, Live, LeaseName, Spending, Subagent, Permits, Take
<1>4. Leased'
  BY <1>1
     DEF TeamInv, Leased, Itinerary, Checkpointing, Operating, Reviewing, Reporting,
         LeaseName, Typed, TeamTypeOK, Jobs, JobOK, Fields, Take
<1>5. Permitted'
  BY <1>1 DEF TeamInv, Permitted
<1>6. Recorded'
  BY <1>1 DEF TeamInv, Recorded, Checkpointing, Operating
<1>7. BoundOnce'
  BY <1>1 DEF TeamInv, BoundOnce, BoundLanes, Checkpointing
<1>8. PreparedOnce'
  BY SMTT(60), <1>1, TeamAssumption
     DEF TeamInv, PreparedOnce, BoundOnce, Bound, BoundLanes, Subagent, Typed, TeamTypeOK,
         Jobs, JobOK, Fields, Take
<1>9. Reconciled'
  BY <1>1
     DEF leaseVars, TeamInv, Reconciled, Reviews, Reports, Checkpointing, Reviewing,
         Reporting, Reconcilable, AllAre, TeamMembers, BoundLanes, Bound, Leased, Itinerary
<1>10. MergedWhole'
  BY <1>1 DEF TeamInv, MergedWhole, AllAre, TeamMembers, BoundLanes, Bound
<1>11. Settling'
  BY <1>1 DEF TeamInv, Settling, Ending, TeamEnded
<1> QED  BY <1>2, <1>3, <1>4, <1>5, <1>6, <1>7, <1>8, <1>9, <1>10, <1>11 DEF TeamInv

LEMMA ClearsDone ==
    ASSUME TeamInv, NEW p \in Process,
           job[p].at = "terminalize",
           Give("parent"),
           Set(p, [at |-> job[p].then, then |-> "end", todo |-> {}]),
           execution' \in [Subagent -> Process \cup {Nobody}],
           UNCHANGED <<teamStage, teamRev, teamSnap, teamMode, cancelMark, attempt, status,
                       worker, sent, stray, receipt, parentRev, evidence, spent>>
    PROVE  TeamInv'
<1>1. /\ job' = [q \in Process |-> job'[q]]
      /\ \A q \in Process : q # p => job'[q] = job[q]
      /\ DOMAIN job'[p] = Fields
      /\ job'[p].at = job[p].then
      /\ job'[p].stage = job[p].stage
      /\ job'[p].goal = job[p].goal
      /\ job'[p].then = "end"
      /\ job'[p].seen = job[p].seen
      /\ job'[p].todo = {}
      /\ job'[p].lane = job[p].lane
      /\ job'[p].failed = job[p].failed
  BY DEF TeamInv, Jobs, JobOK, Fields, Set, Give
<1>2. Jobs'
  <2>1. JobOK(p)'
    BY <1>1 DEF TeamInv, Jobs, JobOK, Fields, Steps, LaneSteps
  <2> QED  BY <1>1, <2>1 DEF TeamInv, Jobs, JobOK
<1>3. Typed'
  BY TeamAssumption
     DEF TeamInv, Typed, TeamTypeOK, BoundLanes, Bound, TeamStages, TeamEnded, Statuses,
         Final, Live, LeaseName, Spending, Subagent, Permits, Give
<1>4. Leased'
  BY <1>1
     DEF TeamInv, Leased, Itinerary, Checkpointing, Operating, Reviewing, Reporting,
         LeaseName, Fields, Give
<1>5. Permitted'
  BY <1>1 DEF TeamInv, Permitted, TeamEnded, TeamStages, Leased, Itinerary
<1>6. Recorded'
  BY <1>1 DEF TeamInv, Recorded, Leased, Itinerary, Checkpointing, Operating
<1>7. BoundOnce'
  BY <1>1 DEF TeamInv, BoundOnce, BoundLanes, Checkpointing, Leased, Operating, Itinerary, Typed
<1>8. PreparedOnce'
  BY <1>1, PreparedStays DEF TeamInv, TeamTypeOK
<1>9. Reconciled'
  BY <1>1
     DEF leaseVars, TeamInv, Reconciled, Reviews, Reports, Checkpointing, Reviewing,
         Reporting, Reconcilable, AllAre, TeamMembers, BoundLanes, Bound, Leased, Itinerary
<1>10. MergedWhole'
  BY <1>1 DEF TeamInv, MergedWhole, AllAre, TeamMembers, BoundLanes, Bound
<1>11. Settling'
  BY SMTT(60), <1>1, TeamAssumption
     DEF teamVars, subagentVars, parentVars, leaseVars, TeamInv, Settling, Ending, TeamEnded,
         Leased, Permitted, Permits, Checkpointing, Operating, Typed, TeamTypeOK, Jobs, JobOK,
         Fields, Give
<1> QED  BY <1>2, <1>3, <1>4, <1>5, <1>6, <1>7, <1>8, <1>9, <1>10, <1>11 DEF TeamInv

LEMMA Admits ==
    ASSUME TeamInv, NEW p \in Process,
           job[p].at = "admit",
           holder["parent"] = Nobody,
           Living = {},
           attempt + 1 \in Attempt,
           attempt' = attempt + 1,
           Take(p, "parent"),
           Set(p, [at |-> "record", todo |-> Lane]),
           UNCHANGED <<teamStage, teamRev, teamSnap, teamMode, cancelMark, execution, status,
                       worker, sent, stray, receipt, parentRev, evidence, spent>>
    PROVE  TeamInv'
<1>1. /\ job' = [q \in Process |-> job'[q]]
      /\ \A q \in Process : q # p => job'[q] = job[q]
      /\ DOMAIN job'[p] = Fields
      /\ job'[p].at = "record"
      /\ job'[p].stage = job[p].stage
      /\ job'[p].goal = job[p].goal
      /\ job'[p].then = job[p].then
      /\ job'[p].seen = job[p].seen
      /\ job'[p].todo = Lane
      /\ job'[p].lane = job[p].lane
      /\ job'[p].failed = job[p].failed
  BY DEF TeamInv, Jobs, JobOK, Fields, Set, Take
<1>2. Jobs'
  <2>1. JobOK(p)'
    BY <1>1 DEF TeamInv, Jobs, JobOK, Fields, Steps, LaneSteps
  <2> QED  BY <1>1, <2>1 DEF TeamInv, Jobs, JobOK
<1>3. Typed'
  <2>1. attempt' \in 0 .. Cardinality(Attempt)
    BY AttemptCount DEF TeamInv, Typed, TeamTypeOK
  <2>2. holder' \in [LeaseName -> Process \cup {Nobody}]
    BY DEF TeamInv, Typed, TeamTypeOK, Take
  <2> QED  BY <2>1, <2>2 DEF TeamInv, Typed, TeamTypeOK, BoundLanes, Bound
<1>4. Leased'
  BY <1>1
     DEF TeamInv, Leased, Itinerary, Checkpointing, Operating, Reviewing, Reporting,
         LeaseName, Typed, TeamTypeOK, Jobs, JobOK, Fields, Take
<1>5. Permitted'
  BY <1>1 DEF TeamInv, Permitted
<1>6. Recorded'
  <2>1. attempt \in Nat /\ attempt + 1 \in Attempt
    BY AttemptCount DEF TeamInv, Typed, TeamTypeOK
  <2>2. \A s \in Subagent : s[1] \in Nat
    BY AttemptNat DEF Subagent
  <2>3. \A l \in Lane : <<attempt + 1, l>> \in Subagent /\ <<attempt + 1, l>>[1] > attempt
    BY <2>1 DEF Subagent
  <2>4. \A s \in Subagent : s[1] > attempt => status[s] = "none"
    BY DEF TeamInv, Recorded
  <2>5. \A q \in Process : q # p => job[q].at \notin {"record", "bind"}
    BY DEF TeamInv, Leased, Operating
  <2> QED  BY <1>1, <2>1, <2>2, <2>3, <2>4, <2>5 DEF Recorded
<1>7. BoundOnce'
  BY <1>1 DEF TeamInv, BoundOnce, BoundLanes, Checkpointing
<1>8. PreparedOnce'
  BY <1>1, PreparedStays DEF TeamInv, TeamTypeOK
<1>9. Reconciled'
  BY <1>1
     DEF leaseVars, TeamInv, Reconciled, Reviews, Reports, Checkpointing, Reviewing,
         Reporting, Reconcilable, AllAre, TeamMembers, BoundLanes, Bound, Leased, Itinerary
<1>10. MergedWhole'
  BY <1>1 DEF TeamInv, MergedWhole, AllAre, TeamMembers, BoundLanes, Bound
<1>11. Settling'
  BY <1>1, TeamAssumption, SettlingStays
     DEF teamVars, parentVars, leaseVars, TeamInv, Typed, Spending, Ending, Reviewing
<1> QED  BY <1>2, <1>3, <1>4, <1>5, <1>6, <1>7, <1>8, <1>9, <1>10, <1>11 DEF TeamInv

LEMMA RecordsOne ==
    ASSUME TeamInv, NEW p \in Process,
           NEW l \in job[p].todo,
           job[p].at = "record",
           status' = [status EXCEPT ![<<attempt, l>>] = "admitted"],
           Set(p, [todo |-> job[p].todo \ {l}]),
           UNCHANGED <<teamStage, teamRev, teamSnap, teamMode, cancelMark, holder, execution,
                       attempt, worker, sent, stray, receipt, parentRev, evidence, spent>>
    PROVE  TeamInv'
<1>1. /\ job' = [q \in Process |-> job'[q]]
      /\ \A q \in Process : q # p => job'[q] = job[q]
      /\ DOMAIN job'[p] = Fields
      /\ job'[p].at = job[p].at
      /\ job'[p].stage = job[p].stage
      /\ job'[p].goal = job[p].goal
      /\ job'[p].then = job[p].then
      /\ job'[p].seen = job[p].seen
      /\ job'[p].todo = job[p].todo \ {l}
      /\ job'[p].lane = job[p].lane
      /\ job'[p].failed = job[p].failed
  BY DEF TeamInv, Jobs, JobOK, Fields, Set
<1>2. Jobs'
  <2>1. JobOK(p)'
    BY <1>1 DEF TeamInv, Jobs, JobOK
  <2> QED  BY <1>1, <2>1 DEF TeamInv, Jobs, JobOK
<1>3. Typed'
  BY TeamAssumption
     DEF teamVars, subagentVars, parentVars, leaseVars, TeamInv, Typed, TeamTypeOK,
         BoundLanes, Bound, TeamStages, TeamEnded, Statuses, Final, Live, LeaseName, Spending,
         Subagent, Permits
<1>4. Leased'
  BY <1>1 DEF TeamInv, Leased, Itinerary, Checkpointing
<1>5. Permitted'
  BY <1>1 DEF TeamInv, Permitted
<1>6. Recorded'
  <2>1. <<attempt, l>> \in Subagent /\ <<attempt, l>>[1] = attempt /\ attempt \in Nat
    BY AttemptNat DEF TeamInv, Recorded, Jobs, JobOK, Subagent
  <2>2. \A s \in Subagent : status'[s] = IF s = <<attempt, l>> THEN "admitted" ELSE status[s]
    BY DEF TeamInv, Typed
  <2>3. \A q \in Process : q # p => job[q].at # "record"
    BY ZenonT(60) DEF TeamInv, Leased
  <2>4. \A k \in Lane : attempt \in Attempt /\ <<attempt, k>> \in Subagent
    BY DEF TeamInv, Recorded, Subagent
  <2>5. l \in Lane
    BY DEF TeamInv, Jobs, JobOK
  <2>6. \A k \in Lane : status'[<<attempt, k>>] = "none" <=> k \in job[p].todo \ {l}
    BY <2>2, <2>4, <2>5 DEF TeamInv, Recorded
  <2>7. \A s \in Subagent : s[1] > attempt => status'[s] = "none"
    BY <2>1, <2>2 DEF TeamInv, Recorded
  <2>8. ASSUME NEW q \in Process, job'[q].at = "bind"
        PROVE  attempt \in Attempt /\ \A k \in Lane : status'[<<attempt, k>>] # "none"
    BY <1>1, <2>2, <2>4, <2>8 DEF TeamInv, Recorded
  <2> QED  BY <1>1, <2>3, <2>4, <2>6, <2>7, <2>8 DEF Recorded, TeamInv
<1>7. BoundOnce'
  BY <1>1 DEF TeamInv, BoundOnce, BoundLanes, Checkpointing
<1>8. PreparedOnce'
  <2>1. <<attempt, l>> \in Subagent /\ status[<<attempt, l>>] = "none"
    BY DEF TeamInv, Recorded, Jobs, JobOK, Subagent
  <2>2. \A s \in Subagent : status'[s] = IF s = <<attempt, l>> THEN "admitted" ELSE status[s]
    BY DEF TeamInv, Typed
  <2>3. \A q \in Process : job'[q].lane = job[q].lane
    BY <1>1
  <2> QED  BY <2>1, <2>2, <2>3, PreparedStays DEF TeamInv
<1>9. Reconciled'
  BY <1>1
     DEF leaseVars, TeamInv, Reconciled, Reviews, Reports, Checkpointing, Reviewing,
         Reporting, Reconcilable, AllAre, TeamMembers, BoundLanes, Bound, Leased, Itinerary,
         Operating, Typed, TeamTypeOK, Jobs, JobOK, Fields
<1>10. MergedWhole'
  <2>1. <<attempt, l>> \in Subagent /\ status[<<attempt, l>>] = "none"
    BY DEF TeamInv, Recorded, Jobs, JobOK, Subagent
  <2>2. \A s \in Subagent : status'[s] = IF s = <<attempt, l>> THEN "admitted" ELSE status[s]
    BY DEF TeamInv, Typed
  <2> QED  BY <2>1, <2>2, <1>3, ResultsStay DEF TeamInv, Typed, TeamTypeOK
<1>11. Settling'
  BY <1>1 DEF TeamInv, Settling, Ending, TeamEnded
<1> QED  BY <1>2, <1>3, <1>4, <1>5, <1>6, <1>7, <1>8, <1>9, <1>10, <1>11 DEF TeamInv

LEMMA RollsAdmissionBack ==
    ASSUME TeamInv, NEW p \in Process,
           RollbackAdmission(p)
    PROVE  TeamInv'
<1>1. /\ job' = [q \in Process |-> job'[q]]
      /\ \A q \in Process : q # p => job'[q] = job[q]
      /\ job'[p] = Resting
  BY DEF TeamInv, Jobs, JobOK, Fields, End, RollbackAdmission, Spend, Resting
<1>2. Jobs'
  <2>1. JobOK(p)'
    BY <1>1, TeamAssumption
       DEF TeamInv, Jobs, JobOK, Fields, Steps, LaneSteps, TeamStages, TeamEnded, Itinerary,
           Leased, Checkpointing, Typed, TeamTypeOK, Subagent, RollbackAdmission, Spend, End,
           Resting
  <2> QED  BY <1>1, <2>1 DEF TeamInv, Jobs, JobOK
<1>3. Typed'
  BY DEF teamVars, subagentVars, parentVars, leaseVars, TeamInv, Typed, TeamTypeOK,
         BoundLanes, Bound, TeamStages, TeamEnded, Statuses, Final, Live, LeaseName, Spending,
         Subagent, Permits, RollbackAdmission, Spend, End, Resting
<1>4. Leased'
  BY <1>1, TeamAssumption
     DEF TeamInv, Leased, Itinerary, Checkpointing, Operating, Reviewing, Reporting,
         LeaseName, Typed, TeamTypeOK, Jobs, JobOK, Fields, RollbackAdmission, Spend, End,
         Resting
<1>5. Permitted'
  BY <1>1, TeamAssumption
     DEF teamVars, subagentVars, TeamInv, Permitted, Checkpointing, Permits, TeamEnded,
         TeamStages, JobOK, Fields, RollbackAdmission, Spend, End, Resting
<1>6. Recorded'
  BY <1>1, TeamAssumption
     DEF leaseVars, TeamInv, Recorded, Operating, Subagent, Statuses, Live, Final, Typed,
         TeamTypeOK, Jobs, JobOK, Fields, RollbackAdmission, Spend, End, Resting
<1>7. BoundOnce'
  BY <1>1
     DEF TeamInv, BoundOnce, BoundLanes, Checkpointing, Leased, Operating, Fields,
         RollbackAdmission, Spend, End, Resting
<1>8. PreparedOnce'
  BY <1>1, TeamAssumption
     DEF TeamInv, PreparedOnce, BoundOnce, Bound, BoundLanes, Subagent, RollbackAdmission,
         Spend, End, Resting
<1>9. Reconciled'
  BY <1>1
     DEF leaseVars, TeamInv, Reconciled, Reviews, Reports, Checkpointing, Reviewing,
         Reporting, Reconcilable, AllAre, TeamMembers, BoundLanes, Bound, Leased, Itinerary,
         Operating, Typed, TeamTypeOK, Jobs, JobOK, Fields, RollbackAdmission, Spend, End,
         Resting
<1>10. MergedWhole'
  <2>1. \A s \in Subagent : status[s] = "completed" => status'[s] = "completed"
    BY DEF TeamInv, Typed, Live, RollbackAdmission, teamVars, parentVars
  <2> QED  BY <2>1, <1>3, ResultsStay
              DEF TeamInv, Typed, TeamTypeOK, RollbackAdmission, teamVars, parentVars
<1>11. Settling'
  BY <1>1
     DEF teamVars, subagentVars, parentVars, leaseVars, TeamInv, Settling, Ending, TeamEnded,
         Leased, Permitted, Permits, Checkpointing, Operating, Typed, TeamTypeOK, Jobs, JobOK,
         Fields, RollbackAdmission, Spend
<1> QED  BY <1>2, <1>3, <1>4, <1>5, <1>6, <1>7, <1>8, <1>9, <1>10, <1>11 DEF TeamInv

LEMMA RecordsDone ==
    ASSUME TeamInv, NEW p \in Process,
           MembersRecorded(p)
    PROVE  TeamInv'
<1>1. /\ job' = [q \in Process |-> job'[q]]
      /\ \A q \in Process : q # p => job'[q] = job[q]
      /\ DOMAIN job'[p] = Fields
      /\ job'[p].at = "bind"
      /\ job'[p].stage = job[p].stage
      /\ job'[p].goal = job[p].goal
      /\ job'[p].then = job[p].then
      /\ job'[p].seen = job[p].seen
      /\ job'[p].todo = Lane
      /\ job'[p].lane = job[p].lane
      /\ job'[p].failed = job[p].failed
  BY DEF TeamInv, Jobs, JobOK, Fields, Set, MembersRecorded, At, Give
<1>2. Jobs'
  <2>1. JobOK(p)'
    BY <1>1 DEF TeamInv, Jobs, JobOK, Fields, Steps, LaneSteps
  <2> QED  BY <1>1, <2>1 DEF TeamInv, Jobs, JobOK
<1>3. Typed'
  BY TeamAssumption
     DEF teamVars, subagentVars, parentVars, leaseVars, TeamInv, Typed, TeamTypeOK,
         BoundLanes, Bound, TeamStages, TeamEnded, Statuses, Final, Live, LeaseName, Spending,
         Subagent, Permits, MembersRecorded, At, Give
<1>4. Leased'
  BY <1>1
     DEF TeamInv, Leased, Itinerary, Checkpointing, Operating, Reviewing, JobOK, Fields,
         MembersRecorded, At, Give
<1>5. Permitted'
  BY <1>1
     DEF teamVars, subagentVars, TeamInv, Permitted, Checkpointing, Permits, TeamEnded,
         TeamStages, JobOK, Fields, MembersRecorded, At, Give
<1>6. Recorded'
  BY <1>1
     DEF teamVars, subagentVars, parentVars, leaseVars, TeamInv, Recorded, Leased, Itinerary,
         Checkpointing, Operating, TeamTypeOK, Jobs, JobOK, Fields, MembersRecorded, At, Give
<1>7. BoundOnce'
  BY <1>1, TeamAssumption
     DEF teamVars, subagentVars, TeamInv, BoundOnce, BoundLanes, Checkpointing, Leased,
         Operating, Fields, MembersRecorded, At, Give
<1>8. PreparedOnce'
  BY <1>1
     DEF teamVars, subagentVars, parentVars, leaseVars, TeamInv, PreparedOnce, BoundOnce,
         Bound, Jobs, JobOK, Fields, MembersRecorded
<1>9. Reconciled'
  BY <1>1, TeamAssumption
     DEF leaseVars, TeamInv, Reconciled, Reviews, Reports, Checkpointing, Reviewing,
         Reporting, Reconcilable, AllAre, TeamMembers, BoundLanes, Bound, Leased, Itinerary,
         Operating, Typed, TeamTypeOK, Jobs, JobOK, Fields, MembersRecorded, At, Give
<1>10. MergedWhole'
  BY <1>1, TeamAssumption
     DEF teamVars, subagentVars, parentVars, leaseVars, TeamInv, MergedWhole, AllAre,
         TeamMembers, BoundLanes, Bound, Reconciled, Reviews, JobOK, Fields, MembersRecorded,
         At, Give
<1>11. Settling'
  BY <1>1
     DEF teamVars, subagentVars, TeamInv, Settling, Ending, TeamEnded, Leased, Permitted,
         Jobs, JobOK, Fields, MembersRecorded, At
<1> QED  BY <1>2, <1>3, <1>4, <1>5, <1>6, <1>7, <1>8, <1>9, <1>10, <1>11 DEF TeamInv

LEMMA Binds ==
    ASSUME TeamInv, NEW p \in Process,
           NEW l \in job[p].todo,
           job[p].at = "bind",
           worker' = [worker EXCEPT ![l] = attempt],
           Set(p, [todo |-> job[p].todo \ {l}]),
           UNCHANGED <<teamStage, teamRev, teamSnap, teamMode, cancelMark, holder, execution,
                       attempt, status, sent, stray, receipt, parentRev, evidence, spent>>
    PROVE  TeamInv'
<1>1. /\ job' = [q \in Process |-> job'[q]]
      /\ \A q \in Process : q # p => job'[q] = job[q]
      /\ DOMAIN job'[p] = Fields
      /\ job'[p].at = job[p].at
      /\ job'[p].stage = job[p].stage
      /\ job'[p].goal = job[p].goal
      /\ job'[p].then = job[p].then
      /\ job'[p].seen = job[p].seen
      /\ job'[p].todo = job[p].todo \ {l}
      /\ job'[p].lane = job[p].lane
      /\ job'[p].failed = job[p].failed
  BY DEF TeamInv, Jobs, JobOK, Fields, Set
<1>2. Jobs'
  <2>1. JobOK(p)'
    BY <1>1 DEF TeamInv, Jobs, JobOK
  <2> QED  BY <1>1, <2>1 DEF TeamInv, Jobs, JobOK
<1>3. Typed'
  <2>1. /\ l \in Lane \ BoundLanes /\ worker[l] = 0 /\ attempt \in Attempt /\ attempt > 0
        /\ <<attempt, l>> \in Subagent /\ status[<<attempt, l>>] # "none"
    BY AttemptNat DEF TeamInv, Recorded, BoundOnce, BoundLanes, Jobs, JobOK, Subagent
  <2>2. \A k \in Lane : worker'[k] = IF k = l THEN attempt ELSE worker[k]
    BY DEF TeamInv, Typed
  <2>3. \A k \in BoundLanes' : worker'[k] \in Attempt /\ status[<<worker'[k], k>>] # "none"
    BY <2>1, <2>2 DEF TeamInv, Typed, TeamTypeOK, BoundLanes, Bound
  <2>4. worker' \in [Lane -> {0} \cup Attempt]
    BY <2>1 DEF TeamInv, Typed
  <2> QED  BY <2>3, <2>4 DEF TeamInv, Typed, TeamTypeOK, Bound
<1>4. Leased'
  BY <1>1 DEF TeamInv, Leased, Itinerary, Checkpointing
<1>5. Permitted'
  BY <1>1 DEF TeamInv, Permitted
<1>6. Recorded'
  BY <1>1 DEF TeamInv, Recorded
<1>7. BoundOnce'
  <2>1. /\ l \in Lane \ BoundLanes /\ worker[l] = 0 /\ attempt \in Attempt /\ attempt > 0
        /\ <<attempt, l>> \in Subagent /\ status[<<attempt, l>>] # "none"
    BY AttemptNat DEF TeamInv, Recorded, BoundOnce, BoundLanes, Jobs, JobOK, Subagent
  <2>2. \A k \in Lane : worker'[k] = IF k = l THEN attempt ELSE worker[k]
    BY DEF TeamInv, Typed
  <2>3. BoundLanes' = BoundLanes \cup {l}
    BY <2>1, <2>2 DEF BoundLanes
  <2>4. BoundLanes' = Lane \ (job[p].todo \ {l})
    BY <2>1, <2>3 DEF TeamInv, BoundOnce
  <2>5. \A q \in Process : q # p =>
           /\ job[q].at \notin Operating
           /\ ~(Checkpointing(q) /\ job[q].goal = "execute")
    BY ZenonT(60) DEF TeamInv, Leased, Operating
  <2>6. \A q \in Process : job[q].at \in {"work", "rollback"} => BoundLanes = Lane
    BY DEF TeamInv, BoundOnce
  <2> QED  BY <1>1, <2>1, <2>4, <2>5, <2>6 DEF BoundOnce, Operating, Checkpointing
<1>8. PreparedOnce'
  <2>1. /\ l \in Lane \ BoundLanes /\ worker[l] = 0 /\ attempt \in Attempt /\ attempt > 0
        /\ <<attempt, l>> \in Subagent /\ status[<<attempt, l>>] # "none"
    BY AttemptNat DEF TeamInv, Recorded, BoundOnce, BoundLanes, Jobs, JobOK, Subagent
  <2>2. \A k \in Lane : worker'[k] = IF k = l THEN attempt ELSE worker[k]
    BY DEF TeamInv, Typed
  <2>3. \A s \in Subagent : s[1] > 0
    BY AttemptNat DEF Subagent
  <2>4. \A s \in Subagent : sent[s] > 0 => worker'[s[2]] = s[1]
    BY <2>1, <2>2, <2>3 DEF TeamInv, PreparedOnce, Subagent
  <2>5. ASSUME NEW q \in Process, NEW k \in Lane, job[q].lane[k] = "prepared"
        PROVE  k # l /\ worker'[k] = worker[k] /\ Bound(k)' = Bound(k)
    BY ZenonT(60), <2>1, <2>2, <2>5 DEF TeamInv, PreparedOnce, Bound
  <2>6. \A q \in Process : job'[q].lane = job[q].lane
    BY <1>1
  <2> QED  BY <2>4, <2>5, <2>6 DEF TeamInv, PreparedOnce
<1>9. Reconciled'
  BY <1>1
     DEF leaseVars, TeamInv, Reconciled, Reviews, Reports, Checkpointing, Reviewing,
         Reporting, Reconcilable, AllAre, TeamMembers, BoundLanes, Bound, Leased, Itinerary,
         Operating, Typed, TeamTypeOK, Jobs, JobOK, Fields
<1>10. MergedWhole'
  <2>1. /\ l \in Lane \ BoundLanes /\ worker[l] = 0 /\ attempt \in Attempt /\ attempt > 0
        /\ <<attempt, l>> \in Subagent /\ status[<<attempt, l>>] # "none"
    BY AttemptNat DEF TeamInv, Recorded, BoundOnce, BoundLanes, Jobs, JobOK, Subagent
  <2>2. \A k \in Lane : worker'[k] = IF k = l THEN attempt ELSE worker[k]
    BY DEF TeamInv, Typed
  <2> QED  BY <2>1 DEF TeamInv, MergedWhole, AllAre
<1>11. Settling'
  BY <1>1, TeamAssumption, SettlingStays
     DEF teamVars, parentVars, leaseVars, TeamInv, Typed, Spending, Ending, Reviewing
<1> QED  BY <1>2, <1>3, <1>4, <1>5, <1>6, <1>7, <1>8, <1>9, <1>10, <1>11 DEF TeamInv

LEMMA Runs ==
    ASSUME TeamInv, NEW p \in Process,
           RunTeam(p)
    PROVE  TeamInv'
<1>1. /\ job' = [q \in Process |-> job'[q]]
      /\ \A q \in Process : q # p => job'[q] = job[q]
      /\ DOMAIN job'[p] = Fields
      /\ job'[p].at = "work"
      /\ job'[p].stage = job[p].stage
      /\ job'[p].goal = job[p].goal
      /\ job'[p].then = job[p].then
      /\ job'[p].seen = job[p].seen
      /\ job'[p].todo = Lane
      /\ job'[p].lane = [l \in Lane |-> "ready"]
      /\ job'[p].failed = job[p].failed
  BY DEF TeamInv, Jobs, JobOK, Fields, Set, RunTeam, At, Give
<1>2. Jobs'
  <2>1. JobOK(p)'
    BY <1>1 DEF TeamInv, Jobs, JobOK, Fields, Steps, LaneSteps
  <2> QED  BY <1>1, <2>1 DEF TeamInv, Jobs, JobOK
<1>3. Typed'
  BY TeamAssumption
     DEF teamVars, subagentVars, parentVars, leaseVars, TeamInv, Typed, TeamTypeOK,
         BoundLanes, Bound, TeamStages, TeamEnded, Statuses, Final, Live, LeaseName, Spending,
         Subagent, Permits, RunTeam, At, Give
<1>4. Leased'
  BY <1>1
     DEF TeamInv, Leased, Itinerary, Checkpointing, Operating, Reviewing, Reporting,
         LeaseName, Typed, TeamTypeOK, Jobs, JobOK, Fields, RunTeam, At, Give
<1>5. Permitted'
  BY <1>1
     DEF teamVars, subagentVars, TeamInv, Permitted, Checkpointing, Permits, TeamEnded,
         TeamStages, JobOK, Fields, RunTeam, At, Give
<1>6. Recorded'
  BY <1>1
     DEF teamVars, subagentVars, parentVars, leaseVars, TeamInv, Recorded, Leased, Itinerary,
         Checkpointing, Operating, TeamTypeOK, Jobs, JobOK, Fields, RunTeam
<1>7. BoundOnce'
  BY <1>1, TeamAssumption
     DEF teamVars, subagentVars, TeamInv, BoundOnce, BoundLanes, Checkpointing, Leased,
         Operating, Fields, RunTeam, At, Give
<1>8. PreparedOnce'
  BY <1>1
     DEF teamVars, subagentVars, parentVars, leaseVars, TeamInv, PreparedOnce, BoundOnce,
         Bound, Jobs, JobOK, Fields, RunTeam
<1>9. Reconciled'
  BY <1>1, TeamAssumption
     DEF leaseVars, TeamInv, Reconciled, Reviews, Reports, Checkpointing, Reviewing,
         Reporting, Reconcilable, AllAre, TeamMembers, BoundLanes, Bound, Leased, Itinerary,
         Operating, Typed, TeamTypeOK, Jobs, JobOK, Fields, RunTeam, At, Give
<1>10. MergedWhole'
  BY <1>1, TeamAssumption
     DEF teamVars, subagentVars, parentVars, leaseVars, TeamInv, MergedWhole, AllAre,
         TeamMembers, BoundLanes, Bound, Reconciled, Reviews, JobOK, Fields, RunTeam, At, Give
<1>11. Settling'
  BY <1>1
     DEF teamVars, subagentVars, TeamInv, Settling, Ending, TeamEnded, Leased, Permitted,
         Jobs, JobOK, Fields, RunTeam, At
<1> QED  BY <1>2, <1>3, <1>4, <1>5, <1>6, <1>7, <1>8, <1>9, <1>10, <1>11 DEF TeamInv

(* The work of the lanes. *)
LEMMA Prepares ==
    ASSUME TeamInv, NEW p \in Process,
           NEW l \in Lane,
           Working(p, l, "ready"),
           Preparable(p, l),
           execution' = [execution EXCEPT ![Bound(l)] = p],
           status' = [status EXCEPT ![Bound(l)] = "running"],
           SetLane(p, l, "prepared"),
           UNCHANGED <<teamStage, teamRev, teamSnap, teamMode, cancelMark, holder, attempt,
                       worker, sent, stray, receipt, parentRev, evidence, spent>>
    PROVE  TeamInv'
<1>1. /\ job' = [q \in Process |-> job'[q]]
      /\ \A q \in Process : q # p => job'[q] = job[q]
      /\ DOMAIN job'[p] = Fields
      /\ job'[p].at = job[p].at
      /\ job'[p].stage = job[p].stage
      /\ job'[p].goal = job[p].goal
      /\ job'[p].then = job[p].then
      /\ job'[p].seen = job[p].seen
      /\ job'[p].todo = job[p].todo
      /\ job'[p].failed = job[p].failed
      /\ job'[p].lane = [job[p].lane EXCEPT ![l] = "prepared"]
  BY DEF TeamInv, Jobs, JobOK, Fields, SetLane, Working, Preparable, At
<1>2. Jobs'
  <2>1. JobOK(p)'
    BY ZenonT(60), <1>1, TeamAssumption
       DEF TeamInv, Jobs, JobOK, Fields, Steps, LaneSteps, TeamStages, TeamEnded, Itinerary,
           Leased, Checkpointing, Typed, TeamTypeOK, Subagent, Working, Preparable, SetLane,
           At
  <2> QED  BY <1>1, <2>1 DEF TeamInv, Jobs, JobOK
<1>3. Typed'
  BY TeamAssumption
     DEF teamVars, subagentVars, parentVars, leaseVars, TeamInv, Typed, TeamTypeOK,
         BoundLanes, Bound, TeamStages, TeamEnded, Statuses, Final, Live, LeaseName, Spending,
         Subagent, Permits, Working, Preparable, SetLane, At
<1>4. Leased'
  BY <1>1 DEF TeamInv, Leased, Itinerary, Checkpointing, Operating, Reviewing
<1>5. Permitted'
  BY <1>1 DEF TeamInv, Permitted, TeamEnded, TeamStages
<1>6. Recorded'
  BY <1>1, TeamAssumption
     DEF leaseVars, TeamInv, Recorded, Fields, Working, Preparable, SetLane, At
<1>7. BoundOnce'
  BY <1>1 DEF TeamInv, BoundOnce, BoundLanes, Checkpointing, Leased, Operating
<1>8. PreparedOnce'
  <2>1. /\ Bound(l) \in Subagent /\ l \in BoundLanes /\ status[Bound(l)] = "admitted"
        /\ Bound(l)' = Bound(l)
    BY BoundSubagent DEF TeamInv, BoundOnce, Working, At, Preparable, Bound
  <2>2. \A s \in Subagent : status'[s] = IF s = Bound(l) THEN "running" ELSE status[s]
    BY DEF TeamInv, Typed
  <2>3. sent[Bound(l)] = 0 /\ \A q \in Process : job[q].lane[l] # "prepared"
    BY <2>1 DEF TeamInv, PreparedOnce
  <2>4. \A q \in Process, k \in Lane :
           /\ k # l => job'[q].lane[k] = job[q].lane[k]
           /\ q # p => job'[q].lane[k] = job[q].lane[k]
    BY <1>1 DEF TeamInv, Jobs, JobOK
  <2>5. \A k \in BoundLanes : Bound(k) \in Subagent /\ Bound(k)' = Bound(k)
    BY BoundSubagent DEF TeamInv, Bound
  <2> QED
    BY <2>1, <2>2, <2>3, <2>4, <2>5 DEF TeamInv, PreparedOnce, BoundLanes
<1>9. Reconciled'
  BY <1>1
     DEF leaseVars, TeamInv, Reconciled, Reviews, Reports, Checkpointing, Reviewing,
         Reporting, Reconcilable, AllAre, TeamMembers, Jobs, JobOK, Fields, Working,
         Preparable, SetLane, At
<1>10. MergedWhole'
  BY <1>1
     DEF leaseVars, TeamInv, MergedWhole, AllAre, TeamMembers, BoundLanes, Bound, Reconciled,
         Reviews, JobOK, Fields, Working, Preparable, SetLane, At
<1>11. Settling'
  BY <1>1 DEF TeamInv, Settling, Ending, TeamEnded, Leased, Permitted
<1> QED  BY <1>2, <1>3, <1>4, <1>5, <1>6, <1>7, <1>8, <1>9, <1>10, <1>11 DEF TeamInv

LEMMA LaneMoves ==
    ASSUME TeamInv, NEW p \in Process,
           NEW l \in Lane,
           NEW step \in {"bad", "sent"},
           job[p].at = "work",
           SetLane(p, l, step),
           UNCHANGED <<teamStage, teamRev, teamSnap, teamMode, cancelMark, holder, execution,
                       attempt, status, worker, sent, stray, receipt, parentRev, evidence,
                       spent>>
    PROVE  TeamInv'
<1>1. /\ job' = [q \in Process |-> job'[q]]
      /\ \A q \in Process : q # p => job'[q] = job[q]
      /\ DOMAIN job'[p] = Fields
      /\ job'[p].at = job[p].at
      /\ job'[p].stage = job[p].stage
      /\ job'[p].goal = job[p].goal
      /\ job'[p].then = job[p].then
      /\ job'[p].seen = job[p].seen
      /\ job'[p].todo = job[p].todo
      /\ job'[p].failed = job[p].failed
      /\ job'[p].lane = [job[p].lane EXCEPT ![l] = step]
  BY DEF TeamInv, Jobs, JobOK, Fields, SetLane
<1>2. Jobs'
  <2>1. JobOK(p)'
    BY ZenonT(60), <1>1, TeamAssumption
       DEF TeamInv, Jobs, JobOK, Fields, Steps, LaneSteps, TeamStages, TeamEnded, Itinerary,
           Leased, Checkpointing, Typed, TeamTypeOK, Subagent, SetLane
  <2> QED  BY <1>1, <2>1 DEF TeamInv, Jobs, JobOK
<1>3. Typed'
  BY DEF TeamInv, Typed, TeamTypeOK, BoundLanes, Bound, TeamStages
<1>4. Leased'
  BY <1>1 DEF TeamInv, Leased, Itinerary, Checkpointing
<1>5. Permitted'
  BY <1>1 DEF TeamInv, Permitted
<1>6. Recorded'
  BY <1>1 DEF TeamInv, Recorded, Checkpointing, Operating
<1>7. BoundOnce'
  BY <1>1 DEF TeamInv, BoundOnce, BoundLanes, Checkpointing
<1>8. PreparedOnce'
  BY <1>1 DEF TeamInv, PreparedOnce, BoundOnce, Bound, Jobs, JobOK, Fields, SetLane
<1>9. Reconciled'
  BY <1>1
     DEF leaseVars, TeamInv, Reconciled, Reviews, Reports, Checkpointing, Reviewing,
         Reporting, Reconcilable, AllAre, TeamMembers, BoundLanes, Bound, Leased, Itinerary
<1>10. MergedWhole'
  BY <1>1 DEF TeamInv, MergedWhole, AllAre, TeamMembers, BoundLanes, Bound
<1>11. Settling'
  BY <1>1 DEF TeamInv, Settling, Ending, TeamEnded
<1> QED  BY <1>2, <1>3, <1>4, <1>5, <1>6, <1>7, <1>8, <1>9, <1>10, <1>11 DEF TeamInv

LEMMA Sends ==
    ASSUME TeamInv, NEW p \in Process,
           NEW l \in Lane,
           Working(p, l, "prepared"),
           sent' = [sent EXCEPT ![Bound(l)] = @ + 1],
           SetLane(p, l, "sent"),
           UNCHANGED <<teamStage, teamRev, teamSnap, teamMode, cancelMark, holder, execution,
                       attempt, status, worker, stray, receipt, parentRev, evidence, spent>>
    PROVE  TeamInv'
<1>1. /\ job' = [q \in Process |-> job'[q]]
      /\ \A q \in Process : q # p => job'[q] = job[q]
      /\ DOMAIN job'[p] = Fields
      /\ job'[p].at = job[p].at
      /\ job'[p].stage = job[p].stage
      /\ job'[p].goal = job[p].goal
      /\ job'[p].then = job[p].then
      /\ job'[p].seen = job[p].seen
      /\ job'[p].todo = job[p].todo
      /\ job'[p].failed = job[p].failed
      /\ job'[p].lane = [job[p].lane EXCEPT ![l] = "sent"]
  BY DEF TeamInv, Jobs, JobOK, Fields, SetLane, Working, At
<1>2. Jobs'
  <2>1. JobOK(p)'
    BY ZenonT(60), <1>1, TeamAssumption
       DEF TeamInv, Jobs, JobOK, Fields, Steps, LaneSteps, TeamStages, TeamEnded, Itinerary,
           Leased, Checkpointing, Typed, TeamTypeOK, Subagent, Working, SetLane, At
  <2> QED  BY <1>1, <2>1 DEF TeamInv, Jobs, JobOK
<1>3. Typed'
  <2>0. Bound(l) \in Subagent /\ sent[Bound(l)] + 1 \in Nat
    BY BoundSubagent DEF TeamInv, BoundOnce, Working, At, Typed, TeamTypeOK
  <2>1. sent' \in [Subagent -> Nat]
    BY <2>0 DEF TeamInv, Typed, TeamTypeOK
  <2> QED  BY <2>1 DEF TeamInv, Typed, TeamTypeOK, BoundLanes, Bound
<1>4. Leased'
  BY <1>1 DEF TeamInv, Leased, Itinerary, Checkpointing, Operating, Reviewing
<1>5. Permitted'
  BY <1>1 DEF TeamInv, Permitted, TeamEnded, TeamStages
<1>6. Recorded'
  BY <1>1 DEF TeamInv, Recorded, Leased, Itinerary, Checkpointing, Operating
<1>7. BoundOnce'
  BY <1>1 DEF TeamInv, BoundOnce, BoundLanes, Checkpointing
<1>8. PreparedOnce'
  BY <1>1 DEF TeamInv, PreparedOnce, BoundOnce, Bound, Jobs, JobOK, Fields, Working, SetLane, At
<1>9. Reconciled'
  BY <1>1
     DEF leaseVars, TeamInv, Reconciled, Reviews, Reports, Checkpointing, Reviewing,
         Reporting, Reconcilable, AllAre, TeamMembers, BoundLanes, Bound, Leased, Itinerary,
         Operating, Typed, TeamTypeOK
<1>10. MergedWhole'
  BY <1>1 DEF TeamInv, MergedWhole, AllAre, TeamMembers, BoundLanes, Bound, Reconciled, Reviews
<1>11. Settling'
  BY <1>1 DEF TeamInv, Settling, Ending, TeamEnded, Leased, Permitted
<1> QED  BY <1>2, <1>3, <1>4, <1>5, <1>6, <1>7, <1>8, <1>9, <1>10, <1>11 DEF TeamInv

LEMMA GivesUp ==
    ASSUME TeamInv, NEW p \in Process,
           job[p].at = "work",
           Set(p, [at |-> "rollback"]),
           UNCHANGED <<teamStage, teamRev, teamSnap, teamMode, cancelMark, holder, execution,
                       attempt, status, worker, sent, stray, receipt, parentRev, evidence,
                       spent>>
    PROVE  TeamInv'
<1>1. /\ job' = [q \in Process |-> job'[q]]
      /\ \A q \in Process : q # p => job'[q] = job[q]
      /\ DOMAIN job'[p] = Fields
      /\ job'[p].at = "rollback"
      /\ job'[p].stage = job[p].stage
      /\ job'[p].goal = job[p].goal
      /\ job'[p].then = job[p].then
      /\ job'[p].seen = job[p].seen
      /\ job'[p].todo = job[p].todo
      /\ job'[p].lane = job[p].lane
      /\ job'[p].failed = job[p].failed
  BY DEF TeamInv, Jobs, JobOK, Fields, Set
<1>2. Jobs'
  <2>1. JobOK(p)'
    BY <1>1 DEF TeamInv, Jobs, JobOK, Fields, Steps, LaneSteps
  <2> QED  BY <1>1, <2>1 DEF TeamInv, Jobs, JobOK
<1>3. Typed'
  BY DEF TeamInv, Typed, TeamTypeOK, BoundLanes, Bound
<1>4. Leased'
  BY <1>1
     DEF TeamInv, Leased, Itinerary, Checkpointing, Operating, Reviewing, Reporting, LeaseName
<1>5. Permitted'
  BY <1>1 DEF TeamInv, Permitted
<1>6. Recorded'
  BY <1>1 DEF TeamInv, Recorded
<1>7. BoundOnce'
  BY <1>1 DEF TeamInv, BoundOnce, BoundLanes, Checkpointing
<1>8. PreparedOnce'
  BY <1>1, PreparedStays DEF TeamInv, TeamTypeOK
<1>9. Reconciled'
  BY <1>1
     DEF leaseVars, TeamInv, Reconciled, Reviews, Reports, Checkpointing, Reviewing,
         Reporting, Reconcilable, AllAre, TeamMembers, BoundLanes, Bound, Leased, Itinerary
<1>10. MergedWhole'
  BY <1>1 DEF TeamInv, MergedWhole, AllAre, TeamMembers, BoundLanes, Bound
<1>11. Settling'
  BY <1>1 DEF TeamInv, Settling, Ending, TeamEnded
<1> QED  BY <1>2, <1>3, <1>4, <1>5, <1>6, <1>7, <1>8, <1>9, <1>10, <1>11 DEF TeamInv

LEMMA RollsBack ==
    ASSUME TeamInv, NEW p \in Process,
           Rollback(p)
    PROVE  TeamInv'
<1>1. /\ job' = [q \in Process |-> job'[q]]
      /\ \A q \in Process : q # p => job'[q] = job[q]
      /\ job'[p] = Resting
  BY DEF TeamInv, Jobs, JobOK, Fields, End, Rollback, At, Resting, TeamMembers
<1>2. Jobs'
  <2>1. JobOK(p)'
    BY <1>1, TeamAssumption
       DEF TeamInv, Jobs, JobOK, Fields, Steps, LaneSteps, TeamStages, TeamEnded, Itinerary,
           Leased, Checkpointing, Typed, TeamTypeOK, Subagent, Rollback, At, End, Resting,
           TeamMembers
  <2> QED  BY <1>1, <2>1 DEF TeamInv, Jobs, JobOK
<1>3. Typed'
  BY TeamAssumption
     DEF teamVars, subagentVars, parentVars, leaseVars, TeamInv, Typed, TeamTypeOK,
         BoundLanes, Bound, TeamStages, TeamEnded, Statuses, Final, Live, LeaseName, Spending,
         Subagent, Permits, Rollback, At, End, Resting, TeamMembers
<1>4. Leased'
  BY <1>1
     DEF parentVars, leaseVars, TeamInv, Leased, Itinerary, Checkpointing, Operating,
         Reviewing, Reporting, LeaseName, Typed, TeamTypeOK, Jobs, JobOK, Fields, Rollback,
         At, End, Resting, TeamMembers
<1>5. Permitted'
  BY <1>1
     DEF teamVars, subagentVars, parentVars, leaseVars, TeamInv, Permitted, Checkpointing,
         Permits, TeamEnded, TeamStages, JobOK, Fields, Rollback, At, End, Resting,
         TeamMembers
<1>6. Recorded'
  BY <1>1
     DEF leaseVars, TeamInv, Recorded, Leased, Itinerary, Checkpointing, Operating, Subagent,
         Statuses, Live, Final, Typed, TeamTypeOK, Jobs, JobOK, Fields, Rollback, At, End,
         Resting, TeamMembers
<1>7. BoundOnce'
  BY <1>1
     DEF TeamInv, BoundOnce, BoundLanes, Checkpointing, Leased, Operating, Fields, Rollback,
         At, End, Resting
<1>8. PreparedOnce'
  BY <1>1
     DEF TeamInv, PreparedOnce, BoundOnce, Bound, BoundLanes, Subagent, Typed, TeamTypeOK,
         Jobs, JobOK, Fields, Rollback, At, End, Resting, TeamMembers
<1>9. Reconciled'
  <2>1. \A s \in Subagent : status[s] = "completed" => status'[s] = "completed"
    BY DEF TeamInv, Typed, Live, Rollback, teamVars, parentVars
  <2>2. /\ BoundLanes = Lane => TeamMembers' = TeamMembers
        /\ Reconcilable => Reconcilable'
    BY <2>1, <1>3, ResultsStay DEF TeamInv, TeamTypeOK, Rollback, teamVars, parentVars
  <2>3. \A q \in Process : (Reviews(q)' => Reviews(q)) /\ (Reports(q)' => Reports(q))
    BY <1>1 DEF Reviews, Reports, Checkpointing, Reviewing, Reporting, Resting
  <2> QED  BY <2>2, <2>3
              DEF TeamInv, Reconciled, Reconcilable, AllAre, Reports, Reviews, Reporting,
               Checkpointing, Rollback, teamVars, parentVars
<1>10. MergedWhole'
  <2>1. \A s \in Subagent : status[s] = "completed" => status'[s] = "completed"
    BY DEF TeamInv, Typed, Live, Rollback, teamVars, parentVars
  <2> QED  BY <2>1, <1>3, ResultsStay
              DEF TeamInv, Typed, TeamTypeOK, Rollback, teamVars, parentVars
<1>11. Settling'
  BY <1>1, TeamAssumption
     DEF teamVars, subagentVars, parentVars, leaseVars, TeamInv, Settling, Ending, TeamEnded,
         Leased, Permitted, Permits, Checkpointing, Rollback, At, End, Resting, TeamMembers
<1> QED  BY <1>2, <1>3, <1>4, <1>5, <1>6, <1>7, <1>8, <1>9, <1>10, <1>11 DEF TeamInv

LEMMA CompletesWorker ==
    ASSUME TeamInv, NEW p \in Process,
           NEW l \in Lane,
           CompleteWorker(p, l)
    PROVE  TeamInv'
<1>1. /\ job' = [q \in Process |-> job'[q]]
      /\ \A q \in Process : q # p => job'[q] = job[q]
      /\ DOMAIN job'[p] = Fields
      /\ job'[p].at = job[p].at
      /\ job'[p].stage = job[p].stage
      /\ job'[p].goal = job[p].goal
      /\ job'[p].then = job[p].then
      /\ job'[p].seen = job[p].seen
      /\ job'[p].todo = job[p].todo
      /\ job'[p].failed = job[p].failed
      /\ job'[p].lane = [job[p].lane EXCEPT ![l] = "ok"]
  BY DEF TeamInv, Jobs, JobOK, Fields, SetLane, CompleteWorker, Finished, Working, At
<1>2. Jobs'
  <2>1. JobOK(p)'
    BY ZenonT(60), <1>1, TeamAssumption
       DEF TeamInv, Jobs, JobOK, Fields, Steps, LaneSteps, TeamStages, TeamEnded, Itinerary,
           Leased, Checkpointing, Typed, TeamTypeOK, Subagent, CompleteWorker, Finished,
           Working, SetLane, At
  <2> QED  BY <1>1, <2>1 DEF TeamInv, Jobs, JobOK
<1>3. Typed'
  <2>1. Bound(l) \in Subagent
    BY BoundSubagent DEF TeamInv, BoundOnce, CompleteWorker, Finished, Working, At
  <2>2. stray' \subseteq Subagent /\ execution' \in [Subagent -> Process \cup {Nobody}]
    BY <2>1 DEF TeamInv, Typed, TeamTypeOK, CompleteWorker, Finished
  <2>3. status' = [status EXCEPT ![Bound(l)] = "completed"]
    BY DEF CompleteWorker
  <2>4. status' \in [Subagent -> Statuses] /\ \A s \in Subagent : status[s] # "none" => status'[s] # "none"
    BY <2>3 DEF TeamInv, Typed, Statuses, Final
  <2>5. \A k \in BoundLanes : Bound(k) \in Subagent /\ worker[k] \in Attempt /\ status'[Bound(k)] # "none"
    BY <2>4, BoundSubagent DEF TeamInv, Typed, TeamTypeOK
  <2> QED
    BY <2>2, <2>4, <2>5
       DEF TeamInv, Typed, TeamTypeOK, BoundLanes, Bound, CompleteWorker, Finished, Working, At,
           teamVars, parentVars, Statuses, Live, Final
<1>4. Leased'
  BY <1>1
     DEF parentVars, leaseVars, TeamInv, Leased, Itinerary, Checkpointing, Operating,
         Reviewing, JobOK, Fields, CompleteWorker, Finished, Working
<1>5. Permitted'
  BY <1>1
     DEF teamVars, subagentVars, parentVars, leaseVars, TeamInv, Permitted, Checkpointing,
         Permits, TeamEnded, TeamStages, JobOK, Fields, CompleteWorker, Finished, Working
<1>6. Recorded'
  BY <1>1
     DEF leaseVars, TeamInv, Recorded, Fields, CompleteWorker, Finished, Working, SetLane, At
<1>7. BoundOnce'
  BY <1>1
     DEF TeamInv, BoundOnce, BoundLanes, Checkpointing, Leased, Operating, Fields,
         CompleteWorker, Finished, Working, SetLane
<1>8. PreparedOnce'
  BY <1>1
     DEF TeamInv, PreparedOnce, BoundOnce, Bound, BoundLanes, Subagent, CompleteWorker,
         Finished, Working, SetLane, At
<1>9. Reconciled'
  BY <1>1
     DEF leaseVars, TeamInv, Reconciled, Reviews, Reports, Checkpointing, Reviewing,
         Reporting, Reconcilable, AllAre, TeamMembers, Jobs, JobOK, Fields, CompleteWorker,
         Finished, Working, SetLane
<1>10. MergedWhole'
  BY <1>1
     DEF teamVars, subagentVars, parentVars, leaseVars, TeamInv, MergedWhole, AllAre,
         TeamMembers, BoundLanes, Bound, Reconciled, Reviews, JobOK, Fields, CompleteWorker,
         Finished, Working, SetLane
<1>11. Settling'
  BY <1>1, TeamAssumption
     DEF teamVars, subagentVars, parentVars, leaseVars, TeamInv, Settling, Ending, TeamEnded,
         Leased, Permitted, Permits, Checkpointing, CompleteWorker, Finished, Working,
         SetLane, At
<1> QED  BY <1>2, <1>3, <1>4, <1>5, <1>6, <1>7, <1>8, <1>9, <1>10, <1>11 DEF TeamInv

LEMMA FailsWorker ==
    ASSUME TeamInv, NEW p \in Process,
           NEW l \in Lane,
           FailWorker(p, l)
    PROVE  TeamInv'
<1>1. /\ job' = [q \in Process |-> job'[q]]
      /\ \A q \in Process : q # p => job'[q] = job[q]
      /\ DOMAIN job'[p] = Fields
      /\ job'[p].at = job[p].at
      /\ job'[p].stage = job[p].stage
      /\ job'[p].goal = job[p].goal
      /\ job'[p].then = job[p].then
      /\ job'[p].seen = job[p].seen
      /\ job'[p].todo = job[p].todo
      /\ job'[p].failed = job[p].failed
      /\ job'[p].lane = [job[p].lane EXCEPT ![l] = "bad"]
  BY DEF TeamInv, Jobs, JobOK, Fields, SetLane, FailWorker, Finished, Working, At
<1>2. Jobs'
  <2>1. JobOK(p)'
    BY ZenonT(60), <1>1, TeamAssumption
       DEF TeamInv, Jobs, JobOK, Fields, Steps, LaneSteps, TeamStages, TeamEnded, Itinerary,
           Leased, Checkpointing, Typed, TeamTypeOK, Subagent, FailWorker, Finished, Working,
           SetLane, At
  <2> QED  BY <1>1, <2>1 DEF TeamInv, Jobs, JobOK
<1>3. Typed'
  BY TeamAssumption
     DEF teamVars, subagentVars, parentVars, leaseVars, TeamInv, Typed, TeamTypeOK,
         BoundLanes, Bound, TeamStages, TeamEnded, Statuses, Final, Live, LeaseName, Spending,
         Subagent, Permits, FailWorker, Finished, Working, SetLane, At
<1>4. Leased'
  BY <1>1
     DEF parentVars, leaseVars, TeamInv, Leased, Itinerary, Checkpointing, Operating,
         Reviewing, JobOK, Fields, FailWorker, Finished, Working
<1>5. Permitted'
  BY <1>1
     DEF teamVars, subagentVars, parentVars, leaseVars, TeamInv, Permitted, Checkpointing,
         Permits, TeamEnded, TeamStages, JobOK, Fields, FailWorker, Finished, Working
<1>6. Recorded'
  BY <1>1 DEF leaseVars, TeamInv, Recorded, Fields, FailWorker, Finished, Working, SetLane, At
<1>7. BoundOnce'
  BY <1>1
     DEF TeamInv, BoundOnce, BoundLanes, Checkpointing, Leased, Operating, Fields, FailWorker,
         Finished, Working, SetLane
<1>8. PreparedOnce'
  BY <1>1, TeamAssumption, PreparedStays
     DEF TeamInv, Typed, TeamTypeOK, Jobs, JobOK, Fields, Live, Final, Statuses, FailWorker,
         Finished
<1>9. Reconciled'
  BY <1>1
     DEF teamVars, subagentVars, parentVars, leaseVars, TeamInv, Reconciled, Reviews, Reports,
         Checkpointing, Reviewing, Reporting, Reconcilable, AllAre, TeamMembers, BoundLanes,
         Bound, Leased, Itinerary, Operating, Typed, TeamTypeOK, Jobs, JobOK, Fields,
         FailWorker, Finished, Working, SetLane
<1>10. MergedWhole'
  BY <1>1
     DEF teamVars, subagentVars, parentVars, leaseVars, TeamInv, MergedWhole, AllAre,
         TeamMembers, BoundLanes, Bound, Reconciled, Reviews, JobOK, Fields, FailWorker,
         Finished, Working, SetLane
<1>11. Settling'
  BY <1>1, TeamAssumption
     DEF teamVars, subagentVars, parentVars, leaseVars, TeamInv, Settling, Ending, TeamEnded,
         Leased, Permitted, Permits, Checkpointing, FailWorker, Finished, Working, SetLane, At
<1> QED  BY <1>2, <1>3, <1>4, <1>5, <1>6, <1>7, <1>8, <1>9, <1>10, <1>11 DEF TeamInv

LEMMA Collects ==
    ASSUME TeamInv, NEW p \in Process,
           NEW l \in job[p].todo,
           NEW bad \in BOOLEAN,
           job[p].at = "work",
           receipt' \in {receipt, receipt \cup {l}},
           Set(p, [todo |-> job[p].todo \ {l}, failed |-> bad]),
           UNCHANGED <<teamStage, teamRev, teamSnap, teamMode, cancelMark, holder, execution,
                       attempt, status, worker, sent, stray, parentRev, evidence, spent>>
    PROVE  TeamInv'
<1>1. /\ job' = [q \in Process |-> job'[q]]
      /\ \A q \in Process : q # p => job'[q] = job[q]
      /\ DOMAIN job'[p] = Fields
      /\ job'[p].at = job[p].at
      /\ job'[p].stage = job[p].stage
      /\ job'[p].goal = job[p].goal
      /\ job'[p].then = job[p].then
      /\ job'[p].seen = job[p].seen
      /\ job'[p].todo = job[p].todo \ {l}
      /\ job'[p].lane = job[p].lane
      /\ job'[p].failed = bad
  BY DEF TeamInv, Jobs, JobOK, Fields, Set
<1>2. Jobs'
  <2>1. JobOK(p)'
    BY <1>1 DEF TeamInv, Jobs, JobOK
  <2> QED  BY <1>1, <2>1 DEF TeamInv, Jobs, JobOK
<1>3. Typed'
  <2>1. receipt' \subseteq Lane
    BY DEF TeamInv, Typed, TeamTypeOK, Jobs, JobOK
  <2> QED  BY <2>1 DEF TeamInv, Typed, TeamTypeOK, BoundLanes, Bound
<1>4. Leased'
  BY <1>1 DEF TeamInv, Leased, Itinerary, Checkpointing
<1>5. Permitted'
  BY <1>1 DEF TeamInv, Permitted
<1>6. Recorded'
  BY <1>1 DEF TeamInv, Recorded
<1>7. BoundOnce'
  BY <1>1 DEF TeamInv, BoundOnce, BoundLanes, Checkpointing
<1>8. PreparedOnce'
  BY <1>1 DEF TeamInv, PreparedOnce, Bound
<1>9. Reconciled'
  <2>1. \A s \in Subagent : status[s] = "completed" => status'[s] = "completed"
    BY DEF TeamInv, Typed, Live
  <2>2. /\ BoundLanes = Lane => TeamMembers' = TeamMembers
        /\ Reconcilable => Reconcilable'
    BY <2>1, <1>3, ResultsStay DEF TeamInv, Typed, TeamTypeOK, teamVars
  <2>3. \A q \in Process : (Reviews(q)' => Reviews(q)) /\ (Reports(q)' => Reports(q))
    BY <1>1 DEF Reviews, Reports, Checkpointing, Reviewing, Reporting, Resting, teamVars
  <2> QED  BY <2>2, <2>3
              DEF TeamInv, Reconciled, Reconcilable, AllAre, Reports, Reviews, Reporting,
               Checkpointing, teamVars, parentVars
<1>10. MergedWhole'
  <2>1. \A s \in Subagent : status[s] = "completed" => status'[s] = "completed"
    BY DEF TeamInv, Typed, Live, teamVars
  <2> QED  BY <2>1, <1>3, ResultsStay DEF TeamInv, Typed, TeamTypeOK, teamVars
<1>11. Settling'
  BY <1>1 DEF TeamInv, Settling, Ending, TeamEnded
<1> QED  BY <1>2, <1>3, <1>4, <1>5, <1>6, <1>7, <1>8, <1>9, <1>10, <1>11 DEF TeamInv

LEMMA Fails ==
    ASSUME TeamInv, NEW p \in Process,
           job[p].at = "work",
           Advance(p, "failed", "end"),
           UNCHANGED <<teamStage, teamRev, teamSnap, teamMode, cancelMark, holder, execution,
                       attempt, status, worker, sent, stray, receipt, parentRev, evidence,
                       spent>>
    PROVE  TeamInv'
<1>1. /\ job' = [q \in Process |-> job'[q]]
      /\ \A q \in Process : q # p => job'[q] = job[q]
      /\ DOMAIN job'[p] = Fields
      /\ job'[p].at = "load"
      /\ job'[p].stage = job[p].stage
      /\ job'[p].goal = "failed"
      /\ job'[p].then = "end"
      /\ job'[p].seen = job[p].seen
      /\ job'[p].todo = job[p].todo
      /\ job'[p].lane = job[p].lane
      /\ job'[p].failed = job[p].failed
  BY DEF TeamInv, Jobs, JobOK, Fields, Set, Advance
<1>2. Jobs'
  <2>1. JobOK(p)'
    BY <1>1 DEF TeamInv, Jobs, JobOK, Fields, Steps, LaneSteps, TeamStages, TeamEnded
  <2> QED  BY <1>1, <2>1 DEF TeamInv, Jobs, JobOK
<1>3. Typed'
  BY DEF TeamInv, Typed, TeamTypeOK, BoundLanes, Bound, TeamStages
<1>4. Leased'
  BY <1>1
     DEF TeamInv, Leased, Itinerary, Checkpointing, Operating, Reviewing, Reporting, LeaseName
<1>5. Permitted'
  BY <1>1 DEF TeamInv, Permitted
<1>6. Recorded'
  BY <1>1 DEF TeamInv, Recorded, Checkpointing, Operating
<1>7. BoundOnce'
  BY <1>1 DEF TeamInv, BoundOnce, BoundLanes, Checkpointing
<1>8. PreparedOnce'
  BY <1>1 DEF TeamInv, PreparedOnce, BoundOnce, Bound
<1>9. Reconciled'
  BY <1>1
     DEF leaseVars, TeamInv, Reconciled, Reviews, Reports, Checkpointing, Reviewing,
         Reporting, Reconcilable, AllAre, TeamMembers, BoundLanes, Bound, Leased, Itinerary
<1>10. MergedWhole'
  BY <1>1 DEF TeamInv, MergedWhole, AllAre, TeamMembers, BoundLanes, Bound
<1>11. Settling'
  BY <1>1 DEF TeamInv, Settling, Ending, TeamEnded
<1> QED  BY <1>2, <1>3, <1>4, <1>5, <1>6, <1>7, <1>8, <1>9, <1>10, <1>11 DEF TeamInv

(* Reconciliation and cancel. *)
LEMMA Reconciles ==
    ASSUME TeamInv, NEW p \in Process,
           ReconcileTeam(p)
    PROVE  TeamInv'
<1>1. /\ job' = [q \in Process |-> job'[q]]
      /\ \A q \in Process : q # p => job'[q] = job[q]
      /\ DOMAIN job'[p] = Fields
      /\ job'[p].at = "review"
      /\ job'[p].stage = teamStage
      /\ job'[p].goal = job[p].goal
      /\ job'[p].then = job[p].then
      /\ job'[p].seen = job[p].seen
      /\ job'[p].todo = job[p].todo
      /\ job'[p].lane = job[p].lane
      /\ job'[p].failed = job[p].failed
  BY DEF TeamInv, Jobs, JobOK, Fields, Set, ReconcileTeam
<1>2. Jobs'
  <2>1. JobOK(p)'
    BY <1>1
       DEF TeamInv, Jobs, JobOK, Fields, Steps, Checkpointing, Typed, TeamTypeOK, Subagent,
           ReconcileTeam
  <2> QED  BY <1>1, <2>1 DEF TeamInv, Jobs, JobOK
<1>3. Typed'
  BY TeamAssumption
     DEF teamVars, subagentVars, parentVars, leaseVars, TeamInv, Typed, TeamTypeOK,
         BoundLanes, Bound, TeamStages, TeamEnded, Statuses, Final, Live, LeaseName, Spending,
         Subagent, Permits, ReconcileTeam, Start, Spend, Take, Reconcilable
<1>4. Leased'
  BY <1>1, TeamAssumption
     DEF parentVars, leaseVars, TeamInv, Leased, Itinerary, Checkpointing, Operating,
         Reviewing, Reporting, LeaseName, Typed, TeamTypeOK, Jobs, JobOK, Fields,
         ReconcileTeam, Start, Spend, Take, Reconcilable
<1>5. Permitted'
  BY <1>1
     DEF teamVars, subagentVars, parentVars, leaseVars, TeamInv, Permitted, Checkpointing,
         Permits, TeamEnded, TeamStages, JobOK, Fields, ReconcileTeam, Start, Spend
<1>6. Recorded'
  BY <1>1
     DEF teamVars, subagentVars, parentVars, leaseVars, TeamInv, Recorded, Fields,
         ReconcileTeam, Start, Spend, Take, Reconcilable
<1>7. BoundOnce'
  BY <1>1
     DEF teamVars, subagentVars, TeamInv, BoundOnce, BoundLanes, Checkpointing, Leased,
         Operating, Fields, ReconcileTeam, Start, Spend, Take
<1>8. PreparedOnce'
  BY <1>1, TeamAssumption, PreparedStays
     DEF teamVars, subagentVars, TeamInv, Typed, TeamTypeOK, Jobs, Statuses, ReconcileTeam
<1>9. Reconciled'
  BY <1>1
     DEF teamVars, subagentVars, parentVars, leaseVars, TeamInv, Reconciled, Reviews, Reports,
         Checkpointing, Reviewing, Reporting, Reconcilable, AllAre, TeamMembers, BoundLanes,
         Bound, Leased, Itinerary, Operating, Typed, TeamTypeOK, Jobs, JobOK, Fields,
         ReconcileTeam, Start, Spend, Take
<1>10. MergedWhole'
  BY <1>1
     DEF teamVars, subagentVars, parentVars, leaseVars, TeamInv, MergedWhole, AllAre,
         TeamMembers, BoundLanes, Bound, Reconciled, Reviews, JobOK, Fields, ReconcileTeam,
         Start, Spend, Take
<1>11. Settling'
  BY <1>1, TeamAssumption
     DEF teamVars, subagentVars, parentVars, leaseVars, TeamInv, Settling, ReconcileTeam,
         Start, Spend, Take, Reconcilable
<1> QED  BY <1>2, <1>3, <1>4, <1>5, <1>6, <1>7, <1>8, <1>9, <1>10, <1>11 DEF TeamInv

LEMMA PassesOn ==
    ASSUME TeamInv, NEW p \in Process,
           NEW to,
           NEW next,
           Reviews(p),
           job[p].at \in Reviewing \cup Reporting,
           \/ to = "review" /\ next = "verify"
           \/ to = "verify" /\ next = "merge"
           \/ job[p].at \in Reporting /\ <<to, next>> \in {<<"merge", "gate">>, <<"report", "report">>, <<"complete", "end">>},
           Advance(p, to, next),
           UNCHANGED <<teamStage, teamRev, teamSnap, teamMode, cancelMark, holder, execution,
                       attempt, status, worker, sent, stray, receipt, parentRev, evidence,
                       spent>>
    PROVE  TeamInv'
<1>1. /\ job' = [q \in Process |-> job'[q]]
      /\ \A q \in Process : q # p => job'[q] = job[q]
      /\ DOMAIN job'[p] = Fields
      /\ job'[p].at = "load"
      /\ job'[p].stage = job[p].stage
      /\ job'[p].goal = to
      /\ job'[p].then = next
      /\ job'[p].seen = job[p].seen
      /\ job'[p].todo = job[p].todo
      /\ job'[p].lane = job[p].lane
      /\ job'[p].failed = job[p].failed
  BY DEF TeamInv, Jobs, JobOK, Fields, Set, Advance
<1>2. Jobs'
  <2>1. JobOK(p)'
    BY <1>1 DEF TeamInv, Jobs, JobOK, Fields, Steps, LaneSteps, TeamStages, TeamEnded
  <2> QED  BY <1>1, <2>1 DEF TeamInv, Jobs, JobOK
<1>3. Typed'
  BY DEF TeamInv, Typed, TeamTypeOK, BoundLanes, Bound, TeamStages
<1>4. Leased'
  BY <1>1
     DEF TeamInv, Leased, Itinerary, Checkpointing, Operating, Reviewing, Reporting, LeaseName
<1>5. Permitted'
  BY <1>1 DEF TeamInv, Permitted
<1>6. Recorded'
  BY <1>1 DEF TeamInv, Recorded, Checkpointing, Operating
<1>7. BoundOnce'
  BY <1>1 DEF TeamInv, BoundOnce, BoundLanes, Checkpointing
<1>8. PreparedOnce'
  BY <1>1, PreparedStays DEF TeamInv, TeamTypeOK
<1>9. Reconciled'
  BY <1>1
     DEF leaseVars, TeamInv, Reconciled, Reviews, Reports, Checkpointing, Reviewing,
         Reporting, Reconcilable, AllAre, TeamMembers, BoundLanes, Bound, Leased, Itinerary
<1>10. MergedWhole'
  BY <1>1 DEF TeamInv, MergedWhole, AllAre, TeamMembers, BoundLanes, Bound
<1>11. Settling'
  BY <1>1, TeamAssumption, SettlingStays
     DEF teamVars, parentVars, leaseVars, TeamInv, Typed, Spending, Ending, Reviewing,
         Reporting, Jobs, JobOK
<1> QED  BY <1>2, <1>3, <1>4, <1>5, <1>6, <1>7, <1>8, <1>9, <1>10, <1>11 DEF TeamInv

LEMMA PassesBy ==
    ASSUME TeamInv, NEW p \in Process,
           NEW next,
           \/ job[p].at \in Reviewing /\ next \in {"verify", "merge"}
           \/ job[p].at \in Reporting /\ next \in {"gate", "report", "end"},
           Set(p, [at |-> next]),
           UNCHANGED <<teamStage, teamRev, teamSnap, teamMode, cancelMark, holder, execution,
                       attempt, status, worker, sent, stray, receipt, parentRev, evidence,
                       spent>>
    PROVE  TeamInv'
<1>1. /\ job' = [q \in Process |-> job'[q]]
      /\ \A q \in Process : q # p => job'[q] = job[q]
      /\ DOMAIN job'[p] = Fields
      /\ job'[p].at = next
      /\ job'[p].stage = job[p].stage
      /\ job'[p].goal = job[p].goal
      /\ job'[p].then = job[p].then
      /\ job'[p].seen = job[p].seen
      /\ job'[p].todo = job[p].todo
      /\ job'[p].lane = job[p].lane
      /\ job'[p].failed = job[p].failed
  BY DEF TeamInv, Jobs, JobOK, Fields, Set
<1>2. Jobs'
  <2>1. JobOK(p)'
    BY <1>1 DEF TeamInv, Jobs, JobOK, Fields, Steps, LaneSteps
  <2> QED  BY <1>1, <2>1 DEF TeamInv, Jobs, JobOK
<1>3. Typed'
  BY DEF TeamInv, Typed, TeamTypeOK, BoundLanes, Bound
<1>4. Leased'
  BY <1>1
     DEF TeamInv, Leased, Itinerary, Checkpointing, Operating, Reviewing, Reporting, LeaseName
<1>5. Permitted'
  BY <1>1 DEF TeamInv, Permitted
<1>6. Recorded'
  BY <1>1 DEF TeamInv, Recorded
<1>7. BoundOnce'
  BY <1>1 DEF TeamInv, BoundOnce, BoundLanes, Checkpointing
<1>8. PreparedOnce'
  BY SMTT(60), <1>1, TeamAssumption
     DEF TeamInv, PreparedOnce, BoundOnce, Bound, BoundLanes, Subagent, Typed, TeamTypeOK,
         Jobs, JobOK, Fields
<1>9. Reconciled'
  BY <1>1
     DEF leaseVars, TeamInv, Reconciled, Reviews, Reports, Checkpointing, Reviewing,
         Reporting, Reconcilable, AllAre, TeamMembers, BoundLanes, Bound, Leased, Itinerary
<1>10. MergedWhole'
  BY <1>1 DEF TeamInv, MergedWhole, AllAre, TeamMembers, BoundLanes, Bound
<1>11. Settling'
  BY <1>1, TeamAssumption, SettlingStays
     DEF teamVars, parentVars, leaseVars, TeamInv, Typed, Spending, Ending, Reviewing,
         Reporting, Jobs, JobOK
<1> QED  BY <1>2, <1>3, <1>4, <1>5, <1>6, <1>7, <1>8, <1>9, <1>10, <1>11 DEF TeamInv

LEMMA Merges ==
    ASSUME TeamInv, NEW p \in Process,
           job[p].at = "merge",
           evidence' \subseteq Subagent,
           evidence \cup TeamMembers \subseteq evidence',
           parentRev' \in Nat,
           Set(p, [at |-> "merged"]),
           UNCHANGED <<teamStage, teamRev, teamSnap, teamMode, cancelMark, holder, execution,
                       attempt, status, worker, sent, stray, receipt, spent>>
    PROVE  TeamInv'
<1>1. /\ job' = [q \in Process |-> job'[q]]
      /\ \A q \in Process : q # p => job'[q] = job[q]
      /\ DOMAIN job'[p] = Fields
      /\ job'[p].at = "merged"
      /\ job'[p].stage = job[p].stage
      /\ job'[p].goal = job[p].goal
      /\ job'[p].then = job[p].then
      /\ job'[p].seen = job[p].seen
      /\ job'[p].todo = job[p].todo
      /\ job'[p].lane = job[p].lane
      /\ job'[p].failed = job[p].failed
  BY DEF TeamInv, Jobs, JobOK, Fields, Set
<1>2. Jobs'
  <2>1. JobOK(p)'
    BY <1>1 DEF TeamInv, Jobs, JobOK, Fields, Steps, LaneSteps
  <2> QED  BY <1>1, <2>1 DEF TeamInv, Jobs, JobOK
<1>3. Typed'
  BY DEF TeamInv, Typed, TeamTypeOK, BoundLanes, Bound
<1>4. Leased'
  BY <1>1
     DEF TeamInv, Leased, Itinerary, Checkpointing, Operating, Reviewing, Reporting, LeaseName
<1>5. Permitted'
  BY <1>1 DEF TeamInv, Permitted
<1>6. Recorded'
  BY <1>1 DEF TeamInv, Recorded
<1>7. BoundOnce'
  BY <1>1 DEF TeamInv, BoundOnce, BoundLanes, Checkpointing
<1>8. PreparedOnce'
  BY <1>1 DEF TeamInv, PreparedOnce, Bound
<1>9. Reconciled'
  BY <1>1
     DEF leaseVars, TeamInv, Reconciled, Reviews, Reports, Checkpointing, Reviewing,
         Reporting, Reconcilable, AllAre, TeamMembers, BoundLanes, Bound, Leased, Itinerary
<1>10. MergedWhole'
  BY <1>1 DEF TeamInv, MergedWhole, AllAre, TeamMembers, BoundLanes, Bound
<1>11. Settling'
  BY <1>1 DEF TeamInv, Settling, Ending, TeamEnded
<1> QED  BY <1>2, <1>3, <1>4, <1>5, <1>6, <1>7, <1>8, <1>9, <1>10, <1>11 DEF TeamInv

LEMMA Cancels ==
    ASSUME TeamInv, NEW p \in Process,
           CancelTeam(p)
    PROVE  TeamInv'
<1>1. /\ job' = [q \in Process |-> job'[q]]
      /\ \A q \in Process : q # p => job'[q] = job[q]
      /\ DOMAIN job'[p] = Fields
      /\ job'[p].at = "load"
      /\ job'[p].stage = job[p].stage
      /\ job'[p].goal = "cancelled"
      /\ job'[p].then = "end"
      /\ job'[p].seen = job[p].seen
      /\ job'[p].todo = job[p].todo
      /\ job'[p].lane = job[p].lane
      /\ job'[p].failed = job[p].failed
  BY DEF TeamInv, Jobs, JobOK, Fields, Set, CancelTeam, Start, Spend, Take, Advance
<1>2. Jobs'
  <2>1. JobOK(p)'
    BY <1>1 DEF TeamInv, Jobs, JobOK, Fields, Steps, LaneSteps, TeamStages, TeamEnded
  <2> QED  BY <1>1, <2>1 DEF TeamInv, Jobs, JobOK
<1>3. Typed'
  BY TeamAssumption
     DEF teamVars, subagentVars, parentVars, leaseVars, TeamInv, Typed, TeamTypeOK,
         BoundLanes, Bound, TeamStages, TeamEnded, Statuses, Final, Live, LeaseName, Spending,
         Subagent, Permits, CancelTeam, Start, Spend, Take, Advance
<1>4. Leased'
  BY <1>1, TeamAssumption
     DEF parentVars, leaseVars, TeamInv, Leased, Itinerary, Checkpointing, Operating,
         Reviewing, Reporting, LeaseName, Typed, TeamTypeOK, Jobs, JobOK, Fields, CancelTeam,
         Start, Spend, Take, Advance
<1>5. Permitted'
  BY <1>1
     DEF parentVars, leaseVars, TeamInv, Permitted, Checkpointing, Permits, TeamEnded,
         TeamStages, JobOK, Fields, CancelTeam, Start, Spend
<1>6. Recorded'
  BY <1>1
     DEF teamVars, subagentVars, parentVars, leaseVars, TeamInv, Recorded, Fields, CancelTeam,
         Start, Spend, Take, Advance
<1>7. BoundOnce'
  BY <1>1
     DEF teamVars, subagentVars, TeamInv, BoundOnce, BoundLanes, Checkpointing, Leased,
         Operating, Fields, CancelTeam, Start, Spend, Take
<1>8. PreparedOnce'
  BY <1>1, TeamAssumption, PreparedStays
     DEF teamVars, subagentVars, TeamInv, Typed, TeamTypeOK, Jobs, Statuses, CancelTeam
<1>9. Reconciled'
  BY <1>1
     DEF teamVars, subagentVars, parentVars, leaseVars, TeamInv, Reconciled, Reviews, Reports,
         Checkpointing, Reviewing, Reporting, Reconcilable, AllAre, TeamMembers, BoundLanes,
         Bound, Leased, Itinerary, Operating, Typed, TeamTypeOK, Jobs, JobOK, Fields,
         CancelTeam, Start, Spend, Take
<1>10. MergedWhole'
  BY <1>1
     DEF teamVars, subagentVars, parentVars, leaseVars, TeamInv, MergedWhole, AllAre,
         TeamMembers, BoundLanes, Bound, Reconciled, Reviews, JobOK, Fields, CancelTeam,
         Start, Spend, Take
<1>11. Settling'
  BY <1>1, TeamAssumption
     DEF leaseVars, TeamInv, Settling, Ending, TeamEnded, Leased, Permitted, Permits,
         Checkpointing, CancelTeam, Start, Spend, Take, Advance
<1> QED  BY <1>2, <1>3, <1>4, <1>5, <1>6, <1>7, <1>8, <1>9, <1>10, <1>11 DEF TeamInv

(* What may happen at any time, by others or by the command that clears the records. *)
LEMMA RecordEnds ==
    ASSUME TeamInv, NEW s \in Living,
           NEW end \in {"cancelled", "failed"},
           status' = [status EXCEPT ![s] = end],
           spent' \in [Spending -> Nat],
           spent'["stop"] = spent["stop"],
           job' = job,
           UNCHANGED <<teamStage, teamRev, teamSnap, teamMode, cancelMark, holder, execution,
                       attempt, worker, sent, stray, receipt, parentRev, evidence>>
    PROVE  TeamInv'
<1>2. Jobs'
  BY DEF TeamInv, Jobs, JobOK, Living
<1>3. Typed'
  BY TeamAssumption
     DEF TeamInv, Typed, TeamTypeOK, BoundLanes, Bound, TeamStages, TeamEnded, Statuses,
         Final, Live, LeaseName, Spending, Subagent, Permits, Living
<1>4. Leased'
  BY DEF TeamInv, Leased, Itinerary, Checkpointing
<1>5. Permitted'
  BY DEF TeamInv, Permitted
<1>6. Recorded'
  BY DEF TeamInv, Recorded, Leased, Itinerary, Live, Final, Typed, TeamTypeOK, Jobs, JobOK,
         Fields, Living
<1>7. BoundOnce'
  BY DEF TeamInv, BoundOnce, BoundLanes, Checkpointing
<1>8. PreparedOnce'
  BY DEF TeamInv, PreparedOnce, BoundOnce, Bound
<1>9. Reconciled'
  <2>1. \A r \in Subagent : status[r] = "completed" => status'[r] = "completed"
    BY DEF TeamInv, Typed, Live, Living, teamVars, parentVars
  <2>2. /\ BoundLanes = Lane => TeamMembers' = TeamMembers
        /\ Reconcilable => Reconcilable'
    BY <2>1, <1>3, ResultsStay DEF TeamInv
  <2>3. \A q \in Process : (Reviews(q)' => Reviews(q)) /\ (Reports(q)' => Reports(q))
    BY DEF Reviews, Reports, Checkpointing
  <2> QED  BY <2>2, <2>3
              DEF TeamInv, Reconciled, Reconcilable, AllAre, Reports, Reviews, Reporting,
               Checkpointing, Living, teamVars, parentVars
<1>10. MergedWhole'
  <2>1. \A r \in Subagent : status[r] = "completed" => status'[r] = "completed"
    BY DEF TeamInv, Typed, Live, Living, teamVars, parentVars
  <2> QED  BY <2>1, <1>3, ResultsStay
              DEF TeamInv, Typed, TeamTypeOK, Living, teamVars, parentVars
<1>11. Settling'
  BY DEF TeamInv, Settling, Ending, TeamEnded
<1> QED  BY <1>2, <1>3, <1>4, <1>5, <1>6, <1>7, <1>8, <1>9, <1>10, <1>11 DEF TeamInv

LEMMA ParentMoved ==
    ASSUME TeamInv, ParentMoves \/ LaunchMerges
    PROVE  TeamInv'
<1>2. Jobs'
  BY DEF TeamInv, Jobs, JobOK, ParentMoves, LaunchMerges, Spend
<1>3. Typed'
  <2>1. /\ parentRev' \in Nat /\ evidence' \subseteq Subagent
        /\ spent' \in [Spending -> Nat]
    BY DEF TeamInv, Typed, TeamTypeOK, ParentMoves, LaunchMerges, Spend, parentVars
  <2> QED
    BY <2>1
       DEF TeamInv, Typed, TeamTypeOK, BoundLanes, Bound, ParentMoves, LaunchMerges, teamVars,
           leaseVars, subagentVars
<1>4. Leased'
  BY DEF parentVars, leaseVars, TeamInv, Leased, Itinerary, Checkpointing, Operating,
         Reviewing, JobOK, Fields, ParentMoves, LaunchMerges, Spend
<1>5. Permitted'
  BY DEF teamVars, subagentVars, TeamInv, Permitted, Checkpointing, Permits, TeamEnded,
         TeamStages, JobOK, Fields, ParentMoves, LaunchMerges, Spend
<1>6. Recorded'
  BY DEF teamVars, subagentVars, parentVars, leaseVars, TeamInv, Recorded, Leased, Itinerary,
         Checkpointing, Operating, TeamTypeOK, Jobs, JobOK, Fields, ParentMoves, LaunchMerges,
         Spend
<1>7. BoundOnce'
  BY TeamAssumption
     DEF teamVars, subagentVars, TeamInv, BoundOnce, BoundLanes, Checkpointing, Leased,
         Operating, Fields, ParentMoves, LaunchMerges, Spend
<1>8. PreparedOnce'
  BY DEF teamVars, subagentVars, parentVars, leaseVars, TeamInv, PreparedOnce, BoundOnce,
         Bound, Jobs, JobOK, Fields, ParentMoves, LaunchMerges, Spend
<1>9. Reconciled'
  BY TeamAssumption
     DEF teamVars, subagentVars, parentVars, leaseVars, TeamInv, Reconciled, Reviews, Reports,
         Checkpointing, Reviewing, Reporting, Reconcilable, AllAre, TeamMembers, BoundLanes,
         Bound, Leased, Itinerary, Operating, Typed, TeamTypeOK, Jobs, JobOK, Fields,
         ParentMoves, LaunchMerges, Spend
<1>10. MergedWhole'
  BY TeamAssumption
     DEF teamVars, subagentVars, parentVars, leaseVars, TeamInv, MergedWhole, AllAre,
         TeamMembers, BoundLanes, Bound, Reconciled, Reviews, JobOK, Fields, ParentMoves,
         LaunchMerges, Spend
<1>11. Settling'
  <2>1. spent'["stop"] = spent["stop"] /\ job' = job /\ UNCHANGED teamVars
    BY DEF TeamInv, Typed, ParentMoves, LaunchMerges, Spend, Spending
  <2>2. \A q \in Process : Ending(q) => Ending(q)'
    BY <2>1 DEF Ending, teamVars
  <2> QED  BY <2>1, <2>2 DEF TeamInv, Settling, teamVars
<1> QED  BY <1>2, <1>3, <1>4, <1>5, <1>6, <1>7, <1>8, <1>9, <1>10, <1>11 DEF TeamInv

(* Every step of a checkpoint. *)
LEMMA CheckpointSteps ==
    ASSUME TeamInv, NEW p \in Process, Checkpoint(p)
    PROVE  TeamInv'
<1>1. CASE LoadTeam(p)
  <2>1. CASE teamStage = job[p].goal /\ Set(p, [at |-> job[p].then, stage |-> teamStage])
             /\ UNCHANGED leaseVars
    BY <1>1, <2>1, Arrives DEF LoadTeam, At, teamVars, subagentVars, parentVars, leaseVars
  <2>2. CASE Permits(teamStage, job[p].goal) /\ Set(p, [at |-> "snapshot", seen |-> teamRev])
             /\ UNCHANGED leaseVars
    BY <1>1, <2>2, Intends DEF LoadTeam, At, teamVars, subagentVars, parentVars, leaseVars
  <2>3. CASE ~Permits(teamStage, job[p].goal) /\ End(p)
    <3>1. ~(cancelMark /\ Ending(p) /\ teamStage \notin TeamEnded)
      BY <1>1, <2>3 DEF TeamInv, Settling, Permitted, LoadTeam, At, Ending, Permits
    <3> QED
      BY <1>1, <2>3, <3>1, CommandEnds
         DEF TeamInv, Typed, Spending, LoadTeam, At, teamVars, subagentVars, parentVars
  <2> QED  BY <1>1, <2>1, <2>2, <2>3 DEF LoadTeam
<1>2. CASE InstallSnapshot(p)
  <2>1. CASE CanSnapshot(p) /\ teamSnap' = teamRev + 1 /\ Take(p, "state")
             /\ Set(p, [at |-> "replace"]) /\ UNCHANGED execution
    BY <1>2, <2>1, Snapshots DEF InstallSnapshot, At, subagentVars, parentVars
  <2>2. CASE ~CanSnapshot(p) /\ End(p) /\ UNCHANGED teamSnap
    <3>1. ASSUME cancelMark, Ending(p), teamStage \notin TeamEnded, spent["stop"] = 0
          PROVE  \E q \in Process : q # p /\ Ending(q)
      <4>1. job[p].at = "snapshot" /\ job[p].goal = "cancelled" /\ job[p].seen = teamRev
        BY <1>2, <3>1 DEF InstallSnapshot, At, Ending
      <4>2. PICK q \in Process : job[q].at = "replace"
        BY ZenonT(60), <2>2, <3>1, <4>1
           DEF CanSnapshot, TeamInv, Settling, Leased, Typed, TeamTypeOK, LeaseName
      <4>3. q # p /\ holder["operation"] = p
        BY <4>1, <4>2 DEF TeamInv, Leased, Checkpointing
      <4>4. job[q].goal \in {"plan", "failed"} /\ Permits(teamStage, job[q].goal)
        BY <4>2, <4>3 DEF TeamInv, Leased, Permitted, Checkpointing
      <4>5. teamStage # "none"
        BY <3>1 DEF TeamInv, Settling, Permitted
      <4>6. job[q].goal = "failed"
        BY <4>4, <4>5 DEF Permits
      <4> QED  BY <4>2, <4>3, <4>6 DEF Ending
    <3>2. spent["stop"] \in Nat /\ spent' = spent
      BY <1>2 DEF TeamInv, Typed, Spending, InstallSnapshot, At
    <3>3. spent["stop"] = 0 \/ spent'["stop"] > 0
      BY <3>2
    <3>4. UNCHANGED <<teamVars, subagentVars, parentVars>>
      BY <1>2, <2>2 DEF InstallSnapshot, teamVars
    <3> QED
      BY <1>2, <2>2, <3>1, <3>2, <3>3, <3>4, CommandEnds
         DEF TeamInv, Typed, InstallSnapshot, At, teamVars, subagentVars, parentVars
  <2> QED  BY <1>2, <2>1, <2>2 DEF InstallSnapshot
<1>3. CASE ReplaceTeam(p)
  BY <1>3, Replaces
<1>4. CASE Done(p)
  BY <1>4, CommandEnds
     DEF TeamInv, Typed, Spending, Done, At, Ending, teamVars, subagentVars, parentVars
<1> QED  BY <1>1, <1>2, <1>3, <1>4 DEF Checkpoint

(* A command that returns on an error at a step that ends no team. *)
LEMMA Returns ==
    ASSUME TeamInv, NEW p \in Process, End(p),
           job[p].at \in {"clear", "admit", "work", "verify", "merge"},
           UNCHANGED <<teamVars, subagentVars, parentVars, spent>>
    PROVE  TeamInv'
BY CommandEnds DEF TeamInv, Typed, Spending, Ending, teamVars, subagentVars, parentVars

(* Every step of an execution until its workers run. *)
LEMMA AdmissionSteps ==
    ASSUME TeamInv, NEW p \in Process, Admission(p)
    PROVE  TeamInv'
<1>1. CASE Recover(p)
  <2>1. CASE NoneAdmitted(p) /\ Set(p, [at |-> "clear", todo |-> Living, then |-> "admit"])
             /\ UNCHANGED holder
    BY <1>1, <2>1, AdmitsNew DEF Recover, At, teamVars, subagentVars, parentVars
  <2>2. CASE AllAre("admitted") /\ Advance(p, "execute", "run") /\ UNCHANGED holder
    BY <1>1, <2>2, MovesToExecute DEF Recover, At, AllAre, teamVars, subagentVars, parentVars
  <2>3. CASE AllAre("admitted") /\ Set(p, [at |-> "run"]) /\ UNCHANGED holder
    BY <1>1, <2>3, RunsAgain DEF Recover, At, teamVars, subagentVars, parentVars
  <2>4. CASE /\ AllCompleted(p) /\ Give("operation")
             /\ Set(p, [at |-> "work", todo |-> Lane, lane |-> [l \in Lane |-> "ok"]])
    BY <1>1, <2>4, Completes DEF Recover, At, teamVars, subagentVars, parentVars
  <2>5. CASE /\ Set(p, [at |-> "clear", todo |-> Living, goal |-> "failed", then |-> "load"])
             /\ UNCHANGED holder
    BY <1>1, <2>5, Interrupts DEF Recover, At, teamVars, subagentVars, parentVars
  <2> QED  BY <1>1, <2>1, <2>2, <2>3, <2>4, <2>5 DEF Recover
<1>2. CASE Clear(p)
  <2>1. CASE /\ holder["parent"] = Nobody /\ Take(p, "parent") /\ Set(p, [at |-> "terminalize"])
             /\ execution' = [s \in Subagent |-> IF s \in job[p].todo \cap Living THEN p
                                                  ELSE execution[s]]
    <3>1. execution' \in [Subagent -> Process \cup {Nobody}]
      BY <2>1 DEF TeamInv, Typed, TeamTypeOK
    <3> QED
      BY <1>2, <2>1, <3>1, Clears DEF Clear, At, teamVars, subagentVars, parentVars
  <2>2. CASE End(p)
    BY <1>2, <2>2, Returns DEF Clear, At
  <2> QED  BY <1>2, <2>1, <2>2 DEF Clear
<1>3. CASE Terminalize(p)
  <2>1. ASSUME NEW s \in Living, UNCHANGED <<job, leaseVars>>,
               status' = [status EXCEPT ![s] = IF @ = "admitted" THEN "cancelled" ELSE "failed"]
        PROVE  TeamInv'
    <3> DEFINE end == IF status[s] = "admitted" THEN "cancelled" ELSE "failed"
    <3>1. end \in {"cancelled", "failed"} /\ status' = [status EXCEPT ![s] = end]
      BY <2>1
    <3> HIDE DEF end
    <3> QED
      BY <1>3, <2>1, <3>1, RecordEnds
         DEF TeamInv, Typed, Terminalize, At, teamVars, leaseVars, parentVars
  <2>2. CASE /\ Give("parent") /\ Set(p, [at |-> job[p].then, then |-> "end", todo |-> {}])
             /\ execution' = [s \in Subagent |-> IF s \in job[p].todo /\ execution[s] = p
                                                 THEN Nobody ELSE execution[s]]
             /\ UNCHANGED status
    <3>1. execution' \in [Subagent -> Process \cup {Nobody}]
      BY <2>2 DEF TeamInv, Typed, TeamTypeOK
    <3> QED
      BY <1>3, <2>2, <3>1, ClearsDone DEF Terminalize, At, teamVars, parentVars
  <2> QED  BY <1>3, <2>1, <2>2 DEF Terminalize
<1>4. CASE Admit(p)
  <2>1. CASE End(p) /\ UNCHANGED attempt
    BY <1>4, <2>1, Returns DEF Admit, At, subagentVars
  <2> QED  BY <1>4, <2>1, Admits DEF Admit, At, teamVars, parentVars
<1>5. CASE RecordMember(p)
  <2>1. PICK l \in Lowest(job[p].todo) :
          /\ status' = [status EXCEPT ![<<attempt, l>>] = "admitted"]
          /\ Set(p, [todo |-> job[p].todo \ {l}])
    BY <1>5 DEF RecordMember
  <2> QED
    BY <1>5, <2>1, RecordsOne DEF RecordMember, At, Lowest, teamVars, leaseVars, parentVars
<1>6. CASE RollbackAdmission(p)
  BY <1>6, RollsAdmissionBack
<1>7. CASE MembersRecorded(p)
  BY <1>7, RecordsDone
<1>8. CASE BindMember(p)
  <2>1. ASSUME NEW l \in Lowest(job[p].todo), worker' = [worker EXCEPT ![l] = attempt],
               Set(p, [todo |-> job[p].todo \ {l}])
        PROVE  TeamInv'
    BY <1>8, <2>1, Binds DEF BindMember, At, Lowest, teamVars, leaseVars, parentVars
  <2>2. CASE job[p].todo = {} /\ Advance(p, "execute", "run") /\ UNCHANGED worker
    <3>1. BoundLanes = Lane
      BY <1>8, <2>2 DEF TeamInv, BoundOnce, BindMember, At
    <3> QED
      BY <1>8, <2>2, <3>1, MovesToExecute DEF BindMember, At, teamVars, leaseVars, parentVars
  <2> QED  BY <1>8, <2>1, <2>2 DEF BindMember
<1>9. CASE RunTeam(p)
  BY <1>9, Runs
<1> QED  BY <1>1, <1>2, <1>3, <1>4, <1>5, <1>6, <1>7, <1>8, <1>9 DEF Admission

(* Every step of the work on the lanes. *)
LEMMA WorkSteps ==
    ASSUME TeamInv, NEW p \in Process, Work(p)
    PROVE  TeamInv'
<1>1. CASE Rollback(p)
  BY <1>1, RollsBack
<1>2. CASE Collect(p)
  <2>1. ASSUME NEW l \in Lowest(job[p].todo), NEW good \in BOOLEAN, UNCHANGED leaseVars,
               receipt' = (IF good THEN receipt \cup {l} ELSE receipt),
               Set(p, [todo |-> job[p].todo \ {l}, failed |-> job[p].failed \/ ~good])
        PROVE  TeamInv'
    <3> DEFINE bad == job[p].failed \/ ~good
    <3>1. bad \in BOOLEAN /\ Set(p, [todo |-> job[p].todo \ {l}, failed |-> bad])
      BY <2>1
    <3>2. l \in job[p].todo /\ receipt' \in {receipt, receipt \cup {l}}
      BY <2>1 DEF Lowest
    <3> HIDE DEF bad
    <3> QED
      BY <1>2, <2>1, <3>1, <3>2, Collects DEF Collect, At, teamVars, leaseVars, parentVars
  <2>2. CASE Advance(p, "failed", "end") /\ UNCHANGED <<receipt, leaseVars>>
    BY <1>2, <2>2, Fails DEF Collect, At, teamVars, leaseVars, parentVars
  <2>3. CASE End(p) /\ UNCHANGED receipt
    BY <1>2, <2>3, Returns DEF Collect, At, subagentVars
  <2>4. ASSUME NEW l \in Lowest(job[p].todo)
        PROVE  (job[p].lane[l] = "ok" /\ Bound(l) \notin stray) \in BOOLEAN
    OBVIOUS
  <2> QED  BY <1>2, <2>1, <2>2, <2>3, <2>4 DEF Collect
<1>3. ASSUME NEW l \in Lane, Prepare(p, l)
      PROVE  TeamInv'
  <2>1. CASE /\ Preparable(p, l) /\ SetLane(p, l, "prepared")
             /\ execution' = [execution EXCEPT ![Bound(l)] = p]
             /\ status' = [status EXCEPT ![Bound(l)] = "running"]
    BY <1>3, <2>1, Prepares DEF Prepare, Working, At, teamVars, parentVars
  <2>2. CASE Set(p, [at |-> "rollback"]) /\ UNCHANGED <<execution, status>>
    BY <1>3, <2>2, GivesUp DEF Prepare, Working, At, teamVars, parentVars
  <2>3. CASE SetLane(p, l, "bad") /\ UNCHANGED <<execution, status>>
    BY <1>3, <2>3, LaneMoves DEF Prepare, Working, At, teamVars, parentVars
  <2> QED  BY <1>3, <2>1, <2>2, <2>3 DEF Prepare
<1>4. ASSUME NEW l \in Lane, Send(p, l)
      PROVE  TeamInv'
  <2>1. CASE sent' = [sent EXCEPT ![Bound(l)] = @ + 1]
    BY <1>4, <2>1, Sends DEF Send, Working, At, teamVars, leaseVars, parentVars
  <2>2. CASE UNCHANGED sent
    BY <1>4, <2>2, LaneMoves DEF Send, Working, At, teamVars, leaseVars, parentVars
  <2> QED  BY <1>4, <2>1, <2>2 DEF Send
<1> QED  BY <1>1, <1>2, <1>3, <1>4, CompletesWorker, FailsWorker DEF Work

(* Every step of a reconciliation. *)
LEMMA ReconcileSteps ==
    ASSUME TeamInv, NEW p \in Process, Reconcile(p)
    PROVE  TeamInv'
<1>1. ASSUME NEW step, NEW from, NEW to, NEW next, Through(p, step, from, to, next),
             \/ <<step, to, next>> \in {<<"review", "review", "verify">>,
                                        <<"verify", "verify", "merge">>}
             \/ <<step, to, next>> \in {<<"merged", "merge", "gate">>, <<"gate", "report", "report">>,
                                        <<"report", "complete", "end">>}
      PROVE  TeamInv'
  <2>1. CASE Advance(p, to, next)
    BY <1>1, <2>1, PassesOn
       DEF Through, At, Reviews, Reviewing, Reporting, teamVars, leaseVars, subagentVars, parentVars
  <2>2. CASE Set(p, [at |-> next])
    BY <1>1, <2>2, PassesBy
       DEF Through, At, Reviewing, Reporting, teamVars, leaseVars, subagentVars, parentVars
  <2> QED  BY <1>1, <2>1, <2>2 DEF Through
<1>2. CASE GateFails(p)
  BY <1>2, Returns DEF GateFails, At
<1>3. CASE MergeParent(p)
  <2>1. CASE /\ parentRev' = 1 /\ evidence' = evidence \cup TeamMembers
             /\ Set(p, [at |-> "merged"]) /\ UNCHANGED leaseVars
    <3>1. TeamMembers \subseteq Subagent
      BY BoundSubagent DEF TeamInv, TeamMembers
    <3>2. evidence' \subseteq Subagent
      BY <2>1, <3>1 DEF TeamInv, Typed, TeamTypeOK
    <3> QED
      BY <1>3, <2>1, <3>2, Merges DEF MergeParent, At, teamVars, leaseVars, subagentVars
  <2>2. CASE evidence = TeamMembers /\ Set(p, [at |-> "merged"])
             /\ UNCHANGED <<leaseVars, parentVars>>
    <3>1. parentRev' \in Nat /\ evidence' \subseteq Subagent
      BY <2>2 DEF TeamInv, Typed, TeamTypeOK, parentVars
    <3> QED
      BY <1>3, <2>2, <3>1, Merges
         DEF MergeParent, At, teamVars, leaseVars, subagentVars, parentVars
  <2>3. CASE End(p) /\ UNCHANGED parentVars
    BY <1>3, <2>3, Returns DEF MergeParent, At
  <2> QED  BY <1>3, <2>1, <2>2, <2>3 DEF MergeParent
<1> QED  BY <1>1, <1>2, <1>3 DEF Reconcile

(* Initially no command runs and no subagent was admitted. *)
LEMMA TeamStarts == TeamInit => TeamInv
<1> SUFFICES ASSUME TeamInit
             PROVE  TeamInv
  OBVIOUS
<1> USE TeamAssumption DEF TeamInit
<1>1. BoundLanes = {} /\ TeamMembers = {}
  BY DEF BoundLanes, TeamMembers
<1>2. \A p \in Process : job[p] = Resting
  OBVIOUS
<1>3. Typed
  <2>1. 0 \in 0 .. Cardinality(Attempt)
    BY AttemptCount
  <2>2. teamRev \in {0, 1} /\ teamSnap = teamRev /\ teamStage \in TeamStages
    BY DEF TeamStages
  <2>3. /\ status = [s \in Subagent |-> "none"] /\ sent = [s \in Subagent |-> 0]
        /\ spent = [kind \in Spending |-> 0] /\ worker = [l \in Lane |-> 0]
    OBVIOUS
  <2>4. holder \in [LeaseName -> Process \cup {Nobody}]
        /\ execution \in [Subagent -> Process \cup {Nobody}]
    OBVIOUS
  <2>5. TeamTypeOK
    <3>1. /\ teamStage \in TeamStages /\ teamRev \in Nat /\ teamSnap \in {teamRev, teamRev + 1}
          /\ teamMode \in {"none", "parallel", "sequential"}
      BY <2>2
    <3>4. cancelMark \in BOOLEAN
      OBVIOUS
    <3>2. /\ \A s \in Subagent : status[s] \in Live \cup {"none", "completed", "cancelled", "failed"}
          /\ sent \in [Subagent -> Nat]
      BY <2>3
    <3>3. /\ attempt \in 0 .. Cardinality(Attempt)
          /\ stray \subseteq Subagent /\ receipt \subseteq Lane
          /\ parentRev \in Nat /\ evidence \subseteq Subagent
      BY <2>1
    <3> QED  BY <1>1, <2>4, <3>1, <3>2, <3>3, <3>4 DEF TeamTypeOK
  <2>6. status \in [Subagent -> Statuses] /\ worker \in [Lane -> {0} \cup Attempt]
    BY <2>3 DEF Statuses
  <2>7. spent \in [Spending -> Nat]
    BY <2>3
  <2> QED  BY <2>5, <2>6, <2>7 DEF Typed
<1>4. Jobs
  BY DEF Jobs, JobOK, Resting, Fields, Steps, LaneSteps, TeamStages
<1>5. Leased /\ Permitted
  BY <1>2
     DEF Leased, Permitted, Resting, Checkpointing, Operating, Reviewing, Reporting, LeaseName
<1>6. Recorded /\ BoundOnce /\ PreparedOnce
  BY <1>2 DEF Recorded, BoundOnce, PreparedOnce, Resting, Checkpointing
<1>7. Reconciled /\ MergedWhole /\ Settling
  BY <1>2
     DEF Reconciled, MergedWhole, Settling, Reviews, Reports, Resting, Checkpointing, Reviewing,
         Reporting, Spending
<1> QED  BY <1>3, <1>4, <1>5, <1>6, <1>7 DEF TeamInv

(* Whatever a process, a user or another command does keeps the invariant. *)
LEMMA TeamSteps == TeamInv /\ [TeamNext]_allTeamVars => TeamInv'
<1> SUFFICES ASSUME TeamInv, [TeamNext]_allTeamVars
             PROVE  TeamInv'
  OBVIOUS
<1>1. ASSUME NEW p \in Process, Stop(p)
      PROVE  TeamInv'
  <2>1. spent' \in [Spending -> Nat] /\ spent'["stop"] = spent["stop"] + 1 /\ spent["stop"] \in Nat
    BY <1>1 DEF TeamInv, Typed, Spending, Stop, Spend
  <2> QED
    BY <1>1, <2>1, CommandEnds DEF Stop, teamVars, subagentVars, parentVars
<1>2. ASSUME NEW s \in Living, NEW end \in {"cancelled", "failed"}, Spend("other"),
             status' = [status EXCEPT ![s] = end],
             UNCHANGED <<teamVars, leaseVars, attempt, worker, sent, stray, receipt,
                         parentVars, job>>
      PROVE  TeamInv'
  <2>1. spent' \in [Spending -> Nat] /\ spent'["stop"] = spent["stop"]
    BY <1>2 DEF TeamInv, Typed, Spending, Spend
  <2> QED
    BY <1>2, <2>1, RecordEnds DEF teamVars, leaseVars, parentVars
<1>3. ASSUME NEW s \in Subagent, CancelSubagent(s)
      PROVE  TeamInv'
  BY <1>2, <1>3 DEF CancelSubagent
<1>4. CASE LaunchRecovers
  BY <1>2, <1>4 DEF LaunchRecovers, Living, Live
<1>5. CASE UNCHANGED allTeamVars
  BY <1>5
     DEF allTeamVars, teamVars, leaseVars, subagentVars, parentVars, TeamInv, Typed, TeamTypeOK,
         Jobs, JobOK, Leased, Checkpointing, Permitted, Recorded, BoundOnce, BoundLanes,
         PreparedOnce, Bound, Reconciled, Reviews, Reports, Reconcilable, AllAre, TeamMembers,
         MergedWhole, Settling, Ending
<1>6. ASSUME NEW p \in Process, ExecuteTeam(p)
      PROVE  TeamInv'
  BY <1>6, Executes, Dispatches
<1> QED
  BY <1>1, <1>3, <1>4, <1>5, <1>6, Plans, Reconciles, Cancels, CheckpointSteps, AdmissionSteps,
     WorkSteps, ReconcileSteps, ParentMoved
     DEF TeamNext, CommandStep

THEOREM TeamInvariant == TeamSpec => []TeamInv
BY TeamStarts, TeamSteps, PTL DEF TeamSpec

(* A lane's prompt is sent at most once over all admissions, executions that overlap and   *)
(* recoveries; a team past its merge has every lane's completed result in the parent; and  *)
(* with nothing stopped and no command left, a marked team is at its end.                  *)
(* Code: prepare_running, members::collect and cancel_report.                              *)
THEOREM TeamSound == TeamSpec => []TeamKept
<1>1. ASSUME TeamInv
      PROVE  SentOnce
  <2>1. ASSUME NEW l \in Lane
        PROVE  /\ Cardinality({s \in Subagent : s[2] = l /\ sent[s] > 0}) <= 1
               /\ \A a \in Attempt : sent[<<a, l>>] <= 1
    <3> DEFINE prompted == {s \in Subagent : s[2] = l /\ sent[s] > 0}
    <3>1. prompted \subseteq {Bound(l)}
      BY <1>1 DEF TeamInv, PreparedOnce, Subagent, Bound
    <3>2. prompted = {} \/ prompted = {Bound(l)}
      BY <3>1
    <3>3. Cardinality(prompted) <= 1
      <4> HIDE DEF prompted
      <4>1. Cardinality(prompted) = 0 \/ Cardinality(prompted) = 1
        BY <3>2, FS_EmptySet, FS_Singleton
      <4> QED  BY <4>1
    <3>4. \A a \in Attempt : sent[<<a, l>>] <= 1
      BY <1>1 DEF TeamInv, PreparedOnce, Subagent
    <3> QED  BY <3>3, <3>4
  <2> QED  BY <2>1 DEF SentOnce
<1>2. TeamInv => MarkerSettles
  BY DEF TeamInv, Settling, MarkerSettles, Ending
<1>3. TeamInv => TeamKept
  BY <1>1, <1>2 DEF TeamInv, Typed, TeamKept
<1> QED  BY <1>3, TeamInvariant, PTL

(* The steps that change a stage, the evidence or a record. *)
LEMMA StageFinal ==
    TeamInv /\ [TeamNext]_allTeamVars
      => (teamStage \in TeamEnded
            => /\ teamStage' = teamStage
               /\ \/ teamStage # "cancelled" \/ evidence' = evidence
                  \/ spent["other"] < spent'["other"])
<1> SUFFICES ASSUME TeamInv, [TeamNext]_allTeamVars, teamStage \in TeamEnded
             PROVE  /\ teamStage' = teamStage
                    /\ \/ teamStage # "cancelled" \/ evidence' = evidence
                       \/ spent["other"] < spent'["other"]
  OBVIOUS
<1>1. ASSUME NEW p \in Process
      PROVE  ~ReplaceTeam(p)
  BY DEF TeamInv, Permitted, Permits, TeamEnded, ReplaceTeam, At
<1>2. ASSUME NEW p \in Process, MergeParent(p)
      PROVE  UNCHANGED teamVars /\ teamStage # "cancelled"
  BY <1>2 DEF TeamInv, Reconciled, Reviews, Reviewing, MergeParent, At
<1>3. CASE LaunchMerges
  BY <1>3 DEF TeamInv, Typed, Spending, LaunchMerges, Spend, teamVars
<1>4. ASSUME NEW p \in Process, Checkpoint(p)
      PROVE  teamStage' = teamStage /\ evidence' = evidence
  BY <1>1, <1>4 DEF Checkpoint, LoadTeam, InstallSnapshot, Done, teamVars, parentVars
<1>5. ASSUME NEW p \in Process, Admission(p)
      PROVE  teamStage' = teamStage /\ evidence' = evidence
  BY <1>5
     DEF Admission, Recover, Clear, Terminalize, Admit, RecordMember, RollbackAdmission,
         MembersRecorded, BindMember, RunTeam, teamVars, parentVars
<1>6. ASSUME NEW p \in Process, Work(p)
      PROVE  teamStage' = teamStage /\ evidence' = evidence
  BY <1>6
     DEF Work, Rollback, Collect, Prepare, Send, CompleteWorker, FailWorker, Finished, teamVars,
         parentVars
<1>7. ASSUME NEW p \in Process, Reconcile(p)
      PROVE  teamStage' = teamStage /\ (evidence' = evidence \/ MergeParent(p))
  BY <1>2, <1>7 DEF Reconcile, Through, GateFails, teamVars, parentVars
<1>8. ASSUME NEW p \in Process,
             PlanTeam(p) \/ ExecuteTeam(p) \/ ReconcileTeam(p) \/ CancelTeam(p) \/ Stop(p)
      PROVE  teamStage' = teamStage /\ evidence' = evidence
  BY <1>8
     DEF PlanTeam, ExecuteTeam, ReconcileTeam, CancelTeam, Stop, teamVars, parentVars
<1>9. ASSUME (\E s \in Subagent : CancelSubagent(s)) \/ ParentMoves \/ LaunchRecovers
      PROVE  teamStage' = teamStage /\ evidence' = evidence
  BY <1>9 DEF CancelSubagent, ParentMoves, LaunchRecovers, teamVars, parentVars
<1>10. CASE UNCHANGED allTeamVars
  BY <1>10 DEF allTeamVars, teamVars, parentVars
<1> QED
  BY <1>2, <1>3, <1>4, <1>5, <1>6, <1>7, <1>8, <1>9, <1>10 DEF TeamNext, CommandStep

LEMMA RecordFinal ==
    TeamInv /\ [TeamNext]_allTeamVars
      => \A s \in Subagent : status[s] \in Final => status'[s] = status[s]
<1> SUFFICES ASSUME TeamInv, [TeamNext]_allTeamVars, NEW s \in Subagent, status[s] \in Final
             PROVE  status'[s] = status[s]
  OBVIOUS
<1>1. status \in [Subagent -> Statuses] /\ status[s] \notin Live \cup {"none"}
  BY DEF TeamInv, Typed, Final, Live
<1>2. ASSUME NEW p \in Process, Admission(p)
      PROVE  status'[s] = status[s]
  <2>1. CASE RecordMember(p)
    <3>1. PICK l \in job[p].todo : status' = [status EXCEPT ![<<attempt, l>>] = "admitted"]
      BY <2>1 DEF RecordMember, Lowest
    <3>2. status[<<attempt, l>>] = "none"
      BY <2>1 DEF TeamInv, Recorded, Jobs, JobOK, RecordMember, At
    <3> QED  BY <1>1, <3>1, <3>2
  <2>2. CASE Terminalize(p)
    BY <1>1, <2>2 DEF Terminalize, Living
  <2>3. CASE RollbackAdmission(p)
    BY <1>1, <2>3 DEF RollbackAdmission
  <2> QED
    BY <1>2, <2>1, <2>2, <2>3
       DEF Admission, Recover, Clear, Admit, MembersRecorded, BindMember, RunTeam, subagentVars
<1>3. ASSUME NEW p \in Process, Work(p)
      PROVE  status'[s] = status[s]
  <2>1. ASSUME NEW l \in Lane, Prepare(p, l)
        PROVE  status'[s] = status[s]
    BY <1>1, <2>1 DEF Prepare, Preparable, Live
  <2>2. ASSUME NEW l \in Lane, CompleteWorker(p, l) \/ FailWorker(p, l)
        PROVE  status'[s] = status[s]
    BY <1>1, <2>2 DEF CompleteWorker, FailWorker, Live
  <2>3. CASE Rollback(p)
    BY <1>1, <2>3 DEF Rollback
  <2> QED  BY <1>3, <2>1, <2>2, <2>3 DEF Work, Collect, Send
<1>4. ASSUME NEW p \in Process, Checkpoint(p) \/ Reconcile(p)
      PROVE  status'[s] = status[s]
  BY <1>4
     DEF Checkpoint, LoadTeam, InstallSnapshot, ReplaceTeam, Done, Reconcile, Through, GateFails,
         MergeParent, subagentVars
<1>5. ASSUME NEW p \in Process,
             PlanTeam(p) \/ ExecuteTeam(p) \/ ReconcileTeam(p) \/ CancelTeam(p) \/ Stop(p)
      PROVE  status'[s] = status[s]
  BY <1>5 DEF PlanTeam, ExecuteTeam, ReconcileTeam, CancelTeam, Stop, subagentVars
<1>6. ASSUME NEW r \in Subagent, CancelSubagent(r)
      PROVE  status'[s] = status[s]
  BY <1>1, <1>6 DEF CancelSubagent, Living
<1>7. CASE ParentMoves \/ LaunchMerges \/ LaunchRecovers
  BY <1>1, <1>7 DEF ParentMoves, LaunchMerges, LaunchRecovers, subagentVars, Live
<1>8. CASE UNCHANGED allTeamVars
  BY <1>8 DEF allTeamVars, subagentVars
<1> QED
  BY <1>2, <1>3, <1>4, <1>5, <1>6, <1>7, <1>8 DEF TeamNext, CommandStep

(* A team at its end stays there with its records, and a cancelled one merges nothing      *)
(* more, whichever command or worker of it is still running.                              *)
(* Code: advance_state, complete_generation and terminalize_running_error.                *)
THEOREM TeamEndIsFinal == TeamSpec => EndIsFinal
<1>1. TeamInv /\ [TeamNext]_allTeamVars
        => [\A s \in Subagent : status[s] \in {"completed", "cancelled", "failed"}
              => status'[s] = status[s]]_status
  BY RecordFinal DEF Final
<1>2. TeamInv /\ [TeamNext]_allTeamVars
        => [(teamStage \in TeamEnded) =>
              /\ teamStage' = teamStage
              /\ \/ teamStage # "cancelled" \/ evidence' = evidence
                 \/ spent["other"] < spent'["other"]]_allTeamVars
  BY StageFinal
<1> QED  BY <1>1, <1>2, TeamInvariant, PTL DEF TeamSpec, EndIsFinal, RecordsFinal

-----------------------------------------------------------------------------
(* The conversation of a terminal: what its log says, and what loading makes of it. *)

Record == [session : Nat, exchange : Nat, kind : Kinds]
Pairs == [user : Nat, reply : Nat]
Sums == [turns : Seq(Pairs), tools : Seq(Nat), pending : Nat]

LEMMA LeastNumber ==
    ASSUME NEW T \in SUBSET Nat, T # {} PROVE \E x \in T : \A y \in T : x <= y
<1>1. PICK x \in T : \A y \in T : ~(<<y, x>> \in OpToRel(<, Nat))
  BY NatLessThanWellFounded, WFMin
<1>2. \A y \in T : ~(y < x)
  BY <1>1 DEF OpToRel
<1> QED  BY <1>2

(* Loading reads the log once: what it has after n records is computed from what it had
   after n - 1. *)
FoldedTo(f, s, n) ==
    IF n = 0 THEN Blank
    ELSE IF log[n].session = s THEN Fold(f[n - 1], log[n])
    ELSE f[n - 1]
FoldedBy(f, s, n) == f = [i \in 0 .. n |-> FoldedTo(f, s, i)]

LEMMA FoldedExists ==
    ASSUME NEW s, NEW n \in Nat
    PROVE  \E f : FoldedBy(f, s, n)
<1> DEFINE T == {k \in Nat : ~\E f : FoldedBy(f, s, k)}
<1> SUFFICES ASSUME T # {} PROVE FALSE
  OBVIOUS
<1>1. PICK x \in T : \A y \in T : x <= y
  BY LeastNumber
<1>2. x # 0
  <2> DEFINE f == [i \in 0 .. 0 |-> Blank]
  <2>1. FoldedBy(f, s, 0)
    BY DEF FoldedBy, FoldedTo
  <2> QED  BY <2>1
<1>3. x - 1 \in Nat /\ x - 1 \notin T
  BY <1>1, <1>2
<1>4. PICK f : FoldedBy(f, s, x - 1)
  BY <1>3
<1> DEFINE g == [i \in 0 .. x |-> IF i = x THEN FoldedTo(f, s, x) ELSE f[i]]
<1>5. FoldedBy(g, s, x)
  <2>1. \A i \in 0 .. x : FoldedTo(g, s, i) = FoldedTo(f, s, i)
    <3> SUFFICES ASSUME NEW i \in 0 .. x, i # 0
                 PROVE  g[i - 1] = f[i - 1]
      BY DEF FoldedTo
    <3> QED  BY <1>3
  <2>2. \A i \in 0 .. x : i # x => f[i] = FoldedTo(f, s, i)
    <3> DEFINE h(i) == FoldedTo(f, s, i)
    <3>1. f = [i \in 0 .. x - 1 |-> h(i)]
      BY <1>4 DEF FoldedBy
    <3> HIDE DEF h
    <3>2. \A i \in 0 .. x : i # x => f[i] = h(i)
      BY <1>3, <3>1
    <3> QED  BY <3>2 DEF h
  <2>3. \A i \in 0 .. x : g[i] = FoldedTo(g, s, i)
    BY <2>1, <2>2
  <2> HIDE DEF g
  <2>4. g = [i \in 0 .. x |-> g[i]]
    BY DEF g
  <2> QED  BY <2>3, <2>4 DEF FoldedBy
<1> QED  BY <1>5

(* The sums after each record. *)
Adds(f, s) ==
    /\ f[0] = Blank
    /\ \A n \in 1 .. Len(log) :
          f[n] = IF log[n].session = s THEN Fold(f[n - 1], log[n]) ELSE f[n - 1]

LEMMA RestoredSums ==
    ASSUME log \in Seq(Record), NEW s
    PROVE  \E f : /\ Adds(f, s)
                  /\ Restored(s) = [session |-> s, turns |-> f[Len(log)].turns,
                                    tools |-> f[Len(log)].tools]
<1> DEFINE n == Len(log)
           f == CHOOSE g : FoldedBy(g, s, n)
<1>1. n \in Nat
  OBVIOUS
<1>2. Restored(s) = [session |-> s, turns |-> f[n].turns, tools |-> f[n].tools]
  BY DEF Restored, FoldedBy, FoldedTo
<1>3. FoldedBy(f, s, n)
  <2> HIDE DEF n
  <2>1. \E g : FoldedBy(g, s, n)
    BY <1>1, FoldedExists
  <2> QED  BY <2>1
<1> HIDE DEF f
<1>4. \A i \in 0 .. n : f[i] = FoldedTo(f, s, i)
  <2> DEFINE h(i) == FoldedTo(f, s, i)
  <2>1. f = [i \in 0 .. n |-> h(i)]
    BY <1>3 DEF FoldedBy
  <2> HIDE DEF h
  <2>2. \A i \in 0 .. n : f[i] = h(i)
    BY <2>1
  <2> QED  BY <2>2 DEF h
<1>5. Adds(f, s)
  <2>1. f[0] = Blank
    BY <1>1, <1>4 DEF FoldedTo
  <2>2. ASSUME NEW i \in 1 .. n
        PROVE  f[i] = IF log[i].session = s THEN Fold(f[i - 1], log[i]) ELSE f[i - 1]
    <3>1. i \in 0 .. n /\ i # 0
      BY <1>1
    <3> QED  BY <1>4, <3>1 DEF FoldedTo
  <2> QED  BY <2>1, <2>2 DEF Adds
<1> QED  BY <1>2, <1>5

(* What the log says of an exchange: its reply is one record, made after its request's. *)
Replied(x, s) ==
    \E k \in 1 .. Len(log) :
        log[k].kind = "reply" /\ log[k].exchange = x /\ log[k].session = s
Logged ==
    /\ log \in Seq(Record)
    /\ \A i \in 1 .. Len(log) : log[i].exchange = Nothing <=> log[i].kind = "reset"
    /\ \A k \in 1 .. Len(log) :
          log[k].kind = "reply"
            => \E i \in 1 .. k - 1 :
                  /\ log[i].kind = "user" /\ log[i].exchange = log[k].exchange
                  /\ log[i].session = log[k].session
    /\ \A i, k \in 1 .. Len(log) :
          /\ log[i].kind = "reply" /\ log[k].kind = "reply"
          /\ log[i].exchange = log[k].exchange
          => i = k

LEMMA Pushed ==
    ASSUME NEW tools \in Seq(Nat), Len(tools) <= MaxTools, NEW x \in Nat
    PROVE  /\ PushTool(tools, x) \in Seq(Nat) /\ Len(PushTool(tools, x)) <= MaxTools
           /\ ToSet(PushTool(tools, x)) \subseteq ToSet(tools) \cup {x}
<1> DEFINE all == Append(tools, x)
<1>1. /\ all \in Seq(Nat) /\ Len(all) = Len(tools) + 1 /\ Len(tools) \in Nat
      /\ \A i \in 1 .. Len(all) : all[i] \in ToSet(tools) \cup {x}
  BY DEF ToSet
<1>2. MaxTools \in Nat \ {0}
  BY ConversationAssumption
<1> HIDE DEF all
<1>3. CASE Len(all) > MaxTools
  <2>1. /\ Tail(all) \in Seq(Nat) /\ Len(Tail(all)) = Len(all) - 1
        /\ \A i \in 1 .. Len(Tail(all)) : Tail(all)[i] = all[i + 1]
    BY <1>1, <1>2, <1>3
  <2>2. PushTool(tools, x) = Tail(all)
    BY <1>3 DEF PushTool, all
  <2>3. \A i \in 1 .. Len(Tail(all)) : Tail(all)[i] \in ToSet(tools) \cup {x}
    BY <1>1, <2>1
  <2> QED  BY SMTT(60), <1>1, <2>1, <2>2, <2>3 DEF ToSet
<1>4. CASE ~(Len(all) > MaxTools)
  <2>1. PushTool(tools, x) = all
    BY <1>4 DEF PushTool, all
  <2> QED  BY <1>1, <1>2, <1>4, <2>1 DEF ToSet
<1> QED  BY <1>3, <1>4

LEMMA AppendSet ==
    ASSUME NEW S, NEW seq \in Seq(S), NEW e
    PROVE  ToSet(Append(seq, e)) = ToSet(seq) \cup {e}
<1>1. /\ DOMAIN Append(seq, e) = 1 .. Len(seq) + 1 /\ DOMAIN seq = 1 .. Len(seq) /\ Len(seq) \in Nat
      /\ \A i \in 1 .. Len(seq) : Append(seq, e)[i] = seq[i]
      /\ Append(seq, e)[Len(seq) + 1] = e
  OBVIOUS
<1> QED  BY <1>1 DEF ToSet

(* The sums are well formed, and every tool in them is on record. *)
LEMMA SumsTyped ==
    ASSUME log \in Seq(Record), NEW s, NEW f, Adds(f, s), NEW n \in 0 .. Len(log)
    PROVE  /\ f[n] \in Sums /\ Len(f[n].tools) <= MaxTools
           /\ \A x \in ToSet(f[n].tools) :
                 \E i \in 1 .. Len(log) : log[i] = [session |-> s, exchange |-> x, kind |-> "tool"]
<1> DEFINE On(x) == \E i \in 1 .. Len(log) :
                        log[i] = [session |-> s, exchange |-> x, kind |-> "tool"]
           Fine(k) == /\ f[k] \in Sums /\ Len(f[k].tools) <= MaxTools
                      /\ \A x \in ToSet(f[k].tools) : On(x)
           T == {k \in 0 .. Len(log) : ~Fine(k)}
<1>1. Blank \in Sums /\ Len(Blank.tools) <= MaxTools /\ ToSet(Blank.tools) = {}
  BY ConversationAssumption DEF Blank, Sums, ToSet, Nothing
<1>2. ASSUME T # {} PROVE FALSE
  <2>1. T \in SUBSET Nat /\ Len(log) \in Nat
    OBVIOUS
  <2>2. PICK k \in T : \A j \in T : k <= j
    BY <1>2, <2>1, LeastNumber
  <2>3. k # 0
    BY <1>1, <2>2 DEF Adds
  <2>4. k \in 1 .. Len(log) /\ k - 1 \in 0 .. Len(log) /\ Fine(k - 1) /\ ~Fine(k)
    BY <2>1, <2>2, <2>3
  <2>5. log[k] \in Record /\ log[k].exchange \in Nat /\ log[k].kind \in Kinds
    <3>1. log[k] \in Record
      BY <2>4
    <3> QED  BY <3>1 DEF Record
  <2>6. log[k].session = s
    BY <2>4 DEF Adds
  <2>7. f[k] = Fold(f[k - 1], log[k])
    BY <2>4, <2>6 DEF Adds
  <2> DEFINE a == f[k - 1]
  <2>8. a \in Sums /\ a.turns \in Seq(Pairs) /\ a.tools \in Seq(Nat) /\ a.pending \in Nat
    BY <2>4 DEF Sums
  <2>9. CASE log[k].kind = "user"
    <3>1. f[k] = [a EXCEPT !.pending = log[k].exchange]
      BY <2>7, <2>9 DEF Fold
    <3>2. f[k] \in Sums /\ f[k].tools = a.tools
      BY <2>5, <2>8, <3>1 DEF Sums
    <3> QED  BY <2>4, <3>2
  <2>10. CASE log[k].kind = "tool"
    <3>1. f[k] = [a EXCEPT !.tools = PushTool(a.tools, log[k].exchange)]
      BY <2>7, <2>10 DEF Fold
    <3> DEFINE pushed == PushTool(a.tools, log[k].exchange)
    <3>2. /\ pushed \in Seq(Nat) /\ Len(pushed) <= MaxTools
          /\ ToSet(pushed) \subseteq ToSet(a.tools) \cup {log[k].exchange}
      BY <2>4, <2>5, <2>8, Pushed
    <3> HIDE DEF pushed
    <3>3. f[k] \in Sums /\ f[k].tools = pushed
      BY <2>8, <3>1, <3>2 DEF Sums, pushed
    <3>4. On(log[k].exchange)
      BY <2>4, <2>5, <2>6, <2>10 DEF Record
    <3> QED  BY <2>4, <3>2, <3>3, <3>4
  <2>11. CASE log[k].kind = "reset"
    <3>1. f[k] = Blank
      BY <2>7, <2>11 DEF Fold
    <3> QED  BY <1>1, <2>4, <3>1
  <2>12. CASE log[k].kind = "reply"
    <3>1. f[k] \in {a, [a EXCEPT !.turns = Append(a.turns, Pair(a.pending, log[k].exchange)),
                                 !.pending = Nothing]}
      BY <2>7, <2>12 DEF Fold
    <3>2. Append(a.turns, Pair(a.pending, log[k].exchange)) \in Seq(Pairs) /\ Nothing \in Nat
      BY <2>5, <2>8 DEF Pairs, Pair, Nothing
    <3>3. f[k] \in Sums /\ f[k].tools = a.tools
      BY <2>8, <3>1, <3>2 DEF Sums
    <3> QED  BY <2>4, <3>3
  <2> QED  BY <2>5, <2>9, <2>10, <2>11, <2>12 DEF Kinds
<1> QED  BY <1>2

(* In a session recorded one exchange after the other: the request of a reply waits from
   its record to that of the reply, each pair is one exchange, and a pair stays until the
   session is cleared. *)
Awaits(f, s, n) ==
    \A i \in 1 .. n, k \in n + 1 .. Len(log) :
        /\ log[i].kind = "user" /\ log[k].kind = "reply" /\ log[i].exchange = log[k].exchange
        /\ log[i].session = s /\ log[k].session = s
        => f[n].pending = log[k].exchange
Whole(f, s, n) ==
    \A t \in ToSet(f[n].turns) : t.user = t.reply /\ Replied(t.reply, s)
Stays(f, s, n) ==
    \A k \in 1 .. n :
        /\ log[k].kind = "reply" /\ log[k].session = s
        /\ \A j \in k .. n : ~(log[j].kind = "reset" /\ log[j].session = s)
        => Pair(log[k].exchange, log[k].exchange) \in ToSet(f[n].turns)

LEMMA SumsPaired ==
    ASSUME Logged, NEW s, NEW f, Adds(f, s), Alone(s), NEW n \in 0 .. Len(log)
    PROVE  Awaits(f, s, n) /\ Whole(f, s, n) /\ Stays(f, s, n)
<1> DEFINE Fine(k) == Awaits(f, s, k) /\ Whole(f, s, k) /\ Stays(f, s, k)
           T == {k \in 0 .. Len(log) : ~Fine(k)}
<1>1. log \in Seq(Record) /\ Len(log) \in Nat
  BY DEF Logged
<1>2. ASSUME T # {} PROVE FALSE
  <2>1. T \in SUBSET Nat
    BY <1>1
  <2>2. PICK k \in T : \A j \in T : k <= j
    BY <1>2, <2>1, LeastNumber
  <2>3. k # 0
    <3>1. f[0] = Blank /\ ToSet(Blank.turns) = {}
      BY DEF Adds, Blank, ToSet
    <3>2. Fine(0)
      BY <3>1 DEF Awaits, Whole, Stays
    <3> QED  BY <2>2, <3>2
  <2>4. k \in 1 .. Len(log) /\ k - 1 \in 0 .. Len(log) /\ k \in Nat /\ k - 1 + 1 = k
    BY <1>1, <2>1, <2>2, <2>3
  <2>5. Fine(k - 1) /\ ~Fine(k)
    BY <1>1, <2>2, <2>4
  <2> DEFINE a == f[k - 1]
             r == log[k]
  <2>6. r \in Record /\ r.exchange \in Nat /\ r.kind \in Kinds
    <3>1. r \in Record
      BY <1>1, <2>4
    <3> QED  BY <3>1 DEF Record
  <2>7. a \in Sums
    BY <1>1, <2>4, SumsTyped
  <2>8. f[k] = IF r.session = s THEN Fold(a, r) ELSE a
    BY <2>4 DEF Adds
  <2>9. \A i, q \in 1 .. Len(log) :
            /\ i < k /\ k < q /\ log[i].kind = "user" /\ log[q].kind = "reply"
            /\ log[i].exchange = log[q].exchange /\ log[i].session = s /\ log[q].session = s
            => a.pending = log[q].exchange /\ (r.session = s => r.exchange = log[q].exchange)
    <3> SUFFICES ASSUME NEW i \in 1 .. Len(log), NEW q \in 1 .. Len(log), i < k, k < q,
                        log[i].kind = "user", log[q].kind = "reply",
                        log[i].exchange = log[q].exchange, log[i].session = s, log[q].session = s
                 PROVE  /\ a.pending = log[q].exchange
                        /\ r.session = s => r.exchange = log[q].exchange
      OBVIOUS
    <3>1. i \in 1 .. k - 1 /\ q \in (k - 1) + 1 .. Len(log)
      BY <1>1, <2>4
    <3>2. a.pending = log[q].exchange
      BY <2>5, <3>1 DEF Awaits
    <3>3. log[i].exchange # Nothing
      BY DEF Logged
    <3>4. r.session = s => r.exchange = log[i].exchange
      <4> DEFINE at == {j \in 1 .. Len(log) : log[j].session = s}
      <4>1. \A i1, k1 \in at :
               i1 < k1 /\ log[i1].exchange = log[k1].exchange /\ log[i1].exchange # Nothing
                 => \A j \in at : i1 < j /\ j < k1 => log[j].exchange = log[i1].exchange
        BY DEF Alone
      <4>2. i \in at /\ q \in at /\ (r.session = s => k \in at)
        BY <2>4
      <4>3. i < q
        BY <1>1, <2>4
      <4> QED  BY <3>3, <4>1, <4>2, <4>3
    <3> QED  BY <3>2, <3>4
  <2>10. r.kind = "reply" /\ r.session = s
           => a.pending = r.exchange /\ r.exchange # Nothing /\ Replied(r.exchange, s)
    <3> SUFFICES ASSUME r.kind = "reply", r.session = s
                 PROVE  a.pending = r.exchange /\ r.exchange # Nothing /\ Replied(r.exchange, s)
      OBVIOUS
    <3>1. PICK i \in 1 .. k - 1 : /\ log[i].kind = "user" /\ log[i].exchange = r.exchange
                                  /\ log[i].session = s
      BY <2>4 DEF Logged
    <3>2. k \in (k - 1) + 1 .. Len(log)
      BY <1>1, <2>4
    <3>3. a.pending = r.exchange
      BY <2>5, <3>1, <3>2 DEF Awaits
    <3>4. r.exchange # Nothing
      BY <2>4 DEF Logged
    <3> QED  BY <2>4, <3>3, <3>4 DEF Replied
  <2>11. /\ r.kind = "user" => Fold(a, r).turns = a.turns /\ Fold(a, r).pending = r.exchange
         /\ r.kind = "tool" => Fold(a, r).turns = a.turns /\ Fold(a, r).pending = a.pending
         /\ r.kind = "reset" => ToSet(Fold(a, r).turns) = {}
         /\ r.kind = "reply" /\ r.session = s
              => ToSet(Fold(a, r).turns) = ToSet(a.turns) \cup {Pair(r.exchange, r.exchange)}
    <3>1. r.kind = "reply" /\ r.session = s
            => Fold(a, r).turns = Append(a.turns, Pair(r.exchange, r.exchange))
      BY <2>7, <2>10 DEF Fold, Sums
    <3>2. a.turns \in Seq(Pairs)
      BY <2>7 DEF Sums
    <3>3. r.kind = "reset" => Fold(a, r) = Blank
      BY DEF Fold
    <3>4. ToSet(Blank.turns) = {}
      BY DEF Blank, ToSet
    <3>5. /\ r.kind = "user" => Fold(a, r).turns = a.turns /\ Fold(a, r).pending = r.exchange
          /\ r.kind = "tool" => Fold(a, r).turns = a.turns /\ Fold(a, r).pending = a.pending
      BY <2>7 DEF Fold, Sums
    <3> QED  BY <3>1, <3>2, <3>3, <3>4, <3>5, AppendSet
  <2> HIDE DEF a
  <2>12. Awaits(f, s, k)
    <3> SUFFICES ASSUME NEW i \in 1 .. k, NEW q \in k + 1 .. Len(log),
                        log[i].kind = "user", log[q].kind = "reply",
                        log[i].exchange = log[q].exchange, log[i].session = s, log[q].session = s
                 PROVE  f[k].pending = log[q].exchange
      BY DEF Awaits
    <3>1. i \in 1 .. Len(log) /\ q \in 1 .. Len(log) /\ k < q /\ (i < k \/ i = k)
      BY <1>1, <2>4
    <3>2. CASE i = k
      BY <2>8, <2>11, <3>2
    <3>3. CASE i < k
      <4>1. a.pending = log[q].exchange /\ (r.session = s => r.exchange = log[q].exchange)
        BY <2>9, <3>1, <3>3
      <4>2. log[q].exchange # Nothing
        BY <3>1 DEF Logged
      <4>3. r.session = s => r.kind \in {"user", "tool"}
        <5>1. r.session = s => r.kind # "reset"
          BY <2>4, <4>1, <4>2 DEF Logged
        <5>2. r.session = s => r.kind # "reply"
          BY <2>4, <3>1, <4>1 DEF Logged
        <5> QED  BY <2>6, <5>1, <5>2 DEF Kinds
      <4> QED  BY <2>8, <2>11, <4>1, <4>3
    <3> QED  BY <3>1, <3>2, <3>3
  <2>13. Whole(f, s, k)
    <3>1. Whole(f, s, k - 1)
      BY <2>5
    <3>2. \A t \in ToSet(a.turns) : t.user = t.reply /\ Replied(t.reply, s)
      BY <3>1 DEF Whole, a
    <3>3. ASSUME NEW t \in ToSet(f[k].turns), t \notin ToSet(a.turns)
          PROVE  t.user = t.reply /\ Replied(t.reply, s)
      <4>1. r.session = s /\ r.kind = "reply" /\ t = Pair(r.exchange, r.exchange)
        BY <2>6, <2>8, <2>11, <3>3 DEF Kinds
      <4> QED  BY <2>10, <4>1 DEF Pair
    <3> QED  BY <3>2, <3>3 DEF Whole
  <2>14. Stays(f, s, k)
    <3> SUFFICES ASSUME NEW q \in 1 .. k, log[q].kind = "reply", log[q].session = s,
                        \A j \in q .. k : ~(log[j].kind = "reset" /\ log[j].session = s)
                 PROVE  Pair(log[q].exchange, log[q].exchange) \in ToSet(f[k].turns)
      BY DEF Stays
    <3>1. CASE q = k
      BY <2>8, <2>11, <3>1
    <3>2. CASE q # k
      <4>1. q \in 1 .. k - 1 /\ k \in q .. k
        BY <2>4, <3>2
      <4>2. Pair(log[q].exchange, log[q].exchange) \in ToSet(a.turns)
        BY <2>4, <2>5, <4>1 DEF Stays, a
      <4>3. ~(r.kind = "reset" /\ r.session = s)
        BY <4>1
      <4> QED  BY <2>6, <2>8, <2>11, <4>2, <4>3 DEF Kinds
    <3> QED  BY <3>1, <3>2
  <2> QED  BY <2>5, <2>12, <2>13, <2>14
<1> QED  BY <1>2

(* One terminal, and one exchange. *)
TuiFields == {"at", "fresh", "memory", "next", "exchange", "reply", "todo"}
Recording == {"bind", "append"}

TuiOK(p) ==
    /\ DOMAIN tui[p] = TuiFields /\ DOMAIN tui[p].memory = {"session", "turns", "tools"}
    /\ tui[p].memory.session \in Nat /\ tui[p].exchange \in Nat
    /\ tui[p].todo \in Seq(Kinds)
    /\ tui[p].next \in {"rest", "turn", "clear"}
    /\ tui[p].at \notin Recording => tui[p].exchange = Nothing
    /\ tui[p].at = "bind" => tui[p].reply \in {"reply", "cancelled"}

ConversationShape ==
    /\ current \in Nat /\ sessions \in Nat /\ exchanges \in Nat
    /\ log \in Seq(Record)
    /\ DOMAIN tui = Terminal /\ \A p \in Terminal : TuiOK(p)
    /\ DOMAIN served = 1 .. MaxExchanges /\ exchanges <= MaxExchanges

(* An exchange that is being recorded is the memory's session's, and so is what it left. *)
Served ==
    /\ \A p \in Terminal :
          tui[p].exchange # Nothing
            => /\ tui[p].exchange <= exchanges
               /\ served[tui[p].exchange] = tui[p].memory.session
    /\ \A i \in 1 .. Len(log) : log[i].exchange <= exchanges
    /\ SessionKept

ConversationInv == ConversationShape /\ Served

(* One terminal moves, and neither its exchange nor the session of its memory changes
   while it has one. *)
LEMMA TerminalMoves ==
    ASSUME ConversationInv, NEW p \in Terminal, DOMAIN tui' = Terminal,
           \A q \in Terminal : q # p => tui'[q] = tui[q], TuiOK(p)',
           tui'[p].exchange # Nothing
             => tui'[p].exchange = tui[p].exchange
                /\ tui'[p].memory.session = tui[p].memory.session,
           current' \in Nat, sessions' \in Nat, UNCHANGED <<log, exchanges, served>>
    PROVE  ConversationInv'
<1>1. \A q \in Terminal : q # p => TuiOK(q)'
  BY ZenonT(60) DEF ConversationInv, ConversationShape, TuiOK
<1>2. ConversationShape'
  BY <1>1 DEF ConversationInv, ConversationShape
<1>3. Served'
  BY DEF ConversationInv, Served, SessionKept
<1> QED  BY <1>2, <1>3 DEF ConversationInv

LEMMA LeavesKinds ==
    /\ <<>> \in Seq(Kinds) /\ <<"reset">> \in Seq(Kinds) /\ <<"tool">> \in Seq(Kinds)
    /\ \A reply \in {"reply", "cancelled"}, tools \in Seq(Kinds) :
          Records(reply, tools) \in Seq(Kinds)
BY DEF Kinds, Records

(* Each step of a terminal that writes no record. *)
LEMMA Leaves ==
    ASSUME ConversationInv, NEW p \in Terminal, Launch(p) \/ Quit(p) \/ Kill(p)
    PROVE  ConversationInv'
<1>1. /\ DOMAIN tui' = Terminal /\ \A q \in Terminal : q # p => tui'[q] = tui[q]
      /\ current' \in Nat /\ sessions' \in Nat /\ UNCHANGED <<log, exchanges, served>>
  BY DEF ConversationInv, ConversationShape, Launch, Quit, Kill, Off, NoMemory, EmptyMemory
<1>2. /\ DOMAIN tui'[p] = TuiFields /\ DOMAIN tui'[p].memory = {"session", "turns", "tools"}
      /\ tui'[p].at \in {"off", "rest"} /\ tui'[p].next = "rest" /\ tui'[p].todo = <<>>
      /\ tui'[p].exchange = Nothing
      /\ tui'[p].memory.session = Nothing
  <2>1. CASE Launch(p)
    BY LeavesKinds, <2>1
       DEF ConversationInv, ConversationShape, TuiOK, TuiFields, Launch, Off, NoMemory,
           EmptyMemory
  <2>2. CASE Quit(p)
    BY LeavesKinds, <2>2
       DEF ConversationInv, ConversationShape, TuiOK, TuiFields, Quit, Off, NoMemory,
           EmptyMemory
  <2>3. CASE Kill(p)
    BY LeavesKinds, <2>3
       DEF ConversationInv, ConversationShape, TuiOK, TuiFields, Kill, Off, NoMemory,
           EmptyMemory
  <2> QED  BY <2>1, <2>2, <2>3
<1>3. TuiOK(p)'
  BY <1>2, LeavesKinds
     DEF ConversationInv, ConversationShape, TuiOK, TuiFields, Recording, Launch, Quit, Kill,
         Nothing
<1> QED  BY <1>1, <1>2, <1>3, TerminalMoves

LEMMA Asks ==
    ASSUME ConversationInv, NEW p \in Terminal, Switch(p) \/ Submit(p) \/ ClearConversation(p)
    PROVE  ConversationInv'
<1>1. /\ DOMAIN tui' = Terminal /\ \A q \in Terminal : q # p => tui'[q] = tui[q]
      /\ current' \in Nat /\ sessions' \in Nat /\ UNCHANGED <<log, exchanges, served>>
  BY DEF ConversationInv, ConversationShape, Switch, Submit, ClearConversation, NewSession,
         NoMemory, EmptyMemory, Recording
<1>2. /\ DOMAIN tui'[p] = TuiFields /\ DOMAIN tui'[p].memory = {"session", "turns", "tools"}
      /\ tui'[p].at = "load" /\ tui'[p].next \in {"rest", "turn", "clear"}
      /\ tui'[p].todo = tui[p].todo
      /\ tui'[p].exchange = Nothing /\ tui'[p].exchange = tui[p].exchange
      /\ tui'[p].memory.session \in {tui[p].memory.session, Nothing}
  <2>1. CASE Switch(p)
    BY ZenonT(60), LeavesKinds, <2>1
       DEF ConversationInv, ConversationShape, TuiOK, TuiFields, Switch, NewSession, NoMemory,
           EmptyMemory, Recording
  <2>2. CASE Submit(p)
    BY SMTT(60), LeavesKinds, <2>2
       DEF ConversationInv, ConversationShape, TuiOK, TuiFields, Submit, NewSession, NoMemory,
           EmptyMemory, Recording
  <2>3. CASE ClearConversation(p)
    BY ZenonT(60), LeavesKinds, <2>3
       DEF ConversationInv, ConversationShape, TuiOK, TuiFields, ClearConversation,
           NewSession, NoMemory, EmptyMemory, Recording
  <2> QED  BY <2>1, <2>2, <2>3
<1>3. TuiOK(p)'
  BY <1>2, LeavesKinds
     DEF ConversationInv, ConversationShape, TuiOK, TuiFields, Recording, Switch, Submit,
         ClearConversation, Nothing
<1> QED  BY <1>1, <1>2, <1>3, TerminalMoves

LEMMA Loads ==
    ASSUME ConversationInv, NEW p \in Terminal, Load(p)
    PROVE  ConversationInv'
<1>1. /\ DOMAIN tui' = Terminal /\ \A q \in Terminal : q # p => tui'[q] = tui[q]
      /\ current' \in Nat /\ sessions' \in Nat /\ UNCHANGED <<log, exchanges, served>>
  BY DEF ConversationInv, ConversationShape, Load, Restored, Recording
<1>2. /\ DOMAIN tui'[p] = TuiFields /\ DOMAIN tui'[p].memory = {"session", "turns", "tools"}
      /\ tui'[p].at = tui[p].next /\ tui'[p].next = "rest"
      /\ tui'[p].todo = tui[p].todo
      /\ tui'[p].exchange = Nothing /\ tui'[p].exchange = tui[p].exchange
      /\ tui'[p].memory.session \in Nat
  BY ZenonT(60), LeavesKinds
     DEF ConversationInv, ConversationShape, TuiOK, TuiFields, Load, Restored, Recording
<1>3. TuiOK(p)'
  BY <1>2, LeavesKinds
     DEF ConversationInv, ConversationShape, TuiOK, TuiFields, Recording, Load, Nothing
<1> QED  BY <1>1, <1>2, <1>3, TerminalMoves

LEMMA BindsSession ==
    ASSUME ConversationInv, NEW p \in Terminal, Bind(p)
    PROVE  ConversationInv'
<1>1. /\ DOMAIN tui' = Terminal /\ \A q \in Terminal : q # p => tui'[q] = tui[q]
      /\ current' \in Nat /\ sessions' \in Nat /\ UNCHANGED <<log, exchanges, served>>
  BY DEF ConversationInv, ConversationShape, Bind
<1>2. /\ DOMAIN tui'[p] = TuiFields /\ DOMAIN tui'[p].memory = {"session", "turns", "tools"}
      /\ \/ tui'[p].at = "append" /\ tui'[p].exchange = tui[p].exchange
         \/ tui'[p].at = "rest" /\ tui'[p].exchange = Nothing
      /\ tui'[p].todo \in Seq(Kinds) /\ tui'[p].next = tui[p].next
      /\ tui'[p].memory.session = tui[p].memory.session
  BY SMTT(60), LeavesKinds DEF ConversationInv, ConversationShape, TuiOK, TuiFields, Bind
<1>3. TuiOK(p)'
  BY <1>2, LeavesKinds DEF ConversationInv, ConversationShape, TuiOK, TuiFields, Recording, Bind
<1> QED  BY <1>1, <1>2, <1>3, TerminalMoves

LEMMA BindsReset ==
    ASSUME ConversationInv, NEW p \in Terminal, BindReset(p)
    PROVE  ConversationInv'
<1>1. /\ DOMAIN tui' = Terminal /\ \A q \in Terminal : q # p => tui'[q] = tui[q]
      /\ current' \in Nat /\ sessions' \in Nat /\ UNCHANGED <<log, exchanges, served>>
  BY DEF ConversationInv, ConversationShape, BindReset, Recording
<1>2. /\ DOMAIN tui'[p] = TuiFields /\ DOMAIN tui'[p].memory = {"session", "turns", "tools"}
      /\ tui'[p].at \in {"append", "rest"} /\ tui'[p].next = tui[p].next
      /\ tui'[p].todo \in Seq(Kinds)
      /\ tui'[p].exchange = Nothing
      /\ tui'[p].memory.session = tui[p].memory.session
  BY SMTT(60), LeavesKinds DEF ConversationInv, ConversationShape, TuiOK, TuiFields, BindReset, Recording
<1>3. TuiOK(p)'
  BY <1>2, LeavesKinds
     DEF ConversationInv, ConversationShape, TuiOK, TuiFields, Recording, BindReset, Nothing
<1> QED  BY <1>1, <1>2, <1>3, TerminalMoves

LEMMA Drops ==
    ASSUME ConversationInv, NEW p \in Terminal, AppendFails(p) \/ Finish(p)
    PROVE  ConversationInv'
<1>1. /\ DOMAIN tui' = Terminal /\ \A q \in Terminal : q # p => tui'[q] = tui[q]
      /\ current' \in Nat /\ sessions' \in Nat /\ UNCHANGED <<log, exchanges, served>>
  BY DEF ConversationInv, ConversationShape, AppendFails, Finish, EmptyMemory
<1>2. /\ DOMAIN tui'[p] = TuiFields /\ DOMAIN tui'[p].memory = {"session", "turns", "tools"}
      /\ tui'[p].at = "rest" /\ tui'[p].next = tui[p].next
      /\ tui'[p].todo \in Seq(Kinds)
      /\ tui'[p].exchange = Nothing
      /\ tui'[p].memory.session = tui[p].memory.session
  <2>1. CASE AppendFails(p)
    BY LeavesKinds, <2>1
       DEF ConversationInv, ConversationShape, TuiOK, TuiFields, AppendFails, EmptyMemory
  <2>2. CASE Finish(p)
    BY LeavesKinds, <2>2
       DEF ConversationInv, ConversationShape, TuiOK, TuiFields, Finish, EmptyMemory
  <2> QED  BY <2>1, <2>2
<1>3. TuiOK(p)'
  BY <1>2, LeavesKinds
     DEF ConversationInv, ConversationShape, TuiOK, TuiFields, Recording, AppendFails, Finish,
         Nothing
<1> QED  BY <1>1, <1>2, <1>3, TerminalMoves

(* A turn starts an exchange, which takes the session of its memory. *)
LEMMA Turns ==
    ASSUME ConversationInv, NEW p \in Terminal, Turn(p)
    PROVE  ConversationInv'
<1>1. /\ DOMAIN tui' = Terminal /\ \A q \in Terminal : q # p => tui'[q] = tui[q]
      /\ exchanges' = exchanges + 1 /\ exchanges + 1 \in 1 .. MaxExchanges
      /\ UNCHANGED <<log, current, sessions>>
  BY ConversationAssumption DEF ConversationInv, ConversationShape, Turn
<1>2. /\ DOMAIN served' = 1 .. MaxExchanges
      /\ served'[exchanges + 1] = tui[p].memory.session
      /\ \A x \in 1 .. exchanges : served'[x] = served[x]
  BY <1>1, ConversationAssumption DEF ConversationInv, ConversationShape, Turn
<1>3. /\ DOMAIN tui'[p] = TuiFields /\ DOMAIN tui'[p].memory = {"session", "turns", "tools"}
      /\ tui'[p].at = "bind" /\ tui'[p].next = tui[p].next
      /\ tui'[p].exchange = exchanges + 1 /\ tui'[p].reply \in {"reply", "cancelled"}
      /\ tui'[p].todo \in Seq(Kinds)
      /\ tui'[p].memory.session = tui[p].memory.session
  BY LeavesKinds DEF ConversationInv, ConversationShape, TuiOK, TuiFields, Turn
<1>4. \A q \in Terminal : TuiOK(q)'
  BY SMTT(60), <1>1, <1>3 DEF ConversationInv, ConversationShape, TuiOK, Recording
<1>5. ConversationShape'
  BY <1>1, <1>2, <1>4 DEF ConversationInv, ConversationShape
<1>6. \A q \in Terminal : tui[q].exchange \in Nat
  BY DEF ConversationInv, ConversationShape, TuiOK
<1>7. \A i \in 1 .. Len(log) : log[i].exchange \in Nat
  <2>1. \A i \in 1 .. Len(log) : log[i] \in Record
    BY DEF ConversationInv, ConversationShape
  <2> QED  BY <2>1 DEF Record
<1>8. exchanges \in Nat
  BY DEF ConversationInv, ConversationShape
<1>9. SessionKept'
  BY <1>1, <1>2, <1>7, <1>8 DEF ConversationInv, Served, SessionKept, Nothing
<1> QED
  BY <1>1, <1>2, <1>3, <1>5, <1>6, <1>7, <1>8, <1>9 DEF ConversationInv, Served, Nothing

LEMMA Appends ==
    ASSUME ConversationInv, NEW p \in Terminal, AppendRecord(p)
    PROVE  ConversationInv'
<1> DEFINE r == [session |-> tui[p].memory.session, exchange |-> tui[p].exchange,
                 kind |-> Head(tui[p].todo)]
<1>1. /\ DOMAIN tui' = Terminal /\ \A q \in Terminal : q # p => tui'[q] = tui[q]
      /\ log' = Append(log, r) /\ UNCHANGED <<current, sessions, exchanges, served>>
  BY DEF ConversationInv, ConversationShape, AppendRecord
<1>2. /\ DOMAIN tui'[p] = TuiFields /\ DOMAIN tui'[p].memory = {"session", "turns", "tools"}
      /\ tui'[p].at = "append" /\ tui'[p].next = tui[p].next
      /\ tui'[p].exchange = tui[p].exchange /\ tui'[p].todo \in Seq(Kinds)
      /\ tui'[p].memory.session = tui[p].memory.session
  BY DEF ConversationInv, ConversationShape, TuiOK, TuiFields, AppendRecord
<1>3. \A q \in Terminal : TuiOK(q)'
  BY ZenonT(60), <1>1, <1>2 DEF ConversationInv, ConversationShape, TuiOK, Recording
<1>4. r \in Record
  BY DEF ConversationInv, ConversationShape, TuiOK, Record, AppendRecord
<1>5. r.exchange # Nothing => r.exchange <= exchanges /\ r.session = served[r.exchange]
  BY DEF ConversationInv, Served
<1>6. 0 <= exchanges
  BY DEF ConversationInv, ConversationShape
<1> HIDE DEF r
<1>7. /\ Len(log') = Len(log) + 1 /\ log'[Len(log) + 1] = r /\ log' \in Seq(Record)
      /\ Len(log) \in Nat /\ \A i \in 1 .. Len(log) : log'[i] = log[i]
  BY <1>1, <1>4 DEF ConversationInv, ConversationShape
<1>8. ConversationShape'
  BY <1>1, <1>3, <1>7 DEF ConversationInv, ConversationShape
<1>9. SessionKept'
  BY <1>1, <1>5, <1>7 DEF ConversationInv, Served, SessionKept
<1>10. \A i \in 1 .. Len(log') : log'[i].exchange <= exchanges
  BY <1>5, <1>6, <1>7 DEF ConversationInv, Served, Nothing
<1> QED  BY <1>1, <1>2, <1>8, <1>9, <1>10 DEF ConversationInv, Served

LEMMA ConversationStarts == ConversationInit => ConversationInv
<1> SUFFICES ASSUME ConversationInit
             PROVE  ConversationInv
  OBVIOUS
<1>1. \A p \in Terminal : tui[p] = Off
  BY DEF ConversationInit
<1>2. <<>> \in Seq(Record) /\ Len(log) = 0
  BY DEF ConversationInit
<1>3. \A p \in Terminal : TuiOK(p)
  <2>1. /\ DOMAIN Off = TuiFields /\ Off.at = "off" /\ Off.next = "rest" /\ Off.exchange = Nothing
        /\ Off.todo = <<>> /\ Off.memory = NoMemory
    BY DEF Off, TuiFields
  <2>2. DOMAIN NoMemory = {"session", "turns", "tools"} /\ NoMemory.session = Nothing
    BY DEF NoMemory, EmptyMemory
  <2>3. <<>> \in Seq(Kinds) /\ Nothing \in Nat
    BY DEF Nothing
  <2> QED  BY <1>1, <2>1, <2>2, <2>3 DEF TuiOK, Recording
<1>4. ConversationShape
  BY <1>2, <1>3, ConversationAssumption DEF ConversationInit, ConversationShape
<1>5. Served
  BY <1>1, <1>2 DEF Served, SessionKept, Off, Nothing
<1> QED  BY <1>4, <1>5 DEF ConversationInv

LEMMA ConversationSteps ==
    ConversationInv /\ [ConversationNext]_conversationVars => ConversationInv'
<1> SUFFICES ASSUME ConversationInv, [ConversationNext]_conversationVars
             PROVE  ConversationInv'
  OBVIOUS
<1>1. ASSUME UNCHANGED <<log, tui, exchanges, served>>, current' \in Nat, sessions' \in Nat
      PROVE  ConversationInv'
  BY <1>1 DEF ConversationInv, ConversationShape, TuiOK, Served, SessionKept
<1>2. CASE Elsewhere
  <2>1. current' \in Nat /\ sessions' \in Nat
    BY <1>2 DEF ConversationInv, ConversationShape, Elsewhere, NewSession
  <2> QED  BY <1>1, <1>2, <2>1 DEF Elsewhere
<1>3. CASE UNCHANGED conversationVars
  BY <1>1, <1>3 DEF conversationVars, ConversationInv, ConversationShape
<1> QED
  BY <1>2, <1>3, Leaves, Asks, Loads, Turns, BindsSession, BindsReset, Appends, Drops
     DEF ConversationNext

(* What a terminal has yet to record of its exchange. *)
UserNext == {<<"user", "reply">>, <<"user", "reply", "tool">>}
ReplyNext == {<<"reply">>, <<"reply", "tool">>}
ToolNext == {<<>>, <<"tool">>}

(* A memory is true of the log: what it has was recorded in its session. *)
MemoryTrue(m) ==
    /\ m.turns \in Seq(Pairs) /\ m.tools \in Seq(Nat) /\ Len(m.tools) <= MaxTools
    /\ \A x \in ToSet(m.tools) :
          \E i \in 1 .. Len(log) :
             log[i] = [session |-> m.session, exchange |-> x, kind |-> "tool"]
    /\ Alone(m.session)
         => \A t \in ToSet(m.turns) : t.user = t.reply /\ Replied(t.reply, m.session)

TuiStep(p) ==
    /\ tui[p].at \in {"off", "rest", "load", "turn", "clear", "bind", "append"}
    /\ tui[p].at \notin Recording => tui[p].todo = <<>>
    /\ tui[p].at = "bind" => tui[p].exchange # Nothing /\ tui[p].todo \in ToolNext
    /\ tui[p].at = "append" /\ tui[p].exchange = Nothing
         => tui[p].reply = "reset" /\ tui[p].todo \in {<<>>, <<"reset">>}
    /\ tui[p].at = "append" /\ tui[p].exchange # Nothing
         => \/ tui[p].reply = "reply" /\ tui[p].todo \in UserNext \cup ReplyNext \cup ToolNext
            \/ tui[p].reply = "cancelled" /\ tui[p].todo \in ToolNext
    /\ tui[p].memory.session <= sessions
    /\ tui[p].at \in {"turn", "clear", "bind", "append"} => tui[p].memory.session # Nothing

(* An exchange records its request, then its reply, then its tools. *)
Unreplied(x) == \A k \in 1 .. Len(log) : ~(log[k].kind = "reply" /\ log[k].exchange = x)
Asked(x, s) == \E k \in 1 .. Len(log) :
                   log[k].kind = "user" /\ log[k].exchange = x /\ log[k].session = s
TuiStage(p) ==
    LET x == tui[p].exchange
        s == tui[p].memory.session
    IN  /\ tui[p].at = "bind" \/ tui[p].todo \in UserNext \cup ReplyNext => Unreplied(x)
        /\ tui[p].todo \in ReplyNext => Asked(x, s)
        /\ tui[p].at = "append" /\ tui[p].reply = "reply" /\ tui[p].todo \in ToolNext
             => Replied(x, s)

ConversationTold ==
    /\ current \in 1 .. sessions /\ sessions <= MaxSessions
    /\ Logged
    /\ \A i \in 1 .. Len(log) : log[i].session \in 1 .. sessions
    /\ \A p \in Terminal : TuiStep(p) /\ TuiStage(p) /\ MemoryTrue(tui[p].memory)
    /\ \A p, q \in Terminal :
          p # q /\ tui[p].exchange # Nothing => tui[p].exchange # tui[q].exchange
    /\ told \subseteq 1 .. exchanges /\ \A x \in told : Replied(x, served[x])

(* What a restart restores is true of the log, and has every pair that was not cleared. *)
LEMMA RestoredTrue ==
    ASSUME Logged, NEW s
    PROVE  /\ Restored(s).session = s /\ DOMAIN Restored(s) = {"session", "turns", "tools"}
           /\ MemoryTrue(Restored(s))
           /\ Alone(s)
                => \A x : Replied(x, s) /\ ~ClearedAfter(x)
                             => Pair(x, x) \in ToSet(Restored(s).turns)
<1> DEFINE n == Len(log)
<1>1. log \in Seq(Record) /\ n \in Nat /\ n \in 0 .. n
  BY DEF Logged
<1>2. PICK f : /\ Adds(f, s)
               /\ Restored(s) = [session |-> s, turns |-> f[n].turns, tools |-> f[n].tools]
  BY <1>1, RestoredSums
<1>3. /\ f[n] \in Sums /\ Len(f[n].tools) <= MaxTools
      /\ \A x \in ToSet(f[n].tools) :
            \E i \in 1 .. Len(log) : log[i] = [session |-> s, exchange |-> x, kind |-> "tool"]
  BY <1>1, <1>2, SumsTyped
<1>4. Alone(s) => Whole(f, s, n) /\ Stays(f, s, n)
  BY <1>1, <1>2, SumsPaired
<1>5. MemoryTrue(Restored(s))
  BY <1>2, <1>3, <1>4 DEF Sums, MemoryTrue, Whole
<1>6. ASSUME Alone(s), NEW x, Replied(x, s), ~ClearedAfter(x)
      PROVE  Pair(x, x) \in ToSet(Restored(s).turns)
  <2>1. PICK k \in 1 .. n : log[k].kind = "reply" /\ log[k].exchange = x /\ log[k].session = s
    BY <1>6 DEF Replied
  <2>2. \A j \in k .. n : ~(log[j].kind = "reset" /\ log[j].session = s)
    BY <1>6, <2>1 DEF ClearedAfter
  <2>3. Stays(f, s, n)
    BY <1>4, <1>6
  <2> HIDE DEF n
  <2>4. Pair(x, x) \in ToSet(f[n].turns)
    BY <2>1, <2>2, <2>3 DEF Stays
  <2> QED  BY <1>2, <2>4
<1> QED  BY <1>2, <1>5, <1>6

(* The log only grows: what is on it stays, and a session recorded out of turn stays so. *)
Grows ==
    /\ Len(log) <= Len(log') /\ Len(log) \in Nat /\ Len(log') \in Nat
    /\ \A i \in 1 .. Len(log) : log'[i] = log[i]

LEMMA OnRecord ==
    ASSUME Grows
    PROVE  /\ \A s, x : Replied(x, s) => Replied(x, s)'
           /\ \A s, x : Asked(x, s) => Asked(x, s)'
           /\ \A s : Alone(s)' => Alone(s)
           /\ \A m : MemoryTrue(m) => MemoryTrue(m)'
<1>1. \A s, x : Replied(x, s) => Replied(x, s)'
  BY DEF Grows, Replied
<1>2. \A s, x : Asked(x, s) => Asked(x, s)'
  BY DEF Grows, Asked
<1>3. \A s : Alone(s)' => Alone(s)
  <2> SUFFICES ASSUME NEW s, Alone(s)' PROVE Alone(s)
    OBVIOUS
  <2>1. \A i \in 1 .. Len(log) : i \in 1 .. Len(log') /\ log'[i] = log[i]
    BY DEF Grows
  <2> QED  BY <2>1 DEF Alone
<1>4. ASSUME NEW m, MemoryTrue(m) PROVE MemoryTrue(m)'
  <2>1. \A x \in ToSet(m.tools) :
          \E i \in 1 .. Len(log') :
             log'[i] = [session |-> m.session, exchange |-> x, kind |-> "tool"]
    BY <1>4 DEF Grows, MemoryTrue
  <2> QED  BY <1>1, <1>3, <1>4, <2>1 DEF MemoryTrue
<1> QED  BY <1>1, <1>2, <1>3, <1>4

LEMMA ConversationIsTrue ==
    ASSUME ConversationInv, ConversationTold PROVE ConversationTrue
<1>1. Logged
  BY DEF ConversationTold
<1>2. ConversationTypeOK
  <2>1. \A i \in 1 .. Len(log) : log[i] \in Record
    BY <1>1 DEF Logged
  <2>2. \A i \in 1 .. Len(log) : log[i].exchange \in 0 .. exchanges /\ log[i].kind \in Kinds
    BY <2>1 DEF ConversationInv, ConversationShape, Served, Record
  <2>3. \A p \in Terminal : Len(tui[p].todo) <= 3
    <3> SUFFICES ASSUME NEW p \in Terminal PROVE Len(tui[p].todo) <= 3
      OBVIOUS
    <3>1. TuiStep(p)
      BY DEF ConversationTold
    <3>2. tui[p].todo \in UserNext \cup ReplyNext \cup ToolNext \cup {<<"reset">>}
      BY <3>1 DEF TuiStep, ToolNext, Recording
    <3>3. \A seq \in UserNext \cup ReplyNext \cup ToolNext \cup {<<"reset">>} : Len(seq) <= 3
      <4>1. /\ Len(<<>>) <= 3 /\ Len(<<"tool">>) <= 3 /\ Len(<<"reset">>) <= 3
            /\ Len(<<"reply">>) <= 3 /\ Len(<<"reply", "tool">>) <= 3
            /\ Len(<<"user", "reply">>) <= 3 /\ Len(<<"user", "reply", "tool">>) <= 3
        OBVIOUS
      <4> QED  BY <4>1, Zenon DEF UserNext, ReplyNext, ToolNext
    <3> QED  BY <3>2, <3>3
  <2>4. sessions \in 1 .. MaxSessions /\ exchanges \in 0 .. MaxExchanges
    BY ConversationAssumption DEF ConversationTold, ConversationInv, ConversationShape
  <2>5. ASSUME NEW p \in Terminal
        PROVE  /\ tui[p].at \in {"off", "rest", "load", "turn", "clear", "bind", "append"}
               /\ tui[p].memory.session \in 0 .. sessions
               /\ Len(tui[p].memory.tools) <= MaxTools
    BY DEF ConversationTold, TuiStep, MemoryTrue, ConversationInv, ConversationShape, TuiOK
  <2> QED  BY <2>2, <2>3, <2>4, <2>5 DEF ConversationTypeOK, ConversationTold
<1>3. PairsTrue
  BY <1>1, RestoredTrue DEF PairsTrue, MemoryTrue
<1>4. ToldKept
  BY <1>1, RestoredTrue DEF ToldKept, ConversationTold
<1>5. MemoryDurable
  <2> SUFFICES ASSUME NEW p \in Terminal, Alone(tui[p].memory.session)
               PROVE  /\ \A t \in ToSet(tui[p].memory.turns)
                               \ ToSet(Restored(tui[p].memory.session).turns) :
                           ClearedAfter(t.reply)
                      /\ \A x \in ToSet(tui[p].memory.tools) :
                            [session |-> tui[p].memory.session, exchange |-> x, kind |-> "tool"]
                              \in ToSet(log)
    BY DEF MemoryDurable
  <2> DEFINE m == tui[p].memory
  <2>1. MemoryTrue(m)
    BY DEF ConversationTold
  <2> HIDE DEF m
  <2>2. ASSUME NEW t \in ToSet(m.turns), t \notin ToSet(Restored(m.session).turns)
        PROVE  ClearedAfter(t.reply)
    <3>1. t \in Pairs /\ t.user = t.reply /\ Replied(t.reply, m.session)
      BY <2>1 DEF MemoryTrue, ToSet, m
    <3>2. t = Pair(t.reply, t.reply)
      BY <3>1 DEF Pairs, Pair
    <3> QED  BY <1>1, <2>2, <3>1, <3>2, RestoredTrue DEF m
  <2>3. ASSUME NEW x \in ToSet(m.tools)
        PROVE  [session |-> m.session, exchange |-> x, kind |-> "tool"] \in ToSet(log)
    <3>1. DOMAIN log = 1 .. Len(log)
      BY <1>1 DEF Logged
    <3> QED  BY <2>1, <2>3, <3>1 DEF MemoryTrue, ToSet
  <2> QED  BY <2>2, <2>3 DEF m
<1>6. SessionKept
  BY DEF ConversationInv, Served
<1> QED  BY <1>2, <1>3, <1>4, <1>5, <1>6 DEF ConversationTrue

(* One terminal moves, and the log does not. *)
LEMMA TellsStill ==
    ASSUME ConversationInv, ConversationTold, ConversationInv', NEW p \in Terminal,
           \A q \in Terminal : q # p => tui'[q] = tui[q],
           TuiStep(p)', TuiStage(p)', MemoryTrue(tui'[p].memory),
           tui'[p].exchange \in {tui[p].exchange, Nothing},
           current' \in 1 .. sessions', sessions <= sessions', sessions' <= MaxSessions,
           UNCHANGED <<log, exchanges, served>>,
           told' \subseteq 1 .. exchanges, \A x \in told' : Replied(x, served[x])
    PROVE  ConversationTold'
<1>1. /\ Logged' /\ \A m : MemoryTrue(m) => MemoryTrue(m)'
      /\ \A s, x : Replied(x, s) => Replied(x, s)'
  BY DEF ConversationTold, Logged, MemoryTrue, Replied, Alone
<1>2. \A i \in 1 .. Len(log') : log'[i].session \in 1 .. sessions'
  BY DEF ConversationTold, ConversationInv, ConversationShape
<1>3. ASSUME NEW q \in Terminal
      PROVE  TuiStep(q)' /\ TuiStage(q)' /\ MemoryTrue(tui[q].memory)'
  <2>1. CASE q = p
    BY <1>1, <2>1
  <2>2. CASE q # p
    <3>1. tui'[q] = tui[q] /\ TuiStep(q) /\ TuiStage(q) /\ MemoryTrue(tui[q].memory)
      BY <2>2 DEF ConversationTold
    <3>2. TuiStep(q)'
      BY <3>1 DEF TuiStep, ConversationInv, ConversationShape, TuiOK
    <3>3. TuiStage(q)'
      BY <3>1 DEF TuiStage, Unreplied, Asked, Replied
    <3> QED  BY <1>1, <3>1, <3>2, <3>3
  <2> QED  BY <2>1, <2>2
<1>4. \A q, r \in Terminal :
        q # r /\ tui'[q].exchange # Nothing => tui'[q].exchange # tui'[r].exchange
  BY DEF ConversationTold
<1>5. told' \subseteq 1 .. exchanges' /\ \A x \in told' : Replied(x, served[x])'
  BY <1>1
<1> QED  BY <1>1, <1>2, <1>3, <1>4, <1>5 DEF ConversationTold

(* The steps of a terminal that has nothing to record, and a memory that is true. *)
LEMMA TellsNothing ==
    ASSUME ConversationInv, ConversationTold, ConversationInv', NEW p \in Terminal,
           \A q \in Terminal : q # p => tui'[q] = tui[q],
           tui'[p].at \in {"off", "rest", "load", "turn", "clear"}, tui'[p].todo = <<>>,
           tui'[p].exchange = Nothing,
           tui'[p].memory.session <= sessions',
           tui'[p].at \in {"turn", "clear"} => tui'[p].memory.session # Nothing,
           MemoryTrue(tui'[p].memory),
           current' \in 1 .. sessions', sessions <= sessions', sessions' <= MaxSessions,
           UNCHANGED <<log, exchanges, served, told>>
    PROVE  ConversationTold'
<1>1. TuiStep(p)'
  BY DEF TuiStep, Recording
<1>2. TuiStage(p)'
  <2>1. <<>> \notin UserNext \cup ReplyNext
    BY DEF UserNext, ReplyNext
  <2> QED  BY <2>1 DEF TuiStage
<1> QED  BY <1>1, <1>2, TellsStill DEF ConversationTold

LEMMA NoMemoryTrue == \A s : MemoryTrue(EmptyMemory(s))
<1>1. <<>> \in Seq(Pairs) /\ <<>> \in Seq(Nat) /\ Len(<<>>) <= MaxTools /\ ToSet(<<>>) = {}
  BY ConversationAssumption DEF ToSet
<1> QED  BY <1>1 DEF MemoryTrue, EmptyMemory

LEMMA TellsLeaves ==
    ASSUME ConversationInv, ConversationTold, ConversationInv', NEW p \in Terminal,
           Launch(p) \/ Quit(p) \/ Kill(p)
    PROVE  ConversationTold'
<1>1. /\ \A q \in Terminal : q # p => tui'[q] = tui[q]
      /\ UNCHANGED <<current, sessions, log, exchanges, served, told>>
  BY DEF ConversationInv, ConversationShape, Launch, Quit, Kill
<1>2. /\ tui'[p].at \in {"off", "rest"} /\ tui'[p].todo = <<>> /\ tui'[p].exchange = Nothing
      /\ tui'[p].memory = NoMemory
  <2>1. /\ Off.at = "off" /\ Off.todo = <<>> /\ Off.exchange = Nothing /\ Off.memory = NoMemory
        /\ "at" \in DOMAIN Off
    BY DEF Off
  <2>2. CASE Launch(p)
    BY <2>2 DEF ConversationInv, ConversationShape, Launch, Off
  <2>3. CASE Quit(p) \/ Kill(p)
    BY <2>1, <2>3 DEF ConversationInv, ConversationShape, Quit, Kill
  <2> QED  BY <2>2, <2>3
<1>3. MemoryTrue(NoMemory) /\ NoMemory.session = 0
  BY NoMemoryTrue DEF NoMemory, EmptyMemory, Nothing
<1>4. /\ current' \in 1 .. sessions' /\ sessions <= sessions' /\ sessions' <= MaxSessions
      /\ 0 <= sessions
  BY <1>1 DEF ConversationTold, ConversationInv, ConversationShape
<1> QED  BY <1>1, <1>2, <1>3, <1>4, TellsNothing

LEMMA TellsAsks ==
    ASSUME ConversationInv, ConversationTold, ConversationInv', NEW p \in Terminal,
           Switch(p) \/ Submit(p) \/ ClearConversation(p)
    PROVE  ConversationTold'
<1>1. TuiOK(p) /\ TuiStep(p) /\ MemoryTrue(tui[p].memory) /\ tui[p].at = "rest"
  BY DEF ConversationInv, ConversationShape, ConversationTold, Switch, Submit, ClearConversation
<1>2. /\ \A q \in Terminal : q # p => tui'[q] = tui[q]
      /\ UNCHANGED <<log, exchanges, served, told>>
  BY DEF ConversationInv, ConversationShape, Switch, Submit, ClearConversation
<1>3. current' \in 1 .. sessions' /\ sessions <= sessions' /\ sessions' <= MaxSessions
  BY SMTT(60), ConversationAssumption
     DEF ConversationInv, ConversationShape, ConversationTold, Switch, Submit, ClearConversation,
         NewSession
<1>4. /\ tui'[p].at = "load" /\ tui'[p].todo = <<>> /\ tui'[p].exchange = Nothing
      /\ tui'[p].memory \in {tui[p].memory, NoMemory}
  <2>1. tui[p].todo = <<>> /\ tui[p].exchange = Nothing
    BY <1>1 DEF TuiStep, TuiOK, Recording
  <2>2. CASE Switch(p)
    BY <1>1, <2>1, <2>2 DEF ConversationInv, ConversationShape, TuiOK, TuiFields, Switch
  <2>3. CASE Submit(p)
    BY <1>1, <2>1, <2>3 DEF ConversationInv, ConversationShape, TuiOK, TuiFields, Submit
  <2>4. CASE ClearConversation(p)
    BY <1>1, <2>1, <2>4
       DEF ConversationInv, ConversationShape, TuiOK, TuiFields, ClearConversation
  <2> QED  BY <2>2, <2>3, <2>4
<1>5. MemoryTrue(NoMemory) /\ NoMemory.session = 0
  BY NoMemoryTrue DEF NoMemory, EmptyMemory, Nothing
<1>6. tui'[p].memory.session <= sessions' /\ MemoryTrue(tui'[p].memory)
  <2>1. tui[p].memory.session <= sessions /\ tui[p].memory.session \in Nat
    BY <1>1 DEF TuiStep, TuiOK
  <2>2. sessions \in Nat /\ sessions' \in Nat
    BY DEF ConversationInv, ConversationShape
  <2> QED  BY <1>1, <1>3, <1>4, <1>5, <2>1, <2>2
<1> QED  BY <1>2, <1>3, <1>4, <1>6, TellsNothing

LEMMA TellsLoads ==
    ASSUME ConversationInv, ConversationTold, ConversationInv', NEW p \in Terminal, Load(p)
    PROVE  ConversationTold'
<1>1. TuiOK(p) /\ TuiStep(p) /\ MemoryTrue(tui[p].memory) /\ tui[p].at = "load"
  BY DEF ConversationInv, ConversationShape, ConversationTold, Load
<1>2. /\ \A q \in Terminal : q # p => tui'[q] = tui[q]
      /\ UNCHANGED <<current, sessions, log, exchanges, served, told>>
  BY DEF ConversationInv, ConversationShape, Load
<1>3. /\ current' \in 1 .. sessions' /\ sessions <= sessions' /\ sessions' <= MaxSessions
      /\ current <= sessions' /\ current # Nothing
  BY <1>2 DEF ConversationInv, ConversationShape, ConversationTold, Nothing
<1> DEFINE loaded == IF tui[p].memory.session = current THEN tui[p].memory ELSE Restored(current)
<1>4. MemoryTrue(loaded) /\ loaded.session = current
  BY <1>1, RestoredTrue DEF ConversationTold
<1>5. /\ tui'[p].at \in {"rest", "turn", "clear"} /\ tui'[p].todo = <<>>
      /\ tui'[p].exchange = Nothing /\ tui'[p].memory = loaded
  <2>1. tui[p].todo = <<>> /\ tui[p].exchange = Nothing
    BY <1>1 DEF TuiStep, TuiOK, Recording
  <2> QED  BY <1>1, <2>1 DEF ConversationInv, ConversationShape, TuiOK, TuiFields, Load
<1> HIDE DEF loaded
<1> QED  BY <1>2, <1>3, <1>4, <1>5, TellsNothing

(* What is recorded next, and what is left after it. *)
LEMMA NextRecord ==
    /\ \A seq \in UserNext : seq # <<>> /\ Head(seq) = "user" /\ Tail(seq) \in ReplyNext
    /\ \A seq \in ReplyNext : seq # <<>> /\ Head(seq) = "reply" /\ Tail(seq) \in ToolNext
    /\ \A seq \in ToolNext : seq = <<>> \/ (Head(seq) = "tool" /\ Tail(seq) = <<>>)
    /\ <<"reset">> # <<>> /\ Head(<<"reset">>) = "reset" /\ Tail(<<"reset">>) = <<>>
    /\ \A tools \in ToolNext : /\ Records("reply", tools) \in UserNext
                               /\ Records("cancelled", tools) \in ToolNext
<1>1. /\ Tail(<<"user", "reply">>) = <<"reply">> /\ Head(<<"user", "reply">>) = "user"
      /\ Tail(<<"user", "reply", "tool">>) = <<"reply", "tool">>
      /\ Head(<<"user", "reply", "tool">>) = "user"
      /\ Tail(<<"reply">>) = <<>> /\ Head(<<"reply">>) = "reply"
      /\ Tail(<<"reply", "tool">>) = <<"tool">> /\ Head(<<"reply", "tool">>) = "reply"
      /\ Tail(<<"tool">>) = <<>> /\ Head(<<"tool">>) = "tool"
      /\ <<"user", "reply">> # <<>> /\ <<"user", "reply", "tool">> # <<>>
      /\ <<"reply">> # <<>> /\ <<"reply", "tool">> # <<>>
  OBVIOUS
<1>2. \A seq \in UserNext : seq # <<>> /\ Head(seq) = "user" /\ Tail(seq) \in ReplyNext
  BY <1>1, Zenon DEF UserNext, ReplyNext
<1>3. \A seq \in ReplyNext : seq # <<>> /\ Head(seq) = "reply" /\ Tail(seq) \in ToolNext
  BY <1>1, Zenon DEF ReplyNext, ToolNext
<1>4. \A seq \in ToolNext : seq = <<>> \/ (Head(seq) = "tool" /\ Tail(seq) = <<>>)
  BY <1>1, Zenon DEF ToolNext
<1>5. <<"reset">> # <<>> /\ Head(<<"reset">>) = "reset" /\ Tail(<<"reset">>) = <<>>
  OBVIOUS
<1>6. \A tools \in ToolNext : /\ Records("reply", tools) \in UserNext
                              /\ Records("cancelled", tools) \in ToolNext
  <2>1. <<"user", "reply">> \in Seq(Kinds) /\ "tool" \in Kinds
    BY DEF Kinds
  <2>2. <<"user", "reply">> \o <<>> = <<"user", "reply">>
    BY <2>1, ConcatEmptySeq
  <2>3. <<"user", "reply">> \o <<"tool">> = Append(<<"user", "reply">>, "tool")
    BY <2>1, AppendIsConcat
  <2>4. Append(<<"user", "reply">>, "tool") = <<"user", "reply", "tool">>
    <3> DEFINE seq == Append(<<"user", "reply">>, "tool")
    <3>1. /\ seq \in Seq(Kinds) /\ Len(seq) = 3
          /\ seq[1] = "user" /\ seq[2] = "reply" /\ seq[3] = "tool"
      BY <2>1
    <3> HIDE DEF seq
    <3>2. seq = <<seq[1], seq[2], seq[3]>>
      BY <3>1
    <3> QED  BY <3>1, <3>2 DEF seq
  <2> QED  BY <2>2, <2>3, <2>4, Zenon DEF UserNext, ToolNext, Records
<1> QED  BY <1>2, <1>3, <1>4, <1>5, <1>6

LEMMA TellsTurns ==
    ASSUME ConversationInv, ConversationTold, ConversationInv', NEW p \in Terminal, Turn(p)
    PROVE  ConversationTold'
<1>1. TuiOK(p) /\ TuiStep(p) /\ MemoryTrue(tui[p].memory) /\ tui[p].at = "turn"
  BY DEF ConversationInv, ConversationShape, ConversationTold, Turn
<1>2. /\ \A q \in Terminal : q # p => tui'[q] = tui[q]
      /\ UNCHANGED <<current, sessions, log, told>>
      /\ exchanges' = exchanges + 1 /\ exchanges \in Nat /\ exchanges + 1 \in 1 .. MaxExchanges
      /\ \A x \in 1 .. exchanges : served'[x] = served[x]
  BY ConversationAssumption DEF ConversationInv, ConversationShape, Turn
<1>3. /\ tui'[p].at = "bind" /\ tui'[p].todo \in ToolNext /\ tui'[p].exchange = exchanges + 1
      /\ tui'[p].memory = tui[p].memory
  BY DEF ConversationInv, ConversationShape, TuiOK, TuiFields, Turn, ToolNext
<1>4. \A i \in 1 .. Len(log) : log[i].exchange # exchanges + 1
  <2>1. \A i \in 1 .. Len(log) : log[i] \in Record
    BY DEF ConversationTold, Logged
  <2> QED  BY <1>2, <2>1 DEF ConversationInv, Served, Record
<1>5. TuiStep(p)'
  BY <1>1, <1>2, <1>3 DEF TuiStep, Recording, Nothing
<1>6. TuiStage(p)'
  <2>1. Unreplied(tui[p].exchange)'
    <3>1. UNCHANGED log /\ tui'[p].exchange = exchanges + 1
      BY <1>2, <1>3
    <3> QED  BY <1>4, <3>1 DEF Unreplied
  <2>2. tui'[p].todo \notin ReplyNext
    BY <1>3, NextRecord
  <2> QED  BY <1>3, <2>1, <2>2 DEF TuiStage
<1>7. /\ Logged' /\ \A m : MemoryTrue(m) => MemoryTrue(m)'
      /\ \A s, x : Replied(x, s) => Replied(x, s)'
  <2>1. UNCHANGED log
    BY <1>2
  <2>2. Logged'
    BY <2>1 DEF ConversationTold, Logged
  <2>3. \A s, x : Replied(x, s) => Replied(x, s)'
    BY <2>1 DEF Replied
  <2>4. \A m : MemoryTrue(m) => MemoryTrue(m)'
    <3>1. Grows
      BY <2>1 DEF Grows, ConversationTold, Logged
    <3> QED  BY <3>1, OnRecord
  <2> QED  BY <2>2, <2>3, <2>4
<1>8. ASSUME NEW q \in Terminal
      PROVE  TuiStep(q)' /\ TuiStage(q)' /\ MemoryTrue(tui[q].memory)'
  <2>1. CASE q = p
    BY <1>1, <1>3, <1>5, <1>6, <1>7, <2>1
  <2>2. CASE q # p
    <3>1. tui'[q] = tui[q] /\ TuiStep(q) /\ TuiStage(q) /\ MemoryTrue(tui[q].memory)
      BY <1>2, <2>2 DEF ConversationTold
    <3>2. TuiStep(q)'
      BY <1>2, <3>1 DEF TuiStep
    <3>3. TuiStage(q)'
      BY <1>2, <3>1 DEF TuiStage, Unreplied, Asked, Replied
    <3> QED  BY <1>7, <3>1, <3>2, <3>3
  <2> QED  BY <2>1, <2>2
<1>9. \A q, r \in Terminal :
        q # r /\ tui'[q].exchange # Nothing => tui'[q].exchange # tui'[r].exchange
  <2>1. \A q \in Terminal : tui[q].exchange # exchanges + 1
    BY <1>2 DEF ConversationInv, ConversationShape, TuiOK, Served, Nothing
  <2> QED  BY <1>2, <1>3, <2>1 DEF ConversationTold
<1>10. told' \subseteq 1 .. exchanges' /\ \A x \in told' : Replied(x, served[x])'
  <2>1. told \subseteq 1 .. exchanges /\ \A x \in told : Replied(x, served[x])
    BY DEF ConversationTold
  <2>2. \A x \in told' : Replied(x, served[x])'
    <3> SUFFICES ASSUME NEW x \in told' PROVE Replied(x, served[x])'
      OBVIOUS
    <3>1. Replied(x, served[x]) /\ served'[x] = served[x]
      BY <1>2, <2>1
    <3> QED  BY <1>2, <3>1 DEF Replied
  <2>3. told' \subseteq 1 .. exchanges'
    BY <1>2, <2>1
  <2> QED  BY <2>2, <2>3
<1> QED  BY <1>2, <1>7, <1>8, <1>9, <1>10 DEF ConversationTold

LEMMA TellsBinds ==
    ASSUME ConversationInv, ConversationTold, ConversationInv', NEW p \in Terminal, Bind(p)
    PROVE  ConversationTold'
<1>1. TuiOK(p) /\ TuiStep(p) /\ TuiStage(p) /\ MemoryTrue(tui[p].memory) /\ tui[p].at = "bind"
  BY DEF ConversationInv, ConversationShape, ConversationTold, Bind
<1>2. /\ \A q \in Terminal : q # p => tui'[q] = tui[q]
      /\ UNCHANGED <<current, sessions, log, exchanges, served, told>>
  BY DEF ConversationInv, ConversationShape, Bind
<1>3. current' \in 1 .. sessions' /\ sessions <= sessions' /\ sessions' <= MaxSessions
  BY <1>2 DEF ConversationInv, ConversationShape, ConversationTold
<1>4. tui'[p].memory = tui[p].memory
  BY DEF ConversationInv, ConversationShape, TuiOK, TuiFields, Bind
<1>5. tui[p].memory.session <= sessions' /\ tui[p].memory.session # Nothing
  BY <1>1, <1>2 DEF TuiStep
<1>6. CASE tui'[p].at = "rest"
  <2>1. tui'[p].todo = <<>> /\ tui'[p].exchange = Nothing
    BY <1>6 DEF ConversationInv, ConversationShape, TuiOK, TuiFields, Bind
  <2> QED  BY <1>1, <1>2, <1>3, <1>4, <1>5, <1>6, <2>1, TellsNothing
<1>7. CASE tui'[p].at # "rest"
  <2>1. /\ tui'[p].at = "append" /\ tui'[p].exchange = tui[p].exchange
        /\ tui'[p].reply = tui[p].reply
        /\ tui'[p].todo = Records(tui[p].reply, tui[p].todo)
    BY <1>7 DEF ConversationInv, ConversationShape, TuiOK, TuiFields, Bind
  <2>2. tui[p].exchange # Nothing /\ tui[p].todo \in ToolNext /\ Unreplied(tui[p].exchange)
    BY <1>1 DEF TuiStep, TuiStage
  <2>3. \/ tui[p].reply = "reply" /\ tui'[p].todo \in UserNext
        \/ tui[p].reply = "cancelled" /\ tui'[p].todo \in ToolNext
    BY <1>1, <2>1, <2>2, NextRecord DEF TuiOK
  <2>4. TuiStep(p)'
    BY <1>4, <1>5, <2>1, <2>2, <2>3 DEF TuiStep, Recording
  <2>5. TuiStage(p)'
    <3>1. tui'[p].todo \notin ReplyNext /\ (tui'[p].reply = "reply" => tui'[p].todo \notin ToolNext)
      BY <2>1, <2>3, NextRecord
    <3>2. Unreplied(tui[p].exchange)'
      BY <1>2, <2>1, <2>2 DEF Unreplied
    <3> QED  BY <3>1, <3>2 DEF TuiStage
  <2>6. told' \subseteq 1 .. exchanges /\ \A x \in told' : Replied(x, served[x])
    BY <1>2 DEF ConversationTold
  <2> QED  BY <1>1, <1>2, <1>3, <1>4, <2>1, <2>4, <2>5, <2>6, TellsStill
<1> QED  BY <1>6, <1>7

LEMMA TellsBindsReset ==
    ASSUME ConversationInv, ConversationTold, ConversationInv', NEW p \in Terminal, BindReset(p)
    PROVE  ConversationTold'
<1>1. TuiOK(p) /\ TuiStep(p) /\ TuiStage(p) /\ MemoryTrue(tui[p].memory) /\ tui[p].at = "clear"
  BY DEF ConversationInv, ConversationShape, ConversationTold, BindReset
<1>2. /\ \A q \in Terminal : q # p => tui'[q] = tui[q]
      /\ UNCHANGED <<current, sessions, log, exchanges, served, told>>
  BY DEF ConversationInv, ConversationShape, BindReset
<1>3. current' \in 1 .. sessions' /\ sessions <= sessions' /\ sessions' <= MaxSessions
  BY <1>2 DEF ConversationInv, ConversationShape, ConversationTold
<1>4. /\ tui'[p].memory = tui[p].memory
      /\ tui'[p].exchange = Nothing /\ tui'[p].exchange = tui[p].exchange
  BY <1>1 DEF ConversationInv, ConversationShape, TuiOK, TuiFields, BindReset, Recording
<1>5. tui[p].memory.session <= sessions' /\ tui[p].memory.session # Nothing
  BY <1>1, <1>2 DEF TuiStep
<1>6. CASE tui'[p].at = "rest"
  <2>1. tui'[p].todo = <<>>
    BY <1>1, <1>6
       DEF ConversationInv, ConversationShape, TuiOK, TuiFields, TuiStep, Recording, BindReset
  <2> QED  BY <1>1, <1>2, <1>3, <1>4, <1>5, <1>6, <2>1, TellsNothing
<1>7. CASE tui'[p].at # "rest"
  <2>1. tui'[p].at = "append" /\ tui'[p].reply = "reset" /\ tui'[p].todo = <<"reset">>
    BY <1>7 DEF ConversationInv, ConversationShape, TuiOK, TuiFields, BindReset
  <2>2. TuiStep(p)'
    BY <1>4, <1>5, <2>1 DEF TuiStep, Recording
  <2>3. TuiStage(p)'
    <3>1. <<"reset">> \notin UserNext \cup ReplyNext
      BY NextRecord
    <3> QED  BY <2>1, <3>1 DEF TuiStage
  <2>4. told' \subseteq 1 .. exchanges /\ \A x \in told' : Replied(x, served[x])
    BY <1>2 DEF ConversationTold
  <2> QED  BY <1>1, <1>2, <1>3, <1>4, <2>2, <2>3, <2>4, TellsStill
<1> QED  BY <1>6, <1>7

LEMMA TellsFails ==
    ASSUME ConversationInv, ConversationTold, ConversationInv', NEW p \in Terminal, AppendFails(p)
    PROVE  ConversationTold'
<1>1. TuiStep(p) /\ MemoryTrue(tui[p].memory) /\ tui[p].at = "append"
  BY DEF ConversationInv, ConversationShape, ConversationTold, AppendFails
<1>2. /\ \A q \in Terminal : q # p => tui'[q] = tui[q]
      /\ UNCHANGED <<current, sessions, log, exchanges, served, told>>
  BY DEF ConversationInv, ConversationShape, AppendFails
<1>3. current' \in 1 .. sessions' /\ sessions <= sessions' /\ sessions' <= MaxSessions
  BY <1>2 DEF ConversationInv, ConversationShape, ConversationTold
<1>4. /\ tui'[p].at = "rest" /\ tui'[p].todo = <<>> /\ tui'[p].exchange = Nothing
      /\ tui'[p].memory = tui[p].memory
  BY DEF ConversationInv, ConversationShape, TuiOK, TuiFields, AppendFails
<1>5. tui[p].memory.session <= sessions'
  BY <1>1, <1>2 DEF TuiStep
<1> QED  BY <1>1, <1>2, <1>3, <1>4, <1>5, TellsNothing

(* The last record of an exchange is made: the memory and the user have what the log has. *)
LEMMA TellsFinish ==
    ASSUME ConversationInv, ConversationTold, ConversationInv', NEW p \in Terminal, Finish(p)
    PROVE  ConversationTold'
<1> DEFINE m == tui[p].memory
           x == tui[p].exchange
<1>1. TuiOK(p) /\ TuiStep(p) /\ TuiStage(p) /\ MemoryTrue(m)
  BY DEF ConversationInv, ConversationShape, ConversationTold
<1>2. /\ \A q \in Terminal : q # p => tui'[q] = tui[q]
      /\ UNCHANGED <<current, sessions, log, exchanges, served>>
      /\ tui[p].at = "append" /\ tui[p].todo = <<>>
      /\ told' = IF tui[p].reply = "reply" THEN told \cup {x} ELSE told
  BY DEF ConversationInv, ConversationShape, Finish
<1>3. current' \in 1 .. sessions' /\ sessions <= sessions' /\ sessions' <= MaxSessions
  BY <1>2 DEF ConversationInv, ConversationShape, ConversationTold
<1>4. /\ tui'[p].at = "rest" /\ tui'[p].todo = <<>> /\ tui'[p].exchange = Nothing
  BY <1>2 DEF ConversationInv, ConversationShape, TuiOK, TuiFields, Finish
<1>5. m.session <= sessions'
  BY <1>1, <1>2 DEF TuiStep
<1>6. tui[p].reply = "reply" => x # Nothing /\ x \in 1 .. exchanges
                                /\ Replied(x, m.session) /\ served[x] = m.session
  <2> SUFFICES ASSUME tui[p].reply = "reply"
               PROVE  x # Nothing /\ x \in 1 .. exchanges
                      /\ Replied(x, m.session) /\ served[x] = m.session
    OBVIOUS
  <2>1. x # Nothing /\ x \in Nat
    BY <1>1, <1>2 DEF TuiStep, TuiOK
  <2>2. Replied(x, m.session)
    BY <1>1, <1>2 DEF TuiStage, ToolNext
  <2>3. x <= exchanges /\ served[x] = m.session
    BY <2>1 DEF ConversationInv, Served
  <2> QED  BY <2>1, <2>2, <2>3 DEF Nothing, ConversationInv, ConversationShape
<1>7. /\ tui'[p].memory.session = m.session
      /\ MemoryTrue(tui'[p].memory)
  <2>1. CASE tui[p].reply = "reply"
    <3> DEFINE pair == Pair(x, x)
               after == [m EXCEPT !.turns = Append(m.turns, pair)]
    <3>0. tui' = [tui EXCEPT ![p].at = "rest", ![p].exchange = Nothing, ![p].reply = "none",
                             ![p].memory = after]
      BY <2>1 DEF Finish
    <3> HIDE DEF after
    <3>1. tui'[p].memory = after
      BY <3>0 DEF ConversationInv, ConversationShape, TuiOK, TuiFields
    <3>2. pair \in Pairs /\ pair.user = x /\ pair.reply = x
      BY <1>6, <2>1 DEF Pairs, Pair
    <3> HIDE DEF pair
    <3>3. /\ tui'[p].memory.session = m.session /\ tui'[p].memory.tools = m.tools
          /\ tui'[p].memory.turns = Append(m.turns, pair)
      BY <1>1, <3>1 DEF TuiOK, after
    <3>4. /\ Append(m.turns, pair) \in Seq(Pairs)
          /\ ToSet(Append(m.turns, pair)) = ToSet(m.turns) \cup {pair}
      BY <1>1, <3>2, AppendSet DEF MemoryTrue
    <3> HIDE DEF m, x
    <3>5. Alone(m.session)
            => \A t \in ToSet(m.turns) \cup {pair} : t.user = t.reply /\ Replied(t.reply, m.session)
      BY <1>1, <1>6, <2>1, <3>2 DEF MemoryTrue
    <3> QED  BY <1>1, <3>3, <3>4, <3>5 DEF MemoryTrue
  <2>2. CASE tui[p].reply = "reset"
    <3>1. tui'[p].memory = EmptyMemory(m.session)
      BY <1>2, <2>2 DEF ConversationInv, ConversationShape, TuiOK, TuiFields, Finish
    <3> QED  BY <3>1, NoMemoryTrue DEF EmptyMemory
  <2>3. CASE tui[p].reply \notin {"reply", "reset"}
    <3>1. tui'[p].memory = m
      BY <1>2, <2>3 DEF ConversationInv, ConversationShape, TuiOK, TuiFields, Finish
    <3> QED  BY <1>1, <3>1
  <2> QED  BY <2>1, <2>2, <2>3
<1>8. told' \subseteq 1 .. exchanges /\ \A y \in told' : Replied(y, served[y])
  BY <1>2, <1>6 DEF ConversationTold
<1>9. TuiStep(p)' /\ TuiStage(p)'
  <2>1. TuiStep(p)'
    BY <1>4, <1>5, <1>7 DEF TuiStep, Recording
  <2>2. <<>> \notin UserNext \cup ReplyNext
    BY NextRecord
  <2> QED  BY <1>4, <2>1, <2>2 DEF TuiStage
<1> HIDE DEF m, x
<1> QED  BY <1>2, <1>3, <1>4, <1>7, <1>8, <1>9, TellsStill

(* One more record. *)
LEMMA TellsAppends ==
    ASSUME ConversationInv, ConversationTold, ConversationInv', NEW p \in Terminal, AppendRecord(p)
    PROVE  ConversationTold'
<1> DEFINE m == tui[p].memory
           x == tui[p].exchange
           todo == tui[p].todo
           r == [session |-> m.session, exchange |-> x, kind |-> Head(todo)]
           n == Len(log)
<1>1. TuiOK(p) /\ TuiStep(p) /\ TuiStage(p) /\ MemoryTrue(m) /\ tui[p].at = "append" /\ todo # <<>>
  BY DEF ConversationInv, ConversationShape, ConversationTold, AppendRecord
<1>2. /\ \A q \in Terminal : q # p => tui'[q] = tui[q]
      /\ UNCHANGED <<current, sessions, exchanges, served, told>>
      /\ log' = Append(log, r)
  BY DEF ConversationInv, ConversationShape, AppendRecord
<1>3. /\ tui'[p].at = "append" /\ tui'[p].todo = Tail(todo) /\ tui'[p].exchange = x
      /\ tui'[p].reply = tui[p].reply
      /\ tui'[p].memory = [m EXCEPT !.tools = IF Head(todo) = "tool" THEN PushTool(m.tools, x)
                                              ELSE m.tools]
  BY DEF ConversationInv, ConversationShape, TuiOK, TuiFields, AppendRecord
<1>4. /\ m.session \in 1 .. sessions /\ x \in Nat /\ x <= exchanges
  BY <1>1 DEF TuiStep, TuiOK, ConversationInv, ConversationShape, Served, Nothing
<1>5. \/ x = Nothing /\ Head(todo) = "reset" /\ Tail(todo) = <<>> /\ tui[p].reply = "reset"
      \/ x # Nothing /\ todo \in UserNext /\ Head(todo) = "user" /\ Tail(todo) \in ReplyNext
         /\ tui[p].reply = "reply" /\ Unreplied(x)
      \/ x # Nothing /\ todo \in ReplyNext /\ Head(todo) = "reply" /\ Tail(todo) \in ToolNext
         /\ tui[p].reply = "reply" /\ Unreplied(x) /\ Asked(x, m.session)
      \/ x # Nothing /\ todo \in ToolNext /\ Head(todo) = "tool" /\ Tail(todo) = <<>>
         /\ (tui[p].reply = "reply" => Replied(x, m.session))
         /\ tui[p].reply \in {"reply", "cancelled"}
  BY <1>1, NextRecord DEF TuiStep, TuiStage
<1>6. r \in Record /\ r.session = m.session /\ r.exchange = x /\ r.kind = Head(todo)
  BY <1>4, <1>5 DEF Record, Kinds, ConversationTold
<1> HIDE DEF r
<1>7. /\ n \in Nat /\ log' \in Seq(Record) /\ Len(log') = n + 1 /\ log'[n + 1] = r
      /\ \A i \in 1 .. n : log'[i] = log[i]
  BY <1>2, <1>6 DEF ConversationTold, Logged
<1>8. Grows
  BY <1>7 DEF Grows
<1> HIDE DEF n, todo
<1>9. \A i \in 1 .. n : /\ log[i].exchange = Nothing <=> log[i].kind = "reset"
                       /\ log[i].session \in 1 .. sessions
  BY DEF ConversationTold, Logged, n
<1>10. Logged'
  <2>1. \A i \in 1 .. n + 1 : log'[i].exchange = Nothing <=> log'[i].kind = "reset"
    BY <1>5, <1>6, <1>7, <1>9
  <2>2. ASSUME NEW k \in 1 .. n + 1, log'[k].kind = "reply"
        PROVE  \E i \in 1 .. k - 1 :
                  /\ log'[i].kind = "user" /\ log'[i].exchange = log'[k].exchange
                  /\ log'[i].session = log'[k].session
    <3>1. CASE k = n + 1
      <4>1. Asked(x, m.session)
        BY <1>5, <1>6, <1>7, <2>2, <3>1
      <4>2. PICK i \in 1 .. n : /\ log[i].kind = "user" /\ log[i].exchange = x
                                 /\ log[i].session = m.session
        BY <4>1 DEF Asked, n
      <4> QED  BY <1>6, <1>7, <3>1, <4>2
    <3>2. CASE k # n + 1
      <4>1. k \in 1 .. n /\ log'[k] = log[k]
        BY <1>7, <3>2
      <4>2. PICK i \in 1 .. k - 1 : /\ log[i].kind = "user" /\ log[i].exchange = log[k].exchange
                                    /\ log[i].session = log[k].session
        BY <2>2, <4>1 DEF ConversationTold, Logged, n
      <4>3. i \in 1 .. n
        BY <1>7, <4>1
      <4> QED  BY <1>7, <4>1, <4>2, <4>3
    <3> QED  BY <3>1, <3>2
  <2>3. \A i, k \in 1 .. n + 1 :
          log'[i].kind = "reply" /\ log'[k].kind = "reply" /\ log'[i].exchange = log'[k].exchange
            => i = k
    <3>1. r.kind = "reply" => \A i \in 1 .. n : ~(log[i].kind = "reply" /\ log[i].exchange = x)
      BY <1>5, <1>6 DEF Unreplied, n
    <3>2. \A i, k \in 1 .. n :
            log[i].kind = "reply" /\ log[k].kind = "reply" /\ log[i].exchange = log[k].exchange
              => i = k
      BY DEF ConversationTold, Logged, n
    <3>3. \A i \in 1 .. n + 1 : i = n + 1 \/ i \in 1 .. n
      BY <1>7
    <3> QED  BY <1>6, <1>7, <3>1, <3>2, <3>3
  <2> QED  BY <1>7, <2>1, <2>2, <2>3 DEF Logged
<1>11. MemoryTrue(tui[p].memory)' /\ tui'[p].memory.session = m.session
  <2>0. PICK z : z = m
    OBVIOUS
  <2>1. MemoryTrue(z)'
    BY <1>1, <1>8, <2>0, OnRecord
  <2>2. CASE Head(todo) # "tool"
    <3>1. /\ tui'[p].memory.session = m.session /\ tui'[p].memory.turns = m.turns
          /\ tui'[p].memory.tools = m.tools
      BY <1>1, <1>3, <2>2 DEF TuiOK
    <3> HIDE DEF m, x
    <3> QED  BY <2>0, <2>1, <3>1 DEF MemoryTrue
  <2>3. CASE Head(todo) = "tool"
    <3> DEFINE pushed == PushTool(m.tools, x)
    <3>1. /\ pushed \in Seq(Nat) /\ Len(pushed) <= MaxTools
          /\ ToSet(pushed) \subseteq ToSet(m.tools) \cup {x}
      BY <1>1, <1>4, Pushed DEF MemoryTrue
    <3> HIDE DEF pushed
    <3>2. /\ tui'[p].memory.session = m.session /\ tui'[p].memory.turns = m.turns
          /\ tui'[p].memory.tools = pushed
      BY <1>1, <1>3, <2>3 DEF TuiOK, pushed
    <3>3. \E i \in 1 .. Len(log') :
             log'[i] = [session |-> m.session, exchange |-> x, kind |-> "tool"]
      BY <1>7, <2>3 DEF r
    <3> HIDE DEF m, x
    <3> QED  BY <2>0, <2>1, <3>1, <3>2, <3>3 DEF MemoryTrue
  <2> QED  BY <2>2, <2>3
<1>12. TuiStep(p)'
  <2>1. /\ tui[p].memory.session <= sessions /\ m.session # Nothing
        /\ x # Nothing => tui[p].reply \in {"reply", "cancelled"}
    BY <1>1 DEF TuiStep
  <2>2. \/ x = Nothing /\ tui'[p].reply = "reset" /\ tui'[p].todo = <<>>
        \/ x # Nothing /\ tui'[p].reply = "reply" /\ tui'[p].todo \in ReplyNext \cup ToolNext
        \/ x # Nothing /\ tui'[p].reply \in {"reply", "cancelled"} /\ tui'[p].todo \in ToolNext
    BY <1>3, <1>5, <2>1 DEF ToolNext
  <2> HIDE DEF m, x
  <2>3. tui'[p].at = "append" /\ tui'[p].exchange = x /\ sessions' = sessions
    BY <1>2, <1>3
  <2> QED  BY <1>11, <2>1, <2>2, <2>3 DEF TuiStep, Recording, m
<1>13. TuiStage(p)'
  <2>1. Tail(todo) \notin UserNext
    BY <1>5, NextRecord
  <2>2. Tail(todo) \in ReplyNext => Unreplied(x)' /\ Asked(x, m.session)'
    <3> SUFFICES ASSUME Tail(todo) \in ReplyNext
                 PROVE  Unreplied(x)' /\ Asked(x, m.session)'
      OBVIOUS
    <3>1. r.kind = "user" /\ Unreplied(x)
      BY <1>5, <1>6, NextRecord
    <3>2. Unreplied(x)'
      BY <1>3, <1>6, <1>7, <3>1 DEF Unreplied, n
    <3>3. Asked(x, m.session)'
      BY <1>3, <1>6, <1>7, <1>11, <3>1 DEF Asked
    <3> QED  BY <3>2, <3>3
  <2>3. tui[p].reply = "reply" /\ Tail(todo) \in ToolNext => Replied(x, m.session)'
    <3> SUFFICES ASSUME tui[p].reply = "reply", Tail(todo) \in ToolNext
                 PROVE  Replied(x, m.session)'
      OBVIOUS
    <3>1. CASE Head(todo) = "reply"
      BY <1>3, <1>6, <1>7, <1>11, <3>1 DEF Replied
    <3>2. CASE Head(todo) # "reply"
      BY <1>3, <1>5, <1>8, <1>11, <3>2, NextRecord, OnRecord
    <3> QED  BY <3>1, <3>2
  <2> QED  BY <1>3, <1>11, <2>1, <2>2, <2>3 DEF TuiStage
<1>14. ASSUME NEW q \in Terminal
       PROVE  TuiStep(q)' /\ TuiStage(q)' /\ MemoryTrue(tui[q].memory)'
  <2>1. CASE q = p
    BY <1>11, <1>12, <1>13, <2>1
  <2>2. CASE q # p
    <3>1. tui'[q] = tui[q] /\ TuiStep(q) /\ TuiStage(q) /\ MemoryTrue(tui[q].memory)
      BY <1>2, <2>2 DEF ConversationTold
    <3>2. TuiStep(q)'
      BY <1>2, <3>1 DEF TuiStep
    <3>3. MemoryTrue(tui[q].memory)'
      BY <1>8, <3>1, OnRecord
    <3>4. Unreplied(tui[q].exchange) => Unreplied(tui[q].exchange)'
      <4>1. r.kind = "reply" => x # tui[q].exchange
        BY <1>5, <1>6, <2>2 DEF ConversationTold
      <4> QED  BY <1>6, <1>7, <3>1, <4>1 DEF Unreplied, n
    <3>5. TuiStage(q)'
      BY <1>8, <3>1, <3>4, OnRecord DEF TuiStage
    <3> QED  BY <3>2, <3>3, <3>5
  <2> QED  BY <2>1, <2>2
<1>15. \A q, s \in Terminal :
         q # s /\ tui'[q].exchange # Nothing => tui'[q].exchange # tui'[s].exchange
  BY <1>2, <1>3 DEF ConversationTold
<1>16. told' \subseteq 1 .. exchanges' /\ \A y \in told' : Replied(y, served[y])'
  BY <1>2, <1>8, OnRecord DEF ConversationTold
<1>17. \A i \in 1 .. Len(log') : log'[i].session \in 1 .. sessions'
  BY <1>2, <1>4, <1>6, <1>7, <1>9
<1> QED  BY <1>2, <1>10, <1>14, <1>15, <1>16, <1>17 DEF ConversationTold

LEMMA TellsElsewhere ==
    ASSUME ConversationInv, ConversationTold, ConversationInv',
           UNCHANGED <<tui, log, exchanges, served, told>>,
           current' \in 1 .. sessions', sessions <= sessions', sessions' <= MaxSessions
    PROVE  ConversationTold'
<1>1. Logged' /\ Grows
  BY DEF ConversationTold, Logged, Grows
<1>2. \A i \in 1 .. Len(log') : log'[i].session \in 1 .. sessions'
  BY DEF ConversationTold, ConversationInv, ConversationShape
<1>3. ASSUME NEW p \in Terminal
      PROVE  TuiStep(p)' /\ TuiStage(p)' /\ MemoryTrue(tui[p].memory)'
  <2>1. TuiStep(p) /\ TuiStage(p) /\ MemoryTrue(tui[p].memory)
    BY DEF ConversationTold
  <2>2. TuiStep(p)'
    BY <2>1 DEF TuiStep, ConversationInv, ConversationShape, TuiOK
  <2>3. TuiStage(p)'
    BY <2>1 DEF TuiStage, Unreplied, Asked, Replied
  <2>4. MemoryTrue(tui[p].memory)'
    BY <1>1, <2>1, OnRecord
  <2> QED  BY <2>2, <2>3, <2>4
<1>4. told' \subseteq 1 .. exchanges' /\ \A x \in told' : Replied(x, served[x])'
  BY <1>1, OnRecord DEF ConversationTold
<1> QED  BY <1>1, <1>2, <1>3, <1>4 DEF ConversationTold

LEMMA ToldStarts == ConversationInit => ConversationTold
<1> SUFFICES ASSUME ConversationInit
             PROVE  ConversationTold
  OBVIOUS
<1>1. log = <<>> /\ Len(log) = 0 /\ <<>> \in Seq(Record) /\ told = {} /\ current = 1 /\ sessions = 1
  BY DEF ConversationInit
<1>2. 1 <= MaxSessions
  BY ConversationAssumption
<1>3. ASSUME NEW p \in Terminal
      PROVE  TuiStep(p) /\ TuiStage(p) /\ MemoryTrue(tui[p].memory) /\ tui[p].exchange = Nothing
  <2>1. tui[p] = Off
    BY DEF ConversationInit
  <2>2. /\ Off.at = "off" /\ Off.todo = <<>> /\ Off.exchange = Nothing /\ Off.memory = NoMemory
        /\ NoMemory.session = 0
    BY DEF Off, NoMemory, EmptyMemory, Nothing
  <2>3. MemoryTrue(NoMemory)
    BY NoMemoryTrue DEF NoMemory
  <2>4. <<>> \notin UserNext \cup ReplyNext
    BY NextRecord
  <2> QED  BY <1>1, <2>1, <2>2, <2>3, <2>4 DEF TuiStep, TuiStage, Recording
<1> QED  BY <1>1, <1>2, <1>3 DEF ConversationTold, Logged

LEMMA ToldSteps ==
    ASSUME ConversationInv, ConversationTold, [ConversationNext]_conversationVars
    PROVE  ConversationTold'
<1>1. ConversationInv'
  BY ConversationSteps
<1>2. CASE Elsewhere
  <2>1. current' \in 1 .. sessions' /\ sessions <= sessions' /\ sessions' <= MaxSessions
    BY <1>2, ConversationAssumption
       DEF ConversationInv, ConversationShape, ConversationTold, Elsewhere, NewSession
  <2> QED  BY <1>1, <1>2, <2>1, TellsElsewhere DEF Elsewhere
<1>3. CASE UNCHANGED conversationVars
  <2>1. UNCHANGED <<current, sessions, tui, log, exchanges, served, told>>
    BY <1>3 DEF conversationVars
  <2>2. current' \in 1 .. sessions' /\ sessions <= sessions' /\ sessions' <= MaxSessions
    BY <2>1 DEF ConversationTold, ConversationInv, ConversationShape
  <2> QED  BY <1>1, <2>1, <2>2, TellsElsewhere
<1> QED
  BY <1>1, <1>2, <1>3, TellsLeaves, TellsAsks, TellsLoads, TellsTurns, TellsBinds,
     TellsBindsReset, TellsAppends, TellsFails, TellsFinish
     DEF ConversationNext

(* A restart gives the model what the user saw and nothing else: the pairs restored are of   *)
(* one exchange each, an exchange the user was given is restored until its conversation is  *)
(* cleared, a terminal at rest remembers only what a restart would restore, and every       *)
(* record is in the session whose conversation the model was given, wherever the project's  *)
(* session moved meanwhile.  Code: load_for_session, which reads the records back;          *)
(* conversation_memory, which loads them when the session moved; record_result, which binds *)
(* the session before the first record and remembers after the last.                        *)
THEOREM ConversationSound == ConversationSpec => []ConversationTrue
<1>1. ConversationInit => ConversationInv /\ ConversationTold
  BY ConversationStarts, ToldStarts
<1>2. ConversationInv /\ ConversationTold /\ [ConversationNext]_conversationVars
        => (ConversationInv /\ ConversationTold)'
  BY ConversationSteps, ToldSteps
<1>3. ConversationInv /\ ConversationTold => ConversationTrue
  BY ConversationIsTrue
<1> QED  BY <1>1, <1>2, <1>3, PTL DEF ConversationSpec
=============================================================================
