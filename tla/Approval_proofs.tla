--------------------------- MODULE Approval_proofs ---------------------------
(***************************************************************************)
(* What the bundle transactions of Approval keep, for every installation:  *)
(* proofs of OnDisk, SourceAgrees, CommandApproved, NothingTakenBack and   *)
(* of the refinement of WorkflowLife.                                      *)
(***************************************************************************)
EXTENDS Approval, TLAPS

Added(kind) == Len(Phases(kind))
LifePhases == {"pending-approval", "pending-verification-approval", "verification-started",
               "verified", "failed", "rollback-failed", "cancelled"}
Started == {"verification-started", "verified", "failed", "rollback-failed", "cancelled"}
Awaited == {"result", "restored", "unrestored"}
UnderLease == {"running", "recovering", "lagTemp", "lagWrite", "lagRename"}

(* what one member of the plan leaves behind once it is installed *)
Done(p, s) ==
  /\ s.do = "event" => Installed(p, s.at)
  /\ s.do = "snapshot" => journal[p].revision + s.at <= Len(snapshots[p])
  /\ s.do = "pointer" => journal[p].revision + s.at <= pointer[p]
  /\ s.do = "source" => /\ journal[p].kind = "approve" => source[p] # "before"
                        /\ journal[p].rollback => source[p] # "after"
  /\ s.do = "turn" => turn[p]
  /\ s.do = "current" => current[p] = Completed(journal[p])
  /\ s.do = "converge" => derived[p] >= Target(journal[p])
  /\ s.do = "removeLag" => lag[p] = "none"

(* the command that works on a bundle holds the lease, and everything before
   its next step is done *)
ControlOK(p) ==
  /\ writer = p <=> stage[p] \in UnderLease
  /\ Executing(p) =>
       /\ Journaled(p)
       /\ pc[p] \in 1..Len(Script(journal[p].kind))
       /\ \A k \in 1..(pc[p] - 1) : Done(p, Script(journal[p].kind)[k])
  /\ stage[p] \in {"lagTemp", "lagWrite", "lagRename"} => Approving(p)
  /\ stage[p] \in {"observed", "command"} \cup Awaited => ~Journaled(p)
  /\ lag[p] # "none" => Approving(p)

(* the events of a project come from its earlier bundles and from the pending
   one, these at their place *)
EventsOf(p) ==
  \A i \in 1..Length : ledger[i].project = p =>
    IF Journaled(p)
    THEN /\ ledger[i].revision <= journal[p].revision
         /\ ledger[i].revision = journal[p].revision =>
              /\ ledger[i].event \in 1..Events(journal[p].kind)
              /\ i = journal[p].head + ledger[i].event
    ELSE ledger[i].revision < pointer[p]

PreparedOK(p) ==
  LET j == journal[p] IN
  /\ j.kind \in Kinds /\ j.revision >= 1
  /\ j.head <= Length
  /\ j.before.revision = j.revision /\ j.before.head <= j.head
  /\ j.kind = "approve" => snapshots[p][j.revision] = "pending-approval"
  /\ j.kind = "verify" => /\ snapshots[p][j.revision] = "pending-verification-approval"
                          /\ source[p] # "before" /\ turn[p]
  /\ j.kind \in {"approve", "verify"} => ran[p] = 0 /\ ~j.rollback
  /\ j.kind \in {"deny", "cancel"} /\ ~j.rollback => source[p] # "after"
  /\ Approving(p) /\ Installed(p, 8) => source[p] # "before"

(* how far a bundle can be installed *)
PendingOK(p) ==
  LET j == journal[p] IN
  /\ Len(snapshots[p]) \in j.revision..LastRevision(j)
  /\ \A n \in 1..Added(j.kind) :
       j.revision + n <= Len(snapshots[p]) => snapshots[p][j.revision + n] = Phases(j.kind)[n]
  /\ pointer[p] \in j.revision..Len(snapshots[p])
  /\ CurrentCas(p)
  /\ current[p] = Completed(j) => pointer[p] = LastRevision(j) /\ Target(j) <= Length

(* between two bundles *)
QuietOK(p) ==
  /\ pointer[p] >= 1
  /\ current[p].revision = pointer[p] /\ pointer[p] = Len(snapshots[p])
  /\ current[p].head <= Length /\ current[p].head <= derived[p]
  /\ pointer[p] > 1 => current[p].head > 0 /\ ledger[current[p].head].event \in {0, 3, 10}
  /\ Phase(p) \in LifePhases
  /\ Phase(p) \in Applied =>
       /\ turn[p]
       /\ source[p] # "before" \/ (Inconclusive(p) /\ stage[p] # "result")
  /\ Phase(p) \notin Applied => source[p] # "after" \/ Phase(p) = "rollback-failed"
  /\ stage[p] = "restored" => source[p] # "after"
  /\ ran[p] = 1 => Phase(p) \in Started
  /\ stage[p] = "observed" =>
       \/ chosen[p] = "approve" /\ Phase(p) = "pending-approval"
       \/ chosen[p] = "verify" /\ Phase(p) = "pending-verification-approval"
  /\ stage[p] = "command" => Phase(p) = "verification-started" /\ ran[p] = 0
  /\ stage[p] \in Awaited => Phase(p) = "verification-started" /\ ran[p] = 1

(* the derived outputs show the approval of the command *)
Shown(p) ==
  \E i \in 1..Length :
    /\ i <= derived[p] /\ ledger[i].project = p /\ ledger[i].event = 3
    /\ ledger[i].revision + 1 \in 1..Len(snapshots[p])
    /\ snapshots[p][ledger[i].revision + 1] = "verification-started"

RunOK(p) ==
  /\ ran[p] \in {0, 1} /\ derived[p] <= Length
  /\ ran[p] = 1 \/ stage[p] = "command" => Shown(p)

LedgerOK ==
  /\ \A i \in 1..Length : ledger[i] # Other => ledger[i].project \in Projects
  /\ EventsInOrder

BundleOK(p) ==
  /\ ControlOK(p) /\ EventsOf(p) /\ RunOK(p)
  /\ Journaled(p) => PreparedOK(p) /\ PendingOK(p)
  /\ ~Journaled(p) => QuietOK(p)

Inv == LedgerOK /\ \A p \in Projects : BundleOK(p)

-----------------------------------------------------------------------------
(* The plans. *)

Before(kind, k, s) == \E i \in 1..(k - 1) : Script(kind)[i] = s
PlanOK(kind, k) ==
  LET s == Script(kind)[k] IN
  /\ s.do \in {"event", "snapshot", "pointer", "source", "turn", "current", "converge",
               "removeLag", "remove"}
  /\ s.do = "event" =>
       /\ s.at \in 1..Events(kind)
       /\ s.at > 1 => Before(kind, k, Event(s.at - 1))
       /\ kind = "approve" /\ s.at = 8 => Before(kind, k, Do("source"))
  /\ s.do = "snapshot" => /\ s.at \in 1..Added(kind)
                          /\ s.at > 1 => Before(kind, k, Snapshot(s.at - 1))
  /\ s.do = "pointer" => /\ s.at \in 1..Added(kind)
                         /\ Before(kind, k, Snapshot(s.at))
  /\ s.do = "source" => kind # "verify"
  /\ s.do = "turn" => kind = "approve"
  /\ s.do = "current" => /\ Before(kind, k, Pointer(Added(kind)))
                         /\ Before(kind, k, Event(Events(kind)))
  /\ s.do = "removeLag" => kind = "approve" /\ Before(kind, k, Do("converge"))
  /\ s.do = "remove" =>
       /\ Before(kind, k, Do("current")) /\ Before(kind, k, Do("converge"))
       /\ kind = "approve" => /\ Before(kind, k, Do("turn")) /\ Before(kind, k, Do("source"))
                              /\ Before(kind, k, Do("removeLag"))
       /\ kind \in {"deny", "cancel"} => Before(kind, k, Do("source"))
  /\ s.do # "remove" => k < Len(Script(kind))

LEMMA Plans ==
  ASSUME NEW kind \in Kinds, NEW k \in 1..Len(Script(kind))
  PROVE  PlanOK(kind, k)
<1> USE DEF Before, PlanOK, Event, Snapshot, Pointer, Do, Events, Added, Phases, Script
<1>1. CASE kind = "approve"
  <2>1. Len(ApprovalOrder) = 20
    BY DEF ApprovalOrder
  <2>2. k \in 1..20
    BY <1>1, <2>1
  <2> QED BY <1>1, <2>1, <2>2, SMTT(30) DEF ApprovalOrder
<1>2. CASE kind = "verify"
  BY <1>2 DEF VerificationOrder
<1>3. CASE kind \in {"deny", "cancel"}
  BY <1>3, SMTT(30) DEF TerminalOrder
<1> QED BY <1>1, <1>2, <1>3 DEF Kinds

-----------------------------------------------------------------------------
(* What is known at each step of a bundle. *)

LEMMA Numbers ==
  ASSUME NEW kind \in Kinds
  PROVE  /\ Events(kind) \in {3, 10} /\ Added(kind) \in {1, 2}
         /\ Len(Phases(kind)) = Added(kind)
         /\ \A n \in 1..Added(kind) : Phases(kind)[n] \in PhaseNames
         /\ kind = "approve" => Phases(kind)[Added(kind)] = "pending-verification-approval"
         /\ kind = "verify" => Phases(kind)[Added(kind)] = "verification-started"
         /\ kind \in {"deny", "cancel"} => Phases(kind)[Added(kind)] = "cancelled"
         /\ Len(Script(kind)) \in {8, 9, 20}
<1> USE DEF Events, Added, Phases, Script, ApprovalOrder, VerificationOrder, TerminalOrder
<1>1. CASE kind = "approve"
  <2>1. Phases(kind) = <<"approved", "pending-verification-approval">> /\ Events(kind) = 10
    BY <1>1
  <2>2. Len(Script(kind)) = 20
    BY <1>1
  <2>3. Added(kind) = 2 /\ Len(Phases(kind)) = 2
    BY <2>1
  <2>4. \A n \in 1..2 : Phases(kind)[n] \in PhaseNames
    BY <2>1 DEF PhaseNames
  <2> QED BY <1>1, <2>1, <2>2, <2>3, <2>4
<1>2. CASE kind = "verify"
  <2>1. Phases(kind) = <<"verification-started">> /\ Events(kind) = 3
    BY <1>2
  <2>2. Len(Script(kind)) = 8
    BY <1>2
  <2>3. Added(kind) = 1 /\ Len(Phases(kind)) = 1
    BY <2>1
  <2>4. \A n \in 1..1 : Phases(kind)[n] \in PhaseNames
    BY <2>1 DEF PhaseNames
  <2> QED BY <1>2, <2>1, <2>2, <2>3, <2>4
<1>3. CASE kind = "deny"
  <2>1. Phases(kind) = <<"cancelled">> /\ Events(kind) = 3
    BY <1>3
  <2>2. Len(Script(kind)) = 9
    BY <1>3
  <2>3. Added(kind) = 1 /\ Len(Phases(kind)) = 1
    BY <2>1
  <2>4. \A n \in 1..1 : Phases(kind)[n] \in PhaseNames
    BY <2>1 DEF PhaseNames
  <2> QED BY <1>3, <2>1, <2>2, <2>3, <2>4
<1>4. CASE kind = "cancel"
  <2>1. Phases(kind) = <<"cancelled">> /\ Events(kind) = 3
    BY <1>4
  <2>2. Len(Script(kind)) = 9
    BY <1>4
  <2>3. Added(kind) = 1 /\ Len(Phases(kind)) = 1
    BY <2>1
  <2>4. \A n \in 1..1 : Phases(kind)[n] \in PhaseNames
    BY <2>1 DEF PhaseNames
  <2> QED BY <1>4, <2>1, <2>2, <2>3, <2>4
<1> QED BY <1>1, <1>2, <1>3, <1>4 DEF Kinds

LEMMA JournalType ==
  ASSUME TypeOK, NEW p \in Projects, Journaled(p)
  PROVE  /\ journal[p] \in Journals
         /\ journal[p].kind \in Kinds /\ journal[p].revision \in Nat /\ journal[p].head \in Nat
         /\ journal[p].rollback \in BOOLEAN
         /\ journal[p].before \in Image
         /\ LastRevision(journal[p]) = journal[p].revision + Added(journal[p].kind)
         /\ LastRevision(journal[p]) \in Nat
         /\ Target(journal[p]) = journal[p].head + Events(journal[p].kind)
         /\ Target(journal[p]) \in Nat
         /\ Completed(journal[p]) \in Image
<1>1. journal[p] \in Journals
  BY DEF TypeOK, Journaled
<1>2. journal[p].kind \in Kinds /\ journal[p].revision \in Nat /\ journal[p].head \in Nat
      /\ journal[p].rollback \in BOOLEAN /\ journal[p].before \in Image
  BY <1>1 DEF Journals
<1>3. Events(journal[p].kind) \in Nat /\ Added(journal[p].kind) \in Nat
  BY <1>2, Numbers
<1> QED BY <1>1, <1>2, <1>3, SMTT(30) DEF LastRevision, Target, Completed, Image, Added

LEMMA Ready ==
  ASSUME TypeOK, NEW p \in Projects, BundleOK(p), Executing(p)
  PROVE  LET j == journal[p]
             s == Step(p)
         IN /\ Journaled(p) /\ writer = p /\ pc[p] \in Nat \ {0}
            /\ s.do = "event" =>
                 /\ s.at \in 1..Events(j.kind)
                 /\ s.at > 1 => Installed(p, s.at - 1)
                 /\ j.kind = "approve" /\ s.at = 8 => source[p] # "before"
            /\ s.do = "snapshot" => /\ s.at \in 1..Added(j.kind)
                                    /\ j.revision + s.at - 1 <= Len(snapshots[p])
            /\ s.do = "pointer" => /\ s.at \in 1..Added(j.kind)
                                   /\ j.revision + s.at <= Len(snapshots[p])
            /\ s.do = "source" => j.kind # "verify"
            /\ s.do = "turn" => j.kind = "approve"
            /\ s.do = "current" => pointer[p] = LastRevision(j) /\ Target(j) <= Length
            /\ s.do = "removeLag" => j.kind = "approve" /\ derived[p] >= Target(j)
            /\ s.do = "remove" =>
                 /\ current[p] = Completed(j) /\ derived[p] >= Target(j)
                 /\ j.kind = "approve" => turn[p] /\ source[p] # "before" /\ lag[p] = "none"
                 /\ j.rollback => source[p] # "after"
            /\ s.do # "remove" => pc[p] + 1 \in 1..Len(Script(j.kind))
<1> DEFINE j == journal[p]
           s == Step(p)
<1>1. /\ Journaled(p) /\ writer = p /\ pc[p] \in 1..Len(Script(j.kind))
      /\ \A k \in 1..(pc[p] - 1) : Done(p, Script(j.kind)[k])
  BY DEF BundleOK, ControlOK, Executing, UnderLease
<1>2. j.kind \in Kinds /\ j.revision \in Nat /\ j.head \in Nat
  BY <1>1, JournalType
<1>3. PlanOK(j.kind, pc[p])
  BY <1>1, <1>2, Plans
<1>4. \A m : Before(j.kind, pc[p], m) => Done(p, m)
  BY <1>1 DEF Before
<1>5. PreparedOK(p) /\ PendingOK(p)
  BY <1>1 DEF BundleOK
<1>6. LastRevision(j) = j.revision + Added(j.kind) /\ Target(j) = j.head + Events(j.kind)
  BY <1>1, JournalType
<1>7. Events(j.kind) \in {3, 10} /\ Added(j.kind) \in {1, 2} /\ Len(Script(j.kind)) \in Nat
  BY <1>2, Numbers
<1>8. snapshots[p] \in Seq(PhaseNames) /\ Len(snapshots[p]) \in Nat /\ pointer[p] \in Nat /\ Length \in Nat
  BY SMTT(30) DEF TypeOK, Length
<1> USE DEF PlanOK, Step
<1>a. s.do = "event" =>
        /\ s.at \in 1..Events(j.kind)
        /\ s.at > 1 => Installed(p, s.at - 1)
        /\ j.kind = "approve" /\ s.at = 8 => source[p] # "before"
  BY <1>3, <1>4 DEF Done, Event, Do
<1>b. s.do = "snapshot" => /\ s.at \in 1..Added(j.kind)
                           /\ j.revision + s.at - 1 <= Len(snapshots[p])
  <2>1. s.do = "snapshot" /\ s.at > 1 => j.revision + (s.at - 1) <= Len(snapshots[p])
    BY <1>3, <1>4 DEF Done, Snapshot
  <2>2. j.revision <= Len(snapshots[p])
    BY <1>5, <1>2, <1>6, <1>7 DEF PendingOK
  <2> QED BY <1>2, <1>3, <1>7, <1>8, <2>1, <2>2
<1>c. s.do = "pointer" => /\ s.at \in 1..Added(j.kind)
                          /\ j.revision + s.at <= Len(snapshots[p])
  BY <1>3, <1>4 DEF Done, Snapshot
<1>d. s.do = "current" => pointer[p] = LastRevision(j) /\ Target(j) <= Length
  <2>1. s.do = "current" => j.revision + Added(j.kind) <= pointer[p]
                            /\ Installed(p, Events(j.kind))
    BY <1>3, <1>4 DEF Done, Pointer, Event
  <2>2. pointer[p] <= LastRevision(j)
    BY <1>5, <1>2, <1>6, <1>7, <1>8 DEF PendingOK
  <2> QED BY <1>2, <1>6, <1>7, <1>8, <2>1, <2>2 DEF Installed, Length
<1>e. s.do = "removeLag" => j.kind = "approve" /\ derived[p] >= Target(j)
  BY <1>3, <1>4 DEF Done, Do
<1>f. s.do = "remove" =>
         /\ current[p] = Completed(j) /\ derived[p] >= Target(j)
         /\ j.kind = "approve" => turn[p] /\ source[p] # "before" /\ lag[p] = "none"
         /\ j.rollback => source[p] # "after"
  <2> HAVE s.do = "remove"
  <2>1. current[p] = Completed(j) /\ derived[p] >= Target(j)
    BY <1>3, <1>4 DEF Done, Do
  <2>2. j.kind = "approve" => turn[p] /\ source[p] # "before" /\ lag[p] = "none"
    BY <1>3, <1>4 DEF Done, Do
  <2>3. j.rollback => source[p] # "after"
    BY <1>3, <1>4, <1>5, <1>2, <2>2 DEF Done, Do, PreparedOK, Kinds
  <2> QED BY <2>1, <2>2, <2>3
<1> QED BY <1>1, <1>2, <1>3, <1>7, <1>8, <1>a, <1>b, <1>c, <1>d, <1>e, <1>f

-----------------------------------------------------------------------------
(* A step of one project leaves the others as they are. *)

Kept(q) ==
  /\ journal'[q] = journal[q] /\ stage'[q] = stage[q] /\ pc'[q] = pc[q]
  /\ chosen'[q] = chosen[q] /\ snapshots'[q] = snapshots[q] /\ pointer'[q] = pointer[q]
  /\ source'[q] = source[q] /\ turn'[q] = turn[q] /\ current'[q] = current[q]
  /\ derived'[q] = derived[q] /\ lag'[q] = lag[q] /\ ran'[q] = ran[q]
  /\ writer' = q <=> writer = q

Grows ==
  /\ Len(ledger') \in Nat /\ Len(ledger) <= Len(ledger')
  /\ \A i \in 1..Len(ledger) : ledger'[i] = ledger[i]
Foreign(q) == \A i \in (Len(ledger) + 1)..Len(ledger') : ledger'[i].project # q

(* what is on disk for q only grows, and its file is not taken back *)
Longer(q) ==
  /\ Len(snapshots'[q]) \in Nat /\ Len(snapshots[q]) <= Len(snapshots'[q])
  /\ \A i \in 1..Len(snapshots[q]) : snapshots'[q][i] = snapshots[q][i]
Onward(q) ==
  /\ Longer(q)
  /\ pointer'[q] \in Nat /\ pointer[q] <= pointer'[q]
  /\ source'[q] \in {source[q], "user"} \/ Done(q, Do("source"))'
  /\ turn[q] => turn'[q]
  /\ current'[q] \in {current[q], Completed(journal[q])}
  /\ derived'[q] \in Nat /\ derived[q] <= derived'[q]
  /\ lag'[q] \in {lag[q], "none"}

LEMMA Element ==
  ASSUME NEW S, NEW s \in Seq(S), NEW i \in 1..Len(s)
  PROVE  s[i] \in S
  OBVIOUS

LEMMA Entry ==
  ASSUME TypeOK, NEW i \in 1..Len(ledger)
  PROVE  /\ ledger[i].project \in Projects \cup {NoProject}
         /\ ledger[i].revision \in Nat /\ ledger[i].event \in Nat
<1>1. ledger \in Seq([project : Projects \cup {NoProject}, revision : Nat, event : Nat])
  BY DEF TypeOK
<1>2. ledger[i] \in [project : Projects \cup {NoProject}, revision : Nat, event : Nat]
  BY <1>1, Element
<1> QED BY <1>2

LEMMA Growth ==
  ASSUME TypeOK, NEW e, ledger' = Append(ledger, e)
  PROVE  /\ Grows /\ Len(ledger') = Len(ledger) + 1 /\ ledger'[Len(ledger) + 1] = e
         /\ \A q : e.project # q => Foreign(q)
  BY DEF TypeOK, Grows, Foreign

LEMMA StillInstalled ==
  ASSUME TypeOK, NEW q \in Projects, Journaled(q), journal'[q] = journal[q], Grows,
         NEW n \in 1..10
  PROVE  /\ Installed(q, n) => Installed(q, n)'
         /\ Foreign(q) /\ Installed(q, n)' => Installed(q, n)
<1>1. journal[q].head \in Nat /\ Len(ledger) \in Nat
  <2>1. Len(ledger) \in Nat
    BY DEF TypeOK
  <2> QED BY <2>1, JournalType
<1>2. Planned(q, journal[q], n)' = Planned(q, journal[q], n) /\ Planned(q, journal[q], n).project = q
  BY DEF Planned
<1> QED BY <1>1, <1>2, SMTT(30) DEF Installed, Grows, Foreign

LEMMA EventPlace ==
  ASSUME NEW kind \in Kinds, NEW k \in 1..Len(Script(kind)), Script(kind)[k].do = "event"
  PROVE  Script(kind)[k].at \in 1..10
<1>1. Script(kind)[k].at \in 1..Events(kind)
  BY Plans DEF PlanOK
<1>2. CASE Events(kind) = 10
  BY <1>1, <1>2
<1>3. CASE Events(kind) = 3
  BY <1>1, <1>3
<1> QED BY <1>2, <1>3, Numbers

LEMMA StillDone ==
  ASSUME TypeOK, NEW q \in Projects, Journaled(q), journal'[q] = journal[q], Grows,
         NEW kind \in Kinds, kind = journal[q].kind,
         NEW k \in 1..Len(Script(kind)), Done(q, Script(kind)[k]),
         Onward(q)
  PROVE  Done(q, Script(kind)[k])'
<1>0. \E s : s = Script(kind)[k]
  OBVIOUS
<1>1. PICK s : s = Script(kind)[k]
  BY <1>0
<1>2. s.do = "event" => s.at \in 1..10
  BY <1>1, EventPlace
<1>3. s.do \in {"snapshot", "pointer"} => s.at \in 1..Added(kind)
  BY <1>1, Plans DEF PlanOK
<1>4. Events(kind) \in {3, 10} /\ Added(kind) \in {1, 2}
  BY Numbers
<1>5. journal[q].revision \in Nat /\ Target(journal[q]) \in Nat
  BY JournalType
<1>6. Len(snapshots[q]) \in Nat /\ pointer[q] \in Nat /\ derived[q] \in Nat
  BY DEF TypeOK
<1>7. Done(q, s)
  BY <1>1
<1>a. s.do = "event" => Installed(q, s.at)'
  <2> HAVE s.do = "event"
  <2>1. s.at \in 1..10
    BY <1>2
  <2>2. Installed(q, s.at)
    BY <1>7 DEF Done
  <2> QED BY <2>1, <2>2, StillInstalled
<1>b. s.do = "source" => /\ journal[q].kind = "approve" => source'[q] # "before"
                         /\ journal[q].rollback => source'[q] # "after"
  BY <1>7 DEF Done, Do, Onward
<1>j. s.do \in {"snapshot", "pointer"} => s.at \in Nat
  BY <1>3, <1>4
<1>c. s.do = "snapshot" => journal[q].revision + s.at <= Len(snapshots'[q])
  <2>1. s.do = "snapshot" => journal[q].revision + s.at <= Len(snapshots[q])
    BY <1>7 DEF Done
  <2> QED BY <1>5, <1>6, <1>j, <2>1, SMTT(30) DEF Onward, Longer
<1>d. s.do = "pointer" => journal[q].revision + s.at <= pointer'[q]
  <2>1. s.do = "pointer" => journal[q].revision + s.at <= pointer[q]
    BY <1>7 DEF Done
  <2> QED BY <1>5, <1>6, <1>j, <2>1, SMTT(30) DEF Onward, Longer
<1>e. s.do = "current" => current'[q] = Completed(journal[q])
  BY <1>7 DEF Done, Onward
<1>f. s.do = "converge" => derived'[q] >= Target(journal[q])
  BY <1>5, <1>6, <1>7 DEF Done, Onward
<1>g. (s.do = "turn" => turn'[q]) /\ (s.do = "removeLag" => lag'[q] = "none")
  BY <1>7 DEF Done, Onward
<1>h. Completed(journal[q])' = Completed(journal[q]) /\ Target(journal[q])' = Target(journal[q])
  BY DEF Completed, Target, LastRevision, Events, Phases
<1>8. Done(q, s)'
  BY <1>a, <1>b, <1>c, <1>d, <1>e, <1>f, <1>g, <1>h DEF Done
<1> QED BY <1>1, <1>8

-----------------------------------------------------------------------------
(* Each part of the invariant where nothing of it changes. *)

LEMMA DoneSoFar ==
  ASSUME TypeOK, NEW q \in Projects, ControlOK(q), Executing(q),
         journal'[q] = journal[q], Grows, Onward(q)
  PROVE  \A k \in 1..(pc[q] - 1) : Done(q, Script(journal[q].kind)[k])'
<1>1. Journaled(q) /\ pc[q] \in 1..Len(Script(journal[q].kind))
      /\ \A k \in 1..(pc[q] - 1) : Done(q, Script(journal[q].kind)[k])
  BY DEF ControlOK
<1>2. journal[q].kind \in Kinds
  BY <1>1, JournalType
<1>3. PICK kind \in Kinds : kind = journal[q].kind
  BY <1>2
<1>4. SUFFICES ASSUME NEW k \in 1..(pc[q] - 1)
               PROVE  Done(q, Script(kind)[k])'
  BY <1>3
<1>5. k \in 1..Len(Script(kind)) /\ Done(q, Script(kind)[k])
  <2>1. Len(Script(kind)) \in Nat
    BY Numbers
  <2> QED BY <1>1, <1>3, <2>1
<1> QED BY <1>1, <1>3, <1>5, StillDone

LEMMA ControlKept ==
  ASSUME TypeOK, NEW q \in Projects, ControlOK(q),
         journal'[q] = journal[q], stage'[q] = stage[q], pc'[q] = pc[q],
         writer' = q <=> writer = q, Grows, Onward(q)
  PROVE  ControlOK(q)'
<1>1. Executing(q) => \A k \in 1..(pc[q] - 1) : Done(q, Script(journal[q].kind)[k])'
  BY DoneSoFar
<1>2. lag'[q] # "none" => Approving(q)
  BY DEF ControlOK, Onward
<1> QED BY <1>1, <1>2 DEF ControlOK, Executing, Journaled, Approving

LEMMA ControlLeft ==
  ASSUME TypeOK, NEW q \in Projects, ControlOK(q), writer' # q, stage'[q] = "idle",
         journal'[q] = journal[q], lag'[q] \in {lag[q], "none"} \/ Approving(q)
  PROVE  ControlOK(q)'
  BY DEF ControlOK, Executing, Approving, UnderLease, Awaited

LEMMA EventsKept ==
  ASSUME TypeOK, NEW q \in Projects, EventsOf(q), Grows, Foreign(q),
         journal'[q] = journal[q], pointer[q] <= pointer'[q], pointer'[q] \in Nat
  PROVE  EventsOf(q)'
<1>1. SUFFICES ASSUME NEW i \in 1..Len(ledger'), ledger'[i].project = q
               PROVE  IF Journaled(q)
                      THEN /\ ledger'[i].revision <= journal[q].revision
                           /\ ledger'[i].revision = journal[q].revision =>
                                /\ ledger'[i].event \in 1..Events(journal[q].kind)
                                /\ i = journal[q].head + ledger'[i].event
                      ELSE ledger'[i].revision < pointer'[q]
  BY DEF EventsOf, Length, Journaled
<1>2. Len(ledger) \in Nat
  BY DEF TypeOK
<1>3. i \in 1..Len(ledger) /\ ledger'[i] = ledger[i]
  BY <1>1, <1>2 DEF Grows, Foreign
<1>4. ledger[i].revision \in Nat /\ pointer[q] \in Nat
  BY <1>3, Entry DEF TypeOK
<1> QED BY <1>1, <1>3, <1>4 DEF EventsOf, Length

LEMMA RunKept ==
  ASSUME TypeOK, NEW q \in Projects, RunOK(q), Grows, Longer(q),
         derived'[q] \in derived[q]..Len(ledger'),
         ran'[q] = ran[q], stage'[q] = "command" => stage[q] = "command"
  PROVE  RunOK(q)'
<1>1. Len(ledger) \in Nat /\ derived[q] \in Nat /\ Len(snapshots[q]) \in Nat
  BY SMTT(30) DEF TypeOK
<1>2. Shown(q) => Shown(q)'
  <2> HAVE Shown(q)
  <2>1. PICK i \in 1..Length :
          /\ i <= derived[q] /\ ledger[i].project = q /\ ledger[i].event = 3
          /\ ledger[i].revision + 1 \in 1..Len(snapshots[q])
          /\ snapshots[q][ledger[i].revision + 1] = "verification-started"
    BY DEF Shown
  <2>2. i \in 1..Len(ledger') /\ ledger'[i] = ledger[i]
    BY <1>1 DEF Grows, Length
  <2>4. i <= derived'[q]
    BY <1>1, <2>1 DEF Grows
  <2>3. /\ ledger[i].revision + 1 \in 1..Len(snapshots'[q])
        /\ snapshots'[q][ledger[i].revision + 1] = "verification-started"
    BY <1>1, <2>1 DEF Longer
  <2> QED BY <2>1, <2>2, <2>3, <2>4 DEF Shown, Length
<1> QED BY <1>1, <1>2 DEF RunOK, Length, Grows

LEMMA PreparedKept ==
  ASSUME TypeOK, NEW q \in Projects, Journaled(q), PreparedOK(q), Grows, Longer(q),
         journal'[q] = journal[q], journal[q].revision \in 1..Len(snapshots[q]),
         source'[q] \in {source[q], "user"}, turn[q] => turn'[q], ran'[q] = ran[q],
         Foreign(q)
  PROVE  PreparedOK(q)'
<1>1. /\ journal[q].head \in Nat /\ journal[q].revision \in Nat
      /\ journal[q].before.head \in Nat
  BY JournalType DEF Image
<1>2. Len(ledger) \in Nat
  BY DEF TypeOK
<1>3. Installed(q, 8)' => Installed(q, 8)
  BY StillInstalled
<1>4. journal[q].head <= Length'
  BY <1>1, <1>2 DEF PreparedOK, Length, Grows
<1>5. snapshots'[q][journal[q].revision] = snapshots[q][journal[q].revision]
  BY DEF Longer
<1> QED BY <1>1, <1>3, <1>4, <1>5 DEF PreparedOK, Approving

LEMMA PendingKept ==
  ASSUME TypeOK, NEW q \in Projects, Journaled(q), PendingOK(q), Grows,
         journal'[q] = journal[q], snapshots'[q] = snapshots[q], pointer'[q] = pointer[q],
         current'[q] = current[q]
  PROVE  PendingOK(q)'
<1>1. Len(ledger) \in Nat /\ Target(journal[q]) \in Nat
  <2>1. Len(ledger) \in Nat
    BY DEF TypeOK
  <2> QED BY <2>1, JournalType
<1>2. Target(journal[q]) <= Length => Target(journal[q]) <= Length'
  BY <1>1 DEF Length, Grows
<1>3. /\ Completed(journal[q])' = Completed(journal[q]) /\ Target(journal[q])' = Target(journal[q])
      /\ LastRevision(journal[q])' = LastRevision(journal[q])
      /\ Added(journal[q].kind)' = Added(journal[q].kind)
      /\ \A n : Phases(journal[q].kind)[n]' = Phases(journal[q].kind)[n]
  BY DEF Completed, Target, LastRevision, Events, Phases, Added
<1> QED BY <1>2, <1>3 DEF PendingOK, CurrentCas

LEMMA QuietKept ==
  ASSUME TypeOK, NEW q \in Projects, QuietOK(q), Grows, RunOK(q),
         snapshots'[q] = snapshots[q], pointer'[q] = pointer[q], current'[q] = current[q],
         source'[q] \in {source[q], "user"}, turn[q] => turn'[q], ran'[q] = ran[q],
         derived'[q] = derived[q], chosen'[q] = chosen[q],
         stage'[q] \in {stage[q], "idle"}
  PROVE  QuietOK(q)'
<1>1. Len(ledger) \in Nat /\ current[q].head \in Nat /\ derived[q] \in Nat
  BY SMTT(30) DEF TypeOK, Image
<1>2. current[q].head <= Length'
  BY <1>1 DEF QuietOK, Length, Grows
<1>3. current[q].head > 0 => ledger'[current[q].head] = ledger[current[q].head]
  BY <1>1 DEF QuietOK, Length, Grows
<1> QED BY <1>2, <1>3 DEF QuietOK, Phase, Inconclusive, Awaited

LEMMA OthersKept ==
  ASSUME TypeOK, NEW q \in Projects, BundleOK(q), Kept(q), Grows, Foreign(q)
  PROVE  BundleOK(q)'
<1>1. /\ Len(snapshots[q]) \in Nat /\ pointer[q] \in Nat /\ derived[q] \in Nat
      /\ Len(ledger) \in Nat
  BY SMTT(30) DEF TypeOK
<1>2. Longer(q) /\ Onward(q)
  BY <1>1 DEF Longer, Onward, Kept
<1>3. ControlOK(q)'
  BY <1>2, ControlKept DEF BundleOK, Kept
<1>4. EventsOf(q)'
  BY <1>1, EventsKept DEF BundleOK, Kept
<1>5. RunOK(q)'
  <2>1. derived'[q] \in derived[q]..Len(ledger')
    BY <1>1 DEF Kept, BundleOK, RunOK, Length, Grows
  <2> QED BY <1>2, <2>1, RunKept DEF BundleOK, Kept
<1>6. Journaled(q)' <=> Journaled(q)
  BY DEF Journaled, Kept
<1>7. ASSUME Journaled(q)
      PROVE  PreparedOK(q)' /\ PendingOK(q)'
  <2>1. PreparedOK(q) /\ PendingOK(q)
    BY <1>7 DEF BundleOK
  <2>2. journal[q].revision \in 1..Len(snapshots[q])
    BY <1>1, <1>7, <2>1, JournalType DEF PreparedOK, PendingOK
  <2> QED BY <1>2, <1>7, <2>1, <2>2, PreparedKept, PendingKept DEF Kept
<1>8. ASSUME ~Journaled(q)
      PROVE  QuietOK(q)'
  BY <1>8, QuietKept DEF BundleOK, Kept
<1> QED BY <1>3, <1>4, <1>5, <1>6, <1>7, <1>8 DEF BundleOK


-----------------------------------------------------------------------------
(* A command starts, returns, or finds a journal. *)

Private(p) == \A q \in Projects \ {p} : Kept(q) /\ Foreign(q)
StepOK(p) == LedgerOK' /\ BundleOK(p)' /\ Grows /\ Private(p)

LEMMA SameLedger ==
  ASSUME TypeOK, LedgerOK, ledger' = ledger
  PROVE  LedgerOK' /\ Grows /\ \A q : Foreign(q)
<1>1. Len(ledger) \in Nat
  BY DEF TypeOK
<1> QED BY <1>1 DEF LedgerOK, EventsInOrder, Length, Grows, Foreign

LEMMA Stays ==
  ASSUME TypeOK, NEW q \in Projects, snapshots'[q] = snapshots[q], pointer'[q] = pointer[q],
         source'[q] \in {source[q], "user"}, turn'[q] = turn[q], current'[q] = current[q],
         derived'[q] = derived[q], lag'[q] \in {lag[q], "none"}
  PROVE  Longer(q) /\ Onward(q)
<1>1. Len(snapshots[q]) \in Nat /\ pointer[q] \in Nat /\ derived[q] \in Nat
  BY DEF TypeOK
<1> QED BY <1>1 DEF Longer, Onward

(* what a step keeps that leaves the ledger and most files alone *)
LEMMA BundleKept ==
  ASSUME TypeOK, NEW p \in Projects, BundleOK(p), ledger' = ledger, journal'[p] = journal[p],
         snapshots'[p] = snapshots[p], pointer'[p] = pointer[p], current'[p] = current[p],
         turn'[p] = turn[p], ran'[p] = ran[p], source'[p] \in {source[p], "user"},
         derived'[p] \in {derived[p], Len(ledger)}
  PROVE  /\ EventsOf(p)'
         /\ Journaled(p) => PreparedOK(p)' /\ PendingOK(p)'
         /\ stage'[p] \in {stage[p], "idle"} /\ chosen'[p] = chosen[p] /\ ~Journaled(p)
            /\ derived'[p] = derived[p] => QuietOK(p)'
         /\ stage'[p] # "command" \/ stage[p] = "command" => RunOK(p)'
<1>1. Grows /\ Foreign(p)
  <2>1. Len(ledger) \in Nat
    BY DEF TypeOK
  <2> QED BY <2>1 DEF Grows, Foreign
<1>3. /\ Len(snapshots[p]) \in Nat /\ pointer[p] \in Nat /\ derived[p] \in Nat
      /\ Len(ledger) \in Nat
  BY DEF TypeOK
<1>2. Longer(p)
  BY <1>3 DEF Longer
<1>4. EventsOf(p)'
  BY <1>1, <1>3, EventsKept DEF BundleOK
<1>5. Journaled(p) => PreparedOK(p)' /\ PendingOK(p)'
  <2> HAVE Journaled(p)
  <2>1. PreparedOK(p) /\ PendingOK(p)
    BY DEF BundleOK
  <2>2. journal[p].revision \in 1..Len(snapshots[p])
    BY <1>3, <2>1, JournalType DEF PreparedOK, PendingOK
  <2> QED BY <1>1, <1>2, <2>1, <2>2, PreparedKept, PendingKept
<1>6. ASSUME stage'[p] \in {stage[p], "idle"}, chosen'[p] = chosen[p], ~Journaled(p),
             derived'[p] = derived[p]
      PROVE  QuietOK(p)'
  BY <1>1, <1>6, QuietKept DEF BundleOK
<1>7. ASSUME stage'[p] # "command" \/ stage[p] = "command"
      PROVE  RunOK(p)'
  <2>1. derived'[p] \in derived[p]..Len(ledger')
    BY <1>3 DEF BundleOK, RunOK, Length
  <2> QED BY <1>1, <1>2, <1>7, <2>1, RunKept DEF BundleOK
<1> QED BY <1>4, <1>5, <1>6, <1>7

LEMMA Returning ==
  ASSUME TypeOK, LedgerOK, NEW p \in Projects, BundleOK(p),
         stage' = [stage EXCEPT ![p] = "idle"], pc' = [pc EXCEPT ![p] = 0],
         writer' = IF writer = p THEN NoProject ELSE writer,
         UNCHANGED <<ledger, journal, chosen, files, ran>>
  PROVE  StepOK(p)
<1>1. LedgerOK' /\ Grows /\ \A q : Foreign(q)
  BY SameLedger
<1>2. \A q \in Projects \ {p} : Kept(q)
  BY ApprovalAssumption DEF TypeOK, Kept, files
<1>3. stage'[p] = "idle" /\ writer' # p
  BY ApprovalAssumption DEF TypeOK
<1>4. ControlOK(p)'
  BY <1>3, ControlLeft DEF BundleOK, files
<1>5. Journaled(p)' <=> Journaled(p)
  BY DEF Journaled
<1> QED BY <1>1, <1>2, <1>3, <1>4, <1>5, BundleKept DEF StepOK, Private, BundleOK, files

LEMMA AbortOK ==
  ASSUME TypeOK, LedgerOK, NEW p \in Projects, BundleOK(p), Abort(p)
  PROVE  TypeOK' /\ StepOK(p)
<1>1. TypeOK'
  BY DEF TypeOK, Abort, Return, files, budgets, Stages
<1> QED BY <1>1, Returning DEF Abort, Return, files

LEMMA StopOK ==
  ASSUME TypeOK, LedgerOK, NEW p \in Projects, BundleOK(p), Stop(p)
  PROVE  TypeOK' /\ StepOK(p)
<1>1. TypeOK'
  BY ApprovalAssumption, SMTT(30) DEF TypeOK, Stop, Return, files, Stages
<1> QED BY <1>1, Returning DEF Stop, Return, files

LEMMA ObserveOK ==
  ASSUME TypeOK, LedgerOK, NEW p \in Projects, BundleOK(p), NEW k \in {"approve", "verify"},
         Observe(p, k)
  PROVE  TypeOK' /\ StepOK(p)
<1> USE DEF Observe
<1>1. TypeOK'
  <2>1. Length \in Nat /\ k \in Kinds
    BY DEF TypeOK, Length, Kinds
  <2> QED BY <2>1 DEF TypeOK, files, budgets, Stages
<1>2. LedgerOK' /\ Grows /\ \A q : Foreign(q)
  BY SameLedger
<1>3. \A q \in Projects \ {p} : Kept(q)
  BY DEF TypeOK, Kept, files
<1>4. stage'[p] = "observed" /\ ~Journaled(p) /\ ~Journaled(p)'
  BY DEF TypeOK, Journaled
<1>5. ControlOK(p)'
  BY <1>4 DEF BundleOK, ControlOK, Executing, UnderLease, Awaited, Journaled, Approving, files
<1>6. QuietOK(p)'
  BY <1>4 DEF BundleOK, QuietOK, Phase, Inconclusive, Awaited, files, VerifiablePhases, TypeOK,
              Length
<1>7. EventsOf(p)' /\ RunOK(p)'
  BY <1>4, BundleKept DEF files
<1> QED BY <1>1, <1>2, <1>3, <1>4, <1>5, <1>6, <1>7 DEF StepOK, Private, BundleOK

LEMMA RecoverOK ==
  ASSUME TypeOK, LedgerOK, NEW p \in Projects, BundleOK(p), Retry(p)
  PROVE  TypeOK' /\ StepOK(p)
<1>1. \/ Approving(p) /\ Recover(p, {"approve"}, "lagTemp", 0)
      \/ Recover(p, Kinds, "recovering", 1)
  BY DEF Retry, HoldAtBarrier, RecoverApproval, RecoverVerification, RecoverTerminal, Recover,
         Kinds
<1>2. /\ Journaled(p) /\ writer = NoProject /\ writer' = p
      /\ UNCHANGED <<ledger, journal, seen, chosen, files, ran, budgets>>
  BY <1>1 DEF Recover
<1>3. /\ stage'[p] \in {"lagTemp", "recovering"}
      /\ stage'[p] = "lagTemp" => Approving(p)
      /\ stage'[p] = "recovering" => pc'[p] = 1
      /\ stage' \in [Projects -> Stages]
      /\ pc' \in [Projects -> Nat]
  <2>1. CASE Approving(p) /\ Recover(p, {"approve"}, "lagTemp", 0)
    BY <2>1 DEF Recover, TypeOK, Stages
  <2>2. CASE Recover(p, Kinds, "recovering", 1)
    BY <2>2 DEF Recover, TypeOK, Stages
  <2> QED BY <1>1, <2>1, <2>2
<1>4. TypeOK'
  BY <1>2, <1>3 DEF TypeOK, files, budgets
<1>5. LedgerOK' /\ Grows /\ \A q : Foreign(q)
  BY <1>2, SameLedger
<1>6. \A q \in Projects \ {p} : Kept(q)
  BY <1>1, <1>2, ApprovalAssumption DEF TypeOK, Kept, files, Recover
<1>7. ControlOK(p)'
  <2>1. journal[p].kind \in Kinds
    BY <1>2, JournalType
  <2>2. 1 \in 1..Len(Script(journal[p].kind))
    BY <2>1, Numbers, SMTT(30)
  <2> QED BY <1>2, <1>3, <2>2
      DEF BundleOK, ControlOK, Executing, UnderLease, Awaited, Journaled, Approving, files
<1>8. Journaled(p)' <=> Journaled(p)
  BY <1>2 DEF Journaled
<1> QED BY <1>2, <1>3, <1>4, <1>5, <1>6, <1>7, <1>8, BundleKept DEF StepOK, Private, BundleOK, files


-----------------------------------------------------------------------------
(* The commit and the removal of a journal. *)

LEMMA CommitOK ==
  ASSUME TypeOK, LedgerOK, NEW p \in Projects, BundleOK(p), ~Journaled(p),
         NEW k \in Kinds, NEW rollback \in BOOLEAN, Commit(p, k, rollback),
         k \in {"approve", "verify"} => ~rollback,
         k = "approve" => Phase(p) = "pending-approval",
         k = "verify" => Phase(p) = "pending-verification-approval",
         k \in {"deny", "cancel"} /\ ~rollback => source[p] # "after"
  PROVE  TypeOK' /\ StepOK(p)
<1> DEFINE j == [kind |-> k, revision |-> pointer[p], head |-> Length,
                 before |-> current[p], rollback |-> rollback]
<1>1. /\ writer = NoProject /\ writer' = p
      /\ journal' = [journal EXCEPT ![p] = j]
      /\ stage' = [stage EXCEPT ![p] = "running"]
      /\ pc' = [pc EXCEPT ![p] = 1]
      /\ UNCHANGED <<ledger, seen, chosen, files, ran, budgets>>
  BY DEF Commit
<1>2. j \in Journals /\ j # NoJournal
  <2>1. Length \in Nat /\ pointer[p] \in Nat /\ current[p] \in Image
    BY DEF TypeOK, Length
  <2>2. j \in Journals
    BY <2>1 DEF Journals
  <2>3. j.kind # NoJournal.kind
    BY DEF Kinds, NoJournal
  <2> QED BY <2>2, <2>3
<1>3. TypeOK'
  <2>1. journal' \in [Projects -> Journals \cup {NoJournal}]
    BY <1>1, <1>2 DEF TypeOK
  <2> HIDE DEF j
  <2>2. stage' \in [Projects -> Stages] /\ pc' \in [Projects -> Nat]
    BY <1>1 DEF TypeOK, Stages
  <2> QED BY <1>1, <2>1, <2>2 DEF TypeOK, files, budgets
<1>4. journal'[p] = j /\ stage'[p] = "running" /\ pc'[p] = 1
  BY <1>1 DEF TypeOK
<1>5. Journaled(p)'
  BY <1>2, <1>4 DEF Journaled
<1> HIDE DEF j
<1>6. LedgerOK' /\ Grows /\ \A q : Foreign(q)
  BY <1>1, SameLedger
<1>7. \A q \in Projects \ {p} : Kept(q)
  BY <1>1, ApprovalAssumption DEF TypeOK, Kept, files
<1>8. /\ j.kind = k /\ j.revision = pointer[p] /\ j.head = Length /\ j.before = current[p]
      /\ j.rollback = rollback
  BY DEF j
<1>9. QuietOK(p) /\ RunOK(p) /\ EventsOf(p) /\ ControlOK(p)
  BY DEF BundleOK
<1>10. ControlOK(p)'
  <2>1. lag'[p] = "none"
    BY <1>1, <1>9 DEF ControlOK, Journaled, NoJournal, Approving, files
  <2>2. 1 \in 1..Len(Script(k))
    BY Numbers
  <2> QED BY <1>1, <1>4, <1>5, <1>8, <2>1, <2>2 DEF ControlOK, Executing, UnderLease, Awaited
<1>11. EventsOf(p)'
  <2>1. SUFFICES ASSUME NEW i \in 1..Length, ledger[i].project = p
                 PROVE  ledger[i].revision < pointer[p] /\ ledger[i].revision \in Nat
                        /\ pointer[p] \in Nat
    BY <1>1, <1>4, <1>5, <1>8 DEF EventsOf, Length
  <2>2. ledger[i].revision \in Nat /\ pointer[p] \in Nat
    BY <2>1, Entry DEF TypeOK, Length
  <2> QED BY <1>9, <2>1, <2>2 DEF EventsOf
<1>12. RunOK(p)'
  <2>1. Longer(p) /\ derived'[p] \in derived[p]..Len(ledger')
    BY <1>1, <1>9, Stays, SMTT(30) DEF files, RunOK, TypeOK, Length
  <2> QED BY <1>1, <1>4, <1>6, <1>9, <2>1, RunKept
<1>13. PreparedOK(p)'
  <2>1. pointer[p] >= 1 /\ current[p].revision = pointer[p] /\ current[p].head <= Length
        /\ Length \in Nat
    BY <1>9 DEF QuietOK, TypeOK, Length
  <2>2. ~Installed(p, 8)'
    BY <1>1, <1>4, <1>8, <2>1 DEF Installed, Length
  <2>3. k \in {"approve", "verify"} => ran[p] = 0
    BY <1>9 DEF RunOK, QuietOK, Started
  <2>4. k = "verify" => source[p] # "before" /\ turn[p]
    BY <1>9 DEF QuietOK, Applied, Inconclusive
  <2>5. snapshots[p][j.revision] = Phase(p)
    BY <1>8 DEF Phase
  <2> QED BY <1>1, <1>4, <1>8, <2>1, <2>2, <2>3, <2>4, <2>5 DEF PreparedOK, files, Length
<1>14. PendingOK(p)'
  <2>1. /\ pointer[p] \in Nat /\ Len(snapshots[p]) = pointer[p] /\ current[p].revision = pointer[p]
    BY <1>9 DEF QuietOK, TypeOK
  <2>2. Added(k) \in {1, 2} /\ Added(k) = Len(Phases(k))
    BY Numbers
  <2>3. Completed(j).revision = pointer[p] + Added(k) /\ LastRevision(j) = pointer[p] + Added(k)
    BY <1>8, <2>2 DEF Completed, LastRevision
  <2>4. Completed(j) # current[p]
    <3>1. Added(k) \in Nat /\ Added(k) >= 1
      BY <2>2
    <3>2. Completed(j).revision # current[p].revision
      BY <2>1, <2>3, <3>1
    <3> QED BY <3>2
  <2>5. CurrentCas(p)'
    BY <1>1, <1>4, <1>8 DEF CurrentCas, files
  <2>6. \A n \in 1..Added(j.kind) : ~(j.revision + n <= Len(snapshots[p]))
    BY <1>8, <2>1, <2>2
  <2> QED BY <1>1, <1>4, <1>8, <2>1, <2>2, <2>3, <2>4, <2>5, <2>6 DEF PendingOK, files
<1> QED BY <1>3, <1>5, <1>6, <1>7, <1>10, <1>11, <1>12, <1>13, <1>14 DEF StepOK, Private, BundleOK

LEMMA AdmitOK ==
  ASSUME TypeOK, LedgerOK, NEW p \in Projects, BundleOK(p),
         AdmitApproval(p) \/ AdmitVerification(p)
  PROVE  TypeOK' /\ StepOK(p)
<1>1. ~Journaled(p) /\ QuietOK(p)
  BY DEF BundleOK, ControlOK, AdmitApproval, AdmitVerification
<1>2. CASE AdmitApproval(p)
  BY <1>1, <1>2, CommitOK DEF AdmitApproval, QuietOK, Kinds
<1>3. CASE AdmitVerification(p)
  BY <1>1, <1>3, CommitOK DEF AdmitVerification, QuietOK, Kinds
<1> QED BY <1>2, <1>3

LEMMA TerminalOK ==
  ASSUME TypeOK, LedgerOK, NEW p \in Projects, BundleOK(p), Deny(p) \/ Cancel(p)
  PROVE  TypeOK' /\ StepOK(p)
<1>1. ~Journaled(p) /\ QuietOK(p)
  BY DEF BundleOK, Deny, Cancel
<1>2. Phase(p) \notin Applied /\ Phase(p) # "rollback-failed" => source[p] # "after"
  BY <1>1 DEF QuietOK
<1>3. CASE Deny(p)
  <2>1. Commit(p, "deny", HasAppliedSource(p)) /\ "deny" \in Kinds
        /\ HasAppliedSource(p) \in BOOLEAN
    BY <1>3 DEF Deny, PrepareTerminal, HasAppliedSource, Kinds
  <2>2. ~HasAppliedSource(p) => source[p] # "after"
    BY <1>2, <1>3 DEF HasAppliedSource, Deny
  <2> QED BY <1>1, <2>1, <2>2, CommitOK
<1>4. CASE Cancel(p)
  <2> DEFINE back == HasAppliedSource(p) /\ source[p] = "after"
  <2>1. Commit(p, "cancel", back) /\ "cancel" \in Kinds /\ back \in BOOLEAN
    BY <1>4 DEF Cancel, PrepareTerminal, HasAppliedSource, Kinds
  <2>2. ~back => source[p] # "after"
    BY <1>2, <1>4 DEF HasAppliedSource, Cancel, CancellablePhases
  <2> HIDE DEF back
  <2> QED BY <1>1, <2>1, <2>2, CommitOK
<1> QED BY <1>3, <1>4


LEMMA RemoveOK ==
  ASSUME TypeOK, LedgerOK, NEW p \in Projects, BundleOK(p), RemoveJournal(p)
  PROVE  TypeOK' /\ StepOK(p)
<1> DEFINE j == journal[p]
           next == IF stage[p] = "running" /\ j.kind = "verify" THEN "command" ELSE "idle"
<1>1. /\ Executing(p) /\ Step(p).do = "remove"
      /\ journal' = [journal EXCEPT ![p] = NoJournal]
      /\ stage' = [stage EXCEPT ![p] = next]
      /\ pc' = [pc EXCEPT ![p] = 0]
      /\ writer' = NoProject
      /\ UNCHANGED <<ledger, seen, chosen, files, ran, budgets>>
  BY DEF RemoveJournal, At
<1>2. /\ Journaled(p) /\ writer = p
      /\ current[p] = Completed(j) /\ derived[p] >= Target(j)
      /\ j.kind = "approve" => turn[p] /\ source[p] # "before" /\ lag[p] = "none"
      /\ j.rollback => source[p] # "after"
  BY <1>1, Ready
<1>3. /\ j.kind \in Kinds /\ j.revision \in Nat /\ j.head \in Nat
      /\ LastRevision(j) = j.revision + Added(j.kind) /\ LastRevision(j) \in Nat
      /\ Target(j) = j.head + Events(j.kind) /\ Target(j) \in Nat
      /\ Completed(j) = [revision |-> LastRevision(j), head |-> Target(j)]
  BY <1>2, JournalType DEF Completed
<1>4. PreparedOK(p) /\ PendingOK(p) /\ EventsOf(p) /\ RunOK(p) /\ ControlOK(p)
  BY <1>2 DEF BundleOK
<1>5. /\ Len(snapshots[p]) \in Nat /\ pointer[p] \in Nat /\ derived[p] \in Nat
      /\ Len(ledger) \in Nat
  BY SMTT(30) DEF TypeOK
<1>6. next \in {"command", "idle"} /\ stage'[p] = next /\ journal'[p] = NoJournal /\ pc'[p] = 0
  BY <1>1 DEF TypeOK
<1>7. TypeOK'
  <2>1. stage' \in [Projects -> Stages] /\ pc' \in [Projects -> Nat]
        /\ journal' \in [Projects -> Journals \cup {NoJournal}]
    BY <1>1, <1>6 DEF TypeOK, Stages
  <2> HIDE DEF next
  <2> QED BY <1>1, <2>1 DEF TypeOK, files, budgets
<1>8. ~Journaled(p)'
  BY <1>6 DEF Journaled
<1>9. LedgerOK' /\ Grows /\ \A q : Foreign(q)
  BY <1>1, SameLedger
<1>10. \A q \in Projects \ {p} : Kept(q)
  BY <1>1, <1>2, ApprovalAssumption DEF TypeOK, Kept, files
<1>11. ControlOK(p)'
  <2>1. lag'[p] = "none"
    BY <1>1, <1>2, <1>4 DEF ControlOK, Approving, files
  <2> QED BY <1>1, <1>6, <1>8, <2>1, ApprovalAssumption DEF ControlOK, Executing, UnderLease
<1>12. Added(j.kind) \in Nat /\ Added(j.kind) >= 1 /\ Events(j.kind) \in Nat /\ Events(j.kind) >= 3
       /\ Events(j.kind) \in {3, 10}
  <2>1. Added(j.kind) \in {1, 2} /\ Events(j.kind) \in {3, 10}
    BY <1>3, Numbers
  <2> QED BY <2>1
<1>13. pointer[p] = LastRevision(j) /\ Len(snapshots[p]) = LastRevision(j) /\ Target(j) <= Len(ledger)
  BY <1>2, <1>3, <1>4, <1>5 DEF PendingOK, Length
<1>14. snapshots[p][LastRevision(j)] = Phases(j.kind)[Added(j.kind)] /\ Phase(p) = snapshots[p][LastRevision(j)]
  <2>1. Added(j.kind) \in 1..Added(j.kind)
    BY <1>12
  <2> QED BY <1>3, <1>4, <1>13, <2>1, SMTT(30) DEF PendingOK, Phase
<1>15. EventsOf(p)'
  <2>1. SUFFICES ASSUME NEW i \in 1..Len(ledger), ledger[i].project = p
                 PROVE  ledger[i].revision < pointer[p]
    BY <1>1, <1>8 DEF EventsOf, Length, files
  <2>2. ledger[i].revision \in Nat
    BY Entry
  <2>3. ledger[i].revision <= j.revision
    BY <1>2, <1>4, <2>1 DEF EventsOf, Length
  <2> QED BY <1>3, <1>12, <1>13, <2>2, <2>3, SMTT(30)
<1>16. ASSUME j.kind = "verify"
       PROVE  /\ j.head + 3 \in 1..Length /\ j.head + 3 <= derived[p]
              /\ ledger[j.head + 3].project = p /\ ledger[j.head + 3].event = 3
              /\ ledger[j.head + 3].revision + 1 \in 1..Len(snapshots[p])
              /\ snapshots[p][ledger[j.head + 3].revision + 1] = "verification-started"
  <2>1. Done(p, Event(3))
    <3>1. Script(j.kind) = VerificationOrder /\ Len(Script(j.kind)) = 8
          /\ Script(j.kind)[5] = Event(3) /\ Script(j.kind)[5] # Do("remove")
      BY <1>16 DEF Script, VerificationOrder, Event, Do
    <3>2. pc[p] = 8
      <4>1. pc[p] \in 1..8
        BY <1>1, <1>4, <3>1 DEF ControlOK
      <4> QED BY <1>1, <1>16, <3>1, <4>1 DEF Step, VerificationOrder, Event, Snapshot, Pointer, Do
    <3> QED BY <1>1, <1>4, <3>1, <3>2 DEF ControlOK
  <2>2. Installed(p, 3)
    BY <2>1 DEF Done, Event
  <2>3. Added("verify") = 1 /\ Phases("verify")[1] = "verification-started" /\ Events("verify") = 3
    BY DEF Added, Phases, Events
  <2>4. /\ ledger[j.head + 3].project = p /\ ledger[j.head + 3].event = 3
        /\ ledger[j.head + 3].revision = j.revision /\ j.head + 3 <= Length
    BY <1>3, <2>2 DEF Installed, Planned, Length
  <2>5. Target(j) = j.head + 3 /\ LastRevision(j) = j.revision + 1
    BY <1>3, <1>16, <2>3
  <2> QED BY <1>2, <1>3, <1>5, <1>13, <1>14, <1>16, <2>3, <2>4, <2>5, SMTT(30) DEF Length
<1>17. RunOK(p)'
  <2>1. j.kind = "verify" => Shown(p)
    BY <1>16 DEF Shown
  <2>2. Shown(p)' <=> Shown(p)
    BY <1>1 DEF Shown, Length, files
  <2> QED BY <1>1, <1>4, <1>6, <2>1, <2>2 DEF RunOK, Length, files
<1>18. QuietOK(p)'
  <2>1. current[p].revision = pointer[p] /\ current[p].head = Target(j) /\ Target(j) > 0
    BY <1>2, <1>3, <1>12, <1>13
  <2>2. ledger[Target(j)].event = Events(j.kind)
    <3>1. PlanOK(j.kind, pc[p])
      BY <1>1, <1>3, <1>4, Plans DEF ControlOK
    <3> DEFINE last == Event(Events(j.kind))
    <3>2. \E k \in 1..(pc[p] - 1) : Script(j.kind)[k] = last
      <4>1. \E k \in 1..(pc[p] - 1) : Script(j.kind)[k] = Do("current")
        BY <1>1, <3>1 DEF PlanOK, Step, Before
      <4>2. PICK k \in 1..(pc[p] - 1) : Script(j.kind)[k] = Do("current")
        BY <4>1
      <4>3. k \in 1..Len(Script(j.kind))
        <5>1. Len(Script(j.kind)) \in Nat /\ pc[p] \in 1..Len(Script(j.kind))
          BY <1>1, <1>3, <1>4, Numbers DEF ControlOK
        <5> QED BY <5>1
      <4>4. PlanOK(j.kind, k)
        BY <1>3, <4>3, Plans
      <4>5. \E i \in 1..(k - 1) : Script(j.kind)[i] = last
        BY <4>2, <4>4 DEF PlanOK, Before, Do
      <4>6. pc[p] \in Nat
        BY DEF TypeOK
      <4> QED BY <4>5, <4>6
    <3>3. Done(p, last)
      BY <1>1, <1>4, <3>2 DEF ControlOK
    <3> QED BY <1>3, <3>3 DEF Done, Event, Installed, Planned
  <2>3. Phase(p) \in LifePhases /\ (Phase(p) \in Applied <=> j.kind \in {"approve", "verify"})
        /\ (Phase(p) \in Started <=> j.kind # "approve")
    BY <1>3, <1>14, Numbers DEF LifePhases, Applied, Started, Kinds
  <2>4. Phase(p) \in Applied => turn[p] /\ source[p] # "before"
    BY <1>2, <1>4, <2>3 DEF PreparedOK
  <2>5. Phase(p) \notin Applied => source[p] # "after"
    BY <1>2, <1>3, <1>4, <2>3 DEF PreparedOK, Kinds
  <2>6. ran[p] = 1 => Phase(p) \in Started
    BY <1>4, <2>3 DEF PreparedOK
  <2>7. stage'[p] = "command" => Phase(p) = "verification-started" /\ ran[p] = 0
    BY <1>3, <1>4, <1>6, <1>14, Numbers DEF PreparedOK
  <2>8. stage'[p] \notin {"observed", "restored"} \cup Awaited
    BY <1>6 DEF Awaited
  <2> QED
    BY <1>1, <1>2, <1>3, <1>5, <1>12, <1>13, <2>1, <2>2, <2>3, <2>4, <2>5, <2>6, <2>7, <2>8,
       SMTT(30)
      DEF QuietOK, Phase, files, Length
<1> QED BY <1>7, <1>8, <1>9, <1>10, <1>11, <1>15, <1>17, <1>18 DEF StepOK, Private, BundleOK


-----------------------------------------------------------------------------
(* The marker, the errors of a convergence, the command and the user. *)

LEMMA MarkerOK ==
  ASSUME TypeOK, LedgerOK, NEW p \in Projects, BundleOK(p),
         stage[p] \in {"lagTemp", "lagWrite", "lagRename"},
         NEW s \in {"lagWrite", "lagRename"}, NEW l \in {"torn", "temp"}, Marker(p, s, l)
  PROVE  TypeOK' /\ StepOK(p)
<1>1. /\ stage' = [stage EXCEPT ![p] = s] /\ lag' = [lag EXCEPT ![p] = l]
      /\ UNCHANGED <<ledger, writer, journal, pc, seen, chosen, snapshots, pointer, source, turn,
                     current, derived, ran, budgets>>
  BY DEF Marker
<1>2. TypeOK'
  <2>1. stage' \in [Projects -> Stages] /\ lag' \in [Projects -> {"none", "torn", "temp", "final"}]
    BY <1>1 DEF TypeOK, Stages
  <2> QED BY <1>1, <2>1 DEF TypeOK, budgets
<1>3. LedgerOK' /\ Grows /\ \A q : Foreign(q)
  BY <1>1, SameLedger
<1>4. \A q \in Projects \ {p} : Kept(q)
  BY <1>1 DEF TypeOK, Kept
<1>5. stage'[p] = s
  BY <1>1 DEF TypeOK
<1>6. Journaled(p) /\ Approving(p) /\ writer = p
  BY DEF BundleOK, ControlOK, UnderLease, Journaled, Approving, NoJournal
<1>7. ControlOK(p)'
  BY <1>1, <1>5, <1>6 DEF ControlOK, Executing, UnderLease, Awaited, Approving
<1>8. Journaled(p)' <=> Journaled(p)
  BY <1>1 DEF Journaled
<1> QED BY <1>1, <1>2, <1>3, <1>4, <1>5, <1>6, <1>7, <1>8, BundleKept DEF StepOK, Private, BundleOK

LEMMA LagStepOK ==
  ASSUME TypeOK, LedgerOK, NEW p \in Projects, BundleOK(p),
         StartLag(p) \/ WriteLag(p) \/ RenameLag(p)
  PROVE  TypeOK' /\ StepOK(p)
<1>1. CASE StartLag(p)
  BY <1>1, MarkerOK, AbortOK DEF StartLag
<1>2. CASE WriteLag(p)
  BY <1>2, MarkerOK DEF WriteLag
<1>3. CASE RenameLag(p)
  <2>1. /\ stage[p] = "lagRename"
        /\ lag' = [lag EXCEPT ![p] = "final"]
        /\ stage' = [stage EXCEPT ![p] = "idle"] /\ pc' = [pc EXCEPT ![p] = 0]
        /\ writer' = IF writer = p THEN NoProject ELSE writer
        /\ UNCHANGED <<ledger, journal, seen, chosen, snapshots, pointer, source, turn, current,
                       derived, ran, budgets>>
    BY <1>3 DEF RenameLag, Return
  <2>2. TypeOK'
    <3>1. stage' \in [Projects -> Stages] /\ pc' \in [Projects -> Nat]
          /\ lag' \in [Projects -> {"none", "torn", "temp", "final"}]
          /\ writer' \in Projects \cup {NoProject}
      BY <2>1 DEF TypeOK, Stages
    <3> QED BY <2>1, <3>1 DEF TypeOK, budgets
  <2>3. LedgerOK' /\ Grows /\ \A q : Foreign(q)
    BY <2>1, SameLedger
  <2>4. \A q \in Projects \ {p} : Kept(q)
    BY <2>1, ApprovalAssumption DEF TypeOK, Kept
  <2>5. Journaled(p) /\ Approving(p)
    BY <2>1 DEF BundleOK, ControlOK, Journaled, Approving, NoJournal
  <2>6. stage'[p] = "idle" /\ writer' # p
    BY <2>1, ApprovalAssumption DEF TypeOK
  <2>7. ControlOK(p)'
    BY <2>1, <2>5, <2>6, ControlLeft DEF BundleOK
  <2>8. Journaled(p)' <=> Journaled(p)
    BY <2>1 DEF Journaled
  <2> QED BY <2>1, <2>2, <2>3, <2>4, <2>5, <2>6, <2>7, <2>8, BundleKept DEF StepOK, Private, BundleOK
<1> QED BY <1>1, <1>2, <1>3

LEMMA RefusedOK ==
  ASSUME TypeOK, LedgerOK, NEW p \in Projects, BundleOK(p), Executing(p), Refused(p),
         derived' = derived \/ derived' = [derived EXCEPT ![p] = Length],
         UNCHANGED <<ledger, journal, seen, chosen, snapshots, pointer, source, turn, current,
                     lag, ran, stops, edits>>,
         faults' \in 0..FaultBudget
  PROVE  TypeOK' /\ StepOK(p)
<1> DEFINE next == IF journal[p].kind = "approve" THEN "lagTemp" ELSE "idle"
<1>1. /\ stage' = [stage EXCEPT ![p] = next] /\ pc' = [pc EXCEPT ![p] = 0]
      /\ writer' = IF journal[p].kind = "approve" THEN p ELSE NoProject
  BY DEF Refused
<1>2. next \in {"lagTemp", "idle"} /\ (next = "lagTemp" <=> Approving(p))
  BY DEF Approving
<1>3. Journaled(p) /\ writer = p
  BY Ready
<1>4. TypeOK'
  <2>1. next \in Stages
    BY <1>2 DEF Stages
  <2> HIDE DEF next
  <2>2. stage' \in [Projects -> Stages] /\ pc' \in [Projects -> Nat]
    BY <1>1, <2>1 DEF TypeOK
  <2>3. Length \in Nat
    BY DEF TypeOK, Length
  <2>4. derived' \in [Projects -> Nat]
    <3>1. derived \in [Projects -> Nat]
      BY DEF TypeOK
    <3>2. CASE derived' = derived
      BY <3>1, <3>2
    <3>3. CASE derived' = [derived EXCEPT ![p] = Length]
      BY <2>3, <3>1, <3>3
    <3> QED BY <3>2, <3>3
  <2>5. writer' \in Projects \cup {NoProject}
    BY <1>1
  <2> QED BY <2>2, <2>4, <2>5 DEF TypeOK
<1>5. LedgerOK' /\ Grows /\ \A q : Foreign(q)
  BY SameLedger
<1>6. \A q \in Projects \ {p} : Kept(q)
  BY <1>1, <1>3, ApprovalAssumption DEF TypeOK, Kept
<1>7. stage'[p] = next /\ (writer' = p <=> next = "lagTemp")
      /\ derived'[p] \in {derived[p], Len(ledger)}
  BY <1>1, <1>2, ApprovalAssumption DEF TypeOK, Length, Approving
<1> HIDE DEF next
<1>8. ControlOK(p)'
  BY <1>1, <1>2, <1>3, <1>7
     DEF BundleOK, ControlOK, Executing, UnderLease, Awaited, Approving, Journaled
<1>9. Journaled(p)' <=> Journaled(p)
  BY DEF Journaled
<1> QED BY <1>2, <1>3, <1>4, <1>5, <1>6, <1>7, <1>8, <1>9, BundleKept DEF StepOK, Private, BundleOK

LEMMA CommandOK ==
  ASSUME TypeOK, LedgerOK, NEW p \in Projects, BundleOK(p), RunCommand(p)
  PROVE  TypeOK' /\ StepOK(p)
<1>1. CASE Abort(p)
  BY <1>1, AbortOK
<1>2. CASE ~Abort(p)
  <2>1. /\ stage[p] = "command" /\ source[p] = "after"
        /\ ran' = [ran EXCEPT ![p] = @ + 1]
        /\ stage' = [stage EXCEPT ![p] = "result"]
        /\ UNCHANGED <<ledger, writer, journal, pc, seen, chosen, files, budgets>>
    BY <1>2 DEF RunCommand
  <2>2. TypeOK'
    <3>1. stage' \in [Projects -> Stages] /\ ran' \in [Projects -> Nat]
      BY <2>1, SMTT(30) DEF TypeOK, Stages
    <3> QED BY <2>1, <3>1 DEF TypeOK, files, budgets
  <2>3. LedgerOK' /\ Grows /\ \A q : Foreign(q)
    BY <2>1, SameLedger
  <2>4. \A q \in Projects \ {p} : Kept(q)
    BY <2>1 DEF TypeOK, Kept, files
  <2>5. /\ ~Journaled(p) /\ QuietOK(p) /\ ran[p] = 0 /\ Phase(p) = "verification-started"
        /\ Shown(p) /\ source[p] = "after"
    BY <2>1 DEF BundleOK, ControlOK, QuietOK, RunOK, Inconclusive
  <2>6. stage'[p] = "result" /\ ran'[p] = 1
    BY <2>1, <2>5 DEF TypeOK
  <2>7. ControlOK(p)'
    BY <2>1, <2>5, <2>6 DEF BundleOK, ControlOK, Executing, UnderLease, Approving, Journaled, files
  <2>8. ~Journaled(p)' /\ EventsOf(p)'
    BY <2>1, <2>5 DEF Journaled, EventsOf, Length, BundleOK, files
  <2>9. RunOK(p)'
    BY <2>1, <2>5, <2>6 DEF RunOK, Shown, Length, BundleOK, files
  <2>10. QuietOK(p)'
    BY <2>1, <2>5, <2>6 DEF QuietOK, Phase, Length, Applied, Started, files
  <2> QED BY <2>2, <2>3, <2>4, <2>7, <2>8, <2>9, <2>10 DEF StepOK, Private, BundleOK
<1> QED BY <1>1, <1>2

(* a failed command restores its file, or does not *)
LEMMA RestoreOK ==
  ASSUME TypeOK, LedgerOK, NEW p \in Projects, BundleOK(p), Restore(p)
  PROVE  TypeOK' /\ StepOK(p)
<1>1. /\ stage[p] = "result"
      /\ \/ stage' = [stage EXCEPT ![p] = "restored"] /\ source'[p] # "after"
         \/ stage' = [stage EXCEPT ![p] = "unrestored"]
      /\ \/ source' = [source EXCEPT ![p] = "before"]
         \/ source' = source
         \/ source' = [source EXCEPT ![p] = source[p]]
      /\ faults' \in 0..FaultBudget
      /\ UNCHANGED <<ledger, writer, journal, pc, seen, chosen, snapshots, pointer, turn, current,
                     derived, lag, ran, stops, edits>>
  BY ApprovalAssumption, SMTT(30) DEF Restore, TypeOK
<1>2. TypeOK'
  <2>1. stage' \in [Projects -> Stages]
    <3>1. stage \in [Projects -> Stages]
      BY DEF TypeOK
    <3> QED BY <1>1, <3>1 DEF Stages
  <2>2. source' \in [Projects -> {"before", "after", "user"}]
    <3>1. source \in [Projects -> {"before", "after", "user"}]
      BY DEF TypeOK
    <3> QED BY <1>1, <3>1
  <2> QED BY <1>1, <2>1, <2>2 DEF TypeOK
<1>3. LedgerOK' /\ Grows /\ \A q : Foreign(q)
  BY <1>1, SameLedger
<1>4. \A q \in Projects \ {p} : Kept(q)
  BY <1>1 DEF TypeOK, Kept
<1>5. /\ ~Journaled(p) /\ QuietOK(p) /\ ran[p] = 1 /\ Phase(p) = "verification-started"
  BY <1>1 DEF BundleOK, ControlOK, QuietOK, Awaited
<1>6. \/ stage'[p] = "restored" /\ source'[p] # "after"
      \/ stage'[p] = "unrestored"
  BY <1>1 DEF TypeOK
<1>7. ControlOK(p)'
  BY <1>1, <1>5, <1>6 DEF BundleOK, ControlOK, Executing, UnderLease, Journaled, Approving
<1>8. ~Journaled(p)' /\ EventsOf(p)'
  BY <1>1, <1>5 DEF Journaled, EventsOf, Length, BundleOK
<1>9. RunOK(p)'
  BY <1>1, <1>5, <1>6 DEF RunOK, Shown, Length, BundleOK
<1>10. QuietOK(p)'
  BY <1>1, <1>5, <1>6 DEF QuietOK, Phase, Inconclusive, Length, Applied, Started
<1> QED BY <1>2, <1>3, <1>4, <1>7, <1>8, <1>9, <1>10 DEF StepOK, Private, BundleOK

LEMMA UnrecordedOK ==
  ASSUME TypeOK, LedgerOK, NEW p \in Projects, BundleOK(p), Unrecorded(p)
  PROVE  TypeOK' /\ StepOK(p)
<1>1. TypeOK'
  <2>1. stage' \in [Projects -> Stages] /\ pc' \in [Projects -> Nat]
    BY DEF TypeOK, Unrecorded, Return, Stages
  <2>2. writer' \in Projects \cup {NoProject} /\ faults' \in 0..FaultBudget
    BY ApprovalAssumption, SMTT(30) DEF TypeOK, Unrecorded, Return
  <2>3. UNCHANGED <<ledger, journal, seen, chosen, snapshots, pointer, source, turn, current,
                    derived, lag, ran, stops, edits>>
    BY DEF Unrecorded, files
  <2> QED BY <2>1, <2>2, <2>3 DEF TypeOK
<1> QED BY <1>1, Returning DEF Unrecorded, Return, files

LEMMA EditOK ==
  ASSUME TypeOK, LedgerOK, NEW p \in Projects, BundleOK(p), Edit(p)
  PROVE  TypeOK' /\ StepOK(p)
<1> USE DEF Edit
<1>1. TypeOK'
  BY ApprovalAssumption, SMTT(30) DEF TypeOK
<1>2. LedgerOK' /\ Grows /\ \A q : Foreign(q)
  BY SameLedger
<1>3. \A q \in Projects \ {p} : Kept(q)
  BY DEF TypeOK, Kept
<1>4. source'[p] = "user"
  BY DEF TypeOK
<1>5. ControlOK(p)'
  <2>1. Longer(p) /\ Onward(p)
    BY <1>4, Stays
  <2> QED BY <1>2, <2>1, ControlKept DEF BundleOK
<1>6. Journaled(p)' <=> Journaled(p)
  BY DEF Journaled
<1> QED BY <1>1, <1>2, <1>3, <1>4, <1>5, <1>6, BundleKept DEF StepOK, Private, BundleOK


LEMMA LedgerAppend ==
  ASSUME TypeOK, LedgerOK, NEW e, ledger' = Append(ledger, e),
         \/ e = Other
         \/ /\ e.project \in Projects /\ e.event \in Nat
            /\ \A i \in 1..Length : ledger[i] # e
            /\ e.event > 1 => Length >= 1 /\ ledger[Length] = [e EXCEPT !.event = @ - 1]
  PROVE  LedgerOK'
<1>1. Grows /\ Len(ledger') = Len(ledger) + 1 /\ ledger'[Len(ledger) + 1] = e /\ Len(ledger) \in Nat
  BY Growth DEF TypeOK
<1>2. ASSUME NEW i \in 1..Len(ledger'), ledger'[i] # Other
      PROVE  ledger'[i].project \in Projects
  BY <1>1, <1>2 DEF LedgerOK, Length, Grows
<1>3. ASSUME NEW i \in 1..Len(ledger'), ledger'[i] # Other, NEW k \in 1..Len(ledger'),
             ledger'[k] = ledger'[i]
      PROVE  k = i
  <2>1. CASE i <= Len(ledger) /\ k <= Len(ledger)
    <3>1. i \in 1..Len(ledger) /\ k \in 1..Len(ledger)
      BY <1>1, <2>1
    <3>2. ledger'[i] = ledger[i] /\ ledger'[k] = ledger[k]
      BY <1>1, <3>1 DEF Grows
    <3> QED BY <1>3, <3>1, <3>2 DEF LedgerOK, EventsInOrder, Length
  <2>2. CASE i = Len(ledger) + 1 /\ k <= Len(ledger)
    BY <1>1, <1>3, <2>2 DEF Length, Grows
  <2>3. CASE k = Len(ledger) + 1 /\ i <= Len(ledger)
    BY <1>1, <1>3, <2>3 DEF Length, Grows
  <2> QED BY <1>1, <2>1, <2>2, <2>3
<1>4. ASSUME NEW i \in 1..Len(ledger'), ledger'[i] # Other, ledger'[i].event > 1
      PROVE  i > 1 /\ ledger'[i - 1] = [ledger'[i] EXCEPT !.event = @ - 1]
  <2>1. CASE i <= Len(ledger)
    <3>1. i \in 1..Len(ledger) /\ ledger'[i] = ledger[i]
      BY <1>1, <2>1 DEF Grows
    <3>2. i > 1 /\ ledger[i - 1] = [ledger[i] EXCEPT !.event = @ - 1]
      BY <1>4, <3>1 DEF LedgerOK, EventsInOrder, Length
    <3>3. i - 1 \in 1..Len(ledger)
      BY <1>1, <3>1, <3>2
    <3> QED BY <3>1, <3>2, <3>3 DEF Grows
  <2>2. CASE i = Len(ledger) + 1
    BY <1>1, <1>4, <2>2 DEF Length, Grows
  <2> QED BY <1>1, <2>1, <2>2
<1> QED BY <1>2, <1>3, <1>4 DEF LedgerOK, EventsInOrder, Length

LEMMA SnapshotAppend ==
  ASSUME TypeOK, NEW p \in Projects, NEW f \in PhaseNames,
         snapshots' = [snapshots EXCEPT ![p] = Append(@, f)]
  PROVE  /\ snapshots' \in [Projects -> Seq(PhaseNames)]
         /\ Len(snapshots'[p]) = Len(snapshots[p]) + 1 /\ Longer(p)
         /\ snapshots'[p][Len(snapshots[p]) + 1] = f
         /\ \A q \in Projects \ {p} : snapshots'[q] = snapshots[q]
<1>1. snapshots[p] \in Seq(PhaseNames)
  BY DEF TypeOK
<1>2. snapshots'[p] = Append(snapshots[p], f)
  BY DEF TypeOK
<1>3. snapshots'[p] \in Seq(PhaseNames) /\ Len(snapshots'[p]) = Len(snapshots[p]) + 1
      /\ snapshots'[p][Len(snapshots[p]) + 1] = f
      /\ \A i \in 1..Len(snapshots[p]) : snapshots'[p][i] = snapshots[p][i]
      /\ Len(snapshots[p]) \in Nat
  BY <1>1, <1>2
<1> QED BY <1>3, SMTT(30) DEF TypeOK, Longer

LEMMA RecordOK ==
  ASSUME TypeOK, LedgerOK, NEW p \in Projects, BundleOK(p), NEW f \in Outcomes,
         Record(p, f)
  PROVE  TypeOK' /\ StepOK(p)
<1>1. /\ Recordable(p, f) /\ writer = NoProject
      /\ ledger' = Append(ledger, Other)
      /\ snapshots' = [snapshots EXCEPT ![p] = Append(@, f)]
      /\ pointer' = [pointer EXCEPT ![p] = @ + 1]
      /\ current' = [current EXCEPT ![p] = [revision |-> pointer[p] + 1, head |-> Length + 1]]
      /\ derived' = [derived EXCEPT ![p] = Length + 1]
      /\ stage' = [stage EXCEPT ![p] = "idle"]
      /\ pc' = [pc EXCEPT ![p] = 0]
      /\ writer' = IF writer = p THEN NoProject ELSE writer
      /\ UNCHANGED <<journal, seen, chosen, source, turn, lag, ran, budgets>>
  BY DEF Record, Return
<1>2. /\ ~Journaled(p) /\ QuietOK(p) /\ EventsOf(p) /\ RunOK(p) /\ ControlOK(p)
      /\ ran[p] = 1 /\ Phase(p) = "verification-started"
  BY <1>1 DEF BundleOK, ControlOK, QuietOK, Recordable, Awaited
<1>3. /\ pointer[p] \in Nat /\ Len(snapshots[p]) = pointer[p] /\ derived[p] \in Nat /\ Length \in Nat
      /\ derived[p] <= Length
  BY <1>2 DEF QuietOK, TypeOK, Length, RunOK
<1>4. /\ Grows /\ Len(ledger') = Len(ledger) + 1 /\ ledger'[Len(ledger) + 1] = Other
      /\ \A q \in Projects : Foreign(q)
  BY <1>1, Growth, ApprovalAssumption DEF Other
<1>5. LedgerOK'
  BY <1>1, LedgerAppend
<1>6. f \in PhaseNames
  BY DEF PhaseNames, Outcomes
<1>7. /\ snapshots' \in [Projects -> Seq(PhaseNames)] /\ Len(snapshots'[p]) = Len(snapshots[p]) + 1
      /\ Longer(p) /\ snapshots'[p][Len(snapshots[p]) + 1] = f
      /\ \A q \in Projects \ {p} : snapshots'[q] = snapshots[q]
  BY <1>1, <1>6, SnapshotAppend
<1>8. TypeOK'
  <2>1. ledger' \in Seq([project : Projects \cup {NoProject}, revision : Nat, event : Nat])
    BY <1>1 DEF TypeOK, Other
  <2>2. current' \in [Projects -> Image]
    BY <1>1, <1>3, SMTT(30) DEF TypeOK, Image
  <2>3. /\ pointer' \in [Projects -> Nat] /\ derived' \in [Projects -> Nat]
        /\ stage' \in [Projects -> Stages] /\ pc' \in [Projects -> Nat]
    BY <1>1, <1>3, SMTT(30) DEF TypeOK, Stages
  <2> QED BY <1>1, <1>7, <2>1, <2>2, <2>3 DEF TypeOK, budgets
<1>9. \A q \in Projects \ {p} : Kept(q)
  BY <1>1, <1>7, ApprovalAssumption DEF TypeOK, Kept
<1>10. /\ stage'[p] = "idle" /\ writer' # p /\ pointer'[p] = pointer[p] + 1
       /\ current'[p] = [revision |-> pointer[p] + 1, head |-> Length + 1]
       /\ derived'[p] = Length + 1 /\ ~Journaled(p)'
       /\ source'[p] = source[p]
  BY <1>1, <1>2, ApprovalAssumption, SMTT(30) DEF TypeOK, Journaled
<1>11. ControlOK(p)'
  BY <1>1, <1>2, <1>10, ControlLeft
<1>12. EventsOf(p)'
  BY <1>1, <1>2, <1>3, <1>4, <1>10, EventsKept, SMTT(30)
<1>13. RunOK(p)'
  <2>1. derived'[p] \in derived[p]..Len(ledger')
    BY <1>3, <1>4, <1>10 DEF Length
  <2> QED BY <1>1, <1>2, <1>4, <1>7, <1>10, <2>1, RunKept
<1>14. QuietOK(p)'
  <2>1. Phase(p)' = f /\ pointer'[p] = Len(snapshots'[p])
    BY <1>3, <1>7, <1>10 DEF Phase
  <2>2. /\ f = "verified" => turn'[p] /\ source'[p] # "before"
        /\ f = "failed" => source'[p] # "after"
    BY <1>1, <1>2, <1>10 DEF QuietOK, Applied, Recordable
  <2>3. ledger'[current'[p].head].event = 0 /\ current'[p].head \in 1..Length'
    BY <1>3, <1>4, <1>10 DEF Length, Other
  <2>4. current'[p].revision = pointer'[p] /\ pointer'[p] >= 1 /\ current'[p].head <= derived'[p]
        /\ current'[p].head > 0 /\ current'[p].head <= Length'
    BY <1>3, <1>4, <1>10 DEF Length
  <2> QED BY <1>1, <1>2, <1>10, <2>1, <2>2, <2>3, <2>4
          DEF QuietOK, LifePhases, Applied, Started, Awaited, Outcomes
<1> QED BY <1>4, <1>5, <1>8, <1>9, <1>10, <1>11, <1>12, <1>13, <1>14 DEF StepOK, Private, BundleOK

-----------------------------------------------------------------------------
(* The steps of a bundle. *)

(* the command goes on to its next step *)
LEMMA ControlAdvanced ==
  ASSUME TypeOK, NEW p \in Projects, BundleOK(p), Executing(p), Advance(p), Step(p).do # "remove",
         Grows, Onward(p), NEW s, s = Step(p), Done(p, s)'
  PROVE  ControlOK(p)' /\ pc' \in [Projects -> Nat]
<1>1. /\ pc' = [pc EXCEPT ![p] = @ + 1] /\ journal' = journal /\ stage' = stage /\ writer' = writer
  BY DEF Advance
<1>2. Journaled(p) /\ writer = p /\ pc[p] \in Nat \ {0}
      /\ pc[p] + 1 \in 1..Len(Script(journal[p].kind))
  BY Ready
<1>3. ControlOK(p)
  BY DEF BundleOK
<1>4. \A k \in 1..(pc[p] - 1) : Done(p, Script(journal[p].kind)[k])'
  BY <1>1, <1>3, DoneSoFar
<1>5. pc'[p] = pc[p] + 1 /\ pc' \in [Projects -> Nat]
  BY <1>1, SMTT(30) DEF TypeOK
<1>6. PICK kind : kind = journal[p].kind
  OBVIOUS
<1>7. PICK c \in Nat : c = pc[p]
  BY <1>2
<1>8. s = Script(kind)[c]
  BY <1>6, <1>7 DEF Step
<1>9. \A k \in 1..c : Done(p, Script(kind)[k])'
  <2>1. Done(p, Script(kind)[c])'
    BY <1>8
  <2>2. ASSUME NEW k \in 1..c, k # c
        PROVE  Done(p, Script(kind)[k])'
    <3>1. k \in 1..(pc[p] - 1)
      BY <1>7, <2>2
    <3>2. Done(p, Script(journal[p].kind)[k])'
      BY <1>4, <3>1
    <3> QED BY <1>1, <1>6, <3>2
  <2> QED BY <2>1, <2>2
<1>10. \A k \in 1..(pc'[p] - 1) : Done(p, Script(kind)[k])'
  BY <1>5, <1>7, <1>9
<1>11. lag'[p] # "none" => Approving(p)
  BY <1>3 DEF ControlOK, Onward
<1> QED BY <1>1, <1>2, <1>3, <1>5, <1>6, <1>10, <1>11
        DEF ControlOK, Executing, UnderLease, Journaled, Approving

(* a step of a bundle leaves the other projects alone *)
LEMMA OthersAdvanced ==
  ASSUME TypeOK, NEW p \in Projects, Advance(p), ledger' = ledger \/ (Grows /\ \A q \in Projects \ {p} : Foreign(q)),
         \A q \in Projects \ {p} :
           /\ snapshots'[q] = snapshots[q] /\ pointer'[q] = pointer[q] /\ source'[q] = source[q]
           /\ turn'[q] = turn[q] /\ current'[q] = current[q] /\ derived'[q] = derived[q]
           /\ lag'[q] = lag[q]
  PROVE  Private(p)
<1>1. \A q \in Projects \ {p} : Kept(q)
  BY DEF Kept, Advance, TypeOK
<1>2. Len(ledger) \in Nat
  BY DEF TypeOK
<1> QED BY <1>1, <1>2 DEF Private, Foreign

LEMMA AppendOK ==
  ASSUME TypeOK, LedgerOK, NEW p \in Projects, BundleOK(p), AppendEvent(p)
  PROVE  TypeOK' /\ StepOK(p)
<1>1. PICK n : n = Step(p).at
  OBVIOUS
<1>2. PICK e : e = Planned(p, journal[p], n)
  OBVIOUS
<1>3. CASE Abort(p)
  BY <1>3, AbortOK
<1>4. CASE ~Abort(p)
  <2>1. Executing(p) /\ Step(p).do = "event" /\ Advance(p) /\ UNCHANGED files
        /\ \/ Installed(p, n) /\ ledger' = ledger
           \/ /\ \A i \in 1..Length : ledger[i] # e
              /\ Length + 1 = journal[p].head + n
              /\ ledger' = Append(ledger, e)
    BY <1>1, <1>2, <1>4 DEF AppendEvent, At
  <2>2. /\ Journaled(p) /\ writer = p
        /\ n \in 1..Events(journal[p].kind)
        /\ n > 1 => Installed(p, n - 1)
        /\ journal[p].kind = "approve" /\ n = 8 => source[p] # "before"
    BY <1>1, <2>1, Ready
  <2>3. /\ journal[p].head \in Nat /\ journal[p].revision \in Nat /\ journal[p].kind \in Kinds
        /\ journal[p].before.head \in Nat
    BY <2>2, JournalType DEF Image
  <2>4. n \in 1..10 /\ n \in Nat
    <3>1. CASE Events(journal[p].kind) = 10
      BY <2>2, <3>1
    <3>2. CASE Events(journal[p].kind) = 3
      BY <2>2, <3>2
    <3> QED BY <2>3, <3>1, <3>2, Numbers
  <2>5. e.project = p /\ e.event = n /\ e.revision = journal[p].revision
        /\ e \in [project : Projects \cup {NoProject}, revision : Nat, event : Nat]
    BY <1>2, <2>3, <2>4 DEF Planned
  <2>6. Length \in Nat /\ Len(ledger) \in Nat
    BY DEF Length, TypeOK
  <2>7. /\ Grows /\ LedgerOK' /\ \A q \in Projects \ {p} : Foreign(q)
        /\ ledger' \in Seq([project : Projects \cup {NoProject}, revision : Nat, event : Nat])
    <3>1. CASE ledger' = ledger
      BY <3>1, SameLedger DEF TypeOK
    <3>2. CASE ledger' = Append(ledger, e) /\ (\A i \in 1..Length : ledger[i] # e)
               /\ Length + 1 = journal[p].head + n
      <4>1. Grows /\ \A q \in Projects \ {p} : Foreign(q)
        BY <2>5, <3>2, Growth
      <4>2. n > 1 => Length >= 1 /\ ledger[Length] = [e EXCEPT !.event = @ - 1]
        <5> HAVE n > 1
        <5>1. Installed(p, n - 1) /\ journal[p].head + (n - 1) = Length
          BY <2>2, <2>3, <2>4, <2>6, <3>2, SMTT(30)
        <5>2. ledger[Length] = Planned(p, journal[p], n - 1)
          BY <2>3, <2>4, <5>1 DEF Installed
        <5>3. Planned(p, journal[p], n - 1) = [e EXCEPT !.event = @ - 1]
          BY <1>2, <2>3, <2>4 DEF Planned
        <5> QED BY <2>3, <2>4, <2>6, <3>2, <5>2, <5>3
      <4>3. LedgerOK'
        BY <2>4, <2>5, <3>2, <4>2, LedgerAppend
      <4> QED BY <2>5, <3>2, <4>1, <4>3 DEF TypeOK
    <3> QED BY <2>1, <3>1, <3>2
  <2>8. Installed(p, n)' /\ (Installed(p, 8)' => Installed(p, 8) \/ n = 8)
    <3>1. journal' = journal
      BY <2>1 DEF Advance
    <3>2. CASE Installed(p, n) /\ ledger' = ledger
      BY <3>1, <3>2 DEF Installed, Planned
    <3>3. CASE ledger' = Append(ledger, e) /\ Length + 1 = journal[p].head + n
      <4>1. ledger'[Len(ledger) + 1] = e /\ Len(ledger') = Len(ledger) + 1
        BY <3>3, Growth
      <4>2. Installed(p, n)'
        BY <1>2, <2>3, <2>4, <2>6, <3>1, <3>3, <4>1 DEF Installed, Planned, Length
      <4>3. ASSUME Installed(p, 8)', n # 8
            PROVE  Installed(p, 8)
        <5>1. journal[p].head + 8 <= Len(ledger)
          BY <2>3, <2>4, <2>6, <3>1, <3>3, <4>1, <4>3 DEF Installed, Length
        <5>2. ledger'[journal[p].head + 8] = ledger[journal[p].head + 8]
          BY <2>3, <2>6, <2>7, <5>1, SMTT(30) DEF Grows
        <5> QED BY <3>1, <4>3, <5>1, <5>2 DEF Installed, Planned
      <4> QED BY <4>2, <4>3
    <3> QED BY <2>1, <3>2, <3>3
  <2>9. Longer(p) /\ Onward(p)
    BY <2>1, Stays DEF files
  <2>10. PICK s : s = Step(p)
    OBVIOUS
  <2>11. s.do = "event" /\ s.at = n
    BY <1>1, <2>1, <2>10
  <2>12. Done(p, s)'
    BY <2>8, <2>11 DEF Done
  <2>13. ControlOK(p)' /\ pc' \in [Projects -> Nat]
    BY <2>1, <2>7, <2>9, <2>10, <2>12, ControlAdvanced
  <2>14. TypeOK'
    BY <2>1, <2>7, <2>13 DEF TypeOK, Advance, files, budgets
  <2>15. Private(p)
    BY <2>1, <2>7, OthersAdvanced DEF files
  <2>16. PreparedOK(p) /\ PendingOK(p) /\ EventsOf(p) /\ RunOK(p)
    BY <2>2 DEF BundleOK
  <2>17. /\ Len(snapshots[p]) \in Nat /\ pointer[p] \in Nat /\ derived[p] \in Nat
    BY DEF TypeOK
  <2>18. PendingOK(p)'
    BY <2>1, <2>2, <2>7, <2>16, PendingKept DEF Advance, files
  <2>19. RunOK(p)'
    <3>1. derived'[p] \in derived[p]..Len(ledger')
      BY <2>1, <2>6, <2>7, <2>16, <2>17 DEF RunOK, Length, Grows, files
    <3> QED BY <2>1, <2>7, <2>9, <2>16, <3>1, RunKept DEF Advance
  <2>20. PreparedOK(p)'
    <3>1. journal[p].head <= Length'
      BY <2>3, <2>6, <2>7, <2>16 DEF PreparedOK, Length, Grows
    <3>2. Approving(p) /\ Installed(p, 8)' => source[p] # "before"
      BY <2>2, <2>8, <2>16 DEF PreparedOK, Approving
    <3> QED BY <2>1, <2>16, <3>1, <3>2 DEF PreparedOK, Advance, files, Approving
  <2>21. EventsOf(p)'
    <3>1. CASE ledger' = ledger
      BY <2>1, <2>16, <3>1 DEF EventsOf, Length, Journaled, Advance, files
    <3>2. CASE ledger' = Append(ledger, e) /\ Length + 1 = journal[p].head + n
      <4>1. SUFFICES ASSUME NEW i \in 1..Len(ledger'), ledger'[i].project = p
                     PROVE  /\ ledger'[i].revision <= journal[p].revision
                            /\ ledger'[i].revision = journal[p].revision =>
                                 /\ ledger'[i].event \in 1..Events(journal[p].kind)
                                 /\ i = journal[p].head + ledger'[i].event
        BY <2>1, <2>2 DEF EventsOf, Length, Journaled, Advance
      <4>2. ledger'[Len(ledger) + 1] = e /\ Len(ledger') = Len(ledger) + 1
        BY <3>2, Growth
      <4>3. CASE i = Len(ledger) + 1
        BY <2>2, <2>3, <2>5, <3>2, <4>2, <4>3 DEF Length
      <4>4. CASE i # Len(ledger) + 1
        <5>1. i \in 1..Len(ledger)
          BY <2>6, <4>2, <4>4
        <5>2. ledger'[i] = ledger[i]
          BY <2>7, <5>1 DEF Grows
        <5> QED BY <2>2, <2>16, <4>1, <5>1, <5>2 DEF EventsOf, Length
      <4> QED BY <4>3, <4>4
    <3> QED BY <2>1, <3>1, <3>2
  <2> QED BY <2>1, <2>2, <2>7, <2>13, <2>14, <2>15, <2>18, <2>19, <2>20, <2>21
          DEF StepOK, BundleOK, Journaled, Advance
<1> QED BY <1>3, <1>4


(* a step that installs something besides the ledger *)
LEMMA FileStep ==
  ASSUME TypeOK, LedgerOK, NEW p \in Projects, BundleOK(p), Executing(p), Advance(p),
         ledger' = ledger, Step(p).do # "remove", Onward(p), NEW s, s = Step(p), Done(p, s)',
         derived'[p] <= Len(ledger),
         \A q \in Projects \ {p} :
           /\ snapshots'[q] = snapshots[q] /\ pointer'[q] = pointer[q] /\ source'[q] = source[q]
           /\ turn'[q] = turn[q] /\ current'[q] = current[q] /\ derived'[q] = derived[q]
           /\ lag'[q] = lag[q],
         PreparedOK(p)', PendingOK(p)'
  PROVE  StepOK(p) /\ pc' \in [Projects -> Nat]
<1>1. LedgerOK' /\ Grows /\ \A q : Foreign(q)
  BY SameLedger
<1>2. ControlOK(p)' /\ pc' \in [Projects -> Nat]
  BY <1>1, ControlAdvanced
<1>3. Private(p)
  BY OthersAdvanced
<1>4. Journaled(p) /\ EventsOf(p) /\ RunOK(p)
  BY Ready DEF BundleOK
<1>5. UNCHANGED <<writer, journal, stage, seen, chosen, ran, budgets>>
  BY DEF Advance
<1>6. EventsOf(p)'
  BY <1>4, <1>5 DEF EventsOf, Length, Journaled
<1>7. RunOK(p)'
  <2>1. derived[p] \in Nat /\ Len(ledger) \in Nat
    BY DEF TypeOK
  <2>2. derived'[p] \in derived[p]..Len(ledger')
    BY <2>1 DEF Onward
  <2> QED BY <1>1, <1>4, <1>5, <2>2, RunKept DEF Onward
<1> QED BY <1>1, <1>2, <1>3, <1>4, <1>5, <1>6, <1>7 DEF StepOK, BundleOK, Journaled

LEMMA JournalFacts ==
  ASSUME TypeOK, NEW p \in Projects, BundleOK(p), Journaled(p)
  PROVE  /\ PreparedOK(p) /\ PendingOK(p)
         /\ journal[p].kind \in Kinds /\ journal[p].revision \in Nat /\ journal[p].head \in Nat
         /\ Added(journal[p].kind) \in {1, 2} /\ Added(journal[p].kind) \in Nat
         /\ LastRevision(journal[p]) = journal[p].revision + Added(journal[p].kind)
         /\ Len(Phases(journal[p].kind)) = Added(journal[p].kind)
         /\ Len(snapshots[p]) \in Nat /\ pointer[p] \in Nat /\ derived[p] \in Nat
         /\ Len(ledger) \in Nat /\ Length = Len(ledger) /\ derived[p] <= Len(ledger)
         /\ journal[p].revision \in 1..Len(snapshots[p])
         /\ Target(journal[p]) \in Nat
<1>1. PreparedOK(p) /\ PendingOK(p) /\ RunOK(p)
  BY DEF BundleOK
<1>2. journal[p].kind \in Kinds /\ journal[p].revision \in Nat /\ journal[p].head \in Nat
      /\ LastRevision(journal[p]) = journal[p].revision + Added(journal[p].kind)
      /\ Target(journal[p]) \in Nat
  BY JournalType
<1>3. Added(journal[p].kind) \in {1, 2} /\ Len(Phases(journal[p].kind)) = Added(journal[p].kind)
  BY <1>2, Numbers
<1>4. Len(snapshots[p]) \in Nat /\ pointer[p] \in Nat /\ derived[p] \in Nat /\ Len(ledger) \in Nat
  BY SMTT(30) DEF TypeOK
<1>5. journal[p].revision \in 1..Len(snapshots[p])
  BY <1>1, <1>2, <1>4 DEF PreparedOK, PendingOK
<1> QED BY <1>1, <1>2, <1>3, <1>4, <1>5 DEF Length, RunOK

LEMMA SnapshotOK ==
  ASSUME TypeOK, LedgerOK, NEW p \in Projects, BundleOK(p), InstallSnapshot(p)
  PROVE  TypeOK' /\ StepOK(p)
<1>1. CASE Abort(p)
  BY <1>1, AbortOK
<1>2. CASE ~Abort(p)
  <2>1. PICK n : n = Step(p).at
    OBVIOUS
  <2>2. PICK f : f = Phases(journal[p].kind)[n]
    OBVIOUS
  <2>3. PICK r : r = journal[p].revision + n
    OBVIOUS
  <2>4. /\ Executing(p) /\ Step(p).do = "snapshot" /\ Advance(p)
        /\ snapshots' = IF r \in DOMAIN snapshots[p] THEN snapshots
                        ELSE [snapshots EXCEPT ![p] = Append(@, f)]
        /\ UNCHANGED <<ledger, pointer, source, turn, current, derived, lag>>
    BY <1>2, <2>1, <2>2, <2>3 DEF InstallSnapshot, At
  <2>5. Journaled(p) /\ n \in 1..Added(journal[p].kind)
        /\ journal[p].revision + n - 1 <= Len(snapshots[p])
    BY <2>1, <2>4, Ready
  <2>6. /\ PreparedOK(p) /\ PendingOK(p)
        /\ journal[p].kind \in Kinds /\ journal[p].revision \in Nat
        /\ Added(journal[p].kind) \in Nat
        /\ LastRevision(journal[p]) = journal[p].revision + Added(journal[p].kind)
        /\ Len(snapshots[p]) \in Nat /\ pointer[p] \in Nat /\ derived[p] \in Nat
        /\ Len(ledger) \in Nat /\ Length = Len(ledger) /\ derived[p] <= Len(ledger)
        /\ journal[p].revision \in 1..Len(snapshots[p])
    BY <2>5, JournalFacts
  <2>7. n \in Nat /\ n >= 1 /\ r \in Nat /\ f \in PhaseNames
    BY <2>2, <2>3, <2>5, <2>6, Numbers, SMTT(30)
  <2>8. DOMAIN snapshots[p] = 1..Len(snapshots[p])
    BY DEF TypeOK
  <2>9. /\ snapshots' \in [Projects -> Seq(PhaseNames)] /\ Longer(p)
        /\ \A q \in Projects \ {p} : snapshots'[q] = snapshots[q]
        /\ r <= Len(snapshots'[p])
        /\ \/ snapshots' = snapshots
           \/ /\ Len(snapshots'[p]) = r /\ Len(snapshots[p]) = r - 1 /\ snapshots'[p][r] = f
              /\ \A i \in 1..(r - 1) : snapshots'[p][i] = snapshots[p][i]
    <3>1. CASE r \in DOMAIN snapshots[p]
      BY <2>4, <2>6, <2>8, <3>1 DEF TypeOK, Longer
    <3>2. CASE r \notin DOMAIN snapshots[p]
      <4>1. Len(snapshots[p]) = r - 1
        <5>1. r >= 1 /\ r - 1 <= Len(snapshots[p])
          BY <2>3, <2>5, <2>6, <2>7, SMTT(30)
        <5>2. r > Len(snapshots[p])
          BY <2>6, <2>7, <2>8, <3>2, <5>1
        <5> QED BY <2>6, <2>7, <5>1, <5>2
      <4>2. snapshots' = [snapshots EXCEPT ![p] = Append(@, f)]
        BY <2>4, <3>2
      <4>3. /\ snapshots' \in [Projects -> Seq(PhaseNames)]
            /\ Len(snapshots'[p]) = Len(snapshots[p]) + 1 /\ Longer(p)
            /\ snapshots'[p][Len(snapshots[p]) + 1] = f
            /\ \A q \in Projects \ {p} : snapshots'[q] = snapshots[q]
        BY <2>7, <4>2, SnapshotAppend
      <4> QED BY <2>7, <4>1, <4>3 DEF Longer
    <3> QED BY <3>1, <3>2
  <2>10. Onward(p)
    BY <2>4, <2>6, <2>9 DEF Onward
  <2>11. PICK s : s = Step(p)
    OBVIOUS
  <2>12. Done(p, s)'
    BY <2>1, <2>3, <2>4, <2>9, <2>11 DEF Done, Advance
  <2>13. PreparedOK(p)'
    <3>1. Grows /\ Foreign(p)
      BY <2>4, SameLedger
    <3> QED BY <2>4, <2>5, <2>6, <2>9, <3>1, PreparedKept DEF Advance
  <2>14. PendingOK(p)'
    <3>1. /\ Completed(journal[p])' = Completed(journal[p]) /\ Target(journal[p])' = Target(journal[p])
          /\ LastRevision(journal[p])' = LastRevision(journal[p])
          /\ Added(journal[p].kind)' = Added(journal[p].kind)
          /\ \A m : Phases(journal[p].kind)[m]' = Phases(journal[p].kind)[m]
          /\ journal' = journal
      BY <2>4, SMTT(30) DEF Completed, Target, LastRevision, Events, Phases, Added, Advance
    <3>2. Len(snapshots'[p]) \in journal[p].revision..LastRevision(journal[p])
      BY <2>3, <2>5, <2>6, <2>7, <2>9 DEF PendingOK, Longer
    <3>3. ASSUME NEW m \in 1..Added(journal[p].kind),
                 journal[p].revision + m <= Len(snapshots'[p])
          PROVE  snapshots'[p][journal[p].revision + m] = Phases(journal[p].kind)[m]
      <4>1. CASE journal[p].revision + m <= Len(snapshots[p])
        <5>1. journal[p].revision + m \in 1..Len(snapshots[p])
          BY <2>6, <4>1
        <5>2. snapshots[p][journal[p].revision + m] = Phases(journal[p].kind)[m]
          BY <2>6, <4>1 DEF PendingOK
        <5> QED BY <2>9, <5>1, <5>2 DEF Longer
      <4>2. CASE journal[p].revision + m > Len(snapshots[p])
        <5>1. journal[p].revision + m = r /\ m = n
          BY <2>3, <2>6, <2>7, <2>9, <3>3, <4>2, SMTT(30)
        <5>2. snapshots'[p][r] = f
          BY <2>6, <2>9, <3>3, <4>2
        <5> QED BY <2>2, <5>1, <5>2
      <4> QED BY <2>6, <4>1, <4>2
    <3>4. pointer'[p] \in journal[p].revision..Len(snapshots'[p])
      BY <2>4, <2>6, <2>9 DEF PendingOK, Longer
    <3> QED BY <2>4, <2>6, <3>1, <3>2, <3>3, <3>4 DEF PendingOK, CurrentCas, Length
  <2>15. StepOK(p) /\ pc' \in [Projects -> Nat]
    BY <2>4, <2>6, <2>9, <2>10, <2>11, <2>12, <2>13, <2>14, FileStep
  <2>16. TypeOK'
    BY <2>4, <2>9, <2>15 DEF TypeOK, Advance, budgets
  <2> QED BY <2>15, <2>16
<1> QED BY <1>1, <1>2


LEMMA SameJournalFacts ==
  ASSUME NEW p \in Projects, journal' = journal
  PROVE  /\ Completed(journal[p])' = Completed(journal[p])
         /\ Target(journal[p])' = Target(journal[p])
         /\ LastRevision(journal[p])' = LastRevision(journal[p])
         /\ Added(journal[p].kind)' = Added(journal[p].kind)
         /\ \A n : Phases(journal[p].kind)[n]' = Phases(journal[p].kind)[n]
  BY DEF Completed, Target, LastRevision, Events, Phases, Added

LEMMA PointerOK ==
  ASSUME TypeOK, LedgerOK, NEW p \in Projects, BundleOK(p), InstallPointer(p)
  PROVE  TypeOK' /\ StepOK(p) /\ pointer'[p] >= pointer[p]
<1>0. pointer[p] \in Nat
  BY DEF TypeOK
<1>1. CASE Abort(p)
  BY <1>0, <1>1, AbortOK DEF Abort, files
<1>2. CASE ~Abort(p)
  <2>1. PICK n : n = Step(p).at
    OBVIOUS
  <2>2. PICK r : r = journal[p].revision + n
    OBVIOUS
  <2>3. /\ Executing(p) /\ Step(p).do = "pointer" /\ Advance(p)
        /\ \/ pointer[p] <= r /\ pointer' = [pointer EXCEPT ![p] = r]
           \/ pointer[p] = r + 1 /\ pointer' = pointer
        /\ UNCHANGED <<ledger, snapshots, source, turn, current, derived, lag>>
    BY <1>2, <2>1, <2>2 DEF InstallPointer, At
  <2>4. Journaled(p) /\ n \in 1..Added(journal[p].kind) /\ r <= Len(snapshots[p])
    BY <2>1, <2>2, <2>3, Ready
  <2>5. /\ PreparedOK(p) /\ PendingOK(p)
        /\ journal[p].kind \in Kinds /\ journal[p].revision \in Nat
        /\ Added(journal[p].kind) \in Nat
        /\ LastRevision(journal[p]) = journal[p].revision + Added(journal[p].kind)
        /\ Len(snapshots[p]) \in Nat /\ pointer[p] \in Nat /\ derived[p] \in Nat
        /\ Len(ledger) \in Nat /\ Length = Len(ledger) /\ derived[p] <= Len(ledger)
        /\ journal[p].revision \in 1..Len(snapshots[p])
    BY <2>4, JournalFacts
  <2>6. r \in Nat /\ r >= journal[p].revision /\ r <= LastRevision(journal[p])
    BY <2>2, <2>4, <2>5
  <2>7. /\ pointer' \in [Projects -> Nat] /\ pointer'[p] \in Nat /\ pointer[p] <= pointer'[p]
        /\ r <= pointer'[p] /\ pointer'[p] \in {r, pointer[p]}
        /\ \A q \in Projects \ {p} : pointer'[q] = pointer[q]
    <3>1. CASE pointer[p] <= r /\ pointer' = [pointer EXCEPT ![p] = r]
      BY <2>5, <2>6, <3>1 DEF TypeOK
    <3>2. CASE pointer[p] = r + 1 /\ pointer' = pointer
      BY <2>5, <2>6, <3>2 DEF TypeOK
    <3> QED BY <2>3, <3>1, <3>2
  <2>8. Onward(p)
    BY <2>3, <2>5, <2>7 DEF Onward, Longer
  <2>9. PICK s : s = Step(p)
    OBVIOUS
  <2>10. Done(p, s)'
    BY <2>1, <2>2, <2>3, <2>7, <2>9 DEF Done, Advance
  <2>11. PreparedOK(p)'
    <3>1. Grows /\ Foreign(p)
      BY <2>3, SameLedger
    <3> QED BY <2>3, <2>4, <2>5, <2>8, <3>1, PreparedKept DEF Advance, Onward
  <2>12. PendingOK(p)'
    <3>1. pointer'[p] \in journal[p].revision..Len(snapshots[p])
      BY <2>4, <2>5, <2>6, <2>7 DEF PendingOK
    <3>2. current[p] = Completed(journal[p]) => pointer'[p] = LastRevision(journal[p])
      BY <2>5, <2>6, <2>7 DEF PendingOK
    <3>3. journal' = journal
      BY <2>3 DEF Advance
    <3> QED BY <2>3, <2>5, <3>1, <3>2, <3>3, SameJournalFacts DEF PendingOK, CurrentCas, Length
  <2>13. StepOK(p) /\ pc' \in [Projects -> Nat]
    BY <2>3, <2>5, <2>7, <2>8, <2>9, <2>10, <2>11, <2>12, FileStep
  <2>14. TypeOK'
    BY <2>3, <2>7, <2>13 DEF TypeOK, Advance, budgets
  <2> QED BY <2>7, <2>13, <2>14
<1> QED BY <1>1, <1>2

LEMMA SourceOK ==
  ASSUME TypeOK, LedgerOK, NEW p \in Projects, BundleOK(p), InstallSource(p)
  PROVE  TypeOK' /\ StepOK(p)
<1>1. CASE Abort(p)
  BY <1>1, AbortOK
<1>2. CASE ~Abort(p)
  <2>1. /\ Executing(p) /\ Step(p).do = "source" /\ Advance(p)
        /\ \/ journal[p].kind # "approve" /\ ~journal[p].rollback /\ source' = source
           \/ /\ journal[p].kind = "approve" \/ journal[p].rollback
              /\ source' = [source EXCEPT ![p] = IF journal[p].kind = "approve" THEN "after"
                                                 ELSE "before"]
        /\ UNCHANGED <<ledger, snapshots, pointer, turn, current, derived, lag>>
    BY <1>2 DEF InstallSource, At, files
  <2>2. Journaled(p) /\ journal[p].kind # "verify"
    BY <2>1, Ready
  <2>3. /\ PreparedOK(p) /\ PendingOK(p) /\ journal[p].kind \in Kinds
        /\ Len(snapshots[p]) \in Nat /\ pointer[p] \in Nat /\ derived[p] \in Nat
        /\ Length = Len(ledger) /\ derived[p] <= Len(ledger)
    BY <2>2, JournalFacts
  <2>4. journal[p].kind = "approve" => ~journal[p].rollback
    BY <2>3 DEF PreparedOK
  <2>5. /\ source' \in [Projects -> {"before", "after", "user"}]
        /\ journal[p].kind = "approve" => source'[p] # "before"
        /\ journal[p].rollback => source'[p] # "after"
        /\ journal[p].kind \in {"deny", "cancel"} /\ ~journal[p].rollback => source'[p] # "after"
        /\ \A q \in Projects \ {p} : source'[q] = source[q]
    BY <2>1, <2>3, <2>4 DEF TypeOK, PreparedOK
  <2>6. PICK s : s = Step(p)
    OBVIOUS
  <2>7. Done(p, s)' /\ Done(p, Do("source"))'
    BY <2>1, <2>5, <2>6 DEF Done, Do, Advance
  <2>8. Onward(p)
    BY <2>1, <2>3, <2>7 DEF Onward, Longer
  <2>9. PreparedOK(p)'
    BY <2>1, <2>2, <2>3, <2>5 DEF PreparedOK, Approving, Advance, Length
  <2>10. PendingOK(p)'
    <3>1. Grows
      BY <2>1, SameLedger
    <3> QED BY <2>1, <2>2, <2>3, <3>1, PendingKept DEF Advance
  <2>11. StepOK(p) /\ pc' \in [Projects -> Nat]
    BY <2>1, <2>3, <2>5, <2>6, <2>7, <2>8, <2>9, <2>10, FileStep
  <2>12. TypeOK'
    BY <2>1, <2>5, <2>11 DEF TypeOK, Advance, budgets
  <2> QED BY <2>11, <2>12
<1> QED BY <1>1, <1>2

LEMMA TranscriptOK ==
  ASSUME TypeOK, LedgerOK, NEW p \in Projects, BundleOK(p), InstallTranscript(p)
  PROVE  TypeOK' /\ StepOK(p)
<1>1. /\ Executing(p) /\ Step(p).do = "turn" /\ Advance(p)
      /\ turn' = [turn EXCEPT ![p] = TRUE]
      /\ UNCHANGED <<ledger, snapshots, pointer, source, current, derived, lag>>
  BY DEF InstallTranscript, At
<1>2. Journaled(p)
  BY <1>1, Ready
<1>3. /\ PreparedOK(p) /\ PendingOK(p)
      /\ Len(snapshots[p]) \in Nat /\ pointer[p] \in Nat /\ derived[p] \in Nat
      /\ Length = Len(ledger) /\ derived[p] <= Len(ledger)
      /\ journal[p].revision \in 1..Len(snapshots[p])
  BY <1>2, JournalFacts
<1>4. /\ turn' \in [Projects -> BOOLEAN] /\ turn'[p]
      /\ \A q \in Projects \ {p} : turn'[q] = turn[q]
  BY <1>1 DEF TypeOK
<1>5. PICK s : s = Step(p)
  OBVIOUS
<1>6. Done(p, s)'
  BY <1>1, <1>4, <1>5 DEF Done
<1>7. Onward(p)
  BY <1>1, <1>3, <1>4 DEF Onward, Longer
<1>8. PreparedOK(p)' /\ PendingOK(p)'
  <2>1. Grows /\ Foreign(p)
    BY <1>1, SameLedger
  <2> QED BY <1>1, <1>2, <1>3, <1>4, <1>7, <2>1, PreparedKept, PendingKept DEF Advance, Onward
<1>9. StepOK(p) /\ pc' \in [Projects -> Nat]
  BY <1>1, <1>3, <1>4, <1>5, <1>6, <1>7, <1>8, FileStep
<1> QED BY <1>1, <1>4, <1>9 DEF TypeOK, Advance, budgets

LEMMA CurrentOK ==
  ASSUME TypeOK, LedgerOK, NEW p \in Projects, BundleOK(p), InstallCurrent(p)
  PROVE  TypeOK' /\ StepOK(p)
<1>1. CASE Abort(p)
  BY <1>1, AbortOK
<1>2. CASE ~Abort(p)
  <2>1. /\ Executing(p) /\ Step(p).do = "current" /\ Advance(p)
        /\ current' = [current EXCEPT ![p] = Completed(journal[p])]
        /\ UNCHANGED <<ledger, snapshots, pointer, source, turn, derived, lag>>
    BY <1>2 DEF InstallCurrent, At
  <2>2. Journaled(p) /\ pointer[p] = LastRevision(journal[p]) /\ Target(journal[p]) <= Length
    BY <2>1, Ready
  <2>3. /\ PreparedOK(p) /\ PendingOK(p)
        /\ Len(snapshots[p]) \in Nat /\ pointer[p] \in Nat /\ derived[p] \in Nat
        /\ Length = Len(ledger) /\ derived[p] <= Len(ledger)
        /\ journal[p].revision \in 1..Len(snapshots[p])
    BY <2>2, JournalFacts
  <2>4. Completed(journal[p]) \in Image
    BY <2>2, JournalType
  <2>5. /\ current' \in [Projects -> Image] /\ current'[p] = Completed(journal[p])
        /\ \A q \in Projects \ {p} : current'[q] = current[q]
    BY <2>1, <2>4 DEF TypeOK
  <2>6. PICK s : s = Step(p)
    OBVIOUS
  <2>7. journal' = journal
    BY <2>1 DEF Advance
  <2>8. Done(p, s)'
    BY <2>1, <2>5, <2>6, <2>7, SameJournalFacts DEF Done
  <2>9. Onward(p)
    BY <2>1, <2>3, <2>5 DEF Onward, Longer
  <2>10. PreparedOK(p)'
    <3>1. Grows /\ Foreign(p)
      BY <2>1, SameLedger
    <3> QED BY <2>1, <2>2, <2>3, <2>9, <3>1, PreparedKept DEF Advance, Onward
  <2>11. PendingOK(p)'
    BY <2>1, <2>2, <2>3, <2>5, <2>7, SameJournalFacts DEF PendingOK, CurrentCas, Length
  <2>12. StepOK(p) /\ pc' \in [Projects -> Nat]
    BY <2>1, <2>3, <2>5, <2>6, <2>8, <2>9, <2>10, <2>11, FileStep
  <2>13. TypeOK'
    BY <2>1, <2>5, <2>12 DEF TypeOK, Advance, budgets
  <2> QED BY <2>12, <2>13
<1> QED BY <1>1, <1>2

LEMMA ConvergeOK ==
  ASSUME TypeOK, LedgerOK, NEW p \in Projects, BundleOK(p), Converge(p) \/ ConvergeFails(p)
  PROVE  TypeOK' /\ StepOK(p)
<1>1. CASE Converge(p) /\ Length = Target(journal[p])
  <2>1. /\ Executing(p) /\ Step(p).do = "converge" /\ Advance(p)
        /\ derived' = [derived EXCEPT ![p] = Length]
        /\ UNCHANGED <<ledger, snapshots, pointer, source, turn, current, lag>>
    BY <1>1 DEF Converge, At
  <2>2. Journaled(p)
    BY <2>1, Ready
  <2>3. /\ PreparedOK(p) /\ PendingOK(p)
        /\ Len(snapshots[p]) \in Nat /\ pointer[p] \in Nat /\ derived[p] \in Nat
        /\ Length = Len(ledger) /\ derived[p] <= Len(ledger) /\ Len(ledger) \in Nat
        /\ journal[p].revision \in 1..Len(snapshots[p])
    BY <2>2, JournalFacts
  <2>4. /\ derived' \in [Projects -> Nat] /\ derived'[p] = Len(ledger)
        /\ \A q \in Projects \ {p} : derived'[q] = derived[q]
    BY <2>1, <2>3 DEF TypeOK
  <2>5. PICK s : s = Step(p)
    OBVIOUS
  <2>6. journal' = journal
    BY <2>1 DEF Advance
  <2>7. Done(p, s)'
    <3>1. Target(journal[p])' = Target(journal[p]) /\ derived'[p] = Target(journal[p])
      BY <1>1, <2>3, <2>4, <2>6, SameJournalFacts
    <3>2. Target(journal[p]) \in Nat
      BY <1>1, <2>3
    <3> QED BY <2>1, <2>5, <3>1, <3>2 DEF Done
  <2>8. Onward(p)
    BY <2>1, <2>3, <2>4 DEF Onward, Longer
  <2>9. PreparedOK(p)' /\ PendingOK(p)'
    <3>1. Grows /\ Foreign(p)
      BY <2>1, SameLedger
    <3> QED BY <2>1, <2>2, <2>3, <2>8, <3>1, PreparedKept, PendingKept DEF Advance, Onward
  <2>10. StepOK(p) /\ pc' \in [Projects -> Nat]
    BY <2>1, <2>3, <2>4, <2>5, <2>7, <2>8, <2>9, FileStep
  <2>11. TypeOK'
    BY <2>1, <2>4, <2>10 DEF TypeOK, Advance, budgets
  <2> QED BY <2>10, <2>11
<1>2. CASE Converge(p) /\ Length # Target(journal[p])
  <2>1. faults' \in 0..FaultBudget
    BY <1>2 DEF Converge, budgets, TypeOK
  <2> QED BY <1>2, <2>1, RefusedOK DEF Converge, At, budgets
<1>3. CASE ConvergeFails(p)
  <2>1. faults' \in 0..FaultBudget
    BY <1>3, ApprovalAssumption DEF ConvergeFails, TypeOK
  <2> QED BY <1>3, <2>1, RefusedOK DEF ConvergeFails, At, files
<1> QED BY <1>1, <1>2, <1>3

LEMMA RemoveLagOK ==
  ASSUME TypeOK, LedgerOK, NEW p \in Projects, BundleOK(p), RemoveLag(p)
  PROVE  TypeOK' /\ StepOK(p) /\ derived[p] >= Target(journal[p])
<1>1. /\ Executing(p) /\ Step(p).do = "removeLag" /\ Advance(p)
      /\ lag' = [lag EXCEPT ![p] = "none"]
      /\ UNCHANGED <<ledger, snapshots, pointer, source, turn, current, derived>>
  BY DEF RemoveLag, At
<1>2. Journaled(p) /\ derived[p] >= Target(journal[p])
  BY <1>1, Ready
<1>3. /\ PreparedOK(p) /\ PendingOK(p)
      /\ Len(snapshots[p]) \in Nat /\ pointer[p] \in Nat /\ derived[p] \in Nat
      /\ Length = Len(ledger) /\ derived[p] <= Len(ledger)
      /\ journal[p].revision \in 1..Len(snapshots[p])
  BY <1>2, JournalFacts
<1>4. /\ lag' \in [Projects -> {"none", "torn", "temp", "final"}] /\ lag'[p] = "none"
      /\ \A q \in Projects \ {p} : lag'[q] = lag[q]
  BY <1>1 DEF TypeOK
<1>5. PICK s : s = Step(p)
  OBVIOUS
<1>6. Done(p, s)'
  BY <1>1, <1>4, <1>5 DEF Done
<1>7. Onward(p)
  BY <1>1, <1>3, <1>4 DEF Onward, Longer
<1>8. PreparedOK(p)' /\ PendingOK(p)'
  <2>1. Grows /\ Foreign(p)
    BY <1>1, SameLedger
  <2> QED BY <1>1, <1>2, <1>3, <1>4, <1>7, <2>1, PreparedKept, PendingKept DEF Advance, Onward
<1>9. StepOK(p) /\ pc' \in [Projects -> Nat]
  BY <1>1, <1>3, <1>4, <1>5, <1>6, <1>7, <1>8, FileStep
<1> QED BY <1>1, <1>2, <1>4, <1>9 DEF TypeOK, Advance, budgets

-----------------------------------------------------------------------------
(* The invariant, and what it says of the disk. *)

LEMMA Initially ==
  ASSUME Init
  PROVE  TypeOK /\ Inv
<1> USE DEF Init
<1>1. TypeOK
  BY ApprovalAssumption DEF TypeOK, Stages, NoJournal, Kinds, Image, PhaseNames
<1>2. LedgerOK /\ Length = 0
  BY DEF LedgerOK, EventsInOrder, Length
<1>3. ASSUME NEW p \in Projects
      PROVE  BundleOK(p)
  <2>1. ~Journaled(p) /\ ~Approving(p) /\ ~Executing(p) /\ writer # p
    BY ApprovalAssumption DEF Journaled, Approving, NoJournal, Executing
  <2>2. Phase(p) = "pending-approval" /\ Len(snapshots[p]) = 1
    BY DEF Phase
  <2>3. ControlOK(p)
    BY <2>1 DEF ControlOK, UnderLease
  <2>4. EventsOf(p) /\ RunOK(p)
    BY <1>2 DEF EventsOf, RunOK
  <2>5. QuietOK(p)
    BY <1>2, <2>1, <2>2 DEF QuietOK, LifePhases, Applied, Started, Awaited
  <2> QED BY <2>1, <2>3, <2>4, <2>5 DEF BundleOK
<1> QED BY <1>1, <1>2, <1>3 DEF Inv

(* an error that ends the command of a project, or none *)
LEMMA WorkOK ==
  ASSUME TypeOK, LedgerOK, NEW p \in Projects, BundleOK(p),
         \/ Work(p) \/ Retry(p) \/ ConvergeFails(p) \/ Deny(p) \/ Cancel(p) \/ Stop(p) \/ Edit(p)
         \/ \E k \in {"approve", "verify"} : Observe(p, k)
         \/ Restore(p) \/ Unrecorded(p) \/ \E f \in Outcomes : Record(p, f)
  PROVE  TypeOK' /\ StepOK(p)
<1>1. CASE Work(p)
  <2>1. CASE Stale(p)
    BY <2>1, AbortOK DEF Stale
  <2> QED BY <1>1, <2>1, AppendOK, SnapshotOK, PointerOK, SourceOK, TranscriptOK, CurrentOK,
             ConvergeOK, RemoveLagOK, RemoveOK, LagStepOK, AdmitOK, CommandOK DEF Work
<1> QED BY <1>1, RecoverOK, ConvergeOK, TerminalOK, StopOK, EditOK, ObserveOK, RestoreOK,
           UnrecordedOK, RecordOK

LEMMA Stutter ==
  ASSUME TypeOK, Inv, UNCHANGED vars
  PROVE  TypeOK' /\ Inv'
<1> USE DEF vars, files, budgets
<1>1. TypeOK'
  BY DEF TypeOK
<1>2. LedgerOK' /\ Grows /\ \A q : Foreign(q)
  BY SameLedger DEF Inv
<1>3. \A q \in Projects : Kept(q)
  BY DEF Kept
<1> QED BY <1>1, <1>2, <1>3, OthersKept DEF Inv

LEMMA Inductive ==
  ASSUME TypeOK, Inv, [Next]_vars
  PROVE  TypeOK' /\ Inv'
<1>1. CASE UNCHANGED vars
  BY <1>1, Stutter
<1>2. CASE Next
  <2>1. PICK p \in Projects :
          \/ Work(p) \/ Retry(p) \/ ConvergeFails(p) \/ Deny(p) \/ Cancel(p) \/ Stop(p) \/ Edit(p)
          \/ \E k \in {"approve", "verify"} : Observe(p, k)
          \/ Restore(p) \/ Unrecorded(p) \/ \E f \in Outcomes : Record(p, f)
    BY <1>2 DEF Next
  <2>2. TypeOK' /\ StepOK(p)
    BY <2>1, WorkOK DEF Inv
  <2>3. \A q \in Projects \ {p} : BundleOK(q)'
    BY <2>2, OthersKept DEF Inv, StepOK, Private
  <2> QED BY <2>2, <2>3 DEF Inv, StepOK
<1> QED BY <1>1, <1>2

(* TypeOK and Inv hold in every state of every installation. *)
THEOREM BundlesKept == Spec => [](TypeOK /\ Inv)
<1>1. Init => TypeOK /\ Inv
  BY Initially
<1>2. TypeOK /\ Inv /\ [Next]_vars => TypeOK' /\ Inv'
  BY Inductive
<1> QED BY <1>1, <1>2, PTL DEF Spec

LEMMA DiskOf ==
  ASSUME TypeOK, Inv
  PROVE  OnDisk /\ SourceAgrees /\ CommandApproved
<1>1. EventsInOrder
  BY DEF Inv, LedgerOK
<1>2. ASSUME NEW p \in Projects, ~Journaled(p)
      PROVE  QuietOK(p)
  BY <1>2 DEF Inv, BundleOK
<1>3. Whole /\ DerivedShown
  <2>1. ASSUME NEW p \in Projects
        PROVE  derived[p] \in Nat /\ current[p].head \in Nat
    BY DEF TypeOK, Image
  <2> QED BY <1>2, <2>1 DEF Whole, DerivedShown, QuietOK
<1>4. CurrentBehind
  <2>1. SUFFICES ASSUME NEW p \in Projects
                 PROVE  /\ current[p].revision <= pointer[p] /\ pointer[p] <= Len(snapshots[p])
                        /\ current[p].head <= Length
    BY DEF CurrentBehind
  <2>2. current[p].revision \in Nat /\ pointer[p] \in Nat /\ Len(snapshots[p]) \in Nat
    BY SMTT(30) DEF TypeOK, Image
  <2>3. CASE ~Journaled(p)
    BY <1>2, <2>2, <2>3 DEF QuietOK
  <2>4. CASE Journaled(p)
    <3>1. BundleOK(p)
      BY DEF Inv
    <3>2. /\ PreparedOK(p) /\ PendingOK(p) /\ journal[p].revision \in Nat /\ Length \in Nat
          /\ LastRevision(journal[p]) \in Nat /\ journal[p].head \in Nat
      BY <2>4, <3>1, JournalFacts, JournalType
    <3>3. journal[p].before.head \in Nat
      BY <2>4, JournalType DEF Image
    <3>4. CASE current[p] = journal[p].before
      BY <2>2, <3>2, <3>3, <3>4 DEF PreparedOK, PendingOK
    <3>5. CASE current[p] = Completed(journal[p])
      BY <2>2, <3>2, <3>5 DEF PendingOK, Completed
    <3> QED BY <3>2, <3>4, <3>5 DEF PendingOK, CurrentCas
  <2> QED BY <2>3, <2>4
<1>5. LagOwned
  BY DEF LagOwned, Inv, BundleOK, ControlOK
<1>6. SourceAgrees
  <2>1. SUFFICES ASSUME NEW p \in Projects
                 PROVE  /\ ~Journaled(p) /\ Phase(p) \in Applied =>
                             source[p] # "before" \/ (Inconclusive(p) /\ stage[p] # "result")
                        /\ ~Journaled(p) /\ Phase(p) \notin Applied =>
                             source[p] # "after" \/ Phase(p) = "rollback-failed"
                        /\ Approving(p) /\ Installed(p, 8) => source[p] # "before"
    BY DEF SourceAgrees
  <2>2. CASE ~Journaled(p)
    BY <1>2, <2>2 DEF QuietOK, Journaled, Approving, NoJournal
  <2>3. CASE Journaled(p)
    BY <2>3 DEF Inv, BundleOK, PreparedOK
  <2> QED BY <2>2, <2>3
<1>7. CommandApproved
  <2>1. SUFFICES ASSUME NEW p \in Projects
                 PROVE  /\ ran[p] <= 1
                        /\ ran[p] = 1 =>
                             \E i \in 1..derived[p] :
                               /\ ledger[i].project = p /\ ledger[i].event = 3
                               /\ snapshots[p][ledger[i].revision + 1] = "verification-started"
    BY DEF CommandApproved
  <2>2. RunOK(p) /\ derived[p] \in Nat /\ Length \in Nat
    BY DEF Inv, BundleOK, TypeOK, Length
  <2> QED BY <2>2 DEF RunOK, Shown
<1> QED BY <1>1, <1>3, <1>4, <1>5, <1>6, <1>7 DEF OnDisk

(* What the ledger and the files of an installation say of its bundles, between any two
   steps of any command, stop or recovery. *)
THEOREM DiskKept == Spec => []OnDisk
  BY BundlesKept, DiskOf, PTL

(* The patched file agrees with the decision, up to a failed command whose result is not
   recorded and a rollback recorded as failed. *)
THEOREM SourceKept == Spec => []SourceAgrees
  BY BundlesKept, DiskOf, PTL

(* The verification command is started at most once, after the ledger shows its approval. *)
THEOREM RunsApproved == Spec => []CommandApproved
  BY BundlesKept, DiskOf, PTL


-----------------------------------------------------------------------------
(* What no step takes back. *)

ProjectStep(p) ==
  \/ Work(p) \/ Retry(p) \/ ConvergeFails(p) \/ Deny(p) \/ Cancel(p) \/ Stop(p) \/ Edit(p)
  \/ \E k \in {"approve", "verify"} : Observe(p, k)
  \/ Restore(p) \/ Unrecorded(p) \/ \E f \in Outcomes : Record(p, f)

(* a step that only goes on, returns, or works on the marker *)
Minor(p) ==
  \/ Abort(p) \/ Stop(p) \/ Edit(p) \/ Retry(p) \/ (\E k \in {"approve", "verify"} : Observe(p, k))
  \/ StartLag(p) \/ WriteLag(p) \/ RenameLag(p) \/ ConvergeFails(p) \/ Restore(p) \/ Unrecorded(p)
  \/ (Converge(p) /\ Length # Target(journal[p]))
Bundling(p) ==
  \/ AppendEvent(p) \/ InstallSnapshot(p) \/ InstallPointer(p) \/ InstallSource(p)
  \/ InstallTranscript(p) \/ InstallCurrent(p) \/ Converge(p) \/ RemoveLag(p)
Committing(p) == AdmitApproval(p) \/ AdmitVerification(p) \/ Deny(p) \/ Cancel(p)

LEMMA Steps ==
  ASSUME NEW p \in Projects, ProjectStep(p)
  PROVE  \/ Minor(p) \/ (Bundling(p) /\ Executing(p) /\ Advance(p)) \/ Committing(p)
         \/ RemoveJournal(p) \/ (RunCommand(p) /\ ~Abort(p))
         \/ \E f \in Outcomes : Record(p, f)
<1>1. CASE Work(p)
  <2>1. CASE Bundling(p)
    <3>1. Executing(p)
      BY <2>1 DEF Bundling, AppendEvent, InstallSnapshot, InstallPointer, InstallSource,
                  InstallTranscript, InstallCurrent, Converge, RemoveLag, At
    <3>2. \/ Advance(p) \/ Abort(p) \/ (Converge(p) /\ Length # Target(journal[p]))
      BY <2>1 DEF Bundling, AppendEvent, InstallSnapshot, InstallPointer, InstallSource,
                  InstallTranscript, InstallCurrent, Converge, RemoveLag
    <3> QED BY <2>1, <3>1, <3>2 DEF Minor
  <2>2. CASE Stale(p)
    BY <2>2 DEF Stale, Minor
  <2>3. CASE RunCommand(p)
    BY <2>3 DEF Minor
  <2>4. CASE StartLag(p) \/ WriteLag(p) \/ RenameLag(p)
    BY <2>4 DEF Minor
  <2>5. CASE AdmitApproval(p) \/ AdmitVerification(p) \/ RemoveJournal(p)
    BY <2>5 DEF Committing
  <2> QED BY <1>1, <2>1, <2>2, <2>3, <2>4, <2>5 DEF Work, Bundling
<1>2. CASE ~Work(p)
  BY <1>2 DEF ProjectStep, Minor, Committing
<1> QED BY <1>1, <1>2

LEMMA MinorKeeps ==
  ASSUME NEW p \in Projects, Minor(p)
  PROVE  UNCHANGED <<ledger, journal, snapshots, pointer, turn, current, ran>>
<1> USE DEF files
<1>1. CASE Abort(p)
  BY <1>1 DEF Abort
<1>2. CASE Stop(p)
  BY <1>2 DEF Stop
<1>3. CASE Edit(p)
  BY <1>3 DEF Edit
<1>4. CASE Retry(p)
  BY <1>4 DEF Retry, HoldAtBarrier, RecoverApproval, RecoverVerification, RecoverTerminal, Recover
<1>5. CASE \E k \in {"approve", "verify"} : Observe(p, k)
  BY <1>5 DEF Observe
<1>6. CASE StartLag(p)
  BY <1>6 DEF StartLag, Marker, Abort
<1>7. CASE WriteLag(p) \/ RenameLag(p)
  BY <1>7 DEF WriteLag, RenameLag, Marker
<1>8. CASE ConvergeFails(p)
  BY <1>8 DEF ConvergeFails
<1>9. CASE Converge(p) /\ Length # Target(journal[p])
  BY <1>9 DEF Converge
<1>10. CASE Restore(p) \/ Unrecorded(p)
  BY <1>10 DEF Restore, Unrecorded
<1> QED BY <1>1, <1>2, <1>3, <1>4, <1>5, <1>6, <1>7, <1>8, <1>9, <1>10 DEF Minor

LEMMA CommitKeeps ==
  ASSUME NEW p \in Projects, Committing(p)
  PROVE  /\ UNCHANGED <<ledger, snapshots, pointer, lag, ran>>
         /\ \E k \in Kinds : \E rollback : Commit(p, k, rollback)
<1> USE DEF files, Commit, Kinds
<1>1. CASE AdmitApproval(p) \/ AdmitVerification(p)
  BY <1>1 DEF AdmitApproval, AdmitVerification
<1>2. CASE Deny(p) \/ Cancel(p)
  BY <1>2 DEF Deny, Cancel, PrepareTerminal
<1> QED BY <1>1, <1>2 DEF Committing

LEMMA PointerKept ==
  ASSUME TypeOK, Inv, NEW p \in Projects, ProjectStep(p)
  PROVE  pointer'[p] >= pointer[p]
<1>0. pointer[p] \in Nat /\ LedgerOK /\ BundleOK(p)
  BY DEF TypeOK, Inv
<1>1. CASE Minor(p) \/ Committing(p)
  BY <1>0, <1>1, MinorKeeps, CommitKeeps
<1>2. CASE Bundling(p)
  <2>1. CASE InstallPointer(p)
    BY <1>0, <2>1, PointerOK
  <2>2. CASE ~InstallPointer(p)
    BY <1>0, <1>2, <2>2
       DEF Bundling, AppendEvent, InstallSnapshot, InstallSource, InstallTranscript,
           InstallCurrent, Converge, RemoveLag, Abort, files
  <2> QED BY <2>1, <2>2
<1>3. CASE RemoveJournal(p) \/ (RunCommand(p) /\ ~Abort(p))
  BY <1>0, <1>3 DEF RemoveJournal, RunCommand, files
<1>4. ASSUME NEW f \in Outcomes, Record(p, f)
      PROVE  pointer'[p] >= pointer[p]
  BY <1>0, <1>4 DEF Record, TypeOK
<1> QED BY <1>1, <1>2, <1>3, <1>4, Steps

LEMMA MarkerKept ==
  ASSUME TypeOK, Inv, NEW p \in Projects, ProjectStep(p), lag[p] = "final", lag'[p] = "none"
  PROVE  derived[p] >= Target(journal[p])
<1>0. LedgerOK /\ BundleOK(p)
  BY DEF Inv
<1>1. CASE RemoveLag(p)
  BY <1>0, <1>1, RemoveLagOK
<1>2. CASE ~RemoveLag(p)
  <2>1. lag'[p] = lag[p] \/ lag'[p] \in {"torn", "temp", "final"}
    <3>1. CASE Minor(p)
      <4> USE DEF files
      <4>1. CASE \/ Abort(p) \/ Stop(p) \/ Edit(p) \/ ConvergeFails(p) \/ Converge(p)
                 \/ Restore(p) \/ Unrecorded(p)
        BY <4>1 DEF Abort, Stop, Edit, ConvergeFails, Converge, Restore, Unrecorded
      <4>2. CASE Retry(p)
        BY <4>2 DEF Retry, HoldAtBarrier, RecoverApproval, RecoverVerification, RecoverTerminal,
                    Recover
      <4>3. CASE \E k \in {"approve", "verify"} : Observe(p, k)
        BY <4>3 DEF Observe
      <4>4. CASE StartLag(p) \/ WriteLag(p) \/ RenameLag(p)
        BY <4>4 DEF StartLag, WriteLag, RenameLag, Marker, Abort, TypeOK
      <4> QED BY <3>1, <4>1, <4>2, <4>3, <4>4 DEF Minor
    <3>2. CASE Committing(p)
      BY <3>2, CommitKeeps
    <3>3. CASE Bundling(p)
      BY <1>2, <3>3 DEF Bundling, AppendEvent, InstallSnapshot, InstallPointer, InstallSource,
           InstallTranscript, InstallCurrent, Converge, Abort, files
    <3>4. CASE RemoveJournal(p) \/ (RunCommand(p) /\ ~Abort(p))
      BY <3>4 DEF RemoveJournal, RunCommand, files
    <3>5. ASSUME NEW f \in Outcomes, Record(p, f)
          PROVE  lag'[p] = lag[p]
      BY <3>5 DEF Record
    <3> QED BY <3>1, <3>2, <3>3, <3>4, <3>5, Steps
  <2> QED BY <2>1
<1> QED BY <1>1, <1>2

LEMMA Others ==
  ASSUME TypeOK, Inv, NEW p \in Projects, ProjectStep(p)
  PROVE  \A q \in Projects \ {p} : Kept(q)
  BY WorkOK DEF Inv, ProjectStep, StepOK, Private

LEMMA Forward ==
  ASSUME TypeOK, Inv, [Next]_vars
  PROVE  /\ [\A p \in Projects : pointer'[p] >= pointer[p]]_vars
         /\ [\A p \in Projects : lag[p] = "final" /\ lag'[p] = "none" =>
               derived[p] >= Target(journal[p])]_vars
<1>1. CASE UNCHANGED vars
  BY <1>1
<1>2. CASE Next
  <2>1. PICK p \in Projects : ProjectStep(p)
    BY <1>2 DEF Next, ProjectStep
  <2>2. ASSUME NEW q \in Projects, q # p
        PROVE  pointer'[q] >= pointer[q] /\ lag'[q] = lag[q]
    <3>1. Kept(q)
      BY <2>1, <2>2, Others
    <3>2. pointer[q] \in Nat
      BY DEF TypeOK
    <3> QED BY <3>1, <3>2 DEF Kept
  <2> QED BY <2>1, <2>2, PointerKept, MarkerKept
<1> QED BY <1>1, <1>2

(* install_pointer never takes a workflow back to an earlier revision, and a marker goes
   only after the derived outputs show the last event of its bundle. *)
THEOREM NothingUndone == Spec => NothingTakenBack
<1>1. TypeOK /\ Inv /\ [Next]_vars =>
        /\ [\A p \in Projects : pointer'[p] >= pointer[p]]_vars
        /\ [\A p \in Projects : lag[p] = "final" /\ lag'[p] = "none" =>
              derived[p] >= Target(journal[p])]_vars
  BY Forward
<1> QED BY <1>1, BundlesKept, PTL DEF Spec, NothingTakenBack, PointerForward, LagUntilConverged

-----------------------------------------------------------------------------
(* The lifecycle. *)

(* one decision, one start of the command, or neither *)
Moves(p) ==
  \/ Decided(p)' = Decided(p) /\ ran' = ran
  \/ /\ LifePhase(Decided(p))' \in Life!Next(LifePhase(Decided(p))) /\ ran' = ran
     /\ LifePhase(Decided(p))' \in {"verified", "failed"} => ran[p] = 1
  \/ /\ Decided(p)' = Decided(p) /\ Decided(p) = "verification-started" /\ ran[p] = 0
     /\ ran' = [ran EXCEPT ![p] = 1]

LEMMA DecidedKept ==
  ASSUME NEW p \in Projects, journal'[p] = journal[p],
         Journaled(p) \/ (snapshots'[p] = snapshots[p] /\ pointer'[p] = pointer[p])
  PROVE  Decided(p)' = Decided(p)
  BY DEF Decided, Journaled, Phase, Phases

LEMMA DecidedOf ==
  ASSUME NEW p \in Projects
  PROVE  /\ ~Journaled(p) => Decided(p) = Phase(p)
         /\ Journaled(p) /\ journal[p].kind \in Kinds =>
              /\ journal[p].kind = "approve" => Decided(p) = "pending-verification-approval"
              /\ journal[p].kind = "verify" => Decided(p) = "verification-started"
              /\ journal[p].kind \in {"deny", "cancel"} => Decided(p) = "cancelled"
<1>1. ASSUME journal[p].kind \in Kinds
      PROVE  Len(Phases(journal[p].kind)) = Added(journal[p].kind)
  BY <1>1, Numbers
<1> QED BY <1>1, Numbers DEF Decided

LEMMA CommitMoves ==
  ASSUME TypeOK, Inv, NEW p \in Projects, Committing(p)
  PROVE  Moves(p)
<1>1. BundleOK(p) /\ UNCHANGED <<snapshots, pointer, ran>>
  BY CommitKeeps DEF Inv
<1>2. ~Journaled(p) /\ QuietOK(p)
  BY <1>1 DEF Committing, AdmitApproval, AdmitVerification, Deny, Cancel, BundleOK, ControlOK
<1>3. ASSUME NEW k \in Kinds, NEW rollback, Commit(p, k, rollback)
      PROVE  Journaled(p)' /\ journal'[p].kind = k
  BY <1>3 DEF Commit, TypeOK, Journaled, NoJournal, Kinds
<1>4. Decided(p) = Phase(p)
  BY <1>2, DecidedOf
<1>5. CASE AdmitApproval(p)
  <2>1. Commit(p, "approve", FALSE) /\ "approve" \in Kinds /\ Phase(p) = "pending-approval"
    BY <1>2, <1>5 DEF AdmitApproval, QuietOK, Kinds
  <2>2. Journaled(p)' /\ journal'[p].kind = "approve"
    BY <1>3, <2>1
  <2>3. Decided(p)' = "pending-verification-approval"
    BY <2>2 DEF Decided, Journaled, Phases
  <2> QED BY <1>1, <1>4, <2>1, <2>3 DEF Moves, LifePhase, Life!Next
<1>6. CASE AdmitVerification(p)
  <2>1. Commit(p, "verify", FALSE) /\ "verify" \in Kinds
        /\ Phase(p) = "pending-verification-approval"
    BY <1>2, <1>6 DEF AdmitVerification, QuietOK, Kinds
  <2>2. Journaled(p)' /\ journal'[p].kind = "verify"
    BY <1>3, <2>1
  <2>3. Decided(p)' = "verification-started"
    BY <2>2 DEF Decided, Journaled, Phases
  <2> QED BY <1>1, <1>4, <2>1, <2>3 DEF Moves, LifePhase, Life!Next
<1>7. CASE Deny(p) \/ Cancel(p)
  <2>1. PICK k \in {"deny", "cancel"},
             rollback \in {HasAppliedSource(p), HasAppliedSource(p) /\ source[p] = "after"} :
               Commit(p, k, rollback)
    BY <1>7 DEF Deny, Cancel, PrepareTerminal
  <2>2. Phase(p) \in {"pending-approval", "pending-verification-approval", "verification-started",
                      "verified"}
    BY <1>7 DEF Deny, Cancel, CancellablePhases
  <2>3. Journaled(p)' /\ journal'[p].kind = k /\ k \in Kinds
    BY <1>3, <2>1 DEF Kinds
  <2>4. Decided(p)' = "cancelled"
    BY <2>1, <2>3 DEF Decided, Journaled, Phases
  <2> QED BY <1>1, <1>4, <2>2, <2>4 DEF Moves, LifePhase, Life!Next
<1> QED BY <1>5, <1>6, <1>7 DEF Committing

LEMMA RemoveMoves ==
  ASSUME TypeOK, Inv, NEW p \in Projects, RemoveJournal(p)
  PROVE  Moves(p)
<1>1. BundleOK(p) /\ Executing(p) /\ Step(p).do = "remove"
      /\ UNCHANGED <<ledger, snapshots, pointer, current, ran>>
      /\ journal'[p] = NoJournal
  BY DEF Inv, RemoveJournal, At, files, TypeOK
<1>2. Journaled(p) /\ current[p] = Completed(journal[p])
  BY <1>1, Ready
<1>3. PendingOK(p) /\ journal[p].kind \in Kinds /\ Added(journal[p].kind) \in Nat
      /\ Added(journal[p].kind) \in {1, 2} /\ journal[p].revision \in Nat
      /\ LastRevision(journal[p]) = journal[p].revision + Added(journal[p].kind)
      /\ Len(Phases(journal[p].kind)) = Added(journal[p].kind)
      /\ Len(snapshots[p]) \in Nat
  BY <1>1, <1>2, JournalFacts
<1>4. pointer[p] = LastRevision(journal[p])
  BY <1>2, <1>3 DEF PendingOK
<1>5. Phase(p) = Phases(journal[p].kind)[Added(journal[p].kind)]
  <2>1. Added(journal[p].kind) \in 1..Added(journal[p].kind)
    BY <1>3
  <2>2. LastRevision(journal[p]) <= Len(snapshots[p])
    BY <1>3, <1>4 DEF PendingOK
  <2> QED BY <1>3, <1>4, <2>1, <2>2 DEF PendingOK, Phase
<1>6. Decided(p)' = Phase(p) /\ Decided(p) = Phase(p)
  BY <1>1, <1>2, <1>3, <1>5 DEF Decided, Journaled, Phase
<1> QED BY <1>1, <1>6 DEF Moves

LEMMA StepMoves ==
  ASSUME TypeOK, Inv, NEW p \in Projects, ProjectStep(p)
  PROVE  Moves(p)
<1>0. BundleOK(p)
  BY DEF Inv
<1>1. CASE Minor(p)
  BY <1>1, MinorKeeps, DecidedKept DEF Moves
<1>2. CASE Bundling(p) /\ Executing(p) /\ Advance(p)
  <2>1. Journaled(p)
    BY <1>0, <1>2, Ready
  <2> QED BY <1>2, <2>1, DecidedKept DEF Moves, Advance
<1>3. CASE RunCommand(p) /\ ~Abort(p)
  <2>1. /\ stage[p] = "command" /\ ran' = [ran EXCEPT ![p] = @ + 1]
        /\ UNCHANGED <<journal, snapshots, pointer>>
    BY <1>3 DEF RunCommand, files
  <2>2. ~Journaled(p) /\ ran[p] = 0 /\ Phase(p) = "verification-started"
    BY <1>0, <2>1 DEF BundleOK, ControlOK, QuietOK
  <2>3. ran' = [ran EXCEPT ![p] = 1]
    BY <2>1, <2>2
  <2> QED BY <2>1, <2>2, <2>3, DecidedKept, DecidedOf DEF Moves
<1>4. ASSUME NEW f \in Outcomes, Record(p, f)
      PROVE  Moves(p)
  <2>1. /\ Recordable(p, f) /\ UNCHANGED <<journal, ran>>
        /\ snapshots' = [snapshots EXCEPT ![p] = Append(@, f)]
        /\ pointer' = [pointer EXCEPT ![p] = @ + 1]
    BY <1>4 DEF Record
  <2>2. ~Journaled(p) /\ QuietOK(p) /\ ran[p] = 1 /\ Phase(p) = "verification-started"
    BY <1>0, <2>1 DEF BundleOK, ControlOK, QuietOK, Recordable, Awaited
  <2>3. f \in PhaseNames /\ pointer[p] \in Nat /\ pointer[p] = Len(snapshots[p])
    BY <2>2 DEF PhaseNames, Outcomes, QuietOK, TypeOK
  <2>4. snapshots'[p][pointer[p] + 1] = f /\ pointer'[p] = pointer[p] + 1
    BY <2>1, <2>3, SnapshotAppend DEF TypeOK
  <2>5. Decided(p) = "verification-started" /\ Decided(p)' = f
    BY <2>1, <2>2, <2>4 DEF Decided, Journaled, Phase
  <2> QED BY <2>1, <2>2, <2>5 DEF Moves, LifePhase, Outcomes, Life!Next
<1> QED BY <1>1, <1>2, <1>3, <1>4, Steps, CommitMoves, RemoveMoves

LEMMA LifeStep ==
  ASSUME TypeOK, Inv, [Next]_vars
  PROVE  [Life!LifeNext]_<<[p \in Projects |-> LifePhase(Decided(p))], ran>>
<1> DEFINE phase == [p \in Projects |-> LifePhase(Decided(p))]
<1>1. CASE UNCHANGED vars
  <2>1. \A p \in Projects : Decided(p)' = Decided(p)
    BY <1>1, DecidedKept DEF vars, files
  <2> QED BY <1>1, <2>1 DEF vars, LifePhase
<1>2. CASE Next
  <2>1. PICK p \in Projects : ProjectStep(p)
    BY <1>2 DEF Next, ProjectStep
  <2>2. \A q \in Projects \ {p} : LifePhase(Decided(q))' = LifePhase(Decided(q))
    BY <2>1, Others, DecidedKept DEF Kept, LifePhase
  <2>3. Moves(p)
    BY <2>1, StepMoves
  <2>4. phase' = [phase EXCEPT ![p] = LifePhase(Decided(p))']
    BY <2>2
  <2>5. phase[p] = LifePhase(Decided(p))
    OBVIOUS
  <2>6. CASE Decided(p)' = Decided(p) /\ ran' = ran
    BY <2>2, <2>6 DEF LifePhase
  <2>7. CASE /\ LifePhase(Decided(p))' \in Life!Next(LifePhase(Decided(p))) /\ ran' = ran
             /\ LifePhase(Decided(p))' \in {"verified", "failed"} => ran[p] = 1
    BY <2>4, <2>5, <2>7 DEF Life!LifeNext, Life!Decide
  <2>8. CASE /\ Decided(p)' = Decided(p) /\ Decided(p) = "verification-started" /\ ran[p] = 0
             /\ ran' = [ran EXCEPT ![p] = 1]
    <3>1. phase' = phase
      BY <2>2, <2>8 DEF LifePhase
    <3> QED BY <2>5, <2>8, <3>1 DEF LifePhase, Life!LifeNext, Life!RunCommand
  <2> QED BY <2>3, <2>6, <2>7, <2>8 DEF Moves
<1> QED BY <1>1, <1>2

(* Approval implements WorkflowLife: the commit of a journal is the decision, and no
   installation, recovery, stop or refusal makes a second one. *)
THEOREM LifeFollowed == Spec => LifeSpec
<1>1. Init => Life!LifeInit
  <2> HAVE Init
  <2>1. \A p \in Projects : Decided(p) = "pending-approval"
    BY DEF Init, Decided, Journaled, Phase
  <2> QED BY <2>1 DEF Init, LifePhase, Life!LifeInit
<1>2. TypeOK /\ Inv /\ [Next]_vars => [Life!LifeNext]_<<[p \in Projects |-> LifePhase(Decided(p))], ran>>
  BY LifeStep
<1> QED BY <1>1, <1>2, BundlesKept, PTL DEF Spec, LifeSpec, Life!LifeSpec
=============================================================================
