-------------------------- MODULE Transition_proofs --------------------------
(***************************************************************************)
(* For every number of processes, projects, events and kills, whatever the *)
(* operations and the damage: the current state never runs ahead of the    *)
(* ledger, since the ledger only grows, a process behind the append has    *)
(* its event installed, and the current state is replaced only there; a    *)
(* damaged state is replaced only when a backup holds it; and every number *)
(* is bounded by the events issued so far, with room for those of the      *)
(* operations under way.  Then what the steps of a transition amount to,   *)
(* whoever takes them.  They are one step of AtomicState, since what is    *)
(* installed was prepared on the state that it replaces and stays in the   *)
(* journal until then; compactions form one chain for the same reason;     *)
(* snapshot, checkpoint event and pointer tell the same story whenever a   *)
(* project has been recovered; and a journal can always be finished unless *)
(* its backup is torn, its current state is gone, or it was overtaken.     *)
(***************************************************************************)
EXTENDS Transition, TLAPS, FiniteSetTheorems

IsSequence(s) == \E S : s \in Seq(S)

(* Every position of s is unchanged in t. *)
Grows(s, t) == Len(s) <= Len(t) /\ \A i \in 1 .. Len(s) : t[i] = s[i]

Counted(image) == image.count \in Nat \ {0}

Bundled == {"temp", "rename", "artifacts", "append", "pointer", "current"}

(* A process that is not idle works for a project. *)
Tasked(t) == "project" \in DOMAIN t /\ t.project \in Project

Domains ==
    /\ DOMAIN pc = Proc /\ DOMAIN bundle = Proc /\ DOMAIN task = Proc
    /\ DOMAIN journal = Project /\ DOMAIN current = Project
    /\ \A p \in Proc : pc[p] # "idle" => Tasked(task[p])

Shapes ==
    /\ IsSequence(ledger)
    /\ \A pr \in Project : IsImage(current[pr]) => Counted(current[pr])
    /\ \A pr \in Project : journal[pr] # NoBundle => Counted(journal[pr].image)
    /\ \A p \in Proc : pc[p] \in Bundled => Counted(bundle[p].image)

(* What is behind its append has been appended. *)
Appended == \A p \in Proc : pc[p] \in {"pointer", "current"} => Installed(bundle[p])

IInv == Domains /\ Shapes /\ Appended /\ CurrentInstalled

-----------------------------------------------------------------------------
(* Appending to a sequence keeps what it had and adds one position. *)
LEMMA AppendGrows ==
    ASSUME NEW s, NEW e, IsSequence(s)
    PROVE  /\ IsSequence(Append(s, e)) /\ Grows(s, Append(s, e))
           /\ Len(s) \in Nat /\ Len(Append(s, e)) = Len(s) + 1
           /\ Append(s, e)[Len(s) + 1] = e
<1>1. PICK S : s \in Seq(S)
    BY DEF IsSequence
<1>2. s \in Seq(S \cup {e}) /\ Append(s, e) \in Seq(S \cup {e})
    BY <1>1
<1> QED
    BY <1>1, <1>2 DEF IsSequence, Grows

(* An event that is installed stays so while the ledger grows. *)
LEMMA InstalledStays ==
    ASSUME NEW b, Counted(b.image), IsSequence(ledger), IsSequence(ledger'),
           Grows(ledger, ledger'), Installed(b)
    PROVE  b.image.count <= Len(ledger') /\ ledger'[b.image.count] = b.image.event
<1>1. PICK S : ledger \in Seq(S)
    BY DEF IsSequence
<1>2. PICK T : ledger' \in Seq(T)
    BY DEF IsSequence
<1> QED
    BY <1>1, <1>2 DEF Counted, Grows, Installed

(* The same of the event an image is bound to. *)
LEMMA AncestorStays ==
    ASSUME NEW s, IsImage(s) => Counted(s), IsSequence(ledger), IsSequence(ledger'),
           Grows(ledger, ledger'), Ancestor(s)
    PROVE  IsImage(s) => s.count <= Len(ledger') /\ ledger'[s.count] = s.event
<1>1. PICK S : ledger \in Seq(S)
    BY DEF IsSequence
<1>2. PICK T : ledger' \in Seq(T)
    BY DEF IsSequence
<1> QED
    BY <1>1, <1>2 DEF Counted, Grows, Ancestor

(* The order of the steps: the append is followed by the pointer, and the  *)
(* pointer by the current image.                                           *)
LEMMA Order ==
    ASSUME NEW p, NEW step \in {"artifacts", "append", "pointer", "current", "converge", "remove"},
           Advance(p, step)
    PROVE  /\ pc[p] = step
           /\ step = "artifacts" => pc' = [pc EXCEPT ![p] = "append"]
           /\ step = "append" => pc' = [pc EXCEPT ![p] = "pointer"]
           /\ step = "pointer" => pc' = [pc EXCEPT ![p] = "current"]
           /\ step = "current" => pc' = [pc EXCEPT ![p] = "converge"]
           /\ step = "converge" => pc' = [pc EXCEPT ![p] = "remove"]
           /\ step = "remove" => pc' = [pc EXCEPT ![p] = "done"]
<1> DEFINE k == CHOOSE i \in 1 .. Len(Steps) : Steps[i] = step
<1>1. k \in 1 .. 7 /\ Steps[k] = step
    BY DEF Steps
<1>2. Goto(p, step, Steps[k + 1])
    BY DEF Advance
<1>3. /\ step = "artifacts" => k = 1
      /\ step = "append" => k = 2
      /\ step = "pointer" => k = 3
      /\ step = "current" => k = 4
      /\ step = "converge" => k = 5
      /\ step = "remove" => k = 6
    BY <1>1 DEF Steps
<1>4. /\ step = "artifacts" => Steps[k + 1] = "append"
      /\ step = "append" => Steps[k + 1] = "pointer"
      /\ step = "pointer" => Steps[k + 1] = "current"
      /\ step = "current" => Steps[k + 1] = "converge"
      /\ step = "converge" => Steps[k + 1] = "remove"
      /\ step = "remove" => Steps[k + 1] = "done"
    BY <1>3 DEF Steps
<1>5. pc[p] = step /\ pc' = [pc EXCEPT ![p] = Steps[k + 1]]
    BY <1>2 DEF Goto
<1> HIDE DEF k
<1> QED
    BY <1>4, <1>5

-----------------------------------------------------------------------------
(* The invariant holds initially. *)
LEMMA InitInvariant == Init => IInv
<1> SUFFICES ASSUME Init PROVE IInv
    OBVIOUS
<1>1. IsSequence(ledger)
  <2>1. ledger \in Seq({})
    BY DEF Init
  <2> QED
    BY <2>1 DEF IsSequence
<1>2. Domains
    BY DEF Init, Domains
<1>3. \A pr \in Project : ~IsImage(current[pr]) /\ journal[pr] = NoBundle
    BY DEF Init, IsImage
<1>4. \A p \in Proc : pc[p] = "idle"
    BY DEF Init
<1> QED
    BY <1>1, <1>2, <1>3, <1>4
    DEF IInv, Shapes, Appended, CurrentInstalled, Ancestor, Bundled

(* A step that replaces neither the ledger nor a current state, that only  *)
(* removes journals and brings no process behind the append, keeps it.     *)
LEMMA Frame ==
    ASSUME IInv, ledger' = ledger, current' = current,
           DOMAIN pc' = Proc, DOMAIN bundle' = Proc, DOMAIN task' = Proc,
           DOMAIN journal' = Project,
           \A pr \in Project : journal'[pr] \in {journal[pr], NoBundle},
           \A q \in Proc : pc'[q] # "idle" => Tasked(task'[q]),
           \A q \in Proc : pc'[q] \in Bundled => pc[q] \in Bundled /\ bundle'[q] = bundle[q],
           \A q \in Proc : pc'[q] \in {"pointer", "current"} => pc[q] \in {"pointer", "current"}
    PROVE  IInv'
<1>1. Domains'
    BY DEF IInv, Domains, Tasked
<1>2. IsSequence(ledger)' /\ (\A pr \in Project : IsImage(current[pr]) => Counted(current[pr]))'
    BY DEF IInv, Shapes, IsImage, Counted, IsSequence
<1>3. (\A pr \in Project : journal[pr] # NoBundle => Counted(journal[pr].image))'
    BY DEF IInv, Shapes, Counted
<1>4. (\A p \in Proc : pc[p] \in Bundled => Counted(bundle[p].image))'
    BY DEF IInv, Shapes, Counted, Bundled
<1>5. Appended'
    BY DEF IInv, Appended, Installed, Bundled
<1>6. CurrentInstalled'
    BY DEF IInv, CurrentInstalled, Ancestor, IsImage
<1> QED
    BY <1>1, <1>2, <1>3, <1>4, <1>5, <1>6 DEF IInv, Shapes

(* Growing the ledger disturbs nothing that was installed. *)
LEMMA Growth ==
    ASSUME IInv, IsSequence(ledger'), Grows(ledger, ledger')
    PROVE  /\ \A pr \in Project :
                 IsImage(current[pr]) =>
                     /\ current[pr].count <= Len(ledger')
                     /\ ledger'[current[pr].count] = current[pr].event
           /\ \A q \in Proc :
                 pc[q] \in {"pointer", "current"} =>
                     /\ bundle[q].image.count <= Len(ledger')
                     /\ ledger'[bundle[q].image.count] = bundle[q].image.event
<1>1. IsSequence(ledger)
    BY DEF IInv, Shapes
<1>2. ASSUME NEW pr \in Project
      PROVE  IsImage(current[pr]) =>
                 /\ current[pr].count <= Len(ledger')
                 /\ ledger'[current[pr].count] = current[pr].event
  <2>1. (IsImage(current[pr]) => Counted(current[pr])) /\ Ancestor(current[pr])
    BY DEF IInv, Shapes, CurrentInstalled
  <2> QED
    BY <1>1, <2>1, AncestorStays
<1>3. ASSUME NEW q \in Proc, pc[q] \in {"pointer", "current"}
      PROVE  /\ bundle[q].image.count <= Len(ledger')
             /\ ledger'[bundle[q].image.count] = bundle[q].image.event
  <2>1. Counted(bundle[q].image) /\ Installed(bundle[q])
    BY <1>3 DEF IInv, Shapes, Appended, Bundled
  <2> QED
    BY <1>1, <2>1, InstalledStays
<1> QED
    BY <1>2, <1>3

-----------------------------------------------------------------------------
(* One lemma per action, or per group of actions that the frame covers.    *)

USE DEF diskVars, leaseVars, procVars

LEMMA LeavePreserves ==
    ASSUME IInv, NEW p \in Proc, Leave(p), UNCHANGED <<ledger, current, journal>>
    PROVE  IInv'
    BY Frame DEF Leave, IInv, Domains, Bundled

LEMMA BeginPreserves ==
    ASSUME IInv, NEW p \in Proc, NEW pr \in Project, NEW kind, Begin(p, pr, kind)
    PROVE  IInv'
<1>1. UNCHANGED <<ledger, current, journal, bundle>>
    BY DEF Begin
<1>2. pc' \in {[pc EXCEPT ![p] = "observing"], [pc EXCEPT ![p] = "waiting"]}
    BY DEF Begin
<1>3. DOMAIN task' = Proc /\ Tasked(task'[p])
      /\ \A q \in Proc \ {p} : task'[q] = task[q]
    BY DEF Begin, IInv, Domains, Tasked
<1> QED
    BY <1>1, <1>2, <1>3, Frame DEF IInv, Domains, Bundled

LEMMA ObservePreserves ==
    ASSUME IInv, NEW p \in Proc, Observe(p)
    PROVE  IInv'
<1>1. DOMAIN task' = Proc /\ Tasked(task'[p])
      /\ \A q \in Proc \ {p} : task'[q] = task[q]
    BY DEF Observe, Goto, IInv, Domains, Tasked
<1> QED
    BY <1>1, Frame DEF Observe, Goto, IInv, Domains, Bundled

LEMMA EnterPreserves ==
    ASSUME IInv, NEW p \in Proc, Enter(p) \/ Recovered(p)
    PROVE  IInv'
    BY Frame DEF Enter, Recovered, Goto, IInv, Domains, Bundled

LEMMA DropTempPreserves ==
    ASSUME IInv, NEW p \in Proc, DropTemp(p)
    PROVE  IInv'
    BY Frame DEF DropTemp, IInv, Domains, Bundled

LEMMA WriteTempPreserves ==
    ASSUME IInv, NEW p \in Proc, WriteTemp(p)
    PROVE  IInv'
    BY Frame DEF WriteTemp, Goto, IInv, Domains, Bundled

LEMMA InstallArtifactsPreserves ==
    ASSUME IInv, NEW p \in Proc, InstallArtifacts(p)
    PROVE  IInv'
<1>1. pc[p] = "artifacts" /\ pc' = [pc EXCEPT ![p] = "append"]
    BY Order DEF InstallArtifacts
<1> QED
    BY <1>1, Frame DEF InstallArtifacts, IInv, Domains, Bundled

LEMMA InstallPointerPreserves ==
    ASSUME IInv, NEW p \in Proc, InstallPointer(p)
    PROVE  IInv'
<1>1. pc[p] = "pointer" /\ pc' = [pc EXCEPT ![p] = "current"]
    BY Order DEF InstallPointer
<1> QED
    BY <1>1, Frame DEF InstallPointer, IInv, Domains, Bundled

LEMMA ConvergePreserves ==
    ASSUME IInv, NEW p \in Proc, Converge(p)
    PROVE  IInv'
<1>1. pc[p] = "converge" /\ pc' = [pc EXCEPT ![p] = "remove"]
    BY Order DEF Converge
<1> QED
    BY <1>1, Frame DEF Converge, IInv, Domains, Bundled

LEMMA RemoveJournalPreserves ==
    ASSUME IInv, NEW p \in Proc, RemoveJournal(p)
    PROVE  IInv'
<1>1. pc[p] = "remove" /\ pc' = [pc EXCEPT ![p] = "done"]
    BY Order DEF RemoveJournal
<1> QED
    BY <1>1, Frame DEF RemoveJournal, IInv, Domains, Bundled

LEMMA FinishPreserves ==
    ASSUME IInv, NEW p \in Proc, Finish(p)
    PROVE  IInv'
<1>1. CASE Leave(p)
    BY <1>1, LeavePreserves DEF Finish
<1>2. CASE ~Leave(p)
  <2>1. /\ pc' = [pc EXCEPT ![p] = "recovering"] /\ pc[p] = "done"
        /\ bundle' = [bundle EXCEPT ![p] = NoBundle]
        /\ UNCHANGED <<ledger, current, journal, task>>
    BY <1>2 DEF Finish, Goto
  <2> QED
    BY <2>1, Frame DEF IInv, Domains, Bundled
<1> QED
    BY <1>1, <1>2

LEMMA ReturnPreserves ==
    ASSUME IInv, NEW p \in Proc, Return(p) \/ Kill(p)
    PROVE  IInv'
    BY LeavePreserves DEF Return, Kill

LEMMA TakeJournalPreserves ==
    ASSUME IInv, NEW p \in Proc, TakeJournal(p)
    PROVE  IInv'
<1>1. Of(p) \in Project /\ journal[Of(p)] # NoBundle
    BY DEF TakeJournal, Goto, IInv, Domains, Tasked, Of
<1>2. Counted(journal[Of(p)].image)
    BY <1>1 DEF IInv, Shapes
<1>3. /\ pc' = [pc EXCEPT ![p] = "artifacts"] /\ pc[p] = "recovering"
      /\ bundle' = [bundle EXCEPT ![p] = journal[Of(p)]]
      /\ UNCHANGED <<ledger, current, journal, task>>
    BY DEF TakeJournal, Goto, Steps
<1>4. Domains'
    BY <1>3 DEF IInv, Domains, Tasked
<1>5. Shapes'
    BY <1>2, <1>3 DEF IInv, Domains, Shapes, Counted, IsSequence, IsImage, Bundled
<1>6. Appended'
    BY <1>3 DEF IInv, Domains, Appended, Installed
<1>7. CurrentInstalled'
    BY <1>3 DEF IInv, CurrentInstalled, Ancestor, IsImage
<1> QED
    BY <1>4, <1>5, <1>6, <1>7 DEF IInv

LEMMA PreparePreserves ==
    ASSUME IInv, NEW p \in Proc, Prepare(p)
    PROVE  IInv'
<1>1. PICK b : /\ bundle' = [bundle EXCEPT ![p] = b]
               /\ b.image.count = Len(ledger) + 1
  <2>1. PICK t \in Targets(p) :
            bundle' = [bundle EXCEPT ![p] =
                [image |-> Image(Replaced(p), t), over |-> Replaced(p), after |-> LastId]]
    BY DEF Prepare
  <2> DEFINE made == [image |-> Image(Replaced(p), t), over |-> Replaced(p), after |-> LastId]
  <2>2. made.image.count = Len(ledger) + 1
    BY DEF Image
  <2> QED
    BY <2>1, <2>2
<1>2. Counted(b.image)
  <2>1. PICK S : ledger \in Seq(S)
    BY DEF IInv, Shapes, IsSequence
  <2> QED
    BY <1>1, <2>1 DEF Counted
<1>3. /\ pc' = [pc EXCEPT ![p] = "temp"] /\ pc[p] = "ready"
      /\ task' = [task EXCEPT ![p].own = Fresh]
      /\ UNCHANGED <<ledger, current, journal>>
    BY DEF Prepare, Goto
<1>4. Domains'
    BY <1>1, <1>3 DEF IInv, Domains, Tasked
<1>5. Shapes'
    BY <1>1, <1>2, <1>3 DEF IInv, Domains, Shapes, Counted, IsSequence, IsImage, Bundled
<1>6. Appended'
    BY <1>1, <1>3 DEF IInv, Domains, Appended, Installed
<1>7. CurrentInstalled'
    BY <1>3 DEF IInv, CurrentInstalled, Ancestor, IsImage
<1> QED
    BY <1>4, <1>5, <1>6, <1>7 DEF IInv

LEMMA CommitJournalPreserves ==
    ASSUME IInv, NEW p \in Proc, CommitJournal(p)
    PROVE  IInv'
<1>1. /\ pc' = [pc EXCEPT ![p] = "artifacts"] /\ pc[p] = "rename"
      /\ journal' = [journal EXCEPT ![Of(p)] = bundle[p]]
      /\ UNCHANGED <<ledger, current, task, bundle>>
    BY DEF CommitJournal, Goto, Steps
<1>2. Counted(bundle[p].image)
    BY <1>1 DEF IInv, Shapes, Bundled
<1>3. Domains'
    BY <1>1 DEF IInv, Domains, Tasked
<1>4. Shapes'
    BY <1>1, <1>2 DEF IInv, Domains, Shapes, Counted, IsSequence, IsImage, Bundled
<1>5. Appended'
    BY <1>1 DEF IInv, Domains, Appended, Installed
<1>6. CurrentInstalled'
    BY <1>1 DEF IInv, CurrentInstalled, Ancestor, IsImage
<1> QED
    BY <1>3, <1>4, <1>5, <1>6 DEF IInv

(* The append: the event is where it was planned, now or before. *)
LEMMA AppendPlannedPreserves ==
    ASSUME IInv, NEW p \in Proc, AppendPlanned(p)
    PROVE  IInv'
<1>1. /\ pc' = [pc EXCEPT ![p] = "pointer"] /\ pc[p] = "append"
      /\ UNCHANGED <<current, journal, task, bundle>>
    BY Order DEF AppendPlanned
<1>2. IsSequence(ledger) /\ Counted(bundle[p].image)
    BY <1>1 DEF IInv, Shapes, Bundled
<1>3. /\ IsSequence(ledger') /\ Grows(ledger, ledger')
      /\ bundle[p].image.count <= Len(ledger')
      /\ ledger'[bundle[p].image.count] = bundle[p].image.event
  <2>1. CASE Installed(bundle[p])
    <3>1. ledger' = ledger
        BY <2>1 DEF AppendPlanned
    <3>2. PICK S : ledger \in Seq(S)
        BY <1>2 DEF IsSequence
    <3> QED
        BY <1>2, <2>1, <3>1, <3>2 DEF Installed, Grows, IsSequence
  <2>2. CASE ~Installed(bundle[p])
    <3>1. /\ ledger' = Append(ledger, bundle[p].image.event)
          /\ bundle[p].image.count = Len(ledger) + 1
        BY <2>2 DEF AppendPlanned, AppendFits
    <3> QED
        BY <1>2, <3>1, AppendGrows
  <2> QED
    BY <2>1, <2>2
<1>4. Domains'
    BY <1>1 DEF IInv, Domains, Tasked
<1>5. Shapes'
    BY <1>1, <1>2, <1>3 DEF IInv, Domains, Shapes, Counted, IsImage, Bundled, IsSequence
<1>6. Appended'
    BY <1>1, <1>3, Growth DEF IInv, Domains, Appended, Installed
<1>7. CurrentInstalled'
    BY <1>1, <1>3, Growth DEF CurrentInstalled, Ancestor, IsImage
<1> QED
    BY <1>4, <1>5, <1>6, <1>7 DEF IInv

(* The current image is installed behind the append. *)
LEMMA InstallCurrentPreserves ==
    ASSUME IInv, NEW p \in Proc, InstallCurrent(p)
    PROVE  IInv'
<1>1. /\ pc' = [pc EXCEPT ![p] = "converge"] /\ pc[p] = "current"
      /\ current' = [current EXCEPT ![Of(p)] = bundle[p].image]
      /\ UNCHANGED <<ledger, journal, task, bundle>>
    BY Order DEF InstallCurrent
<1>2. Counted(bundle[p].image) /\ Installed(bundle[p])
    BY <1>1 DEF IInv, Shapes, Appended, Bundled
<1>3. Domains'
    BY <1>1 DEF IInv, Domains, Tasked
<1>4. Shapes'
    BY <1>1, <1>2 DEF IInv, Domains, Shapes, Counted, IsImage, Bundled, IsSequence
<1>5. Appended'
    BY <1>1 DEF IInv, Domains, Appended, Installed
<1>6. CurrentInstalled'
    BY <1>1, <1>2 DEF IInv, Domains, CurrentInstalled, Ancestor, IsImage, Installed
<1> QED
    BY <1>3, <1>4, <1>5, <1>6 DEF IInv

(* An event that is appended under the writer lease alone. *)
LEMMA AppendEventPreserves ==
    ASSUME IInv, NEW p \in Proc, NEW pr \in Project, AppendEvent(p, pr)
    PROVE  IInv'
<1>1. ledger' = Append(ledger, Fresh) /\ UNCHANGED <<current, journal, pc, task, bundle>>
    BY DEF AppendEvent
<1>2. IsSequence(ledger') /\ Grows(ledger, ledger')
    BY <1>1, AppendGrows DEF IInv, Shapes
<1>3. Domains'
    BY <1>1 DEF IInv, Domains, Tasked
<1>4. Shapes'
    BY <1>1, <1>2 DEF IInv, Shapes, Counted, IsImage, Bundled, IsSequence
<1>5. Appended' /\ CurrentInstalled'
    BY <1>1, <1>2, Growth DEF Appended, Installed, CurrentInstalled, Ancestor, IsImage
<1> QED
    BY <1>3, <1>4, <1>5 DEF IInv

LEMMA LosePreserves ==
    ASSUME IInv, NEW pr \in Project, Lose(pr)
    PROVE  IInv'
<1>1. PICK s \in {Absent, Damaged} : current' = [current EXCEPT ![pr] = s]
    BY DEF Lose
<1>2. UNCHANGED <<ledger, journal, pc, task, bundle>>
    BY DEF Lose
<1>3. Domains'
    BY <1>1, <1>2 DEF IInv, Domains, Tasked
<1>4. Shapes'
    BY <1>1, <1>2 DEF IInv, Domains, Shapes, Counted, IsImage, Bundled, IsSequence
<1>5. Appended' /\ CurrentInstalled'
    BY <1>1, <1>2 DEF IInv, Domains, Appended, Installed, CurrentInstalled, Ancestor, IsImage
<1> QED
    BY <1>3, <1>4, <1>5 DEF IInv

-----------------------------------------------------------------------------
(* A step that changes nothing is one the frame covers. *)
LEMMA NextInvariant == IInv /\ [Next]_vars => IInv'
<1> SUFFICES ASSUME IInv, [Next]_vars PROVE IInv'
    OBVIOUS
<1>1. CASE \E p \in Proc : Step(p) \/ Kill(p)
  <2>1. PICK p \in Proc : Step(p) \/ Kill(p)
    BY <1>1
  <2> QED
    BY <2>1, ObservePreserves, EnterPreserves, TakeJournalPreserves, DropTempPreserves,
       PreparePreserves, WriteTempPreserves, CommitJournalPreserves,
       InstallArtifactsPreserves, AppendPlannedPreserves, InstallPointerPreserves,
       InstallCurrentPreserves, ConvergePreserves, RemoveJournalPreserves,
       FinishPreserves, ReturnPreserves
    DEF Step
<1>2. CASE \E p \in Proc, pr \in Project : AppendEvent(p, pr)
    BY <1>2, AppendEventPreserves
<1>3. CASE \E p \in Proc, pr \in Project, kind \in Operation : Begin(p, pr, kind)
    BY <1>3, BeginPreserves
<1>4. CASE \E pr \in Project : Lose(pr)
    BY <1>4, LosePreserves
<1>5. CASE UNCHANGED vars
    BY <1>5, Frame DEF vars, IInv, Domains, Bundled
<1> QED
    BY <1>1, <1>2, <1>3, <1>4, <1>5 DEF Next

(* The current state of a project never names an event the ledger does not *)
(* hold at that place, through any stop, recovery, damage and append of    *)
(* the processes of any project.                                           *)
THEOREM NeverAhead == Spec => []CurrentInstalled
<1>1. IInv => CurrentInstalled
    BY DEF IInv
<1> QED
    BY <1>1, InitInvariant, NextInvariant, PTL DEF Spec

-----------------------------------------------------------------------------
(* The backup of a damaged current state comes before its replacement.     *)

Behind == {"append", "pointer", "current"}

(* Whoever is behind the artifacts has the backup it needs in place. *)
Backed ==
    /\ DOMAIN backup = Project
    /\ \A p \in Proc :
          pc[p] \in Behind /\ bundle[p].over = Damaged =>
              Backup(bundle[p], "whole") \in backup[Of(p)]

(* Backups are only added, and a process that keeps its bundle and its     *)
(* project stays backed.                                                   *)
LEMMA BackedFrame ==
    ASSUME IInv, Backed, DOMAIN backup' = Project,
           \A pr \in Project : backup[pr] \subseteq backup'[pr],
           \A q \in Proc : pc'[q] \in Behind =>
               pc[q] \in Behind /\ bundle'[q] = bundle[q] /\ task'[q] = task[q]
    PROVE  Backed'
<1>1. ASSUME NEW q \in Proc, pc'[q] \in Behind, bundle'[q].over = Damaged
      PROVE  Backup(bundle'[q], "whole") \in backup'[Of(q)']
  <2>1. Of(q)' = Of(q) /\ Of(q) \in Project
    BY <1>1 DEF Of, IInv, Domains, Tasked, Behind
  <2>2. Backup(bundle[q], "whole") \in backup[Of(q)] /\ bundle'[q] = bundle[q]
    BY <1>1 DEF Backed
  <2> QED
    BY <2>1, <2>2
<1> QED
    BY <1>1 DEF Backed, Backup

LEMMA BackedInstall ==
    ASSUME IInv, Backed, NEW p \in Proc, InstallArtifacts(p)
    PROVE  Backed'
<1>1. pc[p] = "artifacts" /\ pc' = [pc EXCEPT ![p] = "append"] /\ UNCHANGED <<task, bundle>>
    BY Order DEF InstallArtifacts
<1>2. Of(p) \in Project
    BY <1>1 DEF IInv, Domains, Tasked, Of
<1>3. /\ DOMAIN backup' = Project
      /\ \A pr \in Project : backup[pr] \subseteq backup'[pr]
      /\ bundle[p].over = Damaged => Backup(bundle[p], "whole") \in backup'[Of(p)]
  <2>1. CASE bundle[p].over = Damaged
    <3>1. backup' = [backup EXCEPT ![Of(p)] = @ \cup {Backup(bundle[p], "whole")}]
        BY <2>1 DEF InstallArtifacts
    <3> HIDE DEF Backup
    <3> QED
        BY <1>2, <3>1 DEF Backed
  <2>2. CASE bundle[p].over # Damaged
    BY <2>2 DEF InstallArtifacts, Backed
  <2> QED
    BY <2>1, <2>2
<1>4. ASSUME NEW q \in Proc, pc'[q] \in Behind, bundle'[q].over = Damaged
      PROVE  Backup(bundle'[q], "whole") \in backup'[Of(q)']
  <2>1. Of(q)' = Of(q) /\ bundle'[q] = bundle[q]
    BY <1>1 DEF Of
  <2>2. CASE q = p
    BY <1>3, <1>4, <2>1, <2>2
  <2>3. CASE q # p
    <3>1. pc'[q] = pc[q] /\ Of(q) \in Project
        BY <1>1, <1>4, <2>3 DEF IInv, Domains, Tasked, Of, Behind
    <3>2. Backup(bundle[q], "whole") \in backup[Of(q)]
        BY <1>4, <2>1, <3>1 DEF Backed
    <3> QED
        BY <1>3, <2>1, <3>1, <3>2
  <2> QED
    BY <2>2, <2>3
<1> QED
    BY <1>3, <1>4 DEF Backed, Backup

LEMMA BackedNext == IInv /\ Backed /\ [Next]_vars => Backed'
<1> SUFFICES ASSUME IInv, Backed, [Next]_vars PROVE Backed'
    OBVIOUS
<1> USE DEF IInv, Domains, Behind
<1>1. ASSUME NEW p \in Proc, Leave(p), DOMAIN backup' = Project,
             \A pr \in Project : backup[pr] \subseteq backup'[pr]
      PROVE  Backed'
    BY <1>1, BackedFrame DEF Leave
<1>2. ASSUME NEW p \in Proc, Step(p) PROVE Backed'
  <2>1. CASE InstallArtifacts(p)
    BY <2>1, BackedInstall
  <2>2. CASE Observe(p) \/ Enter(p) \/ DropTemp(p) \/ Recovered(p) \/ Prepare(p) \/ WriteTemp(p)
    BY <2>2, BackedFrame
    DEF Backed, Observe, Enter, DropTemp, Recovered, Prepare, WriteTemp, Goto
  <2>3. CASE TakeJournal(p) \/ CommitJournal(p)
    BY <2>3, BackedFrame DEF Backed, TakeJournal, CommitJournal, Goto, Steps
  <2>4. CASE AppendPlanned(p)
    BY <2>4, Order, BackedFrame DEF Backed, AppendPlanned
  <2>5. CASE InstallPointer(p)
    BY <2>5, Order, BackedFrame DEF Backed, InstallPointer
  <2>6. CASE InstallCurrent(p)
    BY <2>6, Order, BackedFrame DEF Backed, InstallCurrent
  <2>7. CASE Converge(p)
    BY <2>7, Order, BackedFrame DEF Backed, Converge
  <2>8. CASE RemoveJournal(p)
    BY <2>8, Order, BackedFrame DEF Backed, RemoveJournal
  <2>9. CASE Finish(p) /\ ~Leave(p)
    BY <2>9, BackedFrame DEF Backed, Finish, Goto
  <2>10. CASE (Finish(p) \/ Return(p)) /\ Leave(p)
    BY <1>1, <2>10 DEF Backed, Finish, Return
  <2> QED
    BY <1>2, <2>1, <2>2, <2>3, <2>4, <2>5, <2>6, <2>7, <2>8, <2>9, <2>10 DEF Step, Return
<1>3. ASSUME NEW p \in Proc, Kill(p) PROVE Backed'
  <2>1. Leave(p) /\ DOMAIN backup' = Project
        /\ \A pr \in Project : backup[pr] \subseteq backup'[pr]
    BY <1>3 DEF Kill, Backed
  <2> QED
    BY <1>1, <2>1
<1>4. ASSUME NEW p \in Proc, NEW pr \in Project, AppendEvent(p, pr) PROVE Backed'
    BY <1>4, BackedFrame DEF Backed, AppendEvent
<1>5. ASSUME NEW p \in Proc, NEW pr \in Project, NEW kind, Begin(p, pr, kind) PROVE Backed'
  <2>1. pc' \in {[pc EXCEPT ![p] = "observing"], [pc EXCEPT ![p] = "waiting"]}
        /\ UNCHANGED <<backup, bundle>> /\ \A q \in Proc \ {p} : task'[q] = task[q]
    BY <1>5 DEF Begin
  <2> QED
    BY <2>1, BackedFrame DEF Backed
<1>6. ASSUME NEW pr \in Project, Lose(pr) PROVE Backed'
    BY <1>6, BackedFrame DEF Backed, Lose
<1>7. CASE UNCHANGED vars
    BY <1>7, BackedFrame DEF vars, Backed
<1> QED
    BY <1>2, <1>3, <1>4, <1>5, <1>6, <1>7 DEF Next

(* A damaged current state becomes an image only when that step is the     *)
(* installation of a bundle made to replace it.                            *)
LEMMA BackupStep ==
    ASSUME IInv, Backed, [Next]_vars, NEW pr \in Project,
           current[pr] = Damaged, IsImage(current'[pr])
    PROVE  [event |-> current'[pr].event, how |-> "whole"] \in backup[pr]
<1>1. current'[pr] # current[pr]
    BY SMTT(30) DEF IsImage
<1>2. PICK p \in Proc : InstallCurrent(p)
    BY <1>1, ZenonT(30) DEF Next, Step, Kill, Begin, AppendEvent, Lose, IsImage, vars, IInv, Domains,
       Observe, Enter, TakeJournal, DropTemp, Recovered, Prepare, WriteTemp, CommitJournal,
       InstallArtifacts, AppendPlanned, InstallPointer, Converge, RemoveJournal, Finish, Return
<1>3. /\ pc[p] = "current" /\ CurrentFits(bundle[p], Of(p))
      /\ current' = [current EXCEPT ![Of(p)] = bundle[p].image]
    BY <1>2, Order DEF InstallCurrent
<1>4. Of(p) = pr /\ current'[pr] = bundle[p].image
    BY <1>1, <1>3 DEF IInv, Domains
<1>5. bundle[p].over = Damaged
    BY <1>3, <1>4 DEF CurrentFits, IsImage
<1> QED
    BY <1>3, <1>4, <1>5 DEF Backed, Backup, Behind

(* No damaged current state is ever replaced before a whole copy of it is  *)
(* kept, whoever installs the replacement and however often it is tried.   *)
THEOREM BackupFirst == Spec => BackupKept
<1>1. Init => Backed
    BY DEF Init, Backed, Behind
<1>2. IInv /\ Backed /\ [Next]_vars =>
        [\A pr \in Project :
            current[pr] = Damaged /\ IsImage(current'[pr]) =>
                [event |-> current'[pr].event, how |-> "whole"] \in backup[pr]]_vars
    BY BackupStep
<1> QED
    BY <1>1, <1>2, InitInvariant, NextInvariant, BackedNext, PTL DEF Spec, BackupKept

-----------------------------------------------------------------------------
(* The types, with every number bounded by the events issued so far.       *)

ImageOf(n) ==
    {i \in [rev : 1 .. n, event : 1 .. n, prev : 0 .. n, session : 0 .. n, wf : 0 .. n,
            boundary : 0 .. n, count : 1 .. n] : i.rev <= i.event /\ i.count <= i.event}
StateOf(n) == ImageOf(n) \cup {Absent, Damaged}
BundleOf(n) == [image : ImageOf(n), over : StateOf(n), after : 0 .. n]
EntryOf(n) ==
    [project : Project, kind : KindSet \cup {"append"}, session : 0 .. n, rev : 0 .. n,
     closed : BOOLEAN, base : 0 .. n]
TaskOf(n) ==
    [project : Project, kind : KindSet \cup {"none"}, session : 0 .. n, base : 0 .. n,
     loaded : 0 .. n, seen : StateOf(n), own : 0 .. n]

Bundling == Bundled \cup {"converge", "remove", "done"}

(* The operations that may still issue an event. *)
Waiting == {p \in Proc : pc[p] # "idle" /\ task[p].own = 0 /\ task[p].kind # "recover"}

Events(n) ==
    /\ issued \in Seq(EntryOf(n)) /\ Len(issued) = n
    /\ \A i \in 1 .. n : issued[i].rev <= i
    /\ ledger \in Seq(1 .. n) /\ Len(ledger) <= n
Disk(n) ==
    /\ current \in [Project -> StateOf(n)]
    /\ journal \in [Project -> BundleOf(n) \cup {NoBundle}]
    /\ temp \in [Project -> {"none", "torn", "whole"}]
    /\ snaps \in [Project -> Seq(1 .. n)] /\ pointer \in [Project -> 0 .. n]
    /\ backup \in [Project -> SUBSET [event : 1 .. n, how : {"whole", "torn"}]]
    /\ derived \in [Project -> 0 .. Len(ledger)]
Processes(n) ==
    /\ guard \in [Project -> Proc \cup {NoProc}] /\ writer \in Proc \cup {NoProc}
    /\ pc \in [Proc -> PcSet]
    /\ task \in [Proc -> TaskOf(n)]
    /\ bundle \in [Proc -> BundleOf(n) \cup {NoBundle}]
    /\ \A p \in Proc : pc[p] \in Bundling => bundle[p] \in BundleOf(n)
    /\ \A p \in Proc : task[p].own # 0 =>
          pc[p] \in Bundling /\ bundle[p].image.event = task[p].own
    /\ kills \in 0 .. MaxKills
(* There is room for what the operations under way still issue. *)
Roomy ==
    /\ Cardinality(Waiting) \in Nat
    /\ Len(issued) + Cardinality(Waiting) <= MaxEvents

Typed == \E n \in Nat : Events(n) /\ Disk(n) /\ Processes(n) /\ Roomy

(* The sets only grow with the number of events. *)
LEMMA Wider ==
    ASSUME NEW n \in Nat, NEW m \in Nat, n <= m
    PROVE  /\ ImageOf(n) \subseteq ImageOf(m) /\ StateOf(n) \subseteq StateOf(m)
           /\ BundleOf(n) \subseteq BundleOf(m) /\ EntryOf(n) \subseteq EntryOf(m)
           /\ TaskOf(n) \subseteq TaskOf(m)
           /\ 0 .. n \subseteq 0 .. m /\ 1 .. n \subseteq 1 .. m
           /\ Seq(1 .. n) \subseteq Seq(1 .. m) /\ Seq(EntryOf(n)) \subseteq Seq(EntryOf(m))
<1>1. 0 .. n \subseteq 0 .. m /\ 1 .. n \subseteq 1 .. m
    OBVIOUS
<1>2. ImageOf(n) \subseteq ImageOf(m)
    BY <1>1 DEF ImageOf
<1>3. StateOf(n) \subseteq StateOf(m)
    BY <1>2 DEF StateOf
<1>4. BundleOf(n) \subseteq BundleOf(m)
    BY <1>1, <1>2, <1>3 DEF BundleOf
<1>5. EntryOf(n) \subseteq EntryOf(m)
    BY <1>1 DEF EntryOf
<1>6. TaskOf(n) \subseteq TaskOf(m)
    BY <1>1, <1>3 DEF TaskOf
<1>7. \A S, T : S \subseteq T => Seq(S) \subseteq Seq(T)
    OBVIOUS
<1> QED
    BY <1>1, <1>2, <1>3, <1>4, <1>5, <1>6, <1>7

(* With room for what is under way, the types are those of the model. *)
LEMMA TypedImplies == Typed => TypeOK
<1> SUFFICES ASSUME Typed PROVE TypeOK
    OBVIOUS
<1>1. PICK n \in Nat : Events(n) /\ Disk(n) /\ Processes(n) /\ Roomy
    BY DEF Typed
<1>2. n <= MaxEvents
    BY <1>1, BoundAssumption DEF Roomy, Events
<1>3. 0 .. n \subseteq 0 .. MaxEvents /\ 1 .. n \subseteq EventId /\ 1 .. n \subseteq 1 .. MaxEvents
    BY <1>2, BoundAssumption DEF EventId
<1>4. ImageOf(n) \subseteq ImageSet
    BY <1>3 DEF ImageOf, ImageSet
<1>5. StateOf(n) \subseteq StateSet
    BY <1>4 DEF StateOf, StateSet
<1>6. BundleOf(n) \subseteq BundleSet
    BY <1>3, <1>4, <1>5 DEF BundleOf, BundleSet
<1>7. \A S, T : S \subseteq T => Seq(S) \subseteq Seq(T)
    OBVIOUS
<1>8. issued \in Seq([project : Project, kind : KindSet \cup {"append"},
                       session : 0 .. MaxEvents, rev : 0 .. MaxEvents, closed : BOOLEAN,
                       base : 0 .. MaxEvents])
  <2>1. EntryOf(n) \subseteq [project : Project, kind : KindSet \cup {"append"},
                       session : 0 .. MaxEvents, rev : 0 .. MaxEvents, closed : BOOLEAN,
                       base : 0 .. MaxEvents]
    BY <1>3 DEF EntryOf
  <2> QED
    BY <1>1, <1>7, <2>1 DEF Events
<1>9. Len(issued) <= MaxEvents /\ ledger \in Seq(1 .. Len(issued))
    BY <1>1, <1>2 DEF Events
<1>10. /\ current \in [Project -> StateSet]
       /\ journal \in [Project -> BundleSet \cup {NoBundle}]
       /\ temp \in [Project -> {"none", "torn", "whole"}]
    BY <1>1, <1>5, <1>6 DEF Disk
<1>11. /\ snaps \in [Project -> Seq(EventId)] /\ pointer \in [Project -> 0 .. Len(issued)]
       /\ derived \in [Project -> 0 .. Len(ledger)]
    BY <1>1, <1>3, <1>7 DEF Disk, Events
<1>12. \A pr \in Project : \A f \in backup[pr] : f.event \in EventId /\ f.how \in {"whole", "torn"}
    BY <1>1, <1>3 DEF Disk
<1>13. \A p \in Proc :
          /\ task[p].project \in Project /\ task[p].kind \in KindSet \cup {"none"}
          /\ {task[p].session, task[p].base, task[p].loaded, task[p].own} \subseteq 0 .. MaxEvents
          /\ task[p].seen \in StateSet
          /\ bundle[p] \in BundleSet \cup {NoBundle}
    BY <1>1, <1>3, <1>5, <1>6 DEF Processes, TaskOf
<1> QED
    BY <1>1, <1>8, <1>9, <1>10, <1>11, <1>12, <1>13 DEF Processes, TypeOK

(* The markers are no images, a bundle is not the lack of one. *)
LEMMA Marked ==
    ASSUME NEW n \in Nat, n <= MaxEvents
    PROVE  /\ \A i \in ImageOf(n) : IsImage(i)
           /\ \A s \in StateOf(n) : IsImage(s) <=> s \in ImageOf(n)
           /\ NoBundle \notin BundleOf(n)
<1>1. 0 .. n \subseteq 0 .. MaxEvents /\ 1 .. n \subseteq EventId /\ 1 .. n \subseteq 1 .. MaxEvents
    BY BoundAssumption DEF EventId
<1>2. ImageOf(n) \subseteq ImageSet
    BY <1>1 DEF ImageOf, ImageSet
<1>3. StateOf(n) \subseteq StateSet
    BY <1>2 DEF StateOf, StateSet
<1>4. BundleOf(n) \subseteq BundleSet
    BY <1>1, <1>2, <1>3 DEF BundleOf, BundleSet
<1> QED
    BY <1>2, <1>4, MarkersAssumption DEF StateOf, IsImage

(* What an image tells is bounded by the events issued. *)
LEMMA Reads ==
    ASSUME NEW n \in Nat, n <= MaxEvents, NEW s \in StateOf(n)
    PROVE  Session(s) \in 0 .. n /\ Workflow(s) \in 0 .. n /\ Boundary(s) \in 0 .. n
BY Marked DEF Session, Workflow, Boundary, ImageOf

(* What an operation asks for is bounded by the event it will issue, and   *)
(* only a compaction that built on this boundary asks for a new one.       *)
LEMMA TargetsTyped ==
    ASSUME NEW n \in Nat, n <= MaxEvents, Events(n), Disk(n), Processes(n),
           NEW p \in Proc, NEW t \in Targets(p)
    PROVE  /\ t.session \in 0 .. n + 1 /\ t.wf \in 0 .. n + 1 /\ t.boundary \in 0 .. n + 1
           /\ t.rev \in 0 .. n + 1 /\ t.closed \in BOOLEAN
           /\ task[p].kind \in KindSet \ {"recover"}
           /\ t.boundary = n + 1 => Boundary(Prev(p)) = task[p].base
<1> DEFINE pr == Of(p)
           T(session, wf, boundary) ==
               /\ session \in 0 .. n + 1 /\ wf \in 0 .. n + 1 /\ boundary \in 0 .. n + 1
               /\ boundary = n + 1 => Boundary(Prev(p)) = task[p].base
           Goal == /\ t.session \in 0 .. n + 1 /\ t.wf \in 0 .. n + 1 /\ t.boundary \in 0 .. n + 1
                   /\ t.rev \in 0 .. n + 1 /\ t.closed \in BOOLEAN
                   /\ t.boundary = n + 1 => Boundary(Prev(p)) = task[p].base
<1>a. Fresh = n + 1 /\ 0 .. n \subseteq 0 .. n + 1 /\ Fresh \in 0 .. n + 1 /\ n + 1 \notin 0 .. n
    BY DEF Fresh, Events
<1>b. pr \in Project /\ task[p].session \in 0 .. n /\ current[pr] \in StateOf(n)
      /\ pointer[pr] \in 0 .. n
    BY DEF Of, Processes, TaskOf, Disk
<1>c. \A session : Kept(pr, session) \in 0 .. n
    BY <1>b, Reads DEF Kept
<1>d. \A e \in 1 .. n : /\ issued[e].session \in 0 .. n /\ issued[e].rev \in 0 .. n
                        /\ issued[e].closed \in BOOLEAN
  <2>1. \A e \in 1 .. n : issued[e] \in EntryOf(n)
    BY DEF Events
  <2> QED
    BY <2>1 DEF EntryOf
<1>e. Active(pr) \in 0 .. n
    BY <1>b DEF Active
<1>f. \A session, wf, boundary :
          T(session, wf, boundary) /\ t = Target(session, wf, boundary) => Goal
    BY DEF Target
<1> HIDE DEF Goal
<1>1. CASE Doing(p, "init")
  <2>1. t = Target(Fresh, 0, 0)
    BY <1>1 DEF Targets, Doing, InitTargets
  <2> QED
    BY <1>1, <1>a, <1>f, <2>1 DEF Doing, KindSet, Goal
<1>r. ASSUME NEW boundary \in 0 .. n + 1, t \in RecordTarget(p, boundary),
             boundary = n + 1 => Boundary(Prev(p)) = task[p].base
      PROVE  Goal
  <2>1. PICK wf \in {0, pointer[pr]} : t = Target(task[p].session, wf, boundary)
    BY <1>r DEF RecordTarget
  <2> QED
    BY <1>a, <1>b, <1>f, <1>r, <2>1
<1>2. CASE Doing(p, "record")
  <2>1. t \in RecordTarget(p, Kept(pr, task[p].session))
    BY <1>2 DEF Targets, Doing, RecordTargets
  <2> QED
    BY <1>2, <1>a, <1>c, <1>r, <2>1 DEF Doing, KindSet, Goal
<1>3. CASE Doing(p, "compact")
  <2>1. t \in RecordTarget(p, Fresh) /\ BoundaryHolds(p)
    BY <1>3 DEF Targets, Doing, CompactTargets
  <2> QED
    BY <1>3, <1>a, <1>r, <2>1 DEF Doing, KindSet, BoundaryHolds, Goal
<1>4. CASE Doing(p, "session")
  <2>1. t = Target(Fresh, 0, 0)
    BY <1>4, SMTT(30) DEF Targets, Doing, SessionTargets
  <2> QED
    BY <1>4, <1>a, <1>f, <2>1 DEF Doing, KindSet, Goal
<1>5. CASE Doing(p, "select")
  <2>1. PICK i \in 1 .. Len(ledger) :
            t = Target(issued[ledger[i]].session, Active(pr), Kept(pr, issued[ledger[i]].session))
    BY <1>5 DEF Targets, Doing, SelectTargets
  <2>2. issued[ledger[i]].session \in 0 .. n
    BY <1>d DEF Events
  <2> QED
    BY <1>5, <1>a, <1>c, <1>e, <1>f, <2>1, <2>2 DEF Doing, KindSet, Goal
<1>g. \A session \in 0 .. n + 1, boundary \in 0 .. n, rev \in 0 .. n + 1, c \in BOOLEAN :
          t = Checkpoint(session, boundary, rev, c) => Goal
    BY <1>a DEF Checkpoint, Goal
<1>6. CASE Doing(p, "create")
  <2>1. PICK session \in {Fresh, task[p].session} :
            t = Checkpoint(session, Kept(pr, session), 1, FALSE)
    BY <1>6 DEF Targets, Doing, CreateTargets
  <2>2. session \in 0 .. n + 1 /\ Kept(pr, session) \in 0 .. n /\ 1 \in 0 .. n + 1
    BY <1>a, <1>b, <1>c
  <2>3. Goal
    BY <1>g, <2>1, <2>2
  <2> QED
    BY <1>6, <2>3 DEF Doing, KindSet, Goal
<1>7. CASE Doing(p, "advance")
  <2>1. PICK w \in {task[p].loaded} \ {0}, c \in BOOLEAN :
            t = Checkpoint(issued[w].session, Kept(pr, issued[w].session), Rev(w) + 1, c)
    BY <1>7 DEF Targets, Doing, AdvanceTargets
  <2>2. w \in 1 .. n
    BY DEF Processes, TaskOf
  <2>3. issued[w].session \in 0 .. n /\ Rev(w) + 1 \in 0 .. n + 1
    BY <1>d, <2>2 DEF Rev
  <2> QED
    BY <1>7, <1>a, <1>c, <1>g, <2>1, <2>3 DEF Doing, KindSet, Goal
<1>8. CASE Doing(p, "repair")
  <2>1. PICK w \in {pointer[pr]} \ {0} :
            t = Target(issued[w].session, Active(pr), Kept(pr, issued[w].session))
    BY <1>8 DEF Targets, Doing, RepairTargets
  <2>2. issued[w].session \in 0 .. n
    BY <1>b, <1>d
  <2> QED
    BY <1>8, <1>a, <1>c, <1>e, <1>f, <2>1, <2>2 DEF Doing, KindSet, Goal
<1>9. CASE Doing(p, "reconcile")
  <2>1. t = Target(Fresh, 0, 0)
    BY <1>9 DEF Targets, Doing, ReconcileTargets
  <2> QED
    BY <1>9, <1>a, <1>f, <2>1 DEF Doing, KindSet, Goal
<1>10. \/ Doing(p, "init") \/ Doing(p, "record") \/ Doing(p, "compact") \/ Doing(p, "session")
       \/ Doing(p, "select") \/ Doing(p, "create") \/ Doing(p, "advance") \/ Doing(p, "repair")
       \/ Doing(p, "reconcile")
    BY DEF Targets
<1> QED
    BY <1>1, <1>2, <1>3, <1>4, <1>5, <1>6, <1>7, <1>8, <1>9, <1>10 DEF Goal

(* Fewer operations wait: there is still room. *)
LEMMA RoomStays ==
    ASSUME Roomy, Len(issued) \in Nat, Waiting' \subseteq Waiting, issued' = issued
    PROVE  Roomy'
<1>1. IsFiniteSet(Waiting)
    BY NoProcAssumption, FS_Subset DEF Waiting
<1>2. Cardinality(Waiting') <= Cardinality(Waiting) /\ Cardinality(Waiting') \in Nat
    BY <1>1, FS_Subset, FS_CardinalityType
<1> QED
    BY <1>2, BoundAssumption DEF Roomy

(* A step that leaves the disk alone and moves one process. *)
LEMMA TypedMove ==
    ASSUME NEW n \in Nat, Events(n), Disk(n), Processes(n), Roomy,
           UNCHANGED <<issued, diskVars>>, NEW p \in Proc,
           kills' \in 0 .. MaxKills,
           guard' \in [Project -> Proc \cup {NoProc}], writer' \in Proc \cup {NoProc},
           NEW l \in PcSet, pc' = [pc EXCEPT ![p] = l],
           NEW b, bundle' = [bundle EXCEPT ![p] = b], b \in BundleOf(n) \cup {NoBundle},
           l \in Bundling => b \in BundleOf(n),
           NEW t \in TaskOf(n), task' = [task EXCEPT ![p] = t],
           pc[p] # "idle", t.kind = task[p].kind \/ l = "idle", t.own = task[p].own \/ l = "idle",
           t.own # 0 => l \in Bundling /\ b.image.event = t.own
    PROVE  Events(n)' /\ Disk(n)' /\ Processes(n)' /\ Roomy'
<1>1. Events(n)' /\ Disk(n)'
    BY DEF Events, Disk
<1>2. Processes(n)'
    BY DEF Processes
<1>3. Waiting' \subseteq Waiting
    BY DEF Waiting, Processes
<1> QED
    BY <1>1, <1>2, <1>3, RoomStays DEF Events

LEMMA NoTaskTyped == \A n \in Nat : NoTask \in TaskOf(n)
    BY ProjectAssumption DEF NoTask, TaskOf, StateOf

LEMMA TypedLeave ==
    ASSUME NEW n \in Nat, Events(n), Disk(n), Processes(n), Roomy,
           UNCHANGED issued, Disk(n)', Events(n)', NEW p \in Proc, kills' \in 0 .. MaxKills, Leave(p)
    PROVE  Processes(n)' /\ Roomy'
<1>1. NoTask \in TaskOf(n)
    BY NoTaskTyped
<1>2. Processes(n)'
    BY <1>1 DEF Processes, Leave, PcSet, Bundling, Bundled, NoTask
<1>3. Waiting' \subseteq Waiting
    BY DEF Waiting, Processes, Leave
<1> QED
    BY <1>2, <1>3, RoomStays DEF Events

(* The steps that write nothing to the disk. *)
LEMMA TypedQuiet ==
    ASSUME NEW n \in Nat, n <= MaxEvents, Events(n), Disk(n), Processes(n), Roomy, NEW p \in Proc,
           Observe(p) \/ Enter(p) \/ TakeJournal(p) \/ Recovered(p) \/ Finish(p) \/ Return(p)
    PROVE  Events(n)' /\ Disk(n)' /\ Processes(n)' /\ Roomy'
<1>0. /\ Of(p) \in Project /\ bundle[p] \in BundleOf(n) \cup {NoBundle} /\ task[p] \in TaskOf(n)
      /\ current[Of(p)] \in StateOf(n) /\ journal[Of(p)] \in BundleOf(n) \cup {NoBundle}
      /\ pc[p] \in Bundling => bundle[p] \in BundleOf(n)
      /\ DOMAIN task = Proc /\ DOMAIN bundle = Proc
      /\ pc[p] \notin Bundling => task[p].own = 0
    BY DEF Processes, Disk, TaskOf, Of
<1> HIDE DEF leaseVars
<1>1. CASE Observe(p)
  <2> DEFINE t == [task[p] EXCEPT !.seen = Prev(p)]
  <2>1. t \in TaskOf(n) /\ t.kind = task[p].kind /\ t.own = task[p].own
    BY <1>0 DEF TaskOf, Prev
  <2>2. /\ task' = [task EXCEPT ![p] = t]
        /\ bundle' = [bundle EXCEPT ![p] = bundle[p]] /\ pc' = [pc EXCEPT ![p] = "waiting"]
        /\ UNCHANGED <<guard, writer, kills, issued, diskVars>> /\ pc[p] = "observing"
    BY <1>0, <1>1 DEF Observe, Goto, leaseVars, Processes
  <2>3. task[p].own = 0
    BY <1>0, <2>2 DEF Bundling, Bundled
  <2> HIDE DEF t
  <2> QED
    BY <1>0, <2>1, <2>2, <2>3, TypedMove, ZenonT(30) DEF PcSet, Bundling, Bundled, Processes
<1>2. CASE Enter(p)
  <2>1. /\ task' = [task EXCEPT ![p] = task[p]]
        /\ bundle' = [bundle EXCEPT ![p] = bundle[p]] /\ pc' = [pc EXCEPT ![p] = "recovering"]
        /\ guard' = [guard EXCEPT ![Of(p)] = p]
        /\ UNCHANGED <<writer, kills, issued, diskVars>> /\ pc[p] = "waiting"
    BY <1>0, <1>2 DEF Enter, Goto, Processes
  <2> QED
    BY <1>0, <2>1, TypedMove, ZenonT(30) DEF PcSet, Bundling, Bundled, Processes
<1>3. CASE TakeJournal(p)
  <2>1. /\ task' = [task EXCEPT ![p] = task[p]]
        /\ bundle' = [bundle EXCEPT ![p] = journal[Of(p)]] /\ pc' = [pc EXCEPT ![p] = "artifacts"]
        /\ writer' = p
        /\ UNCHANGED <<guard, kills, issued, diskVars>> /\ pc[p] = "recovering"
    BY <1>0, <1>3 DEF TakeJournal, Goto, Processes, Steps
  <2>2. journal[Of(p)] \in BundleOf(n)
    BY <1>0, <1>3 DEF TakeJournal
  <2> QED
    BY <1>0, <2>1, <2>2, TypedMove DEF PcSet, Processes, Bundling, Bundled
<1>4. CASE Recovered(p)
  <2>1. /\ task' = [task EXCEPT ![p] = task[p]]
        /\ bundle' = [bundle EXCEPT ![p] = bundle[p]] /\ pc' = [pc EXCEPT ![p] = "ready"]
        /\ UNCHANGED <<guard, writer, kills, issued, diskVars>> /\ pc[p] = "recovering"
    BY <1>0, <1>4 DEF Recovered, Goto, Processes, leaseVars
  <2> QED
    BY <1>0, <2>1, TypedMove DEF PcSet, Bundling, Bundled, Processes
<1>5. CASE (Finish(p) \/ Return(p)) /\ Leave(p)
  <2>1. UNCHANGED <<issued, diskVars, kills>>
    BY <1>5 DEF Finish, Return
  <2>2. Events(n)' /\ Disk(n)'
    BY <2>1 DEF Events, Disk
  <2>3. kills' \in 0 .. MaxKills
    BY <2>1 DEF Processes
  <2> QED
    BY <1>5, <2>1, <2>2, <2>3, TypedLeave
<1>6. CASE Finish(p) /\ ~Leave(p)
  <2>1. /\ task' = [task EXCEPT ![p] = task[p]]
        /\ bundle' = [bundle EXCEPT ![p] = NoBundle] /\ pc' = [pc EXCEPT ![p] = "recovering"]
        /\ UNCHANGED <<guard, writer, kills, issued, diskVars>> /\ pc[p] = "done"
        /\ Recovering(p)
    BY <1>0, <1>6 DEF Finish, Goto, Processes, leaseVars
  <2>2. task[p].own = 0
    BY <2>1 DEF Recovering, Processes
  <2> QED
    BY <1>0, <2>1, <2>2, TypedMove, ZenonT(30) DEF PcSet, Bundling, Bundled, Processes
<1> QED
    BY <1>1, <1>2, <1>3, <1>4, <1>5, <1>6 DEF Return

(* The steps that write to the disk. *)
LEMMA TypedWrite ==
    ASSUME NEW n \in Nat, n <= MaxEvents, Events(n), Disk(n), Processes(n), Roomy, NEW p \in Proc,
           NEW l \in PcSet \ {"idle"}, pc' = [pc EXCEPT ![p] = l], pc[p] # "idle",
           l \in Bundling <=> pc[p] \in Bundling,
           writer' \in {writer, NoProc},
           UNCHANGED <<issued, guard, task, bundle, kills>>
    PROVE  Processes(n)' /\ Roomy'
<1>1. Processes(n)'
    BY DEF Processes
<1>2. Waiting' \subseteq Waiting
    BY DEF Waiting, Processes
<1> QED
    BY <1>1, <1>2, RoomStays DEF Events

LEMMA TypedDisk ==
    ASSUME NEW n \in Nat, n <= MaxEvents, Events(n), Disk(n), Processes(n), Roomy, NEW p \in Proc,
           \/ DropTemp(p) \/ WriteTemp(p) \/ CommitJournal(p) \/ InstallArtifacts(p) \/ AppendPlanned(p)
           \/ InstallPointer(p) \/ InstallCurrent(p) \/ Converge(p) \/ RemoveJournal(p)
    PROVE  Events(n)' /\ Disk(n)' /\ Processes(n)' /\ Roomy'
<1>0. /\ Of(p) \in Project
      /\ pc[p] \in Bundling => bundle[p] \in BundleOf(n) /\ bundle[p].image \in ImageOf(n)
                               /\ bundle[p].image.event \in 1 .. n
    BY DEF Processes, TaskOf, Of, BundleOf, ImageOf
<1>1. CASE DropTemp(p)
  <2>1. Events(n)' /\ Disk(n)'
    BY <1>0, <1>1 DEF DropTemp, Events, Disk
  <2>2. Processes(n)' /\ Waiting' = Waiting
    BY <1>1 DEF DropTemp, Processes, Waiting
  <2> QED
    BY <1>1, <2>1, <2>2, RoomStays DEF Events, DropTemp
<1>2. CASE WriteTemp(p)
  <2>1. pc[p] = "temp" /\ pc' = [pc EXCEPT ![p] = "rename"]
    BY <1>2 DEF WriteTemp, Goto
  <2>2. Events(n)' /\ Disk(n)'
    BY <1>0, <1>2 DEF WriteTemp, Events, Disk
  <2> QED
    BY <1>2, <2>1, <2>2, TypedWrite DEF WriteTemp, PcSet, Bundling, Bundled
<1>3. CASE CommitJournal(p)
  <2>1. pc[p] = "rename" /\ pc' = [pc EXCEPT ![p] = "artifacts"]
    BY <1>3 DEF CommitJournal, Goto, Steps
  <2>2. Events(n)' /\ Disk(n)'
    BY <1>0, <1>3, <2>1 DEF CommitJournal, Events, Disk, Bundling, Bundled
  <2> QED
    BY <1>3, <2>1, <2>2, TypedWrite DEF CommitJournal, PcSet, Bundling, Bundled
<1>4. CASE InstallArtifacts(p)
  <2>1. pc[p] = "artifacts" /\ pc' = [pc EXCEPT ![p] = "append"] /\ bundle[p].image.event \in 1 .. n
    BY <1>0, <1>4, Order DEF InstallArtifacts, Bundling, Bundled
  <2>2. Events(n)'
    BY <1>4 DEF InstallArtifacts, Events
  <2>3. snaps' \in [Project -> Seq(1 .. n)]
    <3>1. snaps' = [snaps EXCEPT ![Of(p)] = Append(@, bundle[p].image.event)] \/ snaps' = snaps
      BY <1>4 DEF InstallArtifacts
    <3>2. snaps[Of(p)] \in Seq(1 .. n)
      BY <1>0 DEF Disk
    <3>3. Append(snaps[Of(p)], bundle[p].image.event) \in Seq(1 .. n)
      BY <2>1, <3>2
    <3>4. snaps \in [Project -> Seq(1 .. n)]
      BY DEF Disk
    <3> QED
      BY <1>0, <3>1, <3>3, <3>4
  <2>4. backup' \in [Project -> SUBSET [event : 1 .. n, how : {"whole", "torn"}]]
    <3>1. \/ backup' = [backup EXCEPT ![Of(p)] = @ \cup {Backup(bundle[p], "whole")}]
          \/ backup' = backup
      BY <1>4 DEF InstallArtifacts
    <3>2. Backup(bundle[p], "whole") \in [event : 1 .. n, how : {"whole", "torn"}]
      BY <2>1 DEF Backup
    <3>3. backup \in [Project -> SUBSET [event : 1 .. n, how : {"whole", "torn"}]]
      BY DEF Disk
    <3>4. backup[Of(p)] \cup {Backup(bundle[p], "whole")} \in
              SUBSET [event : 1 .. n, how : {"whole", "torn"}]
      BY <1>0, <3>2, <3>3
    <3> QED
      BY <1>0, <3>1, <3>3, <3>4
  <2>5. UNCHANGED <<current, journal, temp, pointer, derived, ledger>>
    BY <1>4 DEF InstallArtifacts
  <2>6. Disk(n)'
    BY <2>3, <2>4, <2>5 DEF Disk
  <2> QED
    BY <1>4, <2>1, <2>2, <2>6, TypedWrite DEF InstallArtifacts, PcSet, Bundling, Bundled
<1>5. CASE AppendPlanned(p)
  <2>1. pc[p] = "append" /\ pc' = [pc EXCEPT ![p] = "pointer"] /\ bundle[p].image \in ImageOf(n)
    BY <1>0, <1>5, Order DEF AppendPlanned, Bundling, Bundled
  <2>2. Events(n)' /\ Len(ledger) <= Len(ledger') /\ Len(ledger) \in Nat /\ Len(ledger') \in Nat
    <3>1. CASE Installed(bundle[p])
      BY <1>5, <3>1 DEF AppendPlanned, Events
    <3>2. CASE ~Installed(bundle[p])
      <4>1. ledger' = Append(ledger, bundle[p].image.event) /\ bundle[p].image.count = Len(ledger) + 1
        BY <1>5, <3>2 DEF AppendPlanned, AppendFits
      <4>2. Len(ledger) + 1 <= n /\ bundle[p].image.event \in 1 .. n
        BY <2>1, <4>1 DEF ImageOf
      <4>3. ledger \in Seq(1 .. n) /\ issued' = issued
        BY <1>5 DEF AppendPlanned, Events
      <4>4. ledger' \in Seq(1 .. n) /\ Len(ledger') = Len(ledger) + 1 /\ Len(ledger) \in Nat
        BY <4>1, <4>2, <4>3
      <4> QED
        BY <4>2, <4>3, <4>4 DEF Events
    <3> QED
      BY <3>1, <3>2
  <2>3. Disk(n)'
    BY <1>5, <2>2 DEF AppendPlanned, Disk
  <2> QED
    BY <1>5, <2>1, <2>2, <2>3, TypedWrite DEF AppendPlanned, PcSet, Bundling, Bundled
<1>6. CASE InstallPointer(p)
  <2>1. pc[p] = "pointer" /\ pc' = [pc EXCEPT ![p] = "current"] /\ bundle[p].image.event \in 0 .. n
    BY <1>0, <1>6, Order DEF InstallPointer, Bundling, Bundled
  <2>2. Events(n)'
    BY <1>6 DEF InstallPointer, Events
  <2>3. pointer' = [pointer EXCEPT ![Of(p)] = bundle[p].image.event] \/ pointer' = pointer
    BY <1>6 DEF InstallPointer
  <2>4. Disk(n)'
    BY <1>0, <1>6, <2>1, <2>3 DEF InstallPointer, Disk
  <2> QED
    BY <1>6, <2>1, <2>2, <2>4, TypedWrite DEF InstallPointer, PcSet, Bundling, Bundled
<1>7. CASE InstallCurrent(p)
  <2>1. pc[p] = "current" /\ pc' = [pc EXCEPT ![p] = "converge"] /\ bundle[p].image \in StateOf(n)
    BY <1>0, <1>7, Order DEF InstallCurrent, Bundling, Bundled, StateOf
  <2>2. Events(n)' /\ Disk(n)'
    BY <1>0, <1>7, <2>1 DEF InstallCurrent, Events, Disk
  <2> QED
    BY <1>7, <2>1, <2>2, TypedWrite DEF InstallCurrent, PcSet, Bundling, Bundled
<1>8. CASE Converge(p)
  <2>1. pc[p] = "converge" /\ pc' = [pc EXCEPT ![p] = "remove"]
    BY <1>8, Order DEF Converge
  <2>2. Events(n)' /\ Len(ledger) \in 0 .. Len(ledger)
    BY <1>8 DEF Converge, Events
  <2>3. Disk(n)'
    BY <1>0, <1>8, <2>2 DEF Converge, Disk
  <2> QED
    BY <1>8, <2>1, <2>2, <2>3, TypedWrite DEF Converge, PcSet, Bundling, Bundled
<1>9. CASE RemoveJournal(p)
  <2>1. pc[p] = "remove" /\ pc' = [pc EXCEPT ![p] = "done"]
    BY <1>9, Order DEF RemoveJournal
  <2>2. Events(n)' /\ Disk(n)'
    BY <1>0, <1>9 DEF RemoveJournal, Events, Disk
  <2> QED
    BY <1>9, <2>1, <2>2, TypedWrite DEF RemoveJournal, PcSet, Bundling, Bundled
<1> QED
    BY <1>1, <1>2, <1>3, <1>4, <1>5, <1>6, <1>7, <1>8, <1>9

(* A new event: what was bounded by the events before it still is. *)
LEMMA TypedIssue ==
    ASSUME NEW n \in Nat, Events(n), Disk(n), Processes(n),
           NEW e \in EntryOf(n + 1), e.rev <= n + 1, issued' = Append(issued, e)
    PROVE  /\ issued' \in Seq(EntryOf(n + 1)) /\ Len(issued') = n + 1
           /\ \A i \in 1 .. n + 1 : issued'[i].rev <= i
           /\ \A i \in 1 .. n : issued'[i] = issued[i]
           /\ issued'[n + 1] = e
<1>1. issued \in Seq(EntryOf(n + 1)) /\ Len(issued) = n
    BY Wider, SMTT(30) DEF Events
<1>2. /\ issued' \in Seq(EntryOf(n + 1)) /\ Len(issued') = n + 1
      /\ \A i \in 1 .. n : issued'[i] = issued[i]
      /\ issued'[n + 1] = e
    BY <1>1
<1>3. \A i \in 1 .. n + 1 : issued'[i].rev <= i
  <2>1. \A i \in 1 .. n : issued'[i].rev <= i
    BY <1>2 DEF Events
  <2> QED
    BY <1>2, <2>1
<1> QED
    BY <1>2, <1>3

(* The image that a transition prepares is one of the next event. *)
LEMMA ImageTyped ==
    ASSUME NEW n \in Nat, n <= MaxEvents, Events(n), NEW s \in StateOf(n), NEW t,
           t.session \in 0 .. n + 1, t.wf \in 0 .. n + 1, t.boundary \in 0 .. n + 1
    PROVE  Image(s, t) \in ImageOf(n + 1)
<1>1. Len(ledger) \in 0 .. n /\ Fresh = n + 1
    BY DEF Events, Fresh
<1>2. IsImage(s) => s \in ImageOf(n)
    BY Marked
<1>3. NextRev(s) \in 1 .. n + 1
    BY <1>2 DEF NextRev, ImageOf
<1>4. (IF IsImage(s) THEN s.event ELSE 0) \in 0 .. n + 1
    BY <1>2 DEF ImageOf
<1> DEFINE prev == IF IsImage(s) THEN s.event ELSE 0
           rev == NextRev(s)
<1>5. Image(s, t) = [rev |-> rev, event |-> Fresh, prev |-> prev, session |-> t.session,
                     wf |-> t.wf, boundary |-> t.boundary, count |-> Len(ledger) + 1]
    BY DEF Image
<1>6. rev \in 1 .. n + 1 /\ prev \in 0 .. n + 1
    BY <1>3, <1>4
<1> HIDE DEF rev, prev
<1> QED
    BY <1>1, <1>5, <1>6, SMTT(30) DEF ImageOf

LEMMA TypedPrepare ==
    ASSUME NEW n \in Nat, n <= MaxEvents, Events(n), Disk(n), Processes(n), Roomy,
           NEW p \in Proc, Prepare(p)
    PROVE  Events(n + 1)' /\ Disk(n + 1)' /\ Processes(n + 1)' /\ Roomy'
<1>1. PICK t \in Targets(p) :
          /\ issued' = Append(issued, [project |-> Of(p), kind |-> task[p].kind,
                                       session |-> t.session, rev |-> t.rev,
                                       closed |-> t.closed, base |-> task[p].base])
          /\ bundle' = [bundle EXCEPT ![p] =
                [image |-> Image(Replaced(p), t), over |-> Replaced(p), after |-> LastId]]
    BY DEF Prepare
<1>2. /\ t.session \in 0 .. n + 1 /\ t.wf \in 0 .. n + 1 /\ t.boundary \in 0 .. n + 1
      /\ t.rev \in 0 .. n + 1 /\ t.closed \in BOOLEAN
      /\ task[p].kind \in KindSet \ {"recover"}
    BY TargetsTyped
<1>3. /\ task[p] \in TaskOf(n) /\ Of(p) \in Project /\ Replaced(p) \in StateOf(n)
      /\ DOMAIN task = Proc
    BY DEF Processes, TaskOf, Of, Replaced, Disk
<1>w. /\ ImageOf(n) \subseteq ImageOf(n + 1) /\ StateOf(n) \subseteq StateOf(n + 1)
      /\ BundleOf(n) \subseteq BundleOf(n + 1) /\ EntryOf(n) \subseteq EntryOf(n + 1)
      /\ TaskOf(n) \subseteq TaskOf(n + 1)
      /\ 0 .. n \subseteq 0 .. n + 1 /\ 1 .. n \subseteq 1 .. n + 1
      /\ Seq(1 .. n) \subseteq Seq(1 .. n + 1)
    BY Wider
<1> DEFINE e == [project |-> Of(p), kind |-> task[p].kind, session |-> t.session, rev |-> t.rev,
                 closed |-> t.closed, base |-> task[p].base]
           b == [image |-> Image(Replaced(p), t), over |-> Replaced(p), after |-> LastId]
<1>4. e \in EntryOf(n + 1) /\ e.rev <= n + 1
    BY <1>2, <1>3, <1>w DEF EntryOf, TaskOf
<1>5. LastId \in 0 .. n
  <2>1. ledger # <<>> => Last(ledger) \in 1 .. n
    BY DEF Events, Last
  <2> QED
    BY <2>1 DEF LastId
<1>6. b \in BundleOf(n + 1)
    BY <1>2, <1>3, <1>5, <1>w, ImageTyped DEF BundleOf
<1>7. /\ issued' = Append(issued, e) /\ bundle' = [bundle EXCEPT ![p] = b]
      /\ pc[p] = "ready" /\ pc' = [pc EXCEPT ![p] = "temp"] /\ writer' = p
      /\ task' = [task EXCEPT ![p].own = Fresh]
      /\ UNCHANGED <<ledger, current, journal, temp, snaps, pointer, backup, derived, guard, kills>>
    BY <1>1 DEF Prepare, Goto
<1> HIDE DEF e, b
<1>8. Events(n + 1)'
    BY <1>4, <1>7, <1>w, TypedIssue DEF Events
<1>9. Disk(n + 1)'
  <2>1. backup' \in [Project -> SUBSET [event : 1 .. n + 1, how : {"whole", "torn"}]]
    BY <1>7, <1>w DEF Disk
  <2> QED
    BY <1>7, <1>w, <2>1 DEF Disk
<1>10. Fresh \in 0 .. n + 1 /\ Fresh # 0
    BY DEF Fresh, Events
<1>11. [task[p] EXCEPT !.own = Fresh] \in TaskOf(n + 1)
    BY <1>3, <1>w, <1>10 DEF TaskOf
<1>12. task' = [task EXCEPT ![p] = [task[p] EXCEPT !.own = Fresh]]
    BY <1>3, <1>7
<1>13. task' \in [Proc -> TaskOf(n + 1)]
    BY <1>11, <1>12, <1>w DEF Processes
<1>14. /\ bundle' \in [Proc -> BundleOf(n + 1) \cup {NoBundle}]
       /\ \A q \in Proc : pc'[q] \in Bundling => bundle'[q] \in BundleOf(n + 1)
    BY <1>6, <1>7, <1>w DEF Processes
<1>15. Processes(n + 1)'
  <2>1. \A q \in Proc : task'[q].own # 0 =>
            pc'[q] \in Bundling /\ bundle'[q].image.event = task'[q].own
    <3>1. b.image.event = Fresh
      BY DEF b, Image
    <3>2. task'[p].own = Fresh /\ bundle'[p] = b /\ pc'[p] \in Bundling
      BY <1>3, <1>7, <1>12 DEF Processes, Bundling, Bundled, TaskOf
    <3> QED
      BY <1>7, <3>1, <3>2 DEF Processes
  <2> QED
    BY <1>7, <1>13, <1>14, <2>1 DEF Processes, PcSet
<1>16. Roomy'
  <2>1. p \in Waiting /\ p \notin Waiting'
    BY <1>2, <1>3, <1>7, <1>10, <1>12 DEF Waiting, Processes, Bundling, Bundled, TaskOf
  <2>2. Waiting' = Waiting \ {p}
    BY <1>7, <1>12, <2>1 DEF Waiting, Processes
  <2>3. IsFiniteSet(Waiting)
    BY NoProcAssumption, FS_Subset DEF Waiting
  <2>4. Cardinality(Waiting') = Cardinality(Waiting) - 1 /\ Cardinality(Waiting') \in Nat
    BY <2>1, <2>2, <2>3, FS_RemoveElement, FS_CardinalityType, FS_Subset
  <2>5. Len(issued') = Len(issued) + 1 /\ Len(issued) \in Nat
    BY <1>4, <1>7, TypedIssue DEF Events
  <2> QED
    BY <2>4, <2>5, BoundAssumption DEF Roomy
<1> QED
    BY <1>8, <1>9, <1>15, <1>16

LEMMA TypedAppend ==
    ASSUME NEW n \in Nat, n <= MaxEvents, Events(n), Disk(n), Processes(n), Roomy,
           NEW p \in Proc, NEW pr \in Project, AppendEvent(p, pr)
    PROVE  Events(n + 1)' /\ Disk(n + 1)' /\ Processes(n + 1)' /\ Roomy'
<1>w. /\ ImageOf(n) \subseteq ImageOf(n + 1) /\ StateOf(n) \subseteq StateOf(n + 1)
      /\ BundleOf(n) \subseteq BundleOf(n + 1) /\ EntryOf(n) \subseteq EntryOf(n + 1)
      /\ TaskOf(n) \subseteq TaskOf(n + 1)
      /\ 0 .. n \subseteq 0 .. n + 1 /\ 1 .. n \subseteq 1 .. n + 1
      /\ Seq(1 .. n) \subseteq Seq(1 .. n + 1)
    BY Wider
<1> DEFINE e == [project |-> pr, kind |-> "append", session |-> Session(current[pr]), rev |-> 0,
                 closed |-> FALSE, base |-> 0]
<1>1. Session(current[pr]) \in 0 .. n
    BY Reads DEF Disk
<1>2. e \in EntryOf(n + 1) /\ e.rev <= n + 1
    BY <1>1, <1>w DEF EntryOf
<1>3. /\ issued' = Append(issued, e) /\ ledger' = Append(ledger, Fresh)
      /\ derived' = [derived EXCEPT ![pr] = Len(ledger')] /\ Room
      /\ UNCHANGED <<current, journal, temp, snaps, pointer, backup, leaseVars, procVars, kills>>
    BY DEF AppendEvent
<1> HIDE DEF e
<1>4. Fresh = n + 1 /\ Len(ledger) \in 0 .. n /\ ledger \in Seq(1 .. n + 1)
    BY <1>w DEF Fresh, Events
<1>5. ledger' \in Seq(1 .. n + 1) /\ Len(ledger') = Len(ledger) + 1
    BY <1>3, <1>4
<1>6. Events(n + 1)'
    BY <1>2, <1>3, <1>4, <1>5, TypedIssue DEF Events
<1>7. Disk(n + 1)'
  <2>1. backup' \in [Project -> SUBSET [event : 1 .. n + 1, how : {"whole", "torn"}]]
    BY <1>3, <1>w DEF Disk
  <2>2. derived' \in [Project -> 0 .. Len(ledger')]
    BY <1>3, <1>4, <1>5 DEF Disk
  <2> QED
    BY <1>3, <1>w, <2>1, <2>2 DEF Disk
<1>8. Processes(n + 1)'
    BY <1>3, <1>w DEF Processes
<1>9. Roomy'
  <2>1. Waiting' = Waiting /\ Waiting \subseteq {q \in Proc : pc[q] # "idle"}
    BY <1>3 DEF Waiting
  <2>2. IsFiniteSet({q \in Proc : pc[q] # "idle"})
    BY NoProcAssumption, FS_Subset
  <2>3. /\ Cardinality(Waiting) <= Cardinality({q \in Proc : pc[q] # "idle"})
        /\ Cardinality({q \in Proc : pc[q] # "idle"}) \in Nat
    BY <2>1, <2>2, FS_Subset, FS_CardinalityType
  <2>4. Len(issued') = Len(issued) + 1 /\ Len(issued) \in Nat
    BY <1>2, <1>3, TypedIssue DEF Events
  <2> QED
    BY <1>3, <2>1, <2>3, <2>4, BoundAssumption DEF Roomy, Room
<1> QED
    BY <1>6, <1>7, <1>8, <1>9

LEMMA TypedBegin ==
    ASSUME NEW n \in Nat, n <= MaxEvents, Events(n), Disk(n), Processes(n), Roomy,
           NEW p \in Proc, NEW pr \in Project, NEW kind \in Operation, Begin(p, pr, kind)
    PROVE  Events(n)' /\ Disk(n)' /\ Processes(n)' /\ Roomy'
<1> DEFINE session == IF kind \in {"record", "compact", "create"} THEN Session(current[pr]) ELSE 0
           base == IF kind = "compact" THEN Boundary(current[pr]) ELSE 0
           loaded == IF kind = "advance" THEN pointer[pr] ELSE 0
           t == [project |-> pr, kind |-> kind, session |-> session, base |-> base,
                 loaded |-> loaded, seen |-> Absent, own |-> 0]
<1>1. /\ task' = [task EXCEPT ![p] = t] /\ pc[p] = "idle" /\ (kind = "recover" \/ Room)
      /\ UNCHANGED <<issued, diskVars, leaseVars, bundle, kills>>
    BY DEF Begin
<1>2. PICK l \in {"observing", "waiting"} : pc' = [pc EXCEPT ![p] = l]
    BY DEF Begin
<1>3. kind \in KindSet
    BY KindsAssumption DEF Operation
<1>4. session \in 0 .. n /\ base \in 0 .. n /\ loaded \in 0 .. n
    BY Reads DEF Disk
<1> HIDE DEF session, base, loaded
<1>5. t \in TaskOf(n) /\ t.own = 0 /\ t.kind = kind
    BY <1>3, <1>4 DEF TaskOf, StateOf
<1> HIDE DEF t
<1>6. Events(n)' /\ Disk(n)'
    BY <1>1 DEF Events, Disk
<1>7. Processes(n)'
  <2>1. l \in PcSet /\ l \notin Bundling
    BY <1>2 DEF PcSet, Bundling, Bundled
  <2>2. /\ task' \in [Proc -> TaskOf(n)] /\ pc' \in [Proc -> PcSet]
        /\ UNCHANGED <<guard, writer, bundle, kills>>
    BY <1>1, <1>2, <1>5, <2>1 DEF Processes
  <2>3. \A q \in Proc : pc'[q] \in Bundling => bundle'[q] \in BundleOf(n)
    BY <1>2, <2>1, <2>2 DEF Processes
  <2>4. \A q \in Proc : task'[q].own # 0 =>
            pc'[q] \in Bundling /\ bundle'[q].image.event = task'[q].own
    <3>1. task'[p].own = 0
      BY <1>1, <1>5 DEF Processes
    <3>2. \A q \in Proc \ {p} : task'[q] = task[q] /\ pc'[q] = pc[q]
      BY <1>1, <1>2 DEF Processes
    <3> QED
      BY <2>2, <3>1, <3>2 DEF Processes
  <2> QED
    BY <2>2, <2>3, <2>4 DEF Processes
<1>8. Roomy'
  <2> DEFINE active == {q \in Proc : pc[q] # "idle"}
  <2>1. IsFiniteSet(active) /\ IsFiniteSet(Waiting)
    BY NoProcAssumption, FS_Subset DEF Waiting
  <2>2. Waiting \subseteq active /\ p \notin active
    <3>1. pc[p] = "idle"
      BY <1>1
    <3> QED
      BY <3>1 DEF Waiting
  <2>3. Waiting' \subseteq Waiting \cup {p} /\ (kind = "recover" => Waiting' \subseteq Waiting)
    <3>1. /\ pc' = [pc EXCEPT ![p] = l] /\ task' = [task EXCEPT ![p] = t] /\ t.kind = kind
          /\ DOMAIN pc = Proc /\ DOMAIN task = Proc
      BY <1>1, <1>2, <1>5 DEF Processes
    <3>2. \A q \in Proc \ {p} : pc'[q] = pc[q] /\ task'[q] = task[q]
      BY <3>1
    <3>3. task'[p].kind = kind
      BY <3>1
    <3> QED
      BY <3>2, <3>3 DEF Waiting
  <2>4. CASE kind = "recover"
    BY <1>1, <2>3, <2>4, RoomStays DEF Events
  <2>5. CASE Room
    <3>1. /\ Cardinality(active) \in Nat /\ Cardinality(active \cup {p}) = Cardinality(active) + 1
          /\ IsFiniteSet(active \cup {p})
      BY <2>1, <2>2, FS_AddElement, FS_CardinalityType
    <3>2. /\ Cardinality(Waiting') <= Cardinality(active) + 1
          /\ Cardinality(Waiting') \in Nat
      <4>1. Waiting' \subseteq active \cup {p}
        BY <2>2, <2>3
      <4> QED
        BY <3>1, <4>1, FS_Subset, FS_CardinalityType
    <3>3. Len(issued) + Cardinality(active) < MaxEvents
      BY <2>5 DEF Room
    <3> QED
      BY <1>1, <3>1, <3>2, <3>3, BoundAssumption, SMTT(30) DEF Roomy, Events
  <2> QED
    BY <1>1, <2>4, <2>5
<1> QED
    BY <1>6, <1>7, <1>8

LEMMA TypedLose ==
    ASSUME NEW n \in Nat, n <= MaxEvents, Events(n), Disk(n), Processes(n), Roomy,
           NEW pr \in Project, Lose(pr)
    PROVE  Events(n)' /\ Disk(n)' /\ Processes(n)' /\ Roomy'
<1>1. PICK s \in {Absent, Damaged} : current' = [current EXCEPT ![pr] = s]
    BY DEF Lose
<1>2. UNCHANGED <<issued, ledger, journal, temp, snaps, pointer, backup, derived, leaseVars,
                  procVars, kills>>
    BY DEF Lose
<1>3. Events(n)' /\ Disk(n)'
    BY <1>1, <1>2 DEF Events, Disk, StateOf
<1>4. Processes(n)' /\ Waiting' = Waiting
    BY <1>2 DEF Processes, Waiting
<1> QED
    BY <1>2, <1>3, <1>4, RoomStays DEF Events

LEMMA TypedKill ==
    ASSUME NEW n \in Nat, n <= MaxEvents, Events(n), Disk(n), Processes(n), Roomy,
           NEW p \in Proc, Kill(p)
    PROVE  Events(n)' /\ Disk(n)' /\ Processes(n)' /\ Roomy'
<1>0. /\ Of(p) \in Project
      /\ pc[p] \in Bundling => bundle[p].image.event \in 1 .. n
    BY DEF Processes, TaskOf, Of, BundleOf, ImageOf
<1>1. UNCHANGED <<issued, ledger, current, journal, snaps, pointer, derived>> /\ Leave(p)
      /\ kills' = kills + 1 /\ kills < MaxKills
    BY DEF Kill
<1>2. kills' \in 0 .. MaxKills
    BY <1>1, BoundAssumption DEF Processes
<1>3. temp' \in [Project -> {"none", "torn", "whole"}]
    BY <1>0 DEF Kill, Disk
<1>4. backup' \in [Project -> SUBSET [event : 1 .. n, how : {"whole", "torn"}]]
  <2>1. \/ backup' = backup
        \/ /\ pc[p] \in Bundling
           /\ backup' = [backup EXCEPT ![Of(p)] = @ \cup {Backup(bundle[p], "torn")}]
    BY DEF Kill, Bundling, Bundled
  <2>2. pc[p] \in Bundling => Backup(bundle[p], "torn") \in [event : 1 .. n, how : {"whole", "torn"}]
    BY <1>0 DEF Backup
  <2>3. backup \in [Project -> SUBSET [event : 1 .. n, how : {"whole", "torn"}]]
    BY DEF Disk
  <2>4. pc[p] \in Bundling => backup[Of(p)] \cup {Backup(bundle[p], "torn")} \in
            SUBSET [event : 1 .. n, how : {"whole", "torn"}]
    BY <1>0, <2>2, <2>3
  <2> QED
    BY <1>0, <2>1, <2>3, <2>4
<1>5. Events(n)' /\ Disk(n)'
    BY <1>1, <1>3, <1>4 DEF Events, Disk
<1> QED
    BY <1>1, <1>2, <1>5, TypedLeave

LEMMA TypedStep == Typed /\ [Next]_vars => Typed'
<1> SUFFICES ASSUME Typed, [Next]_vars PROVE Typed'
    OBVIOUS
<1>1. PICK n \in Nat : Events(n) /\ Disk(n) /\ Processes(n) /\ Roomy
    BY DEF Typed
<1>2. n <= MaxEvents
    BY <1>1, BoundAssumption DEF Roomy, Events
<1>3. ASSUME NEW p \in Proc, Step(p) PROVE Typed'
  <2>1. CASE Prepare(p)
    <3>1. Events(n + 1)' /\ Disk(n + 1)' /\ Processes(n + 1)' /\ Roomy'
      BY <1>1, <1>2, <2>1, TypedPrepare
    <3> QED
      BY <3>1 DEF Typed
  <2>2. CASE ~Prepare(p)
    <3>1. Events(n)' /\ Disk(n)' /\ Processes(n)' /\ Roomy'
      BY <1>1, <1>2, <1>3, <2>2, TypedQuiet, TypedDisk DEF Step
    <3> QED
      BY <3>1 DEF Typed
  <2> QED
    BY <2>1, <2>2
<1>4. ASSUME NEW p \in Proc, Kill(p) PROVE Typed'
    BY <1>1, <1>2, <1>4, TypedKill DEF Typed
<1>5. ASSUME NEW p \in Proc, NEW pr \in Project, AppendEvent(p, pr) PROVE Typed'
  <2>1. Events(n + 1)' /\ Disk(n + 1)' /\ Processes(n + 1)' /\ Roomy'
    BY <1>1, <1>2, <1>5, TypedAppend
  <2> QED
    BY <2>1 DEF Typed
<1>6. ASSUME NEW p \in Proc, NEW pr \in Project, NEW kind \in Operation, Begin(p, pr, kind)
      PROVE  Typed'
    BY <1>1, <1>2, <1>6, TypedBegin DEF Typed
<1>7. ASSUME NEW pr \in Project, Lose(pr) PROVE Typed'
    BY <1>1, <1>2, <1>7, TypedLose DEF Typed
<1>8. CASE UNCHANGED vars
  <2>1. Events(n)' /\ Disk(n)' /\ Processes(n)' /\ Waiting' = Waiting /\ issued' = issued
    BY <1>1, <1>8 DEF vars, Events, Disk, Processes, Waiting
  <2>2. Roomy'
    BY <1>1, <2>1 DEF Roomy
  <2> QED
    BY <2>1, <2>2 DEF Typed
<1> QED
    BY <1>3, <1>4, <1>5, <1>6, <1>7, <1>8 DEF Next

LEMMA TypedInit == Init => Typed
<1> SUFFICES ASSUME Init PROVE Typed
    OBVIOUS
<1>1. Events(0)
    BY DEF Init, Events
<1>2. Disk(0)
    BY DEF Init, Disk, StateOf
<1>3. NoTask \in TaskOf(0) /\ NoTask.own = 0
    BY NoTaskTyped DEF NoTask
<1>4. Processes(0)
    BY <1>3, BoundAssumption DEF Init, Processes, PcSet, Bundling, Bundled
<1>5. Waiting = {}
    BY DEF Init, Waiting
<1>6. Roomy
    BY <1>5, FS_EmptySet, BoundAssumption DEF Roomy, Init
<1> QED
    BY <1>1, <1>2, <1>4, <1>6 DEF Typed

(* Every variable keeps its type and the bound on events is never passed,  *)
(* whatever the operations that interleave (every action of the module).   *)
THEOREM TypeCorrect == Spec => []TypeOK
BY TypedInit, TypedStep, TypedImplies, PTL DEF Spec

-----------------------------------------------------------------------------

(* Together the steps of a transition are one step: what has to be known of *)
(* the journal and of the processes for that.                              *)

Holding == {"recovering", "ready"} \cup Bundling
Writing == Bundled \cup {"converge"}
Preparing == {"temp", "rename"}
Installing == {"artifacts", "append", "pointer", "current", "converge", "remove"}

(* A bundle is of its project, and a new boundary of it was built on the   *)
(* boundary that it replaces.                                              *)
Sound(b, pr) ==
    /\ Planned(b).project = pr
    /\ b.image.boundary = b.image.event => Planned(b).base = Boundary(b.over)

(* What a process prepares follows the current state, with an event that   *)
(* nobody has seen.                                                        *)
Follows(p) ==
    LET b == bundle[p]
    IN  /\ b.over = current[Of(p)]
        /\ b.image.rev = NextRev(b.over)
        /\ b.image.prev = IF IsImage(b.over) THEN b.over.event ELSE 0
        /\ b.image.event = Len(issued) /\ b.image.count = Len(ledger) + 1 /\ b.after = LastId
        /\ \A i \in 1 .. Len(ledger) : ledger[i] # Len(issued)

(* One process at a time in a project and one at the ledger; a bundle is   *)
(* installed while it is in the journal, and only then.                    *)
Placed(p) ==
    /\ pc[p] \in Holding => guard[Of(p)] = p
    /\ pc[p] \in Writing => writer = p
    /\ pc[p] \in {"ready", "done"} \cup Preparing => journal[Of(p)] = NoBundle
    /\ pc[p] \in Installing => journal[Of(p)] = bundle[p]
    /\ pc[p] \in Preparing => Sound(bundle[p], Of(p)) /\ Follows(p)
    /\ pc[p] \in {"converge", "remove"} => current[Of(p)] = bundle[p].image

AtomicInv ==
    /\ Typed /\ IInv
    /\ \A p \in Proc : Placed(p)
    /\ \A pr \in Project : journal[pr] # NoBundle => Sound(journal[pr], pr)

USE DEF Preparing

(* The other processes do not notice what one does under its leases.       *)
LEMMA Others ==
    ASSUME AtomicInv, NEW p, NEW q \in Proc \ {p},
           pc'[q] = pc[q], task'[q] = task[q], bundle'[q] = bundle[q],
           \A pr \in Project : guard'[pr] = guard[pr] \/ guard[pr] \in {p, NoProc},
           writer' = writer \/ writer \in {p, NoProc},
           \A pr \in Project : \/ journal'[pr] = journal[pr] /\ current'[pr] = current[pr]
                               \/ guard[pr] \in {p, NoProc},
           UNCHANGED <<issued, ledger>> \/ writer \in {p, NoProc}
    PROVE  Placed(q)'
<1>1. Placed(q) /\ q # NoProc /\ q # p /\ Of(q) \in Project /\ Of(q)' = Of(q)
  <2>1. Of(q) \in Project
    BY DEF AtomicInv, Typed, Processes, Of, TaskOf
  <2> QED
    BY <2>1, NoProcAssumption DEF AtomicInv, Of
<1>2. pc[q] \in Holding => /\ guard'[Of(q)] = q
                          /\ journal'[Of(q)] = journal[Of(q)] /\ current'[Of(q)] = current[Of(q)]
    BY <1>1 DEF Placed
<1>3. pc[q] \in Writing => writer' = q /\ UNCHANGED <<issued, ledger>>
    BY <1>1 DEF Placed
<1>4. /\ Preparing \subseteq Holding /\ Preparing \subseteq Writing /\ Installing \subseteq Holding
      /\ {"ready", "done"} \subseteq Holding /\ {"converge", "remove"} \subseteq Holding
    BY DEF Holding, Writing, Bundling, Bundled, Installing
<1>5. ASSUME pc[q] \in Preparing PROVE Sound(bundle[q], Of(q))' /\ Follows(q)'
  <2>1. UNCHANGED <<issued, ledger>> /\ current'[Of(q)] = current[Of(q)]
    BY <1>2, <1>3, <1>4, <1>5
  <2>2. Sound(bundle[q], Of(q)) /\ Follows(q)
    BY <1>1, <1>5 DEF Placed
  <2>3. Sound(bundle[q], Of(q))'
    BY <1>1, <2>1, <2>2 DEF Sound, Planned, Boundary, IsImage
  <2>4. Follows(q)'
    BY <1>1, <2>1, <2>2 DEF Follows, NextRev, LastId, IsImage
  <2> QED
    BY <2>3, <2>4
<1> QED
    BY <1>1, <1>2, <1>3, <1>4, <1>5 DEF Placed

(* A step that leaves events, journals and current states alone. *)
LEMMA AtomicQuiet ==
    ASSUME AtomicInv, Typed', IInv', NEW p \in Proc,
           \A q \in Proc \ {p} : pc'[q] = pc[q] /\ task'[q] = task[q] /\ bundle'[q] = bundle[q],
           \A pr \in Project : guard'[pr] = guard[pr] \/ guard[pr] \in {p, NoProc},
           writer' = writer \/ writer \in {p, NoProc},
           UNCHANGED <<issued, ledger, current, journal>>,
           Placed(p)'
    PROVE  AtomicInv'
<1>1. \A q \in Proc \ {p} : Placed(q)'
    BY Others
<1>2. \A pr \in Project : journal'[pr] # NoBundle => Sound(journal[pr], pr)'
    BY DEF AtomicInv, Sound, Planned, Boundary, IsImage
<1> QED
    BY <1>1, <1>2 DEF AtomicInv

(* One that moves the process on, without the leases. *)
LEMMA AtomicMove ==
    ASSUME AtomicInv, Typed', IInv', NEW p \in Proc,
           \A q \in Proc \ {p} : pc'[q] = pc[q],
           UNCHANGED <<guard, issued, ledger, current, journal, task, bundle>>,
           writer' = writer \/ (writer = p /\ pc'[p] \notin Writing),
           pc'[p] \in Holding => pc[p] \in Holding,
           pc'[p] \in Writing => pc[p] \in Writing,
           pc'[p] \in {"ready", "done"} => journal[Of(p)] = NoBundle,
           pc'[p] \in Preparing => pc[p] \in Preparing,
           pc'[p] \in Installing => pc[p] \in Installing,
           pc'[p] \in {"converge", "remove"} => pc[p] \in {"converge", "remove"}
    PROVE  AtomicInv'
<1>1. Placed(p) /\ Of(p)' = Of(p) /\ DOMAIN pc = Proc
    BY DEF AtomicInv, Of, Typed, Processes
<1>2. pc[p] \in Preparing => Sound(bundle[p], Of(p))' /\ Follows(p)'
    BY <1>1 DEF Placed, Sound, Planned, Boundary, IsImage, Follows, NextRev, LastId
<1>3. Placed(p)'
    BY <1>1, <1>2 DEF Placed
<1> QED
    BY <1>1, <1>3, AtomicQuiet

(* One lemma per step of a transition. *)
USE DEF Holding, Writing, Bundling, Bundled, Installing

LEMMA Engaged ==
    ASSUME AtomicInv, NEW p \in Proc
    PROVE  /\ Placed(p) /\ Of(p) \in Project
           /\ DOMAIN pc = Proc /\ DOMAIN task = Proc /\ DOMAIN bundle = Proc
           /\ DOMAIN guard = Project /\ DOMAIN journal = Project /\ DOMAIN current = Project
           /\ p # NoProc
BY NoProcAssumption DEF AtomicInv, Typed, Processes, Disk, Of, TaskOf

(* What is known of the numbers: n events, and room for them. *)
LEMMA Bounded ==
    ASSUME AtomicInv
    PROVE  \E n \in Nat : /\ n <= MaxEvents /\ n = Len(issued)
                          /\ Events(n) /\ Disk(n) /\ Processes(n) /\ Roomy
BY BoundAssumption DEF AtomicInv, Typed, Roomy, Events

LEMMA AtomicLeave ==
    ASSUME AtomicInv, Typed', IInv', NEW p \in Proc, Leave(p),
           UNCHANGED <<issued, ledger, current, journal>>
    PROVE  AtomicInv'
<1>1. /\ pc'[p] = "idle" /\ \A q \in Proc \ {p} : pc'[q] = pc[q] /\ task'[q] = task[q] /\ bundle'[q] = bundle[q]
      /\ \A pr \in Project : guard'[pr] = guard[pr] \/ guard[pr] \in {p, NoProc}
      /\ writer' = writer \/ writer \in {p, NoProc}
    BY Engaged DEF Leave
<1>2. Placed(p)'
    BY <1>1 DEF Placed
<1> QED
    BY <1>1, <1>2, AtomicQuiet

LEMMA AtomicBegin ==
    ASSUME AtomicInv, Typed', IInv', NEW p \in Proc, NEW pr \in Project, NEW kind, Begin(p, pr, kind)
    PROVE  AtomicInv'
<1>1. /\ pc'[p] \in {"observing", "waiting"}
      /\ \A q \in Proc \ {p} : pc'[q] = pc[q] /\ task'[q] = task[q] /\ bundle'[q] = bundle[q]
      /\ UNCHANGED <<issued, diskVars, leaseVars, bundle>>
    BY Engaged DEF Begin
<1>2. Placed(p)'
    BY <1>1 DEF Placed
<1> QED
    BY <1>1, <1>2, AtomicQuiet

LEMMA AtomicRecover ==
    ASSUME AtomicInv, Typed', IInv', NEW p \in Proc,
           \/ Observe(p) \/ Enter(p) \/ TakeJournal(p) \/ DropTemp(p) \/ Recovered(p)
    PROVE  AtomicInv'
<1>0. Placed(p) /\ Of(p) \in Project
    BY Engaged
<1>1. CASE Observe(p)
  <2>1. /\ pc'[p] = "waiting"
        /\ \A q \in Proc \ {p} : pc'[q] = pc[q] /\ task'[q] = task[q] /\ bundle'[q] = bundle[q]
        /\ UNCHANGED <<issued, diskVars, leaseVars, bundle>>
    BY <1>1, Engaged DEF Observe, Goto
  <2>2. Placed(p)'
    BY <2>1 DEF Placed
  <2> QED
    BY <2>1, <2>2, AtomicQuiet
<1>2. CASE Enter(p)
  <2>1. /\ pc' = [pc EXCEPT ![p] = "recovering"] /\ pc'[p] = "recovering"
        /\ guard[Of(p)] = NoProc /\ guard' = [guard EXCEPT ![Of(p)] = p]
        /\ UNCHANGED <<issued, diskVars, writer, task, bundle>> /\ Of(p)' = Of(p)
    BY <1>2, Engaged DEF Enter, Goto, Of
  <2>2. /\ \A q \in Proc \ {p} : pc'[q] = pc[q]
        /\ \A pr \in Project : guard'[pr] = guard[pr] \/ guard[pr] \in {p, NoProc}
        /\ guard'[Of(p)] = p
    BY <1>0, <2>1, Engaged
  <2>3. Placed(p)'
    BY <2>1, <2>2 DEF Placed
  <2> QED
    BY <2>1, <2>2, <2>3, AtomicQuiet
<1>3. CASE TakeJournal(p)
  <2>1. /\ pc[p] = "recovering" /\ pc' = [pc EXCEPT ![p] = "artifacts"] /\ pc'[p] = "artifacts"
        /\ writer = NoProc /\ writer' = p
        /\ bundle' = [bundle EXCEPT ![p] = journal[Of(p)]] /\ bundle'[p] = journal[Of(p)]
        /\ UNCHANGED <<issued, diskVars, guard, task>> /\ Of(p)' = Of(p)
    BY <1>3, Engaged DEF TakeJournal, Goto, Of, Steps
  <2>2. \A q \in Proc \ {p} : pc'[q] = pc[q] /\ bundle'[q] = bundle[q]
    BY <2>1, Engaged
  <2>3. Placed(p)'
    BY <1>0, <2>1 DEF Placed
  <2> QED
    BY <2>1, <2>2, <2>3, AtomicQuiet
<1>4. CASE DropTemp(p)
  <2>1. UNCHANGED <<issued, ledger, current, journal, guard, writer, pc, task, bundle>> /\ Of(p)' = Of(p)
    BY <1>4 DEF DropTemp, Of
  <2>2. pc[p] = "recovering" /\ pc'[p] = "recovering"
    BY <1>4 DEF DropTemp
  <2>3. Placed(p)'
    BY <1>0, <2>1, <2>2 DEF Placed
  <2> QED
    BY <2>1, <2>3, AtomicQuiet
<1>5. CASE Recovered(p)
  <2>1. /\ pc[p] = "recovering" /\ pc'[p] = "ready" /\ \A q \in Proc \ {p} : pc'[q] = pc[q]
        /\ journal[Of(p)] = NoBundle
        /\ UNCHANGED <<guard, writer, issued, ledger, current, journal, task, bundle>>
    BY <1>5, Engaged DEF Recovered, Goto
  <2> QED
    BY <2>1, AtomicMove
<1> QED
    BY <1>1, <1>2, <1>3, <1>4, <1>5

LEMMA AtomicPrepare ==
    ASSUME AtomicInv, Typed', IInv', NEW p \in Proc, Prepare(p)
    PROVE  AtomicInv'
<1>1. PICK n \in Nat : /\ n <= MaxEvents /\ n = Len(issued)
                       /\ Events(n) /\ Disk(n) /\ Processes(n) /\ Roomy
    BY Bounded
<1>2. PICK t \in Targets(p) :
          /\ issued' = Append(issued, [project |-> Of(p), kind |-> task[p].kind,
                                       session |-> t.session, rev |-> t.rev,
                                       closed |-> t.closed, base |-> task[p].base])
          /\ bundle' = [bundle EXCEPT ![p] =
                [image |-> Image(Replaced(p), t), over |-> Replaced(p), after |-> LastId]]
    BY DEF Prepare
<1>3. t.boundary = n + 1 => Boundary(Prev(p)) = task[p].base
    BY <1>1, TargetsTyped
<1> DEFINE e == [project |-> Of(p), kind |-> task[p].kind, session |-> t.session, rev |-> t.rev,
                 closed |-> t.closed, base |-> task[p].base]
           b == [image |-> Image(Replaced(p), t), over |-> Replaced(p), after |-> LastId]
<1>4. /\ pc[p] = "ready" /\ pc' = [pc EXCEPT ![p] = "temp"] /\ pc'[p] = "temp"
      /\ writer = NoProc /\ writer' = p
      /\ UNCHANGED <<diskVars, guard>> /\ bundle'[p] = b
      /\ \A q \in Proc \ {p} : pc'[q] = pc[q] /\ task'[q] = task[q] /\ bundle'[q] = bundle[q]
      /\ Of(p)' = Of(p) /\ task'[p].base = task[p].base
    BY <1>2, Engaged DEF Prepare, Goto, Of
<1>5. /\ Fresh = n + 1 /\ Len(issued') = n + 1 /\ issued'[n + 1] = e
      /\ \A i \in 1 .. n : issued'[i] = issued[i]
    BY <1>1, <1>2 DEF Fresh, Events
<1>6. \A q \in Proc \ {p} : Placed(q)'
    BY <1>4, Others
<1>7. \A pr \in Project : journal'[pr] # NoBundle => Sound(journal[pr], pr)'
  <2> SUFFICES ASSUME NEW pr \in Project, journal'[pr] # NoBundle PROVE Sound(journal[pr], pr)'
    OBVIOUS
  <2>1. journal[pr].image.event \in 1 .. n /\ journal'[pr] = journal[pr] /\ Sound(journal[pr], pr)
    BY <1>1, <1>4 DEF Disk, BundleOf, ImageOf, AtomicInv
  <2> QED
    BY <1>5, <2>1 DEF Sound, Planned, Boundary, IsImage
<1>8. Placed(p)'
  <2>1. b.image.event = n + 1 /\ b.image.boundary = t.boundary /\ b.over = current[Of(p)]
        /\ b.image.rev = NextRev(b.over) /\ b.image.count = Len(ledger) + 1 /\ b.after = LastId
        /\ b.image.prev = IF IsImage(b.over) THEN b.over.event ELSE 0
    BY <1>5 DEF Image, Replaced
  <2> HIDE DEF b
  <2>2. e.project = Of(p) /\ e.base = task[p].base
    OBVIOUS
  <2> HIDE DEF e
  <2>3. Sound(bundle[p], Of(p))'
    BY <1>3, <1>4, <1>5, <2>1, <2>2 DEF Sound, Planned, Boundary, IsImage, Prev
  <2>4. \A i \in 1 .. Len(ledger) : ledger[i] # n + 1
    BY <1>1 DEF Events
  <2>5. Follows(p)'
    BY <1>4, <1>5, <2>1, <2>4 DEF Follows, NextRev, LastId, IsImage
  <2> QED
    BY <1>4, <2>3, <2>5, Engaged DEF Placed
<1> QED
    BY <1>6, <1>7, <1>8 DEF AtomicInv

LEMMA AtomicCommit ==
    ASSUME AtomicInv, Typed', IInv', NEW p \in Proc, CommitJournal(p)
    PROVE  AtomicInv'
<1>1. /\ pc[p] = "rename" /\ pc' = [pc EXCEPT ![p] = "artifacts"] /\ pc'[p] = "artifacts"
      /\ journal' = [journal EXCEPT ![Of(p)] = bundle[p]]
      /\ UNCHANGED <<issued, ledger, current, guard, writer, task, bundle>> /\ Of(p)' = Of(p)
    BY Engaged DEF CommitJournal, Goto, Of, Steps
<1>2. Placed(p) /\ Of(p) \in Project /\ guard[Of(p)] = p /\ journal'[Of(p)] = bundle[p]
      /\ Sound(bundle[p], Of(p))
    BY <1>1, Engaged DEF Placed
<1>3. \A q \in Proc \ {p} : Placed(q)'
    BY <1>1, <1>2, Others, Engaged
<1>4. Placed(p)'
    BY <1>1, <1>2 DEF Placed
<1>5. \A pr \in Project : journal'[pr] # NoBundle => Sound(journal[pr], pr)'
    BY <1>1, <1>2, Engaged DEF AtomicInv, Sound, Planned, Boundary, IsImage
<1> QED
    BY <1>3, <1>4, <1>5 DEF AtomicInv

LEMMA AtomicAppendPlanned ==
    ASSUME AtomicInv, Typed', IInv', NEW p \in Proc, AppendPlanned(p)
    PROVE  AtomicInv'
<1>1. /\ pc[p] = "append" /\ pc' = [pc EXCEPT ![p] = "pointer"] /\ pc'[p] = "pointer"
      /\ UNCHANGED <<issued, current, journal, guard, writer, task, bundle>> /\ Of(p)' = Of(p)
    BY Engaged, Order DEF AppendPlanned, Of
<1>2. Placed(p) /\ writer = p
    BY <1>1, Engaged DEF Placed
<1>3. \A q \in Proc \ {p} : Placed(q)'
    BY <1>1, <1>2, Others, Engaged
<1>4. Placed(p)'
    BY <1>1, <1>2 DEF Placed
<1>5. \A pr \in Project : journal'[pr] # NoBundle => Sound(journal[pr], pr)'
    BY <1>1 DEF AtomicInv, Sound, Planned, Boundary, IsImage
<1> QED
    BY <1>3, <1>4, <1>5 DEF AtomicInv

LEMMA AtomicInstallCurrent ==
    ASSUME AtomicInv, Typed', IInv', NEW p \in Proc, InstallCurrent(p)
    PROVE  AtomicInv'
<1>1. /\ pc[p] = "current" /\ pc' = [pc EXCEPT ![p] = "converge"] /\ pc'[p] = "converge"
      /\ current' = [current EXCEPT ![Of(p)] = bundle[p].image]
      /\ UNCHANGED <<issued, ledger, journal, guard, writer, task, bundle>> /\ Of(p)' = Of(p)
    BY Engaged, Order DEF InstallCurrent, Of
<1>2. Placed(p) /\ writer = p /\ guard[Of(p)] = p /\ current'[Of(p)] = bundle[p].image
    BY <1>1, Engaged DEF Placed
<1>3. \A q \in Proc \ {p} : Placed(q)'
    BY <1>1, <1>2, Others, Engaged
<1>4. Placed(p)'
    BY <1>1, <1>2 DEF Placed
<1>5. \A pr \in Project : journal'[pr] # NoBundle => Sound(journal[pr], pr)'
    BY <1>1 DEF AtomicInv, Sound, Planned, Boundary, IsImage
<1> QED
    BY <1>3, <1>4, <1>5 DEF AtomicInv

LEMMA AtomicRemoveJournal ==
    ASSUME AtomicInv, Typed', IInv', NEW p \in Proc, RemoveJournal(p)
    PROVE  AtomicInv'
<1>1. /\ pc[p] = "remove" /\ pc' = [pc EXCEPT ![p] = "done"] /\ pc'[p] = "done"
      /\ journal' = [journal EXCEPT ![Of(p)] = NoBundle]
      /\ UNCHANGED <<issued, ledger, current, guard, writer, task, bundle>> /\ Of(p)' = Of(p)
    BY Engaged, Order DEF RemoveJournal, Of
<1>2. Placed(p) /\ guard[Of(p)] = p /\ journal'[Of(p)] = NoBundle
    BY <1>1, Engaged DEF Placed
<1>3. \A q \in Proc \ {p} : Placed(q)'
    BY <1>1, <1>2, Others, Engaged
<1>4. Placed(p)'
    BY <1>1, <1>2 DEF Placed
<1>5. \A pr \in Project : journal'[pr] # NoBundle => Sound(journal[pr], pr)'
    BY <1>1, <1>2, Engaged DEF AtomicInv, Sound, Planned, Boundary, IsImage
<1> QED
    BY <1>3, <1>4, <1>5 DEF AtomicInv

LEMMA AtomicAppendEvent ==
    ASSUME AtomicInv, Typed', IInv', NEW p \in Proc, NEW pr \in Project, AppendEvent(p, pr)
    PROVE  AtomicInv'
<1>1. PICK n \in Nat : /\ n <= MaxEvents /\ n = Len(issued)
                       /\ Events(n) /\ Disk(n) /\ Processes(n) /\ Roomy
    BY Bounded
<1>2. /\ writer = NoProc /\ pc[p] = "idle"
      /\ UNCHANGED <<current, journal, leaseVars, procVars>>
      /\ \A i \in 1 .. n : issued'[i] = issued[i]
    BY <1>1 DEF AppendEvent, Events
<1>3. \A q \in Proc \ {p} : Placed(q)'
    BY <1>2, Others
<1>4. Placed(p)'
    BY <1>2 DEF Placed
<1>5. \A r \in Project : journal'[r] # NoBundle => Sound(journal[r], r)'
  <2> SUFFICES ASSUME NEW r \in Project, journal'[r] # NoBundle PROVE Sound(journal[r], r)'
    OBVIOUS
  <2>1. journal[r].image.event \in 1 .. n /\ journal'[r] = journal[r] /\ Sound(journal[r], r)
    BY <1>1, <1>2 DEF Disk, BundleOf, ImageOf, AtomicInv
  <2> QED
    BY <1>2, <2>1 DEF Sound, Planned, Boundary, IsImage
<1> QED
    BY <1>3, <1>4, <1>5 DEF AtomicInv

LEMMA AtomicLose ==
    ASSUME AtomicInv, Typed', IInv', NEW pr \in Project, Lose(pr)
    PROVE  AtomicInv'
<1>1. PICK s \in {Absent, Damaged} : current' = [current EXCEPT ![pr] = s]
    BY DEF Lose
<1>2. UNCHANGED <<issued, ledger, journal, leaseVars, procVars>> /\ guard[pr] = NoProc
    BY DEF Lose
<1>3. \A q \in Proc : Placed(q)'
    BY <1>1, <1>2, Others, Engaged, NoProcAssumption
<1>4. \A r \in Project : journal'[r] # NoBundle => Sound(journal[r], r)'
    BY <1>2 DEF AtomicInv, Sound, Planned, Boundary, IsImage
<1> QED
    BY <1>3, <1>4 DEF AtomicInv

LEMMA AtomicNext == AtomicInv /\ [Next]_vars => AtomicInv'
<1> SUFFICES ASSUME AtomicInv, [Next]_vars PROVE AtomicInv'
    OBVIOUS
<1>0. Typed' /\ IInv'
    BY TypedStep, NextInvariant DEF AtomicInv
<1>1. ASSUME NEW p \in Proc, Step(p) PROVE AtomicInv'
  <2>1. CASE WriteTemp(p)
    <3>1. /\ pc[p] = "temp" /\ pc'[p] = "rename" /\ \A q \in Proc \ {p} : pc'[q] = pc[q]
          /\ writer' = writer
          /\ UNCHANGED <<guard, issued, ledger, current, journal, task, bundle>>
      BY Engaged, <2>1 DEF WriteTemp, Goto
    <3> QED
      BY <1>0, <3>1, AtomicMove
  <2>2. CASE InstallArtifacts(p)
    <3>1. /\ pc[p] = "artifacts" /\ pc'[p] = "append" /\ \A q \in Proc \ {p} : pc'[q] = pc[q]
          /\ writer' = writer
          /\ UNCHANGED <<guard, issued, ledger, current, journal, task, bundle>>
      BY Engaged, <2>2, Order DEF InstallArtifacts
    <3> QED
      BY <1>0, <3>1, AtomicMove
  <2>3. CASE InstallPointer(p)
    <3>1. /\ pc[p] = "pointer" /\ pc'[p] = "current" /\ \A q \in Proc \ {p} : pc'[q] = pc[q]
          /\ writer' = writer
          /\ UNCHANGED <<guard, issued, ledger, current, journal, task, bundle>>
      BY Engaged, <2>3, Order DEF InstallPointer
    <3> QED
      BY <1>0, <3>1, AtomicMove
  <2>4. CASE Converge(p)
    <3>1. /\ pc[p] = "converge" /\ pc'[p] = "remove" /\ \A q \in Proc \ {p} : pc'[q] = pc[q]
          /\ writer' \in {writer, NoProc}
          /\ UNCHANGED <<guard, issued, ledger, current, journal, task, bundle>>
      BY <2>4, Order, Engaged DEF Converge
    <3>2. writer = p
      BY <3>1, Engaged DEF Placed
    <3> QED
      BY <1>0, <3>1, <3>2, AtomicMove
  <2>5. CASE (Finish(p) \/ Return(p)) /\ Leave(p)
    BY <1>0, <2>5, AtomicLeave DEF Finish, Return
  <2>6. CASE Finish(p) /\ ~Leave(p)
    <3>1. /\ pc[p] = "done" /\ pc' = [pc EXCEPT ![p] = "recovering"] /\ pc'[p] = "recovering"
          /\ \A q \in Proc \ {p} : pc'[q] = pc[q] /\ task'[q] = task[q] /\ bundle'[q] = bundle[q]
          /\ UNCHANGED <<issued, diskVars, leaseVars>> /\ Of(p)' = Of(p)
      BY <2>6, Engaged DEF Finish, Goto, Of
    <3>2. Placed(p)'
      BY <3>1, Engaged DEF Placed
    <3> QED
      BY <1>0, <3>1, <3>2, AtomicQuiet
  <2> QED
    BY <1>0, <1>1, <2>1, <2>2, <2>3, <2>4, <2>5, <2>6, AtomicRecover, AtomicPrepare, AtomicCommit,
       AtomicAppendPlanned, AtomicInstallCurrent, AtomicRemoveJournal
    DEF Step, Return
<1>2. ASSUME NEW p \in Proc, Kill(p) PROVE AtomicInv'
    BY <1>0, <1>2, AtomicLeave DEF Kill
<1>3. ASSUME NEW p \in Proc, NEW pr \in Project, AppendEvent(p, pr) PROVE AtomicInv'
    BY <1>0, <1>3, AtomicAppendEvent
<1>4. ASSUME NEW p \in Proc, NEW pr \in Project, NEW kind, Begin(p, pr, kind) PROVE AtomicInv'
    BY <1>0, <1>4, AtomicBegin
<1>5. ASSUME NEW pr \in Project, Lose(pr) PROVE AtomicInv'
    BY <1>0, <1>5, AtomicLose
<1>6. CASE UNCHANGED vars
  <2>1. \A q \in Proc : Placed(q)'
    BY <1>6, Others, NoProcAssumption DEF vars
  <2>2. \A r \in Project : journal'[r] # NoBundle => Sound(journal[r], r)'
    BY <1>6 DEF vars, AtomicInv, Sound, Planned, Boundary, IsImage
  <2> QED
    BY <1>0, <2>1, <2>2 DEF AtomicInv
<1> QED
    BY <1>1, <1>2, <1>3, <1>4, <1>5, <1>6 DEF Next

LEMMA AtomicInit == Init => AtomicInv
<1> SUFFICES ASSUME Init PROVE AtomicInv
    OBVIOUS
<1>1. \A p \in Proc : pc[p] = "idle"
    BY DEF Init
<1>2. \A pr \in Project : journal[pr] = NoBundle
    BY DEF Init
<1> QED
    BY <1>1, <1>2, TypedInit, InitInvariant DEF AtomicInv, Placed

-----------------------------------------------------------------------------
(* The transitions of a project implement the abstract state.  A journal   *)
(* that is renamed into place is the commit, an event that changes no      *)
(* state is the record, and the rest is not seen from outside.             *)

(* The history of a project does not depend on events that it cannot hold. *)
LEMMA History ==
    ASSUME AtomicInv, NEW pr \in Project, issued' = issued, ledger' = ledger
    PROVE  RecordedOf(pr)' = RecordedOf(pr)
BY DEF RecordedOf

(* The events of a project's history have been issued. *)
LEMMA HistoryBounded ==
    ASSUME NEW n \in Nat, Events(n), Disk(n), NEW pr \in Project, n <= MaxEvents
    PROVE  Recorded[pr] \subseteq 1 .. n
<1>1. RecordedOf(pr) \subseteq 1 .. n
    BY DEF Events, RecordedOf, ToSet
<1>2. journal[pr] # NoBundle => journal[pr].image.event \in 1 .. n
    BY DEF Disk, BundleOf, ImageOf
<1> QED
    BY <1>1, <1>2 DEF Recorded

LEMMA PrepareUnseen ==
    ASSUME AtomicInv, NEW p \in Proc, Prepare(p)
    PROVE  UNCHANGED <<Committed, Recorded>>
<1>1. PICK n \in Nat : n <= MaxEvents /\ n = Len(issued) /\ Events(n)
    BY Bounded
<1>2. UNCHANGED <<ledger, current, journal>> /\ \A i \in 1 .. n : issued'[i] = issued[i]
    BY <1>1 DEF Prepare, Events
<1>3. \A pr \in Project : RecordedOf(pr)' = RecordedOf(pr)
    BY <1>1, <1>2 DEF RecordedOf, ToSet, Events
<1> QED
    BY <1>2, <1>3 DEF Committed, Recorded

LEMMA JournalCommits ==
    ASSUME AtomicInv, NEW p \in Proc, CommitJournal(p)
    PROVE  Atomic!Commit(Of(p))
<1> DEFINE pr == Of(p)
           b == bundle[p]
<1>1. PICK n \in Nat : n <= MaxEvents /\ n = Len(issued) /\ Events(n) /\ Disk(n) /\ Processes(n)
    BY Bounded
<1>2. /\ pc[p] = "rename" /\ journal' = [journal EXCEPT ![pr] = b]
      /\ UNCHANGED <<issued, ledger, current>>
    BY DEF CommitJournal, Goto
<1>3. journal[pr] = NoBundle /\ Follows(p) /\ pr \in Project
    BY <1>2, Engaged DEF Placed
<1>4. b \in BundleOf(n) /\ b # NoBundle /\ b.image \in ImageOf(n) /\ IsImage(b.image)
    BY <1>1, <1>2, Marked DEF Processes, BundleOf
<1>5. /\ b.over = current[pr] /\ b.image.rev = NextRev(b.over)
      /\ b.image.prev = IF IsImage(b.over) THEN b.over.event ELSE 0
      /\ b.image.event = n /\ \A i \in 1 .. Len(ledger) : ledger[i] # n
    BY <1>1, <1>3 DEF Follows
<1> HIDE DEF b, pr
<1>6. /\ Committed[pr] = current[pr] /\ Committed'[pr] = b.image
      /\ \A other \in Project \ {pr} : Committed'[other] = Committed[other]
    BY <1>2, <1>3, <1>4, Engaged DEF Committed
<1>7. \A other \in Project : RecordedOf(other)' = RecordedOf(other)
    BY <1>2, History
<1>8. Recorded[pr] = RecordedOf(pr) /\ Recorded' = [Recorded EXCEPT ![pr] = @ \cup {b.image.event}]
    BY <1>2, <1>3, <1>4, <1>7, Engaged DEF Recorded
<1>9. b.image.event \notin Recorded[pr]
    BY <1>1, <1>5, <1>8 DEF RecordedOf, ToSet, Events
<1>10. b.image # current[pr]
  <2>1. IsImage(b.over) => b.image.rev = b.over.rev + 1
    BY <1>5 DEF NextRev
  <2>2. b.image.rev \in 1 .. n
    BY <1>4 DEF ImageOf
  <2> QED
    BY <1>4, <1>5, <2>1, <2>2
<1>11. Atomic!Follows(b.image, current[pr])
    BY <1>5 DEF Atomic!Follows, NextRev, IsImage, Atomic!IsImage
<1> QED
    BY <1>3, <1>4, <1>6, <1>8, <1>9, <1>10, <1>11 DEF Atomic!Commit, IsImage, Atomic!IsImage, pr

LEMMA AppendUnseen ==
    ASSUME AtomicInv, NEW p \in Proc, AppendPlanned(p)
    PROVE  UNCHANGED <<Committed, Recorded>>
<1> DEFINE e == bundle[p].image.event
<1>1. PICK n \in Nat : n <= MaxEvents /\ Events(n) /\ Disk(n) /\ Processes(n)
    BY Bounded
<1>2. /\ pc[p] = "append" /\ UNCHANGED <<issued, current, journal>>
      /\ ledger' = ledger \/ ledger' = Append(ledger, e)
    BY Order DEF AppendPlanned
<1>3. /\ Of(p) \in Project /\ journal[Of(p)] = bundle[p]
      /\ bundle[p] \in BundleOf(n) /\ bundle[p] # NoBundle /\ e \in 1 .. n
    BY <1>1, <1>2, Engaged, Marked DEF Placed, Processes, BundleOf, ImageOf
<1>4. issued[e].project = Of(p)
    BY <1>3 DEF AtomicInv, Sound, Planned
<1> HIDE DEF e
<1>5. ToSet(ledger)' = ToSet(ledger) \/ ToSet(ledger)' = ToSet(ledger) \cup {e}
  <2>1. CASE ledger' = ledger
    BY <2>1 DEF ToSet
  <2>2. CASE ledger' = Append(ledger, e)
    <3>1. ledger \in Seq(1 .. n)
      BY <1>1 DEF Events
    <3>2. /\ Len(ledger') = Len(ledger) + 1 /\ ledger'[Len(ledger) + 1] = e
          /\ \A i \in 1 .. Len(ledger) : ledger'[i] = ledger[i]
          /\ DOMAIN ledger = 1 .. Len(ledger) /\ DOMAIN ledger' = 1 .. Len(ledger) + 1
          /\ Len(ledger) \in Nat
      BY <1>3, <2>2, <3>1
    <3> QED
      BY <3>2 DEF ToSet
  <2> QED
    BY <1>2, <2>1, <2>2
<1>6. \A pr \in Project : RecordedOf(pr)' \in {RecordedOf(pr), RecordedOf(pr) \cup (IF pr = Of(p) THEN {e} ELSE {})}
  <2> TAKE pr \in Project
  <2>1. CASE pr = Of(p)
    BY <1>2, <1>4, <1>5, <2>1 DEF RecordedOf
  <2>2. CASE pr # Of(p)
    BY <1>2, <1>4, <1>5, <2>2 DEF RecordedOf
  <2> QED
    BY <2>1, <2>2
<1>7. Recorded' = Recorded
    BY <1>2, <1>3, <1>6 DEF Recorded, e
<1> QED
    BY <1>2, <1>7 DEF Committed

LEMMA InstallUnseen ==
    ASSUME AtomicInv, NEW p \in Proc, InstallCurrent(p)
    PROVE  UNCHANGED <<Committed, Recorded>>
<1>1. /\ pc[p] = "current" /\ UNCHANGED <<issued, ledger, journal>>
      /\ current' = [current EXCEPT ![Of(p)] = bundle[p].image]
    BY Order DEF InstallCurrent
<1>2. PICK n \in Nat : n <= MaxEvents /\ Processes(n)
    BY Bounded
<1>3. journal[Of(p)] = bundle[p] /\ journal[Of(p)] # NoBundle
    BY <1>1, <1>2, Engaged, Marked DEF Placed, Processes
<1> QED
    BY <1>1, <1>3, History, Engaged DEF Committed, Recorded

LEMMA RemoveUnseen ==
    ASSUME AtomicInv, NEW p \in Proc, RemoveJournal(p)
    PROVE  UNCHANGED <<Committed, Recorded>>
<1> DEFINE pr == Of(p)
           e == bundle[p].image.event
<1>1. /\ pc[p] = "remove" /\ UNCHANGED <<issued, ledger, current>>
      /\ journal' = [journal EXCEPT ![pr] = NoBundle]
    BY Order DEF RemoveJournal
<1>2. PICK n \in Nat : n <= MaxEvents /\ Events(n) /\ Processes(n)
    BY Bounded
<1>3. /\ pr \in Project /\ journal[pr] = bundle[p] /\ current[pr] = bundle[p].image
      /\ bundle[p] \in BundleOf(n) /\ journal[pr] # NoBundle /\ IsImage(current[pr])
    BY <1>1, <1>2, Engaged, Marked DEF Placed, Processes, BundleOf
<1>4. issued[e].project = pr
    BY <1>3 DEF AtomicInv, Sound, Planned
<1>5. e \in ToSet(ledger)
  <2>1. current[pr].count <= Len(ledger) /\ ledger[current[pr].count] = e
    BY <1>3 DEF AtomicInv, IInv, CurrentInstalled, Ancestor
  <2>2. current[pr].count \in 1 .. n
    BY <1>3 DEF BundleOf, ImageOf
  <2> QED
    BY <1>2, <2>1, <2>2 DEF ToSet, Events
<1> HIDE DEF pr, e
<1>6. e \in RecordedOf(pr)
    BY <1>4, <1>5 DEF RecordedOf
<1>7. \A other \in Project : RecordedOf(other)' = RecordedOf(other)
    BY <1>1, History
<1>8. Recorded' = Recorded
    BY <1>1, <1>3, <1>6, <1>7, Engaged DEF Recorded, e
<1>9. Committed' = Committed
    BY <1>1, <1>3, Engaged DEF Committed
<1> QED
    BY <1>8, <1>9

LEMMA AppendRecords ==
    ASSUME AtomicInv, NEW p \in Proc, NEW pr \in Project, AppendEvent(p, pr)
    PROVE  Atomic!Record(pr)
<1>1. PICK n \in Nat : n <= MaxEvents /\ n = Len(issued) /\ Events(n) /\ Disk(n)
    BY Bounded
<1>2. /\ UNCHANGED <<current, journal>> /\ ledger' = Append(ledger, n + 1)
      /\ issued'[n + 1].project = pr /\ \A i \in 1 .. n : issued'[i] = issued[i]
    BY <1>1 DEF AppendEvent, Events, Fresh
<1>3. ToSet(ledger)' = ToSet(ledger) \cup {n + 1} /\ ToSet(ledger) \subseteq 1 .. n
  <2>1. ledger \in Seq(1 .. n) /\ ledger \in Seq(Nat) /\ n + 1 \in Nat
    BY <1>1 DEF Events
  <2>2. /\ Len(ledger') = Len(ledger) + 1 /\ ledger'[Len(ledger) + 1] = n + 1
        /\ \A i \in 1 .. Len(ledger) : ledger'[i] = ledger[i]
        /\ DOMAIN ledger = 1 .. Len(ledger) /\ DOMAIN ledger' = 1 .. Len(ledger) + 1
        /\ Len(ledger) \in Nat
    BY <1>2, <2>1
  <2>3. \A i \in 1 .. Len(ledger) : ledger[i] \in 1 .. n
    BY <2>1
  <2>4. ToSet(ledger) \subseteq 1 .. n
    BY <2>2, <2>3 DEF ToSet
  <2>5. ToSet(ledger)' = ToSet(ledger) \cup {n + 1}
    BY <2>2 DEF ToSet
  <2> QED
    BY <2>4, <2>5
<1>4. \A r \in Project : RecordedOf(r)' = IF r = pr THEN RecordedOf(r) \cup {n + 1} ELSE RecordedOf(r)
  <2> TAKE r \in Project
  <2>1. CASE r = pr
    BY <1>2, <1>3, <2>1 DEF RecordedOf
  <2>2. CASE r # pr
    BY <1>2, <1>3, <2>2 DEF RecordedOf
  <2> QED
    BY <2>1, <2>2
<1>5. Recorded' = [Recorded EXCEPT ![pr] = @ \cup {n + 1}]
    BY <1>2, <1>4 DEF Recorded
<1>6. n + 1 \notin Recorded[pr]
    BY <1>1, HistoryBounded
<1>7. n + 1 \in Recorded'[pr] \ Recorded[pr]
    BY <1>5, <1>6 DEF Recorded
<1> QED
    BY <1>2, <1>5, <1>7 DEF Atomic!Record, Committed

LEMMA LoseLoses ==
    ASSUME AtomicInv, NEW pr \in Project, Lose(pr)
    PROVE  Atomic!Lose(pr) \/ UNCHANGED <<Committed, Recorded>>
<1>1. PICK s \in {Absent, Damaged} : current' = [current EXCEPT ![pr] = s]
    BY DEF Lose
<1>2. UNCHANGED <<issued, ledger, journal>> /\ IsImage(current[pr])
    BY DEF Lose
<1>3. Recorded' = Recorded
    BY <1>2, History DEF Recorded
<1>4. DOMAIN current = Project
    BY DEF AtomicInv, IInv, Domains
<1>5. CASE journal[pr] = NoBundle
  <2>1. Committed' = [Committed EXCEPT ![pr] = s] /\ Committed[pr] = current[pr]
    BY <1>1, <1>2, <1>4, <1>5 DEF Committed
  <2> QED
    BY <1>2, <1>3, <2>1 DEF Atomic!Lose, IsImage, Atomic!IsImage
<1>6. CASE journal[pr] # NoBundle
  <2>1. Committed' = Committed
    BY <1>1, <1>2, <1>4, <1>6 DEF Committed
  <2> QED
    BY <1>3, <2>1
<1> QED
    BY <1>5, <1>6

(* The detailed transitions implement the abstract ones: a transition      *)
(* commits as one step, on exactly the state that it replaces, with an     *)
(* event that is new to the project (transition_project_current_state,     *)
(* recover_pending_bundles_under_guard).                                   *)
THEOREM Atomicity == Spec => ImplementsAtomic
<1>1. Init => Atomic!Init
  <2> SUFFICES ASSUME Init PROVE Atomic!Init
    OBVIOUS
  <2>1. \A pr \in Project : journal[pr] = NoBundle /\ current[pr] = Absent
    BY DEF Init
  <2>2. \A pr \in Project : RecordedOf(pr) = {}
    BY DEF Init, RecordedOf, ToSet
  <2> QED
    BY <2>1, <2>2 DEF Atomic!Init, Committed, Recorded
<1>2. AtomicInv /\ [Next]_vars => [Atomic!Next]_<<Committed, Recorded>>
  <2> SUFFICES ASSUME AtomicInv, [Next]_vars PROVE [Atomic!Next]_<<Committed, Recorded>>
    OBVIOUS
  <2>1. ASSUME UNCHANGED <<issued, ledger, current, journal>>
        PROVE  UNCHANGED <<Committed, Recorded>>
    BY <2>1, History DEF Committed, Recorded
  <2>2. ASSUME NEW p \in Proc, Step(p) PROVE [Atomic!Next]_<<Committed, Recorded>>
    <3>1. CASE CommitJournal(p)
      BY <3>1, JournalCommits, Engaged DEF Atomic!Next
    <3>2. CASE Prepare(p) \/ AppendPlanned(p) \/ InstallCurrent(p) \/ RemoveJournal(p)
      BY <3>2, PrepareUnseen, AppendUnseen, InstallUnseen, RemoveUnseen
    <3>3. CASE \/ Observe(p) \/ Enter(p) \/ TakeJournal(p) \/ DropTemp(p) \/ Recovered(p)
               \/ WriteTemp(p) \/ InstallArtifacts(p) \/ InstallPointer(p) \/ Converge(p)
               \/ Finish(p) \/ Return(p)
      <4>1. UNCHANGED <<issued, ledger, current, journal>>
        BY <3>3 DEF Observe, Enter, TakeJournal, DropTemp, Recovered, WriteTemp,
           InstallArtifacts, InstallPointer, Converge, Finish, Return
      <4> QED
        BY <2>1, <4>1
    <3> QED
      BY <2>2, <3>1, <3>2, <3>3 DEF Step
  <2>3. ASSUME NEW p \in Proc, Kill(p) PROVE [Atomic!Next]_<<Committed, Recorded>>
    BY <2>1, <2>3 DEF Kill
  <2>4. ASSUME NEW p \in Proc, NEW pr \in Project, AppendEvent(p, pr)
        PROVE  [Atomic!Next]_<<Committed, Recorded>>
    BY <2>4, AppendRecords DEF Atomic!Next
  <2>5. ASSUME NEW p \in Proc, NEW pr \in Project, NEW kind, Begin(p, pr, kind)
        PROVE  [Atomic!Next]_<<Committed, Recorded>>
    BY <2>1, <2>5 DEF Begin
  <2>6. ASSUME NEW pr \in Project, Lose(pr) PROVE [Atomic!Next]_<<Committed, Recorded>>
    BY <2>6, LoseLoses DEF Atomic!Next
  <2>7. CASE UNCHANGED vars
    BY <2>1, <2>7 DEF vars
  <2> QED
    BY <2>2, <2>3, <2>4, <2>5, <2>6, <2>7 DEF Next
<1> QED
    BY <1>1, <1>2, AtomicInit, AtomicNext, PTL DEF Spec, ImplementsAtomic, Atomic!Spec

-----------------------------------------------------------------------------
(* A compaction is installed over the state it was prepared on. *)
LEMMA ChainStep ==
    ASSUME AtomicInv, [Next]_vars, NEW pr \in Project,
           current'[pr] # current[pr], IsImage(current'[pr]),
           current'[pr].boundary = current'[pr].event
    PROVE  issued'[current'[pr].event].base = Boundary(current[pr])
<1>1. ASSUME NEW p \in Proc, InstallCurrent(p)
      PROVE  issued'[current'[pr].event].base = Boundary(current[pr])
  <2>1. /\ pc[p] = "current" /\ issued' = issued
        /\ current' = [current EXCEPT ![Of(p)] = bundle[p].image]
        /\ CurrentFits(bundle[p], Of(p))
    BY <1>1, Order DEF InstallCurrent
  <2>2. Of(p) = pr /\ current'[pr] = bundle[p].image
    BY <2>1, Engaged
  <2>3. PICK n \in Nat : n <= MaxEvents /\ Processes(n)
    BY Bounded
  <2>4. journal[pr] = bundle[p] /\ journal[pr] # NoBundle
    BY <2>1, <2>2, <2>3, <1>1, Engaged, Marked DEF Placed, Processes
  <2>5. Sound(bundle[p], pr)
    BY <2>4 DEF AtomicInv
  <2>6. current[pr] = bundle[p].over
    BY <2>1, <2>2 DEF CurrentFits
  <2> QED
    BY <2>1, <2>2, <2>5, <2>6 DEF Sound, Planned
<1>2. ASSUME NEW q \in Project, Lose(q) PROVE FALSE
  <2>1. PICK s \in {Absent, Damaged} : current' = [current EXCEPT ![q] = s]
    BY <1>2 DEF Lose
  <2>2. DOMAIN current = Project
    BY DEF AtomicInv, IInv, Domains
  <2> QED
    BY <2>1, <2>2 DEF IsImage
<1>3. ASSUME NEW p \in Proc, Step(p), ~InstallCurrent(p) PROVE current' = current
    BY <1>3 DEF Step, Observe, Enter, TakeJournal, DropTemp, Recovered, Prepare, WriteTemp,
       CommitJournal, InstallArtifacts, AppendPlanned, InstallPointer, Converge, RemoveJournal,
       Finish, Return
<1>4. CASE UNCHANGED vars
    BY <1>4 DEF vars
<1> QED
    BY <1>1, <1>2, <1>3, <1>4 DEF Next, Kill, AppendEvent, Begin

(* Compactions form one chain, whatever happens between the boundary that  *)
(* is read and the one that is written (compact_context and the            *)
(* compare-and-set of transition_project_current_state).                   *)
THEOREM OneChain == Spec => CompactionChain
<1>1. AtomicInv /\ [Next]_vars =>
        \A pr \in Project :
          /\ current'[pr] # current[pr] /\ IsImage(current'[pr])
          /\ current'[pr].boundary = current'[pr].event
          => issued'[current'[pr].event].base = Boundary(current[pr])
    BY ChainStep
<1> QED
    BY <1>1, AtomicInit, AtomicNext, PTL DEF Spec, CompactionChain

(* A current state is replaced only by what was built on it, and a damaged *)
(* one only behind a whole backup (transition_project_current_state,       *)
(* compact_context, the repair of reconcile).                              *)
THEOREM ReplacedRightly == Spec => ReplacementsKept
BY OneChain, BackupFirst DEF ReplacementsKept

-----------------------------------------------------------------------------
(* The story of a workflow.  Snapshot, checkpoint event and pointer of a   *)
(* revision are installed in this order, one revision at a time.           *)

Revisions(pr) == Cardinality(Checkpoints(pr))

Chain(pr) ==
    /\ \A i \in 1 .. Len(snaps[pr]) :
          issued[snaps[pr][i]].project = pr /\ issued[snaps[pr][i]].rev = i
    /\ pointer[pr] # 0 => /\ Rev(pointer[pr]) \in 1 .. Len(snaps[pr])
                          /\ snaps[pr][Rev(pointer[pr])] = pointer[pr]
    /\ Revisions(pr) \in Nat
    /\ Rev(pointer[pr]) <= Revisions(pr) /\ Revisions(pr) <= Len(snaps[pr])
    /\ \A i \in Checkpoints(pr) :
          /\ issued[ledger[i]].rev \in 1 .. Revisions(pr)
          /\ snaps[pr][issued[ledger[i]].rev] = ledger[i]
    /\ \A rev \in 1 .. Revisions(pr) : \E i \in Checkpoints(pr) : issued[ledger[i]].rev = rev

(* No revision is halfway. *)
Settled(pr) == Len(snaps[pr]) = Rev(pointer[pr])

(* What a bundle does to the workflow of its project. *)
Intends(b, pr) ==
    LET rev == Planned(b).rev
    IN  IF rev = 0 THEN Settled(pr) /\ b.image.wf \in {0, pointer[pr]}
        ELSE /\ rev \in Nat /\ b.image.wf = b.image.event
             /\ Rev(pointer[pr]) \in {rev - 1, rev} /\ Len(snaps[pr]) <= rev
             /\ Len(snaps[pr]) = rev => snaps[pr][rev] = b.image.event

(* Its event is installed where it was planned, or nowhere. *)
Single(b) == \A i \in 1 .. Len(ledger) : ledger[i] = b.image.event => i = b.image.count

Told(pr) ==
    IF journal[pr] # NoBundle THEN Intends(journal[pr], pr) /\ Single(journal[pr])
    ELSE /\ Settled(pr) /\ Workflow(current[pr]) \in {0, pointer[pr]}
         /\ IsImage(current[pr]) => derived[pr] >= current[pr].count

(* How far a process has brought it. *)
Stage(p) ==
    LET b == bundle[p]
        rev == Planned(b).rev
    IN  /\ pc[p] \in Preparing => Intends(b, Of(p))
        /\ pc[p] \in {"append", "pointer", "current", "converge", "remove"} /\ rev > 0 =>
              Len(snaps[Of(p)]) >= rev
        /\ pc[p] \in {"current", "converge", "remove"} /\ rev > 0 => Rev(pointer[Of(p)]) = rev
        /\ pc[p] = "remove" => derived[Of(p)] >= b.image.count

StoryInv ==
    /\ AtomicInv
    /\ \A pr \in Project : Chain(pr) /\ Told(pr)
    /\ \A p \in Proc : Stage(p)

(* The chain of a project rests on its snapshots, its pointer and the ledger. *)
LEMMA ChainSame ==
    ASSUME NEW pr, Chain(pr), UNCHANGED <<issued, ledger>>,
           snaps'[pr] = snaps[pr], pointer'[pr] = pointer[pr]
    PROVE  Chain(pr)'
<1>1. Checkpoints(pr)' = Checkpoints(pr) /\ Rev(pointer[pr])' = Rev(pointer[pr])
    BY DEF Checkpoints, Rev
<1>2. Revisions(pr)' = Revisions(pr)
    BY <1>1 DEF Revisions
<1> QED
    BY <1>1, <1>2 DEF Chain

(* What is told of a project rests on its own files and on its own events. *)
LEMMA StoryElsewhere ==
    ASSUME NEW n \in Nat, n <= MaxEvents, Events(n), Disk(n),
           NEW pr \in Project, Chain(pr), Told(pr),
           \A i \in 1 .. n : issued'[i] = issued[i],
           snaps'[pr] = snaps[pr], pointer'[pr] = pointer[pr], journal'[pr] = journal[pr],
           current'[pr] = current[pr], derived'[pr] \in Nat, derived'[pr] >= derived[pr],
           NEW e, \/ ledger' = ledger
                  \/ /\ ledger' = Append(ledger, e) /\ e \in Nat
                     /\ issued'[e].project # pr \/ issued'[e].rev = 0
                     /\ journal[pr] # NoBundle =>
                           e # journal[pr].image.event \/ Len(ledger) + 1 = journal[pr].image.count
    PROVE  Chain(pr)' /\ Told(pr)'
<1>1. /\ Len(ledger) \in Nat /\ \A i \in 1 .. Len(ledger) : ledger[i] \in 1 .. n
      /\ snaps[pr] \in Seq(1 .. n) /\ pointer[pr] \in 0 .. n
      /\ derived[pr] \in Nat
    BY DEF Events, Disk
<1>2. \/ Len(ledger') = Len(ledger)
      \/ Len(ledger') = Len(ledger) + 1 /\ ledger' = Append(ledger, e) /\ ledger'[Len(ledger) + 1] = e
    BY <1>1, AppendGrows DEF Events, IsSequence
<1>3. \A i \in 1 .. Len(ledger) : ledger'[i] = ledger[i]
  <2>1. ledger \in Seq(1 .. n) /\ IsSequence(ledger)
    BY DEF Events, IsSequence
  <2>2. \A i \in 1 .. Len(ledger) : Append(ledger, e)[i] = ledger[i]
    BY <2>1, AppendGrows DEF Grows
  <2> QED
    BY <2>2
<1>4. Checkpoints(pr)' = Checkpoints(pr)
  <2>1. CASE ledger' = ledger
    BY <1>1, <2>1 DEF Checkpoints
  <2>2. CASE ledger' # ledger
    <3>1. /\ Len(ledger') = Len(ledger) + 1 /\ ledger'[Len(ledger) + 1] = e
          /\ ~(issued'[e].project = pr /\ issued'[e].rev > 0)
      BY <1>2, <2>2, AppendGrows DEF Events, IsSequence
    <3>2. \A i \in 1 .. Len(ledger) + 1 : i \in 1 .. Len(ledger) \/ i = Len(ledger) + 1
      BY <1>1
    <3> QED
      BY <1>1, <1>3, <3>1, <3>2 DEF Checkpoints
  <2> QED
    BY <2>1, <2>2
<1>5. Revisions(pr)' = Revisions(pr)
    BY <1>4 DEF Revisions
<1>6. Rev(pointer[pr])' = Rev(pointer[pr])
  <2>1. pointer[pr] = 0 \/ pointer[pr] \in 1 .. n
    BY <1>1
  <2> QED
    BY <2>1 DEF Rev
<1>7. \A i \in Checkpoints(pr) : /\ i \in 1 .. Len(ledger) /\ ledger'[i] = ledger[i]
                                 /\ issued'[ledger[i]] = issued[ledger[i]]
    BY <1>1, <1>3 DEF Checkpoints
<1>8. Chain(pr)'
  <2>1. \A i \in 1 .. Len(snaps[pr]) : issued'[snaps[pr][i]] = issued[snaps[pr][i]]
    BY <1>1
  <2>2. \A i \in 1 .. Len(snaps'[pr]) :
            issued'[snaps'[pr][i]].project = pr /\ issued'[snaps'[pr][i]].rev = i
    BY <2>1 DEF Chain
  <2>3. /\ pointer'[pr] # 0 => /\ Rev(pointer[pr])' \in 1 .. Len(snaps'[pr])
                               /\ snaps'[pr][Rev(pointer[pr])'] = pointer'[pr]
        /\ Revisions(pr)' \in Nat
        /\ Rev(pointer[pr])' <= Revisions(pr)' /\ Revisions(pr)' <= Len(snaps'[pr])
    BY <1>5, <1>6 DEF Chain
  <2>4. \A i \in Checkpoints(pr)' :
            /\ issued'[ledger'[i]].rev \in 1 .. Revisions(pr)'
            /\ snaps'[pr][issued'[ledger'[i]].rev] = ledger'[i]
    <3>1. \A i \in Checkpoints(pr) : /\ issued[ledger[i]].rev \in 1 .. Revisions(pr)
                                     /\ snaps[pr][issued[ledger[i]].rev] = ledger[i]
      BY DEF Chain
    <3> QED
      BY <1>4, <1>5, <1>7, <3>1
  <2>5. \A rev \in 1 .. Revisions(pr)' : \E i \in Checkpoints(pr)' : issued'[ledger'[i]].rev = rev
    BY <1>4, <1>5, <1>7 DEF Chain
  <2> QED
    BY <2>2, <2>3, <2>4, <2>5 DEF Chain
<1>9. Told(pr)'
  <2>1. CASE journal[pr] = NoBundle
    <3>1. IsImage(current[pr]) => current[pr].count \in Nat
      BY Marked DEF Disk, ImageOf
    <3>2. IsImage(current[pr]) => derived'[pr] >= current[pr].count
      BY <1>1, <2>1, <3>1 DEF Told
    <3>3. Settled(pr)'
      BY <1>6, <2>1 DEF Told, Settled
    <3> QED
      BY <2>1, <3>2, <3>3 DEF Told, Workflow, IsImage
  <2>2. CASE journal[pr] # NoBundle
    <3>1. journal[pr] \in BundleOf(n) /\ journal[pr].image.event \in 1 .. n
      BY <2>2 DEF Disk, BundleOf, ImageOf
    <3>2. Intends(journal[pr], pr)'
      BY <1>6, <2>2, <3>1 DEF Told, Intends, Settled, Planned
    <3>3. Single(journal[pr])'
      BY <1>1, <1>2, <1>3, <2>2, <3>1, SMTT(30) DEF Told, Single
    <3> QED
      BY <2>2, <3>2, <3>3 DEF Told
  <2> QED
    BY <2>1, <2>2
<1> QED
    BY <1>8, <1>9

(* Nor does a process notice what happens in another project. *)
LEMMA StageElsewhere ==
    ASSUME StoryInv, NEW n \in Nat, Events(n), Disk(n), Processes(n), n <= MaxEvents,
           NEW q \in Proc, pc'[q] = pc[q], task'[q] = task[q], bundle'[q] = bundle[q],
           \A i \in 1 .. n : issued'[i] = issued[i],
           pc[q] \in Bundling \ {"done"} =>
               /\ snaps'[Of(q)] = snaps[Of(q)] /\ pointer'[Of(q)] = pointer[Of(q)]
               /\ derived'[Of(q)] \in Nat /\ derived'[Of(q)] >= derived[Of(q)]
    PROVE  Stage(q)'
<1>1. Stage(q) /\ Of(q)' = Of(q) /\ Of(q) \in Project
    BY Engaged DEF StoryInv, Of
<1>2. CASE pc[q] \in Bundling \ {"done"}
  <2>1. bundle[q] \in BundleOf(n)
    BY <1>2 DEF Processes
  <2>2. /\ bundle[q].image.event \in 1 .. n /\ pointer[Of(q)] \in 0 .. n /\ derived[Of(q)] \in Nat
        /\ bundle[q].image.count \in Nat
    BY <1>1, <2>1, SMTT(30) DEF BundleOf, ImageOf, Disk, Events
  <2>3. Planned(bundle[q])' = Planned(bundle[q]) /\ Rev(pointer[Of(q)])' = Rev(pointer[Of(q)])
    BY <1>1, <1>2, <2>2 DEF Planned, Rev
  <2> QED
    BY <1>1, <1>2, <2>2, <2>3 DEF Stage, Intends, Settled
<1>3. CASE pc[q] \notin Bundling \ {"done"}
    BY <1>3 DEF Stage
<1> QED
    BY <1>2, <1>3

(* A step that changes nothing of the story. *)
LEMMA StoryQuiet ==
    ASSUME StoryInv, AtomicInv', NEW p,
           \A q \in Proc \ {p} : pc'[q] = pc[q] /\ task'[q] = task[q] /\ bundle'[q] = bundle[q],
           UNCHANGED <<issued, ledger, snaps, pointer, journal, current, derived>>,
           p \in Proc => Stage(p)'
    PROVE  StoryInv'
<1>1. PICK n \in Nat : n <= MaxEvents /\ Events(n) /\ Disk(n) /\ Processes(n)
    BY Bounded DEF StoryInv
<1>2. \A pr \in Project : derived[pr] \in Nat
    BY <1>1 DEF Disk, Events
<1>3. ASSUME NEW pr \in Project PROVE Chain(pr)' /\ Told(pr)'
    BY <1>1, <1>2, StoryElsewhere DEF StoryInv
<1>4. ASSUME NEW q \in Proc \ {p} PROVE Stage(q)'
    BY <1>1, <1>2, <1>4, StageElsewhere, Engaged DEF StoryInv
<1> QED
    BY <1>3, <1>4 DEF StoryInv

(* A step of a process under the guard of its project. *)
LEMMA StoryGuarded ==
    ASSUME StoryInv, AtomicInv', NEW n \in Nat, n <= MaxEvents, Events(n), Disk(n), Processes(n),
           NEW p \in Proc, NEW own \in Project, guard[own] = p,
           \A q \in Proc \ {p} : pc'[q] = pc[q] /\ task'[q] = task[q] /\ bundle'[q] = bundle[q],
           \A i \in 1 .. n : issued'[i] = issued[i],
           \A pr \in Project \ {own} :
               /\ snaps'[pr] = snaps[pr] /\ pointer'[pr] = pointer[pr] /\ derived'[pr] = derived[pr]
               /\ journal'[pr] = journal[pr] /\ current'[pr] = current[pr],
           \/ ledger' = ledger
           \/ /\ ledger' = Append(ledger, bundle[p].image.event)
              /\ bundle[p].image.event \in 1 .. n
              /\ issued'[bundle[p].image.event].project = own,
           Chain(own)' /\ Told(own)', Stage(p)'
    PROVE  StoryInv'
<1>1. ASSUME NEW pr \in Project, pr # own PROVE Chain(pr)' /\ Told(pr)'
  <2>1. derived[pr] \in Nat /\ derived'[pr] = derived[pr]
    BY <1>1 DEF Disk, Events
  <2>2. journal[pr] # NoBundle => journal[pr].image.event \in 1 .. n /\ issued[journal[pr].image.event].project = pr
    BY DEF StoryInv, AtomicInv, Sound, Planned, Disk, BundleOf, ImageOf
  <2>3. \/ ledger' = ledger
        \/ /\ ledger' = Append(ledger, bundle[p].image.event) /\ bundle[p].image.event \in Nat
           /\ issued'[bundle[p].image.event].project # pr
           /\ journal[pr] # NoBundle => bundle[p].image.event # journal[pr].image.event
    BY <1>1, <2>2
  <2>4. Chain(pr) /\ Told(pr)
    BY DEF StoryInv
  <2> QED
    BY <1>1, <2>1, <2>3, <2>4, StoryElsewhere
<1>2. ASSUME NEW q \in Proc \ {p} PROVE Stage(q)'
  <2>1. CASE pc[q] \in Bundling \ {"done"}
    <3>1. guard[Of(q)] = q /\ Of(q) \in Project
      BY <2>1, Engaged DEF StoryInv, Placed
    <3>2. Of(q) # own /\ derived[Of(q)] \in Nat
      BY <3>1 DEF Disk, Events
    <3>3. /\ snaps'[Of(q)] = snaps[Of(q)] /\ pointer'[Of(q)] = pointer[Of(q)]
          /\ derived'[Of(q)] \in Nat /\ derived'[Of(q)] >= derived[Of(q)]
      BY <3>1, <3>2
    <3> QED
      BY <3>3, StageElsewhere
  <2>2. CASE pc[q] \notin Bundling \ {"done"}
    BY <2>2, StageElsewhere
  <2> QED
    BY <2>1, <2>2
<1> QED
    BY <1>1, <1>2 DEF StoryInv

(* What an operation asks of the workflow: nothing, or its next revision. *)
LEMMA TargetsFollow ==
    ASSUME NEW p \in Proc, NEW t \in Targets(p)
    PROVE  \/ t.rev = 0 /\ t.wf \in {0, pointer[Of(p)]}
           \/ t.rev = Rev(pointer[Of(p)]) + 1 /\ t.wf = Fresh
<1> DEFINE pr == Of(p)
           Goal == \/ t.rev = 0 /\ t.wf \in {0, pointer[pr]}
                   \/ t.rev = Rev(pointer[pr]) + 1 /\ t.wf = Fresh
<1>1. \A session, wf, boundary : t = Target(session, wf, boundary) /\ wf \in {0, pointer[pr]} => Goal
    BY DEF Target
<1>2. \A session, boundary, rev, closed :
          t = Checkpoint(session, boundary, rev, closed) /\ rev = Rev(pointer[pr]) + 1 => Goal
    BY DEF Checkpoint
<1>3. Active(pr) \in {0, pointer[pr]}
    BY DEF Active
<1> HIDE DEF Goal
<1>4. CASE Doing(p, "init") \/ Doing(p, "session") \/ Doing(p, "reconcile")
  <2>1. t = Target(Fresh, 0, 0)
    BY <1>4 DEF Targets, Doing, InitTargets, SessionTargets, ReconcileTargets
  <2> QED
    BY <1>1, <2>1 DEF Goal
<1>5. ASSUME NEW boundary, t \in RecordTarget(p, boundary) PROVE Goal
  <2>1. PICK wf \in {0, pointer[pr]} : t = Target(task[p].session, wf, boundary)
    BY <1>5 DEF RecordTarget
  <2> QED
    BY <1>1, <2>1
<1>6. CASE Doing(p, "record") \/ Doing(p, "compact")
    BY <1>5, <1>6 DEF Targets, Doing, RecordTargets, CompactTargets, Goal
<1>7. CASE Doing(p, "select")
  <2>1. PICK i \in 1 .. Len(ledger) :
            t = Target(issued[ledger[i]].session, Active(pr), Kept(pr, issued[ledger[i]].session))
    BY <1>7 DEF Targets, Doing, SelectTargets
  <2> QED
    BY <1>1, <1>3, <2>1 DEF Goal
<1>8. CASE Doing(p, "create")
  <2>1. PICK session : t = Checkpoint(session, Kept(pr, session), 1, FALSE) /\ pointer[pr] = 0
    BY <1>8 DEF Targets, Doing, CreateTargets
  <2>2. 1 = Rev(pointer[pr]) + 1
    BY <2>1 DEF Rev
  <2> QED
    BY <1>2, <2>1, <2>2 DEF Goal
<1>9. CASE Doing(p, "advance")
  <2>1. PICK w, c : /\ t = Checkpoint(issued[w].session, Kept(pr, issued[w].session), Rev(w) + 1, c)
                    /\ pointer[pr] = w
    BY <1>9 DEF Targets, Doing, AdvanceTargets
  <2> QED
    BY <1>2, <2>1 DEF Goal
<1>10. CASE Doing(p, "repair")
  <2>1. PICK w : t = Target(issued[w].session, Active(pr), Kept(pr, issued[w].session))
    BY <1>10 DEF Targets, Doing, RepairTargets
  <2> QED
    BY <1>1, <1>3, <2>1 DEF Goal
<1>11. \/ Doing(p, "init") \/ Doing(p, "record") \/ Doing(p, "compact") \/ Doing(p, "session")
       \/ Doing(p, "select") \/ Doing(p, "create") \/ Doing(p, "advance") \/ Doing(p, "repair")
       \/ Doing(p, "reconcile")
    BY DEF Targets
<1> QED
    BY <1>4, <1>6, <1>7, <1>8, <1>9, <1>10, <1>11 DEF Goal

(* What is known where a process stands. *)
LEMMA StoryFacts ==
    ASSUME StoryInv, NEW p \in Proc
    PROVE  \E n \in Nat, pr \in Project :
             /\ pr = Of(p) /\ n <= MaxEvents /\ n = Len(issued) /\ Events(n) /\ Disk(n) /\ Processes(n)
             /\ Chain(pr) /\ Told(pr) /\ Stage(p) /\ Placed(p)
             /\ pc[p] \in Holding => guard[pr] = p
             /\ snaps[pr] \in Seq(1 .. n) /\ pointer[pr] \in 0 .. n
             /\ derived[pr] \in 0 .. Len(ledger) /\ Len(ledger) \in Nat
             /\ \A e \in 1 .. n : issued[e].rev \in 0 .. n
             /\ pc[p] \in Bundling =>
                   /\ bundle[p] \in BundleOf(n) /\ bundle[p].image \in ImageOf(n)
                   /\ bundle[p].image.event \in 1 .. n /\ bundle[p] # NoBundle
                   /\ Planned(bundle[p]).rev \in 0 .. n /\ bundle[p].image.count \in 1 .. n
             /\ pc[p] \in Installing =>
                   /\ Intends(bundle[p], pr) /\ Single(bundle[p])
                   /\ Planned(bundle[p]).project = pr
<1>1. PICK n \in Nat : n <= MaxEvents /\ n = Len(issued) /\ Events(n) /\ Disk(n) /\ Processes(n)
    BY Bounded DEF StoryInv
<1>2. Of(p) \in Project /\ Placed(p) /\ (pc[p] \in Holding => guard[Of(p)] = p)
    BY Engaged DEF StoryInv, Placed
<1>3. Chain(Of(p)) /\ Told(Of(p)) /\ Stage(p)
    BY <1>2 DEF StoryInv
<1>4. /\ snaps[Of(p)] \in Seq(1 .. n) /\ pointer[Of(p)] \in 0 .. n
      /\ derived[Of(p)] \in 0 .. Len(ledger) /\ Len(ledger) \in Nat
    BY <1>1, <1>2 DEF Disk, Events
<1>5. \A e \in 1 .. n : issued[e].rev \in 0 .. n
  <2>1. \A e \in 1 .. n : issued[e] \in EntryOf(n)
    BY <1>1 DEF Events
  <2> QED
    BY <2>1 DEF EntryOf
<1>6. pc[p] \in Bundling =>
          /\ bundle[p] \in BundleOf(n) /\ bundle[p].image \in ImageOf(n)
          /\ bundle[p].image.event \in 1 .. n /\ bundle[p] # NoBundle
          /\ Planned(bundle[p]).rev \in 0 .. n /\ bundle[p].image.count \in 1 .. n
    BY <1>1, <1>5, Marked, SMTT(30) DEF Processes, BundleOf, ImageOf, Planned
<1>7. pc[p] \in Installing =>
          /\ Intends(bundle[p], Of(p)) /\ Single(bundle[p]) /\ Planned(bundle[p]).project = Of(p)
  <2> SUFFICES ASSUME pc[p] \in Installing
               PROVE  /\ Intends(bundle[p], Of(p)) /\ Single(bundle[p])
                      /\ Planned(bundle[p]).project = Of(p)
    OBVIOUS
  <2>1. journal[Of(p)] = bundle[p] /\ journal[Of(p)] # NoBundle
    BY <1>2, <1>6 DEF Placed
  <2>2. Sound(bundle[p], Of(p))
    BY <1>2, <2>1 DEF StoryInv, AtomicInv
  <2> QED
    BY <1>3, <2>1, <2>2 DEF Told, Sound
<1> QED
    BY <1>1, <1>2, <1>3, <1>4, <1>5, <1>6, <1>7

LEMMA StoryPrepare ==
    ASSUME StoryInv, AtomicInv', NEW p \in Proc, Prepare(p)
    PROVE  StoryInv'
<1>0. PICK n \in Nat, pr \in Project :
          /\ pr = Of(p) /\ n <= MaxEvents /\ n = Len(issued) /\ Events(n) /\ Disk(n) /\ Processes(n)
          /\ Chain(pr) /\ Told(pr) /\ Placed(p)
          /\ pc[p] \in Holding => guard[pr] = p
          /\ snaps[pr] \in Seq(1 .. n) /\ pointer[pr] \in 0 .. n
          /\ derived[pr] \in 0 .. Len(ledger) /\ Len(ledger) \in Nat
          /\ \A e \in 1 .. n : issued[e].rev \in 0 .. n
    BY StoryFacts
<1>1. PICK t \in Targets(p) :
          /\ issued' = Append(issued, [project |-> Of(p), kind |-> task[p].kind,
                                       session |-> t.session, rev |-> t.rev,
                                       closed |-> t.closed, base |-> task[p].base])
          /\ bundle' = [bundle EXCEPT ![p] =
                [image |-> Image(Replaced(p), t), over |-> Replaced(p), after |-> LastId]]
    BY <1>0 DEF Prepare
<1>2. /\ pc[p] = "ready" /\ pc'[p] = "temp" /\ UNCHANGED <<diskVars, guard>>
      /\ \A q \in Proc \ {p} : pc'[q] = pc[q] /\ task'[q] = task[q] /\ bundle'[q] = bundle[q]
      /\ Of(p)' = pr
      /\ bundle'[p].image.event = n + 1 /\ bundle'[p].image.wf = t.wf
    BY <1>0, <1>1, Engaged DEF StoryInv, Prepare, Goto, Of, Image, Fresh
<1>3. /\ \A i \in 1 .. n : issued'[i] = issued[i]
      /\ issued'[n + 1].rev = t.rev
    BY <1>0, <1>1 DEF Events
<1>4. Chain(pr)' /\ Told(pr)'
  <2>1. derived'[pr] \in Nat /\ derived'[pr] >= derived[pr]
    BY <1>0, <1>2
  <2> QED
    BY <1>0, <1>2, <1>3, <2>1, StoryElsewhere
<1>5. journal[pr] = NoBundle /\ Settled(pr) /\ guard[pr] = p
    BY <1>0, <1>2 DEF Placed, Told
<1>6. Rev(pointer[pr])' = Rev(pointer[pr]) /\ Rev(pointer[pr]) \in Nat
  <2>1. pointer[pr] = 0 \/ pointer[pr] \in 1 .. n
    BY <1>0
  <2> QED
    BY <1>0, <1>2, <1>3, <2>1 DEF Rev
<1>7. Intends(bundle[p], pr)'
  <2>1. Planned(bundle[p])'.rev = t.rev
    BY <1>2, <1>3 DEF Planned
  <2>2. CASE t.rev = 0 /\ t.wf \in {0, pointer[pr]}
    BY <1>2, <1>5, <1>6, <2>1, <2>2 DEF Intends, Settled
  <2>3. CASE t.rev = Rev(pointer[pr]) + 1 /\ t.wf = Fresh
    <3>1. Len(snaps'[pr]) = t.rev - 1 /\ Rev(pointer[pr])' = t.rev - 1 /\ t.rev \in Nat /\ t.rev # 0
      BY <1>2, <1>5, <1>6, <2>3 DEF Settled
    <3>2. bundle'[p].image.wf = bundle'[p].image.event
      BY <1>0, <1>2, <2>3 DEF Fresh
    <3> QED
      BY <2>1, <3>1, <3>2 DEF Intends
  <2> QED
    BY <1>0, <2>2, <2>3, TargetsFollow
<1>8. Stage(p)'
    BY <1>2, <1>7 DEF Stage
<1>9. \A other \in Project \ {pr} :
          /\ snaps'[other] = snaps[other] /\ pointer'[other] = pointer[other]
          /\ derived'[other] = derived[other]
          /\ journal'[other] = journal[other] /\ current'[other] = current[other]
    BY <1>2
<1>10. ledger' = ledger
    BY <1>2
<1> QED
    BY <1>0, <1>2, <1>3, <1>4, <1>5, <1>8, <1>9, <1>10, StoryGuarded

LEMMA StoryCommit ==
    ASSUME StoryInv, AtomicInv', NEW p \in Proc, CommitJournal(p)
    PROVE  StoryInv'
<1>0. PICK n \in Nat, pr \in Project :
          /\ pr = Of(p) /\ n <= MaxEvents /\ n = Len(issued) /\ Events(n) /\ Disk(n) /\ Processes(n)
          /\ Chain(pr) /\ Stage(p) /\ Placed(p)
          /\ pc[p] \in Holding => guard[pr] = p
          /\ pc[p] \in Bundling => bundle[p] # NoBundle
    BY StoryFacts
<1>1. /\ pc[p] = "rename" /\ pc'[p] = "artifacts"
      /\ \A q \in Proc \ {p} : pc'[q] = pc[q] /\ task'[q] = task[q] /\ bundle'[q] = bundle[q]
      /\ journal' = [journal EXCEPT ![pr] = bundle[p]]
      /\ UNCHANGED <<issued, ledger, current, snaps, pointer, derived, task, bundle>>
    BY <1>0, Engaged DEF StoryInv, CommitJournal, Goto, Steps
<1>2. /\ journal'[pr] = bundle[p] /\ bundle[p] # NoBundle /\ guard[pr] = p
      /\ \A other \in Project \ {pr} : journal'[other] = journal[other]
    BY <1>0, <1>1, Engaged DEF StoryInv
<1>3. Intends(bundle[p], pr) /\ Follows(p)
    BY <1>0, <1>1 DEF Stage, Placed
<1>4. Single(bundle[p])
    BY <1>3, SMTT(30) DEF Follows, Single
<1>5. Told(pr)'
    BY <1>1, <1>2, <1>3, <1>4 DEF Told, Intends, Settled, Planned, Rev, Single
<1>6. Chain(pr)'
    BY <1>0, <1>1, ChainSame
<1>7. Stage(p)'
    BY <1>1 DEF Stage
<1> QED
    BY <1>0, <1>1, <1>2, <1>5, <1>6, <1>7, StoryGuarded

LEMMA StoryArtifacts ==
    ASSUME StoryInv, AtomicInv', NEW p \in Proc, InstallArtifacts(p)
    PROVE  StoryInv'
<1>0. PICK n \in Nat, pr \in Project :
          /\ pr = Of(p) /\ n <= MaxEvents /\ Events(n) /\ Disk(n) /\ Processes(n)
          /\ Chain(pr) /\ Told(pr) /\ Placed(p)
          /\ pc[p] \in Holding => guard[pr] = p
          /\ snaps[pr] \in Seq(1 .. n) /\ pointer[pr] \in 0 .. n
          /\ pc[p] \in Bundling =>
                /\ bundle[p] # NoBundle /\ bundle[p].image.event \in 1 .. n
                /\ Planned(bundle[p]).rev \in 0 .. n
          /\ pc[p] \in Installing =>
                Intends(bundle[p], pr) /\ Single(bundle[p]) /\ Planned(bundle[p]).project = pr
    BY StoryFacts
<1> DEFINE e == bundle[p].image.event
           rev == Planned(bundle[p]).rev
<1>1. /\ pc[p] = "artifacts" /\ pc'[p] = "append"
      /\ \A q \in Proc \ {p} : pc'[q] = pc[q] /\ task'[q] = task[q] /\ bundle'[q] = bundle[q]
      /\ SnapshotFits(bundle[p], pr)
      /\ snaps' = IF rev = Len(snaps[pr]) + 1 THEN [snaps EXCEPT ![pr] = Append(@, e)] ELSE snaps
      /\ UNCHANGED <<issued, ledger, current, journal, pointer, derived, task, bundle>>
    BY <1>0, Engaged, Order DEF StoryInv, InstallArtifacts
<1>2. /\ Intends(bundle[p], pr) /\ Single(bundle[p]) /\ Planned(bundle[p]).project = pr
      /\ bundle[p] # NoBundle /\ e \in 1 .. n /\ rev \in 0 .. n /\ guard[pr] = p
      /\ journal[pr] = bundle[p]
    BY <1>0, <1>1 DEF Placed
<1>3. /\ issued[e].project = pr /\ issued[e].rev = rev /\ rev' = rev /\ Of(p)' = pr
      /\ Rev(pointer[pr])' = Rev(pointer[pr])
    BY <1>0, <1>1, <1>2 DEF Planned, Of, Rev
<1>4. \A other \in Project \ {pr} : snaps'[other] = snaps[other]
    BY <1>1
<1> HIDE DEF e, rev
<1>5. \/ /\ rev = Len(snaps[pr]) + 1 /\ Len(snaps'[pr]) = rev /\ snaps'[pr][rev] = e
         /\ \A i \in 1 .. Len(snaps[pr]) : snaps'[pr][i] = snaps[pr][i]
      \/ rev # Len(snaps[pr]) + 1 /\ snaps'[pr] = snaps[pr]
  <2>1. CASE rev = Len(snaps[pr]) + 1
    <3>1. snaps'[pr] = Append(snaps[pr], e)
      BY <1>0, <1>1, <2>1 DEF Disk
    <3>2. /\ Len(Append(snaps[pr], e)) = Len(snaps[pr]) + 1
          /\ Append(snaps[pr], e)[Len(snaps[pr]) + 1] = e
          /\ \A i \in 1 .. Len(snaps[pr]) : Append(snaps[pr], e)[i] = snaps[pr][i]
      BY <1>0, <1>2
    <3> QED
      BY <2>1, <3>1, <3>2
  <2>2. CASE rev # Len(snaps[pr]) + 1
    BY <1>1, <2>2
  <2> QED
    BY <2>1, <2>2
<1>6. Len(snaps[pr]) \in Nat /\ Len(snaps'[pr]) \in Nat /\ Len(snaps'[pr]) >= Len(snaps[pr])
      /\ \A i \in 1 .. Len(snaps[pr]) : snaps'[pr][i] = snaps[pr][i]
    BY <1>0, <1>2, <1>5
<1>7. Checkpoints(pr)' = Checkpoints(pr) /\ Revisions(pr)' = Revisions(pr)
    BY <1>1 DEF Checkpoints, Revisions
<1>8. Chain(pr)'
  <2>1. \A i \in 1 .. Len(snaps'[pr]) :
            issued'[snaps'[pr][i]].project = pr /\ issued'[snaps'[pr][i]].rev = i
    <3>1. \A i \in 1 .. Len(snaps[pr]) :
              issued'[snaps'[pr][i]].project = pr /\ issued'[snaps'[pr][i]].rev = i
      BY <1>0, <1>1, <1>6, SMTT(30) DEF Chain
    <3>2. \A i \in 1 .. Len(snaps'[pr]) : i \in 1 .. Len(snaps[pr]) \/ (i = rev /\ snaps'[pr][i] = e)
      BY <1>2, <1>5, <1>6
    <3> QED
      BY <1>1, <1>3, <3>1, <3>2
  <2>2. pointer[pr] # 0 => /\ Rev(pointer[pr])' \in 1 .. Len(snaps'[pr])
                           /\ snaps'[pr][Rev(pointer[pr])'] = pointer[pr]
    BY <1>0, <1>3, <1>6, SMTT(30) DEF Chain
  <2>3. /\ Revisions(pr) \in Nat /\ Rev(pointer[pr])' <= Revisions(pr)
        /\ Revisions(pr) <= Len(snaps'[pr])
    BY <1>0, <1>3, <1>6 DEF Chain
  <2>4. \A i \in Checkpoints(pr) :
            /\ issued[ledger[i]].rev \in 1 .. Revisions(pr)
            /\ snaps'[pr][issued[ledger[i]].rev] = ledger[i]
    <3> TAKE i \in Checkpoints(pr)
    <3>1. /\ issued[ledger[i]].rev \in 1 .. Revisions(pr)
          /\ snaps[pr][issued[ledger[i]].rev] = ledger[i]
          /\ Revisions(pr) \in Nat /\ Revisions(pr) <= Len(snaps[pr])
      BY <1>0 DEF Chain
    <3>2. issued[ledger[i]].rev \in 1 .. Len(snaps[pr])
      BY <1>6, <3>1
    <3> QED
      BY <1>6, <3>1, <3>2
  <2>5. \A r \in 1 .. Revisions(pr) : \E i \in Checkpoints(pr) : issued[ledger[i]].rev = r
    BY <1>0 DEF Chain
  <2> QED
    BY <1>1, <1>7, <2>1, <2>2, <2>3, <2>4, <2>5 DEF Chain
<1>9. Told(pr)'
  <2>1. CASE rev = 0
    <3>1. snaps'[pr] = snaps[pr]
      BY <1>5, <1>6, <2>1
    <3> QED
      BY <1>1, <1>2, <1>3, <2>1, <3>1 DEF Told, Intends, Settled, Single, Planned, rev
  <2>2. CASE rev # 0
    <3>1. /\ rev \in Nat /\ bundle[p].image.wf = e
          /\ Rev(pointer[pr]) \in {rev - 1, rev} /\ Len(snaps[pr]) <= rev
          /\ Len(snaps[pr]) = rev => snaps[pr][rev] = e
      BY <1>2, <2>2 DEF Intends, e, rev
    <3>2. Len(snaps'[pr]) <= rev /\ (Len(snaps'[pr]) = rev => snaps'[pr][rev] = e)
      BY <1>5, <1>6, <3>1
    <3>3. Intends(bundle[p], pr)'
      BY <1>1, <1>3, <2>2, <3>1, <3>2 DEF Intends, e, rev
    <3> QED
      BY <1>1, <1>2, <3>3 DEF Told, Single
  <2> QED
    BY <2>1, <2>2
<1>10. Stage(p)'
  <2>1. rev > 0 => Len(snaps'[pr]) >= rev
    BY <1>1, <1>2, <1>5, <1>6 DEF SnapshotFits, rev
  <2> QED
    BY <1>1, <1>3, <2>1 DEF Stage, rev
<1> QED
    BY <1>0, <1>1, <1>2, <1>4, <1>8, <1>9, <1>10, StoryGuarded

LEMMA StoryAppend ==
    ASSUME StoryInv, AtomicInv', NEW p \in Proc, AppendPlanned(p)
    PROVE  StoryInv'
<1>0. PICK n \in Nat, pr \in Project :
          /\ pr = Of(p) /\ n <= MaxEvents /\ Events(n) /\ Disk(n) /\ Processes(n)
          /\ Chain(pr) /\ Told(pr) /\ Placed(p) /\ Stage(p)
          /\ pc[p] \in Holding => guard[pr] = p
          /\ snaps[pr] \in Seq(1 .. n) /\ pointer[pr] \in 0 .. n
          /\ derived[pr] \in 0 .. Len(ledger) /\ Len(ledger) \in Nat
          /\ pc[p] \in Bundling =>
                /\ bundle[p] # NoBundle /\ bundle[p].image.event \in 1 .. n
                /\ Planned(bundle[p]).rev \in 0 .. n /\ bundle[p].image.count \in 1 .. n
          /\ pc[p] \in Installing =>
                Intends(bundle[p], pr) /\ Single(bundle[p]) /\ Planned(bundle[p]).project = pr
    BY StoryFacts
<1> DEFINE e == bundle[p].image.event
           rev == Planned(bundle[p]).rev
<1>1. /\ pc[p] = "append" /\ pc'[p] = "pointer"
      /\ \A q \in Proc \ {p} : pc'[q] = pc[q] /\ task'[q] = task[q] /\ bundle'[q] = bundle[q]
      /\ AppendFits(bundle[p])
      /\ ledger' = IF Installed(bundle[p]) THEN ledger ELSE Append(ledger, e)
      /\ UNCHANGED <<issued, current, journal, snaps, pointer, derived, task, bundle>>
    BY <1>0, Engaged, Order DEF StoryInv, AppendPlanned
<1>2. /\ Intends(bundle[p], pr) /\ Single(bundle[p]) /\ Planned(bundle[p]).project = pr
      /\ bundle[p] # NoBundle /\ e \in 1 .. n /\ rev \in 0 .. n /\ guard[pr] = p
      /\ journal[pr] = bundle[p] /\ (rev > 0 => Len(snaps[pr]) >= rev)
    BY <1>0, <1>1 DEF Placed, Stage
<1>3. /\ issued[e].project = pr /\ issued[e].rev = rev /\ rev' = rev /\ Of(p)' = pr
      /\ Rev(pointer[pr])' = Rev(pointer[pr])
    BY <1>0, <1>1, <1>2 DEF Planned, Of, Rev
<1>4. Stage(p)'
    BY <1>1, <1>2, <1>3 DEF Stage
<1>5. CASE ledger' = ledger \/ rev = 0
  <2>1. derived'[pr] \in Nat /\ derived'[pr] >= derived[pr] /\ e \in Nat
    BY <1>0, <1>1, <1>2
  <2>2. \/ ledger' = ledger
        \/ /\ ledger' = Append(ledger, e)
           /\ issued'[e].project # pr \/ issued'[e].rev = 0
           /\ Len(ledger) + 1 = journal[pr].image.count
    BY <1>1, <1>2, <1>3, <1>5 DEF AppendFits
  <2>3. Chain(pr)' /\ Told(pr)'
    BY <1>0, <1>1, <2>1, <2>2, StoryElsewhere
  <2> QED
    BY <1>0, <1>1, <1>2, <1>3, <1>4, <2>3, StoryGuarded
<1>6. CASE ledger' # ledger /\ rev # 0
  <2> DEFINE m == Len(ledger) + 1
  <2>1. /\ ~Installed(bundle[p]) /\ bundle[p].image.count = m /\ ledger' = Append(ledger, e)
        /\ Len(ledger') = m /\ ledger'[m] = e /\ \A i \in 1 .. Len(ledger) : ledger'[i] = ledger[i]
    <3>1. /\ ~Installed(bundle[p]) /\ bundle[p].image.count = m /\ ledger' = Append(ledger, e)
      BY <1>1, <1>6 DEF AppendFits
    <3>2. ledger \in Seq(1 .. n) /\ e \in 1 .. n
      BY <1>0, <1>2 DEF Events
    <3> HIDE DEF e
    <3>3. /\ Len(Append(ledger, e)) = m /\ Append(ledger, e)[m] = e
          /\ \A i \in 1 .. Len(ledger) : Append(ledger, e)[i] = ledger[i]
      BY <3>2
    <3> QED
      BY <3>1, <3>3
  <2>2. m \in Nat /\ m \notin Checkpoints(pr) /\ m \notin 1 .. Len(ledger)
    BY <1>0 DEF Checkpoints
  <2> HIDE DEF e, m, rev
  <2>3. Checkpoints(pr)' = Checkpoints(pr) \cup {m}
    <3>1. 1 .. Len(ledger') = 1 .. Len(ledger) \cup {m}
      BY <1>0, <2>1 DEF m
    <3>2. issued'[ledger'[m]].project = pr /\ issued'[ledger'[m]].rev > 0
      BY <1>1, <1>2, <1>3, <1>6, <2>1
    <3> QED
      BY <1>1, <2>1, <2>2, <3>1, <3>2 DEF Checkpoints
  <2>4. Revisions(pr)' = Revisions(pr) + 1
    <3>1. IsFiniteSet(1 .. Len(ledger)) /\ Checkpoints(pr) \subseteq 1 .. Len(ledger)
      BY <1>0, FS_Interval DEF Checkpoints
    <3>2. IsFiniteSet(Checkpoints(pr))
      BY <3>1, FS_Subset
    <3> QED
      BY <2>2, <2>3, <3>2, FS_AddElement DEF Revisions
  <2>5. /\ rev \in Nat /\ bundle[p].image.wf = e
        /\ Rev(pointer[pr]) \in {rev - 1, rev} /\ Len(snaps[pr]) = rev /\ snaps[pr][rev] = e
    BY <1>0, <1>2, <1>6 DEF Intends, e, rev
  <2>6. Revisions(pr) = rev - 1
    <3>1. Revisions(pr) \in Nat /\ Revisions(pr) >= rev - 1 /\ Revisions(pr) <= rev
      BY <1>0, <2>5 DEF Chain
    <3>2. ASSUME Revisions(pr) = rev PROVE FALSE
      <4>1. PICK i \in Checkpoints(pr) : issued[ledger[i]].rev = rev
        BY <1>0, <1>2, <1>6, <2>5, <3>2 DEF Chain
      <4>2. ledger[i] = e /\ i \in 1 .. Len(ledger)
        BY <1>0, <2>5, <4>1, SMTT(30) DEF Chain, Checkpoints
      <4>3. i = m
        BY <1>2, <2>1, <4>2 DEF Single, e
      <4> QED
        BY <2>2, <4>2, <4>3
    <3> QED
      BY <2>5, <3>1, <3>2
  <2>7. Chain(pr)'
    <3>1. \A i \in Checkpoints(pr) : i # m /\ ledger'[i] = ledger[i]
      BY <2>1, <2>2 DEF Checkpoints
    <3>2. \A i \in Checkpoints(pr)' :
              /\ issued'[ledger'[i]].rev \in 1 .. Revisions(pr)'
              /\ snaps'[pr][issued'[ledger'[i]].rev] = ledger'[i]
      <4>1. \A i \in Checkpoints(pr) : /\ issued'[ledger'[i]].rev \in 1 .. Revisions(pr)
                                       /\ snaps'[pr][issued'[ledger'[i]].rev] = ledger'[i]
        <5>1. \A i \in Checkpoints(pr) : /\ issued[ledger[i]].rev \in 1 .. Revisions(pr)
                                         /\ snaps[pr][issued[ledger[i]].rev] = ledger[i]
          BY <1>0 DEF Chain
        <5>2. issued' = issued /\ snaps' = snaps
          BY <1>1
        <5>3. 1 .. Revisions(pr) \subseteq 1 .. Revisions(pr)'
          BY <2>4, <2>5, <2>6
        <5> QED
          BY <3>1, <5>1, <5>2, <5>3
      <4>2. issued'[ledger'[m]].rev = rev /\ snaps'[pr][rev] = ledger'[m]
        BY <1>1, <1>3, <2>1, <2>5
      <4> QED
        BY <1>2, <1>6, <2>3, <2>4, <2>5, <2>6, <4>1, <4>2
    <3>3. \A r \in 1 .. Revisions(pr)' : \E i \in Checkpoints(pr)' : issued'[ledger'[i]].rev = r
      <4>0. \A r \in 1 .. Revisions(pr) : \E i \in Checkpoints(pr) : issued[ledger[i]].rev = r
        BY <1>0 DEF Chain
      <4>1. \A r \in 1 .. Revisions(pr) : \E i \in Checkpoints(pr) : issued'[ledger'[i]].rev = r
        BY <1>1, <3>1, <4>0
      <4>2. issued'[ledger'[m]].rev = rev /\ m \in Checkpoints(pr)'
        BY <1>1, <1>3, <2>1, <2>3
      <4>3. \A r \in 1 .. Revisions(pr)' : r \in 1 .. Revisions(pr) \/ r = rev
        BY <2>4, <2>5, <2>6
      <4> QED
        BY <2>3, <4>1, <4>2, <4>3
    <3>4. /\ Revisions(pr)' \in Nat /\ Rev(pointer[pr])' <= Revisions(pr)'
          /\ Revisions(pr)' <= Len(snaps'[pr])
      BY <1>1, <1>3, <2>4, <2>5, <2>6
    <3> QED
      BY <1>0, <1>1, <1>3, <3>2, <3>3, <3>4 DEF Chain
  <2>8. Told(pr)'
    <3>1. Single(bundle[p])'
      <4>1. \A i \in 1 .. Len(ledger') : i \in 1 .. Len(ledger) \/ i = m
        BY <1>0, <2>1 DEF m
      <4> QED
        BY <1>1, <1>2, <2>1, <4>1 DEF Single, e
    <3>2. Intends(bundle[p], pr)'
      BY <1>1, <1>2, <1>3, <1>6 DEF Intends, Settled, rev
    <3> QED
      BY <1>1, <1>2, <3>1, <3>2 DEF Told
  <2> QED
    BY <1>0, <1>1, <1>2, <1>3, <1>4, <2>1, <2>7, <2>8, StoryGuarded DEF e
<1> QED
    BY <1>5, <1>6

LEMMA StoryPointer ==
    ASSUME StoryInv, AtomicInv', NEW p \in Proc, InstallPointer(p)
    PROVE  StoryInv'
<1>0. PICK n \in Nat, pr \in Project :
          /\ pr = Of(p) /\ n <= MaxEvents /\ Events(n) /\ Disk(n) /\ Processes(n)
          /\ Chain(pr) /\ Told(pr) /\ Placed(p) /\ Stage(p)
          /\ pc[p] \in Holding => guard[pr] = p
          /\ snaps[pr] \in Seq(1 .. n) /\ pointer[pr] \in 0 .. n /\ Len(ledger) \in Nat
          /\ pc[p] \in Bundling =>
                /\ bundle[p] # NoBundle /\ bundle[p].image.event \in 1 .. n
                /\ Planned(bundle[p]).rev \in 0 .. n /\ bundle[p].image.count \in 1 .. n
          /\ pc[p] \in Installing =>
                Intends(bundle[p], pr) /\ Single(bundle[p]) /\ Planned(bundle[p]).project = pr
    BY StoryFacts
<1> DEFINE e == bundle[p].image.event
           rev == Planned(bundle[p]).rev
           k == Rev(pointer[pr])
<1>1. /\ pc[p] = "pointer" /\ pc'[p] = "current"
      /\ \A q \in Proc \ {p} : pc'[q] = pc[q] /\ task'[q] = task[q] /\ bundle'[q] = bundle[q]
      /\ pointer' = IF rev > 0 /\ k < rev THEN [pointer EXCEPT ![pr] = e] ELSE pointer
      /\ UNCHANGED <<issued, ledger, current, journal, snaps, derived, task, bundle>>
    BY <1>0, Engaged, Order DEF StoryInv, InstallPointer
<1>2. /\ Intends(bundle[p], pr) /\ Single(bundle[p]) /\ Planned(bundle[p]).project = pr
      /\ bundle[p] # NoBundle /\ e \in 1 .. n /\ rev \in 0 .. n /\ guard[pr] = p
      /\ journal[pr] = bundle[p] /\ (rev > 0 => Len(snaps[pr]) >= rev)
      /\ Installed(bundle[p])
    BY <1>0, <1>1 DEF Placed, Stage, StoryInv, AtomicInv, IInv, Appended
<1>3. /\ issued[e].project = pr /\ issued[e].rev = rev /\ rev' = rev /\ Of(p)' = pr
      /\ Checkpoints(pr)' = Checkpoints(pr) /\ Revisions(pr)' = Revisions(pr)
    BY <1>0, <1>1, <1>2 DEF Planned, Of, Checkpoints, Revisions
<1>5. \A other \in Project \ {pr} : pointer'[other] = pointer[other]
    BY <1>1
<1> HIDE DEF e, rev
<1>6. CASE rev > 0 /\ k < rev
  <2>1. pointer'[pr] = e
    BY <1>0, <1>1, <1>6 DEF Disk
  <2>2. Rev(pointer[pr])' = rev
    BY <1>1, <1>2, <1>3, <2>1 DEF Rev
  <2>3. /\ rev \in Nat /\ bundle[p].image.wf = e /\ k = rev - 1
        /\ Len(snaps[pr]) = rev /\ snaps[pr][rev] = e
    BY <1>0, <1>2, <1>6 DEF Intends, e, rev
  <2>4. rev <= Revisions(pr)
    <3>1. bundle[p].image.count \in Checkpoints(pr) /\ ledger[bundle[p].image.count] = e
      BY <1>0, <1>1, <1>2, <1>3, <1>6, SMTT(30) DEF Installed, Checkpoints, e
    <3> QED
      BY <1>0, <1>3, <3>1 DEF Chain
  <2>5. Chain(pr)'
    <3>1. Rev(pointer[pr])' \in 1 .. Len(snaps'[pr]) /\ snaps'[pr][Rev(pointer[pr])'] = pointer'[pr]
      BY <1>1, <1>6, <2>1, <2>2, <2>3
    <3>2. Rev(pointer[pr])' <= Revisions(pr)'
      BY <1>3, <2>2, <2>4
    <3> QED
      BY <1>0, <1>1, <1>3, <3>1, <3>2 DEF Chain
  <2>6. Told(pr)'
    <3>1. Intends(bundle[p], pr)'
      BY <1>1, <1>3, <1>6, <2>2, <2>3 DEF Intends, e, rev
    <3> QED
      BY <1>1, <1>2, <3>1 DEF Told, Single
  <2>7. Stage(p)'
    BY <1>1, <1>2, <1>3, <2>2 DEF Stage, rev
  <2> QED
    BY <1>0, <1>1, <1>2, <1>3, <1>5, <2>5, <2>6, <2>7, StoryGuarded
<1>7. CASE ~(rev > 0 /\ k < rev)
  <2>1. pointer' = pointer /\ Rev(pointer[pr])' = k
    BY <1>1, <1>7 DEF Rev
  <2>2. rev > 0 => k = rev
    BY <1>2, <1>7 DEF Intends, rev
  <2>3. Chain(pr)'
    BY <1>0, <1>1, <2>1, ChainSame, SMTT(30)
  <2>4. Told(pr)'
    BY <1>1, <1>2, <1>3, <2>1 DEF Told, Intends, Settled, Single, Planned
  <2>5. Stage(p)'
    BY <1>1, <1>2, <1>3, <2>1, <2>2 DEF Stage, rev
  <2> QED
    BY <1>0, <1>1, <1>2, <1>3, <1>5, <2>3, <2>4, <2>5, StoryGuarded
<1> QED
    BY <1>6, <1>7

LEMMA StoryCurrent ==
    ASSUME StoryInv, AtomicInv', NEW p \in Proc, InstallCurrent(p) \/ Converge(p)
    PROVE  StoryInv'
<1>0. PICK n \in Nat, pr \in Project :
          /\ pr = Of(p) /\ n <= MaxEvents /\ Events(n) /\ Disk(n) /\ Processes(n)
          /\ Chain(pr) /\ Told(pr) /\ Placed(p) /\ Stage(p)
          /\ pc[p] \in Holding => guard[pr] = p
          /\ derived[pr] \in 0 .. Len(ledger) /\ Len(ledger) \in Nat
          /\ pc[p] \in Bundling => bundle[p] # NoBundle /\ bundle[p].image \in ImageOf(n)
    BY StoryFacts
<1>1. \/ /\ pc[p] = "current" /\ pc'[p] = "converge" /\ derived' = derived
         /\ current' = [current EXCEPT ![pr] = bundle[p].image]
      \/ /\ pc[p] = "converge" /\ pc'[p] = "remove" /\ current' = current
         /\ derived' = [derived EXCEPT ![pr] = Len(ledger)]
    BY <1>0, Engaged, Order DEF StoryInv, InstallCurrent, Converge
<1>2. /\ \A q \in Proc \ {p} : pc'[q] = pc[q] /\ task'[q] = task[q] /\ bundle'[q] = bundle[q]
      /\ UNCHANGED <<issued, ledger, journal, snaps, pointer, task, bundle>>
    BY <1>0, Engaged, Order DEF StoryInv, InstallCurrent, Converge
<1>3. \A other \in Project \ {pr} :
          derived'[other] = derived[other] /\ current'[other] = current[other]
    BY <1>0, <1>1 DEF Disk
<1>4. journal[pr] # NoBundle /\ guard[pr] = p
    BY <1>0, <1>1 DEF Placed
<1>5. Chain(pr)' /\ Told(pr)'
  <2>1. Chain(pr)'
    BY <1>0, <1>2, ChainSame, SMTT(30)
  <2>2. Intends(journal[pr], pr)' /\ Single(journal[pr])'
    BY <1>0, <1>2, <1>4 DEF Told, Intends, Settled, Single, Planned, Rev
  <2> QED
    BY <1>2, <1>4, <2>1, <2>2 DEF Told
<1>6. Stage(p)'
  <2>1. Of(p)' = pr /\ Rev(pointer[pr])' = Rev(pointer[pr]) /\ Planned(bundle[p])' = Planned(bundle[p])
    BY <1>0, <1>2 DEF Of, Rev, Planned
  <2>2. CASE pc[p] = "current" /\ pc'[p] = "converge"
    BY <1>0, <1>2, <2>1, <2>2 DEF Stage
  <2>3. CASE pc[p] = "converge" /\ pc'[p] = "remove" /\ derived' = [derived EXCEPT ![pr] = Len(ledger)]
    <3>1. current[pr] = bundle[p].image /\ IsImage(bundle[p].image)
      BY <1>0, <2>3, Marked DEF Placed
    <3>2. bundle[p].image.count <= Len(ledger)
      BY <3>1 DEF StoryInv, AtomicInv, IInv, CurrentInstalled, Ancestor
    <3>3. derived'[pr] = Len(ledger) /\ bundle[p].image.count \in Nat
      BY <1>0, <2>3, SMTT(30) DEF Disk, ImageOf
    <3> QED
      BY <1>0, <1>2, <2>1, <2>3, <3>2, <3>3 DEF Stage
  <2> QED
    BY <1>1, <2>2, <2>3
<1> QED
    BY <1>0, <1>2, <1>3, <1>4, <1>5, <1>6, StoryGuarded

LEMMA StoryRemove ==
    ASSUME StoryInv, AtomicInv', NEW p \in Proc, RemoveJournal(p)
    PROVE  StoryInv'
<1>0. PICK n \in Nat, pr \in Project :
          /\ pr = Of(p) /\ n <= MaxEvents /\ Events(n) /\ Disk(n) /\ Processes(n)
          /\ Chain(pr) /\ Placed(p) /\ Stage(p)
          /\ pc[p] \in Holding => guard[pr] = p
          /\ snaps[pr] \in Seq(1 .. n) /\ pointer[pr] \in 0 .. n
          /\ pc[p] \in Bundling =>
                /\ bundle[p] # NoBundle /\ bundle[p].image \in ImageOf(n)
                /\ Planned(bundle[p]).rev \in 0 .. n /\ bundle[p].image.event \in 1 .. n
          /\ pc[p] \in Installing => Intends(bundle[p], pr)
    BY StoryFacts
<1> DEFINE rev == Planned(bundle[p]).rev
<1>1. /\ pc[p] = "remove" /\ pc'[p] = "done"
      /\ \A q \in Proc \ {p} : pc'[q] = pc[q] /\ task'[q] = task[q] /\ bundle'[q] = bundle[q]
      /\ journal' = [journal EXCEPT ![pr] = NoBundle]
      /\ UNCHANGED <<issued, ledger, current, snaps, pointer, derived, task, bundle>>
    BY <1>0, Engaged, Order DEF StoryInv, RemoveJournal
<1>2. /\ journal'[pr] = NoBundle /\ \A other \in Project \ {pr} : journal'[other] = journal[other]
    BY <1>0, <1>1 DEF Disk
<1>3. /\ Intends(bundle[p], pr) /\ guard[pr] = p /\ rev \in 0 .. n
      /\ rev > 0 => Rev(pointer[pr]) = rev
      /\ derived[pr] >= bundle[p].image.count /\ current[pr] = bundle[p].image
    BY <1>0, <1>1 DEF Stage, Placed
<1> HIDE DEF rev
<1>4. Settled(pr) /\ bundle[p].image.wf \in {0, pointer[pr]}
  <2>1. CASE rev = 0
    BY <1>3, <2>1 DEF Intends, rev
  <2>2. CASE rev # 0
    <3>1. /\ Rev(pointer[pr]) = rev /\ Len(snaps[pr]) <= rev /\ bundle[p].image.wf = bundle[p].image.event
          /\ Len(snaps[pr]) = rev => snaps[pr][rev] = bundle[p].image.event
      BY <1>3, <2>2 DEF Intends, rev
    <3>2. pointer[pr] # 0
      BY <1>0, <1>3, <2>2, <3>1 DEF Rev
    <3>3. Len(snaps[pr]) = rev /\ snaps[pr][rev] = pointer[pr]
      BY <1>0, <3>1, <3>2 DEF Chain
    <3> QED
      BY <3>1, <3>3 DEF Settled
  <2> QED
    BY <2>1, <2>2
<1>5. Told(pr)'
    BY <1>1, <1>2, <1>3, <1>4 DEF Told, Settled, Workflow, IsImage, Rev
<1>6. Chain(pr)'
    BY <1>0, <1>1, ChainSame
<1>7. Stage(p)'
    BY <1>1 DEF Stage
<1> QED
    BY <1>0, <1>1, <1>2, <1>3, <1>5, <1>6, <1>7, StoryGuarded

LEMMA StoryAppendEvent ==
    ASSUME StoryInv, AtomicInv', NEW p \in Proc, NEW r \in Project, AppendEvent(p, r)
    PROVE  StoryInv'
<1>1. PICK n \in Nat : n <= MaxEvents /\ n = Len(issued) /\ Events(n) /\ Disk(n) /\ Processes(n)
    BY Bounded DEF StoryInv
<1>2. /\ UNCHANGED <<current, journal, snaps, pointer, leaseVars, procVars>>
      /\ ledger' = Append(ledger, n + 1) /\ issued'[n + 1].rev = 0
      /\ \A i \in 1 .. n : issued'[i] = issued[i]
      /\ derived' = [derived EXCEPT ![r] = Len(ledger')]
    BY <1>1 DEF AppendEvent, Events, Fresh
<1>3. Len(ledger') = Len(ledger) + 1 /\ Len(ledger) \in Nat
    BY <1>1, <1>2, AppendGrows DEF Events, IsSequence
<1>4. \A pr \in Project : derived'[pr] \in Nat /\ derived'[pr] >= derived[pr]
    BY <1>1, <1>2, <1>3 DEF Disk
<1>5. ASSUME NEW pr \in Project PROVE Chain(pr)' /\ Told(pr)'
  <2>1. journal[pr] # NoBundle => n + 1 # journal[pr].image.event
    BY <1>1, SMTT(30) DEF Disk, BundleOf, ImageOf
  <2>2. Chain(pr) /\ Told(pr) /\ n + 1 \in Nat
    BY DEF StoryInv
  <2> QED
    BY <1>1, <1>2, <1>4, <2>1, <2>2, StoryElsewhere
<1>6. ASSUME NEW q \in Proc PROVE Stage(q)'
    BY <1>1, <1>2, <1>4, <1>6, StageElsewhere, Engaged DEF StoryInv
<1> QED
    BY <1>5, <1>6 DEF StoryInv

LEMMA StoryLose ==
    ASSUME StoryInv, AtomicInv', NEW r \in Project, Lose(r)
    PROVE  StoryInv'
<1>1. PICK s \in {Absent, Damaged} : current' = [current EXCEPT ![r] = s]
    BY DEF Lose
<1>2. UNCHANGED <<issued, ledger, journal, snaps, pointer, derived, leaseVars, procVars>>
    BY DEF Lose
<1>3. PICK n \in Nat : n <= MaxEvents /\ Events(n) /\ Disk(n) /\ Processes(n)
    BY Bounded DEF StoryInv
<1>4. \A pr \in Project : derived[pr] \in Nat
    BY <1>3 DEF Disk, Events
<1>5. ASSUME NEW pr \in Project, pr # r PROVE Chain(pr)' /\ Told(pr)'
    BY <1>1, <1>2, <1>3, <1>4, <1>5, StoryElsewhere DEF StoryInv
<1>6. Chain(r)' /\ Told(r)'
  <2>1. Chain(r) /\ Told(r) /\ current'[r] \in {Absent, Damaged}
    BY <1>1, <1>3 DEF StoryInv, Disk
  <2>2. Chain(r)'
    BY <1>2, <2>1, SMTT(30) DEF Chain, Checkpoints, Revisions, Rev
  <2>3. Told(r)'
    BY <1>2, <2>1 DEF Told, Settled, Rev, Intends, Single, Planned, Workflow, IsImage
  <2> QED
    BY <2>2, <2>3
<1>7. ASSUME NEW q \in Proc PROVE Stage(q)'
    BY <1>2, <1>3, <1>4, <1>7, StageElsewhere, Engaged DEF StoryInv
<1> QED
    BY <1>5, <1>6, <1>7 DEF StoryInv

LEMMA StoryNext == StoryInv /\ [Next]_vars => StoryInv'
<1> SUFFICES ASSUME StoryInv, [Next]_vars PROVE StoryInv'
    OBVIOUS
<1>0. AtomicInv'
    BY AtomicNext DEF StoryInv
<1>1. ASSUME NEW p \in Proc, Step(p) PROVE StoryInv'
  <2>1. CASE Observe(p) \/ Enter(p) \/ TakeJournal(p) \/ DropTemp(p) \/ Recovered(p)
    <3>1. /\ \A q \in Proc \ {p} : pc'[q] = pc[q] /\ task'[q] = task[q] /\ bundle'[q] = bundle[q]
          /\ UNCHANGED <<issued, ledger, snaps, pointer, journal, current, derived>>
      BY <2>1, Engaged DEF StoryInv, Observe, Enter, TakeJournal, DropTemp, Recovered, Goto
    <3>2. pc'[p] \in {"waiting", "recovering", "artifacts", "ready"}
      BY <2>1, Engaged DEF StoryInv, Observe, Enter, TakeJournal, DropTemp, Recovered, Goto, Steps
    <3>3. Stage(p)'
      BY <3>2 DEF Stage
    <3> QED
      BY <1>0, <3>1, <3>3, StoryQuiet
  <2>2. CASE WriteTemp(p)
    <3>1. /\ \A q \in Proc \ {p} : pc'[q] = pc[q] /\ task'[q] = task[q] /\ bundle'[q] = bundle[q]
          /\ UNCHANGED <<issued, ledger, snaps, pointer, journal, current, derived, task, bundle>>
          /\ pc[p] = "temp" /\ pc'[p] = "rename"
      BY <2>2, Engaged DEF StoryInv, WriteTemp, Goto
    <3>2. Stage(p) /\ Of(p)' = Of(p)
      BY <3>1, SMTT(30) DEF StoryInv, Of
    <3>3. Stage(p)'
      BY <3>1, <3>2 DEF Stage, Intends, Settled, Planned, Rev
    <3> QED
      BY <1>0, <3>1, <3>3, StoryQuiet
  <2>3. CASE Finish(p) \/ Return(p)
    <3>1. /\ \A q \in Proc \ {p} : pc'[q] = pc[q] /\ task'[q] = task[q] /\ bundle'[q] = bundle[q]
          /\ UNCHANGED <<issued, ledger, snaps, pointer, journal, current, derived>>
      BY <2>3, Engaged DEF StoryInv, Finish, Return, Leave, Goto
    <3>2. pc'[p] \in {"idle", "recovering"}
      BY <2>3, Engaged DEF StoryInv, Finish, Return, Leave, Goto
    <3>3. Stage(p)'
      BY <3>2 DEF Stage
    <3> QED
      BY <1>0, <3>1, <3>3, StoryQuiet
  <2> QED
    BY <1>0, <1>1, <2>1, <2>2, <2>3, StoryPrepare, StoryCommit, StoryArtifacts, StoryAppend,
       StoryPointer, StoryCurrent, StoryRemove
    DEF Step
<1>2. ASSUME NEW p \in Proc, Kill(p) PROVE StoryInv'
  <2>1. /\ \A q \in Proc \ {p} : pc'[q] = pc[q] /\ task'[q] = task[q] /\ bundle'[q] = bundle[q]
        /\ UNCHANGED <<issued, ledger, snaps, pointer, journal, current, derived>>
        /\ pc'[p] = "idle"
    BY <1>2, Engaged DEF StoryInv, Kill, Leave
  <2>2. Stage(p)'
    BY <2>1 DEF Stage
  <2> QED
    BY <1>0, <2>1, <2>2, StoryQuiet
<1>3. ASSUME NEW p \in Proc, NEW pr \in Project, NEW kind, Begin(p, pr, kind) PROVE StoryInv'
  <2>1. /\ \A q \in Proc \ {p} : pc'[q] = pc[q] /\ task'[q] = task[q] /\ bundle'[q] = bundle[q]
        /\ UNCHANGED <<issued, ledger, snaps, pointer, journal, current, derived>>
        /\ pc'[p] \in {"observing", "waiting"}
    BY <1>3, Engaged DEF StoryInv, Begin
  <2>2. Stage(p)'
    BY <2>1 DEF Stage
  <2> QED
    BY <1>0, <2>1, <2>2, StoryQuiet
<1>4. CASE UNCHANGED vars
  <2>1. UNCHANGED <<issued, diskVars, procVars>>
    BY <1>4 DEF vars
  <2>2. ASSUME NEW p \in Proc PROVE StoryInv'
    <3>1. Stage(p) /\ Of(p)' = Of(p)
      BY <2>1, SMTT(30) DEF StoryInv, Of
    <3>2. Stage(p)'
      BY <2>1, <3>1 DEF Stage, Intends, Settled, Planned, Rev
    <3> QED
      BY <1>0, <2>1, <3>2, StoryQuiet
  <2>3. CASE Proc = {}
    BY <1>0, <2>1, <2>3, StoryQuiet
  <2> QED
    BY <2>2, <2>3
<1> QED
    BY <1>0, <1>1, <1>2, <1>3, <1>4, StoryAppendEvent, StoryLose DEF Next

LEMMA StoryInit == Init => StoryInv
<1> SUFFICES ASSUME Init PROVE StoryInv
    OBVIOUS
<1>1. AtomicInv
    BY AtomicInit
<1>2. ASSUME NEW pr \in Project PROVE Chain(pr) /\ Told(pr)
  <2>1. /\ snaps[pr] = <<>> /\ pointer[pr] = 0 /\ journal[pr] = NoBundle /\ current[pr] = Absent
        /\ Checkpoints(pr) = {}
    BY DEF Init, Checkpoints
  <2>2. Revisions(pr) = 0 /\ Rev(pointer[pr]) = 0 /\ Len(snaps[pr]) = 0
    BY <2>1, FS_EmptySet DEF Revisions, Rev
  <2> QED
    BY <2>1, <2>2 DEF Chain, Told, Settled, Workflow, IsImage
<1>3. \A p \in Proc : pc[p] = "idle"
    BY DEF Init
<1> QED
    BY <1>1, <1>2, <1>3 DEF StoryInv, Stage

(* Whoever has recovered starts from a workflow that loads, from a current *)
(* state that names no other revision, and from derived outputs that show  *)
(* the current event, whoever stopped where before                         *)
(* (recover_pending_bundles_under_guard, load_workflow_under_transition).  *)
THEOREM RecoveryIsWhole == Spec => []RecoveredWhole
<1>1. StoryInv => RecoveredWhole
  <2> SUFFICES ASSUME StoryInv PROVE RecoveredWhole
    OBVIOUS
  <2>1. TypeOK
    BY TypedImplies DEF StoryInv, AtomicInv
  <2>2. ASSUME NEW p \in Proc, pc[p] = "ready"
        PROVE  Scans(Of(p)) /\ Workflow(Prev(p)) \in {0, pointer[Of(p)]}
    <3>1. PICK n \in Nat, pr \in Project :
              /\ pr = Of(p) /\ Chain(pr) /\ Told(pr) /\ Placed(p)
              /\ snaps[pr] \in Seq(1 .. n) /\ pointer[pr] \in 0 .. n
              /\ \A e \in 1 .. n : issued[e].rev \in 0 .. n
      BY StoryFacts
    <3>2. journal[pr] = NoBundle /\ Settled(pr) /\ Workflow(current[pr]) \in {0, pointer[pr]}
      BY <2>2, <3>1 DEF Placed, Told
    <3>3. Rev(pointer[pr]) \in Nat
      BY <3>1 DEF Rev
    <3>4. CASE pointer[pr] = 0
      <4>1. snaps[pr] = <<>>
        BY <3>1, <3>2, <3>4 DEF Settled, Rev
      <4> QED
        BY <3>1, <3>2, <3>4, <4>1 DEF Scans, Prev
    <3>5. CASE pointer[pr] # 0
      <4>1. Revisions(pr) = Rev(pointer[pr]) /\ Len(snaps[pr]) = Rev(pointer[pr])
        BY <3>1, <3>2, <3>3 DEF Chain, Settled
      <4>2. \A rev \in 1 .. Rev(pointer[pr]) :
                \E i \in Checkpoints(pr) : issued[ledger[i]].rev = rev /\ snaps[pr][rev] = ledger[i]
        <5>1. \A rev \in 1 .. Rev(pointer[pr]) : \E i \in Checkpoints(pr) : issued[ledger[i]].rev = rev
          BY <3>1, <4>1 DEF Chain
        <5>2. \A i \in Checkpoints(pr) : snaps[pr][issued[ledger[i]].rev] = ledger[i]
          BY <3>1 DEF Chain
        <5> QED
          BY <5>1, <5>2
      <4>3. snaps[pr][Rev(pointer[pr])] = pointer[pr]
        BY <3>1, <3>5 DEF Chain
      <4>4. Loads(pr)
        BY <3>3, <3>5, <4>1, <4>2, <4>3 DEF Loads, Revisions
      <4> QED
        BY <3>1, <3>2, <4>4 DEF Scans, Prev
    <3> QED
      BY <3>4, <3>5
  <2>3. Shown
    BY DEF StoryInv, Told, Shown
  <2> QED
    BY <2>1, <2>2, <2>3 DEF RecoveredWhole, WorkflowAgrees
<1> QED
    BY <1>1, StoryInit, StoryNext, PTL DEF Spec

-----------------------------------------------------------------------------
(* What is found in the journal can be finished, unless something outside  *)
(* the project's transitions, or a torn backup, is in the way.             *)

(* The ledger stands right before the planned event, or right behind it,   *)
(* or an event that is not of the project's transitions came after it.     *)
Ending(pr) ==
    LET b == journal[pr]
    IN  b # NoBundle =>
            /\ temp[pr] = "none"
            /\ IsImage(current[pr]) => current[pr] \in {b.image, b.over}
            /\ \/ Len(ledger) + 1 = b.image.count /\ LastId = b.after
               \/ Len(ledger) = b.image.count /\ LastId = b.image.event
               \/ Overtaken(pr)

EndInv == StoryInv /\ \A pr \in Project : Ending(pr)

(* A foreign event that is behind a journal stays behind it. *)
LEMMA OvertakenStays ==
    ASSUME NEW n \in Nat, Events(n), NEW pr, Overtaken(pr), journal'[pr] = journal[pr],
           journal[pr].image.count \in 1 .. n, \A i \in 1 .. n : issued'[i] = issued[i],
           ledger' = ledger \/ \E e : ledger' = Append(ledger, e)
    PROVE  Overtaken(pr)'
<1>1. PICK i \in journal[pr].image.count .. Len(ledger) : Foreign(pr, ledger[i])
    BY DEF Overtaken
<1>2. ledger \in Seq(1 .. n) /\ Len(ledger) \in Nat /\ i \in 1 .. Len(ledger)
    BY <1>1 DEF Events
<1>3. ledger'[i] = ledger[i] /\ Len(ledger') \in Nat /\ Len(ledger') >= Len(ledger)
  <2>1. CASE ledger' = ledger
    BY <1>2, <2>1
  <2>2. ASSUME NEW e, ledger' = Append(ledger, e)
        PROVE  ledger'[i] = ledger[i] /\ Len(ledger') \in Nat /\ Len(ledger') >= Len(ledger)
    BY <1>2, <2>2, AppendGrows DEF IsSequence, Grows
  <2> QED
    BY <2>1, <2>2
<1>4. ledger[i] \in 1 .. n
    BY <1>2
<1>5. issued'[ledger'[i]].project # pr \/ issued'[ledger'[i]].kind = "append"
    BY <1>1, <1>3, <1>4 DEF Foreign
<1>6. i \in journal'[pr].image.count .. Len(ledger')
    BY <1>1, <1>2, <1>3
<1> QED
    BY <1>5, <1>6 DEF Overtaken, Foreign

(* So is a foreign event that is appended where the planned one was to be, *)
(* or right behind it.                                                     *)
LEMMA Overtakes ==
    ASSUME NEW n \in Nat, Events(n), NEW pr, journal'[pr] = journal[pr],
           journal[pr].image.count \in {Len(ledger), Len(ledger) + 1},
           NEW e, ledger' = Append(ledger, e),
           issued'[e].project # pr \/ issued'[e].kind = "append"
    PROVE  Overtaken(pr)'
<1>1. Len(ledger) \in Nat /\ Len(ledger') = Len(ledger) + 1 /\ ledger'[Len(ledger) + 1] = e
    BY AppendGrows DEF Events, IsSequence
<1>2. Len(ledger) + 1 \in journal'[pr].image.count .. Len(ledger')
    BY <1>1
<1> QED
    BY <1>1, <1>2 DEF Overtaken, Foreign

(* A step that leaves the ledger and the journal alone. *)
LEMMA EndingQuiet ==
    ASSUME NEW n \in Nat, Events(n), Disk(n), NEW pr \in Project, Ending(pr),
           ledger' = ledger, journal'[pr] = journal[pr],
           journal[pr] # NoBundle => temp'[pr] = temp[pr],
           current'[pr] = current[pr] \/ ~IsImage(current'[pr]),
           \A i \in 1 .. n : issued'[i] = issued[i]
    PROVE  Ending(pr)'
<1>1. ASSUME journal[pr] # NoBundle PROVE journal[pr].image.count \in 1 .. n
    BY <1>1 DEF Disk, BundleOf, ImageOf
<1>2. ASSUME journal[pr] # NoBundle, Overtaken(pr) PROVE Overtaken(pr)'
    BY <1>1, <1>2, OvertakenStays
<1> QED
    BY <1>2 DEF Ending, LastId, IsImage

LEMMA EndingAppends ==
    ASSUME NEW n \in Nat, Events(n), Disk(n), NEW pr \in Project, Ending(pr),
           journal'[pr] = journal[pr], temp'[pr] = temp[pr], current'[pr] = current[pr],
           \A i \in 1 .. n : issued'[i] = issued[i],
           NEW e, ledger' = Append(ledger, e),
           issued'[e].project # pr \/ issued'[e].kind = "append"
    PROVE  Ending(pr)'
<1>1. ASSUME journal[pr] # NoBundle PROVE Overtaken(pr)'
  <2>1. journal[pr].image.count \in 1 .. n /\ Len(ledger) \in Nat
    BY <1>1 DEF Disk, BundleOf, ImageOf, Events
  <2>2. CASE journal[pr].image.count \in {Len(ledger), Len(ledger) + 1}
    BY <2>2, Overtakes
  <2>3. CASE Overtaken(pr)
    BY <2>1, <2>3, OvertakenStays
  <2> QED
    BY <1>1, <2>1, <2>2, <2>3 DEF Ending
<1> QED
    BY <1>1 DEF Ending, IsImage

(* The append of a transition: of this project, or of another one. *)
LEMMA EndingPlanned ==
    ASSUME EndInv, NEW p \in Proc, AppendPlanned(p), NEW pr \in Project
    PROVE  Ending(pr)'
<1>0. PICK n \in Nat :
          /\ n = Len(issued) /\ Events(n) /\ Disk(n) /\ Placed(p) /\ Len(ledger) \in Nat
          /\ pc[p] \in Installing => Planned(bundle[p]).project = Of(p)
          /\ pc[p] \in Bundling =>
                bundle[p].image.event \in 1 .. n /\ bundle[p].image.count \in 1 .. n
    BY StoryFacts DEF EndInv
<1>1. /\ pc[p] = "append" /\ AppendFits(bundle[p]) /\ UNCHANGED <<issued, current, journal, temp>>
      /\ ledger' = IF Installed(bundle[p]) THEN ledger ELSE Append(ledger, bundle[p].image.event)
    BY Order DEF AppendPlanned
<1>2. Ending(pr) /\ journal[Of(p)] = bundle[p] /\ issued[bundle[p].image.event].project = Of(p)
    BY <1>0, <1>1 DEF EndInv, Placed, Planned
<1>3. CASE Installed(bundle[p])
    BY <1>0, <1>1, <1>2, <1>3, EndingQuiet
<1>4. CASE ~Installed(bundle[p]) /\ pr # Of(p)
  <2>1. ledger' = Append(ledger, bundle[p].image.event)
    BY <1>1, <1>4
  <2>2. issued'[bundle[p].image.event].project # pr
    BY <1>1, <1>2, <1>4
  <2> QED
    BY <1>0, <1>1, <1>2, <2>1, <2>2, EndingAppends
<1>5. CASE ~Installed(bundle[p]) /\ pr = Of(p)
  <2>1. Len(ledger) + 1 = bundle[p].image.count /\ ledger' = Append(ledger, bundle[p].image.event)
    BY <1>1, <1>5 DEF AppendFits
  <2>2. Len(ledger') = Len(ledger) + 1 /\ ledger'[Len(ledger) + 1] = bundle[p].image.event
    BY <1>0, <2>1, AppendGrows DEF Events, IsSequence
  <2>3. LastId' = bundle[p].image.event
    BY <1>0, <2>2 DEF LastId, Last
  <2> QED
    BY <1>1, <1>2, <1>5, <2>1, <2>2, <2>3 DEF Ending, IsImage
<1> QED
    BY <1>3, <1>4, <1>5

(* The other steps of a transition. *)
LEMMA EndingStep ==
    ASSUME EndInv, NEW p \in Proc, Step(p), NEW pr \in Project
    PROVE  Ending(pr)'
<1>0. PICK n \in Nat :
          /\ n = Len(issued) /\ Events(n) /\ Disk(n) /\ Placed(p)
    BY StoryFacts DEF EndInv
<1>1. Ending(pr) /\ DOMAIN temp = Project /\ DOMAIN journal = Project /\ DOMAIN current = Project
    BY <1>0 DEF EndInv, Disk
<1>2. ASSUME UNCHANGED <<issued, ledger, current, journal, temp>> PROVE Ending(pr)'
    BY <1>0, <1>1, <1>2, EndingQuiet
<1>3. CASE Prepare(p)
  <2>1. UNCHANGED <<ledger, current, journal, temp>> /\ \E e : issued' = Append(issued, e)
    BY <1>3 DEF Prepare
  <2>2. \A i \in 1 .. n : issued'[i] = issued[i]
    BY <1>0, <2>1 DEF Events
  <2> QED
    BY <1>0, <1>1, <2>1, <2>2, EndingQuiet
<1>4. CASE DropTemp(p) \/ WriteTemp(p)
  <2>1. /\ UNCHANGED <<issued, ledger, current, journal>> /\ journal[Of(p)] = NoBundle
        /\ \E t : temp' = [temp EXCEPT ![Of(p)] = t]
    BY <1>0, <1>4 DEF DropTemp, WriteTemp, Goto, Placed
  <2>2. pr # Of(p) => temp'[pr] = temp[pr]
    BY <1>1, <2>1
  <2> QED
    BY <1>0, <1>1, <2>1, <2>2, EndingQuiet
<1>5. CASE CommitJournal(p)
  <2>1. /\ pc[p] = "rename" /\ UNCHANGED <<issued, ledger, current>>
        /\ journal' = [journal EXCEPT ![Of(p)] = bundle[p]]
        /\ temp' = [temp EXCEPT ![Of(p)] = "none"]
    BY <1>5 DEF CommitJournal, Goto
  <2>2. /\ bundle[p].over = current[Of(p)] /\ bundle[p].image.count = Len(ledger) + 1
        /\ bundle[p].after = LastId
    BY <1>0, <2>1 DEF Placed, Follows
  <2>3. CASE pr = Of(p)
    <3>1. journal'[pr] = bundle[p] /\ temp'[pr] = "none" /\ LastId' = LastId
      BY <1>1, <2>1, <2>3 DEF LastId
    <3> QED
      BY <2>1, <2>2, <2>3, <3>1 DEF Ending
  <2>4. CASE pr # Of(p)
    BY <1>0, <1>1, <2>1, <2>4, EndingQuiet
  <2> QED
    BY <2>3, <2>4
<1>6. CASE AppendPlanned(p)
    BY <1>6, EndingPlanned
<1>7. CASE InstallCurrent(p)
  <2>1. /\ pc[p] = "current" /\ UNCHANGED <<issued, ledger, journal, temp>>
        /\ current' = [current EXCEPT ![Of(p)] = bundle[p].image]
    BY <1>7, Order DEF InstallCurrent
  <2>2. journal[Of(p)] = bundle[p]
    BY <1>0, <2>1 DEF Placed
  <2>3. CASE pr = Of(p)
    <3>1. journal[pr] = bundle[p] /\ current'[pr] = bundle[p].image
      BY <1>1, <2>1, <2>2, <2>3
    <3>2. LastId' = LastId
      BY <2>1 DEF LastId
    <3>3. Overtaken(pr)' <=> Overtaken(pr)
      BY <2>1 DEF Overtaken, Foreign
    <3> QED
      BY <1>1, <2>1, <3>1, <3>2, <3>3 DEF Ending
  <2>4. CASE pr # Of(p)
    BY <1>0, <1>1, <2>1, <2>4, EndingQuiet
  <2> QED
    BY <2>3, <2>4
<1>8. CASE RemoveJournal(p)
  <2>1. UNCHANGED <<issued, ledger, current, temp>> /\ journal' = [journal EXCEPT ![Of(p)] = NoBundle]
    BY <1>8 DEF RemoveJournal
  <2>2. CASE pr = Of(p)
    BY <1>1, <2>1, <2>2 DEF Ending
  <2>3. CASE pr # Of(p)
    BY <1>0, <1>1, <2>1, <2>3, EndingQuiet
  <2> QED
    BY <2>2, <2>3
<1>9. CASE Observe(p) \/ Enter(p) \/ TakeJournal(p) \/ Recovered(p) \/ InstallArtifacts(p)
           \/ InstallPointer(p) \/ Converge(p) \/ Finish(p) \/ Return(p)
  <2>1. UNCHANGED <<issued, ledger, current, journal, temp>>
    BY <1>9 DEF Observe, Enter, TakeJournal, Recovered, InstallArtifacts, InstallPointer, Converge,
                Finish, Return
  <2> QED
    BY <1>2, <2>1
<1> QED
    BY <1>3, <1>4, <1>5, <1>6, <1>7, <1>8, <1>9 DEF Step

LEMMA EndingStays ==
    ASSUME EndInv, [Next]_vars, NEW pr \in Project
    PROVE  Ending(pr)'
<1>0. PICK n \in Nat : n = Len(issued) /\ Events(n) /\ Disk(n)
    BY Bounded DEF EndInv, StoryInv
<1>1. Ending(pr) /\ DOMAIN temp = Project /\ DOMAIN current = Project
    BY <1>0 DEF EndInv, Disk
<1>2. ASSUME NEW p \in Proc, Kill(p) PROVE Ending(pr)'
  <2>1. UNCHANGED <<issued, ledger, current, journal>>
    BY <1>2 DEF Kill
  <2>2. \/ temp' = temp
        \/ pc[p] = "temp" /\ temp' = [temp EXCEPT ![Of(p)] = "torn"]
    BY <1>2 DEF Kill
  <2>3. pc[p] = "temp" => journal[Of(p)] = NoBundle
    BY Engaged DEF EndInv, StoryInv, Placed
  <2>4. journal[pr] # NoBundle => temp'[pr] = temp[pr]
    BY <1>1, <2>2, <2>3
  <2> QED
    BY <1>0, <1>1, <2>1, <2>4, EndingQuiet
<1>3. ASSUME NEW p \in Proc, NEW r \in Project, AppendEvent(p, r) PROVE Ending(pr)'
  <2>1. /\ UNCHANGED <<current, journal, temp>> /\ ledger' = Append(ledger, n + 1)
        /\ \E e : e.kind = "append" /\ issued' = Append(issued, e)
    BY <1>0, <1>3 DEF AppendEvent, Fresh
  <2>2. (\A i \in 1 .. n : issued'[i] = issued[i]) /\ issued'[n + 1].kind = "append"
    BY <1>0, <2>1 DEF Events
  <2> QED
    BY <1>0, <1>1, <2>1, <2>2, EndingAppends
<1>4. ASSUME NEW r \in Project, Lose(r) PROVE Ending(pr)'
  <2>1. /\ UNCHANGED <<issued, ledger, journal, temp>>
        /\ \E t \in {Absent, Damaged} : current' = [current EXCEPT ![r] = t]
    BY <1>4 DEF Lose
  <2>2. current'[pr] = current[pr] \/ ~IsImage(current'[pr])
    BY <1>1, <2>1 DEF IsImage
  <2> QED
    BY <1>0, <1>1, <2>1, <2>2, EndingQuiet
<1>5. CASE UNCHANGED vars
    BY <1>0, <1>1, <1>5, EndingQuiet DEF vars
<1>6. ASSUME NEW p \in Proc, NEW r \in Project, NEW kind, Begin(p, r, kind) PROVE Ending(pr)'
  <2>1. UNCHANGED <<issued, ledger, current, journal, temp>>
    BY <1>6 DEF Begin
  <2> QED
    BY <1>0, <1>1, <2>1, EndingQuiet
<1> QED
    BY <1>2, <1>3, <1>4, <1>5, <1>6, EndingStep DEF Next

(* "lets startup finish any interrupted window idempotently"               *)
(* (recover_pending_bundles), and exactly what can keep it from doing so:  *)
(* for every number of projects, processes and stops, torn writes          *)
(* included, a committed journal passes every check of its installation    *)
(* unless its backup is torn, its current state went missing, or a foreign *)
(* event overtook it.                                                      *)
THEOREM RecoveryIsPossible == Spec => []FinishableUnlessHindered
<1>1. Init => EndInv
  <2> SUFFICES ASSUME Init PROVE EndInv
    OBVIOUS
  <2>1. \A pr \in Project : journal[pr] = NoBundle
    BY DEF Init
  <2> QED
    BY <2>1, StoryInit DEF EndInv, Ending
<1>2. EndInv /\ [Next]_vars => EndInv'
  <2> SUFFICES ASSUME EndInv, [Next]_vars PROVE EndInv'
    OBVIOUS
  <2>1. StoryInv'
    BY StoryNext DEF EndInv
  <2>2. \A pr \in Project : Ending(pr)'
    BY EndingStays
  <2> QED
    BY <2>1, <2>2 DEF EndInv
<1>3. EndInv => FinishableUnlessHindered
  <2> SUFFICES ASSUME EndInv, NEW pr \in Project, journal[pr] # NoBundle, ~Hindered(pr)
               PROVE  temp[pr] = "none" /\ Finishable(pr)
    BY DEF FinishableUnlessHindered, EndInv, Ending
  <2>1. Ending(pr) /\ Chain(pr) /\ Told(pr)
    BY DEF EndInv, StoryInv
  <2>2. PICK n \in Nat : n <= MaxEvents /\ n = Len(issued) /\ Events(n) /\ Disk(n)
    BY Bounded DEF EndInv, StoryInv
  <2> DEFINE b == journal[pr]
  <2>3. /\ b.image.event \in 1 .. n /\ b.image.count \in 1 .. n /\ Len(ledger) \in Nat
        /\ snaps[pr] \in Seq(1 .. n) /\ pointer[pr] \in 0 .. n
    BY <2>2 DEF Disk, Events, BundleOf, ImageOf
  <2>4. Planned(b).rev \in 0 .. n
    <3>1. Planned(b) \in EntryOf(n)
      BY <2>2, <2>3 DEF Planned, Events
    <3> QED
      BY <3>1 DEF EntryOf
  <2>5. CurrentFits(b, pr) /\ BackupFits(b, pr) /\ temp[pr] = "none"
    BY <2>1 DEF Hindered, Ending, CurrentFits
  <2>6. AppendFits(b) /\ (Installed(b) => IsHead(b))
    <3>1. CASE Len(ledger) + 1 = b.image.count /\ LastId = b.after
      BY <2>3, <3>1 DEF AppendFits, Installed
    <3>2. CASE Len(ledger) = b.image.count /\ LastId = b.image.event
      BY <2>3, <3>2 DEF AppendFits, Installed, IsHead, LastId, Last
    <3> QED
      BY <2>1, <3>1, <3>2 DEF Ending, Hindered
  <2> HIDE DEF b
  <2>7. ASSUME Planned(b).rev # 0 PROVE SnapshotFits(b, pr) /\ PointerFits(b, pr)
    <3> DEFINE rev == Planned(b).rev
               k == Rev(pointer[pr])
    <3>1. /\ k \in {rev - 1, rev} /\ Len(snaps[pr]) <= rev
          /\ Len(snaps[pr]) = rev => snaps[pr][rev] = b.image.event
      BY <2>1, <2>7 DEF Told, Intends, b
    <3>2. k <= Len(snaps[pr]) /\ (k # 0 => snaps[pr][k] = pointer[pr])
      BY <2>1, <2>3 DEF Chain, Rev
    <3> HIDE DEF rev, k
    <3>3. rev \in Nat /\ rev > 0 /\ Len(snaps[pr]) \in {rev - 1, rev}
      BY <2>3, <2>4, <2>7, <3>1, <3>2, SMTT(30) DEF rev
    <3>4. SnapshotFits(b, pr)
      BY <3>1, <3>3 DEF SnapshotFits, rev
    <3>5. PointerFits(b, pr)
      BY <2>3, <3>1, <3>2, <3>3, SMTT(30) DEF PointerFits, rev, k
    <3> QED
      BY <3>4, <3>5
  <2>8. ASSUME Planned(b).rev = 0 PROVE SnapshotFits(b, pr) /\ PointerFits(b, pr)
    BY <2>8 DEF SnapshotFits, PointerFits
  <2> QED
    BY <2>5, <2>6, <2>7, <2>8 DEF Finishable, b
<1> QED
    BY <1>1, <1>2, <1>3, PTL DEF Spec
=============================================================================
