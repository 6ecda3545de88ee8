--------------------------- MODULE Ledger_proofs ---------------------------
(***************************************************************************)
(* The runtime ledger, for every number of processes, readers, events and  *)
(* projects: crashes between any two writes leave it readable, and what    *)
(* was acknowledged where it was, until a record runs into a line whose    *)
(* writer died before the newline; it implements EventLog, which allows    *)
(* that one loss, lock-free readers see states it was in, and derived      *)
(* outputs follow it.                                                      *)
(***************************************************************************)
EXTENDS Ledger, SequenceTheorems, WellFoundedInduction, TLAPS

(* Appending adds the event and keeps every other. *)
LEMMA HoldsAppend ==
    ASSUME NEW S, NEW s \in Seq(S), NEW e \in S
    PROVE  /\ Append(s, e) \in Seq(S)
           /\ Len(Append(s, e)) = Len(s) + 1
           /\ Append(s, e)[Len(s) + 1] = e
           /\ \A i \in 1 .. Len(s) : Append(s, e)[i] = s[i]
           /\ Holds(Append(s, e), e)
           /\ \A x : Holds(s, x) => Holds(Append(s, e), x)
           /\ \A x : Holds(Append(s, e), x) => Holds(s, x) \/ x = e
<1>1. /\ Append(s, e) \in Seq(S)
      /\ Len(Append(s, e)) = Len(s) + 1
      /\ Append(s, e)[Len(s) + 1] = e
      /\ \A i \in 1 .. Len(s) : Append(s, e)[i] = s[i]
  OBVIOUS
<1>2. Len(s) \in Nat
  OBVIOUS
<1> QED
  BY <1>1, <1>2 DEF Holds

(* The head of one append ago is the file without its last line. *)
LEMMA FrontAppend ==
    ASSUME NEW S, NEW s \in Seq(S), NEW e \in S
    PROVE  Front(Append(s, e)) = s
<1>1. Len(Append(s, e)) - 1 = Len(s)
  BY HoldsAppend
<1>2. SubSeq(Append(s, e), 1, Len(s)) = s
  OBVIOUS
<1> QED
  BY <1>1, <1>2 DEF Front

(* A sequence without its last element. *)
LEMMA FrontFacts ==
    ASSUME NEW S, NEW s \in Seq(S), s # <<>>
    PROVE  /\ Front(s) \in Seq(S) /\ Len(Front(s)) = Len(s) - 1
           /\ \A i \in 1 .. Len(s) - 1 : Front(s)[i] = s[i]
<1>1. Len(s) \in Nat /\ Len(s) > 0
  OBVIOUS
<1>2. Front(s) = SubSeq(s, 1, Len(s) - 1) /\ 1 <= Len(s) - 1 + 1
  BY <1>1 DEF Front
<1>3. Len(SubSeq(s, 1, Len(s) - 1)) = Len(s) - 1
      /\ SubSeq(s, 1, Len(s) - 1) \in Seq(S)
  <2>1. 1 \in 1 .. Len(s) + 1 /\ Len(s) - 1 \in 1 - 1 .. Len(s) /\ Len(s) - 1 - 1 + 1 = Len(s) - 1
    BY <1>1
  <2> QED
    BY <1>1, <2>1, SubSeqProperties
<1>4. \A i \in 1 .. Len(s) - 1 : SubSeq(s, 1, Len(s) - 1)[i] = s[i]
  BY <1>1
<1> QED
  BY <1>2, <1>3, <1>4

LEMMA SplitLast ==
    ASSUME NEW S, NEW s \in Seq(S), s # <<>>
    PROVE  \E e \in S : s = Append(Front(s), e)
<1>1. Len(s) \in Nat /\ Len(s) > 0 /\ s[Len(s)] \in S
  OBVIOUS
<1>2. /\ Front(s) \in Seq(S) /\ Len(Front(s)) = Len(s) - 1
      /\ \A i \in 1 .. Len(s) - 1 : Front(s)[i] = s[i]
  BY FrontFacts
<1>3. s = Append(Front(s), s[Len(s)])
  BY <1>1, <1>2
<1> QED
  BY <1>1, <1>3

-----------------------------------------------------------------------------
(* The inductive invariant: whoever is past Enter owns the lease, the head *)
(* lags by one record at most while that process has not replaced it, and  *)
(* when two records have run together nobody gets past the append that     *)
(* did it.                                                                 *)

Inside == PcSet \ {"idle", "entering"}
Writing == {"line_written", "newline_written", "head_written"}
Appended == {"line_written", "newline_written", "head_written", "converging",
             "preserving", "mirror_written", "logging", "returning"}

(* The types the invariant needs. *)
Types ==
    /\ lines \in Seq(Event) /\ open \in BOOLEAN /\ merged \in BOOLEAN
    /\ writer \in Proc \cup {NoProc}
    /\ pc \in [Proc -> PcSet] /\ ev \in [Proc -> Event \cup {NoEvent}]
    /\ plan \in [Proc -> Seq(Event)]
    /\ acked \in [Event -> Nat]

OneWriter == \A p \in Proc : pc[p] \in Inside => writer = p /\ ev[p] \in Event
EventKnown == \A p \in Proc : pc[p] # "idle" => ev[p] \in Event
OpenLine == open => lines # <<>>
FreshLine == \A p \in Proc : pc[p] = "appending" =>
                ~Holds(lines, ev[p]) /\ plan[p] = Append(lines, ev[p]) /\ Sealed
PlannedLine == \A p \in Proc : pc[p] \in Writing => plan[p] = lines
InFile == \A p \in Proc : pc[p] \in Appended => Holds(lines, ev[p])
HeadClose == Sealed \/ HeadLags
SealedInside == \A p \in Proc : pc[p] \in Inside \ {"line_written", "newline_written"} => Sealed
ParsesInside == \A p \in Proc : pc[p] \in Inside \ Writing => ~merged
MergedLast == merged => Len(lines) >= 2 /\ \A e \in Event : acked[e] < Len(lines)
AckedIn == \A e \in Event : acked[e] > 0 => acked[e] <= Len(lines) /\ lines[acked[e]] = e

LedgerInv ==
    /\ Types /\ OneWriter /\ EventKnown /\ OpenLine /\ FreshLine /\ PlannedLine
    /\ InFile /\ HeadClose /\ SealedInside /\ ParsesInside /\ MergedLast /\ AckedIn

USE DEF Goto

(* The head is close, so the file is readable while every line parses. *)
LEMMA InvReadable == ASSUME LedgerInv PROVE Readable \/ merged
BY DEF LedgerInv, HeadClose, Readable, Parses

(* At most one process is inside. *)
LEMMA Alone ==
    ASSUME LedgerInv, NEW p \in Proc, NEW q \in Proc, pc[p] \in Inside, pc[q] \in Inside
    PROVE  p = q
BY DEF LedgerInv, OneWriter

LEMMA InitInv == Init => LedgerInv
<1> SUFFICES ASSUME Init PROVE LedgerInv
  OBVIOUS
<1>1. Types
  <2>1. <<>> \in Seq(Event)
    OBVIOUS
  <2>2. plan \in [Proc -> Seq(Event)]
    BY <2>1 DEF Init
  <2> QED
    BY <2>1, <2>2 DEF Init, Types, PcSet
<1>2. HeadClose
  BY DEF Init, Sealed, HeadClose
<1>3. \A p \in Proc : pc[p] = "idle"
  BY DEF Init
<1>4. OneWriter /\ EventKnown /\ FreshLine /\ PlannedLine /\ InFile /\ SealedInside
  BY <1>3 DEF OneWriter, EventKnown, FreshLine, PlannedLine, InFile, SealedInside, Inside,
     Appended, Writing
<1>5. OpenLine /\ ParsesInside /\ MergedLast /\ AckedIn
  BY DEF Init, OpenLine, ParsesInside, MergedLast, AckedIn
<1> QED
  BY <1>1, <1>2, <1>4, <1>5 DEF LedgerInv

(* The actions that leave the ledger and its head alone. *)
QuietStep(p) ==
    \/ AppendEvent(p) \/ Refused(p) \/ PreserveMirror(p) \/ PreserveMirrorHead(p)
    \/ ReplaceMirror(p) \/ ReplaceMirrorHead(p) \/ ReplaceLog(p)

LEMMA QuietInv == ASSUME LedgerInv, NEW p \in Proc, QuietStep(p) PROVE LedgerInv'
<1>1. UNCHANGED <<lines, open, merged, head, acked, plan, writer>>
  BY DEF QuietStep, AppendEvent, Refused, PreserveMirror, PreserveMirrorHead,
     ReplaceMirror, ReplaceMirrorHead, ReplaceLog, appendVars
<1>2. Types'
  BY <1>1 DEF QuietStep, AppendEvent, Refused, PreserveMirror, PreserveMirrorHead,
     ReplaceMirror, ReplaceMirrorHead, ReplaceLog, LedgerInv, Types, PcSet
<1>3. \A q \in Proc \ {p} : pc'[q] = pc[q] /\ ev'[q] = ev[q]
  BY DEF QuietStep, AppendEvent, Refused, PreserveMirror, PreserveMirrorHead,
     ReplaceMirror, ReplaceMirrorHead, ReplaceLog, LedgerInv, Types
<1>4. \/ pc[p] \in {"idle", "entering"} /\ pc'[p] \in {"idle", "entering"}
         /\ (pc'[p] # "idle" => ev'[p] \in Event)
      \/ /\ pc[p] \in {"converging", "preserving", "mirror_written", "logging"}
         /\ pc'[p] \in {"converging", "preserving", "mirror_written", "logging", "returning"}
         /\ ev'[p] = ev[p]
  BY DEF QuietStep, AppendEvent, Refused, PreserveMirror, PreserveMirrorHead,
     ReplaceMirror, ReplaceMirrorHead, ReplaceLog, LedgerInv, Types
<1>5. Sealed' = Sealed /\ HeadLags' = HeadLags
  BY <1>1 DEF Sealed, HeadLags
<1>6. OneWriter' /\ EventKnown'
  BY <1>1, <1>3, <1>4 DEF LedgerInv, OneWriter, EventKnown, Inside, PcSet
<1>7. OpenLine' /\ MergedLast' /\ AckedIn'
  BY <1>1 DEF LedgerInv, OpenLine, MergedLast, AckedIn
<1>8. FreshLine' /\ PlannedLine'
  BY <1>1, <1>3, <1>4, <1>5 DEF LedgerInv, FreshLine, PlannedLine, Writing
<1>9. InFile'
  BY <1>1, <1>3, <1>4 DEF LedgerInv, InFile, Appended
<1>10. HeadClose' /\ SealedInside' /\ ParsesInside'
  BY <1>1, <1>3, <1>4, <1>5 DEF LedgerInv, HeadClose, SealedInside, ParsesInside, Inside,
     Writing, PcSet
<1> QED
  BY <1>2, <1>6, <1>7, <1>8, <1>9, <1>10 DEF LedgerInv

LEMMA EnterInv == ASSUME LedgerInv, NEW p \in Proc, Enter(p) PROVE LedgerInv'
<1>1. \A q \in Proc : pc[q] \notin Inside
  BY NoProcAssumption DEF Enter, LedgerInv, OneWriter
<1>2. Types'
  BY DEF Enter, LedgerInv, Types, PcSet, appendVars
<1>3. Sealed'
  BY InvReadable DEF Enter, Repairable, RepairedHead, Readable, Sealed
<1>4. pc[p] = "entering" /\ pc' = [pc EXCEPT ![p] = "planning"] /\ writer' = p
      /\ ~merged /\ UNCHANGED <<lines, open, merged, ev, plan, acked>>
  BY DEF Enter, Readable, Parses
<1>5. \A q \in Proc : pc'[q] \in Inside => q = p
  BY <1>1, <1>4 DEF LedgerInv, Types
<1>6. OneWriter' /\ EventKnown' /\ AckedIn' /\ OpenLine'
  BY <1>4, <1>5 DEF LedgerInv, OneWriter, EventKnown, AckedIn, OpenLine, Types
<1>7. pc'[p] = "planning"
  BY <1>4 DEF LedgerInv, Types
<1>8. ParsesInside' /\ MergedLast'
  BY <1>4 DEF ParsesInside, MergedLast
<1>9. FreshLine' /\ PlannedLine' /\ InFile'
  BY <1>4, <1>5, <1>7 DEF FreshLine, PlannedLine, InFile, Inside, Appended, Writing, PcSet
<1> QED
  BY <1>2, <1>3, <1>6, <1>8, <1>9 DEF LedgerInv, HeadClose, SealedInside

(* What a step inside leaves to the others: nothing, they are outside. *)
LEMMA InsideFrame ==
    ASSUME LedgerInv, NEW p \in Proc, pc[p] \in Inside, NEW there \in PcSet,
           pc' = [pc EXCEPT ![p] = there]
    PROVE  /\ pc'[p] = there
           /\ writer = p /\ ev[p] \in Event
           /\ \A q \in Proc \ {p} : pc'[q] = pc[q] /\ pc[q] \notin Inside
BY DEF LedgerInv, OneWriter, Types

LEMMA PlanInv ==
    ASSUME LedgerInv, NEW p \in Proc, Plan(p), ~Return(p) PROVE LedgerInv'
<1> DEFINE there == IF Installed(ev[p]) THEN WhenInstalled ELSE "appending"
<1>1. pc[p] = "planning" /\ pc' = [pc EXCEPT ![p] = there]
      /\ UNCHANGED <<lines, open, merged, head, writer, ev, acked>>
  BY DEF Plan, appendVars
<1>2. there \in {"converging", "appending"} /\ (there = "converging" <=> Holds(lines, ev[p]))
  BY DEF Installed, WhenInstalled
<1>3. /\ pc'[p] = there /\ writer = p /\ ev[p] \in Event
      /\ \A q \in Proc \ {p} : pc'[q] = pc[q] /\ pc[q] \notin Inside
  BY <1>1, <1>2, InsideFrame DEF Inside, PcSet
<1>4. Append(lines, ev[p]) \in Seq(Event)
  BY <1>3 DEF LedgerInv, Types
<1>5. plan' \in [Proc -> Seq(Event)]
      /\ (there = "appending" => plan'[p] = Append(lines, ev[p]))
  BY <1>4 DEF Plan, LedgerInv, Types, WhenInstalled
<1>6. Types'
  BY <1>1, <1>2, <1>5 DEF LedgerInv, Types, PcSet
<1>7. Sealed /\ (Sealed' <=> Sealed) /\ (HeadLags' <=> HeadLags)
  BY <1>1 DEF LedgerInv, SealedInside, Inside, PcSet, Sealed, HeadLags
<1>8. OneWriter' /\ EventKnown' /\ AckedIn'
  BY <1>1, <1>3 DEF LedgerInv, OneWriter, EventKnown, AckedIn
<1>9. FreshLine'
  BY <1>1, <1>2, <1>3, <1>5, <1>7 DEF FreshLine, Inside, PcSet
<1>10. PlannedLine' /\ InFile' /\ HeadClose' /\ SealedInside'
  BY <1>1, <1>2, <1>3, <1>7 DEF PlannedLine, InFile, HeadClose, SealedInside, Inside, PcSet,
     Appended, Writing
<1>11. OpenLine' /\ ParsesInside' /\ MergedLast'
  <2>1. ~merged
    BY <1>1 DEF LedgerInv, ParsesInside, Inside, Writing, PcSet
  <2> QED
    BY <1>1, <2>1 DEF LedgerInv, OpenLine, ParsesInside, MergedLast
<1> QED
  BY <1>6, <1>8, <1>9, <1>10, <1>11 DEF LedgerInv

LEMMA WriteLineInv == ASSUME LedgerInv, NEW p \in Proc, WriteLine(p) PROVE LedgerInv'
<1>1. pc[p] = "appending" /\ pc' = [pc EXCEPT ![p] = "line_written"] /\ open' = TRUE
      /\ merged' = open /\ UNCHANGED <<head, writer, ev, plan, acked>>
  BY DEF WriteLine
<1>2. /\ pc'[p] = "line_written" /\ writer = p /\ ev[p] \in Event
      /\ \A q \in Proc \ {p} : pc'[q] = pc[q] /\ pc[q] \notin Inside
  BY <1>1, InsideFrame DEF Inside, PcSet
<1>4. lines' = Append(lines, ev[p])
  BY DEF WriteLine
<1>5. Types'
  BY <1>1, <1>2, <1>4 DEF LedgerInv, Types, PcSet
<1>6. Sealed /\ plan[p] = lines'
  BY <1>1, <1>4 DEF LedgerInv, FreshLine
<1>7. lines \in Seq(Event)
  BY DEF LedgerInv, Types
<1>8. Front(lines') = lines /\ Len(lines') = Len(lines) + 1
  BY <1>2, <1>4, <1>7, FrontAppend, HoldsAppend
<1>9. HeadLags'
  <2>1. lines' # <<>>
    BY <1>7, <1>8
  <2>2. CASE head = lines /\ head # Missing
    BY <1>1, <1>8, <2>1, <2>2 DEF HeadLags
  <2>3. CASE head = Missing /\ lines = <<>>
    BY <1>1, <1>8, <2>1, <2>3 DEF HeadLags
  <2>4. lines # Missing \/ head # lines \/ lines = <<>>
    BY <1>7, MissingAssumption
  <2> QED
    BY <1>6, <2>2, <2>3, <2>4 DEF Sealed
<1>10. Holds(lines', ev[p]) /\ \A x : Holds(lines, x) => Holds(lines', x)
  BY <1>2, <1>4, <1>7, HoldsAppend
<1>11. OneWriter' /\ EventKnown'
  BY <1>1, <1>2 DEF LedgerInv, OneWriter, EventKnown
<1>12. AckedIn'
  <2>1. \A i \in 1 .. Len(lines) : lines'[i] = lines[i]
    BY <1>2, <1>4, <1>7, HoldsAppend
  <2> QED
    <3>1. acked' = acked /\ acked \in [Event -> Nat] /\ Len(lines) \in Nat
      BY <1>1, <1>7 DEF LedgerInv, Types
    <3> QED
      BY <1>8, <2>1, <3>1 DEF LedgerInv, AckedIn
<1>13. FreshLine' /\ PlannedLine' /\ SealedInside' /\ ParsesInside'
  BY <1>1, <1>2, <1>6 DEF FreshLine, PlannedLine, SealedInside, ParsesInside, Inside, Writing,
     PcSet
<1>15. OpenLine' /\ MergedLast'
  <2>1. acked' = acked /\ acked \in [Event -> Nat] /\ Len(lines) \in Nat
    BY <1>1, <1>7 DEF LedgerInv, Types
  <2>2. \A e \in Event : acked[e] <= Len(lines)
    BY <2>1 DEF LedgerInv, AckedIn
  <2>3. lines' # <<>> /\ (open => Len(lines) >= 1)
    BY <1>7, <1>8 DEF LedgerInv, OpenLine
  <2> QED
    BY <1>1, <1>8, <2>1, <2>2, <2>3 DEF OpenLine, MergedLast
<1>14. InFile'
  BY <1>1, <1>2, <1>10 DEF InFile, Appended, Inside, PcSet
<1> QED
  BY <1>5, <1>9, <1>11, <1>12, <1>13, <1>14, <1>15 DEF LedgerInv, HeadClose

LEMMA NewlineInv == ASSUME LedgerInv, NEW p \in Proc, WriteNewline(p) PROVE LedgerInv'
<1>1. pc[p] = "line_written" /\ pc' = [pc EXCEPT ![p] = "newline_written"] /\ open' = FALSE
      /\ UNCHANGED <<lines, merged, head, writer, ev, plan, acked>>
  BY DEF WriteNewline
<1>2. /\ pc'[p] = "newline_written" /\ writer = p /\ ev[p] \in Event
      /\ \A q \in Proc \ {p} : pc'[q] = pc[q] /\ pc[q] \notin Inside
  BY <1>1, InsideFrame DEF Inside, PcSet
<1>3. Types' /\ OneWriter' /\ EventKnown' /\ MergedLast' /\ AckedIn'
  BY <1>1, <1>2 DEF LedgerInv, Types, PcSet, OneWriter, EventKnown, MergedLast, AckedIn
<1>4. (Sealed' <=> Sealed) /\ (HeadLags' <=> HeadLags)
  BY <1>1 DEF Sealed, HeadLags
<1>5. OpenLine' /\ FreshLine' /\ SealedInside' /\ ParsesInside' /\ HeadClose'
  BY <1>1, <1>2, <1>4 DEF LedgerInv, OpenLine, FreshLine, SealedInside, ParsesInside, HeadClose,
     Inside, Writing, PcSet
<1>6. PlannedLine' /\ InFile'
  BY <1>1, <1>2 DEF LedgerInv, PlannedLine, InFile, Appended, Inside, Writing, PcSet
<1> QED
  BY <1>3, <1>5, <1>6 DEF LedgerInv

LEMMA WriteHeadInv == ASSUME LedgerInv, NEW p \in Proc, WriteHead(p) PROVE LedgerInv'
<1>1. pc[p] = "newline_written" /\ pc' = [pc EXCEPT ![p] = "head_written"]
      /\ head' = plan[p] /\ UNCHANGED <<lines, open, merged, writer, ev, plan, acked>>
  BY DEF WriteHead
<1>2. /\ pc'[p] = "head_written" /\ writer = p /\ ev[p] \in Event
      /\ \A q \in Proc \ {p} : pc'[q] = pc[q] /\ pc[q] \notin Inside
  BY <1>1, InsideFrame DEF Inside, PcSet
<1>3. Types' /\ OneWriter' /\ EventKnown' /\ MergedLast' /\ AckedIn'
  BY <1>1, <1>2 DEF LedgerInv, Types, PcSet, OneWriter, EventKnown, MergedLast, AckedIn
<1>4. Sealed'
  BY <1>1 DEF LedgerInv, PlannedLine, Sealed, Writing
<1>5. OpenLine' /\ ParsesInside'
  BY <1>1, <1>2 DEF LedgerInv, OpenLine, ParsesInside, Inside, Writing, PcSet
<1>6. FreshLine' /\ PlannedLine' /\ InFile'
  BY <1>1, <1>2 DEF LedgerInv, FreshLine, PlannedLine, InFile, Appended, Inside, Writing, PcSet
<1> QED
  BY <1>3, <1>4, <1>5, <1>6 DEF LedgerInv, HeadClose, SealedInside

(* A process leaves, by returning or by dying, wherever it stands. *)
LEMMA LeaveInv ==
    ASSUME LedgerInv, NEW p \in Proc,
           pc' = [pc EXCEPT ![p] = "idle"],
           ev' = [ev EXCEPT ![p] = NoEvent],
           plan' = [plan EXCEPT ![p] = <<>>],
           writer' \in {writer, NoProc}, writer # p => writer' = writer,
           UNCHANGED <<lines, open, merged, head, acked>>
    PROVE  LedgerInv'
<1>1. Types'
  <2>1. <<>> \in Seq(Event)
    OBVIOUS
  <2>2. plan' \in [Proc -> Seq(Event)]
    BY <2>1 DEF LedgerInv, Types
  <2> QED
    BY <2>2 DEF LedgerInv, Types, PcSet
<1>2. pc'[p] = "idle" /\ \A q \in Proc \ {p} : pc'[q] = pc[q] /\ ev'[q] = ev[q] /\ plan'[q] = plan[q]
  BY DEF LedgerInv, Types
<1>3. (Sealed' <=> Sealed) /\ (HeadLags' <=> HeadLags)
  BY DEF Sealed, HeadLags
<1>4. \A q \in Proc \ {p} : pc[q] \in Inside => writer' = q
  BY DEF LedgerInv, OneWriter
<1>5. OneWriter' /\ EventKnown'
  BY <1>2, <1>4 DEF LedgerInv, OneWriter, EventKnown, Inside
<1>6. OpenLine' /\ MergedLast' /\ AckedIn'
  BY DEF LedgerInv, OpenLine, MergedLast, AckedIn
<1>7. FreshLine' /\ PlannedLine' /\ InFile'
  BY <1>2, <1>3 DEF LedgerInv, FreshLine, PlannedLine, InFile, Appended, Writing
<1>8. HeadClose' /\ SealedInside' /\ ParsesInside'
  BY <1>2, <1>3 DEF LedgerInv, HeadClose, SealedInside, ParsesInside, Inside
<1> QED
  BY <1>1, <1>5, <1>6, <1>7, <1>8 DEF LedgerInv

(* Plan and Verify give up by returning. *)
LEMMA ReturnInv ==
    ASSUME LedgerInv, NEW p \in Proc, Plan(p) \/ Verify(p), Return(p) PROVE LedgerInv'
<1>1. pc[p] \in {"planning", "head_written"} /\ writer = p
  BY DEF Plan, Verify, LedgerInv, OneWriter, Inside, PcSet
<1>2. UNCHANGED <<lines, open, merged, head, acked>>
  BY DEF Plan, Verify, appendVars
<1> QED
  BY <1>1, <1>2, LeaveInv DEF Return

LEMMA VerifyInv ==
    ASSUME LedgerInv, NEW p \in Proc, Verify(p), ~Return(p) PROVE LedgerInv'
<1>1. pc[p] = "head_written" /\ pc' = [pc EXCEPT ![p] = "converging"]
      /\ ~merged /\ UNCHANGED <<lines, open, merged, head, writer, ev, plan, acked>>
  BY DEF Verify, appendVars, Readable, Parses
<1>2. /\ pc'[p] = "converging" /\ writer = p /\ ev[p] \in Event
      /\ \A q \in Proc \ {p} : pc'[q] = pc[q] /\ pc[q] \notin Inside
  BY <1>1, InsideFrame DEF Inside, PcSet
<1>3. Types' /\ OneWriter' /\ EventKnown' /\ MergedLast' /\ AckedIn'
  BY <1>1, <1>2 DEF LedgerInv, Types, PcSet, OneWriter, EventKnown, MergedLast, AckedIn
<1>4. (Sealed' <=> Sealed) /\ (HeadLags' <=> HeadLags)
  BY <1>1 DEF Sealed, HeadLags
<1>5. OpenLine' /\ FreshLine' /\ SealedInside' /\ ParsesInside' /\ HeadClose'
  BY <1>1, <1>2, <1>4 DEF LedgerInv, OpenLine, FreshLine, SealedInside, ParsesInside, HeadClose,
     Inside, PcSet
<1>6. PlannedLine' /\ InFile'
  BY <1>1, <1>2 DEF LedgerInv, PlannedLine, InFile, Appended, Inside, Writing, PcSet
<1> QED
  BY <1>3, <1>5, <1>6 DEF LedgerInv

(* The ordinal of an event of the file names its line. *)
LEMMA OrdinalFacts ==
    ASSUME LedgerInv, NEW e \in Event, Holds(lines, e)
    PROVE  OrdinalOf(e) \in 1 .. Len(lines) /\ lines[OrdinalOf(e)] = e
BY DEF Holds, OrdinalOf

LEMMA DoneInv == ASSUME LedgerInv, NEW p \in Proc, Done(p) PROVE LedgerInv'
<1>1. pc[p] = "returning" /\ acked' = [acked EXCEPT ![ev[p]] = OrdinalOf(ev[p])]
      /\ Return(p) /\ UNCHANGED <<lines, open, merged, head>>
  BY DEF Done, appendVars
<1>2. ev[p] \in Event /\ Holds(lines, ev[p]) /\ writer = p
  BY <1>1 DEF LedgerInv, OneWriter, InFile, Inside, Appended, PcSet
<1>3. OrdinalOf(ev[p]) \in 1 .. Len(lines) /\ lines[OrdinalOf(ev[p])] = ev[p]
  BY <1>2, OrdinalFacts
<1>4. acked' \in [Event -> Nat] /\ AckedIn'
  BY <1>1, <1>2, <1>3 DEF LedgerInv, Types, AckedIn
<1>5. Types'
  <2>1. <<>> \in Seq(Event)
    OBVIOUS
  <2>2. plan' \in [Proc -> Seq(Event)]
    BY <1>1, <2>1 DEF LedgerInv, Types, Return
  <2> QED
    BY <1>1, <1>4, <2>2 DEF LedgerInv, Types, PcSet, Return
<1>6. pc'[p] = "idle"
      /\ \A q \in Proc \ {p} : pc'[q] = pc[q] /\ ev'[q] = ev[q] /\ plan'[q] = plan[q]
  BY <1>1 DEF LedgerInv, Types, Return
<1>7. (Sealed' <=> Sealed) /\ (HeadLags' <=> HeadLags)
  BY <1>1 DEF Sealed, HeadLags
<1>8. \A q \in Proc \ {p} : pc[q] \notin Inside
  BY <1>1, Alone DEF Inside, PcSet
<1>9. OneWriter' /\ EventKnown' /\ OpenLine' /\ ParsesInside' /\ MergedLast'
  <2>1. ~merged
    BY <1>1 DEF LedgerInv, ParsesInside, Inside, Writing, PcSet
  <2> QED
    BY <1>1, <1>6, <1>8, <2>1 DEF LedgerInv, OneWriter, EventKnown, OpenLine, ParsesInside,
       MergedLast, Inside
<1>10. FreshLine' /\ PlannedLine' /\ InFile'
  BY <1>6, <1>8 DEF FreshLine, PlannedLine, InFile, Appended, Inside, Writing, PcSet
<1>11. HeadClose' /\ SealedInside'
  BY <1>6, <1>7, <1>8 DEF LedgerInv, HeadClose, SealedInside, Inside
<1> QED
  BY <1>4, <1>5, <1>9, <1>10, <1>11 DEF LedgerInv

LEMMA ReaderInv ==
    ASSUME LedgerInv, UNCHANGED <<lines, open, merged, head, writer, pc, ev, plan, acked>>
    PROVE  LedgerInv'
BY DEF LedgerInv, Types, OneWriter, EventKnown, OpenLine, FreshLine, PlannedLine, InFile,
   HeadClose, SealedInside, ParsesInside, MergedLast, AckedIn, Sealed, HeadLags

LEMMA NextInv == LedgerInv /\ [Next]_vars => LedgerInv'
<1> SUFFICES ASSUME LedgerInv, [Next]_vars PROVE LedgerInv'
  OBVIOUS
<1>1. ASSUME NEW p \in Proc, AppendEvent(p) \/ AppendStep(p) PROVE LedgerInv'
  BY <1>1, QuietInv, EnterInv, PlanInv, WriteLineInv, NewlineInv, WriteHeadInv, VerifyInv,
     ReturnInv, DoneInv DEF AppendStep, QuietStep
<1>2. ASSUME NEW p \in Proc, Kill(p) PROVE LedgerInv'
  BY <1>2, LeaveInv DEF Kill, appendVars
<1>3. ASSUME NEW r \in Reader, ReadStep(r) PROVE LedgerInv'
  BY <1>3, ReaderInv DEF ReadStep, ReadHead, StatFile, ReadBytes, StatAgain, ReadHeadAgain,
     ReaderReturns, writeVars, appendVars
<1>4. CASE UNCHANGED vars
  BY <1>4, ReaderInv DEF vars, appendVars
<1> QED
  BY <1>1, <1>2, <1>3, <1>4 DEF Next

-----------------------------------------------------------------------------
(* What parses once the last record has run into the one before it. *)
LEMMA MergedFacts ==
    ASSUME LedgerInv, merged
    PROVE  /\ Recorded = Front(lines) /\ Recorded \in Seq(Event) /\ Recorded # <<>>
           /\ Len(Recorded) = Len(lines) - 1
           /\ \A i \in 1 .. Len(Recorded) : Recorded[i] = lines[i]
           /\ Legible = Front(Recorded) /\ Legible \in Seq(Event)
           /\ Len(Legible) = Len(lines) - 2
           /\ \A i \in 1 .. Len(Legible) : Legible[i] = lines[i]
<1>1. lines \in Seq(Event) /\ Len(lines) \in Nat /\ Len(lines) >= 2 /\ lines # <<>>
  BY DEF LedgerInv, Types, MergedLast
<1>2. Recorded = Front(lines) /\ Legible = Front(Recorded)
  BY DEF Recorded, Legible
<1>3. Recorded \in Seq(Event) /\ Len(Recorded) = Len(lines) - 1
      /\ \A i \in 1 .. Len(Recorded) : Recorded[i] = lines[i]
  BY <1>1, <1>2, FrontFacts
<1>4. Recorded # <<>>
  BY <1>1, <1>3
<1>5. Legible \in Seq(Event) /\ Len(Legible) = Len(Recorded) - 1
      /\ \A i \in 1 .. Len(Legible) : Legible[i] = Recorded[i]
  BY <1>2, <1>3, <1>4, FrontFacts
<1> QED
  BY <1>1, <1>2, <1>3, <1>4, <1>5

(* Wherever a process dies, the ledger stays readable and the ordinal an   *)
(* append returned keeps naming its event, until a record runs into a line *)
(* without newline, which costs one recorded event at most                 *)
(* (validate_ledger_head, append_planned).                                 *)
THEOREM Durability == Spec => []HistoryKept
<1>1. Init => LedgerInv
  BY InitInv
<1>2. LedgerInv /\ [Next]_vars => LedgerInv'
  BY NextInv
<1>3. LedgerInv => HistoryKept
  <2> SUFFICES ASSUME LedgerInv, NEW e \in Event, acked[e] > 0
               PROVE  \/ acked[e] <= Len(Legible) /\ Legible[acked[e]] = e
                      \/ merged /\ acked[e] = Len(Recorded) /\ Recorded[acked[e]] = e
    BY InvReadable DEF HistoryKept, AckedStays
  <2>1. acked[e] \in Nat /\ Len(lines) \in Nat /\ acked[e] <= Len(lines) /\ lines[acked[e]] = e
    BY DEF LedgerInv, Types, AckedIn
  <2>2. CASE ~merged
    BY <2>1, <2>2 DEF Legible
  <2>3. CASE merged
    <3>1. acked[e] < Len(lines)
      BY <2>3 DEF LedgerInv, MergedLast
    <3> QED
      BY <2>1, <2>3, <3>1, MergedFacts
  <2> QED
    BY <2>2, <2>3
<1> QED
  BY <1>1, <1>2, <1>3, PTL DEF Spec

(* The ledger implements the abstract history: a step records one event    *)
(* that was not there, acknowledges one that is, leaves the last record    *)
(* without its newline for good, loses that record, or changes none of it. *)
THEOREM Implements == Spec => ImplementsEventLog
<1>1. Init => Abstract!Init
  BY DEF Init, Abstract!Init, AckedEvents, Legible, Severed
<1>2. LedgerInv /\ [Next]_vars =>
        [Abstract!Next]_<<Legible, AckedEvents, Severed, merged>>
  <2> SUFFICES ASSUME LedgerInv, [Next]_vars
               PROVE  \/ Abstract!Next
                      \/ UNCHANGED <<Legible, AckedEvents, Severed, merged>>
    OBVIOUS
  <2>1. ASSUME NEW p \in Proc, WriteLine(p) PROVE Abstract!Next
    <3>1. ev[p] \in Event /\ ~Holds(lines, ev[p]) /\ ~merged /\ lines \in Seq(Event)
      BY <2>1 DEF WriteLine, LedgerInv, EventKnown, FreshLine, ParsesInside, Types, Inside,
         Writing, PcSet
    <3>2. lines' = Append(lines, ev[p]) /\ merged' = open /\ open' = TRUE
          /\ acked' = acked /\ pc' = [pc EXCEPT ![p] = "line_written"] /\ pc[p] = "appending"
      BY <2>1 DEF WriteLine
    <3>3. Legible = lines
      BY <3>1 DEF Legible
    <3>4. AckedEvents' = AckedEvents
      BY <3>2 DEF AckedEvents
    <3>5. pc'[p] = "line_written"
      BY <3>2 DEF LedgerInv, Types
    <3>6. Severed <=> open
      BY <3>1, <3>2, InsideFrame DEF Severed, Inside, PcSet
    <3>7. CASE ~open
      <4>1. Severed' = FALSE /\ Severed = FALSE
        BY <3>2, <3>5, <3>6, <3>7 DEF Severed
      <4>2. Legible' = Append(Legible, ev[p])
        BY <3>2, <3>3, <3>7 DEF Legible
      <4>4. merged' = merged
        BY <3>1, <3>2, <3>7 DEF LedgerInv, Types
      <4>3. Abstract!Record(ev[p])
        BY <3>1, <3>3, <3>4, <4>1, <4>2, <4>4 DEF Abstract!Record, Abstract!Holds, Holds
      <4> QED
        BY <3>1, <4>3 DEF Abstract!Next
    <3>8. CASE open
      <4>1. Severed' /\ Severed
        BY <3>2, <3>6, <3>8 DEF Severed
      <4>2. Front(lines') = lines
        BY <3>1, <3>2, FrontAppend
      <4>3. Legible' = SubSeq(Legible, 1, Len(Legible) - 1)
        BY <3>2, <3>3, <3>8, <4>2 DEF Legible, Front
      <4>4. Abstract!Lose
        BY <3>1, <3>2, <3>4, <3>8, <4>1, <4>3 DEF Abstract!Lose
      <4> QED
        BY <4>4 DEF Abstract!Next
    <3> QED
      BY <3>7, <3>8
  <2>2. ASSUME NEW p \in Proc, Done(p) PROVE Abstract!Next
    <3>1. ev[p] \in Event /\ Holds(lines, ev[p]) /\ ~merged
      BY <2>2 DEF Done, LedgerInv, EventKnown, InFile, Appended, ParsesInside, Inside, Writing,
         PcSet
    <3>2. acked' = [acked EXCEPT ![ev[p]] = OrdinalOf(ev[p])]
          /\ UNCHANGED <<lines, open, merged>>
      BY <2>2 DEF Done, appendVars
    <3>3. OrdinalOf(ev[p]) > 0
      BY <3>1, OrdinalFacts
    <3>4. AckedEvents' = AckedEvents \cup {ev[p]}
      BY <3>1, <3>2, <3>3 DEF LedgerInv, Types, AckedEvents
    <3>5. Legible = lines /\ Legible' = Legible
      BY <3>1, <3>2 DEF Legible
    <3>6. (Severed' <=> Severed)
      BY <2>2, <3>2 DEF Severed, Done, Return, LedgerInv, Types
    <3>7. \E e \in Event : Abstract!Acknowledge(e)
      BY <3>1, <3>2, <3>4, <3>5, <3>6 DEF Abstract!Acknowledge, Abstract!Holds, Holds
    <3> QED
      BY <3>7 DEF Abstract!Next
  <2>3. ASSUME UNCHANGED <<lines, merged, acked>>, Severed' <=> Severed
        PROVE  UNCHANGED <<Legible, AckedEvents, Severed, merged>>
    BY <2>3 DEF Legible, AckedEvents, Severed
  <2>4. ASSUME NEW p \in Proc, AppendEvent(p) \/ (AppendStep(p) /\ ~WriteLine(p) /\ ~Done(p))
        PROVE  UNCHANGED <<lines, merged, acked>> /\ (Severed' <=> Severed)
    <3>1. UNCHANGED <<lines, merged, acked>>
      BY <2>4 DEF AppendEvent, AppendStep, Enter, Refused, Plan, WriteNewline, WriteHead, Verify,
         PreserveMirror, PreserveMirrorHead, ReplaceMirror, ReplaceMirrorHead, ReplaceLog,
         appendVars
    <3>2. CASE WriteNewline(p)
      <4>1. pc[p] = "line_written" /\ open' = FALSE
        BY <3>2 DEF WriteNewline
      <4> QED
        BY <3>1, <4>1 DEF Severed
    <3>3. CASE ~WriteNewline(p)
      <4>1. open' = open /\ pc[p] # "line_written" /\ pc'[p] # "line_written"
            /\ \A q \in Proc \ {p} : pc'[q] = pc[q]
        BY <2>4, <3>3 DEF AppendEvent, AppendStep, Enter, Refused, Plan, WriteHead, Verify,
           PreserveMirror, PreserveMirrorHead, ReplaceMirror, ReplaceMirrorHead, ReplaceLog,
           appendVars, Return, WhenInstalled, LedgerInv, Types
      <4> QED
        BY <3>1, <4>1 DEF Severed
    <3> QED
      BY <3>1, <3>2, <3>3
  <2>5. ASSUME NEW p \in Proc, Kill(p), ~(Severed' <=> Severed) PROVE Abstract!Next
    <3>1. UNCHANGED <<lines, open, merged, acked>> /\ pc' = [pc EXCEPT ![p] = "idle"]
      BY <2>5 DEF Kill, appendVars
    <3>2. open /\ ~merged /\ Severed'
      BY <2>5, <3>1 DEF Severed, LedgerInv, Types
    <3>3. Legible' = Legible /\ Legible # <<>> /\ AckedEvents' = AckedEvents
      BY <3>1, <3>2 DEF Legible, AckedEvents, LedgerInv, OpenLine
    <3>4. Severed' = TRUE
      BY <3>2 DEF Severed
    <3>5. Abstract!Sever
      BY <3>1, <3>3, <3>4 DEF Abstract!Sever
    <3> QED
      BY <3>5 DEF Abstract!Next
  <2>6. ASSUME NEW r \in Reader, ReadStep(r)
        PROVE  UNCHANGED <<lines, merged, acked>> /\ (Severed' <=> Severed)
    BY <2>6 DEF ReadStep, ReadHead, StatFile, ReadBytes, StatAgain, ReadHeadAgain,
       ReaderReturns, writeVars, appendVars, Severed
  <2>7. CASE UNCHANGED vars
    BY <2>3, <2>7 DEF vars, appendVars, Severed
  <2>8. ASSUME NEW p \in Proc, Kill(p) PROVE UNCHANGED <<lines, merged, acked>>
    BY <2>8 DEF Kill, appendVars
  <2> QED
    BY <2>1, <2>2, <2>3, <2>4, <2>5, <2>6, <2>7, <2>8 DEF Next, AppendStep
<1>3. Init => LedgerInv
  BY InitInv
<1>4. LedgerInv /\ [Next]_vars => LedgerInv'
  BY NextInv
<1> QED
  BY <1>1, <1>2, <1>3, <1>4, PTL DEF Spec, ImplementsEventLog, Abstract!Spec

-----------------------------------------------------------------------------
(* Lock-free readers.  The head is the file, or the file without its last  *)
(* record, and covers what was acknowledged: a reader that finds one head  *)
(* twice, and exactly its lines between, has read a state of the ledger    *)
(* that is no older than its own start, and all of it in lines that end in *)
(* a newline, which no record runs into.                                   *)

(* The ledger only grows, so a state of it stays a prefix of it. *)
LEMMA PrefixGrows ==
    ASSUME NEW S, NEW s \in Seq(S), NEW t \in Seq(S), NEW e \in S, IsPrefix(s, t)
    PROVE  IsPrefix(s, Append(t, e))
<1>1. Len(s) \in Nat /\ Len(t) \in Nat /\ Len(s) <= Len(t)
      /\ SubSeq(s, 1, Len(s)) = SubSeq(t, 1, Len(s))
  BY DEF IsPrefix
<1>2. Append(t, e) \in Seq(S) /\ Len(Append(t, e)) = Len(t) + 1
      /\ \A i \in 1 .. Len(t) : Append(t, e)[i] = t[i]
  BY HoldsAppend
<1>3. SubSeq(Append(t, e), 1, Len(s)) = SubSeq(t, 1, Len(s))
  BY <1>1, <1>2
<1> QED
  BY <1>1, <1>2, <1>3 DEF IsPrefix

(* A file is a prefix of itself, and so is the file without its last line. *)
LEMMA FrontIsPrefix ==
    ASSUME NEW S, NEW s \in Seq(S)
    PROVE  /\ IsPrefix(s, s)
           /\ s # <<>> => Front(s) \in Seq(S) /\ IsPrefix(Front(s), s)
<1>1. IsPrefix(s, s)
  BY DEF IsPrefix
<1>2. ASSUME s # <<>> PROVE Front(s) \in Seq(S) /\ IsPrefix(Front(s), s)
  <2>1. Len(s) \in Nat /\ Len(s) > 0
    BY <1>2
  <2>2. Front(s) \in Seq(S) /\ Len(Front(s)) = Len(s) - 1
        /\ \A i \in 1 .. Len(s) - 1 : Front(s)[i] = s[i]
    BY <1>2, FrontFacts
  <2>3. SubSeq(Front(s), 1, Len(s) - 1) = SubSeq(s, 1, Len(s) - 1)
    BY <2>1, <2>2
  <2> QED
    BY <2>1, <2>2, <2>3 DEF IsPrefix
<1> QED
  BY <1>1, <1>2

LEMMA PrefixTrans ==
    ASSUME NEW S, NEW s \in Seq(S), NEW t \in Seq(S), NEW u \in Seq(S),
           IsPrefix(s, t), IsPrefix(t, u)
    PROVE  IsPrefix(s, u)
<1>1. Len(s) \in Nat /\ Len(t) \in Nat /\ Len(u) \in Nat /\ Len(s) <= Len(t) /\ Len(t) <= Len(u)
  BY DEF IsPrefix
<1>2. SubSeq(s, 1, Len(s)) = SubSeq(t, 1, Len(s)) /\ SubSeq(t, 1, Len(t)) = SubSeq(u, 1, Len(t))
  BY DEF IsPrefix
<1>3. SubSeq(t, 1, Len(s)) = SubSeq(SubSeq(t, 1, Len(t)), 1, Len(s))
      /\ SubSeq(u, 1, Len(s)) = SubSeq(SubSeq(u, 1, Len(t)), 1, Len(s))
  BY <1>1
<1> QED
  BY <1>1, <1>2, <1>3 DEF IsPrefix

Reading == {"head_read", "stat_read", "bytes_read", "stat_again"}
Line == Event \cup {Torn}
View == [head : File, size : Int, lines : Seq(Line)]

ReaderTypes ==
    /\ rpc \in [Reader -> Reading \cup {"idle", "done", "blocked"}]
    /\ seen \in [Reader -> View]
    /\ floor \in [Reader -> SUBSET Event]

(* What was acknowledged is covered by the head on disk. *)
AckedInHead == \A e \in Event : acked[e] > 0 => head # Missing /\ Holds(head, e)

(* The lines that end in a newline. *)
Complete == IF merged THEN Legible ELSE IF open THEN Front(lines) ELSE lines

(* A state of the ledger, no older than the reader's start. *)
Covers(tail, since) ==
    /\ tail \in Seq(Event)
    /\ IsPrefix(tail, lines)
    /\ \A e \in since : Holds(tail, e)
HeadsRead == \A r \in Reader : rpc[r] \in Reading => Covers(seen[r].head, floor[r])
(* A tail is read from complete lines, or ends in one that does not parse. *)
Whole(tail) == tail \in Seq(Event) => IsPrefix(tail, Complete)
BytesRead == \A r \in Reader : rpc[r] \in {"bytes_read", "stat_again"} => Whole(seen[r].lines)
TailsDone == \A r \in Reader : rpc[r] = "done" =>
                Covers(seen[r].lines, floor[r]) /\ Whole(seen[r].lines)

ReadInv == AckedInHead /\ ReaderTypes /\ HeadsRead /\ BytesRead /\ TailsDone

(* The complete lines are events of the ledger, all of them legible. *)
LEMMA CompleteFacts ==
    ASSUME LedgerInv
    PROVE  Complete \in Seq(Event) /\ IsPrefix(Complete, Legible)
<1>1. lines \in Seq(Event) /\ IsPrefix(lines, lines)
  BY FrontIsPrefix DEF LedgerInv, Types
<1>2. CASE merged
  BY <1>2, MergedFacts, FrontIsPrefix DEF Complete
<1>3. CASE ~merged /\ open
  BY <1>1, <1>3, FrontIsPrefix DEF Complete, Legible, LedgerInv, OpenLine
<1>4. CASE ~merged /\ ~open
  BY <1>1, <1>4 DEF Complete, Legible
<1> QED
  BY <1>2, <1>3, <1>4

(* A tail that ends in a torn line is no sequence of events. *)
LEMMA TornTail == ASSUME NEW s \in Seq(Event) PROVE Append(s, Torn) \notin Seq(Event)
<1>1. s \in Seq(Line) /\ Torn \in Line
  BY DEF Line
<1>2. Len(Append(s, Torn)) = Len(s) + 1 /\ Append(s, Torn)[Len(s) + 1] = Torn /\ Len(s) \in Nat
  BY <1>1, HoldsAppend
<1>3. ASSUME Append(s, Torn) \in Seq(Event) PROVE FALSE
  <2>1. Append(s, Torn)[Len(s) + 1] \in Event
    BY <1>2, <1>3
  <2> QED
    BY <1>2, <2>1, EventAssumption
<1> QED
  BY <1>3

(* The head on disk is a state of the ledger. *)
LEMMA HeadIsPrefix ==
    ASSUME LedgerInv PROVE head = Missing \/ (head \in Seq(Event) /\ IsPrefix(head, lines))
<1>1. lines \in Seq(Event)
  BY DEF LedgerInv, Types
<1>2. head = Missing \/ head = lines \/ (lines # <<>> /\ head = Front(lines))
  BY DEF LedgerInv, HeadClose, Sealed, HeadLags
<1> QED
  BY <1>1, <1>2, FrontIsPrefix

(* Whatever a writer does, the ledger stays or grows by one event, and     *)
(* complete lines stay complete.                                           *)
LEMMA WriterGrows ==
    ASSUME LedgerInv, NEW p \in Proc, AppendEvent(p) \/ AppendStep(p) \/ Kill(p)
    PROVE  /\ lines' = lines \/ \E e \in Event : lines' = Append(lines, e)
           /\ Complete' = Complete \/ \E e \in Event : Complete' = Append(Complete, e)
           /\ UNCHANGED readVars
<1> USE DEF readVars
<1>1. CASE WriteLine(p)
  <2>1. ev[p] \in Event /\ lines \in Seq(Event) /\ ~merged
    BY <1>1 DEF WriteLine, LedgerInv, EventKnown, ParsesInside, Types, Inside, Writing, PcSet
  <2>2. lines' = Append(lines, ev[p]) /\ merged' = open /\ open' = TRUE /\ UNCHANGED readVars
    BY <1>1 DEF WriteLine
  <2>3. Front(lines') = lines
    BY <2>1, <2>2, FrontAppend
  <2>4. Complete' = Complete
    BY <2>1, <2>2, <2>3 DEF Complete, Legible
  <2> QED
    BY <2>1, <2>2, <2>4
<1>2. CASE WriteNewline(p)
  <2>1. UNCHANGED <<lines, merged, readVars>> /\ open' = FALSE /\ lines \in Seq(Event)
    BY <1>2 DEF WriteNewline, LedgerInv, Types
  <2>2. CASE merged \/ ~open
    BY <2>1, <2>2 DEF Complete, Legible
  <2>3. CASE ~merged /\ open
    <3>1. lines # <<>>
      BY <2>3 DEF LedgerInv, OpenLine
    <3>2. PICK e \in Event : lines = Append(Front(lines), e)
      BY <2>1, <3>1, SplitLast
    <3>3. Complete' = lines /\ Complete = Front(lines)
      BY <2>1, <2>3 DEF Complete
    <3> QED
      BY <2>1, <3>2, <3>3
  <2> QED
    BY <2>1, <2>2, <2>3
<1>3. CASE ~WriteLine(p) /\ ~WriteNewline(p)
  <2>1. UNCHANGED <<lines, open, merged, readVars>>
    BY <1>3 DEF AppendEvent, AppendStep, Enter, Refused, Plan, WriteHead, Verify,
       PreserveMirror, PreserveMirrorHead, ReplaceMirror, ReplaceMirrorHead, ReplaceLog, Done,
       Kill, appendVars
  <2> QED
    BY <2>1 DEF Complete, Legible
<1> QED
  BY <1>1, <1>2, <1>3

(* What is read is kept while writers go on. *)
LEMMA WriterReadInv ==
    ASSUME LedgerInv, LedgerInv', ReadInv, NEW p \in Proc,
           AppendEvent(p) \/ AppendStep(p) \/ Kill(p)
    PROVE  ReadInv'
<1>1. /\ lines' = lines \/ \E e \in Event : lines' = Append(lines, e)
      /\ Complete' = Complete \/ \E e \in Event : Complete' = Append(Complete, e)
      /\ UNCHANGED readVars
  BY WriterGrows
<1>2. lines \in Seq(Event) /\ Complete \in Seq(Event)
  BY CompleteFacts DEF LedgerInv, Types
<1>3. ASSUME NEW r \in Reader, Whole(seen[r].lines) PROVE Whole(seen[r].lines)'
  <2> SUFFICES ASSUME seen[r].lines \in Seq(Event) PROVE IsPrefix(seen[r].lines, Complete')
    BY <1>1 DEF Whole, readVars
  <2>1. IsPrefix(seen[r].lines, Complete)
    BY <1>3 DEF Whole
  <2> QED
    BY <1>1, <1>2, <2>1, PrefixGrows
<1>4. ReaderTypes' /\ HeadsRead' /\ BytesRead' /\ TailsDone'
  <2>1. ReaderTypes'
    BY <1>1 DEF ReadInv, ReaderTypes, readVars
  <2>2. ASSUME NEW r \in Reader, rpc'[r] \in Reading PROVE Covers(seen[r].head, floor[r])'
    <3>1. Covers(seen[r].head, floor[r])
      BY <1>1, <2>2 DEF ReadInv, HeadsRead, readVars
    <3>2. seen'[r].head \in Seq(Event) /\ IsPrefix(seen'[r].head, lines')
      BY <1>1, <1>2, <3>1, PrefixGrows DEF Covers, readVars
    <3> QED
      BY <1>1, <3>1, <3>2 DEF Covers, readVars
  <2>4. BytesRead'
    BY <1>1, <1>3 DEF ReadInv, BytesRead, readVars
  <2>3. ASSUME NEW r \in Reader, rpc'[r] = "done"
        PROVE  Covers(seen[r].lines, floor[r])' /\ Whole(seen[r].lines)'
    <3>1. Covers(seen[r].lines, floor[r])
      BY <1>1, <2>3 DEF ReadInv, TailsDone, readVars
    <3>2. seen'[r].lines \in Seq(Event) /\ IsPrefix(seen'[r].lines, lines')
      BY <1>1, <1>2, <3>1, PrefixGrows DEF Covers, readVars
    <3>3. Whole(seen[r].lines)'
      BY <1>1, <1>3, <2>3 DEF ReadInv, TailsDone, readVars
    <3> QED
      BY <1>1, <3>1, <3>2, <3>3 DEF Covers, readVars
  <2> QED
    BY <2>1, <2>2, <2>3, <2>4 DEF HeadsRead, TailsDone
<1>5. AckedInHead'
  <2>1. CASE Done(p)
    <3>1. ev[p] \in Event /\ Holds(lines, ev[p]) /\ Sealed
      BY <2>1 DEF Done, LedgerInv, EventKnown, InFile, SealedInside, Inside, Appended, PcSet
    <3>2. head = lines /\ head' = head
      BY <1>2, <2>1, <3>1 DEF Sealed, Holds, Done, appendVars
    <3>3. \A e \in Event : acked'[e] > 0 => acked[e] > 0 \/ e = ev[p]
      BY <2>1 DEF Done, LedgerInv, Types
    <3> QED
      BY <1>2, <3>1, <3>2, <3>3, MissingAssumption DEF ReadInv, AckedInHead, Holds
  <2>2. CASE ~Done(p)
    <3>1. acked' = acked
      BY <2>2 DEF AppendEvent, AppendStep, Enter, Refused, Plan, WriteLine, WriteNewline,
         WriteHead, Verify, PreserveMirror, PreserveMirrorHead, ReplaceMirror,
         ReplaceMirrorHead, ReplaceLog, Kill
    <3>2. head' = head \/ (head' = lines' /\ lines' = lines)
      BY <2>2 DEF AppendEvent, AppendStep, Enter, Refused, Plan, WriteLine, WriteNewline,
         WriteHead, Verify, PreserveMirror, PreserveMirrorHead, ReplaceMirror,
         ReplaceMirrorHead, ReplaceLog, Kill, appendVars, RepairedHead, LedgerInv, PlannedLine,
         Writing
    <3>3. \A e \in Event : acked[e] > 0 => Holds(lines, e)
      <4> SUFFICES ASSUME NEW e \in Event, acked[e] > 0 PROVE acked[e] \in 1 .. Len(lines)
        BY DEF LedgerInv, AckedIn, Holds
      <4>1. acked[e] \in Nat /\ acked[e] <= Len(lines) /\ Len(lines) \in Nat
        BY <1>2 DEF LedgerInv, AckedIn, Types
      <4> QED
        BY <4>1
    <3> QED
      BY <1>2, <3>1, <3>2, <3>3, MissingAssumption DEF ReadInv, AckedInHead, Holds
  <2> QED
    BY <2>1, <2>2
<1> QED
  BY <1>4, <1>5 DEF ReadInv

(* The steps of a reader. *)
LEMMA ReaderReadInv ==
    ASSUME LedgerInv, ReadInv, NEW r \in Reader, ReadStep(r) PROVE ReadInv'
<1>1. UNCHANGED <<lines, open, merged, head, acked>>
  BY DEF ReadStep, ReadHead, StatFile, ReadBytes, StatAgain, ReadHeadAgain, ReaderReturns,
     writeVars, appendVars
<1>2. AckedInHead'
  BY <1>1 DEF ReadInv, AckedInHead
<1>3. lines \in Seq(Event)
  BY DEF LedgerInv, Types
<1>4. \A q \in Reader \ {r} : rpc'[q] = rpc[q] /\ seen'[q] = seen[q] /\ floor'[q] = floor[q]
  BY DEF ReadStep, ReadHead, StatFile, ReadBytes, StatAgain, ReadHeadAgain, ReaderReturns,
     GotoR, ReadInv, ReaderTypes
<1>5. ReaderTypes'
  <2>1. /\ <<>> \in Seq(Line) /\ lines \in Seq(Line) /\ Append(Front(lines), Torn) \in Seq(Line)
        /\ merged => Append(Legible, Torn) \in Seq(Line)
    <3>1. \A s \in Seq(Event) : s \in Seq(Line)
      BY DEF Line
    <3>2. lines \in Seq(Line) /\ Front(lines) \in Seq(Line)
      BY <1>3, <3>1 DEF Front
    <3>3. merged => Legible \in Seq(Line)
      BY <3>1, MergedFacts
    <3> QED
      BY <3>2, <3>3 DEF Line
  <2>2. head \in File /\ Missing \in File
    BY HeadIsPrefix DEF File
  <2>3. Size \in Int
    BY <1>3 DEF Size
  <2>4. CASE ReadHead(r) \/ ReaderReturns(r)
    <3>1. seen' \in [Reader -> View]
      <4>1. [head |-> head, size |-> 0, lines |-> <<>>] \in View
            /\ [head |-> Missing, size |-> 0, lines |-> <<>>] \in View
        BY <2>1, <2>2 DEF View
      <4> QED
        BY <2>4, <4>1 DEF ReadHead, ReaderReturns, ReadInv, ReaderTypes
    <3> QED
      BY <2>4, <3>1 DEF ReadHead, ReaderReturns, GotoR, ReadInv, ReaderTypes, Reading
  <2>5. CASE StatFile(r) \/ ReadBytes(r)
    <3>1. seen' \in [Reader -> View]
      BY <2>1, <2>3, <2>5, ZenonT(30) DEF StatFile, ReadBytes, ReadInv, ReaderTypes, View
    <3> QED
      BY <2>5, <3>1 DEF StatFile, ReadBytes, GotoR, ReadInv, ReaderTypes, Reading
  <2>6. CASE StatAgain(r) \/ ReadHeadAgain(r)
    BY <2>6 DEF StatAgain, ReadHeadAgain, GotoR, ReadInv, ReaderTypes, Reading
  <2> QED
    BY <2>4, <2>5, <2>6 DEF ReadStep
<1>6. rpc'[r] \in Reading => Covers(seen'[r].head, floor'[r])
  <2>1. CASE ReadHead(r)
    <3>1. rpc'[r] \in Reading => head # Missing
      BY <2>1 DEF ReadHead, GotoR, ReadInv, ReaderTypes, Reading
    <3>2. seen'[r].head = head /\ floor'[r] = {e \in Event : acked[e] > 0}
      BY <2>1 DEF ReadHead, ReadInv, ReaderTypes
    <3> QED
      BY <3>1, <3>2, HeadIsPrefix DEF ReadInv, AckedInHead, Covers
  <2>2. CASE StatFile(r) \/ ReadBytes(r) \/ StatAgain(r) \/ ReadHeadAgain(r)
    <3>1. rpc[r] \in Reading /\ seen'[r].head = seen[r].head /\ floor'[r] = floor[r]
      BY <2>2 DEF StatFile, ReadBytes, StatAgain, ReadHeadAgain, GotoR, Reading, ReadInv,
         ReaderTypes, View
    <3> QED
      BY <3>1 DEF ReadInv, HeadsRead
  <2>3. CASE ReaderReturns(r)
    BY <2>3 DEF ReaderReturns, Reading, ReadInv, ReaderTypes
  <2> QED
    BY <2>1, <2>2, <2>3 DEF ReadStep
<1>7. rpc'[r] = "done" => Covers(seen'[r].lines, floor'[r])
  <2>1. CASE ReadHead(r)
    <3>1. rpc'[r] = "done" => head = Missing /\ lines = <<>>
      BY <2>1 DEF ReadHead, GotoR, ReadInv, ReaderTypes
    <3>2. seen'[r].lines = <<>> /\ floor'[r] = {e \in Event : acked[e] > 0}
      BY <2>1 DEF ReadHead, ReadInv, ReaderTypes
    <3>3. head = Missing => \A e \in Event : ~(acked[e] > 0)
      BY DEF ReadInv, AckedInHead
    <3>4. IsPrefix(lines, lines)
      BY <1>3, FrontIsPrefix
    <3> QED
      BY <1>3, <3>1, <3>2, <3>3, <3>4 DEF Covers
  <2>2. CASE ReadHeadAgain(r)
    <3>1. rpc[r] \in Reading /\ UNCHANGED <<seen, floor>>
          /\ (rpc'[r] = "done" => seen[r].head = seen[r].lines)
      BY <2>2 DEF ReadHeadAgain, GotoR, Bound, ReadInv, ReaderTypes, Reading
    <3> QED
      BY <3>1 DEF ReadInv, HeadsRead
  <2>3. CASE StatFile(r) \/ ReadBytes(r) \/ StatAgain(r) \/ ReaderReturns(r)
    BY <2>3 DEF StatFile, ReadBytes, StatAgain, ReaderReturns, GotoR, ReadInv, ReaderTypes
  <2> QED
    BY <2>1, <2>2, <2>3 DEF ReadStep
<1>9. rpc'[r] \in {"bytes_read", "stat_again", "done"} => Whole(seen'[r].lines)
  <2>1. CASE ReadHead(r)
    <3>1. rpc'[r] \in {"bytes_read", "stat_again", "done"} => lines = <<>>
      BY <2>1 DEF ReadHead, GotoR, ReadInv, ReaderTypes
    <3>2. seen'[r].lines = <<>>
      BY <2>1 DEF ReadHead, ReadInv, ReaderTypes
    <3>3. lines = <<>> => Complete = <<>>
      BY DEF Complete, LedgerInv, OpenLine, MergedLast
    <3>4. IsPrefix(<<>>, <<>>)
      <4>1. <<>> \in Seq(Event)
        OBVIOUS
      <4> QED
        BY <4>1, FrontIsPrefix
    <3> QED
      BY <3>1, <3>2, <3>3, <3>4 DEF Whole
  <2>2. CASE ReadBytes(r)
    <3>1. seen'[r].lines = IF merged THEN Append(Legible, Torn)
                           ELSE IF open THEN Append(Front(lines), Torn) ELSE lines
      BY <2>2 DEF ReadBytes, ReadInv, ReaderTypes, View
    <3>2. CASE merged
      <4>1. seen'[r].lines \notin Seq(Event)
        BY <3>1, <3>2, MergedFacts, TornTail
      <4> QED
        BY <4>1 DEF Whole
    <3>3. CASE ~merged /\ open
      <4>1. Front(lines) \in Seq(Event)
        BY <1>3, <3>3, FrontFacts DEF LedgerInv, OpenLine
      <4>2. seen'[r].lines \notin Seq(Event)
        BY <3>1, <3>3, <4>1, TornTail
      <4> QED
        BY <4>2 DEF Whole
    <3>4. CASE ~merged /\ ~open
      <4>1. seen'[r].lines = lines /\ Complete = lines
        BY <3>1, <3>4 DEF Complete
      <4> QED
        BY <1>3, <4>1, FrontIsPrefix DEF Whole
    <3> QED
      BY <3>2, <3>3, <3>4
  <2>3. CASE StatAgain(r) \/ ReadHeadAgain(r)
    <3>1. rpc[r] \in {"bytes_read", "stat_again"} /\ seen' = seen
      BY <2>3 DEF StatAgain, ReadHeadAgain, GotoR
    <3> QED
      BY <3>1 DEF ReadInv, BytesRead
  <2>4. CASE StatFile(r) \/ ReaderReturns(r)
    BY <2>4 DEF StatFile, ReaderReturns, GotoR, ReadInv, ReaderTypes
  <2> QED
    BY <2>1, <2>2, <2>3, <2>4 DEF ReadStep
<1>8. HeadsRead' /\ BytesRead' /\ TailsDone'
  <2> Complete' = Complete
    BY <1>1 DEF Complete, Legible
  <2>1. \A q \in Reader : rpc'[q] \in Reading => Covers(seen'[q].head, floor'[q])
    BY <1>4, <1>6 DEF ReadInv, HeadsRead
  <2>2. \A q \in Reader : rpc'[q] = "done" => Covers(seen'[q].lines, floor'[q])
    BY <1>4, <1>7 DEF ReadInv, TailsDone
  <2>3. \A q \in Reader : rpc'[q] \in {"bytes_read", "stat_again", "done"} =>
                              Whole(seen'[q].lines)
    BY <1>4, <1>9 DEF ReadInv, BytesRead, TailsDone
  <2> QED
    BY <1>1, <2>1, <2>2, <2>3 DEF HeadsRead, BytesRead, TailsDone, Covers, Whole
<1> QED
  BY <1>2, <1>5, <1>8 DEF ReadInv

(* What a lock-free reader accepts is a state the ledger was in, complete  *)
(* with everything acknowledged before it started: head, size and bytes    *)
(* are read in five separate steps, with appends and crashes between any   *)
(* two of them (read_runtime_tail_read_only).                              *)
THEOREM ReadersSeeStates == Spec => []ReaderConsistent
<1>1. Init => LedgerInv /\ ReadInv
  <2> SUFFICES ASSUME Init PROVE ReadInv
    BY InitInv
  <2>1. \A r \in Reader : rpc[r] = "idle"
    BY DEF Init
  <2>2. [head |-> Missing, size |-> 0, lines |-> <<>>] \in View
    BY DEF View, File
  <2>3. ReaderTypes
    BY <2>2 DEF Init, ReaderTypes
  <2> QED
    BY <2>1, <2>3 DEF Init, ReadInv, AckedInHead, HeadsRead, BytesRead, TailsDone, Reading
<1>2. LedgerInv /\ ReadInv /\ [Next]_vars => (LedgerInv /\ ReadInv)'
  <2> SUFFICES ASSUME LedgerInv, ReadInv, [Next]_vars PROVE LedgerInv' /\ ReadInv'
    OBVIOUS
  <2>1. LedgerInv'
    BY NextInv
  <2>2. ASSUME NEW p \in Proc, AppendEvent(p) \/ AppendStep(p) \/ Kill(p) PROVE ReadInv'
    BY <2>1, <2>2, WriterReadInv
  <2>3. ASSUME NEW r \in Reader, ReadStep(r) PROVE ReadInv'
    BY <2>3, ReaderReadInv
  <2>4. CASE UNCHANGED vars
    BY <2>1, <2>4 DEF vars, appendVars, readVars, ReadInv, AckedInHead, ReaderTypes, HeadsRead,
       BytesRead, TailsDone, Covers, Whole, Complete, Legible
  <2> QED
    BY <2>1, <2>2, <2>3, <2>4 DEF Next
<1>3. LedgerInv /\ ReadInv => ReaderConsistent
  <2> SUFFICES ASSUME LedgerInv, ReadInv, NEW r \in Reader, rpc[r] = "done"
               PROVE  /\ IsPrefix(seen[r].lines, Legible)
                      /\ \A e \in floor[r] : Holds(seen[r].lines, e)
    BY DEF ReaderConsistent
  <2>1. seen[r].lines \in Seq(Event) /\ IsPrefix(seen[r].lines, Complete)
        /\ \A e \in floor[r] : Holds(seen[r].lines, e)
    BY DEF ReadInv, TailsDone, Covers, Whole
  <2>2. Legible \in Seq(Event)
    BY MergedFacts DEF Legible, LedgerInv, Types
  <2> QED
    BY <2>1, <2>2, CompleteFacts, PrefixTrans
<1> QED
  BY <1>1, <1>2, <1>3, PTL DEF Spec

-----------------------------------------------------------------------------
(* The derived outputs.  The lines of a project are computed by a function *)
(* of the number of lines read; that it exists, and what it returns for a  *)
(* ledger with one line more, is shown on the least number at fault.       *)

LEMMA LeastNumber ==
    ASSUME NEW T \in SUBSET Nat, T # {} PROVE \E x \in T : \A y \in T : x <= y
<1>1. PICK x \in T : \A y \in T : ~(<<y, x>> \in OpToRel(<, Nat))
  BY NatLessThanWellFounded, WFMin
<1>2. \A y \in T : ~(y < x)
  BY <1>1 DEF OpToRel
<1> QED
  BY <1>2

(* The lines of pr among the first i of h, given those among the first i - 1. *)
Step(f, h, pr, i) ==
    IF i = 0 THEN <<>>
    ELSE IF ProjectOf[h[i]] = pr THEN Append(f[i - 1], h[i])
    ELSE f[i - 1]
KeptBy(f, h, pr, n) == f = [i \in 0 .. n |-> Step(f, h, pr, i)]

LEMMA KeptExists ==
    ASSUME NEW h, NEW pr, NEW n \in Nat PROVE \E f : KeptBy(f, h, pr, n)
<1> DEFINE T == {k \in Nat : ~\E f : KeptBy(f, h, pr, k)}
<1> SUFFICES ASSUME T # {} PROVE FALSE
  OBVIOUS
<1>1. PICK x \in T : \A y \in T : x <= y
  BY LeastNumber
<1>2. x # 0
  <2> DEFINE f == [i \in 0 .. 0 |-> <<>>]
  <2>1. KeptBy(f, h, pr, 0)
    BY DEF KeptBy, Step
  <2> QED
    BY <2>1
<1>3. x - 1 \in Nat /\ x - 1 \notin T
  BY <1>1, <1>2
<1>4. PICK f : KeptBy(f, h, pr, x - 1)
  BY <1>3
<1> DEFINE g == [i \in 0 .. x |-> IF i = x THEN Step(f, h, pr, x) ELSE f[i]]
<1>5. KeptBy(g, h, pr, x)
  <2>1. \A i \in 0 .. x : Step(g, h, pr, i) = Step(f, h, pr, i)
    <3> SUFFICES ASSUME NEW i \in 0 .. x, i # 0 PROVE g[i - 1] = f[i - 1]
      BY DEF Step
    <3> QED
      BY <1>3
  <2>2. \A i \in 0 .. x : i # x => f[i] = Step(f, h, pr, i)
    BY <1>3, <1>4, SMTT(30) DEF KeptBy
  <2>3. \A i \in 0 .. x : g[i] = Step(g, h, pr, i)
    BY <2>1, <2>2
  <2> HIDE DEF g
  <2>4. g = [i \in 0 .. x |-> g[i]]
    BY DEF g
  <2> QED
    BY <2>3, <2>4 DEF KeptBy
<1> QED
  BY <1>5

LEMMA KeptAt ==
    ASSUME NEW f, NEW h, NEW pr, NEW n \in Nat, KeptBy(f, h, pr, n), NEW i \in 0 .. n
    PROVE  f[i] = Step(f, h, pr, i)
<1> DEFINE s(j) == Step(f, h, pr, j)
<1>1. f = [j \in 0 .. n |-> s(j)]
  BY DEF KeptBy
<1> HIDE DEF s
<1>2. f[i] = s(i)
  BY <1>1
<1> QED
  BY <1>2 DEF s

(* Two ledgers that agree on their first lines agree on a project's. *)
LEMMA KeptAgrees ==
    ASSUME NEW pr, NEW h \in Seq(Event), NEW h2, NEW f, NEW f2, NEW n2 \in Nat,
           Len(h) <= n2, \A i \in 1 .. Len(h) : h2[i] = h[i],
           KeptBy(f, h, pr, Len(h)), KeptBy(f2, h2, pr, n2)
    PROVE  \A i \in 0 .. Len(h) : f[i] \in Seq(Event) /\ f2[i] = f[i]
<1> DEFINE T == {i \in 0 .. Len(h) : ~(f[i] \in Seq(Event) /\ f2[i] = f[i])}
<1> SUFFICES ASSUME T # {} PROVE FALSE
  OBVIOUS
<1>1. T \in SUBSET Nat /\ Len(h) \in Nat
  OBVIOUS
<1>2. PICK x \in T : \A y \in T : x <= y
  BY <1>1, LeastNumber
<1>3. f[x] = Step(f, h, pr, x) /\ f2[x] = Step(f2, h2, pr, x)
  <2>1. x \in 0 .. Len(h) /\ x \in 0 .. n2
    BY <1>1, <1>2
  <2> QED
    BY <1>1, <2>1, KeptAt
<1>4. CASE x = 0
  <2>1. f[x] = <<>> /\ f2[x] = <<>>
    BY <1>3, <1>4 DEF Step
  <2>2. <<>> \in Seq(Event)
    OBVIOUS
  <2> QED
    BY <1>2, <2>1, <2>2
<1>5. CASE x # 0
  <2>1. x - 1 \in 0 .. Len(h) /\ x - 1 \notin T /\ x \in 1 .. Len(h)
    BY <1>1, <1>2, <1>5
  <2>2. f[x - 1] \in Seq(Event) /\ f2[x - 1] = f[x - 1] /\ h[x] \in Event /\ h2[x] = h[x]
    BY <2>1
  <2>3. f[x] \in Seq(Event) /\ f2[x] = f[x]
    BY <1>3, <1>5, <2>2 DEF Step
  <2> QED
    BY <1>2, <2>3
<1> QED
  BY <1>4, <1>5

(* One more line of the ledger is one more line of its own project. *)
LEMMA OfProjectFacts ==
    ASSUME NEW h \in Seq(Event), NEW pr, NEW e \in Event
    PROVE  /\ OfProject(h, pr) \in Seq(Event)
           /\ OfProject(Append(h, e), pr)
                = IF ProjectOf[e] = pr THEN Append(OfProject(h, pr), e) ELSE OfProject(h, pr)
<1> DEFINE h2 == Append(h, e)
           n == Len(h)
           f == CHOOSE k : KeptBy(k, h, pr, n)
           f2 == CHOOSE k : KeptBy(k, h2, pr, Len(h2))
<1>1. n \in Nat /\ h2 \in Seq(Event) /\ Len(h2) = n + 1 /\ h2[n + 1] = e
      /\ \A i \in 1 .. n : h2[i] = h[i]
  BY HoldsAppend
<1>2. OfProject(h, pr) = f[n] /\ OfProject(h2, pr) = f2[Len(h2)]
  BY DEF OfProject, KeptBy, Step
<1>3. KeptBy(f, h, pr, n) /\ KeptBy(f2, h2, pr, Len(h2))
  <2>1. Len(h2) \in Nat /\ n \in Nat
    BY <1>1
  <2> HIDE DEF h2, n
  <2>2. (\E g : KeptBy(g, h, pr, n)) /\ \E g : KeptBy(g, h2, pr, Len(h2))
    BY <2>1, KeptExists
  <2> QED
    BY <2>2
<1> HIDE DEF f, f2
<1>4. f[n] \in Seq(Event) /\ f2[n] = f[n]
  <2>1. Len(h) <= Len(h2) /\ Len(h2) \in Nat
        /\ \A i \in 1 .. Len(h) : h2[i] = h[i]
    BY <1>1
  <2>2. KeptBy(f, h, pr, Len(h))
    BY <1>3
  <2> HIDE DEF h2
  <2>3. \A i \in 0 .. Len(h) : f[i] \in Seq(Event) /\ f2[i] = f[i]
    BY <1>3, <2>1, <2>2, KeptAgrees
  <2> QED
    BY <1>1, <2>3
<1>5. f2[n + 1] = Step(f2, h2, pr, n + 1)
  BY <1>1, <1>3, KeptAt
<1>6. Step(f2, h2, pr, n + 1) = IF ProjectOf[e] = pr THEN Append(f2[n], e) ELSE f2[n]
  BY <1>1 DEF Step
<1> QED
  BY <1>2, <1>4, <1>5, <1>6

(* What the derived outputs hold, and how far the process that renders     *)
(* them has come: nobody appends meanwhile, since it holds the lease.      *)
DerivedTypes ==
    /\ mirror \in [Project -> Seq(Event) \cup {Missing}]
    /\ mirrorHead \in [Project -> Seq(Event) \cup {Missing}]
    /\ oplog \in Seq(Event)
MirrorShown == \A p \in Proc : pc[p] \in {"mirror_written", "logging", "returning"} =>
                  mirror[Own(p)] = Rendered(Own(p))
HeadShown == \A p \in Proc : pc[p] \in {"logging", "returning"} =>
                mirrorHead[Own(p)] = mirror[Own(p)]
LogShown == \A p \in Proc : pc[p] = "returning" => oplog = lines

DerivedInv == DerivedTypes /\ DerivedBehind /\ MirrorShown /\ HeadShown /\ LogShown

LEMMA DerivedType == ASSUME LedgerInv, DerivedInv PROVE TypeOK
<1>1. head \in File
  BY HeadIsPrefix DEF File
<1> QED
  BY <1>1 DEF LedgerInv, Types, DerivedInv, DerivedTypes, File, TypeOK

(* A line more leaves every derived output behind the ledger. *)
LEMMA BehindGrows ==
    ASSUME LedgerInv, DerivedTypes, DerivedBehind, NEW e \in Event, Recorded \in Seq(Event),
           Recorded' = Append(Recorded, e), UNCHANGED derivedVars
    PROVE  DerivedBehind'
<1>2. IsPrefix(oplog, Recorded')
  BY PrefixGrows DEF DerivedTypes, DerivedBehind
<1>3. ASSUME NEW pr \in Project, mirror[pr] # Missing
      PROVE  IsPrefix(mirror[pr], OfProject(Recorded', pr))
  <2>1. mirror[pr] \in Seq(Event) /\ IsPrefix(mirror[pr], OfProject(Recorded, pr))
    BY <1>3 DEF DerivedTypes, DerivedBehind
  <2>2. /\ OfProject(Recorded, pr) \in Seq(Event)
        /\ \/ OfProject(Recorded', pr) = OfProject(Recorded, pr)
           \/ OfProject(Recorded', pr) = Append(OfProject(Recorded, pr), e)
    BY OfProjectFacts
  <2> QED
    BY <2>1, <2>2, PrefixGrows
<1> QED
  BY <1>2, <1>3 DEF DerivedBehind, derivedVars

LEMMA AppendDerived ==
    ASSUME LedgerInv, DerivedInv, NEW p \in Proc, WriteLine(p) PROVE DerivedInv'
<1>1. pc[p] = "appending" /\ pc' = [pc EXCEPT ![p] = "line_written"]
      /\ UNCHANGED <<derivedVars, ev>>
  BY DEF WriteLine
<1>2. pc'[p] = "line_written" /\ ev[p] \in Event
      /\ \A q \in Proc \ {p} : pc'[q] = pc[q] /\ pc[q] \notin Inside
  BY <1>1, InsideFrame DEF Inside, PcSet
<1>3. lines \in Seq(Event) /\ ~merged /\ lines' = Append(lines, ev[p]) /\ merged' = open
  BY <1>1 DEF WriteLine, LedgerInv, Types, ParsesInside, Inside, Writing, PcSet
<1>6. Recorded = lines
  BY <1>3 DEF Recorded
<1>7. ASSUME ~open PROVE DerivedBehind'
  <2>1. Recorded' = Append(Recorded, ev[p])
    BY <1>3, <1>6, <1>7 DEF Recorded
  <2> QED
    BY <1>1, <1>2, <1>3, <1>6, <2>1, BehindGrows DEF DerivedInv
<1>8. ASSUME open PROVE DerivedBehind'
  <2>1. Recorded' = Recorded
    BY <1>2, <1>3, <1>6, <1>8, FrontAppend DEF Recorded
  <2> QED
    BY <1>1, <2>1 DEF DerivedInv, DerivedBehind, derivedVars
<1>4. DerivedTypes' /\ DerivedBehind'
  BY <1>1, <1>7, <1>8 DEF DerivedInv, DerivedTypes, derivedVars
<1>5. MirrorShown' /\ HeadShown' /\ LogShown'
  BY <1>2 DEF MirrorShown, HeadShown, LogShown, Inside, PcSet
<1> QED
  BY <1>4, <1>5 DEF DerivedInv

(* The steps that touch neither the ledger nor what is derived from it. *)
LEMMA PlainDerived ==
    ASSUME LedgerInv, DerivedInv, UNCHANGED <<lines, merged, derivedVars>>,
           \A q \in Proc : pc'[q] \in {"mirror_written", "logging", "returning"} =>
                              pc'[q] = pc[q] /\ ev'[q] = ev[q]
    PROVE  DerivedInv'
<1>1. DerivedTypes' /\ DerivedBehind'
  BY DEF DerivedInv, DerivedTypes, DerivedBehind, Recorded, derivedVars
<1>2. MirrorShown' /\ HeadShown' /\ LogShown'
  BY DEF DerivedInv, MirrorShown, HeadShown, LogShown, Own, Rendered, derivedVars
<1> QED
  BY <1>1, <1>2 DEF DerivedInv

RenderStep(p) ==
    \/ PreserveMirror(p) \/ PreserveMirrorHead(p) \/ ReplaceMirror(p) \/ ReplaceMirrorHead(p)
    \/ ReplaceLog(p)

LEMMA RenderDerived ==
    ASSUME LedgerInv, DerivedInv, NEW p \in Proc, RenderStep(p) PROVE DerivedInv'
<1>1. UNCHANGED <<lines, merged, ev>> /\ pc[p] \in Inside \ Writing
      /\ \E there \in PcSet : pc' = [pc EXCEPT ![p] = there]
  BY DEF RenderStep, PreserveMirror, PreserveMirrorHead, ReplaceMirror, ReplaceMirrorHead,
     ReplaceLog, appendVars, Inside, Writing, PcSet
<1>9. Recorded = lines /\ Recorded' = Recorded
  BY <1>1 DEF Recorded, LedgerInv, ParsesInside
<1>2. ev[p] \in Event /\ Own(p) \in Project /\ lines \in Seq(Event)
      /\ \A q \in Proc \ {p} : pc'[q] = pc[q] /\ pc[q] \notin Inside
  BY <1>1, InsideFrame, ProjectAssumption DEF Own, LedgerInv, Types
<1>3. Rendered(Own(p)) \in Seq(Event) /\ IsPrefix(Rendered(Own(p)), Rendered(Own(p)))
      /\ IsPrefix(lines, lines)
  BY <1>2, OfProjectFacts, FrontIsPrefix DEF Rendered
<1>4. \A q \in Proc \ {p} : pc'[q] \notin {"mirror_written", "logging", "returning"}
  BY <1>2 DEF Inside, PcSet
<1>5. CASE PreserveMirror(p) \/ PreserveMirrorHead(p)
  <2>1. pc'[p] \in {"preserving", "converging"} /\ oplog' = oplog
        /\ DerivedTypes' /\ \A pr \in Project : mirror'[pr] \in {mirror[pr], Missing}
    BY <1>2, <1>5 DEF PreserveMirror, PreserveMirrorHead, DerivedInv, DerivedTypes, LedgerInv,
       Types
  <2>2. DerivedBehind'
    BY <1>9, <2>1 DEF DerivedInv, DerivedBehind
  <2> QED
    BY <1>4, <2>1, <2>2 DEF DerivedInv, MirrorShown, HeadShown, LogShown
<1>6. CASE ReplaceMirror(p)
  <2>1. pc'[p] = "mirror_written" /\ UNCHANGED <<mirrorHead, oplog>>
        /\ mirror' = [mirror EXCEPT ![Own(p)] = Rendered(Own(p))]
    BY <1>6 DEF ReplaceMirror, LedgerInv, Types
  <2>2. DerivedTypes' /\ mirror'[Own(p)] = Rendered(Own(p))
        /\ \A pr \in Project : mirror'[pr] = mirror[pr] \/ (pr = Own(p) /\ mirror'[pr] = Rendered(pr))
    BY <1>2, <1>3, <2>1 DEF DerivedInv, DerivedTypes
  <2>3. DerivedBehind'
    BY <1>3, <1>9, <2>1, <2>2 DEF DerivedInv, DerivedBehind, Rendered
  <2>4. MirrorShown'
    BY <1>1, <1>4, <2>2 DEF MirrorShown, Own, Rendered
  <2> QED
    BY <1>4, <2>1, <2>2, <2>3, <2>4 DEF DerivedInv, HeadShown, LogShown
<1>7. CASE ReplaceMirrorHead(p)
  <2>1. pc[p] = "mirror_written" /\ pc'[p] = "logging" /\ UNCHANGED <<mirror, oplog>>
        /\ mirrorHead' = [mirrorHead EXCEPT ![Own(p)] = mirror[Own(p)]]
    BY <1>7 DEF ReplaceMirrorHead, LedgerInv, Types
  <2>2. DerivedTypes' /\ mirrorHead'[Own(p)] = mirror[Own(p)] /\ DerivedBehind'
    BY <1>2, <1>9, <2>1 DEF DerivedInv, DerivedTypes, DerivedBehind
  <2> QED
    BY <1>1, <1>4, <2>1, <2>2 DEF DerivedInv, MirrorShown, HeadShown, LogShown, Own, Rendered
<1>8. CASE ReplaceLog(p)
  <2>1. pc[p] = "logging" /\ pc'[p] = "returning" /\ UNCHANGED <<mirror, mirrorHead>>
        /\ oplog' = lines
    BY <1>8 DEF ReplaceLog, LedgerInv, Types
  <2>2. DerivedTypes' /\ DerivedBehind'
    BY <1>2, <1>3, <1>9, <2>1 DEF DerivedInv, DerivedTypes, DerivedBehind
  <2> QED
    BY <1>1, <1>4, <2>1, <2>2 DEF DerivedInv, MirrorShown, HeadShown, LogShown, Own, Rendered
<1> QED
  BY <1>5, <1>6, <1>7, <1>8 DEF RenderStep

(* What an acknowledgement finds. *)
LEMMA AckFinds ==
    ASSUME LedgerInv, DerivedInv, NEW p \in Proc, Done(p), NEW e \in Event, acked'[e] # acked[e]
    PROVE  /\ mirror[ProjectOf[e]] = OfProject(lines, ProjectOf[e])
           /\ mirrorHead[ProjectOf[e]] = mirror[ProjectOf[e]]
           /\ oplog = lines
<1>1. e = ev[p] /\ pc[p] = "returning"
  BY DEF Done, LedgerInv, Types
<1> QED
  BY <1>1 DEF DerivedInv, MirrorShown, HeadShown, LogShown, Own, Rendered

LEMMA NextDerived ==
    ASSUME LedgerInv, DerivedInv, [Next]_vars PROVE DerivedInv'
<1>1. ASSUME NEW p \in Proc, WriteLine(p) PROVE DerivedInv'
  BY <1>1, AppendDerived
<1>2. ASSUME NEW p \in Proc, RenderStep(p) PROVE DerivedInv'
  BY <1>2, RenderDerived
<1>3. ASSUME NEW p \in Proc,
             \/ AppendEvent(p) \/ Enter(p) \/ Refused(p) \/ Plan(p) \/ WriteNewline(p)
             \/ WriteHead(p) \/ Verify(p) \/ Done(p) \/ Kill(p)
      PROVE  DerivedInv'
  <2>1. UNCHANGED <<lines, merged, derivedVars>>
        /\ pc'[p] \notin {"mirror_written", "logging", "returning"}
        /\ \A q \in Proc \ {p} : pc'[q] = pc[q] /\ ev'[q] = ev[q]
    BY <1>3 DEF AppendEvent, Enter, Refused, Plan, WriteNewline, WriteHead, Verify, Done, Kill,
       Return, WhenInstalled, appendVars, LedgerInv, Types
  <2> QED
    BY <2>1, PlainDerived
<1>4. ASSUME NEW r \in Reader, ReadStep(r) PROVE DerivedInv'
  <2>1. UNCHANGED <<lines, merged, derivedVars, pc, ev>>
    BY <1>4 DEF ReadStep, ReadHead, StatFile, ReadBytes, StatAgain, ReadHeadAgain,
       ReaderReturns, writeVars, appendVars
  <2> QED
    BY <2>1, PlainDerived
<1>5. CASE UNCHANGED vars
  BY <1>5, PlainDerived DEF vars, appendVars
<1> QED
  BY <1>1, <1>2, <1>3, <1>4, <1>5 DEF Next, AppendStep, RenderStep

(* An append returns only when the project's ledger, its head and the      *)
(* operation log show the whole history, whatever died halfway before, and *)
(* no derived output ever runs ahead of the ledger (converge_derived).     *)
THEOREM DerivedFollows == Spec => DerivedKept
<1>1. Init => LedgerInv /\ DerivedInv
  <2> SUFFICES ASSUME Init PROVE DerivedInv
    BY InitInv
  <2>1. DerivedTypes /\ DerivedBehind
    <3>1. <<>> \in Seq(Event)
      OBVIOUS
    <3>2. IsPrefix(<<>>, <<>>)
      BY <3>1, FrontIsPrefix
    <3> QED
      BY <3>1, <3>2 DEF Init, DerivedTypes, DerivedBehind, Recorded
  <2> QED
    BY <2>1 DEF Init, DerivedInv, MirrorShown, HeadShown, LogShown
<1>2. LedgerInv /\ DerivedInv /\ [Next]_vars => (LedgerInv /\ DerivedInv)'
  BY NextInv, NextDerived
<1>3. LedgerInv /\ DerivedInv => TypeOK /\ DerivedBehind
  BY DerivedType DEF DerivedInv
<1>4. LedgerInv /\ DerivedInv /\ [Next]_vars =>
        [\A e \in Event : acked'[e] # acked[e] =>
            /\ mirror[ProjectOf[e]] = OfProject(lines, ProjectOf[e])
            /\ mirrorHead[ProjectOf[e]] = mirror[ProjectOf[e]]
            /\ oplog = lines]_vars
  <2> SUFFICES ASSUME LedgerInv, DerivedInv, [Next]_vars, NEW e \in Event,
                      acked'[e] # acked[e]
               PROVE  /\ mirror[ProjectOf[e]] = OfProject(lines, ProjectOf[e])
                      /\ mirrorHead[ProjectOf[e]] = mirror[ProjectOf[e]]
                      /\ oplog = lines
    OBVIOUS
  <2>1. \E p \in Proc : Done(p)
    <3>1. ASSUME NEW p \in Proc, AppendEvent(p) \/ Kill(p) PROVE acked' = acked
      BY <3>1 DEF AppendEvent, Kill
    <3>2. ASSUME NEW p \in Proc, AppendStep(p), ~Done(p) PROVE acked' = acked
      BY <3>2 DEF AppendStep, Enter, Refused, Plan, WriteLine, WriteNewline, WriteHead, Verify,
         PreserveMirror, PreserveMirrorHead, ReplaceMirror, ReplaceMirrorHead, ReplaceLog
    <3>3. ASSUME NEW r \in Reader, ReadStep(r) PROVE acked' = acked
      BY <3>3 DEF ReadStep, ReadHead, StatFile, ReadBytes, StatAgain, ReadHeadAgain,
         ReaderReturns, writeVars
    <3>4. CASE UNCHANGED vars
      BY <3>4 DEF vars
    <3> QED
      BY <3>1, <3>2, <3>3, <3>4 DEF Next
  <2> QED
    BY <2>1, AckFinds
<1> QED
  BY <1>1, <1>2, <1>3, <1>4, PTL DEF Spec, DerivedKept, AckShowsDerived

=============================================================================
