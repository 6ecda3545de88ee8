------------------------------- MODULE Ledger -------------------------------
(***************************************************************************)
(* The runtime ledger: one JSON-lines file shared by every project and     *)
(* process, its head file, and the outputs derived from it.                *)
(*                                                                         *)
(* The physical hash of a line commits to every line before it, so a hash  *)
(* is represented by the sequence of lines it commits to: the hash of the  *)
(* last line is the file itself.                                           *)
(*                                                                         *)
(* A line is the record of one event and a newline, two writes.  A record  *)
(* written behind a line without newline runs into it: the two are one     *)
(* line of the file, which does not parse.                                 *)
(***************************************************************************)
EXTENDS Integers, Sequences, SequencesExt

CONSTANTS
    Proc,         \* processes that append
    NoProc,
    Reader,       \* processes that read without the lease
    Event,        \* event ids
    PayloadOf,    \* the time, type, session and text an id is bound to
    NoEvent,
    Torn,         \* a line that does not parse
    Missing,      \* a file that does not exist
    Project,
    ProjectOf     \* the project of an event

ASSUME NoProcAssumption == NoProc \notin Proc
ASSUME EventAssumption == NoEvent \notin Event /\ Torn \notin Event
ASSUME MissingAssumption == Missing \notin Seq(Event)
ASSUME ProjectAssumption == ProjectOf \in [Event -> Project]

VARIABLES
    lines,       \* the records of the runtime ledger, in the order they were written
    open,        \* does the last of them lack its newline?
    merged,      \* did the last of them run into the one before it?
    head,        \* the head file: the hash it records, or Missing
    mirror,      \* per project: the lines of the project's ledger, or Missing
    mirrorHead,  \* per project: its head, or Missing
    oplog,       \* the operation log
    writer,      \* who holds the writer lease
    pc, ev,      \* where an appending process stands, and its event
    plan,        \* the hash its line will have, from the lines it read
    acked,       \* the ordinal returned for an event, 0 before that
    rpc, seen,   \* where a lock-free reader stands, and what it has read
    floor        \* the events acknowledged when that reader started

appendVars == <<lines, open, merged, head>>
derivedVars == <<mirror, mirrorHead, oplog>>
readVars == <<rpc, seen, floor>>
vars == <<appendVars, derivedVars, writer, pc, ev, plan, acked, readVars>>

Holds(history, e) == \E i \in 1 .. Len(history) : history[i] = e

(* The lines of a project, in their order. *)
OfProject(history, pr) ==
    LET kept[i \in 0 .. Len(history)] ==
            IF i = 0 THEN <<>>
            ELSE IF ProjectOf[history[i]] = pr THEN Append(kept[i - 1], history[i])
            ELSE kept[i - 1]
    IN  kept[Len(history)]

(* The ordinal of an installed event. *)
OrdinalOf(e) == CHOOSE i \in 1 .. Len(lines) : lines[i] = e

Init ==
    /\ lines = <<>> /\ open = FALSE /\ merged = FALSE /\ head = Missing
    /\ mirror = [pr \in Project |-> Missing]
    /\ mirrorHead = [pr \in Project |-> Missing]
    /\ oplog = <<>>
    /\ writer = NoProc
    /\ pc = [p \in Proc |-> "idle"] /\ ev = [p \in Proc |-> NoEvent]
    /\ plan = [p \in Proc |-> <<>>]
    /\ acked = [e \in Event |-> 0]
    /\ rpc = [r \in Reader |-> "idle"]
    /\ seen = [r \in Reader |-> [head |-> Missing, size |-> 0, lines |-> <<>>]]
    /\ floor = [r \in Reader |-> {}]

-----------------------------------------------------------------------------
(* What a reader of the file makes of it (validate_ledger_contents_inner).  *)

Parses == ~merged

(* The records in lines that parse. *)
Legible == IF merged THEN Front(Front(lines)) ELSE lines

(* File and head agree. *)
Sealed == head = lines \/ (lines = <<>> /\ head = Missing)

(* The head lags by the one append that was durable before it was written. *)
HeadLags ==
    /\ lines # <<>>
    /\ \/ head = Missing /\ Len(lines) = 1
       \/ head # Missing /\ head = Front(lines)

(* Whether the gap is closed when it is found.  Defect: it is tolerated only. *)
Repairable_Never == FALSE
Repairable == Parses /\ ~Sealed /\ HeadLags

(* What the repaired head records. *)
RepairedHead == lines

Readable == Parses /\ (Sealed \/ HeadLags)

-----------------------------------------------------------------------------
(* append_event: LedgerWriterGuard::acquire, then append_planned. *)

Goto(p, here, there) ==
    /\ pc[p] = here
    /\ pc' = [pc EXCEPT ![p] = there]

Return(p) ==
    /\ pc' = [pc EXCEPT ![p] = "idle"]
    /\ ev' = [ev EXCEPT ![p] = NoEvent]
    /\ plan' = [plan EXCEPT ![p] = <<>>]
    /\ writer' = NoProc

(* An id is in the hands of one process at a time: it is fresh, or it is   *)
(* tried again by whoever found it unfinished.                             *)
AppendEvent(p) ==
    /\ Goto(p, "idle", "entering")
    /\ \E e \in Event :
          /\ \A q \in Proc : ev[q] # e
          /\ ev' = [ev EXCEPT ![p] = e]
    /\ UNCHANGED <<appendVars, derivedVars, writer, plan, acked, readVars>>

(* The lease is taken, and the file read and repaired under it. *)
Enter(p) ==
    /\ pc[p] = "entering"
    /\ writer = NoProc
    /\ Readable
    /\ writer' = p
    /\ head' = IF Repairable THEN RepairedHead ELSE head
    /\ pc' = [pc EXCEPT ![p] = "planning"]
    /\ UNCHANGED <<lines, open, merged, derivedVars, ev, plan, acked, readVars>>

(* The five seconds pass, or the ledger is corrupt: the call fails. *)
Refused(p) ==
    /\ pc[p] = "entering"
    /\ writer # NoProc \/ ~Readable
    /\ pc' = [pc EXCEPT ![p] = "idle"]
    /\ ev' = [ev EXCEPT ![p] = NoEvent]
    /\ UNCHANGED <<appendVars, derivedVars, writer, plan, acked, readVars>>

(* An id that is installed is not appended again.  Defect: it is. *)
Installed_Ignored(e) == FALSE
Installed(e) == Holds(lines, e)

(* Derived outputs converge before the call returns.  Defect: an event that *)
(* is found installed is reported at once.                                 *)
WhenInstalled_Report == "returning"
WhenInstalled == "converging"

(* Another id with the same payload is in the history. *)
SamePayload(e) ==
    \E i \in 1 .. Len(lines) : lines[i] # e /\ PayloadOf[lines[i]] = PayloadOf[e]

Plan(p) ==
    /\ pc[p] = "planning"
    /\ \/ /\ Installed(ev[p])
          /\ pc' = [pc EXCEPT ![p] = WhenInstalled]
          /\ UNCHANGED <<plan, ev, writer>>
       \/ /\ ~Installed(ev[p])
          /\ SamePayload(ev[p])
          /\ Return(p)
       \/ /\ ~Installed(ev[p])
          /\ ~SamePayload(ev[p])
          /\ pc' = [pc EXCEPT ![p] = "appending"]
          /\ plan' = [plan EXCEPT ![p] = Append(lines, ev[p])]
          /\ UNCHANGED <<ev, writer>>
    /\ UNCHANGED <<appendVars, derivedVars, acked, readVars>>

(* The first write of writeln!: nothing looks whether the file ends in a   *)
(* newline.                                                                *)
WriteLine(p) ==
    /\ Goto(p, "appending", "line_written")
    /\ lines' = Append(lines, ev[p])
    /\ open' = TRUE
    /\ merged' = open
    /\ UNCHANGED <<head, derivedVars, writer, ev, plan, acked, readVars>>

(* The second write of writeln!, and sync_all. *)
WriteNewline(p) ==
    /\ Goto(p, "line_written", "newline_written")
    /\ open' = FALSE
    /\ UNCHANGED <<lines, merged, head, derivedVars, writer, ev, plan, acked, readVars>>

(* The head is replaced atomically. *)
WriteHead(p) ==
    /\ Goto(p, "newline_written", "head_written")
    /\ head' = plan[p]
    /\ UNCHANGED <<lines, open, merged, derivedVars, writer, ev, plan, acked, readVars>>

(* The file is read again and must hold the event where it was planned. *)
Verify(p) ==
    /\ pc[p] = "head_written"
    /\ \/ /\ Readable /\ lines = plan[p]
          /\ pc' = [pc EXCEPT ![p] = "converging"]
          /\ UNCHANGED <<writer, ev, plan>>
       \/ /\ ~(Readable /\ lines = plan[p])
          /\ Return(p)
    /\ UNCHANGED <<appendVars, derivedVars, acked, readVars>>

-----------------------------------------------------------------------------
(* converge_derived: the project's ledger and the operation log are        *)
(* rendered again from the runtime ledger.                                 *)

Own(p) == ProjectOf[ev[p]]

(* The lines of a project's ledger. *)
Rendered(pr) == OfProject(lines, pr)

(* A project ledger that fails its own validation is set aside first. *)
MirrorCorrupt(pr) == mirror[pr] # Missing /\ mirrorHead[pr] # mirror[pr]

PreserveMirror(p) ==
    /\ pc[p] = "converging"
    /\ MirrorCorrupt(Own(p))
    /\ mirror' = [mirror EXCEPT ![Own(p)] = Missing]
    /\ pc' = [pc EXCEPT ![p] = "preserving"]
    /\ UNCHANGED <<appendVars, mirrorHead, oplog, writer, ev, plan, acked, readVars>>

PreserveMirrorHead(p) ==
    /\ Goto(p, "preserving", "converging")
    /\ mirrorHead' = [mirrorHead EXCEPT ![Own(p)] = Missing]
    /\ UNCHANGED <<appendVars, mirror, oplog, writer, ev, plan, acked, readVars>>

ReplaceMirror(p) ==
    /\ Goto(p, "converging", "mirror_written")
    /\ ~MirrorCorrupt(Own(p))
    /\ mirror' = [mirror EXCEPT ![Own(p)] = Rendered(Own(p))]
    /\ UNCHANGED <<appendVars, mirrorHead, oplog, writer, ev, plan, acked, readVars>>

ReplaceMirrorHead(p) ==
    /\ Goto(p, "mirror_written", "logging")
    /\ mirrorHead' = [mirrorHead EXCEPT ![Own(p)] = mirror[Own(p)]]
    /\ UNCHANGED <<appendVars, mirror, oplog, writer, ev, plan, acked, readVars>>

ReplaceLog(p) ==
    /\ Goto(p, "logging", "returning")
    /\ oplog' = lines
    /\ UNCHANGED <<appendVars, mirror, mirrorHead, writer, ev, plan, acked, readVars>>

(* The ordinal is returned and the guard dropped. *)
Done(p) ==
    /\ pc[p] = "returning"
    /\ acked' = [acked EXCEPT ![ev[p]] = OrdinalOf(ev[p])]
    /\ Return(p)
    /\ UNCHANGED <<appendVars, derivedVars, readVars>>

(* The process dies between any two of its steps; the kernel gives its     *)
(* lease up.                                                               *)
Kill(p) ==
    /\ pc[p] # "idle"
    /\ pc' = [pc EXCEPT ![p] = "idle"]
    /\ ev' = [ev EXCEPT ![p] = NoEvent]
    /\ plan' = [plan EXCEPT ![p] = <<>>]
    /\ writer' = IF writer = p THEN NoProc ELSE writer
    /\ UNCHANGED <<appendVars, derivedVars, acked, readVars>>

-----------------------------------------------------------------------------
(* read_runtime_tail_read_only: no lease and no repair; the head is read   *)
(* before and after the file.                                              *)

GotoR(r, here, there) ==
    /\ rpc[r] = here
    /\ rpc' = [rpc EXCEPT ![r] = there]

writeVars == <<appendVars, derivedVars, writer, pc, ev, plan, acked>>

(* The size of the file: its records and their newlines. *)
Size == 2 * Len(lines) - (IF open THEN 1 ELSE 0) - (IF merged THEN 1 ELSE 0)

ReadHead(r) ==
    /\ GotoR(r, "idle", IF head # Missing THEN "head_read"
                        ELSE IF lines = <<>> THEN "done" ELSE "blocked")
    /\ floor' = [floor EXCEPT ![r] = {e \in Event : acked[e] > 0}]
    /\ seen' = [seen EXCEPT ![r] = [head |-> head, size |-> 0, lines |-> <<>>]]
    /\ UNCHANGED writeVars

StatFile(r) ==
    /\ GotoR(r, "head_read", "stat_read")
    /\ seen' = [seen EXCEPT ![r].size = Size]
    /\ UNCHANGED <<writeVars, floor>>

ReadBytes(r) ==
    /\ GotoR(r, "stat_read", "bytes_read")
    /\ seen' = [seen EXCEPT ![r].lines = IF merged THEN Append(Legible, Torn)
                                         ELSE IF open THEN Append(Front(lines), Torn)
                                         ELSE lines]
    /\ UNCHANGED <<writeVars, floor>>

StatAgain(r) ==
    /\ GotoR(r, "bytes_read", IF seen[r].size = Size THEN "stat_again" ELSE "blocked")
    /\ UNCHANGED <<writeVars, seen, floor>>

(* Records and head must be one state of the ledger.  Defect: their counts *)
(* are compared, not that nothing but complete records was read.           *)
Bound_ByCount(s) == Len(s.head) <= Len(s.lines)
Bound(s) == s.head = s.lines

ReadHeadAgain(r) ==
    /\ GotoR(r, "stat_again",
             IF seen[r].head = head /\ Bound(seen[r]) THEN "done" ELSE "blocked")
    /\ UNCHANGED <<writeVars, seen, floor>>

ReaderReturns(r) ==
    /\ rpc[r] \in {"done", "blocked"}
    /\ rpc' = [rpc EXCEPT ![r] = "idle"]
    /\ seen' = [seen EXCEPT ![r] = [head |-> Missing, size |-> 0, lines |-> <<>>]]
    /\ floor' = [floor EXCEPT ![r] = {}]
    /\ UNCHANGED writeVars

AppendStep(p) ==
    \/ Enter(p) \/ Refused(p) \/ Plan(p) \/ WriteLine(p) \/ WriteNewline(p)
    \/ WriteHead(p) \/ Verify(p) \/ PreserveMirror(p) \/ PreserveMirrorHead(p)
    \/ ReplaceMirror(p) \/ ReplaceMirrorHead(p) \/ ReplaceLog(p) \/ Done(p)

ReadStep(r) ==
    \/ ReadHead(r) \/ StatFile(r) \/ ReadBytes(r) \/ StatAgain(r) \/ ReadHeadAgain(r)
    \/ ReaderReturns(r)

Next ==
    \/ \E p \in Proc : AppendEvent(p) \/ AppendStep(p) \/ Kill(p)
    \/ \E r \in Reader : ReadStep(r)

Spec == Init /\ [][Next]_vars

-----------------------------------------------------------------------------
PcSet == {"idle", "entering", "planning", "appending", "line_written", "newline_written",
          "head_written", "converging", "preserving", "mirror_written", "logging",
          "returning"}

File == Seq(Event) \cup {Missing}

TypeOK ==
    /\ lines \in Seq(Event) /\ open \in BOOLEAN /\ merged \in BOOLEAN /\ head \in File
    /\ mirror \in [Project -> File] /\ mirrorHead \in [Project -> File]
    /\ oplog \in Seq(Event)
    /\ writer \in Proc \cup {NoProc}
    /\ pc \in [Proc -> PcSet] /\ ev \in [Proc -> Event \cup {NoEvent}]
    /\ plan \in [Proc -> Seq(Event)]
    /\ acked \in [Event -> Nat]

(* What the doc promises of an interrupted ledger window                   *)
(* (docs/state-lifecycle.md:114): whatever dies at whatever point, the     *)
(* next reader makes sense of ledger and head, repairing at most the one   *)
(* append in flight (validate_ledger_head, append_line).                   *)
AlwaysReadable == Readable

(* The writer of the last line died before its newline, and the line was   *)
(* not run into yet, or was.                                               *)
Severed == merged \/ (open /\ \A p \in Proc : pc[p] # "line_written")

(* What was recorded when the file last parsed: all that is legible, and   *)
(* the severed line that a record has run into.                            *)
Recorded == IF merged THEN Front(lines) ELSE lines

(* The ordinal an append returned keeps naming its event in what parses;   *)
(* the one event this can cost is that of a severed line, found installed  *)
(* and returned before the next record ran into it.                        *)
AckedStays ==
    \A e \in Event : acked[e] > 0 =>
        \/ acked[e] <= Len(Legible) /\ Legible[acked[e]] = e
        \/ merged /\ acked[e] = Len(Recorded) /\ Recorded[acked[e]] = e

(* The history across crashes: whatever dies at whatever point, ledger and *)
(* head stay readable and true to what was acknowledged, until a record    *)
(* runs into a severed line (append_event, repair_ledger_head_locked).     *)
HistoryKept == (Readable \/ merged) /\ AckedStays

(* An append returns only after the outputs derived for its project show   *)
(* the whole history (converge_derived), whatever died halfway before.     *)
AckShowsDerived ==
    [][\A e \in Event : acked'[e] # acked[e] =>
          /\ mirror[ProjectOf[e]] = OfProject(lines, ProjectOf[e])
          /\ mirrorHead[ProjectOf[e]] = mirror[ProjectOf[e]]
          /\ oplog = lines]_vars

(* A derived output never runs ahead of the ledger it is derived from: it  *)
(* shows what is legible, or was until the last record ran into it.        *)
DerivedBehind ==
    /\ IsPrefix(oplog, Recorded)
    /\ \A pr \in Project :
          mirror[pr] # Missing => IsPrefix(mirror[pr], OfProject(Recorded, pr))

(* Derived outputs follow the ledger: never ahead of it, and up to it when *)
(* an append returns (converge_derived).                                   *)
DerivedKept == []TypeOK /\ []DerivedBehind /\ AckShowsDerived

(* A tail that a lock-free reader accepts is a state the ledger was in,    *)
(* complete with every event acknowledged before it started to read, and   *)
(* it stays legible: no severed line is in it.                             *)
ReaderConsistent ==
    \A r \in Reader :
        rpc[r] = "done" =>
            /\ IsPrefix(seen[r].lines, Legible)
            /\ \A e \in floor[r] : Holds(seen[r].lines, e)

(* The ledger implements the abstract history: what parses is never        *)
(* rewritten, no id is recorded twice however often its append is tried,   *)
(* nothing is acknowledged that is not recorded, and all that is ever lost *)
(* is one severed record, with which the history ends.                     *)
AckedEvents == {e \in Event : acked[e] > 0}
Abstract == INSTANCE EventLog WITH log <- Legible, acked <- AckedEvents,
                                   severed <- Severed, ended <- merged
ImplementsEventLog == Abstract!Spec
=============================================================================
