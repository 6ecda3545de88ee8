---------------------------- MODULE Host_proofs -----------------------------
(* The components of a host.  For any number of start and stop commands,       *)
(* servers and deaths: a server that runs can be found or was lost, and none is *)
(* spawned beside one that can be found.  For every budget, window and set of   *)
(* tool calls: the loop's counters stay within their caps, no call runs twice,  *)
(* an answer was written after the model saw an observation and within the      *)
(* deadline, and a request that has ended left no command running.  For any     *)
(* number of client processes, generations, sidecars, crashes and failed        *)
(* writes: the generations that run belong to one process unless files were     *)
(* taken from under one of them, a cancel reaches the group it names, and what   *)
(* is left on disk when none runs refuses nobody.  For any number of callers     *)
(* and workers: a web call stands in one place of the pool until it is over.     *)
EXTENDS Sidecar, LocalTurn, Generation, WebPool, FiniteSetTheorems, TLAPS

(* The lease is held by a start before its watch, so these starts exclude each other. *)
UnderLease == {"existing", "spawn", "truncate", "write"}
Recording == {"truncate", "write"}

(* A name of a server stands for one that was spawned. *)
Spawned ==
    /\ sideRecord \in used \cup {NoServer, Torn}
    /\ \A p \in Starter : starting[p].server \in used \cup {NoServer}
    /\ \A p \in Starter : starting[p].do \in Recording => starting[p].server # NoServer
    /\ \A q \in Stopper : halting[q].server \in used \cup {NoServer}

(* Whoever is about to remove a record on behalf of a server has seen it gone. *)
Gone ==
    /\ \A p \in Starter : starting[p].do = "forget" => starting[p].server \notin up
    /\ \A q \in Stopper : halting[q].do = "kill" => halting[q].server \notin up

(* From the look at the record to the write of the new one, the record names nobody. *)
Unrecorded ==
    \A p \in Starter : starting[p].do \in {"spawn", "truncate", "write"}
                       => sideRecord \in {NoServer, Torn}

IInv == SidecarTypeOK /\ Spawned /\ Gone /\ Unrecorded /\ ServerKnown

(* A start that holds the lease is alone in the steps the lease covers. *)
LEMMA Alone ==
    ASSUME SidecarTypeOK, NEW p \in Starter, NEW r \in Starter,
           starting[p].do \in UnderLease, starting[r].do \in UnderLease
    PROVE  p = r
BY DEF SidecarTypeOK, UnderLease

(* While one of them has not yet begun to record, whoever runs is recorded or lost. *)
LEMMA Found ==
    ASSUME IInv, NEW p \in Starter, starting[p].do \in {"existing", "spawn"}, NEW s \in up
    PROVE  sideRecord = s \/ s \in lost
BY Alone DEF IInv, ServerKnown, UnderLease

(* The record is removed behind a server that is gone: whoever else was named is lost. *)
LEMMA RecordGone ==
    ASSUME IInv, NEW s, s \notin up, RemoveRecord(s)
    PROVE  /\ sideRecord' = NoServer
           /\ lost \subseteq lost' /\ lost' \subseteq Server
           /\ \A t \in up : t = sideRecord => t \in lost'
BY DEF IInv, SidecarTypeOK, Spawned, RemoveRecord

LEMMA Start == SidecarInit => IInv
BY SidecarAssumption
   DEF SidecarInit, IInv, SidecarTypeOK, Spawned, Gone, Unrecorded, ServerKnown, Rest, Steps,
       Recording

LEMMA Step == IInv /\ [SidecarNext]_sidecarVars => IInv'
<1> SUFFICES ASSUME IInv, [SidecarNext]_sidecarVars PROVE IInv'
  OBVIOUS
<1> USE SidecarAssumption
<1>0. SidecarTypeOK /\ Spawned /\ Gone /\ Unrecorded /\ ServerKnown
  BY DEF IInv
<1> USE DEF StartAt, StartGo, Yield, Rest, Steps, Recording
<1>1. ASSUME NEW p \in Starter, AcquireRuntime(p) PROVE IInv'
  BY <1>0, <1>1
     DEF AcquireRuntime, IInv, SidecarTypeOK, Spawned, Gone, Unrecorded, ServerKnown
<1>2. ASSUME NEW p \in Starter, Existing(p) PROVE IInv'
  <2>1. starting[p].do = "existing" /\ p = runtime
    BY <1>0, <1>2 DEF Existing, SidecarTypeOK
  <2>2. SidecarTypeOK'
    BY <1>0, <1>2 DEF Existing, SidecarTypeOK
  <2>3. Spawned' /\ Gone'
    BY <1>0, <1>2, SMTT(30) DEF Existing, SidecarTypeOK, Spawned, Gone
  <2>4. Unrecorded'
    BY <1>0, <1>2, <2>1, Alone DEF Existing, SidecarTypeOK, Unrecorded, UnderLease
  <2>5. ServerKnown'
    BY <1>0, <1>2, <2>1, Found DEF Existing, SidecarTypeOK, ServerKnown, IInv
  <2> QED
    BY <2>2, <2>3, <2>4, <2>5 DEF IInv
<1>3. ASSUME NEW p \in Starter, NEW s \in Server, Spawn(p, s) PROVE IInv'
  <2>1. SidecarTypeOK'
    BY <1>0, <1>3 DEF Spawn, SidecarTypeOK
  <2>2. Spawned' /\ Gone'
    BY <1>0, <1>3 DEF Spawn, SidecarTypeOK, Spawned, Gone
  <2>3. Unrecorded'
    BY <1>0, <1>3 DEF Spawn, SidecarTypeOK, Unrecorded
  <2>4. ServerKnown'
    BY <1>0, <1>3, Found DEF Spawn, SidecarTypeOK, ServerKnown, IInv
  <2> QED
    BY <2>1, <2>2, <2>3, <2>4 DEF IInv
<1>4. ASSUME NEW p \in Starter, Truncate(p) PROVE IInv'
  <2>1. SidecarTypeOK' /\ Spawned' /\ Gone' /\ Unrecorded'
    BY <1>0, <1>4 DEF Truncate, SidecarTypeOK, Spawned, Gone, Unrecorded
  <2>2. ServerKnown'
    BY <1>0, <1>4 DEF Truncate, SidecarTypeOK, Unrecorded, ServerKnown
  <2> QED
    BY <2>1, <2>2 DEF IInv
<1>5. ASSUME NEW p \in Starter, WriteRecord(p) PROVE IInv'
  <2>1. starting[p].do = "write" /\ p = runtime
    BY <1>0, <1>5 DEF WriteRecord, SidecarTypeOK
  <2>2. \A r \in Starter : starting[r].do \in UnderLease => r = p
    BY <1>0, <2>1, Alone DEF UnderLease
  <2>3. SidecarTypeOK'
    BY <1>0, <1>5, <2>1, <2>2 DEF WriteRecord, SidecarTypeOK, Spawned, UnderLease
  <2>4. Spawned' /\ Gone'
    BY <1>0, <1>5 DEF WriteRecord, SidecarTypeOK, Spawned, Gone
  <2>5. Unrecorded'
    BY <1>0, <1>5, <2>2 DEF WriteRecord, SidecarTypeOK, Unrecorded, UnderLease
  <2>6. \A s \in up : s = starting[p].server \/ s \in lost
    BY <1>0, <2>1, <2>2 DEF Unrecorded, ServerKnown, SidecarTypeOK, UnderLease
  <2>7. ServerKnown'
    BY <1>0, <1>5, <2>6 DEF WriteRecord, SidecarTypeOK, ServerKnown
  <2> QED
    BY <2>3, <2>4, <2>5, <2>7 DEF IInv
<1>6. ASSUME NEW p \in Starter, Watch(p) PROVE IInv'
  <2>1. /\ starting[p].do = "watch" /\ up' \subseteq up
        /\ \E step \in {"told", "forget"} : starting' = [starting EXCEPT ![p].do = step]
        /\ starting'[p].do = "forget" => starting[p].server \notin up'
        /\ UNCHANGED <<used, sideRecord, runtime, halting, lost>>
    BY <1>0, <1>6 DEF Watch, SidecarTypeOK
  <2>2. /\ starting' \in [Starter -> [do : Steps, server : Server \cup {NoServer}]]
        /\ \A r \in Starter : starting'[r].server = starting[r].server
        /\ \A r \in Starter \ {p} : starting'[r] = starting[r]
        /\ starting'[p].do \in {"told", "forget"}
    BY <1>0, <2>1 DEF SidecarTypeOK
  <2>3. SidecarTypeOK'
    BY <1>0, <2>1, <2>2 DEF SidecarTypeOK
  <2>4. Spawned' /\ Gone'
    BY <1>0, <2>1, <2>2 DEF Spawned, Gone
  <2>5. Unrecorded' /\ ServerKnown'
    BY <1>0, <2>1, <2>2 DEF Unrecorded, ServerKnown
  <2> QED
    BY <2>3, <2>4, <2>5 DEF IInv
<1>7. ASSUME NEW p \in Starter, Forget(p) PROVE IInv'
  <2>1. starting[p].server \notin up
    BY <1>0, <1>7 DEF Forget, Gone
  <2>2. /\ sideRecord' = NoServer
        /\ lost \subseteq lost' /\ lost' \subseteq Server
        /\ \A t \in up : t = sideRecord => t \in lost'
    BY <1>7, <2>1, RecordGone DEF Forget
  <2>3. SidecarTypeOK' /\ Spawned' /\ Gone' /\ Unrecorded'
    BY <1>0, <1>7, <2>2 DEF Forget, SidecarTypeOK, Spawned, Gone, Unrecorded
  <2>4. ServerKnown'
    BY <1>0, <1>7, <2>2 DEF Forget, SidecarTypeOK, ServerKnown
  <2> QED
    BY <2>3, <2>4 DEF IInv
<1>8. ASSUME NEW p \in Starter, Reported(p) PROVE IInv'
  BY <1>0, <1>8
     DEF Reported, IInv, SidecarTypeOK, Spawned, Gone, Unrecorded, ServerKnown
<1>9. ASSUME NEW p \in Starter, StarterDies(p) PROVE IInv'
  <2>1. lost \subseteq lost' /\ lost' \subseteq Server
    BY <1>0, <1>9 DEF StarterDies, SidecarTypeOK, Spawned, ServerKnown
  <2>2. SidecarTypeOK'
    BY <1>0, <1>9, <2>1 DEF StarterDies, SidecarTypeOK
  <2>3. Spawned' /\ Gone' /\ Unrecorded'
    BY <1>0, <1>9 DEF StarterDies, SidecarTypeOK, Spawned, Gone, Unrecorded
  <2>4. ServerKnown'
    BY <1>0, <1>9, <2>1 DEF StarterDies, SidecarTypeOK, ServerKnown
  <2> QED
    BY <2>2, <2>3, <2>4 DEF IInv
<1>10. ASSUME NEW s \in Server, ServerDies(s) PROVE IInv'
  BY <1>0, <1>10
     DEF ServerDies, IInv, SidecarTypeOK, Spawned, Gone, Unrecorded, ServerKnown
<1>11. ASSUME NEW q \in Stopper, StopReads(q) PROVE IInv'
  BY <1>0, <1>11
     DEF StopReads, IInv, SidecarTypeOK, Spawned, Gone, Unrecorded, ServerKnown
<1>12. ASSUME NEW q \in Stopper, StopTerminates(q) PROVE IInv'
  BY <1>0, <1>12, SMTT(30)
     DEF StopTerminates, IInv, SidecarTypeOK, Spawned, Gone, Unrecorded, ServerKnown
<1>13. ASSUME NEW q \in Stopper, StopForgets(q) PROVE IInv'
  <2>1. halting[q].server \notin up
    BY <1>0, <1>13 DEF StopForgets, Gone
  <2>2. /\ sideRecord' = NoServer
        /\ lost \subseteq lost' /\ lost' \subseteq Server
        /\ \A t \in up : t = sideRecord => t \in lost'
    BY <1>13, <2>1, RecordGone DEF StopForgets
  <2>3. SidecarTypeOK' /\ Spawned' /\ Gone' /\ Unrecorded'
    BY <1>0, <1>13, <2>2 DEF StopForgets, SidecarTypeOK, Spawned, Gone, Unrecorded
  <2>4. ServerKnown'
    BY <1>0, <1>13, <2>2 DEF StopForgets, SidecarTypeOK, ServerKnown
  <2> QED
    BY <2>3, <2>4 DEF IInv
<1>14. CASE UNCHANGED sidecarVars
  BY <1>0, <1>14
     DEF sidecarVars, IInv, SidecarTypeOK, Spawned, Gone, Unrecorded, ServerKnown
<1> QED
  BY <1>1, <1>2, <1>3, <1>4, <1>5, <1>6, <1>7, <1>8, <1>9, <1>10, <1>11, <1>12, <1>13, <1>14
     DEF SidecarNext, StartStep

(* A server that runs can be found, unless its record was lost behind its back. *)
THEOREM Known == SidecarSpec => []ServerKnown
<1>1. IInv => ServerKnown
  BY DEF IInv
<1> QED
  BY Start, Step, <1>1, PTL DEF SidecarSpec

(* Of two servers that run one has been lost: existing::report looks, under the lease,  *)
(* at a record that names every server which can still be found.                        *)
LEMMA Apart == IInv => OnePort
<1> SUFFICES ASSUME IInv, NEW s \in up, NEW t \in up, s # t, s \notin lost, t \notin lost
             PROVE  FALSE
  BY DEF OnePort
<1>1. s \in Server /\ t \in Server
  BY DEF IInv, SidecarTypeOK
<1>2. CASE sideRecord \in {s, t}
  <2>1. PICK p \in Starter : starting[p].do \in Recording
    BY <1>2 DEF IInv, ServerKnown, Recording
  <2> QED
    BY <1>1, <1>2, <2>1, SidecarAssumption DEF IInv, Unrecorded, Recording
<1>3. CASE sideRecord \notin {s, t}
  <2>1. PICK p \in Starter : starting[p].server = s /\ starting[p].do \in Recording
    BY <1>3 DEF IInv, ServerKnown, Recording
  <2>2. PICK r \in Starter : starting[r].server = t /\ starting[r].do \in Recording
    BY <1>3 DEF IInv, ServerKnown, Recording
  <2> QED
    BY <2>1, <2>2, Alone DEF IInv, Recording, UnderLease
<1> QED
  BY <1>2, <1>3

(* The same of every behaviour: no server is spawned beside one that can still be found. *)
THEOREM PortKept == SidecarSpec => []OnePort
  BY Start, Step, Apart, PTL DEF SidecarSpec

(* The record, the servers, the commands and the lease keep their shape. *)
THEOREM SidecarTyped == SidecarSpec => []SidecarTypeOK
<1>1. IInv => SidecarTypeOK
  BY DEF IInv
<1> QED
  BY Start, Step, <1>1, PTL DEF SidecarSpec

(* start_sidecar_with_timeout and stop_report: what the record says of the servers.       *)
THEOREM Findable == SidecarSpec => []ServersFound
<1>1. IInv => ServersFound
  BY Apart DEF IInv, ServersFound
<1> QED
  BY Start, Step, <1>1, PTL DEF SidecarSpec

-----------------------------------------------------------------------------
(* The local tool loop of a request. *)

\* The places where an admitted call has not given its observation yet, and the places
\* after which nothing is counted any more.
Owing == {"execute", "running", "reading", "stopped", "joining"}
Ended == {"left", "done"}

\* Every admitted call is executed once and, unless the request ends with it, observed.
Counted ==
  /\ IsFiniteSet(admitted)
  /\ place \in Owing => tool \in admitted /\ seen + 1 = Cardinality(admitted)
  /\ place \notin Owing \cup Ended => seen = Cardinality(admitted)
  /\ place = "call" => tool \in ToolCall
  /\ \A c \in ToolCall \ admitted : ran[c] = 0
  /\ place = "execute" => ran[tool] = 0

\* A request that goes on has no outcome, and at most one protocol error in a row.
Unended == place \notin Ended => errors <= 1 /\ outcome = "none"

\* The answer is asked for after an observation; the command is running only here.
Grounded == place \in {"answering_prompt", "answering"} => seen > 0
Attended == child = "running" => place = "running"

Inv == /\ LocalTurnTypeOK /\ Counted /\ Unended /\ Grounded /\ Attended
       /\ OncePerCall /\ AnswerEarned

LEMMA ConstantTypes ==
  /\ MaxModelTurns \in Nat /\ MaxToolCalls \in Nat
  /\ MaxObservation \in Nat /\ MaxCumulative \in Nat
  /\ ModelWindow \in Nat \ {0} /\ ToolWindow \in Nat \ {0} /\ Reserve \in Nat
  /\ Size \subseteq Nat /\ Command \subseteq ToolCall
  /\ RequestTimeout \in Nat
BY LocalTurnAssumption DEF RequestTimeout, Guaranteed

LEMMA Begins == LocalTurnInit => Inv
<1> SUFFICES ASSUME LocalTurnInit PROVE Inv
  OBVIOUS
<1>1. IsFiniteSet({}) /\ Cardinality({}) = 0
  BY FS_EmptySet
<1>2. /\ place \in TurnStages /\ outcome \in Outcomes
      /\ tool \in ToolCall \cup {NoCall} /\ ran \in [ToolCall -> Nat]
  BY DEF LocalTurnInit, TurnStages, Outcomes
<1>3. /\ turns \in 0 .. MaxModelTurns /\ bytes \in 0 .. MaxCumulative
      /\ seen \in 0 .. Cardinality(admitted) /\ Cardinality(admitted) <= MaxToolCalls
  BY <1>1, ConstantTypes DEF LocalTurnInit
<1>4. token \in BOOLEAN /\ pipe \in BOOLEAN /\ admitted \subseteq ToolCall
  BY Zenon DEF LocalTurnInit
<1>5. /\ errors \in 0 .. 2 /\ pushed \in 0 .. bytes /\ child \in {"none", "running", "exited"}
      /\ clock \in Nat /\ limit \in Nat /\ slack \in Nat /\ whole \in Nat
  BY DEF LocalTurnInit
<1>6. LocalTurnTypeOK
  BY Zenon, <1>2, <1>3, <1>4, <1>5 DEF LocalTurnTypeOK
<1> QED
  BY <1>1, <1>6 DEF LocalTurnInit, Inv, Counted, Unended, Grounded, Attended, OncePerCall,
     AnswerEarned, Owing, Ended

\* record_observation: the budgets after one observation, wherever the request goes.
LEMMA Observed ==
  ASSUME Inv, place \in Owing, NEW status, NEW size \in Nat, Observe(status, size),
         UNCHANGED <<turns, admitted, clock, ran>>
  PROVE  /\ bytes' \in 0 .. MaxCumulative
         /\ pushed' \in 0 .. bytes'
         /\ errors' \in 0 .. 2
         /\ \/ /\ place' = "left" /\ UNCHANGED seen
               /\ outcome' \in {"deadline", "bytes", "protocol", status}
               /\ outcome' = status => status \in {"cancelled", "timeout", "deadline", "bytes", "protocol"}
            \/ /\ place' = "loop" /\ seen' = seen + 1 /\ errors' <= 1
               /\ UNCHANGED outcome
<1> DEFINE kept == Least(size, Allowed)
<1>1. bytes \in 0 .. MaxCumulative /\ pushed \in 0 .. bytes /\ errors \in 0 .. 1
  BY ConstantTypes DEF Inv, LocalTurnTypeOK, Unended, Owing, Ended
<1>2. kept \in Nat /\ bytes + kept <= MaxCumulative
  BY <1>1, ConstantTypes DEF Allowed, Least
<1>3. bytes' = bytes + kept
  BY DEF Observe
<1>4. pushed' \in {pushed, pushed + kept} /\ errors' \in {errors, errors + 1}
  BY DEF Observe, ProtocolError, given
<1> HIDE DEF kept
<1>5. bytes' \in 0 .. MaxCumulative /\ pushed' \in 0 .. bytes' /\ errors' \in 0 .. 2
  BY <1>1, <1>2, <1>3, <1>4, ConstantTypes
<1>6. \/ /\ place' = "left" /\ UNCHANGED seen
         /\ outcome' \in {"deadline", "bytes", "protocol", status}
         /\ outcome' = status => status \in {"cancelled", "timeout", "deadline", "bytes", "protocol"}
      \/ /\ place' = "loop" /\ seen' = seen + 1 /\ errors' <= 1
         /\ UNCHANGED outcome
  BY <1>1 DEF Observe, ProtocolError, Leave, Resume, given
<1> QED
  BY <1>5, <1>6

\* Every step of the request, its tool, the user or the clock keeps the invariant.
LEMMA Keeps == Inv /\ [LocalTurnNext]_localTurnVars => Inv'
<1> SUFFICES ASSUME Inv, [LocalTurnNext]_localTurnVars PROVE Inv'
  OBVIOUS
<1> USE ConstantTypes
    DEF Inv, LocalTurnTypeOK, Counted, Unended, Grounded, Attended, OncePerCall, AnswerEarned,
        Owing, Ended, TurnStages, Outcomes, budgets, given, process, history
<1>1. ASSUME Submitted PROVE Inv'
  BY <1>1 DEF Submitted
<1>2. ASSUME Loop PROVE Inv'
  BY <1>2 DEF Loop, BeginTurn, Leave
<1>3. ASSUME Ask PROVE Inv'
  BY <1>3 DEF Ask, StartModel, Leave, Least, Remaining, InTime
<1>4. ASSUME ModelFails PROVE Inv'
  BY <1>4 DEF ModelFails, Leave
<1>5. ASSUME ModelDecides PROVE Inv'
  BY <1>5 DEF ModelDecides, Leave
<1>6. ASSUME Malformed PROVE Inv'
  BY <1>6 DEF Malformed, ProtocolError, Leave, Resume
<1>7. ASSUME Admit PROVE Inv'
  BY <1>7, FS_AddElement DEF Admit, AdmitCall, Leave
<1>8. ASSUME Answer PROVE Inv'
  <2>1. seen = Cardinality(admitted) /\ (admitted # {} => seen > 0)
    BY <1>8, FS_EmptySet, FS_CardinalityType DEF Answer
  <2> QED
    BY <1>8, <2>1 DEF Answer, AdmitAnswer, BeginTurn, ProtocolError, Leave, Resume
<1>9. ASSUME StartAnswer PROVE Inv'
  BY <1>9 DEF StartAnswer, StartModel, Leave, Least, Remaining, InTime
<1>10. ASSUME FinishAnswer PROVE Inv'
  BY <1>10 DEF FinishAnswer, Answered, Leave, InTime
<1>11. ASSUME Propose PROVE Inv'
  BY <1>11 DEF Propose, Leave
<1>12. ASSUME Execute PROVE Inv'
  <2>1. /\ limit' \in Nat /\ tool \in ToolCall /\ ran[tool] = 0 /\ child # "running"
        /\ UNCHANGED <<turns, admitted, errors, bytes, pushed, seen, tool, clock, token, slack, whole>>
    BY <1>12 DEF Execute, Leave, Least, Remaining, InTime
  <2>2. CASE place' = "left"
    BY <1>12, <2>1, <2>2 DEF Execute, Leave
  <2>3. CASE place' = "stopped"
    BY <1>12, <2>1, <2>3 DEF Execute, Leave
  <2>4. CASE place' \in {"running", "reading"}
    <3>1. ran' = [ran EXCEPT ![tool] = 1] /\ outcome' = outcome
      BY <1>12, <2>1, <2>4 DEF Execute, Leave
    <3>2. ran' \in [ToolCall -> Nat] /\ \A c \in ToolCall : ran'[c] <= 1
      BY <2>1, <3>1
    <3>3. child' \in {"none", "running", "exited"} /\ (child' = "running" => place' = "running")
      BY <1>12, <2>1, <2>4 DEF Execute, Leave
    <3>4. pipe' \in BOOLEAN
      BY <1>12 DEF Execute, Leave
    <3> QED
      BY <1>12, <2>1, <2>4, <3>1, <3>2, <3>3, <3>4 DEF Execute
  <2> QED
    BY <1>12, <2>2, <2>3, <2>4 DEF Execute, Leave
<1>13. ASSUME Read PROVE Inv'
  BY <1>13, Observed DEF Read
<1>14. ASSUME Stopped PROVE Inv'
  BY <1>14, Observed DEF Stopped
<1>15. ASSUME PollTool PROVE Inv'
  <2>1. /\ place = "running" /\ pipe' \in BOOLEAN /\ child' \in {"none", "exited"}
        /\ UNCHANGED <<turns, admitted, tool, clock, limit, token, ran, slack, whole>>
    BY <1>15 DEF PollTool, Poll, Kill
  <2>2. CASE place' = "joining" /\ UNCHANGED <<outcome, bytes, errors, given>>
    BY <1>15, <2>1, <2>2
  <2>3. ASSUME NEW status \in {"cancelled", "timeout"}, Observe(status, 1) PROVE Inv'
    <3>1. /\ bytes' \in 0 .. MaxCumulative /\ pushed' \in 0 .. bytes' /\ errors' \in 0 .. 2
          /\ \/ place' = "left" /\ UNCHANGED seen
                /\ outcome' \in {"deadline", "bytes", "protocol", status}
             \/ place' = "loop" /\ seen' = seen + 1 /\ errors' <= 1 /\ UNCHANGED outcome
      BY <2>1, <2>3, Observed
    <3> QED
      BY <2>1, <2>3, <3>1
  <2> QED
    BY <1>15, <2>2, <2>3 DEF PollTool, Poll
<1>16. ASSUME Join PROVE Inv'
  BY <1>16, Observed DEF Join
<1>17. ASSUME ReportTurn PROVE Inv'
  BY <1>17 DEF ReportTurn
<1>18. ASSUME ToolExits PROVE Inv'
  BY <1>18 DEF ToolExits
<1>19. ASSUME DescendantExits PROVE Inv'
  BY <1>19, ZenonT(30) DEF DescendantExits
<1>20. ASSUME Cancel PROVE Inv'
  BY <1>20 DEF Cancel
<1>21. ASSUME Tick PROVE Inv'
  BY <1>21 DEF Tick, Least
<1>22. CASE UNCHANGED localTurnVars
  BY <1>22 DEF localTurnVars
<1> QED
  BY <1>1, <1>2, <1>3, <1>4, <1>5, <1>6, <1>7, <1>8, <1>9, <1>10, <1>11, <1>12, <1>13, <1>14,
     <1>15, <1>16, <1>17, <1>18, <1>19, <1>20, <1>21, <1>22
     DEF LocalTurnNext, Thread

\* The counters of the loop stay within their caps (local_loop_state.rs).
THEOREM LoopTyped == LocalTurnSpec => []LocalTurnTypeOK
<1>1. Inv => LocalTurnTypeOK
  BY DEF Inv
<1> QED
  BY Begins, Keeps, <1>1, PTL DEF LocalTurnSpec

\* admit_tool_call: a call that ran is remembered for the whole request.
THEOREM RunsOnce == LocalTurnSpec => []OncePerCall
<1>1. Inv => OncePerCall
  BY DEF Inv
<1> QED
  BY Begins, Keeps, <1>1, PTL DEF LocalTurnSpec

\* admit_answer and terminal_decision: an answer rests on an observation, in time.
THEOREM Earned == LocalTurnSpec => []AnswerEarned
<1>1. Inv => AnswerEarned
  BY DEF Inv
<1> QED
  BY Begins, Keeps, <1>1, PTL DEF LocalTurnSpec

\* run_bounded: the thread is with the command as long as that runs.
THEOREM NothingRuns == LocalTurnSpec => []ChildStopped
<1>1. Inv => ChildStopped
  BY DEF Inv, Attended, ChildStopped
<1> QED
  BY Begins, Keeps, <1>1, PTL DEF LocalTurnSpec

\* run_local_request: all that a request may have done, at every step of its thread.
THEOREM Kept == LocalTurnSpec => []RequestKept
<1>1. LocalTurnTypeOK /\ OncePerCall /\ AnswerEarned /\ ChildStopped => RequestKept
  BY DEF RequestKept
<1> QED
  BY LoopTyped, RunsOnce, Earned, NothingRuns, <1>1, PTL

-----------------------------------------------------------------------------
(* Admission of generations. *)

Admitting == {"record", "lock", "clean", "create", "write", "publish"}
Beyond == {"lock", "clean", "create", "write", "publish"}
Doing == Admitting \cup {"release"}
Past(g) == stage[g] \in {"running", "ended", "over"}
Born(g) == stage[g] # "unborn"
Contents == Gen \cup {None, Empty}
Remover == Client \cup Commands
Calls == {Idle} \cup [do : Doing, gen : Gen]
Asks == {Idle} \cup [do : {"check", "clean", "terminal", "group"}, gen : Gen]
Stops == {Idle} \cup [do : {"kill", "wait", "clean", "forget"}, gen : Gen \cup {None}]

(* GenerationTypeOK with the shapes of what it leaves open. *)
Shape ==
    /\ GenerationTypeOK
    /\ call \in [Client -> Calls] /\ asking \in Asks /\ stopping \in Stops
    /\ file \in [Files -> Contents] /\ last \in Gen \cup {None}
    /\ removal \in [Remover -> [id : Gen \cup {None}, next : 1 .. 4, matched : BOOLEAN]]
    /\ crashes \in Nat

(* Where a generation stands and which process works for it. *)
Placed ==
    /\ \A g \in Gen : Born(g) <=> client[g] \in Client
    /\ \A c \in Client : call[c].do \in Doing => client[call[c].gen] = c
    /\ \A c \in Client : call[c].do \in Admitting
                         => lease = c /\ stage[call[c].gen] = "begun"
    /\ \A c \in Client : call[c].do = "release" => stage[call[c].gen] = "ended"
    /\ \A g \in Gen : stage[g] = "running" => g \in member[client[g]]

(* The members of a process run under its primary or under one that was taken. *)
Grouped ==
    \A c \in Client :
        /\ primary[c] # None => client[primary[c]] = c /\ Past(primary[c])
        /\ \A g \in member[c] :
              /\ client[g] = c /\ under[g] \in Gen
              /\ client[under[g]] = c /\ Past(under[g])
              /\ under[g] = primary[c] \/ under[g] \in taken

(* Whoever is named by a file, a command or a set has published its record. *)
Named ==
    /\ file["record"] # None => Past(file["record"])
    /\ file["lock"] \in Gen => Born(file["lock"])
    /\ file["marker"] # None => file["marker"] \in asked
    /\ last # None => last \in asked
    /\ \A g \in asked \cup acked : Past(g)
    /\ \A g \in heard : stage[g] \in {"ended", "over"}
    /\ asking # Idle => Past(asking.gen)
    /\ stopping # Idle /\ stopping.gen # None => Past(stopping.gen)
    /\ stopping.do \in {"wait", "clean", "forget"} => stopping.gen # None

(* Nobody runs untouched under an id whose files are being removed. *)
Ousted(i) ==
    \/ ~Alive(i)
    \/ i \in taken
    \/ Past(i) /\ primary[client[i]] # i

Removing ==
    /\ \A p \in Remover :
          ~Removed(p) => removal[p].id \in Gen /\ Born(removal[p].id) /\ Ousted(removal[p].id)
    /\ \A p \in Remover : removal[p].matched => ~Removed(p) /\ removal[p].next <= 3
    /\ \A c \in Client : ~Removed(c) => call[c].do \in {"clean", "release"}

(* The record names the primary of a process that runs, and nobody passes the check of the
   record while an untouched one does. *)
Recorded(d) == primary[d] # None => primary[d] \in taken \/ file["record"] = primary[d]
Untouched(d) == primary[d] # None /\ primary[d] \notin taken
RecordHeld ==
    /\ \A d \in alive : Recorded(d)
    /\ \A c \in Client : call[c].do \in Beyond => \A d \in alive : ~Untouched(d)

(* A group is marked or was let go. *)
Leads(g) == Alive(g) /\ primary[client[g]] = g
Marked ==
    /\ last # None /\ Leads(last) => last \in taken \/ file["marker"] = last
    /\ \A g \in acked : Leads(g) => g \in taken

(* What a living process left in a file, it will remove. *)
WillRemove(g, n) ==
    removal[client[g]].id = g /\ removal[client[g]].next <= n
Publishing(g) == call[client[g]].do = "publish" /\ call[client[g]].gen = g

LeftBehind ==
    /\ file["record"] # None /\ Alive(file["record"])
         => Leads(file["record"]) \/ WillRemove(file["record"], 1)
    /\ file["lock"] \in Gen /\ Alive(file["lock"])
         => \/ Publishing(file["lock"]) \/ Leads(file["lock"])
            \/ WillRemove(file["lock"], 3)
    /\ file["lock"] = Empty
         => crashes > 0 \/ \E c \in alive : call[c].do = "write"
    /\ \A c \in Client : call[c].do = "write" => file["lock"] \in {Empty, None}
    /\ \A c \in Client : call[c].do = "publish" => file["lock"] \in {call[c].gen, None}

AdmissionInv ==
    /\ Shape /\ Placed /\ Grouped /\ Named /\ Removing /\ RecordHeld /\ Marked /\ LeftBehind
    /\ CancelScope

LEMMA RemovalShape ==
    ASSUME Shape, NEW p \in Remover, NEW g \in Gen, StartRemoval(p, g)
    PROVE  removal' \in [Remover -> [id : Gen \cup {None}, next : 1 .. 4, matched : BOOLEAN]]
<1>1. Removal(g) \in [id : Gen \cup {None}, next : 1 .. 4, matched : BOOLEAN]
  BY DEF Removal
<1> QED  BY <1>1 DEF Shape, StartRemoval

LEMMA RefusesNamed ==
    ASSUME AdmissionInv, NEW c \in Client, call[c].do \in Admitting, Refused(c),
           file' \in {file, [file EXCEPT !["lock"] = None]},
           UNCHANGED <<commandVars, heard, askVars, taken>>
    PROVE  Named'
<1>1. /\ Shape /\ Placed /\ Named
      /\ call[c].gen \in Gen /\ stage[call[c].gen] = "begun"
      /\ stage' = [stage EXCEPT ![call[c].gen] = "over"]
  BY DEF AdmissionInv, Shape, Calls, Placed, Refused, Admitting, Idle
<1>2. \A g \in Gen : /\ Past(g) => Past(g)'
                     /\ Born(g) => Born(g)'
                     /\ stage[g] \in {"ended", "over"} => stage'[g] \in {"ended", "over"}
  BY <1>1 DEF Shape, GenerationTypeOK, Past, Born
<1>3. /\ file["record"] # None => file["record"] \in Gen
      /\ asked \cup acked \cup heard \subseteq Gen
      /\ asking # Idle => asking.gen \in Gen
      /\ stopping # Idle /\ stopping.gen # None => stopping.gen \in Gen
  BY <1>1 DEF Shape, GenerationTypeOK, Asks, Stops
<1>4. /\ file'["record"] = file["record"] /\ file'["marker"] = file["marker"]
      /\ file'["lock"] \in {file["lock"], None}
  BY <1>1 DEF Shape, Files
<1> QED  BY <1>1, <1>2, <1>3, <1>4, GenerationAssumption DEF Named, commandVars, askVars

LEMMA PublishesRest ==
    ASSUME AdmissionInv, NEW c \in alive, call[c].do = "publish",
           Register(c, call[c].gen, TRUE), file' = [file EXCEPT !["record"] = call[c].gen],
           UNCHANGED removal,
           UNCHANGED <<terminal, commandVars, heard, askVars, taken, alive, crashes, commands>>
    PROVE  Shape' /\ Grouped'
<1>0. c \in Client /\ call[c].gen \in Gen
  BY DEF AdmissionInv, Shape, GenerationTypeOK, Calls, Idle
<1> PICK g \in Gen : g = call[c].gen
  BY <1>0
<1>1. /\ c \in Client /\ Shape /\ GenerationTypeOK /\ Placed /\ Grouped /\ RecordHeld
      /\ stage[g] = "begun" /\ client[g] = c
  BY <1>0 DEF AdmissionInv, Shape, Placed, Admitting, Doing
<1>2. /\ member' = [member EXCEPT ![c] = @ \cup {g}] /\ primary' = [primary EXCEPT ![c] = g]
      /\ under' = [under EXCEPT ![g] = g] /\ stage' = [stage EXCEPT ![g] = "running"]
      /\ call' = [call EXCEPT ![c] = Idle] /\ lease' = None /\ client' = client /\ bound' = bound
  BY <1>1 DEF Register, Shape, GenerationTypeOK
<1>3. GenerationTypeOK'
  <2>1. member' \in [Client -> SUBSET Gen] /\ primary' \in [Client -> Gen \cup {None}]
    BY <1>1, <1>2 DEF GenerationTypeOK
  <2>2. \A d \in Client : (member'[d] = {}) <=> (primary'[d] = None)
    BY <1>1, <1>2, GenerationAssumption DEF GenerationTypeOK
  <2>3. \A d \in Client : CallOK(d)'
    BY <1>1, <1>2 DEF GenerationTypeOK, CallOK, Shape
  <2>4. under' \in [Gen -> Gen \cup {None}] /\ stage' \in [Gen -> Stages]
    BY <1>1, <1>2 DEF GenerationTypeOK, Stages
  <2>5. /\ file'["record"] \in Gen \cup {None} /\ file'["marker"] = file["marker"]
        /\ file'["lock"] = file["lock"]
    BY <1>1 DEF Shape, Files
  <2> QED
    BY <1>1, <1>2, <2>1, <2>2, <2>3, <2>4, <2>5 DEF GenerationTypeOK, commandVars, askVars
<1>4. Shape'
  BY <1>1, <1>2, <1>3 DEF Shape, Calls, Contents, Files, commandVars, askVars
<1>5. Grouped'
  <2>1. \A p \in Gen : Past(p) => Past(p)'
    BY <1>1, <1>2 DEF Past, GenerationTypeOK
  <2>2. ASSUME NEW d \in Client, d # c
        PROVE  /\ primary'[d] # None => client[primary'[d]] = d /\ Past(primary[d])'
               /\ \A h \in member'[d] :
                     /\ client[h] = d /\ under'[h] \in Gen
                     /\ client[under'[h]] = d /\ Past(under[h])'
                     /\ under'[h] = primary'[d] \/ under'[h] \in taken
    <3>1. primary'[d] = primary[d] /\ member'[d] = member[d]
      BY <1>1, <1>2, <2>2 DEF GenerationTypeOK
    <3>2. \A h \in member[d] : h # g /\ under'[h] = under[h]
      BY <1>1, <1>2, <2>2 DEF Grouped, GenerationTypeOK
    <3> QED  BY <1>1, <2>1, <3>1, <3>2 DEF Grouped, GenerationTypeOK
  <2>3. /\ primary'[c] = g /\ client[g] = c /\ Past(g)'
        /\ under'[g] = g
    BY <1>1, <1>2 DEF Past, GenerationTypeOK
  <2>4. ASSUME NEW h \in member[c], h # g
        PROVE  /\ client[h] = c /\ under'[h] \in Gen
               /\ client[under'[h]] = c /\ Past(under[h])'
               /\ under'[h] \in taken
    <3>1. under'[h] = under[h] /\ primary[c] # None
      BY <1>1, <1>2, <2>4 DEF GenerationTypeOK
    <3> QED  BY <1>1, <2>1, <2>4, <3>1 DEF Grouped, RecordHeld, Beyond, Untouched
  <2>5. member'[c] = member[c] \cup {g}
    BY <1>1, <1>2 DEF GenerationTypeOK
  <2>6. /\ primary'[c] # None => client[primary'[c]] = c /\ Past(primary[c])'
        /\ \A h \in member'[c] :
              /\ client[h] = c /\ under'[h] \in Gen
              /\ client[under'[h]] = c /\ Past(under[h])'
              /\ under'[h] = primary'[c] \/ under'[h] \in taken
    BY <2>3, <2>4, <2>5 DEF Past
  <2> QED  BY <1>1, <1>2, <2>2, <2>6 DEF Grouped
<1> QED  BY <1>4, <1>5

(* The call is refused, and with it the request: a lock of its own is given back. *)
LEMMA Refuses ==
    ASSUME AdmissionInv, NEW c \in Client,
           call[c].do \in Admitting,
           Removed(c),
           Refused(c),
           \/ file' = file /\ call[c].do \in {"record", "lock", "clean", "create"}
           \/ file' = [file EXCEPT !["lock"] = None],
           UNCHANGED removal,
           UNCHANGED <<terminal, commandVars, heard, askVars, taken, alive, crashes, commands>>
    PROVE  AdmissionInv'
<1>1. Shape'
  BY DEF commandVars, askVars, AdmissionInv, Shape, GenerationTypeOK, CallOK, Calls, Contents,
         Files, Admitting, Idle, Stages, Refused, Removed
<1>2. Placed'
  BY DEF AdmissionInv, Placed, Shape, Doing, Admitting, Born, Idle, Refused
<1>3. Grouped'
  BY DEF AdmissionInv, Grouped, Past, Refused
<1>4. Named'
  BY RefusesNamed
<1>5. Removing'
  <2>1. ASSUME NEW p \in Remover, ~Removed(p)'
        PROVE  (removal[p].id \in Gen /\ Born(removal[p].id) /\ Ousted(removal[p].id))'
    BY <2>1 DEF AdmissionInv, Removing, Removed, Ousted, Past, Born, Alive, Refused
  <2>2. ASSUME NEW p \in Remover, removal'[p].matched
        PROVE  (~Removed(p) /\ removal[p].next <= 3)'
    BY <2>2 DEF AdmissionInv, Removing, Removed
  <2>3. ASSUME NEW d \in Client, ~Removed(d)'
        PROVE  call'[d].do \in {"clean", "release"}
    BY <2>3 DEF AdmissionInv, Removing, Removed, Refused
  <2> QED  BY <2>1, <2>2, <2>3 DEF Removing
<1>6. RecordHeld'
  BY DEF AdmissionInv, RecordHeld, Recorded, Untouched, Shape, Beyond, Idle, Files, Refused
<1>7. Marked'
  BY DEF askVars, AdmissionInv, Marked, Leads, Shape, Alive, Files, Refused
<1>8. LeftBehind'
  BY GenerationAssumption
     DEF AdmissionInv, LeftBehind, Leads, WillRemove, Publishing, Shape, Idle, Alive, Files,
         Contents, Remover, Refused
<1>9. CancelScope'
  BY DEF askVars, AdmissionInv, CancelScope, Refused
<1> QED  BY <1>1, <1>2, <1>3, <1>4, <1>5, <1>6, <1>7, <1>8, <1>9 DEF AdmissionInv

(* Nothing stands in the way: the call goes on to the lock, and then to create it. *)
LEMMA MovesOn ==
    ASSUME AdmissionInv, NEW c \in Client,
           NEW step,
           Removed(c),
           Go(c, step),
           \/ call[c].do = "record" /\ step = "lock" /\ file["record"] = None
           \/ call[c].do \in {"lock", "clean"} /\ step = "create",
           UNCHANGED <<client, bound, under, stage, member, primary, lease>>,
           UNCHANGED <<file, removal>>,
           UNCHANGED <<terminal, commandVars, heard, askVars, taken, alive, crashes, commands>>
    PROVE  AdmissionInv'
<1>1. Shape'
  BY DEF commandVars, askVars, AdmissionInv, Shape, GenerationTypeOK, CallOK, Calls, Doing,
         Admitting, Idle, Go
<1>2. Placed'
  BY DEF AdmissionInv, Placed, Doing, Admitting, Born, Go
<1>3. Grouped'
  BY DEF AdmissionInv, Grouped, Past
<1>4. Named'
  BY DEF commandVars, askVars, AdmissionInv, Named, Past, Born
<1>5. Removing'
  <2>1. ASSUME NEW p \in Remover, ~Removed(p)'
        PROVE  (removal[p].id \in Gen /\ Born(removal[p].id) /\ Ousted(removal[p].id))'
    BY <2>1 DEF AdmissionInv, Removing, Removed, Ousted, Past, Born, Alive
  <2>2. ASSUME NEW p \in Remover, removal'[p].matched
        PROVE  (~Removed(p) /\ removal[p].next <= 3)'
    BY <2>2 DEF AdmissionInv, Removing, Removed
  <2>3. ASSUME NEW d \in Client, ~Removed(d)'
        PROVE  call'[d].do \in {"clean", "release"}
    BY <2>3 DEF AdmissionInv, Removing, Removed, Go
  <2> QED  BY <2>1, <2>2, <2>3 DEF Removing
<1>6. RecordHeld'
  BY DEF AdmissionInv, RecordHeld, Recorded, Untouched, Beyond
<1>7. Marked'
  BY DEF askVars, AdmissionInv, Marked, Leads, Alive
<1>8. LeftBehind'
  BY DEF AdmissionInv, LeftBehind, Leads, WillRemove, Publishing, Alive, Go
<1>9. CancelScope'
  BY DEF askVars, AdmissionInv, CancelScope
<1> QED  BY <1>1, <1>2, <1>3, <1>4, <1>5, <1>6, <1>7, <1>8, <1>9 DEF AdmissionInv

(* What a dead client left is about to be removed. *)
LEMMA CleansUp ==
    ASSUME AdmissionInv, NEW c \in Client,
           NEW i \in Gen,
           Go(c, "clean"),
           StartRemoval(c, i),
           Born(i),
           ~Alive(i),
           call[c].do = "lock" \/ (call[c].do = "record" /\ file["record"] = i),
           UNCHANGED <<client, bound, under, stage, member, primary, lease>>,
           UNCHANGED file,
           UNCHANGED <<terminal, commandVars, heard, askVars, taken, alive, crashes, commands>>
    PROVE  AdmissionInv'
<1>1. Shape'
  BY DEF commandVars, askVars, AdmissionInv, Shape, GenerationTypeOK, CallOK, Calls, Remover,
         Doing, Admitting, Idle, Removal, Go, StartRemoval
<1>2. Placed'
  BY DEF AdmissionInv, Placed, Doing, Admitting, Born, Go
<1>3. Grouped'
  BY DEF AdmissionInv, Grouped, Past
<1>4. Named'
  BY DEF commandVars, askVars, AdmissionInv, Named, Past, Born
<1>5. Removing'
  <2>1. ASSUME NEW p \in Remover, ~Removed(p)'
        PROVE  (removal[p].id \in Gen /\ Born(removal[p].id) /\ Ousted(removal[p].id))'
    BY <2>1
       DEF AdmissionInv, Removing, Removed, Removal, Remover, Ousted, Past, Born, Alive,
           StartRemoval
  <2>2. ASSUME NEW p \in Remover, removal'[p].matched
        PROVE  (~Removed(p) /\ removal[p].next <= 3)'
    BY <2>2 DEF AdmissionInv, Removing, Removed, Removal, StartRemoval
  <2>3. ASSUME NEW d \in Client, ~Removed(d)'
        PROVE  call'[d].do \in {"clean", "release"}
    BY <2>3 DEF AdmissionInv, Removing, Shape, Removed, Go, StartRemoval
  <2> QED  BY <2>1, <2>2, <2>3 DEF Removing
<1>6. RecordHeld'
  BY DEF AdmissionInv, RecordHeld, Recorded, Untouched, Grouped, Shape, GenerationTypeOK,
         Beyond, Alive
<1>7. Marked'
  BY DEF askVars, AdmissionInv, Marked, Leads, Alive
<1>8. LeftBehind'
  BY DEF AdmissionInv, LeftBehind, Leads, WillRemove, Publishing, Removing, Alive, Removed,
         NoRemoval, Go, StartRemoval
<1>9. CancelScope'
  BY DEF askVars, AdmissionInv, CancelScope
<1> QED  BY <1>1, <1>2, <1>3, <1>4, <1>5, <1>6, <1>7, <1>8, <1>9 DEF AdmissionInv

(* The generation joins the group of its own process. *)
LEMMA Joins ==
    ASSUME AdmissionInv, NEW c \in Client,
           call[c].do = "record",
           file["record"] # None,
           CanJoin(c, file["record"], call[c].gen),
           Register(c, call[c].gen, FALSE),
           UNCHANGED <<file, removal>>,
           UNCHANGED <<terminal, commandVars, heard, askVars, taken, alive, crashes, commands>>
    PROVE  AdmissionInv'
<1>1. Shape'
  BY DEF commandVars, askVars, AdmissionInv, Shape, GenerationTypeOK, CallOK, Calls, Idle,
         Stages, CanJoin, Register
<1>2. Placed'
  BY DEF AdmissionInv, Placed, Shape, GenerationTypeOK, Doing, Admitting, Born, Idle, Register
<1>3. Grouped'
  BY DEF AdmissionInv, Grouped, Placed, Shape, GenerationTypeOK, Calls, Past, Idle, CanJoin,
         Register
<1>4. Named'
  BY DEF commandVars, askVars, AdmissionInv, Named, Placed, Admitting, Past, Born, Register
<1>5. Removing'
  <2>1. ASSUME NEW p \in Remover, ~Removed(p)'
        PROVE  (removal[p].id \in Gen /\ Born(removal[p].id) /\ Ousted(removal[p].id))'
    BY <2>1 DEF AdmissionInv, Removing, Removed, Ousted, Past, Born, Alive, Register
  <2>2. ASSUME NEW p \in Remover, removal'[p].matched
        PROVE  (~Removed(p) /\ removal[p].next <= 3)'
    BY <2>2 DEF AdmissionInv, Removing, Removed
  <2>3. ASSUME NEW d \in Client, ~Removed(d)'
        PROVE  call'[d].do \in {"clean", "release"}
    BY <2>3 DEF AdmissionInv, Removing, Removed, Register
  <2> QED  BY <2>1, <2>2, <2>3 DEF Removing
<1>6. RecordHeld'
  BY DEF AdmissionInv, RecordHeld, Recorded, Untouched, Beyond, Idle, Register
<1>7. Marked'
  BY DEF askVars, AdmissionInv, Marked, Leads, Alive, Register
<1>8. LeftBehind'
  BY DEF AdmissionInv, LeftBehind, Leads, WillRemove, Publishing, Idle, Alive, Register
<1>9. CancelScope'
  BY DEF askVars, AdmissionInv, CancelScope, Named, Placed, Admitting, Register
<1> QED  BY <1>1, <1>2, <1>3, <1>4, <1>5, <1>6, <1>7, <1>8, <1>9 DEF AdmissionInv

(* The lock is created, and empty until it is written. *)
LEMMA Creates ==
    ASSUME AdmissionInv, NEW c \in Client,
           call[c].do = "create",
           file["lock"] = None,
           file' = [file EXCEPT !["lock"] = Empty],
           Go(c, "write"),
           c \in alive,
           UNCHANGED <<client, bound, under, stage, member, primary, lease, removal>>,
           UNCHANGED <<terminal, commandVars, heard, askVars, taken, alive, crashes, commands>>
    PROVE  AdmissionInv'
<1>1. Shape'
  BY DEF commandVars, askVars, AdmissionInv, Shape, GenerationTypeOK, CallOK, Calls, Contents,
         Files, Doing, Admitting, Idle, Go
<1>2. Placed'
  BY DEF AdmissionInv, Placed, Doing, Admitting, Born, Go
<1>3. Grouped'
  BY DEF AdmissionInv, Grouped, Past
<1>4. Named'
  BY GenerationAssumption DEF commandVars, askVars, AdmissionInv, Named, Past
<1>5. Removing'
  <2>1. ASSUME NEW p \in Remover, ~Removed(p)'
        PROVE  (removal[p].id \in Gen /\ Born(removal[p].id) /\ Ousted(removal[p].id))'
    BY <2>1 DEF AdmissionInv, Removing, Removed, Ousted, Past, Born, Alive
  <2>2. ASSUME NEW p \in Remover, removal'[p].matched
        PROVE  (~Removed(p) /\ removal[p].next <= 3)'
    BY <2>2 DEF AdmissionInv, Removing, Removed
  <2>3. ASSUME NEW d \in Client, ~Removed(d)'
        PROVE  call'[d].do \in {"clean", "release"}
    BY <2>3 DEF AdmissionInv, Removing, Removed, Go
  <2> QED  BY <2>1, <2>2, <2>3 DEF Removing
<1>6. RecordHeld'
  BY DEF AdmissionInv, RecordHeld, Recorded, Untouched, Beyond
<1>7. Marked'
  BY DEF askVars, AdmissionInv, Marked, Leads, Alive
<1>8. LeftBehind'
  BY GenerationAssumption
     DEF AdmissionInv, LeftBehind, Leads, WillRemove, Placed, Shape, Admitting, Alive, Go
<1>9. CancelScope'
  BY DEF askVars, AdmissionInv, CancelScope
<1> QED  BY <1>1, <1>2, <1>3, <1>4, <1>5, <1>6, <1>7, <1>8, <1>9 DEF AdmissionInv

(* The lock names the generation that will be published. *)
LEMMA Writes ==
    ASSUME AdmissionInv, NEW c \in Client,
           call[c].do = "write",
           file' = [file EXCEPT !["lock"] = call[c].gen],
           Go(c, "publish"),
           UNCHANGED <<client, bound, under, stage, member, primary, lease, removal>>,
           UNCHANGED <<terminal, commandVars, heard, askVars, taken, alive, crashes, commands>>
    PROVE  AdmissionInv'
<1>1. Shape'
  BY DEF commandVars, askVars, AdmissionInv, Shape, GenerationTypeOK, CallOK, Calls, Contents,
         Files, Doing, Admitting, Idle, Go
<1>2. Placed'
  BY DEF AdmissionInv, Placed, Doing, Admitting, Born, Go
<1>3. Grouped'
  BY DEF AdmissionInv, Grouped, Past
<1>4. Named'
  BY DEF commandVars, askVars, AdmissionInv, Named, Placed, Admitting, Past, Born
<1>5. Removing'
  <2>1. ASSUME NEW p \in Remover, ~Removed(p)'
        PROVE  (removal[p].id \in Gen /\ Born(removal[p].id) /\ Ousted(removal[p].id))'
    BY <2>1 DEF AdmissionInv, Removing, Removed, Ousted, Past, Born, Alive
  <2>2. ASSUME NEW p \in Remover, removal'[p].matched
        PROVE  (~Removed(p) /\ removal[p].next <= 3)'
    BY <2>2 DEF AdmissionInv, Removing, Removed
  <2>3. ASSUME NEW d \in Client, ~Removed(d)'
        PROVE  call'[d].do \in {"clean", "release"}
    BY <2>3 DEF AdmissionInv, Removing, Removed, Go
  <2> QED  BY <2>1, <2>2, <2>3 DEF Removing
<1>6. RecordHeld'
  BY DEF AdmissionInv, RecordHeld, Recorded, Untouched, Beyond
<1>7. Marked'
  BY DEF askVars, AdmissionInv, Marked, Leads, Alive
<1>8. LeftBehind'
  BY GenerationAssumption
     DEF AdmissionInv, LeftBehind, Leads, WillRemove, Publishing, Placed, Shape, Calls, Doing,
         Idle, Alive, Files, Go
<1>9. CancelScope'
  BY DEF askVars, AdmissionInv, CancelScope
<1> QED  BY <1>1, <1>2, <1>3, <1>4, <1>5, <1>6, <1>7, <1>8, <1>9 DEF AdmissionInv

(* The generation publishes its record and leads a new group. *)
LEMMA Publishes ==
    ASSUME AdmissionInv, NEW c \in alive,
           call[c].do = "publish",
           file' = [file EXCEPT !["record"] = call[c].gen],
           Register(c, call[c].gen, TRUE),
           UNCHANGED removal,
           UNCHANGED <<terminal, commandVars, heard, askVars, taken, alive, crashes, commands>>
    PROVE  AdmissionInv'
<1>1. Shape'
  BY PublishesRest
<1>2. Placed'
  BY DEF AdmissionInv, Placed, Shape, GenerationTypeOK, Doing, Admitting, Born, Idle, Register
<1>3. Grouped'
  BY PublishesRest
<1>4. Named'
  BY DEF commandVars, askVars, AdmissionInv, Named, Placed, Shape, GenerationTypeOK, Calls,
         Doing, Past, Born, Idle, Register
<1>5. Removing'
  <2>1. ASSUME NEW p \in Remover, ~Removed(p)'
        PROVE  (removal[p].id \in Gen /\ Born(removal[p].id) /\ Ousted(removal[p].id))'
    BY <2>1
       DEF AdmissionInv, Removing, Removed, Ousted, Placed, Admitting, Past, Born, Alive,
           Register
  <2>2. ASSUME NEW p \in Remover, removal'[p].matched
        PROVE  (~Removed(p) /\ removal[p].next <= 3)'
    BY <2>2 DEF AdmissionInv, Removing, Removed
  <2>3. ASSUME NEW d \in Client, ~Removed(d)'
        PROVE  call'[d].do \in {"clean", "release"}
    BY <2>3 DEF AdmissionInv, Removing, Removed, Register
  <2> QED  BY <2>1, <2>2, <2>3 DEF Removing
<1>6. RecordHeld'
  BY DEF AdmissionInv, RecordHeld, Recorded, Untouched, Placed, Shape, GenerationTypeOK,
         Calls, Doing, Beyond, Idle, Files, Register
<1>7. Marked'
  <2>1. /\ Shape /\ Named /\ Marked /\ RecordHeld
        /\ call[c].gen \in Gen /\ stage[call[c].gen] = "begun" /\ c \in Client
    BY DEF AdmissionInv, Shape, GenerationTypeOK, Calls, Placed, Admitting, Idle
  <2>2. /\ \A d \in Client : d # c => primary'[d] = primary[d]
        /\ primary'[c] = call[c].gen
        /\ file'["marker"] = file["marker"]
    BY <2>1 DEF Shape, GenerationTypeOK, Register, Files
  <2>3. \A g \in asked \cup acked : g # call[c].gen
    BY <2>1 DEF Named, Past
  <2>4. \A g \in asked \cup acked : Leads(g)' => Leads(g)
    BY <2>1, <2>2, <2>3 DEF Leads, Alive, Register, Shape, GenerationTypeOK
  <2> QED  BY <2>1, <2>2, <2>4 DEF Marked, Named, askVars
<1>8. LeftBehind'
  BY GenerationAssumption
     DEF AdmissionInv, LeftBehind, Leads, Placed, Shape, GenerationTypeOK, Calls, Idle, Files,
         Register
<1>9. CancelScope'
  BY DEF askVars, AdmissionInv, CancelScope, Named, Placed, Shape, GenerationTypeOK,
         Admitting, Register
<1> QED  BY <1>1, <1>2, <1>3, <1>4, <1>5, <1>6, <1>7, <1>8, <1>9 DEF AdmissionInv

(* Every step of a call for admission is one of these. *)
LEMMA BeginKeeps ==
    ASSUME AdmissionInv, NEW c \in Client, Begin(c)
    PROVE  AdmissionInv'
<1> PICK g \in Gen \cup {None} : c \in alive /\ (call[c] # Idle => g = call[c].gen)
  BY DEF Begin, CheckRecord, CheckLock, Cleaned, CreateLock, WriteLock, Publish, At,
         AdmissionInv, Shape, Calls
<1> DEFINE settled == <<client, bound, under, stage, member, primary, lease>>
           rest == <<terminal, commandVars, heard, askVars, taken, alive, crashes, commands>>
<1>0. /\ Shape /\ Named /\ Removing /\ call[c] \in Calls
      /\ call[c].do \notin {"clean", "release"} => Removed(c)
  BY DEF AdmissionInv, Shape, Removing
<1>1. CASE CheckRecord(c)
  <2>1. call[c].do = "record" /\ Removed(c) /\ UNCHANGED <<file, rest>>
    BY <1>0, <1>1 DEF CheckRecord, At, budgetVars
  <2>2. CASE file["record"] = None /\ Go(c, "lock") /\ UNCHANGED <<settled, removal>>
    BY <2>1, <2>2, MovesOn
  <2>3. CASE file["record"] # None /\ CanJoin(c, file["record"], call[c].gen)
             /\ Register(c, call[c].gen, FALSE) /\ UNCHANGED removal
    BY <2>1, <2>3, Joins
  <2>4. CASE Refused(c) /\ UNCHANGED removal
    BY <2>1, <2>4, Refuses DEF Admitting
  <2>5. CASE /\ file["record"] # None /\ ~Alive(file["record"])
             /\ Go(c, "clean") /\ StartRemoval(c, file["record"]) /\ UNCHANGED settled
    <3>1. file["record"] \in Gen /\ Born(file["record"])
      BY <1>0, <2>5 DEF Shape, GenerationTypeOK, Named, Past, Born
    <3> QED  BY <2>1, <2>5, <3>1, CleansUp
  <2> QED  BY <1>1, <2>2, <2>3, <2>4, <2>5 DEF CheckRecord
<1>2. CASE CheckLock(c)
  <2>1. call[c].do = "lock" /\ Removed(c) /\ UNCHANGED <<file, rest>>
    BY <1>0, <1>2 DEF CheckLock, At, budgetVars
  <2>2. CASE Go(c, "create") /\ UNCHANGED <<settled, removal>>
    BY <2>1, <2>2, MovesOn
  <2>3. CASE Refused(c) /\ UNCHANGED removal
    BY <2>1, <2>3, Refuses DEF Admitting
  <2>4. CASE /\ file["lock"] \in Gen /\ ~Alive(file["lock"])
             /\ Go(c, "clean") /\ StartRemoval(c, file["lock"]) /\ UNCHANGED settled
    BY <1>0, <2>1, <2>4, CleansUp DEF Named
  <2> QED  BY <1>2, <2>2, <2>3, <2>4 DEF CheckLock
<1>3. CASE Cleaned(c)
  <2>1. call[c].do = "clean" /\ Removed(c) /\ UNCHANGED <<file, removal, rest>>
    BY <1>3 DEF Cleaned, At, budgetVars
  <2>2. CASE Go(c, "create") /\ UNCHANGED settled
    BY <2>1, <2>2, MovesOn
  <2>3. CASE Refused(c)
    BY <2>1, <2>3, Refuses DEF Admitting
  <2> QED  BY <1>3, <2>2, <2>3 DEF Cleaned
<1>4. CASE CreateLock(c)
  <2>1. call[c].do = "create" /\ Removed(c) /\ UNCHANGED <<removal, rest>>
    BY <1>0, <1>4 DEF CreateLock, At, budgetVars
  <2>2. CASE /\ file["lock"] = None /\ file' = [file EXCEPT !["lock"] = Empty]
             /\ Go(c, "write") /\ UNCHANGED settled
    BY <2>1, <2>2, Creates
  <2>3. CASE Refused(c) /\ UNCHANGED file
    BY <2>1, <2>3, Refuses DEF Admitting
  <2> QED  BY <1>4, <2>2, <2>3 DEF CreateLock
<1>5. CASE WriteLock(c)
  <2>1. call[c].do = "write" /\ Removed(c) /\ UNCHANGED <<removal, rest>>
    BY <1>0, <1>5 DEF WriteLock, At
  <2>2. CASE /\ file' = [file EXCEPT !["lock"] = call[c].gen]
             /\ Go(c, "publish") /\ UNCHANGED settled
    BY <2>1, <2>2, Writes
  <2>3. CASE file' = [file EXCEPT !["lock"] = None] /\ Refused(c)
    BY <2>1, <2>3, Refuses DEF Admitting
  <2> QED  BY <1>5, <2>2, <2>3 DEF WriteLock
<1>6. CASE Publish(c)
  <2>1. call[c].do = "publish" /\ Removed(c) /\ UNCHANGED <<removal, rest>>
    BY <1>0, <1>6 DEF Publish, At
  <2>2. CASE file' = [file EXCEPT !["record"] = call[c].gen] /\ Register(c, call[c].gen, TRUE)
    BY <2>1, <2>2, Publishes
  <2>3. CASE file' = WithoutLockOf(call[c].gen) /\ Refused(c)
    <3>1. file' = [file EXCEPT !["lock"] = None]
      BY <2>1, <2>3 DEF WithoutLockOf, AdmissionInv, LeftBehind, Shape
    <3> QED  BY <2>1, <2>3, <3>1, Refuses DEF Admitting
  <2> QED  BY <1>6, <2>2, <2>3 DEF Publish
<1> QED  BY <1>1, <1>2, <1>3, <1>4, <1>5, <1>6 DEF Begin

LEMMA MatchShape ==
    ASSUME Shape, NEW p \in Remover, MatchFile(p)
    PROVE  removal' \in [Remover -> [id : Gen \cup {None}, next : 1 .. 4, matched : BOOLEAN]]
<1>1. removal[p] \in [id : Gen \cup {None}, next : 1 .. 4, matched : BOOLEAN]
  BY DEF Shape
<1>2. Owned(p) \subseteq 1 .. 3
  BY <1>1 DEF Owned
<1>3. CASE removal' = [removal EXCEPT ![p] = NoRemoval]
  BY <1>3 DEF Shape, NoRemoval
<1>4. ASSUME NEW i \in Owned(p),
             removal' = [removal EXCEPT ![p].next = i, ![p].matched = TRUE]
      PROVE  removal' \in [Remover -> [id : Gen \cup {None}, next : 1 .. 4, matched : BOOLEAN]]
  <2>1. i \in 1 .. 4
    BY <1>2
  <2> QED  BY <1>4, <2>1 DEF Shape
<1> QED  BY <1>3, <1>4 DEF MatchFile

LEMMA MatchFileRest ==
    ASSUME AdmissionInv, NEW p \in Remover, MatchFile(p)
    PROVE  Removing' /\ LeftBehind'
<1> DEFINE r == removal[p]
<1>1. /\ Shape /\ Removing /\ LeftBehind
      /\ ~Removed(p) /\ ~removal[p].matched
      /\ UNCHANGED <<stage, alive, client, taken, primary, call, file, crashes>>
  BY DEF AdmissionInv, MatchFile, ownVars, budgetVars
<1>2. \/ /\ \A i \in r.next .. 3 : file[Order[i]] # r.id
         /\ removal' = [removal EXCEPT ![p] = NoRemoval]
      \/ \E i \in 1 .. 3 :
            /\ \A j \in r.next .. 3 : file[Order[j]] = r.id => i <= j
            /\ removal' = [removal EXCEPT ![p].next = i, ![p].matched = TRUE]
  <2>1. Owned(p) = {i \in r.next .. 3 : file[Order[i]] = r.id}
    BY DEF Owned
  <2>2. r.next \in 1 .. 4
    BY <1>1 DEF Shape
  <2>3. Owned(p) \subseteq 1 .. 3
    BY <2>1, <2>2
  <2>4. ASSUME NEW i \in Owned(p), \A j \in Owned(p) : i <= j
        PROVE  i \in 1 .. 3 /\ \A j \in r.next .. 3 : file[Order[j]] = r.id => i <= j
    BY <2>1, <2>3, <2>4
  <2>5. Owned(p) = {} => \A i \in r.next .. 3 : file[Order[i]] # r.id
    BY <2>1
  <2> QED  BY <2>4, <2>5 DEF MatchFile
<1>3. ASSUME NEW q \in Remover
      PROVE  /\ ~Removed(q)' => ~Removed(q) /\ removal'[q].id = removal[q].id
             /\ removal'[q].matched => ~Removed(q)' /\ removal'[q].next <= 3
  <2>1. CASE removal' = [removal EXCEPT ![p] = NoRemoval]
    BY <1>1, <2>1 DEF Shape, Removed, NoRemoval, Removing
  <2>2. ASSUME NEW i \in 1 .. 3, removal' = [removal EXCEPT ![p].next = i, ![p].matched = TRUE]
        PROVE  /\ ~Removed(q)' => ~Removed(q) /\ removal'[q].id = removal[q].id
               /\ removal'[q].matched => ~Removed(q)' /\ removal'[q].next <= 3
    BY <1>1, <2>2 DEF Shape, Removed, NoRemoval, Removing
  <2> QED  BY <1>2, <2>1, <2>2
<1>4. ASSUME NEW i \in Gen, NEW n \in {1, 3}, client[i] \in Client,
             file[Order[n]] = i, WillRemove(i, n)
      PROVE  WillRemove(i, n)'
  <2>1. CASE client[i] # p
    BY <1>1, <1>2, <1>4, <2>1 DEF WillRemove, Shape, Remover
  <2>2. CASE client[i] = p
    <3>1. r.id = i /\ n \in r.next .. 3
      BY <1>1, <1>4, <2>2 DEF WillRemove, Shape, Remover
    <3> QED  BY <1>1, <1>2, <1>4, <2>2, <3>1 DEF WillRemove, Shape, Remover
  <2> QED  BY <2>1, <2>2
<1>5. Removing'
  BY <1>1, <1>3 DEF Removing, Ousted, Born, Alive, Past, Remover
<1>6. LeftBehind'
  <2>1. Order[1] = "record" /\ Order[3] = "lock"
    BY DEF Order
  <2>2. file["record"] # None /\ Alive(file["record"]) => file["record"] \in Gen
    BY <1>1 DEF Shape, GenerationTypeOK
  <2>3. \A i \in Gen : Alive(i) => client[i] \in Client
    BY <1>1 DEF Shape, GenerationTypeOK, Alive
  <2>4. /\ file["record"] # None /\ Alive(file["record"])
             => (Leads(file["record"]) \/ WillRemove(file["record"], 1))'
        /\ file["lock"] \in Gen /\ Alive(file["lock"])
             => (Publishing(file["lock"]) \/ Leads(file["lock"]) \/ WillRemove(file["lock"], 3))'
    BY <1>1, <1>4, <2>1, <2>2, <2>3 DEF LeftBehind, Publishing, Leads, Alive
  <2> QED  BY <1>1, <2>4 DEF LeftBehind, Alive
<1> QED  BY <1>5, <1>6

(* What a call is about after it began, or after a release began. *)
LEMMA CallBegun ==
    ASSUME AdmissionInv, NEW g \in Gen, BeginCall(g)
    PROVE  /\ client[g] \in Client /\ call[client[g]] = Idle
           /\ \A d \in Client :
                 \/ call'[d] = call[d]
                 \/ d = client[g] /\ call'[d] = [do |-> "record", gen |-> g]
<1>1. client[g] \in Client
  BY DEF BeginCall, Alive, AdmissionInv, Shape, GenerationTypeOK
<1> QED  BY <1>1 DEF BeginCall, AdmissionInv, Shape

LEMMA BeginCallRest ==
    ASSUME AdmissionInv, NEW g \in Gen, BeginCall(g)
    PROVE  /\ GenerationTypeOK'
           /\ \A d \in Client : ~Removed(d)' => call'[d].do \in {"clean", "release"}
           /\ \A d \in Client : call'[d].do = "write" => file'["lock"] \in {Empty, None}
           /\ \A d \in Client :
                 call'[d].do = "publish" => file'["lock"] \in {call'[d].gen, None}
<1>1. /\ GenerationTypeOK /\ Removing /\ LeftBehind
      /\ UNCHANGED <<alive, client, bound, under, member, primary, file, terminal, removal,
                     sidecar, heard, asked, acked, taken>>
  BY DEF AdmissionInv, Shape, BeginCall, commandVars, askVars, budgetVars
<1>2. ASSUME NEW d \in Client
      PROVE  /\ CallOK(d)'
             /\ ~Removed(d)' => call'[d].do \in {"clean", "release"}
             /\ call'[d].do = "write" => file'["lock"] \in {Empty, None}
             /\ call'[d].do = "publish" => file'["lock"] \in {call'[d].gen, None}
  <2>1. CASE call'[d] = call[d]
    BY <1>1, <2>1 DEF GenerationTypeOK, CallOK, Removing, Removed, LeftBehind
  <2>2. CASE d = client[g] /\ call'[d] = [do |-> "record", gen |-> g]
    <3>1. call'[d].do = "record" /\ call'[d].gen = g /\ Removed(d)
      BY <1>1, <2>2, CallBegun DEF Removing, Idle
    <3> QED  BY <1>1, <2>2, <3>1 DEF CallOK, Removed
  <2> QED  BY CallBegun, <2>1, <2>2
<1>3. stage' \in [Gen -> Stages] /\ lease' \in Client \cup {None}
  BY <1>1, CallBegun DEF GenerationTypeOK, BeginCall, Stages
<1>4. GenerationTypeOK'
  BY <1>1, <1>2, <1>3 DEF GenerationTypeOK
<1> QED  BY <1>2, <1>4

LEMMA ReleaseRest ==
    ASSUME AdmissionInv, NEW g \in Gen, Release(g)
    PROVE  /\ GenerationTypeOK'
           /\ removal' \in [Remover -> [id : Gen \cup {None}, next : 1 .. 4, matched : BOOLEAN]]
           /\ \A d \in Client : call'[d].do = "write" => file'["lock"] \in {Empty, None}
<1> DEFINE c == client[g]
<1>1. /\ Shape /\ GenerationTypeOK /\ LeftBehind
      /\ stage[g] = "ended" /\ c \in Client /\ call[c] = Idle
      /\ UNCHANGED <<alive, client, bound, under, lease, file, terminal, sidecar, heard,
                     asked, acked, taken>>
      /\ member' = [member EXCEPT ![c] = @ \ {g}]
  BY DEF AdmissionInv, Shape, GenerationTypeOK, Release, Alive, commandVars, askVars, budgetVars
<1>2. CASE member[c] # {g}
  <2>1. /\ UNCHANGED <<primary, call, removal>>
        /\ stage' = [stage EXCEPT ![g] = "over"]
    BY <1>2 DEF Release
  <2>2. \A d \in Client : (member'[d] = {}) <=> (primary'[d] = None)
    BY <1>1, <1>2, <2>1 DEF GenerationTypeOK
  <2>3. stage' \in [Gen -> Stages] /\ member' \in [Client -> SUBSET Gen]
    BY <1>1, <2>1 DEF GenerationTypeOK, Stages
  <2> QED  BY <1>1, <2>1, <2>2, <2>3 DEF GenerationTypeOK, CallOK, Shape, LeftBehind
<1>3. CASE member[c] = {g}
  <2>1. /\ primary' = [primary EXCEPT ![c] = None]
        /\ call' = [call EXCEPT ![c] = [do |-> "release", gen |-> g]]
        /\ StartRemoval(c, primary[c]) /\ stage' = stage
    BY <1>3 DEF Release
  <2>2. \A d \in Client : (member'[d] = {}) <=> (primary'[d] = None)
    BY <1>1, <1>3, <2>1 DEF GenerationTypeOK
  <2>3. primary' \in [Client -> Gen \cup {None}] /\ member' \in [Client -> SUBSET Gen]
    BY <1>1, <2>1 DEF GenerationTypeOK
  <2>4. \A d \in Client : CallOK(d)'
    BY <1>1, <2>1 DEF GenerationTypeOK, CallOK, Shape
  <2>5. primary[c] \in Gen
    BY <1>1, <1>3 DEF GenerationTypeOK
  <2>6. GenerationTypeOK'
    BY <1>1, <2>1, <2>2, <2>3, <2>4 DEF GenerationTypeOK
  <2>7. \A d \in Client : call'[d].do = "write" => file'["lock"] \in {Empty, None}
    BY <1>1, <2>1 DEF LeftBehind, Shape
  <2> QED  BY <1>1, <2>1, <2>5, <2>6, <2>7, RemovalShape DEF Remover
<1> QED  BY <1>2, <1>3

LEMMA ReleaseRecorded ==
    ASSUME AdmissionInv, NEW g \in Gen, Release(g)
    PROVE  RecordHeld'
<1>1. /\ RecordHeld /\ Shape /\ GenerationTypeOK /\ client[g] \in Client
      /\ call[client[g]] = Idle
      /\ UNCHANGED <<alive, taken, file>>
  BY DEF AdmissionInv, Shape, GenerationTypeOK, Release, Alive, budgetVars
<1>2. \A d \in Client : primary'[d] \in {primary[d], None}
  BY <1>1 DEF Release, GenerationTypeOK
<1>3. \A d \in Client : \/ call'[d] = call[d]
                        \/ call'[d].do = "release"
  BY <1>1 DEF Release, Shape
<1> QED  BY <1>1, <1>2, <1>3 DEF RecordHeld, Recorded, Untouched, Beyond, GenerationTypeOK

LEMMA CancelCheckRest ==
    ASSUME AdmissionInv, CancelCheck
    PROVE  removal' \in [Remover -> [id : Gen \cup {None}, next : 1 .. 4, matched : BOOLEAN]]
<1>1. Shape /\ asking.gen \in Gen
  BY DEF AdmissionInv, Shape, CancelCheck, Asks, Idle
<1> QED  BY <1>1, RemovalShape DEF CancelCheck, Shape, Remover, Commands

LEMMA StopAskRest ==
    ASSUME AdmissionInv, StopAsk
    PROVE  /\ GenerationTypeOK'
           /\ removal' \in [Remover -> [id : Gen \cup {None}, next : 1 .. 4, matched : BOOLEAN]]
<1> DEFINE g == file["record"]
<1>1. /\ Shape /\ GenerationTypeOK /\ file \in [Files -> Contents]
      /\ UNCHANGED <<alive, client, bound, under, stage, member, primary, call, lease, terminal,
                     sidecar, heard, taken>>
  BY DEF AdmissionInv, Shape, StopAsk, ownVars
<1>2. \/ UNCHANGED <<file, removal, asked, acked>>
      \/ g \in Gen /\ Mark(g) /\ UNCHANGED <<removal, acked>>
      \/ g \in Gen /\ StartRemoval("stop", g) /\ UNCHANGED <<file, asked, acked>>
  BY DEF StopAsk, askVars
<1>3. \A d \in Client : CallOK(d)'
  BY <1>1 DEF GenerationTypeOK, CallOK
<1>4. /\ file'["record"] \in Gen \cup {None} /\ file'["marker"] \in Gen \cup {None}
      /\ file'["lock"] \in Gen \cup {None, Empty}
      /\ asked' \subseteq Gen /\ acked' \subseteq Gen
  BY <1>1, <1>2 DEF GenerationTypeOK, Mark, Files
<1>5. GenerationTypeOK'
  BY <1>1, <1>3, <1>4 DEF GenerationTypeOK
<1> QED  BY <1>1, <1>2, <1>5, RemovalShape DEF Shape, Remover, Commands

(* Most steps of the two commands touch no file and nothing of a client. *)
LEMMA CommandKeeps ==
    ASSUME AdmissionInv,
           UNCHANGED <<ownVars, file, removal, heard, asked, last, taken, alive, crashes>>,
           sidecar' \in Side \cup {None}, terminal' \subseteq Gen,
           asking' \in Asks /\ (asking' # Idle => Past(asking'.gen)),
           stopping' \in Stops, stopping' # Idle /\ stopping'.gen # None => Past(stopping'.gen),
           stopping'.do \in {"wait", "clean", "forget"} => stopping'.gen # None,
           \/ acked' = acked
           \/ \E i \in Gen : acked' = acked \cup {i} /\ Past(i) /\ file["record"] # i
    PROVE  AdmissionInv'
<1>1. Shape'
  <2>1. acked' \subseteq Gen
    BY DEF AdmissionInv, Shape, GenerationTypeOK
  <2> QED  BY <2>1 DEF AdmissionInv, Shape, GenerationTypeOK, CallOK, ownVars
<1>2. Placed' /\ Grouped'
  BY DEF AdmissionInv, Placed, Grouped, Born, Past, ownVars
<1>3. Named'
  BY DEF AdmissionInv, Named, Born, Past, ownVars
<1>4. Removing'
  BY DEF AdmissionInv, Removing, Removed, Ousted, Born, Past, Alive, ownVars
<1>5. RecordHeld'
  BY DEF AdmissionInv, RecordHeld, Recorded, Untouched, ownVars
<1>6. Marked'
  <2>1. \A g \in Gen : Leads(g)' <=> Leads(g)
    BY DEF Leads, Alive, ownVars
  <2>2. \A g \in Gen : Leads(g) /\ file["record"] # g => g \in taken
    BY GenerationAssumption
       DEF AdmissionInv, Shape, GenerationTypeOK, RecordHeld, Recorded, Leads, Alive
  <2>3. (\A g \in acked : Leads(g) => g \in taken)'
    BY <2>1, <2>2 DEF AdmissionInv, Shape, GenerationTypeOK, Marked
  <2> QED  BY <2>1, <2>3, GenerationAssumption DEF AdmissionInv, Shape, Marked
<1>7. LeftBehind'
  BY DEF AdmissionInv, LeftBehind, Leads, WillRemove, Publishing, Alive, ownVars
<1>8. CancelScope'
  BY DEF AdmissionInv, CancelScope, ownVars
<1> QED  BY <1>1, <1>2, <1>3, <1>4, <1>5, <1>6, <1>7, <1>8 DEF AdmissionInv

(* The shape of the two commands in the middle of their work. *)
LEMMA CommandAt ==
    ASSUME AdmissionInv
    PROVE  /\ asking \in Asks /\ stopping \in Stops
           /\ asking # Idle => asking.gen \in Gen /\ Past(asking.gen)
           /\ stopping # Idle => stopping.gen \in Gen \cup {None}
           /\ stopping # Idle /\ stopping.gen # None => Past(stopping.gen)
           /\ stopping.do \in {"wait", "clean", "forget"}
                => stopping.gen \in Gen /\ stopping.gen # None
           /\ sidecar \in Side \cup {None} /\ terminal \subseteq Gen
           /\ file["record"] # None => file["record"] \in Gen /\ Past(file["record"])
BY GenerationAssumption DEF AdmissionInv, Shape, GenerationTypeOK, Asks, Stops, Named, Idle

(* A command goes on with the generation it is about. *)
LEMMA CommandGoes ==
    ASSUME NEW steps, NEW ids, NEW step \in steps, NEW command \in [do : steps, gen : ids]
    PROVE  /\ [command EXCEPT !.do = step] \in [do : steps, gen : ids]
           /\ [command EXCEPT !.do = step].gen = command.gen
           /\ [command EXCEPT !.do = step].do = step
OBVIOUS

LEMMA CancelSteps ==
    ASSUME AdmissionInv,
           CancelRead \/ CancelCleaned \/ CancelHeard \/ CancelAcknowledged \/ CancelTimeout
    PROVE  AdmissionInv'
<1>1. CASE CancelRead
  <2>1. asking' \in Asks /\ (asking' # Idle => Past(asking'.gen))
    BY <1>1, CommandAt DEF CancelRead, Asks
  <2> QED  BY <1>1, <2>1, CommandAt, CommandKeeps DEF CancelRead, askVars
<1>2. CASE CancelCleaned \/ CancelTimeout
  <2>1. asking' = Idle /\ Idle \in Asks
    BY <1>2 DEF CancelCleaned, CancelTimeout, Asks
  <2> QED
    BY <1>2, <2>1, CommandAt, CommandKeeps DEF CancelCleaned, CancelTimeout, askVars, budgetVars
<1>3. CASE CancelHeard
  <2>1. asking' \in Asks /\ asking'.gen = asking.gen /\ asking # Idle
    <3>1. asking # Idle /\ asking \in [do : {"check", "clean", "terminal", "group"}, gen : Gen]
      BY <1>3, CommandAt DEF CancelHeard, Asks, Idle
    <3> QED  BY <1>3, <3>1, CommandGoes DEF CancelHeard, Asks
  <2> QED  BY <1>3, <2>1, CommandAt, CommandKeeps DEF CancelHeard, askVars, budgetVars
<1>4. CASE CancelAcknowledged
  <2>1. asking.gen \in Gen /\ Past(asking.gen) /\ file["record"] # asking.gen
    BY <1>4, CommandAt DEF CancelAcknowledged, Idle
  <2>2. asking' = Idle /\ Idle \in Asks /\ terminal' \subseteq Gen
    BY <1>4, CommandAt DEF CancelAcknowledged, Asks
  <2> QED  BY <1>4, <2>1, <2>2, CommandAt, CommandKeeps DEF CancelAcknowledged, budgetVars
<1> QED  BY <1>1, <1>2, <1>3, <1>4

LEMMA StopSteps ==
    ASSUME AdmissionInv,
           StopTimeout \/ StopCleaned \/ StopKill \/ \E s \in Side : Restart(s)
    PROVE  AdmissionInv'
<1>1. CASE StopTimeout \/ StopCleaned
  <2>1. stopping # Idle /\ stopping' = [stopping EXCEPT !.do = "kill"]
    BY <1>1 DEF StopTimeout, StopCleaned, Idle
  <2>2. stopping' \in Stops /\ stopping'.gen = stopping.gen /\ stopping'.do = "kill"
    <3>1. stopping \in [do : {"kill", "wait", "clean", "forget"}, gen : Gen \cup {None}]
      BY <2>1, CommandAt DEF Stops
    <3> QED  BY <2>1, <3>1, CommandGoes DEF Stops
  <2>3. terminal' \subseteq Gen
    BY <1>1, CommandAt DEF StopTimeout, StopCleaned
  <2> QED
    BY <1>1, <2>1, <2>2, <2>3, CommandAt, CommandKeeps
       DEF StopTimeout, StopCleaned, askVars, budgetVars
<1>2. CASE StopKill
  <2>1. stopping' = Idle /\ Idle \in Stops /\ Idle.do = "idle"
    BY <1>2 DEF StopKill, Stops, Idle
  <2> QED  BY <1>2, <2>1, CommandAt, CommandKeeps DEF StopKill, askVars, budgetVars
<1>3. CASE \E s \in Side : Restart(s)
  <2> QED  BY <1>3, CommandAt, CommandKeeps DEF Restart, askVars, budgetVars
<1> QED  BY <1>1, <1>2, <1>3

(* The steps of a removal: the id of a file is read ... *)
LEMMA MatchFileKeeps ==
    ASSUME AdmissionInv, NEW p \in Remover, MatchFile(p)
    PROVE  AdmissionInv'
<1>1. Shape'
  <2>1. GenerationTypeOK'
    BY DEF ownVars, commandVars, askVars, budgetVars, AdmissionInv, Shape, GenerationTypeOK,
           CallOK, MatchFile
  <2>2. call' \in [Client -> Calls]
    BY DEF ownVars, AdmissionInv, Shape, MatchFile
  <2>3. asking' \in Asks /\ stopping' \in Stops
    BY DEF commandVars, AdmissionInv, Shape, MatchFile
  <2>4. file' \in [Files -> Contents] /\ last' \in Gen \cup {None}
    BY DEF askVars, AdmissionInv, Shape, MatchFile
  <2>5. removal' \in [Remover -> [id : Gen \cup {None}, next : 1 .. 4, matched : BOOLEAN]]
    BY MatchShape DEF AdmissionInv
  <2>6. crashes' \in Nat
    BY DEF budgetVars, AdmissionInv, Shape, MatchFile
  <2> QED  BY <2>1, <2>2, <2>3, <2>4, <2>5, <2>6 DEF Shape
<1>2. Placed'
  BY DEF ownVars, AdmissionInv, Placed, Born, MatchFile
<1>3. Grouped'
  BY DEF ownVars, AdmissionInv, Grouped, Past, MatchFile
<1>4. Named'
  BY DEF ownVars, commandVars, askVars, AdmissionInv, Named, Past, Born, MatchFile
<1>5. Removing'
  BY MatchFileRest
<1>6. RecordHeld'
  BY DEF ownVars, budgetVars, AdmissionInv, RecordHeld, Recorded, Untouched, MatchFile
<1>7. Marked'
  BY DEF ownVars, askVars, budgetVars, AdmissionInv, Marked, Leads, Alive, MatchFile
<1>8. LeftBehind'
  BY MatchFileRest
<1>9. CancelScope'
  BY DEF ownVars, askVars, AdmissionInv, CancelScope, MatchFile
<1> QED  BY <1>1, <1>2, <1>3, <1>4, <1>5, <1>6, <1>7, <1>8, <1>9 DEF AdmissionInv

(* ... and the path deleted. *)
LEMMA DeleteFileKeeps ==
    ASSUME AdmissionInv, NEW p \in Remover, DeleteFile(p)
    PROVE  AdmissionInv'
<1>1. Shape'
  BY DEF AdmissionInv, Shape, DeleteFile
<1>2. Placed'
  BY DEF AdmissionInv, Shape, DeleteFile
<1>3. Grouped'
  BY DEF AdmissionInv, Shape, DeleteFile
<1>4. Named'
  BY DEF AdmissionInv, Shape, DeleteFile
<1>5. Removing'
  <2>1. ASSUME NEW q \in Remover, ~Removed(q)'
        PROVE  (removal[q].id \in Gen /\ Born(removal[q].id) /\ Ousted(removal[q].id))'
    BY <2>1 DEF AdmissionInv, Shape, DeleteFile
  <2>2. ASSUME NEW q \in Remover, removal'[q].matched
        PROVE  (~Removed(q) /\ removal[q].next <= 3)'
    BY <2>2 DEF AdmissionInv, Shape, DeleteFile
  <2>3. ASSUME NEW d \in Client, ~Removed(d)'
        PROVE  call'[d].do \in {"clean", "release"}
    BY <2>3 DEF AdmissionInv, Shape, DeleteFile
  <2> QED  BY <2>1, <2>2, <2>3 DEF Removing
<1>6. RecordHeld'
  BY DEF AdmissionInv, Shape, DeleteFile
<1>7. Marked'
  BY DEF AdmissionInv, Shape, DeleteFile
<1>8. LeftBehind'
  <2>1. file'["record"] # None /\ Alive(file["record"])'
         => (Leads(file["record"]) \/ WillRemove(file["record"], 1))'
    BY DEF AdmissionInv, Shape, Order, DeleteFile
  <2>2. file'["lock"] \in Gen /\ Alive(file["lock"])'
         => (Publishing(file["lock"]) \/ Leads(file["lock"]) \/ WillRemove(file["lock"], 3))'
    BY DEF AdmissionInv, Shape, DeleteFile
  <2>3. file'["lock"] = Empty
         => crashes' > 0 \/ \E c \in alive' : call'[c].do = "write"
    BY GenerationAssumption DEF ownVars, budgetVars, AdmissionInv, LeftBehind, DeleteFile
  <2>4. \A c \in Client : call'[c].do = "write" => file'["lock"] \in {Empty, None}
    BY DEF ownVars, AdmissionInv, LeftBehind, DeleteFile
  <2>5. \A c \in Client : call'[c].do = "publish" => file'["lock"] \in {call'[c].gen, None}
    BY DEF ownVars, AdmissionInv, LeftBehind, DeleteFile
  <2> QED  BY <2>1, <2>2, <2>3, <2>4, <2>5 DEF LeftBehind
<1>9. CancelScope'
  BY DEF ownVars, askVars, AdmissionInv, CancelScope, DeleteFile
<1> QED  BY <1>1, <1>2, <1>3, <1>4, <1>5, <1>6, <1>7, <1>8, <1>9 DEF AdmissionInv

(* The steps of a request, outside the calls of its admission. *)
LEMMA ReadyKeeps ==
    ASSUME AdmissionInv, NEW c \in Client, NEW g \in Gen, Ready(c, g)
    PROVE  AdmissionInv'
<1>1. Shape'
  <2>1. GenerationTypeOK'
    BY DEF commandVars, askVars, budgetVars, AdmissionInv, Shape, GenerationTypeOK, CallOK,
           Calls, Doing, Stages, Placed, Ready
  <2>2. call' \in [Client -> Calls]
    BY DEF AdmissionInv, Shape, Ready
  <2>3. asking' \in Asks /\ stopping' \in Stops
    BY DEF commandVars, AdmissionInv, Shape, Ready
  <2>4. file' \in [Files -> Contents] /\ last' \in Gen \cup {None}
    BY DEF askVars, AdmissionInv, Shape, Ready
  <2>5. removal' \in [Remover -> [id : Gen \cup {None}, next : 1 .. 4, matched : BOOLEAN]]
    BY DEF AdmissionInv, Shape, Ready
  <2>6. crashes' \in Nat
    BY DEF budgetVars, AdmissionInv, Shape, Ready
  <2> QED  BY <2>1, <2>2, <2>3, <2>4, <2>5, <2>6 DEF Shape
<1>2. Placed'
  BY DEF AdmissionInv, Placed, Shape, GenerationTypeOK, Born, Ready
<1>3. Grouped'
  BY DEF AdmissionInv, Grouped, Placed, Past, Born, Ready
<1>4. Named'
  BY DEF commandVars, askVars, AdmissionInv, Named, Past, Born, Ready
<1>5. Removing'
  <2>1. ASSUME NEW p \in Remover, ~Removed(p)'
        PROVE  (removal[p].id \in Gen /\ Born(removal[p].id) /\ Ousted(removal[p].id))'
    BY <2>1 DEF budgetVars, AdmissionInv, Removing, Removed, Ousted, Past, Born, Alive, Ready
  <2>2. ASSUME NEW p \in Remover, removal'[p].matched
        PROVE  (~Removed(p) /\ removal[p].next <= 3)'
    BY <2>2 DEF AdmissionInv, Removing, Removed, Ready
  <2>3. ASSUME NEW d \in Client, ~Removed(d)'
        PROVE  call'[d].do \in {"clean", "release"}
    BY <2>3 DEF AdmissionInv, Removing, Removed, Ready
  <2> QED  BY <2>1, <2>2, <2>3 DEF Removing
<1>6. RecordHeld'
  BY DEF budgetVars, AdmissionInv, RecordHeld, Recorded, Untouched, Ready
<1>7. Marked'
  BY GenerationAssumption
     DEF askVars, budgetVars, AdmissionInv, Marked, Leads, Grouped, Alive, Ready
<1>8. LeftBehind'
  BY DEF budgetVars, AdmissionInv, LeftBehind, Leads, WillRemove, Publishing, Named, Past,
         Born, Alive, Ready
<1>9. CancelScope'
  BY DEF askVars, AdmissionInv, CancelScope, Named, Past, Ready
<1> QED  BY <1>1, <1>2, <1>3, <1>4, <1>5, <1>6, <1>7, <1>8, <1>9 DEF AdmissionInv

LEMMA BeginCallKeeps ==
    ASSUME AdmissionInv, NEW g \in Gen, BeginCall(g)
    PROVE  AdmissionInv'
<1>1. Shape'
  <2>1. GenerationTypeOK'
    BY BeginCallRest
  <2>2. call' \in [Client -> Calls]
    BY DEF AdmissionInv, Shape, Calls, Doing, Admitting, BeginCall
  <2>3. asking' \in Asks /\ stopping' \in Stops
    BY DEF commandVars, AdmissionInv, Shape, BeginCall
  <2>4. file' \in [Files -> Contents] /\ last' \in Gen \cup {None}
    BY DEF askVars, AdmissionInv, Shape, BeginCall
  <2>5. removal' \in [Remover -> [id : Gen \cup {None}, next : 1 .. 4, matched : BOOLEAN]]
    BY DEF AdmissionInv, Shape, BeginCall
  <2>6. crashes' \in Nat
    BY DEF budgetVars, AdmissionInv, Shape, BeginCall
  <2> QED  BY <2>1, <2>2, <2>3, <2>4, <2>5, <2>6 DEF Shape
<1>2. Placed'
  BY GenerationAssumption
     DEF AdmissionInv, Placed, Shape, GenerationTypeOK, Calls, Admitting, Born, Idle, Alive,
         BeginCall
<1>3. Grouped'
  BY DEF AdmissionInv, Grouped, Shape, GenerationTypeOK, Past, BeginCall
<1>4. Named'
  BY GenerationAssumption
     DEF commandVars, askVars, AdmissionInv, Named, Shape, GenerationTypeOK, Asks, Stops,
         Doing, Past, Born, BeginCall
<1>5. Removing'
  <2>1. ASSUME NEW p \in Remover, ~Removed(p)'
        PROVE  (removal[p].id \in Gen /\ Born(removal[p].id) /\ Ousted(removal[p].id))'
    BY <2>1
       DEF budgetVars, AdmissionInv, Removing, Shape, GenerationTypeOK, Removed, Ousted, Past,
           Born, Alive, BeginCall
  <2>2. ASSUME NEW p \in Remover, removal'[p].matched
        PROVE  (~Removed(p) /\ removal[p].next <= 3)'
    BY <2>2 DEF AdmissionInv, Removing, Removed, BeginCall
  <2>3. ASSUME NEW d \in Client, ~Removed(d)'
        PROVE  call'[d].do \in {"clean", "release"}
    BY <2>3, BeginCallRest
  <2> QED  BY <2>1, <2>2, <2>3 DEF Removing
<1>6. RecordHeld'
  BY DEF budgetVars, AdmissionInv, RecordHeld, Recorded, Untouched, Shape, Beyond, BeginCall
<1>7. Marked'
  BY DEF askVars, budgetVars, AdmissionInv, Marked, Leads, Alive, BeginCall
<1>8. LeftBehind'
  <2>1. file'["record"] # None /\ Alive(file["record"])'
         => (Leads(file["record"]) \/ WillRemove(file["record"], 1))'
    BY DEF budgetVars, AdmissionInv, LeftBehind, Leads, WillRemove, Alive, BeginCall
  <2>2. file'["lock"] \in Gen /\ Alive(file["lock"])'
         => (Publishing(file["lock"]) \/ Leads(file["lock"]) \/ WillRemove(file["lock"], 3))'
    BY GenerationAssumption
       DEF budgetVars, AdmissionInv, LeftBehind, Leads, WillRemove, Publishing, Named, Placed,
           Admitting, Alive, BeginCall
  <2>3. file'["lock"] = Empty
         => crashes' > 0 \/ \E c \in alive' : call'[c].do = "write"
    BY GenerationAssumption
       DEF budgetVars, AdmissionInv, LeftBehind, Placed, Shape, GenerationTypeOK, Admitting,
           BeginCall
  <2>4. \A c \in Client : call'[c].do = "write" => file'["lock"] \in {Empty, None}
    BY BeginCallRest
  <2>5. \A c \in Client : call'[c].do = "publish" => file'["lock"] \in {call'[c].gen, None}
    BY BeginCallRest
  <2> QED  BY <2>1, <2>2, <2>3, <2>4, <2>5 DEF LeftBehind
<1>9. CancelScope'
  BY DEF askVars, AdmissionInv, CancelScope, BeginCall
<1> QED  BY <1>1, <1>2, <1>3, <1>4, <1>5, <1>6, <1>7, <1>8, <1>9 DEF AdmissionInv

LEMMA EndStreamKeeps ==
    ASSUME AdmissionInv, NEW g \in Gen, EndStream(g)
    PROVE  AdmissionInv'
<1>1. Shape'
  BY DEF commandVars, askVars, budgetVars, AdmissionInv, Shape, GenerationTypeOK, CallOK,
         Stages, EndStream
<1>2. Placed'
  BY DEF AdmissionInv, Placed, Born, EndStream
<1>3. Grouped'
  BY DEF AdmissionInv, Grouped, Past, EndStream
<1>4. Named'
  BY DEF commandVars, askVars, AdmissionInv, Named, Shape, GenerationTypeOK, Past, Born,
         EndStream
<1>5. Removing'
  <2>1. ASSUME NEW p \in Remover, ~Removed(p)'
        PROVE  (removal[p].id \in Gen /\ Born(removal[p].id) /\ Ousted(removal[p].id))'
    BY <2>1
       DEF budgetVars, AdmissionInv, Removing, Shape, GenerationTypeOK, Removed, Ousted, Past,
           Born, Alive, EndStream
  <2>2. ASSUME NEW p \in Remover, removal'[p].matched
        PROVE  (~Removed(p) /\ removal[p].next <= 3)'
    BY <2>2 DEF AdmissionInv, Removing, Removed, EndStream
  <2>3. ASSUME NEW d \in Client, ~Removed(d)'
        PROVE  call'[d].do \in {"clean", "release"}
    BY <2>3 DEF AdmissionInv, Removing, Removed, EndStream
  <2> QED  BY <2>1, <2>2, <2>3 DEF Removing
<1>6. RecordHeld'
  BY DEF budgetVars, AdmissionInv, RecordHeld, Recorded, Untouched, EndStream
<1>7. Marked'
  BY DEF askVars, budgetVars, AdmissionInv, Marked, Leads, Alive, EndStream
<1>8. LeftBehind'
  BY DEF budgetVars, AdmissionInv, LeftBehind, Leads, WillRemove, Publishing, Alive, EndStream
<1>9. CancelScope'
  BY GenerationAssumption
     DEF askVars, AdmissionInv, CancelScope, Named, Grouped, Placed, Born, CancelRequested,
         EndStream
<1> QED  BY <1>1, <1>2, <1>3, <1>4, <1>5, <1>6, <1>7, <1>8, <1>9 DEF AdmissionInv

LEMMA ReleaseKeeps ==
    ASSUME AdmissionInv, NEW g \in Gen, Release(g)
    PROVE  AdmissionInv'
<1>1. Shape'
  <2>1. GenerationTypeOK'
    BY ReleaseRest
  <2>2. call' \in [Client -> Calls]
    BY DEF AdmissionInv, Shape, Calls, Doing, Release
  <2>3. asking' \in Asks /\ stopping' \in Stops
    BY DEF commandVars, AdmissionInv, Shape, Release
  <2>4. file' \in [Files -> Contents] /\ last' \in Gen \cup {None}
    BY DEF askVars, AdmissionInv, Shape, Release
  <2>5. removal' \in [Remover -> [id : Gen \cup {None}, next : 1 .. 4, matched : BOOLEAN]]
    BY ReleaseRest
  <2>6. crashes' \in Nat
    BY DEF budgetVars, AdmissionInv, Shape, Release
  <2> QED  BY <2>1, <2>2, <2>3, <2>4, <2>5, <2>6 DEF Shape
<1>2. Placed'
  <2>1. /\ client[g] \in Client /\ call[client[g]] = Idle /\ stage[g] = "ended"
        /\ UNCHANGED <<client, lease>>
    BY DEF AdmissionInv, Shape, GenerationTypeOK, Release, Alive
  <2>2. \A h \in Gen : h # g => stage'[h] = stage[h]
    BY <2>1 DEF AdmissionInv, Shape, GenerationTypeOK, Release
  <2>8. \A h \in Gen : h # g /\ h \in member[client[h]] => h \in member'[client[h]]
    BY <2>1 DEF AdmissionInv, Shape, GenerationTypeOK, Release
  <2>3. stage'[g] \in {"ended", "over"}
    BY <2>1 DEF AdmissionInv, Shape, GenerationTypeOK, Release
  <2>4. \A d \in Client :
           \/ call'[d] = call[d] /\ call[d] \in Calls /\ (d = client[g] => call[d] = Idle)
           \/ call'[d] = [do |-> "release", gen |-> g] /\ d = client[g] /\ stage'[g] = "ended"
    BY <2>1 DEF AdmissionInv, Shape, Release
  <2>5. \A h \in Gen : Born(h)' <=> Born(h)
    BY <2>1, <2>2, <2>3 DEF Born
  <2>6. \A d \in Client : call[d].do \in Doing => call[d].gen \in Gen
    BY DEF AdmissionInv, Shape, Calls, Doing, Admitting, Idle
  <2>7. \A d \in Client : call[d].do = "release" /\ call[d].gen = g => d = client[g]
    BY DEF AdmissionInv, Placed, Doing
  <2> QED
    BY <2>1, <2>2, <2>3, <2>4, <2>5, <2>6, <2>7, <2>8
       DEF AdmissionInv, Placed, Doing, Admitting, Idle
<1>3. Grouped'
  BY DEF AdmissionInv, Grouped, Shape, GenerationTypeOK, Past, Release
<1>4. Named'
  BY DEF commandVars, askVars, AdmissionInv, Named, Shape, GenerationTypeOK, Asks, Stops,
         Past, Born, Release
<1>5. Removing'
  <2>1. ASSUME NEW p \in Remover, ~Removed(p)'
        PROVE  (removal[p].id \in Gen /\ Born(removal[p].id) /\ Ousted(removal[p].id))'
    BY <2>1, GenerationAssumption
       DEF commandVars, askVars, budgetVars, AdmissionInv, Removing, Shape, GenerationTypeOK,
           Removed, NoRemoval, Removal, Remover, Commands, Ousted, Placed, Grouped, Named,
           Asks, Stops, Files, Doing, Admitting, Past, Born, Idle, Alive, StartRemoval,
           Release
  <2>2. ASSUME NEW p \in Remover, removal'[p].matched
        PROVE  (~Removed(p) /\ removal[p].next <= 3)'
    BY <2>2 DEF AdmissionInv, Removing, Shape, Removed, Removal, Commands, StartRemoval, Release
  <2>3. ASSUME NEW d \in Client, ~Removed(d)'
        PROVE  call'[d].do \in {"clean", "release"}
    BY <2>3 DEF AdmissionInv, Removing, Shape, Removed, Remover, StartRemoval, Release
  <2> QED  BY <2>1, <2>2, <2>3 DEF Removing
<1>6. RecordHeld'
  BY ReleaseRecorded
<1>7. Marked'
  BY GenerationAssumption
     DEF askVars, budgetVars, AdmissionInv, Marked, Leads, Shape, GenerationTypeOK, Alive,
         Release
<1>8. LeftBehind'
  <2>1. file'["record"] # None /\ Alive(file["record"])'
         => (Leads(file["record"]) \/ WillRemove(file["record"], 1))'
    BY DEF budgetVars, AdmissionInv, LeftBehind, Leads, WillRemove, Removing, Shape,
           GenerationTypeOK, Idle, Alive, Removed, NoRemoval, Removal, Remover, StartRemoval,
           Release
  <2>2. file'["lock"] \in Gen /\ Alive(file["lock"])'
         => (Publishing(file["lock"]) \/ Leads(file["lock"]) \/ WillRemove(file["lock"], 3))'
    BY DEF commandVars, budgetVars, AdmissionInv, LeftBehind, Leads, WillRemove, Publishing,
           Removing, Shape, GenerationTypeOK, Idle, Alive, Removed, NoRemoval, Removal,
           Remover, StartRemoval, Release
  <2>3. file'["lock"] = Empty
         => crashes' > 0 \/ \E c \in alive' : call'[c].do = "write"
    BY DEF budgetVars, AdmissionInv, LeftBehind, Shape, GenerationTypeOK, Idle, Release
  <2>4. \A c \in Client : call'[c].do = "write" => file'["lock"] \in {Empty, None}
    BY ReleaseRest
  <2>5. \A c \in Client : call'[c].do = "publish" => file'["lock"] \in {call'[c].gen, None}
    BY DEF AdmissionInv, LeftBehind, Shape, StartRemoval, Release
  <2> QED  BY <2>1, <2>2, <2>3, <2>4, <2>5 DEF LeftBehind
<1>9. CancelScope'
  BY DEF askVars, AdmissionInv, CancelScope, Release
<1> QED  BY <1>1, <1>2, <1>3, <1>4, <1>5, <1>6, <1>7, <1>8, <1>9 DEF AdmissionInv

LEMMA ReleaseDoneKeeps ==
    ASSUME AdmissionInv, NEW c \in Client, ReleaseDone(c)
    PROVE  AdmissionInv'
<1>1. Shape'
  BY DEF commandVars, askVars, budgetVars, AdmissionInv, Shape, GenerationTypeOK, CallOK,
         Calls, Stages, At, ReleaseDone
<1>2. Placed'
  BY DEF AdmissionInv, Placed, Shape, Doing, Admitting, Born, Idle, At, ReleaseDone
<1>3. Grouped'
  BY DEF AdmissionInv, Grouped, Past, ReleaseDone
<1>4. Named'
  BY DEF commandVars, askVars, AdmissionInv, Named, Past, Born, ReleaseDone
<1>5. Removing'
  <2>1. ASSUME NEW p \in Remover, ~Removed(p)'
        PROVE  (removal[p].id \in Gen /\ Born(removal[p].id) /\ Ousted(removal[p].id))'
    BY <2>1
       DEF budgetVars, AdmissionInv, Removing, Removed, Ousted, Past, Born, Alive, ReleaseDone
  <2>2. ASSUME NEW p \in Remover, removal'[p].matched
        PROVE  (~Removed(p) /\ removal[p].next <= 3)'
    BY <2>2 DEF AdmissionInv, Removing, Removed, ReleaseDone
  <2>3. ASSUME NEW d \in Client, ~Removed(d)'
        PROVE  call'[d].do \in {"clean", "release"}
    BY <2>3 DEF AdmissionInv, Removing, Removed, ReleaseDone
  <2> QED  BY <2>1, <2>2, <2>3 DEF Removing
<1>6. RecordHeld'
  BY DEF budgetVars, AdmissionInv, RecordHeld, Recorded, Untouched, Beyond, Idle, ReleaseDone
<1>7. Marked'
  BY DEF askVars, budgetVars, AdmissionInv, Marked, Leads, Alive, ReleaseDone
<1>8. LeftBehind'
  BY DEF budgetVars, AdmissionInv, LeftBehind, Leads, WillRemove, Publishing, Idle, Alive, At,
         ReleaseDone
<1>9. CancelScope'
  BY DEF askVars, AdmissionInv, CancelScope, ReleaseDone
<1> QED  BY <1>1, <1>2, <1>3, <1>4, <1>5, <1>6, <1>7, <1>8, <1>9 DEF AdmissionInv

LEMMA CrashKeeps ==
    ASSUME AdmissionInv, NEW c \in Client, Crash(c)
    PROVE  AdmissionInv'
<1>1. Shape'
  BY DEF commandVars, askVars, AdmissionInv, Shape, GenerationTypeOK, CallOK, Calls, Remover,
         NoRemoval, Crash
<1>2. Placed'
  BY DEF AdmissionInv, Placed, Shape, Doing, Admitting, Born, Idle, Crash
<1>3. Grouped'
  BY DEF AdmissionInv, Grouped, Past, Crash
<1>4. Named'
  BY DEF commandVars, askVars, AdmissionInv, Named, Past, Born, Crash
<1>5. Removing'
  <2>1. ASSUME NEW p \in Remover, ~Removed(p)'
        PROVE  (removal[p].id \in Gen /\ Born(removal[p].id) /\ Ousted(removal[p].id))'
    BY <2>1 DEF AdmissionInv, Removing, Removed, Remover, Ousted, Past, Born, Alive, Crash
  <2>2. ASSUME NEW p \in Remover, removal'[p].matched
        PROVE  (~Removed(p) /\ removal[p].next <= 3)'
    BY <2>2 DEF AdmissionInv, Removing, Removed, NoRemoval, Crash
  <2>3. ASSUME NEW d \in Client, ~Removed(d)'
        PROVE  call'[d].do \in {"clean", "release"}
    BY <2>3 DEF AdmissionInv, Removing, Shape, Removed, Remover, Crash
  <2> QED  BY <2>1, <2>2, <2>3 DEF Removing
<1>6. RecordHeld'
  BY DEF AdmissionInv, RecordHeld, Recorded, Untouched, Beyond, Idle, Crash
<1>7. Marked'
  BY DEF askVars, AdmissionInv, Marked, Leads, Alive, Crash
<1>8. LeftBehind'
  BY DEF AdmissionInv, LeftBehind, Leads, WillRemove, Publishing, Shape, Idle, Alive, Crash
<1>9. CancelScope'
  BY DEF askVars, AdmissionInv, CancelScope, Crash
<1> QED  BY <1>1, <1>2, <1>3, <1>4, <1>5, <1>6, <1>7, <1>8, <1>9 DEF AdmissionInv

LEMMA CancelCheckKeeps ==
    ASSUME AdmissionInv, CancelCheck
    PROVE  AdmissionInv'
<1>1. Shape'
  <2>1. GenerationTypeOK'
    BY DEF ownVars, askVars, budgetVars, AdmissionInv, Shape, GenerationTypeOK, CallOK, Asks,
           Files, Idle, Grouped, Mark, CancelCheck
  <2>2. call' \in [Client -> Calls]
    BY DEF ownVars, AdmissionInv, Shape, CancelCheck
  <2>3. asking' \in Asks /\ stopping' \in Stops
    BY DEF AdmissionInv, Shape, Asks, Idle, CancelCheck
  <2>4. file' \in [Files -> Contents] /\ last' \in Gen \cup {None}
    BY DEF askVars, AdmissionInv, Shape, Asks, Contents, Idle, Mark, CancelCheck
  <2>5. removal' \in [Remover -> [id : Gen \cup {None}, next : 1 .. 4, matched : BOOLEAN]]
    BY CancelCheckRest
  <2>6. crashes' \in Nat
    BY DEF budgetVars, AdmissionInv, Shape, CancelCheck
  <2> QED  BY <2>1, <2>2, <2>3, <2>4, <2>5, <2>6 DEF Shape
<1>2. Placed'
  BY DEF ownVars, AdmissionInv, Placed, Born, CancelCheck
<1>3. Grouped'
  BY DEF ownVars, AdmissionInv, Grouped, Past, CancelCheck
<1>4. Named'
  BY DEF ownVars, askVars, AdmissionInv, Named, Shape, Asks, Stops, Past, Born, Idle, Files,
         Mark, CancelCheck
<1>5. Removing'
  <2>1. ASSUME NEW p \in Remover, ~Removed(p)'
        PROVE  (removal[p].id \in Gen /\ Born(removal[p].id) /\ Ousted(removal[p].id))'
    BY <2>1
       DEF ownVars, budgetVars, AdmissionInv, Removing, Shape, Removed, Removal, Remover,
           Ousted, Named, Asks, Past, Born, Idle, Alive, StartRemoval, CancelCheck
  <2>2. ASSUME NEW p \in Remover, removal'[p].matched
        PROVE  (~Removed(p) /\ removal[p].next <= 3)'
    BY <2>2
       DEF AdmissionInv, Removing, Shape, Removed, NoRemoval, Removal, StartRemoval,
           CancelCheck
  <2>3. ASSUME NEW d \in Client, ~Removed(d)'
        PROVE  call'[d].do \in {"clean", "release"}
    BY <2>3, GenerationAssumption
       DEF ownVars, AdmissionInv, Removing, Shape, Removed, Remover, StartRemoval, CancelCheck
  <2> QED  BY <2>1, <2>2, <2>3 DEF Removing
<1>6. RecordHeld'
  BY DEF ownVars, budgetVars, AdmissionInv, RecordHeld, Recorded, Untouched, Shape, Files,
         Mark, CancelCheck
<1>7. Marked'
  BY DEF ownVars, askVars, budgetVars, AdmissionInv, Marked, Leads, Shape, Alive, Files, Mark,
         CancelCheck
<1>8. LeftBehind'
  BY GenerationAssumption
     DEF ownVars, budgetVars, AdmissionInv, LeftBehind, Leads, WillRemove, Publishing, Shape,
         GenerationTypeOK, Born, Alive, Files, Remover, StartRemoval, Mark, CancelCheck
<1>9. CancelScope'
  BY DEF ownVars, askVars, AdmissionInv, CancelScope, Mark, CancelCheck
<1> QED  BY <1>1, <1>2, <1>3, <1>4, <1>5, <1>6, <1>7, <1>8, <1>9 DEF AdmissionInv

(* The steps of the stop command, and a sidecar started after it. *)
LEMMA StopAskKeeps ==
    ASSUME AdmissionInv, StopAsk
    PROVE  AdmissionInv'
<1>1. Shape'
  <2>1. GenerationTypeOK'
    BY StopAskRest
  <2>2. call' \in [Client -> Calls]
    BY DEF ownVars, AdmissionInv, Shape, StopAsk
  <2>3. asking' \in Asks /\ stopping' \in Stops
    BY DEF AdmissionInv, Shape, Stops, StopAsk
  <2>4. file' \in [Files -> Contents] /\ last' \in Gen \cup {None}
    BY DEF askVars, AdmissionInv, Shape, Contents, Mark, StopAsk
  <2>5. removal' \in [Remover -> [id : Gen \cup {None}, next : 1 .. 4, matched : BOOLEAN]]
    BY StopAskRest
  <2>6. crashes' \in Nat
    BY DEF AdmissionInv, Shape, StopAsk
  <2> QED  BY <2>1, <2>2, <2>3, <2>4, <2>5, <2>6 DEF Shape
<1>2. Placed'
  BY DEF ownVars, AdmissionInv, Placed, Born, StopAsk
<1>3. Grouped'
  BY DEF ownVars, AdmissionInv, Grouped, Past, StopAsk
<1>4. Named'
  BY GenerationAssumption
     DEF ownVars, askVars, AdmissionInv, Named, Shape, Past, Born, Files, Mark, StopAsk
<1>5. Removing'
  <2>1. ASSUME NEW p \in Remover, ~Removed(p)'
        PROVE  (removal[p].id \in Gen /\ Born(removal[p].id) /\ Ousted(removal[p].id))'
    BY <2>1, GenerationAssumption
       DEF ownVars, AdmissionInv, Removing, Shape, Removed, Removal, Remover, Ousted, Named,
           Past, Born, Alive, StartRemoval, StopAsk
  <2>2. ASSUME NEW p \in Remover, removal'[p].matched
        PROVE  (~Removed(p) /\ removal[p].next <= 3)'
    BY <2>2 DEF AdmissionInv, Removing, Shape, Removed, Removal, StartRemoval, StopAsk
  <2>3. ASSUME NEW d \in Client, ~Removed(d)'
        PROVE  call'[d].do \in {"clean", "release"}
    BY <2>3, GenerationAssumption
       DEF ownVars, AdmissionInv, Removing, Shape, Removed, Remover, StartRemoval, StopAsk
  <2> QED  BY <2>1, <2>2, <2>3 DEF Removing
<1>6. RecordHeld'
  BY DEF ownVars, AdmissionInv, RecordHeld, Recorded, Untouched, Shape, Files, Mark, StopAsk
<1>7. Marked'
  BY DEF ownVars, askVars, AdmissionInv, Marked, Leads, Shape, Alive, Files, Mark, StopAsk
<1>8. LeftBehind'
  BY GenerationAssumption
     DEF ownVars, AdmissionInv, LeftBehind, Leads, WillRemove, Publishing, Named, Placed,
         Shape, Alive, Files, Remover, Commanded, StartRemoval, Mark, StopAsk
<1>9. CancelScope'
  BY DEF ownVars, askVars, AdmissionInv, CancelScope, Mark, StopAsk
<1> QED  BY <1>1, <1>2, <1>3, <1>4, <1>5, <1>6, <1>7, <1>8, <1>9 DEF AdmissionInv

LEMMA StopHeardKeeps ==
    ASSUME AdmissionInv, StopHeard
    PROVE  AdmissionInv'
<1>1. Shape'
  BY DEF ownVars, askVars, budgetVars, AdmissionInv, Shape, GenerationTypeOK, CallOK, Stops,
         Remover, Commands, Idle, Removal, StartRemoval, StopHeard
<1>2. Placed'
  BY DEF ownVars, AdmissionInv, Placed, Born, StopHeard
<1>3. Grouped'
  BY DEF ownVars, AdmissionInv, Grouped, Past, StopHeard
<1>4. Named'
  BY DEF ownVars, askVars, AdmissionInv, Named, Past, Born, Idle, StopHeard
<1>5. Removing'
  <2>1. ASSUME NEW p \in Remover, ~Removed(p)'
        PROVE  (removal[p].id \in Gen /\ Born(removal[p].id) /\ Ousted(removal[p].id))'
    BY <2>1
       DEF ownVars, budgetVars, AdmissionInv, Removing, Shape, GenerationTypeOK, Removed,
           Removal, Remover, Ousted, Named, Past, Born, Idle, Alive, StartRemoval, StopHeard
  <2>2. ASSUME NEW p \in Remover, removal'[p].matched
        PROVE  (~Removed(p) /\ removal[p].next <= 3)'
    BY <2>2 DEF AdmissionInv, Removing, Removed, Removal, StartRemoval, StopHeard
  <2>3. ASSUME NEW d \in Client, ~Removed(d)'
        PROVE  call'[d].do \in {"clean", "release"}
    BY <2>3, GenerationAssumption
       DEF ownVars, AdmissionInv, Removing, Removed, StartRemoval, StopHeard
  <2> QED  BY <2>1, <2>2, <2>3 DEF Removing
<1>6. RecordHeld'
  BY DEF ownVars, budgetVars, AdmissionInv, RecordHeld, Recorded, Untouched, StopHeard
<1>7. Marked'
  BY DEF ownVars, askVars, budgetVars, AdmissionInv, Marked, Leads, Alive, StopHeard
<1>8. LeftBehind'
  BY GenerationAssumption
     DEF ownVars, budgetVars, AdmissionInv, LeftBehind, Leads, WillRemove, Publishing, Shape,
         GenerationTypeOK, Alive, StartRemoval, StopHeard
<1>9. CancelScope'
  BY DEF ownVars, askVars, AdmissionInv, CancelScope, StopHeard
<1> QED  BY <1>1, <1>2, <1>3, <1>4, <1>5, <1>6, <1>7, <1>8, <1>9 DEF AdmissionInv

LEMMA AdmissionStarts == GenerationInit => AdmissionInv
<1> SUFFICES ASSUME GenerationInit PROVE AdmissionInv
  OBVIOUS
<1> USE GenerationAssumption DEF GenerationInit
<1>1. Shape
  <2>1. GenerationTypeOK
    BY DEF GenerationTypeOK, Gen, Side, Stages, CallOK, Files
  <2>2. removal \in [Remover -> [id : Gen \cup {None}, next : 1 .. 4, matched : BOOLEAN]]
    BY DEF Remover, NoRemoval
  <2> QED  BY <2>1, <2>2 DEF Shape, Calls, Asks, Stops, Contents, Files
<1>2. Placed
  BY DEF Placed, Born, Idle, Doing, Admitting
<1>3. Grouped
  BY DEF Grouped
<1>4. Named
  BY DEF Named, Files, Idle
<1>5. Removing
  BY DEF Removing, Removed, NoRemoval, Remover
<1>6. RecordHeld
  BY DEF RecordHeld, Recorded, Beyond, Idle
<1>7. Marked
  BY DEF Marked
<1>8. LeftBehind
  BY DEF LeftBehind, Files, Idle
<1>9. CancelScope
  BY DEF CancelScope
<1> QED  BY <1>1, <1>2, <1>3, <1>4, <1>5, <1>6, <1>7, <1>8, <1>9 DEF AdmissionInv

LEMMA AdmissionSteps == AdmissionInv /\ [GenerationNext]_generationVars => AdmissionInv'
<1> SUFFICES ASSUME AdmissionInv, [GenerationNext]_generationVars PROVE AdmissionInv'
  OBVIOUS
<1>1. ASSUME NEW c \in Client, ClientStep(c) PROVE AdmissionInv'
  BY <1>1, BeginKeeps, ReleaseDoneKeeps, MatchFileKeeps, DeleteFileKeeps DEF ClientStep, Remover
<1>2. ASSUME NEW c \in Client, Crash(c) \/ \E g \in Gen : Ready(c, g) PROVE AdmissionInv'
  BY <1>2, CrashKeeps, ReadyKeeps
<1>3. ASSUME NEW g \in Gen, BeginCall(g) \/ EndStream(g) \/ Release(g) PROVE AdmissionInv'
  BY <1>3, BeginCallKeeps, EndStreamKeeps, ReleaseKeeps
<1>4. ASSUME NEW p \in Commands, MatchFile(p) \/ DeleteFile(p) PROVE AdmissionInv'
  BY <1>4, MatchFileKeeps, DeleteFileKeeps DEF Remover
<1>5. CASE CancelCommand
  BY <1>5, CancelSteps, CancelCheckKeeps DEF CancelCommand
<1>6. CASE StopCommand
  BY <1>6, StopSteps, StopAskKeeps, StopHeardKeeps DEF StopCommand
<1>7. ASSUME NEW s \in Side, Restart(s) PROVE AdmissionInv'
  BY <1>7, StopSteps
<1>8. CASE UNCHANGED generationVars
  <2> USE <1>8 DEF AdmissionInv, generationVars, ownVars, commandVars, askVars, budgetVars
  <2>1. Shape' /\ Placed' /\ Grouped' /\ Named' /\ CancelScope'
    BY DEF Shape, GenerationTypeOK, CallOK, Placed, Grouped, Named, CancelScope, Born, Past
  <2>2. Removing' /\ RecordHeld'
    BY DEF Removing, Removed, Ousted, Born, Past, Alive, RecordHeld, Recorded, Untouched
  <2>3. Marked' /\ LeftBehind'
    BY DEF Marked, Leads, Alive, LeftBehind, WillRemove, Publishing
  <2> QED  BY <2>1, <2>2, <2>3
<1> QED
  BY <1>1, <1>2, <1>3, <1>4, <1>5, <1>6, <1>7, <1>8 DEF GenerationNext

(* The generations that run at one time run under the primaries of their processes. *)
LEMMA OneRecord == AdmissionInv => OneClient
<1> SUFFICES ASSUME AdmissionInv, NEW g \in Gen, NEW h \in Gen, Active(g), Active(h),
                    under[g] \notin taken, under[h] \notin taken
             PROVE  client[g] = client[h]
  BY DEF OneClient
<1>1. ASSUME NEW k \in Gen, Active(k), under[k] \notin taken
      PROVE  client[k] \in Client /\ client[file["record"]] = client[k]
  <2>1. client[k] \in alive /\ client[k] \in Client /\ k \in member[client[k]]
    BY <1>1 DEF Active, Alive, AdmissionInv, Shape, GenerationTypeOK
  <2>2. primary[client[k]] = under[k] /\ under[k] \in Gen /\ client[under[k]] = client[k]
    BY <1>1, <2>1 DEF AdmissionInv, Grouped
  <2>3. primary[client[k]] # None
    BY <2>2, GenerationAssumption
  <2>4. file["record"] = under[k]
    BY <1>1, <2>1, <2>2, <2>3 DEF AdmissionInv, RecordHeld, Recorded
  <2> QED  BY <2>1, <2>2, <2>4
<1> QED  BY <1>1

(* A process with a primary has a member, which is active while the process lives. *)
LEMMA LeaderRuns ==
    ASSUME AdmissionInv, NEW g \in Gen, Leads(g)
    PROVE  \E h \in Gen : Active(h)
<1>1. client[g] \in Client /\ client[g] \in alive
  BY DEF Leads, Alive, AdmissionInv, Shape, GenerationTypeOK
<1>2. member[client[g]] # {} /\ member[client[g]] \subseteq Gen
  BY <1>1, GenerationAssumption DEF Leads, AdmissionInv, Shape, GenerationTypeOK
<1>3. PICK h \in member[client[g]] : client[h] = client[g]
  BY <1>1, <1>2 DEF AdmissionInv, Grouped
<1> QED  BY <1>1, <1>2, <1>3 DEF Active, Alive

LEMMA QuietReopens == AdmissionInv => Reopens
<1> SUFFICES ASSUME AdmissionInv, Quiet
             PROVE  /\ file["record"] # None => ~Alive(file["record"])
                    /\ file["lock"] \in Gen => ~Alive(file["lock"])
                    /\ file["lock"] = Empty => crashes > 0
  BY DEF Reopens
<1>1. \A g \in Gen : ~Leads(g)
  BY LeaderRuns DEF Quiet
<1>2. \A g \in Gen : Alive(g) => client[g] \in alive /\ client[g] \in Client
  BY DEF Alive, AdmissionInv, Shape, GenerationTypeOK
<1>3. ASSUME NEW g \in Gen, Alive(g) PROVE ~WillRemove(g, 1) /\ ~WillRemove(g, 3)
  BY <1>2, <1>3, GenerationAssumption DEF Quiet, WillRemove, Removed, NoRemoval
<1>4. ASSUME NEW g \in Gen, Alive(g) PROVE ~Publishing(g)
  BY <1>2, <1>4 DEF Quiet, Publishing, Idle
<1>5. file["record"] # None => file["record"] \in Gen
  BY DEF AdmissionInv, Shape, GenerationTypeOK
<1>6. \A c \in alive : call[c].do # "write"
  BY DEF Quiet, Idle
<1> QED  BY <1>1, <1>3, <1>4, <1>5, <1>6 DEF AdmissionInv, LeftBehind

LEMMA MarkerStays == AdmissionInv => MarkerHeld
<1> SUFFICES ASSUME AdmissionInv, NEW g \in Gen, stage[g] = "running", Alive(g),
                    under[g] = last, last \notin taken
             PROVE  file["marker"] = last
  BY DEF MarkerHeld
<1>1. client[g] \in alive /\ client[g] \in Client /\ g \in member[client[g]]
  BY DEF Alive, AdmissionInv, Shape, GenerationTypeOK, Placed
<1>2. last \in Gen /\ client[last] = client[g] /\ primary[client[g]] = last
  BY <1>1 DEF AdmissionInv, Grouped
<1> QED  BY <1>1, <1>2, GenerationAssumption DEF AdmissionInv, Marked, Leads, Alive

LEMMA AcknowledgedEnded == AdmissionInv => Acknowledged
<1> SUFFICES ASSUME AdmissionInv, NEW g \in Gen, Active(g), under[g] \in acked
             PROVE  under[g] \in taken
  BY DEF Acknowledged
<1>1. client[g] \in alive /\ client[g] \in Client /\ g \in member[client[g]]
  BY DEF Active, Alive, AdmissionInv, Shape, GenerationTypeOK
<1>2. /\ client[under[g]] = client[g]
      /\ under[g] = primary[client[g]] \/ under[g] \in taken
  BY <1>1 DEF AdmissionInv, Grouped
<1> QED  BY <1>1, <1>2 DEF AdmissionInv, Marked, Leads, Alive

(* Admission, cancellation and release keep what the run checks: one client process at a   *)
(* time, whatever commands, crashes and failed writes come between; a cancel for the group  *)
(* it names; nothing left that refuses the next request.  Code: begin_active_generation,    *)
(* release_generation_admission, cancel_generation_report.                                  *)
THEOREM GenerationsKept == GenerationSpec => []AdmissionKept
<1>1. AdmissionInv => AdmissionKept
  BY OneRecord, QuietReopens, MarkerStays, AcknowledgedEnded
     DEF AdmissionKept, AdmissionInv, Shape
<1> QED  BY AdmissionStarts, AdmissionSteps, <1>1, PTL DEF GenerationSpec

-----------------------------------------------------------------------------
(* The pool of web workers. *)

CallStates == [at : {"idle", "submit", "wait"}, job : Job \cup {NoJob}, start : Worker, tried : Nat]

PoolShape ==
    /\ calls \in 0 .. MaxCalls /\ next \in Worker /\ over \subseteq Job
    /\ channel \in [Worker -> Seq(Job)] /\ \A w \in Worker : Len(channel[w]) <= Slots
    /\ active \in [Worker -> Job \cup {NoJob}]
    /\ caller \in [Caller -> CallStates]

Pooled(j) == \E w \in Worker, i \in 0 .. Slots : Stands(j, w, i)

(* A job stands in one place, it was given out, and it is not over. *)
StandsOnce ==
    \A j \in Job, w, v \in Worker, i, k \in 0 .. Slots :
        Stands(j, w, i) /\ Stands(j, v, k) => w = v /\ i = k
GivenOut ==
    \A j \in Job : Pooled(j) \/ j \in over => j <= calls
NotOver == \A j \in Job : Pooled(j) => j \notin over

(* Until it is offered, a job is its caller's alone; then it is in the pool or over. *)
Offered ==
    \A c \in Caller :
        /\ caller[c].at # "idle" => caller[c].job \in Job /\ caller[c].job <= calls
        /\ caller[c].at = "submit"
             => /\ ~Pooled(caller[c].job) /\ caller[c].job \notin over
                /\ \A d \in Caller : caller[d].at # "idle" /\ caller[d].job = caller[c].job => d = c
        /\ caller[c].at = "wait" => Pooled(caller[c].job) \/ caller[c].job \in over

PoolInv == PoolShape /\ StandsOnce /\ GivenOut /\ NotOver /\ Offered

LEMMA PoolNumbers ==
    /\ Workers \in Nat \ {0} /\ Slots \in Nat \ {0} /\ MaxCalls \in Nat \ {0} /\ NoJob \notin Job
    /\ Job \subseteq Nat /\ Worker \subseteq Nat /\ 0 \in Worker
BY WebPoolAssumption DEF Job, Worker

LEMMA InTurn == \A n \in Nat : n % Workers \in Worker
BY WebPoolAssumption DEF Worker

(* What moves no job, and gives out at most the next one. *)
LEMMA PoolRests ==
    ASSUME PoolInv, UNCHANGED <<channel, active, over>>,
           next' \in Worker, calls' \in 0 .. MaxCalls, calls <= calls',
           caller' \in [Caller -> CallStates], Offered'
    PROVE  PoolInv'
<1>1. \A j, w, i : Stands(j, w, i)' <=> Stands(j, w, i)
  BY DEF Stands
<1>2. \A j : Pooled(j)' <=> Pooled(j)
  BY <1>1 DEF Pooled
<1> QED
  BY <1>1, <1>2 DEF PoolInv, PoolShape, StandsOnce, GivenOut, NotOver, Job

LEMMA SubmitKeeps ==
    ASSUME PoolInv, NEW c \in Caller, Submit(c)
    PROVE  PoolInv'
<1>1. calls + 1 \in Job /\ calls' = calls + 1 /\ calls' \in 0 .. MaxCalls /\ calls \in Nat
  BY PoolNumbers DEF PoolInv, PoolShape, Submit, Job
<1>2. next' \in Worker /\ next % Workers \in Worker
  <2>1. next \in Nat /\ next + 1 \in Nat
    BY PoolNumbers DEF PoolInv, PoolShape
  <2> QED  BY <2>1, InTurn DEF Submit
<1> DEFINE new == [at |-> "submit", job |-> calls + 1, start |-> next % Workers, tried |-> 0]
<1>3. new \in CallStates
  BY <1>1, <1>2, PoolNumbers DEF CallStates
<1>4. /\ caller' = [caller EXCEPT ![c] = new]
      /\ new.at = "submit" /\ new.job = calls + 1
  BY DEF Submit
<1> HIDE DEF new
<1>5. \A d \in Caller : caller'[d] = IF d = c THEN new ELSE caller[d]
  BY <1>4 DEF PoolInv, PoolShape
<1>6. caller' \in [Caller -> CallStates]
  BY <1>3, <1>4 DEF PoolInv, PoolShape
<1>7. UNCHANGED <<channel, active, over>>
  BY DEF Submit
<1>8. \A j : Pooled(j)' <=> Pooled(j)
  BY <1>7 DEF Pooled, Stands
<1>9. ~Pooled(calls + 1) /\ calls + 1 \notin over
  BY <1>1 DEF PoolInv, GivenOut
<1>10. \A d \in Caller :
          caller[d].at # "idle" => caller[d].job # calls + 1 /\ caller[d].job <= calls + 1
  BY <1>1, PoolNumbers DEF PoolInv, Offered, Job
<1>11. Offered'
  BY <1>1, <1>4, <1>5, <1>7, <1>8, <1>9, <1>10 DEF PoolInv, Offered
<1> QED  BY <1>1, <1>2, <1>6, <1>7, <1>11, PoolRests

LEMMA OfferKeeps ==
    ASSUME PoolInv, NEW c \in Caller, Offer(c)
    PROVE  PoolInv' /\ \A j \in Job : Pooled(j) => Pooled(j)'
<1> DEFINE w == (caller[c].start + caller[c].tried) % Workers
           j == caller[c].job
<1>1. w \in Worker /\ j \in Job /\ caller[c] \in CallStates /\ caller[c].at = "submit"
  <2>1. j \in Job /\ caller[c] \in CallStates /\ caller[c].at = "submit"
    BY DEF PoolInv, PoolShape, Offered, Offer
  <2>2. caller[c].start \in Nat /\ caller[c].tried \in Nat
    BY <2>1, PoolNumbers DEF CallStates
  <2>3. caller[c].start + caller[c].tried \in Nat
    BY <2>2
  <2> QED  BY <2>1, <2>3, InTurn
<1>2. CASE Len(channel[w]) < Slots
  <2>1. /\ channel' = [channel EXCEPT ![w] = Append(@, j)]
        /\ caller' = [caller EXCEPT ![c].at = "wait"]
        /\ UNCHANGED <<next, active, over, calls>>
    BY <1>2 DEF Offer
  <2> HIDE DEF w, j
  <2>2. channel[w] \in Seq(Job) /\ Len(channel[w]) \in Nat
    BY <1>1 DEF PoolInv, PoolShape
  <2>3. /\ Len(channel'[w]) = Len(channel[w]) + 1
        /\ \A v \in Worker : v # w => channel'[v] = channel[v]
        /\ \A i \in 1 .. Len(channel[w]) : channel'[w][i] = channel[w][i]
        /\ channel'[w][Len(channel[w]) + 1] = j
        /\ channel' \in [Worker -> Seq(Job)]
    BY <1>1, <2>1, <2>2 DEF PoolInv, PoolShape
  <2>4. \A x \in Job, v \in Worker, i \in 0 .. Slots :
          Stands(x, v, i)' <=> Stands(x, v, i) \/ (x = j /\ v = w /\ i = Len(channel[w]) + 1)
    BY <2>1, <2>2, <2>3, PoolNumbers DEF Stands
  <2>5. Len(channel[w]) + 1 \in 0 .. Slots
    BY <1>2, <2>2, PoolNumbers
  <2>6. /\ \A x \in Job : Pooled(x)' <=> Pooled(x) \/ x = j
    BY <1>1, <2>4, <2>5 DEF Pooled
  <2>7. ~Pooled(j) /\ j \notin over /\ j <= calls
    BY <1>1 DEF PoolInv, Offered, j
  <2>8. PoolShape'
    <3>1. caller' \in [Caller -> CallStates]
      <4>1. [caller[c] EXCEPT !.at = "wait"] \in CallStates
        BY <1>1 DEF CallStates
      <4> QED  BY <2>1, <4>1 DEF PoolInv, PoolShape
    <3>2. \A v \in Worker : Len(channel'[v]) <= Slots
      <4>1. Len(channel'[w]) <= Slots
        BY <1>2, <2>2, <2>3, PoolNumbers
      <4>2. \A v \in Worker : v # w => Len(channel'[v]) <= Slots
        BY <2>3 DEF PoolInv, PoolShape
      <4> QED  BY <4>1, <4>2
    <3> QED  BY <2>1, <2>3, <3>1, <3>2 DEF PoolInv, PoolShape
  <2>9. StandsOnce'
    BY <2>4, <2>7 DEF PoolInv, StandsOnce, Pooled
  <2>10. GivenOut' /\ NotOver'
    BY <2>1, <2>6, <2>7 DEF PoolInv, GivenOut, NotOver
  <2>11. \A d \in Caller :
           /\ caller'[d].job = caller[d].job
           /\ caller'[d].at = IF d = c THEN "wait" ELSE caller[d].at
    BY <2>1 DEF PoolInv, PoolShape, CallStates
  <2>12. \A d \in Caller : d # c /\ caller[d].at # "idle" => caller[d].job # j
    BY <1>1 DEF PoolInv, Offered, j
  <2>13. Offered'
    BY <1>1, <2>1, <2>6, <2>11, <2>12 DEF PoolInv, Offered, j
  <2> QED  BY <2>6, <2>8, <2>9, <2>10, <2>13 DEF PoolInv
<1>3. CASE Len(channel[w]) >= Slots
  <2>1. /\ \/ caller' = [caller EXCEPT ![c] = Free]
           \/ caller' = [caller EXCEPT ![c].tried = @ + 1]
        /\ UNCHANGED <<channel, next, active, over, calls>>
    BY <1>1, <1>3, PoolNumbers DEF Offer, PoolInv, PoolShape
  <2>2. \A d \in Caller :
           caller'[d].at # "idle"
             => caller'[d].at = caller[d].at /\ caller'[d].job = caller[d].job
    <3>1. CASE caller' = [caller EXCEPT ![c] = Free]
      BY <3>1 DEF PoolInv, PoolShape, Free
    <3>2. CASE caller' = [caller EXCEPT ![c].tried = @ + 1]
      BY <3>2 DEF PoolInv, PoolShape, CallStates
    <3> QED  BY <2>1, <3>1, <3>2
  <2>3. caller' \in [Caller -> CallStates]
    <3>1. CASE caller' = [caller EXCEPT ![c] = Free]
      BY <3>1, PoolNumbers DEF Free, CallStates, PoolInv, PoolShape
    <3>2. CASE caller' = [caller EXCEPT ![c].tried = @ + 1]
      <4>1. [caller[c] EXCEPT !.tried = @ + 1] \in CallStates
        BY <1>1 DEF CallStates
      <4> QED  BY <3>2, <4>1 DEF PoolInv, PoolShape
    <3> QED  BY <2>1, <3>1, <3>2
  <2>4. \A x : Pooled(x)' <=> Pooled(x)
    BY <2>1 DEF Pooled, Stands
  <2>5. Offered'
    BY <2>1, <2>2, <2>4 DEF PoolInv, Offered
  <2> QED  BY <2>1, <2>3, <2>4, <2>5, PoolRests DEF PoolInv, PoolShape
<1>4. Len(channel[w]) < Slots \/ Len(channel[w]) >= Slots
  BY <1>1, PoolNumbers DEF PoolInv, PoolShape
<1> QED  BY <1>2, <1>3, <1>4

LEMMA AwaitKeeps ==
    ASSUME PoolInv, NEW c \in Caller, Await(c)
    PROVE  PoolInv'
<1>1. caller' \in [Caller -> CallStates]
  BY PoolNumbers DEF PoolInv, PoolShape, Await, Free, CallStates
<1>2. \A d \in Caller : caller'[d].at # "idle" => caller'[d] = caller[d]
  BY DEF PoolInv, PoolShape, Await, Free
<1>3. UNCHANGED <<next, channel, active, over, calls>>
  BY DEF Await
<1>4. \A j : Pooled(j)' <=> Pooled(j)
  BY <1>3 DEF Pooled, Stands
<1>5. Offered'
  BY <1>2, <1>3, <1>4 DEF PoolInv, Offered
<1> QED  BY <1>1, <1>3, <1>5, PoolRests DEF PoolInv, PoolShape

LEMMA ReceiveKeeps ==
    ASSUME PoolInv, NEW w \in Worker, Receive(w)
    PROVE  PoolInv' /\ \A j \in Job : Pooled(j) => Pooled(j)'
<1>1. /\ active[w] = NoJob /\ channel[w] # <<>> /\ channel[w] \in Seq(Job)
      /\ UNCHANGED <<next, over, caller, calls>>
  BY DEF PoolInv, PoolShape, Receive
<1>2. /\ Len(channel[w]) \in Nat \ {0} /\ Head(channel[w]) = channel[w][1]
      /\ channel[w][1] \in Job
      /\ Tail(channel[w]) \in Seq(Job) /\ Len(Tail(channel[w])) = Len(channel[w]) - 1
      /\ \A i \in 1 .. Len(channel[w]) - 1 : Tail(channel[w])[i] = channel[w][i + 1]
  BY <1>1
<1>3. /\ active' = [active EXCEPT ![w] = channel[w][1]]
      /\ channel' = [channel EXCEPT ![w] = Tail(channel[w])]
  BY <1>2 DEF Receive
<1>4. \A v \in Worker : v # w => active'[v] = active[v] /\ channel'[v] = channel[v]
  BY <1>3 DEF PoolInv, PoolShape
<1>5. active'[w] = channel[w][1] /\ channel'[w] = Tail(channel[w])
  BY <1>3 DEF PoolInv, PoolShape
<1>6. \A v \in Worker : Len(channel[v]) <= Slots /\ Len(channel[v]) \in Nat
  BY DEF PoolInv, PoolShape
<1>7. \A j \in Job, v \in Worker, i \in 0 .. Slots :
         Stands(j, v, i)' => /\ v = w => i + 1 \in 0 .. Slots /\ Stands(j, v, i + 1)
                             /\ v # w => Stands(j, v, i)
  <2> SUFFICES ASSUME NEW j \in Job, NEW v \in Worker, NEW i \in 0 .. Slots, Stands(j, v, i)'
               PROVE  /\ v = w => i + 1 \in 0 .. Slots /\ Stands(j, v, i + 1)
                      /\ v # w => Stands(j, v, i)
    OBVIOUS
  <2>1. CASE v # w
    BY <1>4, <2>1 DEF Stands
  <2>2. CASE v = w /\ i = 0
    <3>1. channel[w][1] = j /\ 1 <= Len(channel[w])
      BY <1>2, <1>5, <2>2 DEF Stands
    <3>2. 1 \in 0 .. Slots
      BY PoolNumbers
    <3> QED  BY <2>2, <3>1, <3>2 DEF Stands
  <2>3. CASE v = w /\ i # 0
    <3>1. i \in 1 .. Len(channel[w]) - 1 /\ Tail(channel[w])[i] = j
      <4>1. i <= Len(Tail(channel[w])) /\ Tail(channel[w])[i] = j
        BY <1>5, <2>3 DEF Stands
      <4> QED  BY <1>2, <2>3, <4>1, PoolNumbers
    <3>2. i + 1 \in 0 .. Slots /\ i + 1 # 0 /\ i + 1 <= Len(channel[w])
      BY <1>2, <1>6, <3>1, PoolNumbers
    <3> QED  BY <1>2, <2>3, <3>1, <3>2 DEF Stands
  <2> QED  BY <2>1, <2>2, <2>3
<1>8. \A j \in Job, v \in Worker, i \in 0 .. Slots :
         Stands(j, v, i) => /\ v = w => i - 1 \in 0 .. Slots /\ Stands(j, v, i - 1)'
                            /\ v # w => Stands(j, v, i)'
  <2> SUFFICES ASSUME NEW j \in Job, NEW v \in Worker, NEW i \in 0 .. Slots, Stands(j, v, i)
               PROVE  /\ v = w => i - 1 \in 0 .. Slots /\ Stands(j, v, i - 1)'
                      /\ v # w => Stands(j, v, i)'
    OBVIOUS
  <2>1. CASE v # w
    BY <1>4, <2>1 DEF Stands
  <2>2. CASE v = w
    <3>1. i # 0 /\ i <= Len(channel[w]) /\ channel[w][i] = j
      BY <1>1, <2>2, PoolNumbers DEF Stands
    <3>2. CASE i = 1
      BY <1>5, <2>2, <3>1, <3>2, PoolNumbers DEF Stands
    <3>3. CASE i # 1
      <4>1. i - 1 \in 1 .. Len(channel[w]) - 1 /\ i - 1 \in 0 .. Slots /\ (i - 1) + 1 = i
        BY <1>2, <3>1, <3>3, PoolNumbers
      <4>2. channel'[w][i - 1] = j /\ i - 1 <= Len(channel'[w]) /\ i - 1 # 0
        BY <1>2, <1>5, <3>1, <4>1
      <4> QED  BY <2>2, <4>1, <4>2 DEF Stands
    <3> QED  BY <3>2, <3>3
  <2> QED  BY <2>1, <2>2
<1>9. \A j \in Job : Pooled(j)' <=> Pooled(j)
  BY <1>7, <1>8 DEF Pooled
<1>10. PoolShape'
  <2>1. active' \in [Worker -> Job \cup {NoJob}] /\ channel' \in [Worker -> Seq(Job)]
    BY <1>2, <1>3 DEF PoolInv, PoolShape
  <2>2. \A v \in Worker : Len(channel'[v]) <= Slots
    <3>1. Len(channel'[w]) <= Len(channel[w])
      BY <1>2, <1>5
    <3>2. \A v \in Worker : v # w => Len(channel'[v]) <= Slots
      BY <1>4, <1>6
    <3>3. Len(channel'[w]) <= Slots
      BY <1>2, <1>5, <1>6, <3>1, PoolNumbers
    <3> QED  BY <3>2, <3>3
  <2> QED  BY <1>1, <2>1, <2>2 DEF PoolInv, PoolShape
<1>11. StandsOnce'
  <2> SUFFICES ASSUME NEW j \in Job, NEW u \in Worker, NEW v \in Worker,
                      NEW i \in 0 .. Slots, NEW k \in 0 .. Slots,
                      Stands(j, u, i)', Stands(j, v, k)'
               PROVE  u = v /\ i = k
    BY DEF StandsOnce
  <2>1. CASE u = w /\ v = w
    BY <1>7, <2>1, PoolNumbers DEF PoolInv, StandsOnce
  <2>2. CASE u = w /\ v # w
    BY <1>7, <2>2 DEF PoolInv, StandsOnce
  <2>3. CASE u # w /\ v = w
    BY <1>7, <2>3 DEF PoolInv, StandsOnce
  <2>4. CASE u # w /\ v # w
    BY <1>7, <2>4 DEF PoolInv, StandsOnce
  <2> QED  BY <2>1, <2>2, <2>3, <2>4
<1>12. GivenOut' /\ NotOver'
  BY <1>1, <1>9 DEF PoolInv, GivenOut, NotOver
<1>13. Offered'
  BY <1>1, <1>9 DEF PoolInv, Offered
<1> QED  BY <1>9, <1>10, <1>11, <1>12, <1>13 DEF PoolInv

LEMMA CompleteKeeps ==
    ASSUME PoolInv, NEW w \in Worker, Complete(w)
    PROVE  PoolInv' /\ \A j \in Job : Pooled(j) => Pooled(j)' \/ j \in over'
<1> DEFINE j == active[w]
<1>1. /\ j \in Job /\ active' = [active EXCEPT ![w] = NoJob] /\ over' = over \cup {j}
      /\ UNCHANGED <<next, channel, caller, calls>>
  BY DEF PoolInv, PoolShape, Complete
<1>2. Stands(j, w, 0) /\ 0 \in 0 .. Slots
  BY PoolNumbers DEF Stands
<1> HIDE DEF j
<1>3. \A v \in Worker : active'[v] = IF v = w THEN NoJob ELSE active[v]
  BY <1>1 DEF PoolInv, PoolShape
<1>4. \A x \in Job, v \in Worker, i \in 0 .. Slots :
         Stands(x, v, i)' <=> Stands(x, v, i) /\ ~(v = w /\ i = 0)
  BY <1>1, <1>3, PoolNumbers DEF Stands
<1>5. \A x \in Job : Stands(x, w, 0) => x = j
  BY DEF Stands, j
<1>6. \A x \in Job : Pooled(x)' <=> Pooled(x) /\ x # j
  <2>1. ASSUME NEW x \in Job, Pooled(x)'
        PROVE  Pooled(x) /\ x # j
    BY <1>1, <1>2, <1>4, <2>1 DEF Pooled, PoolInv, StandsOnce
  <2>2. ASSUME NEW x \in Job, Pooled(x), x # j
        PROVE  Pooled(x)'
    BY <1>4, <1>5, <2>2 DEF Pooled
  <2> QED  BY <2>1, <2>2
<1>7. PoolShape'
  BY <1>1 DEF PoolInv, PoolShape
<1>8. StandsOnce'
  BY <1>4 DEF PoolInv, StandsOnce
<1>9. Pooled(j)
  BY <1>2 DEF Pooled
<1>10. GivenOut' /\ NotOver'
  BY <1>1, <1>6, <1>9 DEF PoolInv, GivenOut, NotOver
<1>11. Offered'
  BY <1>1, <1>6, <1>9 DEF PoolInv, Offered
<1> QED  BY <1>1, <1>6, <1>7, <1>8, <1>10, <1>11 DEF PoolInv

LEMMA PoolBegins == WebPoolInit => PoolInv
<1> SUFFICES ASSUME WebPoolInit
             PROVE  PoolInv
  OBVIOUS
<1>1. Free \in CallStates /\ Free.at = "idle"
  BY PoolNumbers DEF Free, CallStates
<1>2. PoolShape
  BY <1>1, PoolNumbers DEF WebPoolInit, PoolShape
<1>3. \A j \in Job : ~Pooled(j)
  BY PoolNumbers DEF WebPoolInit, Pooled, Stands
<1>4. StandsOnce
  BY <1>3 DEF StandsOnce, Pooled
<1> QED
  BY <1>1, <1>2, <1>3, <1>4 DEF PoolInv, GivenOut, NotOver, Offered, WebPoolInit

(* No step loses a job before its answer is sent or dropped. *)
LEMMA PoolSteps ==
    PoolInv /\ [WebPoolNext]_webPoolVars
      => PoolInv' /\ \A j \in Job : Pooled(j) => Pooled(j)' \/ j \in over'
<1> SUFFICES ASSUME PoolInv, [WebPoolNext]_webPoolVars
             PROVE  PoolInv' /\ \A j \in Job : Pooled(j) => Pooled(j)' \/ j \in over'
  OBVIOUS
<1>1. ASSUME UNCHANGED <<channel, active>>
      PROVE  \A j \in Job : Pooled(j) => Pooled(j)'
  BY <1>1 DEF Pooled, Stands
<1>2. ASSUME UNCHANGED <<next, channel, active, over, caller, calls>>
      PROVE  PoolInv'
  <2>1. Offered'
    BY <1>2 DEF PoolInv, Offered, Pooled, Stands
  <2> QED  BY <1>2, <2>1, PoolRests DEF PoolInv, PoolShape
<1>3. ASSUME NEW c \in Caller, Submit(c) \/ Await(c)
      PROVE  PoolInv' /\ \A j \in Job : Pooled(j) => Pooled(j)'
  BY <1>1, <1>3, SubmitKeeps, AwaitKeeps DEF Submit, Await
<1>4. ASSUME NEW w \in Worker, Hang(w)
      PROVE  PoolInv' /\ \A j \in Job : Pooled(j) => Pooled(j)'
  BY <1>1, <1>2, <1>4 DEF Hang
<1>5. CASE UNCHANGED webPoolVars
  BY <1>1, <1>2, <1>5 DEF webPoolVars
<1>6. ASSUME NEW c \in Caller, Offer(c)
      PROVE  PoolInv' /\ \A j \in Job : Pooled(j) => Pooled(j)'
  BY <1>6, OfferKeeps
<1>7. ASSUME NEW w \in Worker, Receive(w) \/ Complete(w)
      PROVE  PoolInv' /\ \A j \in Job : Pooled(j) => Pooled(j)' \/ j \in over'
  <2>1. CASE Receive(w)
    BY <2>1, ReceiveKeeps
  <2>2. CASE Complete(w)
    BY <2>2, CompleteKeeps
  <2> QED  BY <1>7, <2>1, <2>2
<1>8. CASE WebPoolNext
  <2>1. ASSUME NEW c \in Caller, Submit(c) \/ Offer(c) \/ Await(c)
        PROVE  PoolInv' /\ \A j \in Job : Pooled(j) => Pooled(j)' \/ j \in over'
    BY <1>3, <1>6, <2>1
  <2>2. ASSUME NEW w \in Worker, Receive(w) \/ Complete(w) \/ Hang(w)
        PROVE  PoolInv' /\ \A j \in Job : Pooled(j) => Pooled(j)' \/ j \in over'
    BY <1>4, <1>7, <2>2
  <2> QED  BY <1>8, <2>1, <2>2 DEF WebPoolNext
<1> QED  BY <1>5, <1>8

LEMMA PooledPlaces == \A j \in Job : Pooled(j) <=> Places(j) # {}
<1> SUFFICES ASSUME NEW j \in Job
             PROVE  Pooled(j) <=> Places(j) # {}
  OBVIOUS
<1>1. ASSUME NEW w \in Worker, NEW i \in 0 .. Slots, Stands(j, w, i)
      PROVE  <<w, i>> \in Places(j)
  BY <1>1 DEF Places
<1>2. ASSUME NEW spot \in Places(j)
      PROVE  Pooled(j)
  BY <1>2 DEF Places, Pooled
<1> QED  BY <1>1, <1>2 DEF Pooled

(* Each worker has at most one job under way and Slots queued ones, a job is in one place  *)
(* and never comes back, and a call waits for a job that is in the pool or over; and a     *)
(* job leaves the pool only when its transport has returned.  Code: network_call.rs,       *)
(* submit and the loop of a worker.                                                       *)
THEOREM PoolKept ==
    WebPoolSpec
      => /\ []JobsPlaced
         /\ [][\A j \in Job : Places(j) # {} => Places(j)' # {} \/ j \in over']_webPoolVars
<1>1. PoolInv => JobsPlaced
  <2> SUFFICES ASSUME PoolInv
               PROVE  JobsPlaced
    OBVIOUS
  <2>1. ASSUME NEW j \in Job, NEW a \in Places(j), NEW b \in Places(j)
        PROVE  a = b /\ j \notin over
    <3>1. PICK w \in Worker, i \in 0 .. Slots : a = <<w, i>> /\ Stands(j, w, i)
      BY <2>1 DEF Places, Stands
    <3>2. PICK v \in Worker, k \in 0 .. Slots : b = <<v, k>> /\ Stands(j, v, k)
      BY <2>1 DEF Places, Stands
    <3>3. w = v /\ i = k
      BY <3>1, <3>2 DEF PoolInv, StandsOnce
    <3> QED  BY <3>1, <3>2, <3>3 DEF PoolInv, NotOver, Pooled
  <2>2. \A c \in Caller : caller[c].at = "wait" =>
            Places(caller[c].job) # {} \/ caller[c].job \in over
    BY PooledPlaces DEF PoolInv, Offered
  <2> QED  BY <2>1, <2>2 DEF JobsPlaced, PoolInv, PoolShape
<1>2. PoolInv /\ [WebPoolNext]_webPoolVars
        => [\A j \in Job : Places(j) # {} => Places(j)' # {} \/ j \in over']_webPoolVars
  <2>1. ASSUME NEW j \in Job
        PROVE  Pooled(j)' <=> Places(j)' # {}
    <3>1. ASSUME NEW w \in Worker, NEW i \in 0 .. Slots, Stands(j, w, i)'
          PROVE  <<w, i>> \in Places(j)'
      BY <3>1 DEF Places
    <3>2. ASSUME NEW spot \in Places(j)'
          PROVE  Pooled(j)'
      BY <3>2 DEF Places, Pooled
    <3> QED  BY <3>1, <3>2 DEF Pooled
  <2> QED  BY <2>1, PooledPlaces, PoolSteps
<1>3. PoolInv /\ [WebPoolNext]_webPoolVars => PoolInv'
  BY PoolSteps
<1> QED  BY <1>1, <1>2, <1>3, PoolBegins, PTL DEF WebPoolSpec
=============================================================================
