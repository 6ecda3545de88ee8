------------------------------ MODULE Sidecar ------------------------------
(* The managed inference server: a start spawns it under the runtime lease    *)
(* and records its process id, then watches its health without the lease; a   *)
(* stop reads the record, terminates the process and removes the record,      *)
(* never under the lease.  The record is a plain file: writing it truncates   *)
(* it first, removing it looks at nothing.  All servers use the same port, so *)
(* a probe is answered by whichever runs.  What a stop does to the generation *)
(* under way is in Generation.                                                *)
EXTENDS Naturals

CONSTANTS Starter, Stopper, Server, NoServer, Torn, DeathBudget

ASSUME SidecarAssumption ==
    /\ NoServer \notin Server \cup Starter
    /\ Torn \notin Server \cup {NoServer}
    /\ DeathBudget \in Nat

VARIABLES
    up,          \* the servers that run
    used,        \* the servers ever spawned
    sideRecord,  \* the sidecar record
    runtime,     \* the holder of the runtime lease
    starting,    \* the start commands
    halting,     \* the stop commands
    lost,        \* servers whose record was removed or broken behind their back
    deaths

sidecarVars == <<up, used, sideRecord, runtime, starting, halting, lost, deaths>>

Rest == [do |-> "rest", server |-> NoServer]
Steps == {"rest", "existing", "spawn", "truncate", "write", "watch", "forget", "told",
          "check", "kill", "dead"}

StartAt(p, step) == starting[p].do = step
StartGo(p, step) == starting' = [starting EXCEPT ![p].do = step]

(* The start takes the runtime lease. *)
AcquireRuntime(p) ==
    /\ StartAt(p, "rest") /\ runtime = NoServer
    /\ runtime' = p /\ StartGo(p, "existing")
    /\ UNCHANGED <<up, used, sideRecord, halting, lost, deaths>>

Yield(p) == runtime' = IF runtime = p THEN NoServer ELSE runtime

(* existing::report: a running server of the record ends the start, a dead one's record is
   removed; a record that does not parse refuses. *)
Existing(p) ==
    /\ StartAt(p, "existing")
    /\ \/ /\ sideRecord = NoServer \/ (sideRecord \in Server /\ sideRecord \notin up)
          /\ sideRecord' = NoServer
          /\ StartGo(p, "spawn") /\ UNCHANGED runtime
       \/ /\ sideRecord \in up \cup {Torn}
          /\ starting' = [starting EXCEPT ![p] = Rest] /\ Yield(p)
          /\ UNCHANGED sideRecord
    /\ UNCHANGED <<up, used, halting, lost, deaths>>

(* The server is spawned in a process group of its own. *)
Spawn(p, s) ==
    /\ StartAt(p, "spawn") /\ s \notin used
    /\ up' = up \cup {s} /\ used' = used \cup {s}
    /\ starting' = [starting EXCEPT ![p] = [do |-> "truncate", server |-> s]]
    /\ UNCHANGED <<sideRecord, runtime, halting, lost, deaths>>

(* write_sidecar_record opens the file ... *)
Truncate(p) ==
    /\ StartAt(p, "truncate")
    /\ sideRecord' = Torn /\ StartGo(p, "write")
    /\ UNCHANGED <<up, used, runtime, halting, lost, deaths>>

(* ... and fills it, and the lease is dropped; a write that fails kills the child and
   leaves what is in the file. *)
WriteRecord(p) ==
    /\ StartAt(p, "write")
    /\ \/ /\ sideRecord' = starting[p].server /\ StartGo(p, "watch")
          /\ UNCHANGED up
       \/ /\ up' = up \ {starting[p].server}
          /\ starting' = [starting EXCEPT ![p] = Rest]
          /\ UNCHANGED sideRecord
    /\ Yield(p)
    /\ UNCHANGED <<used, halting, lost, deaths>>

Watch_KillsNothing(p) ==
    /\ StartAt(p, "watch")
    /\ \/ up # {} /\ StartGo(p, "told")
       \/ StartGo(p, "forget")
    /\ UNCHANGED <<up, used, sideRecord, runtime, halting, lost, deaths>>

(* The health loop: any server on the port may answer; a child that has exited, or one
   killed when the time is up, takes the record with it. *)
Watch(p) ==
    LET s == starting[p].server IN
    /\ StartAt(p, "watch")
    /\ \/ up # {} /\ StartGo(p, "told") /\ UNCHANGED up
       \/ StartGo(p, "forget") /\ up' = up \ {s}
    /\ UNCHANGED <<used, sideRecord, runtime, halting, lost, deaths>>

(* remove_sidecar_record, on behalf of server s. *)
RemoveRecord(s) ==
    /\ lost' = IF sideRecord \in Server \ {s} THEN lost \cup {sideRecord} ELSE lost
    /\ sideRecord' = NoServer

Forget(p) ==
    /\ StartAt(p, "forget")
    /\ RemoveRecord(starting[p].server)
    /\ starting' = [starting EXCEPT ![p] = Rest]
    /\ UNCHANGED <<up, used, runtime, halting, deaths>>

(* A start that reported its server running is done. *)
Reported(p) ==
    /\ StartAt(p, "told")
    /\ starting' = [starting EXCEPT ![p] = Rest]
    /\ UNCHANGED <<up, used, sideRecord, runtime, halting, lost, deaths>>

(* The command of a start is killed; its lease is recovered, its server lives on. *)
StarterDies(p) ==
    /\ deaths < DeathBudget /\ starting[p].do \notin {"rest", "told"}
    /\ deaths' = deaths + 1
    /\ lost' = IF starting[p].do \in {"truncate", "write"} THEN lost \cup {starting[p].server}
                                                           ELSE lost
    /\ starting' = [starting EXCEPT ![p] = [do |-> "dead", server |-> NoServer]]
    /\ Yield(p)
    /\ UNCHANGED <<up, used, sideRecord, halting>>

(* A server stops by itself: one that finds the port taken always may. *)
ServerDies(s) ==
    /\ s \in up
    /\ \/ up # {s} /\ UNCHANGED deaths
       \/ up = {s} /\ deaths < DeathBudget /\ deaths' = deaths + 1
    /\ up' = up \ {s}
    /\ UNCHANGED <<used, sideRecord, runtime, starting, halting, lost>>

(* stop_report reads the record; one that does not parse is an error ... *)
StopReads(q) ==
    /\ halting[q] = Rest /\ sideRecord \in Server
    /\ halting' = [halting EXCEPT ![q] = [do |-> "check", server |-> sideRecord]]
    /\ UNCHANGED <<up, used, sideRecord, runtime, starting, lost, deaths>>

(* ... the process is terminated, by force if need be, unless it is gone; one that
   survives both ends the stop ... *)
StopTerminates(q) ==
    /\ halting[q].do = "check"
    /\ \/ up' = up \ {halting[q].server} /\ halting' = [halting EXCEPT ![q].do = "kill"]
       \/ UNCHANGED up /\ halting[q].server \in up /\ halting' = [halting EXCEPT ![q] = Rest]
    /\ UNCHANGED <<used, sideRecord, runtime, starting, lost, deaths>>

(* ... and the record goes. *)
StopForgets(q) ==
    /\ halting[q].do = "kill"
    /\ RemoveRecord(halting[q].server)
    /\ halting' = [halting EXCEPT ![q] = Rest]
    /\ UNCHANGED <<up, used, runtime, starting, deaths>>

SidecarInit ==
    /\ up = {} /\ used = {} /\ sideRecord = NoServer /\ runtime = NoServer
    /\ starting = [p \in Starter |-> Rest] /\ halting = [q \in Stopper |-> Rest]
    /\ lost = {} /\ deaths = 0

StartStep(p) == \/ AcquireRuntime(p) \/ Existing(p) \/ (\E s \in Server : Spawn(p, s))
                \/ Truncate(p) \/ WriteRecord(p) \/ Watch(p) \/ Forget(p) \/ Reported(p)

SidecarNext ==
    \/ \E p \in Starter : StartStep(p) \/ StarterDies(p)
    \/ \E s \in Server : ServerDies(s)
    \/ \E q \in Stopper : StopReads(q) \/ StopTerminates(q) \/ StopForgets(q)

SidecarSpec == SidecarInit /\ [][SidecarNext]_sidecarVars

(* Every variable has its shape, and only a start before its watch holds the lease. *)
SidecarTypeOK ==
    /\ up \subseteq used /\ used \subseteq Server /\ lost \subseteq Server
    /\ sideRecord \in Server \cup {NoServer, Torn}
    /\ starting \in [Starter -> [do : Steps, server : Server \cup {NoServer}]]
    /\ halting \in [Stopper -> [do : Steps, server : Server \cup {NoServer}]]
    /\ runtime \in Starter \cup {NoServer}
    /\ \A p \in Starter :
           starting[p].do \in {"existing", "spawn", "truncate", "write"} => runtime = p

(* A server that runs can be found: the record names it, or the start that spawned it has  *)
(* yet to write it; otherwise its record was removed or overwritten for another server, or *)
(* its start was killed before writing it.  Code: start_sidecar_with_timeout's lease and   *)
(* kill paths, terminate_with_fallback before the removal.                                  *)
ServerKnown ==
    \A s \in up : \/ sideRecord = s \/ s \in lost
                  \/ \E p \in Starter : starting[p].server = s
                                        /\ starting[p].do \in {"truncate", "write"}

(* No server is spawned beside one that can still be found: of two that run, on the one    *)
(* port, one has been lost.  Code: existing::report under the lease before the spawn.       *)
OnePort == \A s, t \in up : s # t => s \in lost \/ t \in lost

(* The servers of a host: each can be found, and none stands beside another               *)
(* (start_sidecar_with_timeout, stop_report).                                              *)
ServersFound == SidecarTypeOK /\ ServerKnown /\ OnePort
=============================================================================
