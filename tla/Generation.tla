----------------------------- MODULE Generation -----------------------------
(* Admission, cancellation and release of model generations.  Client         *)
(* processes share three files: the active record, the lock behind which it  *)
(* is published and the cancel marker.  Each client also keeps, under a       *)
(* process mutex, the set of its generations that run under the record and    *)
(* the id of the one that published it.  `backend cancel` and `backend stop`  *)
(* are processes of their own; neither takes the runtime lease nor the mutex. *)
(* A file is removed by reading its id and then deleting the path, in two     *)
(* steps.  Terminal records older than five minutes are left alone here.      *)
EXTENDS Naturals, Sequences

CONSTANTS Client, First, Gens, Sides, None, Empty, CrashBudget, FaultBudget, CommandBudget

(* Ids are given in order and never twice; processes are alike, First asks first. *)
Gen == 1 .. Gens
Side == 1 .. Sides

ASSUME GenerationAssumption ==
    /\ None \notin Client \cup Gen \cup Side
    /\ Empty \notin Gen \cup {None}
    /\ Client \cap {"cancel", "stop"} = {}
    /\ First \in Client /\ Gens \in Nat /\ Sides \in Nat \ {0}
    /\ CrashBudget \in Nat /\ FaultBudget \in Nat /\ CommandBudget \in Nat

VARIABLES
    alive,      \* the client processes still running
    client,     \* the process of a generation
    bound,      \* the sidecar the generation found ready
    under,      \* the primary under which it was admitted
    stage,      \* where its request stands
    member,     \* per process: active_generation_ids
    primary,    \* per process: primary_generation_id
    call,       \* per process: the call that holds the mutex
    lease,      \* the holder of the runtime mutation lease
    file,       \* the contents of the record, the lock and the marker
    terminal,   \* the generations with a terminal record
    removal,    \* remove_generation_state_if_owned in progress, per process
    asking,     \* the cancel command
    stopping,   \* the stop command
    sidecar,    \* the sidecar a request finds ready
    heard,      \* generations that observed a cancellation
    asked, last,\* generations named by a cancel request, the latest one
    acked,      \* generations whose cancel was reported as acknowledged
    taken,      \* generations that lost a file while their process lives
    crashes, faults, commands

ownVars == <<client, bound, under, stage, member, primary, call, lease>>
commandVars == <<asking, stopping, sidecar>>
askVars == <<asked, last, acked>>
budgetVars == <<alive, crashes, faults, commands>>
generationVars == <<ownVars, file, terminal, removal, commandVars, heard, askVars, taken,
                    budgetVars>>

Idle == [do |-> "idle"]
Files == {"record", "marker", "lock"}
Stages == {"unborn", "ready", "begun", "running", "ended", "over"}
Commands == {"cancel", "stop"}
Alive(g) == client[g] \in alive
Active(g) == Alive(g) /\ g \in member[client[g]]

-----------------------------------------------------------------------------
(* remove_generation_state_if_owned goes through record, marker and lock in that order.  *)
Order == <<"record", "marker", "lock">>
Removal(g) == [id |-> g, next |-> 1, matched |-> FALSE]
NoRemoval == [id |-> None, next |-> 4, matched |-> FALSE]
Removed(p) == removal[p] = NoRemoval

(* The id in the next file is read and compared; files of others are passed over, and an
   id that is not in a file never comes back to it. *)
Owned(p) == {i \in removal[p].next .. 3 : file[Order[i]] = removal[p].id}

MatchFile(p) ==
    /\ ~Removed(p) /\ ~removal[p].matched
    /\ \/ /\ Owned(p) = {}
          /\ removal' = [removal EXCEPT ![p] = NoRemoval]
       \/ \E i \in Owned(p) :
             /\ \A j \in Owned(p) : i <= j
             /\ removal' = [removal EXCEPT ![p].next = i, ![p].matched = TRUE]
    /\ UNCHANGED <<ownVars, file, terminal, commandVars, heard, askVars, taken, budgetVars>>

(* The path is deleted, whatever it holds by now. *)
DeleteFile(p) ==
    /\ removal[p].matched
    /\ LET f == Order[removal[p].next] IN
       /\ taken' = IF file[f] \in Gen \ {removal[p].id} THEN taken \cup {file[f]} ELSE taken
       /\ file' = [file EXCEPT ![f] = None]
    /\ removal' = [removal EXCEPT ![p].next = @ + 1, ![p].matched = FALSE]
    /\ UNCHANGED <<ownVars, terminal, commandVars, heard, askVars, budgetVars>>

-----------------------------------------------------------------------------
(* A request finds a ready sidecar, before it asks for admission. *)
Ready(c, g) ==
    /\ c \in alive /\ stage[g] = "unborn" /\ sidecar # None
    /\ \A h \in 1 .. g - 1 : stage[h] # "unborn"
    /\ g = 1 => c = First
    /\ client' = [client EXCEPT ![g] = c]
    /\ bound' = [bound EXCEPT ![g] = sidecar]
    /\ stage' = [stage EXCEPT ![g] = "ready"]
    /\ UNCHANGED <<under, member, primary, call, lease, file, terminal, removal, commandVars,
                   heard, askVars, taken, budgetVars>>

At(c, step) == c \in alive /\ call[c] # Idle /\ call[c].do = step

Go(c, step) == call' = [call EXCEPT ![c].do = step]

(* The call returns an error: lease and mutex are dropped, the request is over. *)
Refused(c) ==
    /\ stage' = [stage EXCEPT ![call[c].gen] = "over"]
    /\ call' = [call EXCEPT ![c] = Idle]
    /\ lease' = IF lease = c THEN None ELSE lease
    /\ UNCHANGED <<client, bound, under, member, primary>>

(* begin_active_generation takes the process mutex and, under it, the runtime lease; one
   held for five seconds refuses the call. *)
BeginCall(g) ==
    LET c == client[g] IN
    /\ stage[g] = "ready" /\ Alive(g) /\ call[c] = Idle
    /\ \/ /\ lease = None /\ lease' = c
          /\ stage' = [stage EXCEPT ![g] = "begun"]
          /\ call' = [call EXCEPT ![c] = [do |-> "record", gen |-> g]]
       \/ /\ lease # None
          /\ stage' = [stage EXCEPT ![g] = "over"]
          /\ UNCHANGED <<lease, call>>
    /\ UNCHANGED <<client, bound, under, member, primary, file, terminal, removal,
                   commandVars, heard, askVars, taken, budgetVars>>

CanJoin(c, active, g) ==
    /\ client[active] = c /\ bound[active] = bound[g]
    /\ member[c] # {} /\ primary[c] = active

(* GenerationAdmission::register; the lease and the mutex are dropped. *)
Register(c, g, publish) ==
    /\ member' = [member EXCEPT ![c] = @ \cup {g}]
    /\ primary' = IF publish THEN [primary EXCEPT ![c] = g] ELSE primary
    /\ under' = [under EXCEPT ![g] = primary'[c]]
    /\ stage' = [stage EXCEPT ![g] = "running"]
    /\ call' = [call EXCEPT ![c] = Idle]
    /\ lease' = None
    /\ UNCHANGED <<client, bound>>

StartRemoval(p, g) == removal' = [removal EXCEPT ![p] = Removal(g)]

(* The record is read under the lease.  That of a running client admits only a joining
   generation of the same process and sidecar; that of a dead one is removed. *)
CheckRecord_Live(c) ==
    /\ At(c, "record")
    /\ LET g == call[c].gen
           active == file["record"]
       IN
       \/ /\ active = None
          /\ Go(c, "lock")
          /\ UNCHANGED <<client, bound, under, stage, member, primary, lease, removal>>
       \/ /\ active # None /\ CanJoin(c, active, g)
          /\ Register(c, g, FALSE)
          /\ UNCHANGED removal
       \/ /\ active # None /\ ~CanJoin(c, active, g)
          /\ Go(c, "clean") /\ StartRemoval(c, active)
          /\ UNCHANGED <<client, bound, under, stage, member, primary, lease>>
    /\ UNCHANGED <<file, terminal, commandVars, heard, askVars, taken, budgetVars>>

CheckRecord(c) ==
    /\ At(c, "record")
    /\ LET g == call[c].gen
           active == file["record"]
       IN
       \/ /\ active = None
          /\ Go(c, "lock")
          /\ UNCHANGED <<client, bound, under, stage, member, primary, lease, removal>>
       \/ /\ active # None /\ Alive(active) /\ CanJoin(c, active, g)
          /\ Register(c, g, FALSE)
          /\ UNCHANGED removal
       \/ /\ active # None /\ Alive(active) /\ ~CanJoin(c, active, g)
          /\ Refused(c)
          /\ UNCHANGED removal
       \/ /\ active # None /\ ~Alive(active)
          /\ Go(c, "clean") /\ StartRemoval(c, active)
          /\ UNCHANGED <<client, bound, under, stage, member, primary, lease>>
    /\ UNCHANGED <<file, terminal, commandVars, heard, askVars, taken, budgetVars>>

(* Without a record the lock is read: empty it does not parse, and a running owner is
   still publishing. *)
CheckLock(c) ==
    /\ At(c, "lock")
    /\ LET owner == file["lock"] IN
       \/ /\ owner = None
          /\ Go(c, "create")
          /\ UNCHANGED <<client, bound, under, stage, member, primary, lease, removal>>
       \/ /\ owner = Empty \/ (owner \in Gen /\ Alive(owner))
          /\ Refused(c)
          /\ UNCHANGED removal
       \/ /\ owner \in Gen /\ ~Alive(owner)
          /\ Go(c, "clean") /\ StartRemoval(c, owner)
          /\ UNCHANGED <<client, bound, under, stage, member, primary, lease>>
    /\ UNCHANGED <<file, terminal, commandVars, heard, askVars, taken, budgetVars>>

(* The clean-up is recorded as an event, which may fail and end the call. *)
Cleaned(c) ==
    /\ At(c, "clean") /\ Removed(c)
    /\ \/ /\ Go(c, "create")
          /\ UNCHANGED <<client, bound, under, stage, member, primary, lease>>
       \/ Refused(c)
    /\ UNCHANGED <<file, terminal, removal, commandVars, heard, askVars, taken, budgetVars>>

(* The lock is created: create_new refuses a lock that exists. *)
CreateLock(c) ==
    /\ At(c, "create")
    /\ \/ /\ file["lock"] = None
          /\ file' = [file EXCEPT !["lock"] = Empty]
          /\ Go(c, "write")
          /\ UNCHANGED <<client, bound, under, stage, member, primary, lease>>
       \/ /\ file["lock"] # None
          /\ Refused(c)
          /\ UNCHANGED file
    /\ UNCHANGED <<terminal, removal, commandVars, heard, askVars, taken, budgetVars>>

(* Its content is written; if that fails the path is removed. *)
WriteLock(c) ==
    /\ At(c, "write")
    /\ \/ /\ file' = [file EXCEPT !["lock"] = call[c].gen]
          /\ Go(c, "publish")
          /\ UNCHANGED <<client, bound, under, stage, member, primary, lease, faults>>
       \/ /\ faults < FaultBudget /\ faults' = faults + 1
          /\ file' = [file EXCEPT !["lock"] = None]
          /\ Refused(c)
    /\ UNCHANGED <<terminal, removal, commandVars, heard, askVars, taken, alive, crashes, commands>>

WithoutLockOf(g) == IF file["lock"] = g THEN [file EXCEPT !["lock"] = None] ELSE file

(* The record replaces the old one in one step and the generation is registered; if the
   record cannot be written the lock is given back. *)
Publish(c) ==
    /\ At(c, "publish")
    /\ LET g == call[c].gen IN
       \/ /\ file' = [file EXCEPT !["record"] = g]
          /\ Register(c, g, TRUE)
          /\ UNCHANGED faults
       \/ /\ faults < FaultBudget /\ faults' = faults + 1
          /\ file' = WithoutLockOf(g)
          /\ Refused(c)
    /\ UNCHANGED <<terminal, removal, commandVars, heard, askVars, taken, alive, crashes, commands>>

Begin(c) == \/ CheckRecord(c) \/ CheckLock(c) \/ Cleaned(c) \/ CreateLock(c)
            \/ WriteLock(c) \/ Publish(c)

-----------------------------------------------------------------------------
(* generation_cancel_requested: the marker names the generation itself, or the primary
   of the process while the generation is one of its members. *)
CancelRequested_AnyMarker(g) ==
    \/ file["marker"] = g
    \/ /\ file["marker"] # None
       /\ call[client[g]] = Idle
       /\ g \in member[client[g]]

CancelRequested(g) ==
    \/ file["marker"] = g
    \/ /\ file["marker"] # None
       /\ call[client[g]] = Idle
       /\ primary[client[g]] = file["marker"]
       /\ g \in member[client[g]]

EndStream_NoDeadline(g) ==
    /\ stage[g] = "running" /\ Alive(g)
    /\ stage' = [stage EXCEPT ![g] = "ended"]
    /\ \/ /\ CancelRequested(g)
          /\ heard' = heard \cup {g}
       \/ bound[g] = sidecar /\ UNCHANGED heard
    /\ terminal' \in {terminal, terminal \cup {g}}
    /\ UNCHANGED <<client, bound, under, member, primary, call, lease, file, removal,
                   commandVars, askVars, taken, budgetVars>>

(* The preflight or the stream ends: cancelled, completed, failed or timed out.  It writes
   its terminal record, unless an error on the way ends the call first. *)
EndStream(g) ==
    /\ stage[g] = "running" /\ Alive(g)
    /\ stage' = [stage EXCEPT ![g] = "ended"]
    /\ \/ /\ CancelRequested(g)
          /\ heard' = heard \cup {g}
       \/ UNCHANGED heard
    /\ terminal' \in {terminal, terminal \cup {g}}
    /\ UNCHANGED <<client, bound, under, member, primary, call, lease, file, removal,
                   commandVars, askVars, taken, budgetVars>>

(* release_generation_admission, under the mutex: the last member of the process takes
   the files of the primary with it, an earlier one only leaves the set. *)
Release(g) ==
    LET c == client[g] IN
    /\ stage[g] = "ended" /\ Alive(g) /\ call[c] = Idle
    /\ member' = [member EXCEPT ![c] = @ \ {g}]
    /\ \/ /\ member[c] # {g}
          /\ stage' = [stage EXCEPT ![g] = "over"]
          /\ UNCHANGED <<primary, call, removal>>
       \/ /\ member[c] = {g}
          /\ primary' = [primary EXCEPT ![c] = None]
          /\ call' = [call EXCEPT ![c] = [do |-> "release", gen |-> g]]
          /\ StartRemoval(c, primary[c])
          /\ UNCHANGED stage
    /\ UNCHANGED <<client, bound, under, lease, file, terminal, commandVars, heard,
                   askVars, taken, budgetVars>>

ReleaseDone(c) ==
    /\ At(c, "release") /\ Removed(c)
    /\ stage' = [stage EXCEPT ![call[c].gen] = "over"]
    /\ call' = [call EXCEPT ![c] = Idle]
    /\ UNCHANGED <<client, bound, under, member, primary, lease, file, terminal, removal,
                   commandVars, heard, askVars, taken, budgetVars>>

(* The process of a client stops; the lease it held is recovered from a dead owner. *)
Crash(c) ==
    /\ c \in alive /\ crashes < CrashBudget
    /\ crashes' = crashes + 1 /\ alive' = alive \ {c}
    /\ call' = [call EXCEPT ![c] = Idle]
    /\ removal' = [removal EXCEPT ![c] = NoRemoval]
    /\ lease' = IF lease = c THEN None ELSE lease
    /\ UNCHANGED <<client, bound, under, stage, member, primary, file, terminal, commandVars,
                   heard, askVars, taken, faults, commands>>

-----------------------------------------------------------------------------
Commanded ==
    /\ commands < CommandBudget
    /\ commands' = commands + 1

(* write_generation_cancel_marker replaces the one marker file. *)
Mark(g) ==
    /\ file' = [file EXCEPT !["marker"] = g]
    /\ asked' = asked \cup {g} /\ last' = g

(* cancel_generation_report: the record is read ... *)
CancelRead ==
    /\ asking = Idle /\ file["record"] # None
    /\ Commanded
    /\ asking' = [do |-> "check", gen |-> file["record"]]
    /\ UNCHANGED <<ownVars, file, terminal, removal, stopping, sidecar, heard, askVars, taken,
                   alive, crashes, faults>>

(* ... a dead client's files are removed, a running one is sent the marker ... *)
CancelCheck ==
    /\ asking.do = "check"
    /\ LET g == asking.gen IN
       \/ /\ ~Alive(g)
          /\ StartRemoval("cancel", g) /\ asking' = [asking EXCEPT !.do = "clean"]
          /\ UNCHANGED <<file, askVars>>
       \/ /\ Alive(g)
          /\ Mark(g) /\ asking' = [asking EXCEPT !.do = "terminal"]
          /\ UNCHANGED <<removal, acked>>
    /\ UNCHANGED <<ownVars, terminal, stopping, sidecar, heard, taken, budgetVars>>

CancelCleaned ==
    /\ asking.do = "clean" /\ Removed("cancel")
    /\ asking' = Idle
    /\ UNCHANGED <<ownVars, file, terminal, removal, stopping, sidecar, heard, askVars, taken,
                   budgetVars>>

(* ... its terminal record is awaited ... *)
CancelHeard ==
    /\ asking.do = "terminal" /\ asking.gen \in terminal
    /\ asking' = [asking EXCEPT !.do = "group"]
    /\ UNCHANGED <<ownVars, file, terminal, removal, stopping, sidecar, heard, askVars, taken,
                   budgetVars>>

(* ... then the release of its record, which alone reports "acknowledged" ... *)
CancelAcknowledged ==
    /\ asking.do = "group" /\ file["record"] # asking.gen
    /\ acked' = acked \cup {asking.gen}
    /\ terminal' = terminal \ {asking.gen}
    /\ asking' = Idle
    /\ UNCHANGED <<ownVars, file, removal, stopping, sidecar, heard, asked, last, taken,
                   budgetVars>>

(* ... and after two seconds either wait is given up as "requested". *)
CancelTimeout ==
    /\ asking.do \in {"terminal", "group"}
    /\ asking' = Idle
    /\ UNCHANGED <<ownVars, file, terminal, removal, stopping, sidecar, heard, askVars, taken,
                   budgetVars>>

CancelCommand == CancelRead \/ CancelCheck \/ CancelCleaned \/ CancelHeard
                 \/ CancelAcknowledged \/ CancelTimeout

-----------------------------------------------------------------------------
(* stop_report of the sidecar it finds recorded: a generation of that sidecar is asked
   to cancel, or cleaned if its client is dead ... *)
StopAsk ==
    /\ stopping = Idle /\ sidecar # None
    /\ Commanded
    /\ LET g == file["record"] IN
       \/ /\ g = None \/ (g \in Gen /\ bound[g] # sidecar)
          /\ stopping' = [do |-> "kill", gen |-> None]
          /\ UNCHANGED <<file, removal, askVars>>
       \/ /\ g \in Gen /\ bound[g] = sidecar /\ Alive(g)
          /\ Mark(g)
          /\ stopping' = [do |-> "wait", gen |-> g]
          /\ UNCHANGED <<removal, acked>>
       \/ /\ g \in Gen /\ bound[g] = sidecar /\ ~Alive(g)
          /\ StartRemoval("stop", g)
          /\ stopping' = [do |-> "clean", gen |-> g]
          /\ UNCHANGED <<file, askVars>>
    /\ UNCHANGED <<ownVars, terminal, asking, sidecar, heard, taken, alive, crashes, faults>>

(* ... its terminal record lets the stop remove the files, whoever still runs under them ... *)
StopHeard ==
    /\ stopping.do = "wait" /\ stopping.gen \in terminal
    /\ StartRemoval("stop", stopping.gen)
    /\ taken' = taken \cup {stopping.gen}
    /\ stopping' = [stopping EXCEPT !.do = "forget"]
    /\ UNCHANGED <<ownVars, file, terminal, asking, sidecar, heard, askVars, budgetVars>>

(* ... no answer in five seconds leaves them ... *)
StopTimeout ==
    /\ stopping.do = "wait"
    /\ stopping' = [stopping EXCEPT !.do = "kill"]
    /\ UNCHANGED <<ownVars, file, terminal, removal, asking, sidecar, heard, askVars, taken,
                   budgetVars>>

StopCleaned ==
    /\ stopping.do \in {"clean", "forget"} /\ Removed("stop")
    /\ terminal' = IF stopping.do = "forget" THEN terminal \ {stopping.gen} ELSE terminal
    /\ stopping' = [stopping EXCEPT !.do = "kill"]
    /\ UNCHANGED <<ownVars, file, removal, asking, sidecar, heard, askVars, taken, budgetVars>>

(* ... and the sidecar is terminated and its record removed. *)
StopKill ==
    /\ stopping.do = "kill"
    /\ sidecar' = None /\ stopping' = Idle
    /\ UNCHANGED <<ownVars, file, terminal, removal, asking, heard, askVars, taken, budgetVars>>

StopCommand == StopAsk \/ StopHeard \/ StopTimeout \/ StopCleaned \/ StopKill

Bound == {bound[g] : g \in Gen}

(* Another sidecar is started, under the runtime lease; no process id is used twice. *)
Restart(s) ==
    /\ sidecar = None /\ lease = None
    /\ s \notin Bound /\ 1 .. s - 1 \subseteq Bound
    /\ sidecar' = s
    /\ UNCHANGED <<ownVars, file, terminal, removal, asking, stopping, heard, askVars, taken,
                   budgetVars>>

-----------------------------------------------------------------------------
GenerationInit ==
    /\ alive = Client
    /\ client = [g \in Gen |-> None] /\ bound = [g \in Gen |-> None]
    /\ under = [g \in Gen |-> None] /\ stage = [g \in Gen |-> "unborn"]
    /\ member = [c \in Client |-> {}] /\ primary = [c \in Client |-> None]
    /\ call = [c \in Client |-> Idle] /\ lease = None
    /\ file = [f \in Files |-> None] /\ terminal = {}
    /\ removal = [p \in Client \cup Commands |-> NoRemoval]
    /\ asking = Idle /\ stopping = Idle
    /\ sidecar = 1
    /\ heard = {} /\ asked = {} /\ last = None /\ acked = {} /\ taken = {}
    /\ crashes = 0 /\ faults = 0 /\ commands = 0

ClientStep(c) == Begin(c) \/ ReleaseDone(c) \/ MatchFile(c) \/ DeleteFile(c)

GenerationNext ==
    \/ \E c \in Client : ClientStep(c) \/ Crash(c) \/ (\E g \in Gen : Ready(c, g))
    \/ \E g \in Gen : BeginCall(g) \/ EndStream(g) \/ Release(g)
    \/ \E p \in Commands : MatchFile(p) \/ DeleteFile(p)
    \/ CancelCommand \/ StopCommand
    \/ \E s \in Side : Restart(s)

(* A running process goes on with the call it made, and the deadline of a request ends
   its stream; a step of the user is never owed. *)
GenerationFairness ==
    /\ \A c \in Client : WF_generationVars(ClientStep(c))
    /\ \A g \in Gen : WF_generationVars(EndStream(g) \/ Release(g))

GenerationSpec == GenerationInit /\ [][GenerationNext]_generationVars /\ GenerationFairness

-----------------------------------------------------------------------------
(* Every variable has its shape, and the members of a process and its primary come and  *)
(* go together.  Code: GenerationAdmission::register, release.                           *)
CallOK(c) == call[c] = Idle \/ (call[c].gen \in Gen /\ client[call[c].gen] = c)

GenerationTypeOK ==
    /\ alive \subseteq Client
    /\ client \in [Gen -> Client \cup {None}] /\ bound \in [Gen -> Side \cup {None}]
    /\ under \in [Gen -> Gen \cup {None}] /\ stage \in [Gen -> Stages]
    /\ member \in [Client -> SUBSET Gen] /\ primary \in [Client -> Gen \cup {None}]
    /\ \A c \in Client : (member[c] = {}) <=> (primary[c] = None)
    /\ \A c \in Client : CallOK(c)
    /\ lease \in Client \cup {None}
    /\ file["record"] \in Gen \cup {None} /\ file["marker"] \in Gen \cup {None}
    /\ file["lock"] \in Gen \cup {None, Empty}
    /\ sidecar \in Side \cup {None}
    /\ terminal \cup heard \cup asked \cup acked \cup taken \subseteq Gen

(* The generations that run at one time belong to one client process, unless the files  *)
(* of one of them were taken: by a stop that had its terminal record, or by a remover    *)
(* that had read an older id.  Code: begin_active_generation's checks under the lease,   *)
(* and the order in which record, marker and lock are removed.                           *)
OneClient ==
    \A g, h \in Gen : Active(g) /\ Active(h) /\ client[g] # client[h]
        => {under[g], under[h]} \cap taken # {}

(* A generation ends as cancelled only when a request named it, or the primary it was    *)
(* admitted under, or that primary's files had been taken and its process published      *)
(* another.  Code: cancellation_applies.                                                  *)
CancelScope ==
    \A g \in heard : \E a \in asked :
        \/ a \in {g, under[g]}
        \/ client[a] = client[g] /\ under[g] \in taken

(* The marker of the latest request stays while a generation of its group still runs, so *)
(* that each of them can see it.  Code: release keeps the files until the last member.    *)
MarkerHeld ==
    \A g \in Gen : stage[g] = "running" /\ Alive(g) /\ under[g] = last /\ last \notin taken
        => file["marker"] = last

(* A cancel reported as acknowledged has ended the whole group.                          *)
(* Code: cancel_generation_report waits for the group's release.                         *)
Acknowledged ==
    \A g \in Gen : Active(g) /\ under[g] \in acked => under[g] \in taken

Quiet == /\ \A g \in Gen : ~Active(g)
         /\ \A p \in Client \cup Commands : Removed(p)
         /\ \A c \in alive : call[c] = Idle

(* When no generation runs, nothing on disk refuses the next one: a record or a lock left *)
(* behind names a dead client, except the empty lock of a client that stopped while it   *)
(* published.  Code: every way out of begin_active_generation and of a release.           *)
Reopens ==
    Quiet => /\ file["record"] # None => ~Alive(file["record"])
             /\ file["lock"] \in Gen => ~Alive(file["lock"])
             /\ file["lock"] = Empty => crashes > 0

(* What runs under one record and what the next request finds (begin_active_generation),  *)
(* and what a cancel request does to the generations it finds, and to no others            *)
(* (write_generation_cancel_marker, generation_cancel_requested, release).                 *)
AdmissionKept ==
    GenerationTypeOK /\ OneClient /\ Reopens /\ CancelScope /\ MarkerHeld /\ Acknowledged

(* A request for admission is refused or admitted, and an admitted generation is released, *)
(* or its process has stopped: no order of the mutex, the lease and the removals leaves it *)
(* waiting.  Code: begin_active_generation, release_generation_admission.                  *)
Settles == \A g \in Gen : []<>(stage[g] \in {"unborn", "ready", "over"} \/ ~Alive(g))
=============================================================================
