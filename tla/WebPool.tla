------------------------------ MODULE WebPool ------------------------------
(***************************************************************************)
(* The pool that runs blocking web transport                               *)
(* (web_search_adapter/research_flow/network_call.rs).  Each worker has a  *)
(* bounded channel of its own; a call offers its job to the workers in     *)
(* turn, once, and then waits for the answer in short polls, until it is   *)
(* cancelled or its budget is spent.  A call that gave up leaves its job   *)
(* with the pool: it runs when its worker comes to it, and its answer goes *)
(* nowhere.  How long a transport takes is not the pool's to say.          *)
(***************************************************************************)
EXTENDS Naturals, Sequences

CONSTANTS
  Caller,     \* threads that make calls
  Workers,    \* WEB_WORKER_COUNT
  Slots,      \* QUEUED_JOBS_PER_WORKER
  MaxCalls,   \* calls made in all
  NoJob

Worker == 0 .. Workers - 1
Job == 1 .. MaxCalls

ASSUME WebPoolAssumption ==
  /\ {Workers, Slots, MaxCalls} \subseteq Nat \ {0}
  /\ NoJob \notin Nat

VARIABLES
  next,     \* next_worker
  channel,  \* the jobs queued for each worker
  active,   \* the job each worker runs
  stuck,    \* workers whose transport never returns
  over,     \* the jobs whose answer is sent, or dropped by a panic
  caller,   \* the calls under way
  calls     \* calls made so far

webPoolVars == <<next, channel, active, stuck, over, caller, calls>>

Free == [at |-> "idle", job |-> NoJob, start |-> 0, tried |-> 0]

WebPoolInit ==
  /\ next = 0 /\ calls = 0
  /\ channel = [w \in Worker |-> <<>>]
  /\ active = [w \in Worker |-> NoJob]
  /\ stuck = {}
  /\ over = {}
  /\ caller = [c \in Caller |-> Free]

\* run, submit: a call that is not cancelled takes its place in the round.
Submit(c) ==
  /\ caller[c].at = "idle" /\ calls < MaxCalls
  /\ calls' = calls + 1
  /\ next' = (next + 1) % Workers
  /\ caller' = [caller EXCEPT ![c] = [at |-> "submit", job |-> calls + 1,
                                      start |-> next % Workers, tried |-> 0]]
  /\ UNCHANGED <<channel, active, over, stuck>>

\* One try_send; a call that found every channel full is refused.
Offer(c) ==
  LET w == (caller[c].start + caller[c].tried) % Workers
  IN  /\ caller[c].at = "submit"
      /\ IF Len(channel[w]) < Slots
         THEN /\ channel' = [channel EXCEPT ![w] = Append(@, caller[c].job)]
              /\ caller' = [caller EXCEPT ![c].at = "wait"]
         ELSE /\ IF caller[c].tried + 1 = Workers
                 THEN caller' = [caller EXCEPT ![c] = Free]
                 ELSE caller' = [caller EXCEPT ![c].tried = @ + 1]
              /\ UNCHANGED channel
      /\ UNCHANGED <<next, active, over, calls, stuck>>

\* defect: a call that gives up waits for its job all the same
Await_AnswerOnly(c) ==
  /\ caller[c].at = "wait" /\ caller[c].job \in over
  /\ caller' = [caller EXCEPT ![c] = Free]
  /\ UNCHANGED <<next, channel, active, over, calls, stuck>>

\* The call returns: with the answer that came, or because it was cancelled or its
\* budget is spent, and one of these it will be.
Await(c) ==
  /\ caller[c].at = "wait"
  /\ caller' = [caller EXCEPT ![c] = Free]
  /\ UNCHANGED <<next, channel, active, over, calls, stuck>>

\* A worker that is free takes the oldest job of its channel.
Receive(w) ==
  /\ active[w] = NoJob /\ channel[w] # <<>>
  /\ active' = [active EXCEPT ![w] = Head(channel[w])]
  /\ channel' = [channel EXCEPT ![w] = Tail(@)]
  /\ UNCHANGED <<next, over, caller, calls, stuck>>

\* The transport returns, or panics and the worker catches it.
Complete(w) ==
  /\ active[w] # NoJob /\ w \notin stuck
  /\ active' = [active EXCEPT ![w] = NoJob]
  /\ over' = over \cup {active[w]}
  /\ UNCHANGED <<next, channel, caller, calls, stuck>>

\* A transport that hangs, in a name lookup say, which the timeouts do not reach.
Hang(w) ==
  /\ active[w] # NoJob /\ active[w] \notin over
  /\ stuck' = stuck \cup {w}
  /\ UNCHANGED <<next, channel, active, over, caller, calls>>

WebPoolNext ==
  \/ \E c \in Caller : Submit(c) \/ Offer(c) \/ Await(c)
  \/ \E w \in Worker : Receive(w) \/ Complete(w) \/ Hang(w)

\* Callers and workers keep running, and a transport that does not hang returns.
WebPoolFairness ==
  /\ \A c \in Caller : WF_webPoolVars(Offer(c)) /\ WF_webPoolVars(Await(c))
  /\ \A w \in Worker : WF_webPoolVars(Receive(w)) /\ WF_webPoolVars(Complete(w))

WebPoolSpec == WebPoolInit /\ [][WebPoolNext]_webPoolVars /\ WebPoolFairness

-----------------------------------------------------------------------------
\* The places of the pool where job j is: 0 stands for being run, i for a queue place.
Stands(j, w, i) ==
  IF i = 0 THEN active[w] = j ELSE i <= Len(channel[w]) /\ channel[w][i] = j

Places(j) == {place \in Worker \X (0 .. Slots) : Stands(j, place[1], place[2])}

\* network_call.rs:82: the pool holds no more than a job under way and Slots queued ones for
\* each worker, a job is in one place and never comes back, and a call waits only for a
\* job that is in the pool or over.
JobsPlaced ==
  /\ calls \in 0 .. MaxCalls /\ next \in Worker
  /\ \A w \in Worker : Len(channel[w]) <= Slots /\ active[w] \in Job \cup {NoJob}
  /\ \A j \in Job : \A a, b \in Places(j) : a = b /\ j \notin over
  /\ \A c \in Caller : caller[c].at = "wait" =>
       Places(caller[c].job) # {} \/ caller[c].job \in over

\* network_call.rs:129: every call returns, however long its transport takes.
CallReturns == \A c \in Caller : []<>(caller[c].at = "idle")

\* network_call.rs:67: a job the pool took is run, also one behind a job that panicked, and
\* also after its call gave up, unless the transport of its own worker hangs.
JobsRun ==
  /\ [][\A j \in Job : Places(j) # {} => Places(j)' # {} \/ j \in over']_webPoolVars
  /\ \A j \in Job : []<>(\A pl \in Places(j) : pl[1] \in stuck)

\* network_call.rs:60-140: the pool loses no job, keeps no caller and forgets no queue.
PoolServes == []JobsPlaced /\ CallReturns /\ JobsRun
=============================================================================
