----------------------------- MODULE LocalTurn ------------------------------
(***************************************************************************)
(* One project-scoped request of the terminal: the loop that lets the      *)
(* model read the project with tools before it answers                     *)
(* (tui_adapter/runtime/request/support/local_execution.rs, with the       *)
(* budgets of local_loop_state.rs and the bounded processes of             *)
(* local_tools/command.rs).                                                *)
(*                                                                         *)
(* Four actors interleave: the request thread, the user who may press      *)
(* Ctrl+C, the clock, and the process a command tool runs, which may leave *)
(* a descendant that keeps the output pipe open.  A model generation is    *)
(* external here: it returns within the time it was given (module          *)
(* Generation is about that).  Times are in units of one tool window.      *)
(***************************************************************************)
EXTENDS Naturals, FiniteSets

CONSTANTS
  ToolCall,            \* normalized tool calls the model may ask for
  Command,         \* those that run a process: a command, or git for a search
  MaxModelTurns, MaxToolCalls,
  ModelWindow, ToolWindow, Reserve,
  MaxObservation, MaxCumulative,
  Size             \* the sizes a tool's output may have

ASSUME LocalTurnAssumption ==
  /\ Command \subseteq ToolCall
  /\ {MaxModelTurns, MaxToolCalls, MaxObservation, MaxCumulative} \subseteq Nat
  /\ {ModelWindow, ToolWindow} \subseteq Nat \ {0}
  /\ Reserve \in Nat
  /\ Size \subseteq Nat

VARIABLES
  place,      \* where the request thread is
  turns,      \* model_turns
  admitted,   \* normalized_calls; its size is admitted_tool_calls
  errors,     \* consecutive_protocol_errors
  bytes,      \* cumulative_observation_bytes
  pushed,     \* what the prompt holds: bytes of tool output
  seen,       \* tool observations given back to the model
  tool,      \* the call being executed
  clock,      \* elapsed time of the request
  limit,      \* when the running model turn or tool must have stopped
  token,      \* the cancellation token
  child,      \* the command's process: "none", "running", "exited"
  pipe,       \* somebody still holds the write end of its output
  ran,        \* history: the calls that were executed, and how often
  slack,      \* history: time spent between model turns and tools (at most Reserve + 1)
  whole,      \* history: model turns that were given their whole window
  outcome

localTurnVars == <<place, turns, admitted, errors, bytes, pushed, seen, tool, clock,
                   limit, token, child, pipe, ran, slack, whole, outcome>>

budgets == <<turns, admitted, errors, bytes>>
given   == <<pushed, seen>>
process == <<child, pipe>>
history == <<ran, slack, whole>>

NoCall == "none"
Guaranteed == 3

\* The request deadline: three whole model turns, one tool, and a reserve.
RequestTimeout == ModelWindow * Guaranteed + ToolWindow + Reserve

LocalTurnInit ==
  /\ place = "idle"
  /\ turns = 0 /\ admitted = {} /\ errors = 0 /\ bytes = 0
  /\ pushed = 0 /\ seen = 0
  /\ tool = NoCall
  /\ clock = 0 /\ limit = 0
  /\ token = FALSE
  /\ child = "none" /\ pipe = FALSE
  /\ ran = [c \in ToolCall |-> 0] /\ slack = 0 /\ whole = 0
  /\ outcome = "none"

Least(a, b) == IF a <= b THEN a ELSE b

InTime == clock < RequestTimeout

Remaining == RequestTimeout - clock

\* The thread leaves the loop: with an answer, a proposal, or an error.
Leave(how) ==
  /\ place' = "left"
  /\ outcome' = how

Resume == place' = "loop" /\ UNCHANGED outcome

-----------------------------------------------------------------------------
(* The decision turn                                                       *)

\* begin_model_turn; its two refusals end the request.
BeginTurn(next) ==
  \/ /\ ~InTime
     /\ Leave("deadline")
     /\ UNCHANGED turns
  \/ /\ InTime /\ turns >= MaxModelTurns
     /\ Leave("turns")
     /\ UNCHANGED turns
  \/ /\ InTime /\ turns < MaxModelTurns
     /\ turns' = turns + 1
     /\ place' = next
     /\ UNCHANGED outcome

\* execute_local_turn: the user has sent a request and its thread begins.
Submitted ==
  /\ place = "idle"
  /\ place' = "loop"
  /\ UNCHANGED <<budgets, given, tool, clock, limit, token, process, history, outcome>>

\* The head of the loop looks at the token, then counts a model turn.
Loop ==
  /\ place = "loop"
  /\ \/ token /\ Leave("cancelled") /\ UNCHANGED turns
     \/ ~token /\ BeginTurn("prompt")
  /\ UNCHANGED <<admitted, errors, bytes, given, tool, clock, limit, token, process, history>>

\* The prompt took time to build: the time left is read again, and bounds the turn.
StartModel(next) ==
  \/ ~InTime /\ Leave("deadline") /\ UNCHANGED <<limit, whole>>
  \/ /\ InTime
     /\ place' = next
     /\ limit' = clock + Least(ModelWindow, Remaining)
     /\ whole' = IF ModelWindow <= Remaining THEN whole + 1 ELSE whole
     /\ UNCHANGED outcome

Ask ==
  /\ place = "prompt"
  /\ StartModel("model")
  /\ UNCHANGED <<budgets, given, tool, clock, token, process, ran, slack>>

\* A generation that failed is the deadline's failure when no time is left.
ModelFails ==
  /\ place \in {"model", "answering"}
  /\ Leave(IF InTime THEN "failed" ELSE "deadline")
  /\ limit' = 0
  /\ UNCHANGED <<budgets, given, tool, clock, token, process, history>>

\* A candidate: the token is looked at once more, then the decision is parsed.
ModelDecides ==
  /\ place = "model"
  /\ \/ token /\ Leave("cancelled") /\ UNCHANGED tool
     \/ /\ ~token
        /\ \/ place' \in {"answer", "mutation", "malformed"} /\ UNCHANGED tool
           \/ place' = "call" /\ tool' \in ToolCall
        /\ UNCHANGED outcome
  /\ limit' = 0
  /\ UNCHANGED <<budgets, given, clock, token, process, history>>

-----------------------------------------------------------------------------
(* What the decision leads to                                              *)

\* protocol_error: the first of a streak is put to the model, the second ends.
ProtocolError ==
  /\ errors' = errors + 1
  /\ IF errors' > 1 THEN Leave("protocol") ELSE Resume

\* A candidate that does not parse, or names a tool nobody advertised.
Malformed ==
  /\ place = "malformed"
  /\ \/ ~InTime /\ Leave("deadline") /\ UNCHANGED errors
     \/ InTime /\ ProtocolError
  /\ UNCHANGED <<turns, admitted, bytes, given, tool, clock, limit, token, process, history>>

\* admit_tool_call
AdmitCall_Forgets ==
  /\ InTime
  /\ tool \notin admitted
  /\ Cardinality(admitted) < MaxToolCalls
  /\ admitted' = {tool}
  /\ errors' = 0
  /\ place' = "execute"
  /\ UNCHANGED outcome

AdmitCall ==
  \/ ~InTime /\ Leave("deadline") /\ UNCHANGED <<admitted, errors>>
  \/ InTime /\ tool \in admitted /\ Leave("repeat") /\ UNCHANGED <<admitted, errors>>
  \/ /\ InTime /\ tool \notin admitted
     /\ Cardinality(admitted) >= MaxToolCalls
     /\ Leave("calls")
     /\ UNCHANGED <<admitted, errors>>
  \/ /\ InTime /\ tool \notin admitted
     /\ Cardinality(admitted) < MaxToolCalls
     /\ admitted' = admitted \cup {tool}
     /\ errors' = 0
     /\ place' = "execute"
     /\ UNCHANGED outcome

Admit ==
  /\ place = "call"
  /\ AdmitCall
  /\ UNCHANGED <<turns, bytes, given, tool, clock, limit, token, process, history>>

\* admit_answer: an answer needs a tool call first; else it is a protocol error.
AdmitAnswer ==
  \/ ~InTime /\ Leave("deadline") /\ UNCHANGED <<turns, errors>>
  \/ InTime /\ admitted = {} /\ ProtocolError /\ UNCHANGED turns
  \/ InTime /\ admitted # {} /\ BeginTurn("answering_prompt") /\ UNCHANGED errors

Answer ==
  /\ place = "answer"
  /\ AdmitAnswer
  /\ UNCHANGED <<admitted, bytes, given, tool, clock, limit, token, process, history>>

StartAnswer ==
  /\ place = "answering_prompt"
  /\ StartModel("answering")
  /\ UNCHANGED <<budgets, given, tool, clock, token, process, ran, slack>>

\* terminal_decision(false): an answer that is complete too late is dropped.
Answered == Leave(IF InTime THEN "answer" ELSE "deadline")

FinishAnswer ==
  /\ place = "answering"
  /\ Answered
  /\ limit' = 0
  /\ UNCHANGED <<budgets, given, tool, clock, token, process, history>>

\* terminal_decision(true), then the agent run that stores the proposal.
Propose ==
  /\ place = "mutation"
  /\ \/ Leave(IF InTime THEN "mutation" ELSE "deadline")
     \/ InTime /\ Leave("failed")
  /\ UNCHANGED <<budgets, given, tool, clock, limit, token, process, history>>

-----------------------------------------------------------------------------
(* The tool                                                                *)

\* The observation a tool ended with, cut to what the budgets leave.
Allowed == Least(MaxObservation, MaxCumulative - bytes)

\* record_observation
Observe(status, size) ==
  LET kept      == Least(size, Allowed)
      exhausted == bytes >= MaxCumulative \/ size > MaxCumulative - bytes
  IN  /\ bytes' = bytes + kept
      /\ \/ ~InTime /\ Leave("deadline") /\ UNCHANGED <<errors, given>>
         \/ InTime /\ exhausted /\ Leave("bytes") /\ UNCHANGED <<errors, given>>
         \/ /\ InTime /\ ~exhausted /\ status \in {"cancelled", "timeout"}
            /\ Leave(status)
            /\ UNCHANGED <<errors, given>>
         \/ /\ InTime /\ ~exhausted /\ status = "malformed"
            /\ ProtocolError
            /\ IF errors' > 1 THEN UNCHANGED given
               ELSE pushed' = pushed + kept /\ seen' = seen + 1
         \/ /\ InTime /\ ~exhausted /\ status = "done"
            /\ Resume
            /\ pushed' = pushed + kept /\ seen' = seen + 1
            /\ UNCHANGED errors

\* The time left is read, and the tool starts: with a token set it only reports it.
\* A command that is refused before its spawn, and a search without git, run nothing.
Execute ==
  /\ place = "execute"
  /\ \/ ~InTime /\ Leave("deadline") /\ UNCHANGED <<limit, ran, child, pipe>>
     \/ /\ InTime
        /\ limit' = clock + Least(ToolWindow, Remaining)
        /\ UNCHANGED outcome
        /\ \/ token /\ place' = "stopped" /\ UNCHANGED <<ran, child, pipe>>
           \/ /\ ~token
              /\ ran' = [ran EXCEPT ![tool] = @ + 1]
              /\ \/ /\ tool \in Command
                    /\ place' = "running" /\ child' = "running" /\ pipe' = TRUE
                 \/ place' = "reading" /\ UNCHANGED process
  /\ UNCHANGED <<budgets, given, tool, clock, token, slack, whole>>

\* A file, directory or search tool, which looks at token and time as it reads.
Read ==
  /\ place = "reading"
  /\ \E size \in Size, status \in {"done", "malformed"} \cup (IF token THEN {"cancelled"} ELSE {})
                                  \cup (IF clock >= limit THEN {"timeout"} ELSE {}) :
       Observe(status, size)
  /\ limit' = 0
  /\ UNCHANGED <<turns, admitted, tool, clock, token, process, history>>

\* The token was set before the tool began: its observation says so.
Stopped ==
  /\ place = "stopped"
  /\ Observe("cancelled", 1)
  /\ limit' = 0
  /\ UNCHANGED <<turns, admitted, tool, clock, token, process, history>>

\* run_bounded polls: token, then time, then the process.  A stop kills the group.
Kill == child' = "none" /\ pipe' = FALSE

Poll_NoTimeout ==
  \/ token /\ Kill /\ Observe("cancelled", 1)
  \/ ~token /\ child = "exited" /\ place' = "joining"
     /\ UNCHANGED <<process, outcome, bytes, errors, given>>

Poll ==
  \/ token /\ child = "running" /\ Kill /\ Observe("cancelled", 1)
  \/ token /\ child = "exited" /\ Observe("cancelled", 1) /\ UNCHANGED process
  \/ ~token /\ clock >= limit /\ child = "running" /\ Kill /\ Observe("timeout", 1)
  \/ ~token /\ clock >= limit /\ child = "exited" /\ Observe("timeout", 1) /\ UNCHANGED process
  \/ ~token /\ clock < limit /\ child = "exited" /\ place' = "joining"
     /\ UNCHANGED <<process, outcome, bytes, errors, given>>

PollTool ==
  /\ place = "running"
  /\ Poll
  /\ UNCHANGED <<turns, admitted, tool, clock, limit, token, history>>

\* The readers end when the pipe closes; nothing is polled meanwhile.  The output of a
\* command is its observation, that of a search the list of the files it then reads.
Join ==
  /\ place = "joining"
  /\ ~pipe
  /\ \/ (\E size \in Size : Observe("done", size)) /\ limit' = 0
     \/ place' = "reading" /\ UNCHANGED <<limit, outcome, bytes, errors, given>>
  /\ child' = "none"
  /\ UNCHANGED <<turns, admitted, tool, clock, token, pipe, history>>

\* The process ends by itself, alone or leaving a descendant that holds the pipe.
ToolExits ==
  /\ child = "running"
  /\ child' = "exited"
  /\ pipe' \in BOOLEAN
  /\ UNCHANGED <<place, budgets, given, tool, clock, limit, token, history, outcome>>

DescendantExits ==
  /\ child = "exited" /\ pipe
  /\ pipe' = FALSE
  /\ UNCHANGED <<place, budgets, given, tool, clock, limit, token, child, history, outcome>>

-----------------------------------------------------------------------------
(* User, clock, and the end of the request                                 *)

\* Ctrl+C, or a terminal that fails: the controller sets the token.
Cancel ==
  /\ ~token /\ place \notin {"idle", "done"}
  /\ token' = TRUE
  /\ UNCHANGED <<place, budgets, given, tool, clock, limit, process, history, outcome>>

\* Time passes.  A model generation never outlasts the time it was given; a poll
\* comes every few milliseconds, so a command is stopped within one unit of its limit.
Tick ==
  /\ place \notin {"idle", "left", "done"}
  /\ clock <= RequestTimeout
  /\ place \in {"model", "answering"} => clock < limit
  /\ place = "running" => clock <= limit
  /\ clock' = clock + 1
  /\ slack' = IF place \in {"loop", "prompt", "answering_prompt"}
              THEN Least(slack + 1, Reserve + 1) ELSE slack
  /\ UNCHANGED <<place, budgets, given, tool, limit, token, process, ran, whole, outcome>>

\* request::execute and submit_request_with_progress: a token that is set by now
\* turns every result into a cancelled request.
ReportTurn ==
  /\ place = "left"
  /\ place' = "done"
  /\ outcome' = IF token THEN "cancelled" ELSE outcome
  /\ UNCHANGED <<budgets, given, tool, clock, limit, token, process, history>>

Thread ==
  \/ Loop \/ Ask \/ ModelFails \/ ModelDecides \/ Malformed \/ Admit \/ Answer
  \/ StartAnswer \/ FinishAnswer \/ Propose \/ Execute \/ Read \/ Stopped
  \/ PollTool \/ Join \/ ReportTurn

LocalTurnNext == Submitted \/ Thread \/ ToolExits \/ DescendantExits \/ Cancel \/ Tick

\* The thread runs, time passes, and what a command left behind ends some day.
\* Nothing makes the command itself end.
LocalTurnFairness ==
  /\ WF_localTurnVars(Thread)
  /\ WF_localTurnVars(Tick)
  /\ WF_localTurnVars(DescendantExits)

LocalTurnSpec == LocalTurnInit /\ [][LocalTurnNext]_localTurnVars /\ LocalTurnFairness

-----------------------------------------------------------------------------
TurnStages == {"idle", "loop", "prompt", "model", "answer", "mutation", "malformed", "call", "execute",
           "running", "reading", "stopped", "joining", "answering_prompt", "answering",
           "left", "done"}

Outcomes == {"none", "answer", "mutation", "cancelled", "failed", "deadline", "turns",
             "calls", "repeat", "protocol", "timeout", "bytes"}

\* The state is well formed, and every budget the loop counts stays within its cap:
\* an underflow of a remaining budget or a lost count shows here.
LocalTurnTypeOK ==
  /\ place \in TurnStages
  /\ turns \in 0 .. MaxModelTurns
  /\ admitted \subseteq ToolCall /\ Cardinality(admitted) <= MaxToolCalls
  /\ errors \in 0 .. 2
  /\ bytes \in 0 .. MaxCumulative
  /\ pushed \in 0 .. bytes
  /\ seen \in 0 .. Cardinality(admitted)
  /\ tool \in ToolCall \cup {NoCall}
  /\ clock \in Nat /\ limit \in Nat
  /\ token \in BOOLEAN
  /\ child \in {"none", "running", "exited"} /\ pipe \in BOOLEAN
  /\ ran \in [ToolCall -> Nat]
  /\ slack \in Nat /\ whole \in Nat
  /\ outcome \in Outcomes

\* local_loop_state.rs:131: no call of a request is executed twice, however
\* protocol errors, other calls and failed tools lie between.
OncePerCall == \A c \in ToolCall : ran[c] <= 1

\* local_loop_state.rs:163 and :227: what reaches the user as an answer was written
\* after the model was shown a tool's observation, and before the deadline.
AnswerEarned == outcome = "answer" => seen > 0 /\ clock < RequestTimeout

\* local_loop_state.rs:23: the deadline leaves three model turns their whole window
\* when one tool ran and what lies between them took no longer than the reserve.
WindowsGuaranteed ==
  (turns <= Guaranteed /\ Cardinality(admitted) <= 1 /\ slack <= Reserve
     /\ place \in {"model", "answering"} /\ clock - slack <= ModelWindow * (turns - 1) + ToolWindow)
  => whole = turns

\* command.rs:302: when the request has ended, the command it ran is not running.
ChildStopped == place \in {"left", "done"} => child # "running"

\* The request ends: with a command that never exits, a model that keeps asking
\* for tools or keeps breaking the protocol, and with or without Ctrl+C.
TurnEnds == []<>(place \in {"idle", "done"})

\* run_local_request: what a request may have done, at every step of its thread.
RequestKept == LocalTurnTypeOK /\ OncePerCall /\ AnswerEarned /\ ChildStopped

\* local_loop_state.rs:23 and command.rs:302: the deadline bounds a request and still
\* gives each guaranteed model turn its whole window.
TurnInTime == []WindowsGuaranteed /\ TurnEnds
=============================================================================
