---------------------------- MODULE Conversation ----------------------------
(***************************************************************************)
(* The memory a terminal keeps of its conversation, and the transcript it  *)
(* is restored from (tui_adapter/session_memory/, runtime/state.rs,        *)
(* runtime/port.rs, over workflow_adapter/transcript/).                    *)
(*                                                                         *)
(* One exchange is several records: the user's request, the reply, the     *)
(* tools that ran, the sources that were read.  Each record is appended to *)
(* the ledger on its own, so a stop or a failure may leave any prefix of   *)
(* them.  Loading folds the records of a session back into pairs.  The     *)
(* current session belongs to the project: every terminal and every        *)
(* command of the project reads and changes the same one.                  *)
(***************************************************************************)
EXTENDS Naturals, Sequences, SequencesExt, FiniteSets

CONSTANTS
  Terminal,
  MaxSessions, MaxExchanges,
  MaxTools,      \* MAX_TOOL_ACTIVITIES
  Budget         \* conversations cleared, terminals killed, appends that fail and session
                 \* commands outside the terminals, together

ASSUME ConversationAssumption ==
  /\ {MaxSessions, MaxExchanges, MaxTools} \subseteq Nat \ {0}
  /\ Budget \in Nat

VARIABLES
  current,    \* the project's current session
  sessions,   \* sessions created so far
  log,        \* the records of the conversation stream, in ledger order
  tui,        \* the terminals
  exchanges,  \* exchange ids given out
  served,     \* history: the session whose memory was given to the model
  told,       \* history: exchanges the user was given as recorded
  troubles

conversationVars == <<current, sessions, log, tui, exchanges, served, told, troubles>>

Nothing == 0

\* What a memory holds: the pairs of the conversation, and the latest tool activity.
EmptyMemory(s) == [session |-> s, turns |-> <<>>, tools |-> <<>>]
NoMemory == EmptyMemory(Nothing)

Off == [at |-> "off", fresh |-> FALSE, memory |-> NoMemory, next |-> "rest",
        exchange |-> Nothing, reply |-> "none", todo |-> <<>>]

ConversationInit ==
  /\ current = 1 /\ sessions = 1
  /\ log = <<>>
  /\ tui = [p \in Terminal |-> Off]
  /\ exchanges = 0
  /\ served = [x \in 1 .. MaxExchanges |-> Nothing]
  /\ told = {}
  /\ troubles = 0

\* push_tool_activity keeps the latest ones.
PushTool(tools, x) ==
  LET all == Append(tools, x)
  IN  IF Len(all) > MaxTools THEN Tail(all) ELSE all

Pair(user, reply) == [user |-> user, reply |-> reply]

\* load_for_session: what the records read so far add up to, and one record more.  A
\* reply makes a pair with the request that waits for one.
Blank == [turns |-> <<>>, tools |-> <<>>, pending |-> Nothing]

Fold(acc, r) ==
  IF r.kind = "user" THEN [acc EXCEPT !.pending = r.exchange]
  ELSE IF r.kind = "tool" THEN [acc EXCEPT !.tools = PushTool(@, r.exchange)]
  ELSE IF r.kind = "reset" THEN Blank
  ELSE IF acc.pending = Nothing THEN acc
  ELSE [acc EXCEPT !.turns = Append(@, Pair(acc.pending, r.exchange)), !.pending = Nothing]

Restored(s) ==
  LET folded[n \in 0 .. Len(log)] ==
        IF n = 0 THEN Blank
        ELSE IF log[n].session = s THEN Fold(folded[n - 1], log[n])
        ELSE folded[n - 1]
      end == folded[Len(log)]
  IN  [session |-> s, turns |-> end.turns, tools |-> end.tools]

-----------------------------------------------------------------------------
(* Terminals and sessions                                                  *)

Running(p) == tui[p].at # "off"

\* A launch, beside any other terminal: nothing loaded, no session made yet.
Launch(p) ==
  /\ ~Running(p)
  /\ exchanges < MaxExchanges
  /\ tui' = [tui EXCEPT ![p] = [Off EXCEPT !.at = "rest", !.fresh = TRUE]]
  /\ UNCHANGED <<current, sessions, log, exchanges, served, told, troubles>>

\* The user leaves.
Quit(p) ==
  /\ tui[p].at = "rest"
  /\ tui' = [tui EXCEPT ![p] = Off]
  /\ UNCHANGED <<current, sessions, log, exchanges, served, told, troubles>>

\* The terminal is killed in the middle of something.
Kill(p) ==
  /\ tui[p].at \notin {"off", "rest"} /\ troubles < Budget
  /\ tui' = [tui EXCEPT ![p] = Off]
  /\ troubles' = troubles + 1
  /\ UNCHANGED <<current, sessions, log, exchanges, served, told>>

\* session_new: the project's session becomes one that never was.
NewSession ==
  /\ sessions < MaxSessions
  /\ sessions' = sessions + 1
  /\ current' = sessions + 1

\* Another command of the project (session new, session resume) moves the session.
Elsewhere ==
  /\ troubles < Budget
  /\ troubles' = troubles + 1
  /\ \/ NewSession
     \/ current' \in (1 .. sessions) \ {current} /\ UNCHANGED sessions
  /\ UNCHANGED <<log, tui, exchanges, served, told>>

\* /new and /resume: the memory is dropped and loaded from the session chosen.
Switch(p) ==
  /\ tui[p].at = "rest"
  /\ \/ NewSession
     \/ current' \in 1 .. sessions /\ UNCHANGED sessions
  /\ tui' = [tui EXCEPT ![p].at = "load", ![p].next = "rest",
                        ![p].fresh = FALSE, ![p].memory = NoMemory]
  /\ UNCHANGED <<log, exchanges, served, told, troubles>>

-----------------------------------------------------------------------------
(* A request                                                               *)

\* submit_request, ensure_fresh_session: a new launch first makes its own session.
Submit(p) ==
  /\ tui[p].at = "rest"
  /\ exchanges < MaxExchanges
  /\ IF tui[p].fresh
     THEN NewSession /\ tui' = [tui EXCEPT ![p].at = "load", ![p].next = "turn",
                                           ![p].fresh = FALSE, ![p].memory = NoMemory]
     ELSE /\ tui' = [tui EXCEPT ![p].at = "load", ![p].next = "turn"]
          /\ UNCHANGED <<current, sessions>>
  /\ UNCHANGED <<log, exchanges, served, told, troubles>>

\* /clear on a conversation that has begun.
ClearConversation(p) ==
  /\ tui[p].at = "rest" /\ ~tui[p].fresh
  /\ troubles < Budget
  /\ troubles' = troubles + 1
  /\ tui' = [tui EXCEPT ![p].at = "load", ![p].next = "clear"]
  /\ UNCHANGED <<current, sessions, log, exchanges, served, told>>

\* conversation_memory: a memory of another session is replaced by what is stored.
Load(p) ==
  /\ tui[p].at = "load"
  /\ tui' = [tui EXCEPT ![p].at = tui[p].next, ![p].next = "rest",
                        ![p].memory = IF @.session = current THEN @ ELSE Restored(current)]
  /\ UNCHANGED <<current, sessions, log, exchanges, served, told, troubles>>

\* The request runs on that memory, for as long as it takes: it gives a reply (an
\* answer or an error), or was cancelled, and may have used a tool.
Turn(p) ==
  /\ tui[p].at = "turn"
  /\ exchanges < MaxExchanges
  /\ exchanges' = exchanges + 1
  /\ served' = [served EXCEPT ![exchanges + 1] = tui[p].memory.session]
  /\ \E reply \in {"reply", "cancelled"}, tool \in BOOLEAN :
       tui' = [tui EXCEPT ![p].at = "bind", ![p].exchange = exchanges + 1,
                          ![p].reply = reply,
                          ![p].todo = IF tool THEN <<"tool">> ELSE <<>>]
  /\ UNCHANGED <<current, sessions, log, told, troubles>>

\* The records an exchange makes, in order.
Records_ReplyFirst(reply, tools) ==
  IF reply = "cancelled" THEN tools ELSE <<reply, "user">> \o tools

Records(reply, tools) ==
  IF reply = "cancelled" THEN tools ELSE <<"user", reply>> \o tools

\* record_result: the session is read once more, and must be the memory's.
Bind_Anywhere(p) ==
  /\ tui[p].at = "bind"
  /\ tui' = [tui EXCEPT ![p].at = "append", ![p].memory.session = current,
                        ![p].todo = Records(tui[p].reply, @)]
  /\ UNCHANGED <<current, sessions, log, exchanges, served, told, troubles>>

Bind(p) ==
  /\ tui[p].at = "bind"
  /\ IF tui[p].memory.session = current \/ (tui[p].reply = "cancelled" /\ tui[p].todo = <<>>)
     THEN tui' = [tui EXCEPT ![p].at = "append", ![p].todo = Records(tui[p].reply, @)]
     ELSE tui' = [tui EXCEPT ![p].at = "rest", ![p].exchange = Nothing,
                             ![p].reply = "none", ![p].todo = <<>>]
  /\ UNCHANGED <<current, sessions, log, exchanges, served, told, troubles>>

\* clear: the session is checked the same way, then one record is made.
BindReset(p) ==
  /\ tui[p].at = "clear"
  /\ IF tui[p].memory.session = current
     THEN tui' = [tui EXCEPT ![p].at = "append", ![p].reply = "reset", ![p].todo = <<"reset">>]
     ELSE tui' = [tui EXCEPT ![p].at = "rest"]
  /\ UNCHANGED <<current, sessions, log, exchanges, served, told, troubles>>

\* record_session_turn: one record, to the session that was bound, under the ledger's
\* writer guard.  A tool's activity is remembered as soon as it is recorded.
AppendRecord(p) ==
  /\ tui[p].at = "append" /\ tui[p].todo # <<>>
  /\ log' = Append(log, [session |-> tui[p].memory.session, exchange |-> tui[p].exchange,
                         kind |-> Head(tui[p].todo)])
  /\ tui' = [tui EXCEPT ![p].todo = Tail(@),
                        ![p].memory.tools = IF Head(tui[p].todo) = "tool"
                                            THEN PushTool(@, tui[p].exchange) ELSE @]
  /\ UNCHANGED <<current, sessions, exchanges, served, told, troubles>>

\* An append fails: the error is the outcome, and the pair is not remembered.
AppendFails(p) ==
  /\ tui[p].at = "append" /\ tui[p].todo # <<>>
  /\ troubles < Budget
  /\ troubles' = troubles + 1
  /\ tui' = [tui EXCEPT ![p].at = "rest", ![p].exchange = Nothing, ![p].reply = "none",
                        ![p].todo = <<>>]
  /\ UNCHANGED <<current, sessions, log, exchanges, served, told>>

\* Everything is recorded: the memory takes the pair, and the user the reply.
Finish(p) ==
  /\ tui[p].at = "append" /\ tui[p].todo = <<>>
  /\ LET x == tui[p].exchange
         memory == tui[p].memory
     IN  /\ tui' = [tui EXCEPT ![p].at = "rest", ![p].exchange = Nothing, ![p].reply = "none",
                     ![p].memory =
                        IF tui[p].reply = "reply" THEN [memory EXCEPT !.turns = Append(@, Pair(x, x))]
                        ELSE IF tui[p].reply = "reset" THEN EmptyMemory(memory.session)
                        ELSE memory]
         /\ told' = IF tui[p].reply = "reply" THEN told \cup {x} ELSE told
  /\ UNCHANGED <<current, sessions, log, exchanges, served, troubles>>

ConversationNext ==
  \/ Elsewhere
  \/ \E p \in Terminal :
       \/ Launch(p) \/ Quit(p) \/ Kill(p) \/ Switch(p) \/ Submit(p) \/ ClearConversation(p) \/ Load(p)
       \/ Turn(p) \/ Bind(p) \/ BindReset(p) \/ AppendRecord(p) \/ AppendFails(p) \/ Finish(p)

ConversationSpec == ConversationInit /\ [][ConversationNext]_conversationVars

-----------------------------------------------------------------------------
Kinds == {"user", "reply", "tool", "reset"}

\* The state is well formed; no exchange makes more records than it has parts.
ConversationTypeOK ==
  /\ current \in 1 .. sessions /\ sessions \in 1 .. MaxSessions
  /\ exchanges \in 0 .. MaxExchanges
  /\ \A i \in 1 .. Len(log) : /\ log[i].session \in 1 .. sessions
                              /\ log[i].exchange \in 0 .. exchanges
                              /\ log[i].kind \in Kinds
  /\ \A p \in Terminal :
       /\ tui[p].at \in {"off", "rest", "load", "turn", "clear", "bind", "append"}
       /\ tui[p].memory.session \in 0 .. sessions
       /\ Len(tui[p].memory.tools) <= MaxTools
       /\ Len(tui[p].todo) <= 3
  /\ told \subseteq 1 .. exchanges

\* The exchanges of session s were recorded one after the other.
Alone(s) ==
  LET at == {i \in 1 .. Len(log) : log[i].session = s}
  IN  \A i, k \in at : i < k /\ log[i].exchange = log[k].exchange /\ log[i].exchange # Nothing =>
        \A j \in at : i < j /\ j < k => log[j].exchange = log[i].exchange

\* docs/tui.md:231: what a restart restores are pairs of one exchange each, also after
\* a kill between two records of an exchange and after a failed append, as long as no
\* two terminals record into the session at once.
PairsTrue ==
  \A s \in 1 .. sessions : Alone(s) =>
    \A t \in ToSet(Restored(s).turns) : t.user = t.reply

\* The session of exchange x was cleared after its reply was recorded.
ClearedAfter(x) ==
  \E i \in 1 .. Len(log) : \E j \in i .. Len(log) :
    /\ log[i].exchange = x /\ log[i].kind = "reply"
    /\ log[j].kind = "reset" /\ log[j].session = log[i].session

\* port.rs:120: an exchange the user was given is restored with its session, until
\* the conversation is cleared.
ToldKept ==
  \A x \in told : (Alone(served[x]) /\ ~ClearedAfter(x)) =>
    Pair(x, x) \in ToSet(Restored(served[x]).turns)

\* session_memory.rs:3: a terminal at rest remembers only what a restart would restore:
\* pairs of the log that nobody has cleared since, and tools that are recorded.
MemoryDurable ==
  \A p \in Terminal :
    LET memory == tui[p].memory
    IN  /\ tui[p].at = "rest" /\ memory.session # Nothing /\ Alone(memory.session)
        => /\ \A t \in ToSet(memory.turns) \ ToSet(Restored(memory.session).turns) :
                 ClearedAfter(t.reply)
           /\ \A x \in ToSet(memory.tools) :
                 [session |-> memory.session, exchange |-> x, kind |-> "tool"] \in ToSet(log)

\* recording.rs:189: every record of an exchange is in the session whose conversation
\* the model was given, wherever the project's session moved meanwhile.
SessionKept ==
  \A i \in 1 .. Len(log) : log[i].exchange # Nothing => log[i].session = served[log[i].exchange]

\* restoration.rs:21, session_memory.rs:3, recording.rs:189: a restart gives the model
\* what the user saw and nothing else, and memory and log of a terminal speak of one
\* session.
ConversationTrue == ConversationTypeOK /\ PairsTrue /\ ToldKept /\ MemoryDurable /\ SessionKept
=============================================================================
