----------------------------- MODULE AssistantCalls -----------------------------
(***************************************************************************)
(* A server's calls of the agent: POST /api/ai/chat of clients and staff,  *)
(* and the analysis and the reply assistance of a deal's dialog            *)
(* (backend/internal/handler/ai.go, handler/dialog_ai.go,                  *)
(* service/ai_agent.go, service/dialog_analysis.go).                       *)
(*                                                                         *)
(* Every HTTP request runs in a goroutine of its own on one shared channel *)
(* to the broker.  It saves a client's question, declares a reply queue of *)
(* its own, publishes, and waits: for the first answer, for 75 seconds,    *)
(* for the caller, for the channel.  Then it deletes the queue, writes the *)
(* audit row, and saves an answer to a client in the chat.  Errors of the  *)
(* chat and the audit are dropped; they are certain once the caller has    *)
(* hung up, since the statements run in his context.                       *)
(*                                                                         *)
(* One server is modelled: the other has a channel of its own.  The agent  *)
(* is what AgentService says of it: a request is answered once, several    *)
(* times or never.  AgentChat implements that, and names of the two        *)
(* modules differ so that one module can speak of both.                    *)
(***************************************************************************)
EXTENDS Naturals, Sequences, FiniteSets

CONSTANTS
  Requests,              \* HTTP requests, each made once
  CallersOf,          \* bound: CallersOf[c], who may make c
  Actors, Role,       \* Role[a]: in the token of a
  Sessions, Session,  \* Session[s]: client, employee and whether it is about an apartment
  Deals, Deal,        \* Deal[d]: employee and session, if it has one
  Links,              \* bound: connections open at once
  Limit,              \* of the messages the agent asks for
  None

Kinds == {"chat", "dialog"}
\* What the agent answers, and what a caller is answered: a text, data without one, an error.
\* The status and the words of an error are left out.
Replies == {"text", "empty", "failed"}

Lines == [from : {"client", "manager", "ai"}, of : Requests \cup {None}]

ASSUME CallsAssumption ==
  /\ Role \in [Actors -> {"user", "manager", "supervisor"}]
  /\ Session \in [Sessions -> [client : Actors \cup {None}, employee : Actors \cup {None}, ofApartment : BOOLEAN]]
  /\ Deal \in [Deals -> [employee : Actors, session : Sessions \cup {None}]]
  /\ CallersOf \in [Requests -> SUBSET Actors]
  /\ Limit \in 1 .. 100
  /\ None \notin Actors \cup Sessions \cup Links \cup Requests \cup Replies

VARIABLES
  link,       \* s.conn and s.ch: the connection in use
  connOpen, chanOpen,   \* those that are open, and those whose channel is
  call,       \* the goroutines
  queues,     \* queues[c]: the connection that c's reply queue exists on, or None
  reply,      \* reply[c]: the first answer delivered to c's consumer, if c waits for it
  pending,    \* the requests with the agent
  chat,       \* the messages of each session
  audit,      \* audit[c]: the status of c's row in ai_audit_log
  seen        \* history: seen[c], the lines of the dialog that the agent was given for c

brokerVars == <<connOpen, chanOpen, queues, reply, pending>>
tableVars == <<chat, audit>>
callsVars == <<link, brokerVars, call, tableVars, seen>>

Goroutines ==
  [at     : {"idle", "question", "connect", "declare", "publish", "wait", "audit", "answer", "done", "dead"},
   kind   : Kinds \cup {None},
   actor  : Actors \cup {None},
   about  : Sessions \cup Deals \cup {None},
   link   : Links \cup {None},
   gone   : BOOLEAN,                            \* the caller has hung up
   result : Replies \cup {None}]

\* What a goroutine holds is gone with it; its request and its answer are remembered.
Unmade == [at |-> "idle", kind |-> None, actor |-> None, about |-> None, link |-> None, gone |-> FALSE, result |-> None]

Over == {"idle", "done", "dead"}

\* A reply queue is there while its call needs it; only a channel that failed under its
\* open connection leaves one behind.
CallsTypeOK ==
  /\ link \in Links \cup {None}
  /\ chanOpen \subseteq connOpen /\ connOpen \subseteq Links
  /\ call \in [Requests -> Goroutines]
  /\ queues \in [Requests -> connOpen \cup {None}]
  /\ \A c \in Requests : queues[c] \in chanOpen => call[c].at \in {"publish", "wait"}
  /\ reply \in [Requests -> Replies \cup {None}]
  /\ pending \subseteq Requests
  /\ chat \in [Sessions -> Seq(Lines)]
  /\ audit \in [Requests -> {"success", "failed", None}]
  /\ seen \in [Requests -> SUBSET Lines]

CallsInit ==
  /\ link = None
  /\ connOpen = {} /\ chanOpen = {} /\ pending = {}
  /\ queues = [c \in Requests |-> None]
  /\ reply = [c \in Requests |-> None]
  /\ call = [c \in Requests |-> Unmade]
  /\ chat = [s \in Sessions |-> <<[from |-> "manager", of |-> None]>>]
  /\ audit = [c \in Requests |-> None]
  /\ seen = [c \in Requests |-> {}]
--------------------------------------------------------------------------------
(* The handlers. *)

Reach(c, step) == call' = [call EXCEPT ![c].at = step]

\* canReadSession and, for managers, canManageSession.
MayAsk(a, s) ==
  LET row == Session[s] IN
  \/ Role[a] = "supervisor"
  \/ Role[a] = "manager" /\ row.employee \in {None, a} /\ (row.ofApartment => row.employee = a)
  \/ Role[a] = "user" /\ row.client = a

CanUseDeal(a, d) ==
  \/ Role[a] = "supervisor"
  \/ Role[a] = "manager" /\ Deal[d].employee = a

Begin(c, kind, a, about, step) ==
  call' = [call EXCEPT ![c] = [Unmade EXCEPT !.at = step, !.kind = kind, !.actor = a, !.about = about]]
RefuseCall(c, kind, a, about) ==
  call' = [call EXCEPT ![c] = [Unmade EXCEPT !.at = "done", !.kind = kind, !.actor = a, !.about = about, !.result = "failed"]]

Chat(c, a, s) ==
  /\ call[c].at = "idle"
  /\ \/ MayAsk(a, s) /\ Begin(c, "chat", a, s, IF Role[a] = "user" THEN "question" ELSE "connect")
     \/ ~ MayAsk(a, s) /\ RefuseCall(c, "chat", a, s)
  /\ UNCHANGED <<link, brokerVars, tableVars, seen>>

\* Analyze and ReplyAssist differ in the routing key and the texts.
AskDialog(c, a, d) ==
  /\ call[c].at = "idle"
  /\ \/ CanUseDeal(a, d) /\ Begin(c, "dialog", a, d, "connect")
     \/ ~ CanUseDeal(a, d) /\ RefuseCall(c, "dialog", a, d)
  /\ UNCHANGED <<link, brokerVars, tableVars, seen>>

\* An insert whose error is dropped.
SaveMessage(c, s, from) ==
  \/ ~ call[c].gone /\ chat' = [chat EXCEPT ![s] = Append(@, [from |-> from, of |-> c])]
  \/ UNCHANGED chat

SaveQuestion(c) ==
  /\ call[c].at = "question"
  /\ SaveMessage(c, call[c].about, "client")
  /\ Reach(c, "connect")
  /\ UNCHANGED <<link, brokerVars, audit, seen>>
--------------------------------------------------------------------------------
(* The call. *)

\* The channel in use, or a new connection with one; the one it replaces is not closed.
\* A connection that was closed lends its name to a later one.
EnsureConnection(c) ==
  /\ call[c].at = "connect"
  /\ \/ /\ link \in chanOpen
        /\ call' = [call EXCEPT ![c].at = "declare", ![c].link = link]
        /\ UNCHANGED <<link, connOpen, chanOpen>>
     \/ /\ link \notin chanOpen
        /\ Links \ connOpen # {}
        /\ LET l == CHOOSE l \in Links \ connOpen : TRUE IN
           /\ connOpen' = connOpen \cup {l} /\ chanOpen' = chanOpen \cup {l}
           /\ link' = l
           /\ call' = [call EXCEPT ![c].at = "declare", ![c].link = l]
     \/ /\ link \notin chanOpen
        /\ call' = [call EXCEPT ![c].at = "audit", ![c].result = "failed"]
        /\ UNCHANGED <<link, connOpen, chanOpen>>
  /\ UNCHANGED <<queues, reply, pending, tableVars, seen>>

HoldResult(c, result) ==
  /\ call' = [call EXCEPT ![c].at = "audit", ![c].link = None, ![c].result = result]
  /\ reply' = [reply EXCEPT ![c] = None]

\* Variant: nobody deletes the queue.
ReturnOnly(c, result) ==
  /\ HoldResult(c, result)
  /\ UNCHANGED queues

\* The call returns to its handler; the deferred deletion needs its channel.
Return(c, result) ==
  /\ HoldResult(c, result)
  /\ queues' = [queues EXCEPT ![c] = IF call[c].link \in chanOpen THEN None ELSE @]

DeclareQueue(c) ==
  /\ call[c].at = "declare"
  /\ \/ /\ call[c].link \in chanOpen
        /\ queues' = [queues EXCEPT ![c] = call[c].link]
        /\ Reach(c, "publish")
        /\ UNCHANGED reply
     \/ call[c].link \notin chanOpen /\ Return(c, "failed")
  /\ UNCHANGED <<link, connOpen, chanOpen, pending, tableVars, seen>>

PublishRequest(c) ==
  /\ call[c].at = "publish"
  /\ \/ /\ call[c].link \in chanOpen
        /\ pending' = pending \cup {c}
        /\ Reach(c, "wait")
        /\ UNCHANGED <<queues, reply>>
     \/ call[c].link \notin chanOpen /\ Return(c, "failed") /\ UNCHANGED pending
  /\ UNCHANGED <<link, connOpen, chanOpen, tableVars, seen>>

\* Variant: the wait has no timer.
WaitOnly(c) ==
  /\ call[c].at = "wait"
  /\ \/ reply[c] # None /\ Return(c, reply[c])
     \/ (call[c].gone \/ call[c].link \notin chanOpen) /\ Return(c, "failed")
  /\ UNCHANGED <<link, connOpen, chanOpen, pending, tableVars, seen>>

\* Whatever of these is ready: the select takes any.  The timer fires in the end, so the
\* caller who hangs up and the channel that closes only make it end earlier.
Wait(c) ==
  /\ call[c].at = "wait"
  /\ \/ reply[c] # None /\ Return(c, reply[c])
     \/ Return(c, "failed")
  /\ UNCHANGED <<link, connOpen, chanOpen, pending, tableVars, seen>>
--------------------------------------------------------------------------------
(* After the call. *)

CloseCall(c) == call' = [call EXCEPT ![c].at = "done", ![c].gone = FALSE]

Answered(c) == call[c].result \in {"text", "empty"}

\* Variant: every text is published in the chat, a text for staff too.
PublishedAll(c) == call[c].kind = "chat" /\ call[c].result = "text"

\* The answers that are saved: texts for clients.
Published(c) == call[c].kind = "chat" /\ call[c].result = "text" /\ Role[call[c].actor] = "user"

RecordAIAction(c) ==
  /\ call[c].at = "audit"
  /\ \/ ~ call[c].gone /\ audit' = [audit EXCEPT ![c] = IF Answered(c) THEN "success" ELSE "failed"]
     \/ UNCHANGED audit
  /\ IF Published(c) THEN Reach(c, "answer") ELSE CloseCall(c)
  /\ UNCHANGED <<link, brokerVars, chat, seen>>

SaveAnswer(c) ==
  /\ call[c].at = "answer"
  /\ SaveMessage(c, call[c].about, "ai")
  /\ CloseCall(c)
  /\ UNCHANGED <<link, brokerVars, audit, seen>>
--------------------------------------------------------------------------------
(* The caller, the agent, the broker, the server. *)

HangUp(c) ==
  /\ call[c].at \notin Over /\ ~ call[c].gone
  /\ call' = [call EXCEPT ![c].gone = TRUE]
  /\ UNCHANGED <<link, brokerVars, tableVars, seen>>

\* deal.messages.get: the newest of what client and manager wrote, by its places in the
\* chat; their order is left out.
Talk(s) == {i \in DOMAIN chat[s] : chat[s][i].from \in {"client", "manager"}}
Newest(s) == {i \in Talk(s) : Cardinality({j \in Talk(s) : j > i}) < Limit}

GetDealMessages(c) ==
  /\ c \in pending /\ call[c].kind # "chat"
  /\ LET s == Deal[call[c].about].session IN
     seen' = [seen EXCEPT ![c] = IF s = None THEN {} ELSE {chat[s][i] : i \in Newest(s)}]
  /\ UNCHANGED <<link, brokerVars, call, tableVars>>

\* An answer to a queue that is gone is dropped, one to a queue without a consumer is
\* not read, nor is one that comes second.
\* A request that stays with the agent is answered again.
AgentReplies(c, r) ==
  /\ c \in pending
  /\ reply' = [reply EXCEPT ![c] = IF queues[c] \in chanOpen /\ call[c].at = "wait" /\ @ = None THEN r ELSE @]
  /\ pending' \in {pending, pending \ {c}}
  /\ UNCHANGED <<link, connOpen, chanOpen, queues, call, tableVars, seen>>

AgentGivesUp(c) ==
  /\ c \in pending
  /\ pending' = pending \ {c}
  /\ UNCHANGED <<link, connOpen, chanOpen, queues, reply, call, tableVars, seen>>

\* An exception of the broker closes a channel and leaves its connection open.
ChannelFails(l) ==
  /\ l \in chanOpen
  /\ chanOpen' = chanOpen \ {l}
  /\ UNCHANGED <<link, connOpen, queues, reply, pending, call, tableVars, seen>>

\* The exclusive queues go with their connections, the goroutines are left with closed
\* channels; the requests were not persistent.
ConnectionsLost ==
  /\ connOpen # {}
  /\ connOpen' = {} /\ chanOpen' = {}
  /\ queues' = [c \in Requests |-> None]
  /\ call' = [c \in Requests |-> [call[c] EXCEPT !.link = None]]
  /\ \E lost \in SUBSET pending : pending' = pending \ lost
  /\ UNCHANGED <<link, reply, tableVars, seen>>

ServerStops ==
  /\ connOpen' = {} /\ chanOpen' = {} /\ link' = None
  /\ queues' = [c \in Requests |-> None]
  /\ reply' = [c \in Requests |-> None]
  /\ call' = [c \in Requests |-> IF call[c].at \in Over THEN call[c] ELSE
                [call[c] EXCEPT !.at = "dead", !.link = None, !.gone = FALSE, !.result = None]]
  /\ UNCHANGED <<pending, tableVars, seen>>

\* What the goroutine of a request does once it has begun.
Proceed(c) ==
  \/ SaveQuestion(c) \/ EnsureConnection(c) \/ DeclareQueue(c) \/ PublishRequest(c) \/ Wait(c)
  \/ RecordAIAction(c) \/ SaveAnswer(c)

CallsNext ==
  \/ \E c \in Requests : \E a \in CallersOf[c] :
       (\E s \in Sessions : Chat(c, a, s)) \/ (\E d \in Deals : AskDialog(c, a, d))
  \/ \E c \in Requests :
       \/ Proceed(c) \/ HangUp(c)
       \/ GetDealMessages(c) \/ (\E r \in Replies : AgentReplies(c, r)) \/ AgentGivesUp(c)
  \/ (\E l \in Links : ChannelFails(l)) \/ ConnectionsLost \/ ServerStops

\* A goroutine that can go on does; nothing is asked of the agent, the broker or the caller.
CallsFairness == \A c \in Requests : WF_callsVars(Proceed(c))

CallsSpec == CallsInit /\ [][CallsNext]_callsVars /\ CallsFairness
--------------------------------------------------------------------------------
\* A client's question is in the chat once, and nothing else of its call is there but an
\* answer, after it, although each is a statement that may fail (handler/ai.go:90, 125).
QuestionThenAnswer ==
  \A s \in Sessions : \A i, j \in DOMAIN chat[s] :
    chat[s][i].from = "client" /\ chat[s][j].of = chat[s][i].of /\ i # j =>
      chat[s][j].from = "ai" /\ i < j

\* The assistant speaks in a chat only to answer its client, once, after his question, and
\* to one who was not told that the call failed; advice to staff is not published
\* (backend/README.md:256), and what the assistant said is not analysed as what people said.
AssistantStaysApart ==
  /\ \A s \in Sessions : \A i \in DOMAIN chat[s] :
       chat[s][i].from = "ai" =>
         LET c == chat[s][i].of IN
         /\ call[c].kind = "chat" /\ call[c].about = s /\ Session[s].client = call[c].actor
         /\ call[c].result = "text"
         /\ \A j \in DOMAIN chat[s] : chat[s][j] = chat[s][i] => j = i
  /\ \A c \in Requests : \A m \in seen[c] : m.from # "ai"
  /\ QuestionThenAnswer

\* Every request is answered unless the server stops, whatever becomes of the agent and the
\* broker (service/ai_agent.go:205).
CallsEnd == \A c \in Requests : call[c].at # "idle" ~> call[c].at \in {"done", "dead"}
================================================================================
