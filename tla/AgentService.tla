------------------------------ MODULE AgentService ------------------------------
(***************************************************************************)
(* What the servers and the agent may expect of each other, whatever       *)
(* RabbitMQ loses, delays or delivers again.  A server makes each of its   *)
(* requests once (service/ai_agent.go:156-211).  The agent answers only    *)
(* requests that are with it, as often as it likes or never, and one that  *)
(* has left it does not come back (agent/app/broker/consumer.py:120-319).  *)
(*                                                                         *)
(* AgentChat is the agent's side of this and AssistantCalls the servers':  *)
(* each leaves the other side to what is said here.                        *)
(***************************************************************************)

CONSTANT Calls     \* HTTP requests that call the agent

VARIABLES
  spent,       \* the calls that were made, or that will not be
  pending,     \* the requests with the agent
  answered     \* the calls that an answer is there for

vars == <<spent, pending, answered>>

Init == spent = {} /\ pending = {} /\ answered = {}

\* The request reaches the agent, or is lost.
Make(c) ==
  /\ c \notin spent
  /\ spent' = spent \cup {c}
  /\ pending' \in {pending, pending \cup {c}}
  /\ UNCHANGED answered

\* The request stays with the agent when its delivery is not acknowledged.
Answer(c) ==
  /\ c \in pending
  /\ answered' \in {answered, answered \cup {c}}
  /\ pending' \in {pending, pending \ {c}}
  /\ UNCHANGED spent

\* Calls are over before they were made, requests are lost or dropped, answers are
\* taken or not read.
GiveUp ==
  /\ spent \subseteq spent' /\ spent' \subseteq Calls
  /\ pending' \subseteq pending
  /\ answered' \subseteq answered

Next == (\E c \in Calls : Make(c) \/ Answer(c)) \/ GiveUp

Spec == Init /\ [][Next]_vars

--------------------------------------------------------------------------------
\* Nothing is with the agent, or answered, that no server asked for.
NothingUnasked == pending \subseteq spent /\ answered \subseteq spent

\* A step neither brings back a request that has left nor answers one that is not there.
StaysAway ==
  \A c \in spent : c \notin pending =>
    c \notin pending' /\ (c \in answered' => c \in answered)

\* A request leaves the agent for good.
LeftForGood == [][StaysAway]_vars
================================================================================
