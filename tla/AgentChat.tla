-------------------------------- MODULE AgentChat -------------------------------
(***************************************************************************)
(* Requests of the staff and user servers to the agent: POST /api/ai/chat, *)
(* dialog analysis and reply assistance.                                   *)
(*                                                                         *)
(* A member of Calls is one HTTP request, which a server publishes to the  *)
(* agent's queue and then waits 75 seconds for the answer to.  The agent's *)
(* consumer runs a coroutine for each delivery.  It reads and asks the     *)
(* language model, which changes nothing but may fail for a time, and it   *)
(* may create an offer, ask for its approval, or save preferences, by      *)
(* calls to the backend.                                                   *)
(*                                                                         *)
(* A request is retried by publishing a copy with a higher retry count.    *)
(***************************************************************************)
EXTENDS BackendRpc, FiniteSets

CONSTANTS
  Calls,
  MaxRetries     \* MAX_RETRY_ATTEMPTS

ASSUME ChatAssumption ==
  /\ Calls \subseteq Works
  /\ Tasks \subseteq Nat /\ IsFiniteSet(Tasks)
  /\ MaxRetries \in Nat

VARIABLES
  sent,         \* the requests made so far
  queue,        \* copies in the agent's queue, by request and retry count
  task,         \* the coroutines
  \* History variables: the code has no such state, the properties need it.
  said,         \* the answers published for each request
  redelivered,  \* how often a copy was put back into the queue
  runs          \* how often a copy was taken from it

agentVars == <<queue, task, said, redelivered, runs>>
chatVars == <<sent, agentVars>>
vars == <<rpcVars, chatVars>>

--------------------------------------------------------------------------------
(* Answers and coroutines. *)

\* What an answer says of the database: an offer is saved, an offer was sent for
\* approval, preferences are saved; or nothing, as a text or an error does that
\* says nothing of it or that something could not be done.
Answers == {"saved", "waiting", "updated", "nothing"}

Counts == 0 .. MaxRetries

Task ==
  [pc     : {"idle", "think", "create", "submit", "approve", "prefer", "retry", "reply", "ack"},
   call   : Calls \cup {NULL},
   retry  : Counts,
   held   : BOOLEAN,      \* whether the delivery can still be acknowledged
   needs  : BOOLEAN,      \* whether the calculation said that approval is needed
   offer  : Offers \cup {NULL},
   answer : Answers \cup {NULL}]

Idle ==
  [pc |-> "idle", call |-> NULL, retry |-> 0, held |-> FALSE, needs |-> FALSE,
   offer |-> NULL, answer |-> NULL]

\* Variant: the count is raised when a copy is taken, not when it is published.
StartCounting(t, c, r) ==
  task' = [task EXCEPT ![t] = [Idle EXCEPT !.pc = "think", !.call = c, !.retry = r + 1,
                                           !.held = TRUE]]

Start(t, c, r) ==
  task' = [task EXCEPT ![t] = [Idle EXCEPT !.pc = "think", !.call = c, !.retry = r,
                                           !.held = TRUE]]
Go(t, pc) == task' = [task EXCEPT ![t].pc = pc]
Say(t, a) == task' = [task EXCEPT ![t].pc = "reply", ![t].answer = a]
Finish(t) == task' = [task EXCEPT ![t] = Idle]

\* The copies of c with count r that the coroutines ts have to give back.
Held(ts, c, r) == {t \in ts : task[t].held /\ task[t].call = c /\ task[t].retry = r}

Requeued(ts) ==
  [c \in Calls |-> [r \in Counts |-> queue[c][r] + Cardinality(Held(ts, c, r))]]

CountRedelivery(ts) ==
  redelivered' = [c \in Calls |->
    redelivered[c] + Cardinality({t \in ts : task[t].held /\ task[t].call = c})]

Init ==
  /\ RpcInit
  /\ sent = {}
  /\ queue = [c \in Calls |-> [r \in Counts |-> 0]]
  /\ task = [t \in Tasks |-> Idle]
  /\ said = [c \in Calls |-> {}]
  /\ redelivered = [c \in Calls |-> 0]
  /\ runs = [c \in Calls |-> 0]

--------------------------------------------------------------------------------
(* The servers. *)

\* A request is published to the agent's queue; the publication may fail.  Whether
\* the call still waits for its answer is nothing the agent is told, and what the
\* handler does with the answer changes nothing here.
SendRpc(c) ==
  /\ c \notin sent
  /\ sent' = sent \cup {c}
  /\ \/ queue' = [queue EXCEPT ![c][0] = @ + 1] /\ UNCHANGED losses
     \/ queue' = queue /\ Lose
  /\ UNCHANGED <<serverVars, clientVars, task, said, redelivered, runs>>

--------------------------------------------------------------------------------
(* The agent: a delivery and the work on it.                                 *)

\* Coroutines are alike: the first one free takes the delivery.
Free(t) == task[t].pc = "idle" /\ \A u \in Tasks : u < t => task[u].pc # "idle"

Receive(t) ==
  /\ Free(t)
  /\ \E c \in Calls, r \in Counts :
       /\ queue[c][r] > 0
       /\ queue' = [queue EXCEPT ![c][r] = @ - 1]
       /\ Start(t, c, r)
       /\ runs' = [runs EXCEPT ![c] = @ + 1]
  /\ UNCHANGED <<rpcVars, sent, said, redelivered>>

\* An answer that took no change of the database, or an error for good.
Conclude(t) ==
  /\ task[t].pc = "think"
  /\ Say(t, "nothing")
  /\ UNCHANGED <<rpcVars, sent, queue, said, redelivered, runs>>

HasRetries(t) == task[t].retry < MaxRetries

\* The language model, or a backend that only reads, cannot be reached for now.
TemporaryError(t) ==
  /\ task[t].pc = "think"
  /\ IF HasRetries(t) THEN Go(t, "retry") ELSE Say(t, "nothing")
  /\ UNCHANGED <<rpcVars, sent, queue, said, redelivered, runs>>

\* The calculation is done and the text written; the offer is to be created.
AskCreate(t) ==
  /\ task[t].pc = "think"
  /\ Ask(t, "create", task[t].call, NULL)
  /\ \E needs \in BOOLEAN :
       task' = [task EXCEPT ![t].pc = "create", ![t].needs = needs]
  /\ UNCHANGED <<sent, queue, said, redelivered, runs>>

\* The facts of the client are extracted; his preferences are to be saved.
AskPrefer(t) ==
  /\ task[t].pc = "think"
  /\ Ask(t, "prefer", task[t].call, NULL)
  /\ Go(t, "prefer")
  /\ UNCHANGED <<sent, queue, said, redelivered, runs>>

ExpectedStatus(t) == IF task[t].needs THEN "draft" ELSE "approved"

\* An offer whose status is not what the calculation said is taken for not saved,
\* and so is one whose creation met any error.
OfferCreated(t) ==
  /\ task[t].pc = "create"
  /\ Returned(t)
  /\ IF rpc[t].result.status # ExpectedStatus(t) THEN Say(t, "nothing")
     ELSE IF task[t].needs
          THEN task' = [task EXCEPT ![t].pc = "submit", ![t].offer = rpc[t].result.offer]
          ELSE Say(t, "saved")
  /\ UNCHANGED <<sent, queue, said, redelivered, runs>>

AskApproval(t) ==
  /\ task[t].pc = "submit"
  /\ Ask(t, "approve", task[t].call, task[t].offer)
  /\ Go(t, "approve")
  /\ UNCHANGED <<sent, queue, said, redelivered, runs>>

ApprovalRequested(t) ==
  /\ task[t].pc = "approve"
  /\ Returned(t)
  /\ Say(t, IF rpc[t].result = Ok(task[t].offer, "pending_approval") THEN "waiting" ELSE "nothing")
  /\ UNCHANGED <<sent, queue, said, redelivered, runs>>

PreferencesUpdated(t) ==
  /\ task[t].pc = "prefer"
  /\ Returned(t)
  /\ Say(t, IF rpc[t].result.code = "ok" THEN "updated" ELSE "nothing")
  /\ UNCHANGED <<sent, queue, said, redelivered, runs>>

--------------------------------------------------------------------------------
(* The agent: the end of a delivery.                                         *)

\* The copy goes back into the queue, unless the connection that brought it is gone.
Nack(t) == CountRedelivery({t}) /\ Finish(t)

\* Variant: the copy is published with the count it came with.
RetrySameCount(t) ==
  /\ task[t].pc = "retry"
  /\ queue' = [queue EXCEPT ![task[t].call][task[t].retry] = @ + 1]
  /\ Go(t, "ack")
  /\ UNCHANGED <<rpcVars, sent, said, redelivered, runs>>

\* A copy with the next count is published, then the delivery is acknowledged.  A
\* publication that fails may have reached the queue.
Retry(t) ==
  /\ task[t].pc = "retry"
  /\ LET c == task[t].call
         next == task[t].retry + 1
     IN \/ /\ queue' = [queue EXCEPT ![c][next] = @ + 1]
           /\ Go(t, "ack")
           /\ UNCHANGED <<redelivered, losses>>
        \/ /\ Lose
           /\ queue' \in {Requeued({t}), [Requeued({t}) EXCEPT ![c][next] = @ + 1]}
           /\ Nack(t)
  /\ UNCHANGED <<serverVars, clientVars, sent, said, runs>>

\* The reply goes to the queue of the call, where the first one ends the call unless
\* its 75 seconds are over, and others are not read.
Publish(t) ==
  /\ task[t].pc = "reply"
  /\ LET told == [said EXCEPT ![task[t].call] = @ \cup {task[t].answer}] IN
     \/ /\ said' = told
        /\ Go(t, "ack")
        /\ UNCHANGED <<queue, redelivered, losses>>
     \/ /\ Lose
        /\ said' \in {said, told}
        /\ queue' = Requeued({t})
        /\ Nack(t)
  /\ UNCHANGED <<serverVars, clientVars, sent, runs>>

Ack(t) ==
  /\ task[t].pc = "ack"
  /\ Finish(t)
  /\ UNCHANGED <<rpcVars, sent, queue, said, redelivered, runs>>

--------------------------------------------------------------------------------
(* Losses. *)

\* The agent stops, and starts again: what it held is delivered again.
AgentStops ==
  /\ ClientStops
  /\ queue' = Requeued(Tasks)
  /\ CountRedelivery(Tasks)
  /\ task' = [t \in Tasks |-> Idle]
  /\ UNCHANGED <<sent, said, runs>>

\* The agent's connection breaks and is made again: the coroutines go on with
\* deliveries that are not theirs any more.
AgentDisconnected ==
  /\ Lose
  /\ queue' = Requeued(Tasks)
  /\ CountRedelivery(Tasks)
  /\ task' = [t \in Tasks |-> [task[t] EXCEPT !.held = FALSE]]
  /\ UNCHANGED <<serverVars, clientVars, sent, said, runs>>

BrokerStops ==
  /\ BrokerRestarts
  /\ queue' = [c \in Calls |-> [r \in Counts |-> 0]]
  /\ task' = [t \in Tasks |-> [task[t] EXCEPT !.held = FALSE]]
  /\ UNCHANGED <<sent, said, redelivered, runs>>

Loss ==
  \/ AgentStops \/ AgentDisconnected \/ BrokerStops
  \/ (ConsumerLost \/ ServerRestarts) /\ UNCHANGED chatVars

--------------------------------------------------------------------------------
Work(t) ==
  \/ Conclude(t) \/ TemporaryError(t) \/ AskCreate(t) \/ AskPrefer(t)
  \/ OfferCreated(t) \/ AskApproval(t) \/ ApprovalRequested(t) \/ PreferencesUpdated(t)
  \/ Retry(t) \/ Publish(t) \/ Ack(t)

Next ==
  \/ \E c \in Calls : SendRpc(c)
  \/ \E t \in Tasks : Receive(t) \/ Work(t)
  \/ RpcStep /\ UNCHANGED chatVars
  \/ Loss

\* Coroutines are scheduled and timers fire.  Nothing is assumed of the server,
\* of the broker or of people.
Fairness ==
  /\ \A t \in Tasks :
       WF_vars(Work(t)) /\ WF_vars(TimesOut(t) /\ UNCHANGED chatVars)
  /\ WF_vars(\E t \in Tasks : Receive(t))

Spec == Init /\ [][Next]_vars /\ Fairness

--------------------------------------------------------------------------------
TypeOK ==
  /\ RpcTypeOK
  /\ sent \subseteq Calls
  /\ queue \in [Calls -> [Counts -> Nat]]
  /\ task \in [Tasks -> Task]
  /\ said \in [Calls -> SUBSET Answers]
  /\ redelivered \in [Calls -> Nat]
  /\ runs \in [Calls -> Nat]

OffersOf(c) == {o \in Offers : Life!Exists(o) /\ asked[requestOf[o]].work = c}

\* What the agent tells a manager of the database is so: after "saved" an offer
\* made for his request is in force, after "waiting" one has been submitted, and
\* after "updated" his client's preferences have been merged, whatever replies
\* came late, twice or to a request that was served before.
ToldIsDone ==
  \A c \in Calls :
    /\ "saved" \in said[c] => \E o \in OffersOf(c) : status[o] = "approved"
    /\ "waiting" \in said[c] => \E o \in OffersOf(c) : status[o] # "draft"
    /\ "updated" \in said[c] => \E id \in applied : asked[id].work = c

\* A request makes one offer for each time it was delivered for a reason other
\* than a retry: retries come before the offer, and the backend makes one offer
\* of a request id however often it is served.
OneOfferPerDelivery ==
  \A c \in Calls : Cardinality(OffersOf(c)) <= 1 + redelivered[c]

\* The retry count travels with the copy, so a request is run once and twice
\* retried for each time it was delivered, however copies multiply.
RunsAreBounded ==
  \A c \in Calls : runs[c] <= (MaxRetries + 1) * (1 + redelivered[c])

\* What a request costs is bounded by how often it was delivered, in offers
\* made for the manager and in runs of the language model (consumer.py:120-319).
WorkIsBounded == OneOfferPerDelivery /\ RunsAreBounded

InHand(c) == (\E r \in Counts : queue[c][r] > 0) \/ (\E t \in Tasks : task[t].call = c)

\* Whatever is lost, a request leaves the agent in the end: it is not retried
\* for ever, and no coroutine waits for ever for a backend that is gone.
RequestsLeave == \A c \in Calls : InHand(c) ~> ~InHand(c)
================================================================================
