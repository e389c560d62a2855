------------------------------- MODULE BackendRpc -------------------------------
(***************************************************************************)
(* Calls of the agent to the backend over RabbitMQ: the client of the      *)
(* agent, the queue backend.agent-rpc and the consumer in the staff        *)
(* server, which serves one request at a time.                             *)
(*                                                                         *)
(* A member of Tasks is a coroutine of the agent; it makes one call at a   *)
(* time.  Calls that only read are not here: they change nothing.  The     *)
(* offers go their way as OfferLifecycle says.  A request is known by its  *)
(* request id, and so is its correlation id, made with it.                 *)
(*                                                                         *)
(* Losses of connections and processes are counted and bounded.            *)
(***************************************************************************)
EXTENDS Naturals

CONSTANTS
  Offers,        \* offer ids, given out in order
  RequestIds,    \* request ids, numbered as they are made
  Supervisors,
  Tasks,
  Works,         \* what the agent works on when it makes a call
  MaxLosses,
  NULL

ASSUME RpcAssumption ==
  /\ Offers \subseteq Nat
  /\ RequestIds \subseteq Nat
  /\ MaxLosses \in Nat
  /\ NULL \notin Nat \cup Works \cup {"draft", "pending_approval", "approved", "rejected"}

VARIABLES
  status, requestOf, required, decidedBy,  \* the offers
  applied,      \* the requests whose recommendation or preferences are stored
  asked,        \* the body of each request
  queued,       \* backend.agent-rpc
  consuming,    \* whether the staff server has its consumer
  serving,      \* the delivery the consumer works on
  rpc,          \* the call each coroutine waits for
  losses

offerVars == <<status, requestOf, required, decidedBy>>
dataVars == <<offerVars, applied>>
serverVars == <<dataVars, queued, consuming, serving>>
clientVars == <<asked, rpc>>
rpcVars == <<serverVars, clientVars, losses>>

Life == INSTANCE OfferLifecycle

--------------------------------------------------------------------------------
(* Requests, answers and calls. *)

Operations == {"create", "approve", "prefer", "recommend"}
Unasked == [op |-> "none", work |-> NULL, offer |-> NULL]

\* Callers tell two kinds of errors apart: TIMEOUT, PUBLISH_ERROR and
\* BACKEND_UNAVAILABLE, which a later attempt may not meet, and all others.
Errors == {"temporary", "permanent"}

Ok(o, s) == [code |-> "ok", offer |-> o, status |-> s]
Failed(code) == [code |-> code, offer |-> NULL, status |-> NULL]
Result ==
  [code   : {"ok"} \cup Errors,
   offer  : Offers \cup {NULL},
   status : {"draft", "pending_approval", "approved", "rejected", NULL}]

NoResult == Failed("none")
Resting == [id |-> NULL, result |-> NoResult]
NotServing == [pc |-> "idle", id |-> NULL, result |-> NoResult]

Waits(t) == rpc[t].id # NULL /\ rpc[t].result = NoResult
Fresh(id) ==
  /\ asked[id] = Unasked
  /\ \A other \in RequestIds : other < id => asked[other] # Unasked

Lose == losses < MaxLosses /\ losses' = losses + 1

RpcInit ==
  /\ Life!Init
  /\ applied = {}
  /\ asked = [id \in RequestIds |-> Unasked]
  /\ queued = {}
  /\ consuming = TRUE
  /\ serving = NotServing
  /\ rpc = [t \in Tasks |-> Resting]
  /\ losses = 0

--------------------------------------------------------------------------------
(* The client. *)

\* A request is published under a new id.  A publication that fails may have
\* reached the queue all the same.
Ask(t, op, w, o) ==
  /\ rpc[t] = Resting
  /\ \E id \in RequestIds :
       /\ Fresh(id)
       /\ asked' = [asked EXCEPT ![id] = [op |-> op, work |-> w, offer |-> o]]
       /\ \/ /\ rpc' = [rpc EXCEPT ![t] = [id |-> id, result |-> NoResult]]
             /\ queued' = queued \cup {id}
             /\ UNCHANGED losses
          \/ /\ Lose
             /\ rpc' = [rpc EXCEPT ![t] = [id |-> id, result |-> Failed("temporary")]]
             /\ queued' \in {queued, queued \cup {id}}
  /\ UNCHANGED <<dataVars, consuming, serving>>

\* Variant: a call does not time out while its request is in the queue.
TimesOutOnceServed(t) ==
  /\ Waits(t)
  /\ rpc[t].id \notin queued
  /\ rpc' = [rpc EXCEPT ![t].result = Failed("temporary")]
  /\ UNCHANGED <<serverVars, asked, losses>>

TimesOut(t) ==
  /\ Waits(t)
  /\ rpc' = [rpc EXCEPT ![t].result = Failed("temporary")]
  /\ UNCHANGED <<serverVars, asked, losses>>

\* The coroutine goes on with the result of its call; part of the step that uses it.
Returned(t) ==
  /\ rpc[t].id # NULL
  /\ rpc[t].result # NoResult
  /\ rpc' = [rpc EXCEPT ![t] = Resting]
  /\ UNCHANGED <<serverVars, asked, losses>>

--------------------------------------------------------------------------------
(* The consumer.                                                             *)

\* The oldest request is served; one that was put back is in its old place.  Taking
\* it changes nothing else, so it is part of the step that does what it asks for.
Serving(id, op) ==
  /\ consuming
  /\ serving.pc = "idle"
  /\ id \in queued /\ \A other \in queued : id <= other
  /\ asked[id].op = op
  /\ queued' = queued \ {id}
  /\ UNCHANGED <<consuming, clientVars, losses>>

Answer(id, result) == serving' = [pc |-> "publish", id |-> id, result |-> result]

\* An offer id that is not in use, the first one.
NextOffer(o) ==
  /\ ~Life!Exists(o)
  /\ \A other \in Offers : other < o => Life!Exists(other)

OfRequest(id) == {o \in Offers : Life!Exists(o) /\ requestOf[o] = id}

\* A request that was served before is answered with its offer as it is now.
\* The answer of the database to the insertion may be lost.
CreateOffer(id) ==
  /\ Serving(id, "create")
  /\ \/ \E o \in OfRequest(id) : Answer(id, Ok(o, status[o])) /\ UNCHANGED offerVars
     \/ \E o \in Offers, needed \in BOOLEAN :
          /\ NextOffer(o)
          /\ Life!Create(o, id, needed)
          /\ Answer(id, Ok(o, IF needed THEN "draft" ELSE "approved")) \/ Answer(id, Failed("permanent"))
  /\ UNCHANGED applied

\* An offer that waits for a decision is answered as it is.
RequestApproval(id) ==
  /\ Serving(id, "approve")
  /\ \E o \in Offers :
       /\ o = asked[id].offer
       /\ \/ /\ Life!Submit(o)
             /\ Answer(id, Ok(o, "pending_approval")) \/ Answer(id, Failed("permanent"))
          \/ /\ status[o] = "pending_approval"
             /\ Answer(id, Ok(o, "pending_approval"))
             /\ UNCHANGED offerVars
  /\ UNCHANGED applied

\* A recommendation is inserted unless its request id has one; preferences are
\* merged into those of the client.  Both leave a request served twice as once.
Apply(id) ==
  /\ Serving(id, "prefer") \/ Serving(id, "recommend")
  /\ applied' = applied \cup {id}
  /\ Answer(id, Ok(NULL, NULL)) \/ Answer(id, Failed("permanent"))
  /\ UNCHANGED offerVars

\* Any operation may be refused, or fail before it changed anything.
Refuse(id) ==
  /\ Serving(id, asked[id].op)
  /\ \E code \in Errors : Answer(id, Failed(code))
  /\ UNCHANGED dataVars

\* Variant: a reply answers whoever waits for one.
DeliverToAnyone(reply) ==
  rpc' = [t \in Tasks |-> IF Waits(t) THEN [rpc[t] EXCEPT !.result = reply.result] ELSE rpc[t]]

\* A reply is given to the call that waits for it, and ignored when that is over.
\* How long it is under way changes nothing: the call may time out first.
Deliver(reply) ==
  rpc' = [t \in Tasks |->
            IF Waits(t) /\ rpc[t].id = reply.id THEN [rpc[t] EXCEPT !.result = reply.result]
            ELSE rpc[t]]

\* The delivery the consumer holds.
Unacked == {id \in RequestIds : serving.id = id}

\* The reply is published and the delivery acknowledged, unless the channel is gone:
\* the delivery is back in the queue then, and the loop ends.  The channel may go
\* between the two.
PublishReply ==
  /\ serving.pc = "publish"
  /\ serving' = NotServing
  /\ \/ /\ consuming
        /\ Deliver(serving)
        /\ UNCHANGED <<queued, consuming, losses>>
     \/ /\ consuming
        /\ Deliver(serving)
        /\ Lose
        /\ consuming' = FALSE
        /\ queued' = queued \cup Unacked
     \/ /\ ~consuming
        /\ UNCHANGED <<queued, consuming, rpc, losses>>
  /\ UNCHANGED <<dataVars, asked>>

--------------------------------------------------------------------------------
(* Losses, and what else happens to the offers. *)

\* The connection of the staff server breaks.  What it holds is delivered again
\* to the next consumer; nobody starts one while the process lives.
ConsumerLost ==
  /\ consuming
  /\ Lose
  /\ consuming' = FALSE
  /\ queued' = queued \cup Unacked
  /\ UNCHANGED <<dataVars, serving, clientVars>>

\* The process of the staff server is started anew, stopped or crashed before.
ServerRestarts ==
  /\ IF consuming THEN Lose ELSE UNCHANGED losses
  /\ consuming' = TRUE
  /\ serving' = NotServing
  /\ queued' = IF consuming THEN queued \cup Unacked ELSE queued
  /\ UNCHANGED <<dataVars, clientVars>>

\* Messages are not persistent: the broker restarts with empty queues, and the
\* connections are gone.
BrokerRestarts ==
  /\ Lose
  /\ queued' = {}
  /\ consuming' = FALSE
  /\ UNCHANGED <<dataVars, serving, asked, rpc>>

\* The agent's process ends.
ClientStops ==
  /\ Lose
  /\ rpc' = [t \in Tasks |-> Resting]
  /\ UNCHANGED <<serverVars, asked>>

\* People submit and decide over HTTP.
PeopleAct ==
  /\ \E o \in Offers :
       \/ Life!Submit(o)
       \/ \E u \in Supervisors, verdict \in {"approved", "rejected"} : Life!Decide(o, u, verdict)
  /\ UNCHANGED <<applied, queued, consuming, serving, clientVars, losses>>

Serve ==
  \/ \E id \in queued : CreateOffer(id) \/ RequestApproval(id) \/ Apply(id) \/ Refuse(id)
  \/ PublishReply

\* What happens while the coroutines do nothing.
RpcStep ==
  \/ \E t \in Tasks : TimesOut(t)
  \/ Serve
  \/ PeopleAct

--------------------------------------------------------------------------------
RpcTypeOK ==
  /\ Life!TypeOK
  /\ applied \subseteq RequestIds
  /\ asked \in [RequestIds -> [op : Operations \cup {"none"}, work : Works \cup {NULL},
                              offer : Offers \cup {NULL}]]
  /\ queued \subseteq RequestIds
  /\ consuming \in BOOLEAN
  /\ serving \in [pc : {"idle", "publish"}, id : RequestIds \cup {NULL},
                  result : Result \cup {NoResult}]
  /\ rpc \in [Tasks -> [id : RequestIds \cup {NULL}, result : Result \cup {NoResult}]]
  /\ losses \in 0 .. MaxLosses
================================================================================
