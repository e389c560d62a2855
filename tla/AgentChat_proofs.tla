---------------------------- MODULE AgentChat_proofs ----------------------------
(***************************************************************************)
(* Proofs about AgentChat, for any number of requests, coroutines, retries *)
(* and losses.                                                             *)
(*                                                                         *)
(* First what the agent says of the database: the invariant Sound carries  *)
(* each fact from the database to the reply, to the call that waits for it *)
(* and to the coroutine.  Then what a request costs: the invariant Bounded *)
(* counts the copies of a request that have led to nothing yet, and the    *)
(* runs they may still lead to.  Then the servers' side of the same        *)
(* requests, AssistantCalls: the invariant Apart follows an answer from    *)
(* the reply queue of its call to the chat of its client, Recorded what is *)
(* written of the call.                                                    *)
(*                                                                         *)
(* What each of the two modules leaves to the other is AgentService, and   *)
(* each is shown to implement it: Agent and Server are the mappings.       *)
(***************************************************************************)
EXTENDS AgentChat, AssistantCalls, FiniteSetTheorems, TLAPS

--------------------------------------------------------------------------------
(* Types.                                                                    *)

LEMMA InitType == Init => TypeOK
BY RpcAssumption, ChatAssumption
DEF Init, RpcInit, TypeOK, RpcTypeOK, Life!Init, Life!TypeOK, Life!OfferStatus, Unasked,
    NotServing, NoResult, Failed, Resting, Task, Idle, Counts, Answers

\* Results are what the operators that make them say.
LEMMA ResultTypes ==
  /\ \A o \in Offers, s \in {"draft", "pending_approval", "approved", "rejected"} :
       Ok(o, s) \in Result
  /\ Ok(NULL, NULL) \in Result
  /\ \A code \in Errors : Failed(code) \in Result
  /\ NoResult \notin Result
BY DEF Ok, Failed, Result, Errors, NoResult

\* A step of the offers keeps their types.
LEMMA OfferTypes ==
  ASSUME Life!TypeOK, Life!Next \/ UNCHANGED offerVars
  PROVE  Life!TypeOK'
<1>1. CASE UNCHANGED offerVars
  BY <1>1 DEF offerVars, Life!TypeOK
<1>2. ASSUME NEW o \in Offers, NEW r \in RequestIds, NEW needed \in BOOLEAN,
             Life!Create(o, r, needed)
      PROVE  Life!TypeOK'
  BY <1>2 DEF Life!Create, Life!TypeOK, Life!OfferStatus
<1>3. ASSUME NEW o \in Offers, Life!Submit(o) PROVE Life!TypeOK'
  BY <1>3 DEF Life!Submit, Life!TypeOK, Life!OfferStatus
<1>4. ASSUME NEW o \in Offers, NEW u \in Supervisors, NEW verdict \in {"approved", "rejected"},
             Life!Decide(o, u, verdict)
      PROVE  Life!TypeOK'
  BY <1>4 DEF Life!Decide, Life!TypeOK, Life!OfferStatus
<1> QED
  BY <1>1, <1>2, <1>3, <1>4 DEF Life!Next

\* The calls of the coroutines keep the types of everything but the chat.
LEMMA AskTypes ==
  ASSUME RpcTypeOK, NEW t \in Tasks, NEW op \in Operations, NEW w \in Works \cup {NULL},
         NEW o \in Offers \cup {NULL}, Ask(t, op, w, o)
  PROVE  RpcTypeOK'
<1>1. PICK id \in RequestIds :
        /\ asked' = [asked EXCEPT ![id] = [op |-> op, work |-> w, offer |-> o]]
        /\ \/ rpc' = [rpc EXCEPT ![t] = [id |-> id, result |-> NoResult]] /\ UNCHANGED losses
           \/ Lose /\ rpc' = [rpc EXCEPT ![t] = [id |-> id, result |-> Failed("temporary")]]
        /\ queued' \in {queued, queued \cup {id}}
  BY DEF Ask
<1>2. UNCHANGED <<offerVars, applied, consuming, serving>>
  BY DEF Ask, dataVars
<1>3. Failed("temporary") \in Result
  BY ResultTypes DEF Errors
<1>4. Life!TypeOK'
  BY <1>2, OfferTypes DEF RpcTypeOK
<1>5. losses' \in 0 .. MaxLosses
  BY <1>1, RpcAssumption DEF Lose, RpcTypeOK
<1>6. asked' \in [RequestIds -> [op : Operations \cup {"none"}, work : Works \cup {NULL},
                                offer : Offers \cup {NULL}]]
  BY <1>1 DEF RpcTypeOK
<1>7. rpc' \in [Tasks -> [id : RequestIds \cup {NULL}, result : Result \cup {NoResult}]]
  BY <1>1, <1>3 DEF RpcTypeOK
<1>8. queued' \subseteq RequestIds
  BY <1>1 DEF RpcTypeOK
<1> QED
  BY <1>2, <1>4, <1>5, <1>6, <1>7, <1>8 DEF RpcTypeOK

LEMMA ReturnTypes ==
  ASSUME RpcTypeOK, NEW t \in Tasks, Returned(t) \/ TimesOut(t)
  PROVE  RpcTypeOK'
<1>1. UNCHANGED <<offerVars, applied, queued, consuming, serving, asked, losses>>
  BY DEF Returned, TimesOut, serverVars, dataVars
<1>2. Failed("temporary") \in Result
  BY ResultTypes DEF Errors
<1>3. rpc' \in [Tasks -> [id : RequestIds \cup {NULL}, result : Result \cup {NoResult}]]
  BY <1>2 DEF Returned, TimesOut, RpcTypeOK, Resting
<1> QED
  BY <1>1, <1>3, OfferTypes DEF RpcTypeOK

LEMMA ServeTypes ==
  ASSUME RpcTypeOK, Serve
  PROVE  RpcTypeOK'
<1> DEFINE Delivery == [pc : {"idle", "publish"}, id : RequestIds \cup {NULL},
                        result : Result \cup {NoResult}]
<1>a. ASSUME NEW id \in RequestIds, NEW result \in Result, Answer(id, result)
      PROVE  serving' \in Delivery
  BY <1>a DEF Answer
<1>b. ASSUME NEW id \in queued, NEW op, Serving(id, op)
      PROVE  /\ queued' \subseteq RequestIds
             /\ UNCHANGED <<consuming, asked, rpc, losses>>
  BY <1>b DEF Serving, clientVars, RpcTypeOK
<1>1. ASSUME NEW id \in queued, CreateOffer(id) PROVE RpcTypeOK'
  <2>1. id \in RequestIds
    BY DEF RpcTypeOK
  <2>2. Life!Next \/ UNCHANGED offerVars
    BY <1>1, <2>1 DEF CreateOffer, Life!Next
  <2>3. \A o \in Offers : status[o] \in {"draft", "pending_approval", "approved", "rejected", "absent"}
    BY DEF RpcTypeOK, Life!TypeOK, Life!OfferStatus
  <2>4. \E result \in Result : Answer(id, result)
    <3>1. CASE \E o \in OfRequest(id) : Answer(id, Ok(o, status[o]))
      <4>1. PICK o \in OfRequest(id) : Answer(id, Ok(o, status[o]))
        BY <3>1
      <4>2. o \in Offers /\ status[o] # "absent"
        BY DEF OfRequest, Life!Exists
      <4> QED
        BY <4>1, <4>2, <2>3, ResultTypes
    <3>2. CASE \E o \in Offers, needed \in BOOLEAN :
                 \/ Answer(id, Ok(o, IF needed THEN "draft" ELSE "approved"))
                 \/ Answer(id, Failed("permanent"))
      BY <3>2, ResultTypes DEF Errors
    <3> QED
      BY <1>1, <3>1, <3>2 DEF CreateOffer
  <2>5. Serving(id, "create") /\ UNCHANGED applied
    BY <1>1 DEF CreateOffer
  <2> QED
    BY <1>a, <1>b, <2>1, <2>2, <2>4, <2>5, OfferTypes DEF RpcTypeOK
<1>2. ASSUME NEW id \in queued, RequestApproval(id) PROVE RpcTypeOK'
  <2>1. id \in RequestIds
    BY DEF RpcTypeOK
  <2>2. Serving(id, "approve") /\ UNCHANGED applied
    BY <1>2 DEF RequestApproval
  <2>3. PICK o \in Offers :
          /\ Life!Submit(o) \/ UNCHANGED offerVars
          /\ Answer(id, Ok(o, "pending_approval")) \/ Answer(id, Failed("permanent"))
    BY <1>2 DEF RequestApproval
  <2>4. Life!Next \/ UNCHANGED offerVars
    BY <2>3 DEF Life!Next
  <2>5. \E result \in Result : Answer(id, result)
    BY <2>3, ResultTypes DEF Errors
  <2> QED
    BY <1>a, <1>b, <2>1, <2>2, <2>4, <2>5, OfferTypes DEF RpcTypeOK
<1>3. ASSUME NEW id \in queued, Apply(id) PROVE RpcTypeOK'
  <2>1. id \in RequestIds
    BY DEF RpcTypeOK
  <2>2. applied' \subseteq RequestIds /\ UNCHANGED offerVars
    BY <1>3, <2>1 DEF Apply, RpcTypeOK
  <2>3. \E result \in Result : Answer(id, result)
    BY <1>3, ResultTypes DEF Apply, Errors
  <2> QED
    BY <1>3, <1>a, <1>b, <2>1, <2>2, <2>3, OfferTypes DEF Apply, RpcTypeOK
<1>4. ASSUME NEW id \in queued, Refuse(id) PROVE RpcTypeOK'
  <2>1. id \in RequestIds
    BY DEF RpcTypeOK
  <2>2. UNCHANGED <<offerVars, applied>>
    BY <1>4 DEF Refuse, dataVars
  <2>3. \E result \in Result : Answer(id, result)
    BY <1>4, ResultTypes DEF Refuse, Errors
  <2> QED
    BY <1>4, <1>a, <1>b, <2>1, <2>2, <2>3, OfferTypes DEF Refuse, RpcTypeOK
<1>5. ASSUME PublishReply PROVE RpcTypeOK'
  <2>1. UNCHANGED <<offerVars, applied, asked>> /\ serving' = NotServing
    BY <1>5 DEF PublishReply, dataVars
  <2>2. serving' \in Delivery
    BY <2>1 DEF NotServing
  <2>3. queued' \subseteq RequestIds
    BY <1>5 DEF PublishReply, Unacked, RpcTypeOK
  <2>4. consuming' \in BOOLEAN
    BY <1>5 DEF PublishReply, RpcTypeOK
  <2>5. losses' \in 0 .. MaxLosses
    BY <1>5, RpcAssumption DEF PublishReply, Lose, RpcTypeOK
  <2>6. serving.result \in Result \cup {NoResult}
    BY DEF RpcTypeOK
  <2>7. rpc' = rpc \/ Deliver(serving)
    BY <1>5 DEF PublishReply
  <2>8. rpc' \in [Tasks -> [id : RequestIds \cup {NULL}, result : Result \cup {NoResult}]]
    BY <2>6, <2>7 DEF Deliver, RpcTypeOK
  <2>9. Life!TypeOK'
    BY <2>1, OfferTypes DEF RpcTypeOK
  <2> QED
    BY <2>1, <2>2, <2>3, <2>4, <2>5, <2>8, <2>9 DEF RpcTypeOK
<1> QED
  BY <1>1, <1>2, <1>3, <1>4, <1>5 DEF Serve

\* Losses and people keep them too.
LEMMA LossTypes ==
  ASSUME RpcTypeOK, ConsumerLost \/ ServerRestarts \/ BrokerRestarts \/ ClientStops \/ PeopleAct
  PROVE  RpcTypeOK'
<1>1. losses' \in 0 .. MaxLosses
  BY RpcAssumption
  DEF ConsumerLost, ServerRestarts, BrokerRestarts, ClientStops, PeopleAct, Lose, RpcTypeOK
<1>2. Life!Next \/ UNCHANGED offerVars
  BY DEF ConsumerLost, ServerRestarts, BrokerRestarts, ClientStops, PeopleAct, serverVars, dataVars,
         Life!Next
<1>3. Life!TypeOK'
  BY <1>2, OfferTypes DEF RpcTypeOK
<1>4. queued' \subseteq RequestIds /\ consuming' \in BOOLEAN /\ applied' \subseteq RequestIds
  BY DEF ConsumerLost, ServerRestarts, BrokerRestarts, ClientStops, PeopleAct, serverVars, dataVars,
         Unacked, RpcTypeOK
<1>5. asked' = asked
  BY DEF ConsumerLost, ServerRestarts, BrokerRestarts, ClientStops, PeopleAct, clientVars
<1>6. serving' \in {serving, NotServing}
  BY DEF ConsumerLost, ServerRestarts, BrokerRestarts, ClientStops, PeopleAct, serverVars
<1>7. rpc' \in {rpc, [t \in Tasks |-> Resting]}
  BY DEF ConsumerLost, ServerRestarts, BrokerRestarts, ClientStops, PeopleAct, clientVars
<1> QED
  BY <1>1, <1>3, <1>4, <1>5, <1>6, <1>7 DEF RpcTypeOK, NotServing, Resting

--------------------------------------------------------------------------------
(* The types of the chat.                                                    *)

ChatTypes ==
  /\ sent \subseteq Calls
  /\ queue \in [Calls -> [Counts -> Nat]]
  /\ task \in [Tasks -> Task]
  /\ said \in [Calls -> SUBSET Answers]
  /\ redelivered \in [Calls -> Nat]
  /\ runs \in [Calls -> Nat]

\* What coroutines give back when a connection ends keeps the types: there are
\* finitely many of them.
LEMMA GivenBackTypes ==
  ASSUME ChatTypes, NEW ts \in SUBSET Tasks
  PROVE  /\ Requeued(ts) \in [Calls -> [Counts -> Nat]]
         /\ CountRedelivery(ts) => redelivered' \in [Calls -> Nat]
<1>1. IsFiniteSet(ts)
  BY ChatAssumption, FS_Subset
<1>2. ASSUME NEW c \in Calls, NEW r \in Counts
      PROVE  Cardinality(Held(ts, c, r)) \in Nat
  BY <1>1, FS_Subset, FS_CardinalityType DEF Held
<1>3. ASSUME NEW c \in Calls
      PROVE  Cardinality({t \in ts : task[t].held /\ task[t].call = c}) \in Nat
  BY <1>1, FS_Subset, FS_CardinalityType
<1>4. ASSUME NEW c \in Calls, NEW r \in Counts
      PROVE  queue[c][r] + Cardinality(Held(ts, c, r)) \in Nat
  BY <1>2 DEF ChatTypes
<1>5. ASSUME NEW c \in Calls
      PROVE  redelivered[c] + Cardinality({t \in ts : task[t].held /\ task[t].call = c}) \in Nat
  BY <1>3 DEF ChatTypes
<1> QED
  BY <1>4, <1>5 DEF Requeued, CountRedelivery

\* The steps of a coroutine, and of the servers that send it requests.
LEMMA WorkTypes ==
  ASSUME RpcTypeOK, ChatTypes, NEW t \in Tasks, Work(t),
         task[t].pc = "reply" => task[t].answer \in Answers
  PROVE  RpcTypeOK' /\ ChatTypes'
<1>0. task[t] \in Task /\ {t} \in SUBSET Tasks
  BY DEF ChatTypes
<1>p. ASSUME NEW pc \in {"retry", "prefer", "approve", "ack"}, Go(t, pc)
      PROVE  task' \in [Tasks -> Task]
  BY <1>0, <1>p DEF Go, ChatTypes, Task
<1>s. ASSUME NEW a \in Answers, Say(t, a)
      PROVE  task' \in [Tasks -> Task]
  BY <1>0, <1>s DEF Say, ChatTypes, Task
<1>f. ASSUME Finish(t)
      PROVE  task' \in [Tasks -> Task]
  BY <1>f, RpcAssumption, ChatAssumption DEF Finish, ChatTypes, Task, Idle, Counts
<1>a. {"saved", "waiting", "updated", "nothing"} = Answers
  BY DEF Answers
<1>l. ASSUME Lose \/ UNCHANGED losses, UNCHANGED <<serverVars, clientVars>>
      PROVE  RpcTypeOK'
  <2>1. losses' \in 0 .. MaxLosses
    BY <1>l, RpcAssumption DEF Lose, RpcTypeOK
  <2> QED
    BY <1>l, <2>1, OfferTypes DEF serverVars, clientVars, dataVars, RpcTypeOK
<1>1. ASSUME Conclude(t) \/ TemporaryError(t) PROVE RpcTypeOK' /\ ChatTypes'
  <2>1. task' \in [Tasks -> Task]
    BY <1>1, <1>p, <1>s, <1>a DEF Conclude, TemporaryError
  <2>2. UNCHANGED <<rpcVars, sent, queue, said, redelivered, runs>>
    BY <1>1 DEF Conclude, TemporaryError
  <2> QED
    BY <2>1, <2>2, <1>l DEF ChatTypes, rpcVars
<1>2. ASSUME AskCreate(t) \/ AskPrefer(t) \/ AskApproval(t) PROVE RpcTypeOK' /\ ChatTypes'
  <2>1. /\ task[t].call \in Works \cup {NULL}
        /\ task[t].offer \in Offers \cup {NULL}
        /\ NULL \in Offers \cup {NULL}
    BY <1>0, ChatAssumption DEF Task
  <2>2. {"create", "prefer", "approve"} \subseteq Operations
    BY DEF Operations
  <2>3. PICK op \in Operations, o \in Offers \cup {NULL} : Ask(t, op, task[t].call, o)
    BY <1>2, <2>1, <2>2 DEF AskCreate, AskPrefer, AskApproval
  <2>4. RpcTypeOK'
    BY <2>1, <2>3, AskTypes
  <2>5. CASE AskCreate(t)
    <3>1. PICK needs \in BOOLEAN :
            task' = [task EXCEPT ![t].pc = "create", ![t].needs = needs]
      BY <2>5 DEF AskCreate
    <3>2. task' \in [Tasks -> Task]
      BY <1>0, <3>1 DEF ChatTypes, Task
    <3> QED
      BY <2>4, <2>5, <3>2 DEF AskCreate, ChatTypes
  <2>6. CASE AskPrefer(t) \/ AskApproval(t)
    <3>1. task' \in [Tasks -> Task]
      BY <2>6, <1>p DEF AskPrefer, AskApproval
    <3> QED
      BY <2>4, <2>6, <3>1 DEF AskPrefer, AskApproval, ChatTypes
  <2> QED
    BY <1>2, <2>5, <2>6
<1>3. ASSUME OfferCreated(t) \/ ApprovalRequested(t) \/ PreferencesUpdated(t)
      PROVE  RpcTypeOK' /\ ChatTypes'
  <2>1. RpcTypeOK'
    BY <1>3, ReturnTypes DEF OfferCreated, ApprovalRequested, PreferencesUpdated
  <2>2. UNCHANGED <<sent, queue, said, redelivered, runs>>
    BY <1>3 DEF OfferCreated, ApprovalRequested, PreferencesUpdated
  <2>3. rpc[t].id # NULL /\ rpc[t].result \in Result
    BY <1>3 DEF OfferCreated, ApprovalRequested, PreferencesUpdated, Returned, RpcTypeOK
  <2>4. rpc[t].result.offer \in Offers \cup {NULL}
    BY <2>3 DEF Result
  <2>5. \/ \E a \in Answers : Say(t, a)
        \/ task' = [task EXCEPT ![t].pc = "submit", ![t].offer = rpc[t].result.offer]
    BY <1>3, <1>a DEF OfferCreated, ApprovalRequested, PreferencesUpdated
  <2>6. CASE \E a \in Answers : Say(t, a)
    BY <1>s, <2>1, <2>2, <2>6 DEF ChatTypes
  <2>7. CASE task' = [task EXCEPT ![t].pc = "submit", ![t].offer = rpc[t].result.offer]
    <3>1. task' \in [Tasks -> Task]
      BY <1>0, <2>4, <2>7 DEF ChatTypes, Task
    <3> QED
      BY <2>1, <2>2, <3>1 DEF ChatTypes
  <2> QED
    BY <2>5, <2>6, <2>7
<1>4. ASSUME Retry(t) \/ Publish(t) PROVE RpcTypeOK' /\ ChatTypes'
  <2>1. RpcTypeOK'
    BY <1>4, <1>l DEF Retry, Publish
  <2>2. Requeued({t}) \in [Calls -> [Counts -> Nat]]
    BY <1>0, GivenBackTypes
  <2>3. ASSUME NEW q \in [Calls -> [Counts -> Nat]], NEW c, NEW r
        PROVE  [q EXCEPT ![c][r] = @ + 1] \in [Calls -> [Counts -> Nat]]
    <3>1. ASSUME NEW f \in [Counts -> Nat]
          PROVE  [f EXCEPT ![r] = @ + 1] \in [Counts -> Nat]
      <4> DEFINE g == [f EXCEPT ![r] = @ + 1]
      <4>1. ASSUME NEW n \in Counts PROVE g[n] \in Nat
        <5>1. f[n] \in Nat
          BY <3>1
        <5> QED
          BY <5>1
      <4>2. g = [n \in Counts |-> g[n]]
        OBVIOUS
      <4> HIDE DEF g
      <4>3. g \in [Counts -> Nat]
        BY <4>1, <4>2
      <4> QED
        BY <4>3 DEF g
    <3>2. ASSUME c \in Calls PROVE q[c] \in [Counts -> Nat]
      BY <3>2
    <3>3. ASSUME c \in Calls PROVE [q[c] EXCEPT ![r] = @ + 1] \in [Counts -> Nat]
      BY <3>1, <3>2, <3>3
    <3> QED
      BY <3>3
  <2>4. queue' \in [Calls -> [Counts -> Nat]]
    <3>1. queue \in [Calls -> [Counts -> Nat]]
      BY DEF ChatTypes
    <3>2. CASE Publish(t)
      BY <2>2, <3>1, <3>2 DEF Publish
    <3>3. CASE Retry(t)
      <4> DEFINE c == task[t].call
                 r == task[t].retry + 1
      <4>1. \/ queue' = [queue EXCEPT ![c][r] = @ + 1]
            \/ queue' = Requeued({t})
            \/ queue' = [Requeued({t}) EXCEPT ![c][r] = @ + 1]
        BY <3>3 DEF Retry
      <4> HIDE DEF c, r
      <4>2. /\ [queue EXCEPT ![c][r] = @ + 1] \in [Calls -> [Counts -> Nat]]
            /\ [Requeued({t}) EXCEPT ![c][r] = @ + 1] \in [Calls -> [Counts -> Nat]]
        BY <2>2, <2>3, <3>1
      <4> QED
        BY <2>2, <4>1, <4>2
    <3> QED
      BY <1>4, <3>2, <3>3
  <2>5. task' \in [Tasks -> Task]
    BY <1>4, <1>p, <1>f DEF Retry, Publish, Nack
  <2>6. redelivered' \in [Calls -> Nat]
    BY <1>0, <1>4, GivenBackTypes DEF Retry, Publish, Nack, ChatTypes
  <2>7. said' \in [Calls -> SUBSET Answers]
    <3>1. CASE Retry(t)
      BY <3>1 DEF Retry, ChatTypes
    <3>2. CASE Publish(t)
      BY <3>2 DEF Publish, ChatTypes
    <3> QED
      BY <1>4, <3>1, <3>2
  <2>8. UNCHANGED <<sent, runs>>
    BY <1>4 DEF Retry, Publish
  <2> QED
    BY <2>1, <2>4, <2>5, <2>6, <2>7, <2>8 DEF ChatTypes
<1>5. ASSUME Ack(t) PROVE RpcTypeOK' /\ ChatTypes'
  BY <1>5, <1>f, <1>l DEF Ack, ChatTypes, rpcVars
<1> QED
  BY <1>1, <1>2, <1>3, <1>4, <1>5 DEF Work

\* The servers that send requests, the consumer of the agent, and what is lost.
LEMMA OtherTypes ==
  ASSUME RpcTypeOK, ChatTypes,
         \/ \E c \in Calls : SendRpc(c)
         \/ \E t \in Tasks : Receive(t)
         \/ RpcStep /\ UNCHANGED chatVars
         \/ Loss
         \/ UNCHANGED vars
  PROVE  RpcTypeOK' /\ ChatTypes'
<1>h. [t \in Tasks |-> [task[t] EXCEPT !.held = FALSE]] \in [Tasks -> Task]
  <2>1. ASSUME NEW t \in Tasks PROVE [task[t] EXCEPT !.held = FALSE] \in Task
    <3>1. task[t] \in Task
      BY DEF ChatTypes
    <3> QED
      BY <3>1 DEF Task
  <2> QED
    BY <2>1
<1>1. ASSUME NEW c \in Calls, SendRpc(c) PROVE RpcTypeOK' /\ ChatTypes'
  <2>1. losses' \in 0 .. MaxLosses
    BY <1>1, RpcAssumption DEF SendRpc, Lose, RpcTypeOK
  <2>2. RpcTypeOK'
    BY <1>1, <2>1, OfferTypes DEF SendRpc, serverVars, clientVars, dataVars, RpcTypeOK
  <2>3. queue[c] \in [Counts -> Nat]
    BY DEF ChatTypes
  <2>4. queue' \in [Calls -> [Counts -> Nat]]
    BY <1>1, <2>3 DEF SendRpc, ChatTypes
  <2> QED
    BY <1>1, <2>2, <2>4 DEF SendRpc, ChatTypes
<1>2. ASSUME NEW t \in Tasks, Receive(t) PROVE RpcTypeOK' /\ ChatTypes'
  <2>1. RpcTypeOK'
    BY <1>2, OfferTypes DEF Receive, rpcVars, serverVars, clientVars, dataVars, RpcTypeOK
  <2>2. PICK c \in Calls, r \in Counts :
          /\ queue[c][r] > 0
          /\ queue' = [queue EXCEPT ![c][r] = @ - 1]
          /\ Start(t, c, r)
          /\ runs' = [runs EXCEPT ![c] = @ + 1]
    BY <1>2 DEF Receive
  <2>3. queue[c] \in [Counts -> Nat] /\ queue[c][r] - 1 \in Nat
    BY <2>2 DEF ChatTypes
  <2>4. queue' \in [Calls -> [Counts -> Nat]]
    BY <2>2, <2>3 DEF ChatTypes
  <2>5. task' \in [Tasks -> Task]
    BY <2>2 DEF Start, Idle, Task, ChatTypes
  <2>6. runs' \in [Calls -> Nat]
    BY <2>2 DEF ChatTypes
  <2> QED
    BY <1>2, <2>1, <2>4, <2>5, <2>6 DEF Receive, ChatTypes
<1>3. ASSUME RpcStep, UNCHANGED chatVars PROVE RpcTypeOK' /\ ChatTypes'
  BY <1>3, ServeTypes, LossTypes, ReturnTypes DEF RpcStep, chatVars, agentVars, ChatTypes
<1>4. ASSUME Loss PROVE RpcTypeOK' /\ ChatTypes'
  <2>1. Requeued(Tasks) \in [Calls -> [Counts -> Nat]]
    BY GivenBackTypes
  <2>2. CASE AgentStops
    <3>1. redelivered' \in [Calls -> Nat]
      BY <2>2, GivenBackTypes DEF AgentStops
    <3>2. RpcTypeOK'
      BY <2>2, LossTypes DEF AgentStops
    <3>3. task' \in [Tasks -> Task]
      BY <2>2, ChatAssumption DEF AgentStops, Idle, Task, Counts, ChatTypes
    <3> QED
      BY <2>1, <2>2, <3>1, <3>2, <3>3 DEF AgentStops, ChatTypes
  <2>3. CASE AgentDisconnected
    <3>1. redelivered' \in [Calls -> Nat]
      BY <2>3, GivenBackTypes DEF AgentDisconnected
    <3>2. losses' \in 0 .. MaxLosses
      BY <2>3, RpcAssumption DEF AgentDisconnected, Lose, RpcTypeOK
    <3>3. RpcTypeOK'
      BY <2>3, <3>2, OfferTypes DEF AgentDisconnected, serverVars, clientVars, dataVars, RpcTypeOK
    <3>4. task' \in [Tasks -> Task]
      BY <2>3, <1>h DEF AgentDisconnected
    <3> QED
      BY <2>1, <2>3, <3>1, <3>3, <3>4 DEF AgentDisconnected, ChatTypes
  <2>4. CASE BrokerStops
    <3>1. RpcTypeOK'
      BY <2>4, LossTypes DEF BrokerStops
    <3>2. task' \in [Tasks -> Task]
      BY <2>4, <1>h DEF BrokerStops
    <3>3. queue' \in [Calls -> [Counts -> Nat]]
      BY <2>4 DEF BrokerStops
    <3> QED
      BY <2>4, <3>1, <3>2, <3>3 DEF BrokerStops, ChatTypes
  <2>5. CASE (ConsumerLost \/ ServerRestarts) /\ UNCHANGED chatVars
    BY <2>5, LossTypes DEF chatVars, agentVars, ChatTypes
  <2> QED
    BY <1>4, <2>2, <2>3, <2>4, <2>5 DEF Loss
<1>5. ASSUME UNCHANGED vars PROVE RpcTypeOK' /\ ChatTypes'
  BY <1>5, OfferTypes
  DEF vars, rpcVars, chatVars, agentVars, serverVars, clientVars, dataVars, RpcTypeOK, ChatTypes
<1> QED
  BY <1>1, <1>2, <1>3, <1>4, <1>5

--------------------------------------------------------------------------------
(* What is known of requests, results, coroutines and answers.               *)

Asked(id) == asked[id].op # "none"

\* What a successful result says of its request, and of the database.
ResultSound(id, result) ==
  /\ result.code # "ok" => result.status \notin {"draft", "approved", "pending_approval"}
  /\ result.code = "ok" /\ asked[id].op = "create" =>
       /\ result.offer \in Offers
       /\ Life!Exists(result.offer)
       /\ requestOf[result.offer] = id
       /\ result.status = "approved" => status[result.offer] = "approved"
  /\ result.code = "ok" /\ asked[id].op = "approve" =>
       /\ result.offer = asked[id].offer
       /\ status[asked[id].offer] # "draft"
  /\ result.code = "ok" /\ asked[id].op \in {"prefer", "recommend"} => id \in applied

\* An answer is so.
AnswerSound(c, a) ==
  /\ a = "saved" => \E o \in OffersOf(c) : status[o] = "approved"
  /\ a = "waiting" => \E o \in OffersOf(c) : status[o] # "draft"
  /\ a = "updated" => \E id \in applied : asked[id].work = c

\* Offers were made for a request to make one, and what is stored was asked for.
DataSound ==
  /\ \A o \in Offers : Life!Exists(o) => requestOf[o] \in RequestIds /\ Asked(requestOf[o])
  /\ \A id \in applied : Asked(id)

\* Whoever asks for the approval of an offer made it.
ApprovalSound ==
  \A id \in RequestIds : asked[id].op = "approve" => asked[id].offer \in OffersOf(asked[id].work)

ServingSound ==
  /\ \A id \in queued \cup Unacked : Asked(id)
  /\ serving.pc = "publish" =>
       /\ serving.id \in RequestIds
       /\ Asked(serving.id)
       /\ ResultSound(serving.id, serving.result)

RpcSound ==
  \A t \in Tasks : rpc[t].id # NULL =>
    /\ Asked(rpc[t].id)
    /\ ResultSound(rpc[t].id, rpc[t].result)

\* A coroutine that is in a call made it, for its request.
TaskSound(t) ==
  /\ task[t].pc # "idle" => task[t].call \in Calls
  /\ task[t].pc \in {"create", "prefer", "approve"} =>
       /\ rpc[t].id \in RequestIds
       /\ asked[rpc[t].id].op = task[t].pc
       /\ asked[rpc[t].id].work = task[t].call
  /\ task[t].pc = "approve" => asked[rpc[t].id].offer = task[t].offer
  /\ task[t].pc \in {"submit", "approve"} => task[t].offer \in OffersOf(task[t].call)
  /\ task[t].pc = "reply" => task[t].answer \in Answers /\ AnswerSound(task[t].call, task[t].answer)

SaidSound == \A c \in Calls : \A a \in said[c] : AnswerSound(c, a)

\* The inductive invariant: every fact an answer rests on is carried from the
\* database to the reply, to the call that waits and to the coroutine.
Sound ==
  /\ RpcTypeOK /\ ChatTypes
  /\ DataSound /\ ApprovalSound /\ ServingSound /\ RpcSound
  /\ \A t \in Tasks : TaskSound(t)
  /\ SaidSound

\* What was asked, stored or decided stays.
Grows ==
  /\ \A id \in RequestIds : Asked(id) => asked'[id] = asked[id]
  /\ applied \subseteq applied'
  /\ \A o \in Offers : Life!Exists(o) =>
       /\ status'[o] # "absent"
       /\ requestOf'[o] = requestOf[o]
       /\ status[o] = "approved" => status'[o] = "approved"
       /\ status[o] # "draft" => status'[o] # "draft"

\* Facts that stay when the database grows.
LEMMA FactsStay ==
  ASSUME RpcTypeOK, DataSound, Grows
  PROVE  /\ \A w : OffersOf(w) \subseteq OffersOf(w)'
         /\ \A w, a : AnswerSound(w, a) => AnswerSound(w, a)'
         /\ \A id \in RequestIds : Asked(id) => Asked(id)'
<1>1. ASSUME NEW w, NEW o \in OffersOf(w) PROVE o \in OffersOf(w)'
  BY DEF Grows, DataSound, OffersOf, Life!Exists
<1>2. \A id \in RequestIds : Asked(id) => Asked(id)'
  BY DEF Grows, Asked
<1>3. ASSUME NEW w, NEW a, AnswerSound(w, a) PROVE AnswerSound(w, a)'
  <2>1. ASSUME NEW o \in OffersOf(w)
        PROVE  /\ status[o] = "approved" => status'[o] = "approved"
               /\ status[o] # "draft" => status'[o] # "draft"
    BY DEF Grows, OffersOf
  <2>2. ASSUME NEW id \in applied PROVE id \in applied' /\ asked'[id] = asked[id]
    BY DEF Grows, DataSound, RpcTypeOK
  <2> QED
    BY <1>1, <1>3, <2>1, <2>2 DEF AnswerSound
<1> QED
  BY <1>1, <1>2, <1>3

LEMMA ResultStays ==
  ASSUME RpcTypeOK, DataSound, ApprovalSound, Grows, NEW id \in RequestIds, Asked(id), NEW result,
         ResultSound(id, result)
  PROVE  ResultSound(id, result)'
<1>1. asked'[id] = asked[id]
  BY DEF Grows
<1>2. asked[id].op = "approve" => asked[id].offer \in Offers /\ Life!Exists(asked[id].offer)
  BY DEF ApprovalSound, OffersOf
<1>3. \A o \in Offers : Life!Exists(o) =>
        /\ status'[o] # "absent"
        /\ requestOf'[o] = requestOf[o]
        /\ status[o] = "approved" => status'[o] = "approved"
        /\ status[o] # "draft" => status'[o] # "draft"
  BY DEF Grows
<1>4. applied \subseteq applied'
  BY DEF Grows
<1> QED
  BY <1>1, <1>2, <1>3, <1>4 DEF ResultSound, Life!Exists

\* What a step leaves alone stays sound while the database grows.
LEMMA RestStays ==
  ASSUME Sound, Grows
  PROVE  /\ UNCHANGED <<offerVars, applied>> => DataSound'
         /\ asked' = asked => ApprovalSound'
         /\ rpc' = rpc => RpcSound'
         /\ serving' = serving /\ queued' \subseteq queued => ServingSound'
         /\ said' = said => SaidSound'
<1>1. RpcTypeOK /\ DataSound /\ ApprovalSound /\ ServingSound /\ RpcSound /\ SaidSound
  BY DEF Sound
<1>2. /\ \A w : OffersOf(w) \subseteq OffersOf(w)'
      /\ \A w, a : AnswerSound(w, a) => AnswerSound(w, a)'
      /\ \A id \in RequestIds : Asked(id) => Asked(id)'
  BY <1>1, FactsStay
<1>3. ASSUME UNCHANGED <<offerVars, applied>> PROVE DataSound'
  BY <1>1, <1>2, <1>3 DEF DataSound, offerVars, Life!Exists, RpcTypeOK
<1>4. ASSUME asked' = asked PROVE ApprovalSound'
  BY <1>1, <1>2, <1>4 DEF ApprovalSound
<1>5. ASSUME rpc' = rpc PROVE RpcSound'
  <2>1. ASSUME NEW t \in Tasks, rpc[t].id # NULL
        PROVE  Asked(rpc[t].id)' /\ ResultSound(rpc[t].id, rpc[t].result)'
    <3>1. rpc[t].id \in RequestIds
      BY <1>1, <2>1 DEF RpcTypeOK
    <3>2. PICK id \in RequestIds, result \in Result \cup {NoResult} :
            id = rpc[t].id /\ result = rpc[t].result
      BY <1>1, <3>1 DEF RpcTypeOK
    <3>3. Asked(id) /\ ResultSound(id, result)
      BY <1>1, <2>1, <3>2 DEF RpcSound
    <3>4. Asked(id)' /\ ResultSound(id, result)'
      BY <1>1, <1>2, <3>3, ResultStays
    <3>5. rpc'[t].id = id /\ rpc'[t].result = result
      BY <1>5, <3>2
    <3> QED
      BY <1>5, <3>2, <3>4, <3>5
  <2> QED
    BY <1>5, <2>1 DEF RpcSound
<1>6. ASSUME serving' = serving, queued' \subseteq queued PROVE ServingSound'
  <2>1. \A id \in (queued \cup Unacked)' : Asked(id)'
    BY <1>1, <1>2, <1>6 DEF ServingSound, Unacked, RpcTypeOK
  <2>2. ASSUME serving.pc = "publish"
        PROVE  /\ serving.id \in RequestIds
               /\ Asked(serving.id)'
               /\ ResultSound(serving.id, serving.result)'
    <3>1. PICK id \in RequestIds, result \in Result \cup {NoResult} :
            id = serving.id /\ result = serving.result
      BY <1>1, <2>2 DEF ServingSound, RpcTypeOK
    <3>2. Asked(id)' /\ ResultSound(id, result)'
      BY <1>1, <1>2, <2>2, <3>1, ResultStays DEF ServingSound
    <3> QED
      BY <1>6, <3>1, <3>2
  <2> QED
    BY <1>6, <2>1, <2>2 DEF ServingSound
<1>7. ASSUME said' = said PROVE SaidSound'
  BY <1>1, <1>2, <1>7 DEF SaidSound
<1> QED
  BY <1>3, <1>4, <1>5, <1>6, <1>7

\* A coroutine that does nothing keeps what it knows.
LEMMA TaskStays ==
  ASSUME Sound, Grows, NEW u \in Tasks,
         rpc'[u].id = rpc[u].id,
         task'[u].pc = task[u].pc, task'[u].call = task[u].call,
         task'[u].offer = task[u].offer, task'[u].answer = task[u].answer
  PROVE  TaskSound(u)'
<1>1. RpcTypeOK /\ DataSound /\ TaskSound(u)
  BY DEF Sound
<1>2. /\ \A w : OffersOf(w) \subseteq OffersOf(w)'
      /\ \A w, a : AnswerSound(w, a) => AnswerSound(w, a)'
  BY <1>1, FactsStay
<1>3. task[u].pc \in {"create", "prefer", "approve"} =>
        rpc[u].id \in RequestIds /\ asked'[rpc[u].id] = asked[rpc[u].id]
  BY <1>1 DEF TaskSound, Asked, Grows
<1>4. task[u].pc \in {"submit", "approve"} => task[u].offer \in OffersOf(task[u].call)'
  BY <1>1, <1>2 DEF TaskSound
<1>5. task[u].pc = "reply" =>
        task[u].answer \in Answers /\ AnswerSound(task[u].call, task[u].answer)'
  BY <1>1, <1>2 DEF TaskSound
<1> QED
  BY <1>1, <1>3, <1>4, <1>5 DEF TaskSound

--------------------------------------------------------------------------------
(* Calls and their service.                                                  *)

RpcPartsSound == DataSound /\ ApprovalSound /\ ServingSound /\ RpcSound

\* Every offer was made for a request, so the database grows when no offer is
\* touched and only an id that was not used is.
LEMMA GrowsAlone ==
  ASSUME UNCHANGED <<offerVars, applied>>, \A id \in RequestIds : Asked(id) => asked'[id] = asked[id]
  PROVE  Grows
BY DEF Grows, offerVars, Life!Exists

LEMMA AskSound ==
  ASSUME Sound, NEW t \in Tasks, NEW op \in Operations, NEW w, NEW o, Ask(t, op, w, o),
         op = "approve" => o \in OffersOf(w)
  PROVE  /\ Grows /\ RpcPartsSound'
         /\ \A u \in Tasks \ {t} : rpc'[u] = rpc[u]
         /\ rpc'[t].id \in RequestIds
         /\ asked'[rpc'[t].id] = [op |-> op, work |-> w, offer |-> o]
<1>1. PICK id \in RequestIds, result \in {NoResult, Failed("temporary")} :
        /\ asked[id] = Unasked
        /\ asked' = [asked EXCEPT ![id] = [op |-> op, work |-> w, offer |-> o]]
        /\ rpc' = [rpc EXCEPT ![t] = [id |-> id, result |-> result]]
        /\ queued' \in {queued, queued \cup {id}}
  BY DEF Ask, Fresh
<1>2. UNCHANGED <<offerVars, applied, serving>>
  BY DEF Ask, dataVars
<1>3. RpcTypeOK /\ DataSound /\ ApprovalSound /\ ServingSound /\ RpcSound
  BY DEF Sound
<1>4. /\ asked'[id] = [op |-> op, work |-> w, offer |-> o]
      /\ \A other \in RequestIds \ {id} : asked'[other] = asked[other]
      /\ rpc'[t] = [id |-> id, result |-> result]
      /\ \A u \in Tasks \ {t} : rpc'[u] = rpc[u]
  BY <1>1, <1>3 DEF RpcTypeOK
<1>5. ~Asked(id)
  BY <1>1 DEF Asked, Unasked
<1>6. Grows
  BY <1>2, <1>4, <1>5, GrowsAlone
<1>7. DataSound'
  BY <1>2, <1>6, RestStays
<1>8. /\ \A v : OffersOf(v) \subseteq OffersOf(v)'
      /\ \A other \in RequestIds : Asked(other) => Asked(other)'
  BY <1>3, <1>6, FactsStay
<1>9. ApprovalSound'
  <2>1. ASSUME NEW other \in RequestIds, asked'[other].op = "approve"
        PROVE  (asked[other].offer \in OffersOf(asked[other].work))'
    <3>1. CASE other = id
      BY <1>4, <1>8, <2>1, <3>1
    <3>2. CASE other # id
      BY <1>3, <1>4, <1>8, <2>1, <3>2 DEF ApprovalSound
    <3> QED
      BY <3>1, <3>2
  <2> QED
    BY <2>1 DEF ApprovalSound
<1>10. Asked(id)'
  BY <1>4 DEF Asked, Operations
<1>11. ServingSound'
  <2>1. \A other \in (queued \cup Unacked)' : Asked(other)'
    BY <1>1, <1>2, <1>3, <1>8, <1>10 DEF ServingSound, Unacked, RpcTypeOK
  <2>2. ASSUME serving.pc = "publish"
        PROVE  /\ serving.id \in RequestIds
               /\ Asked(serving.id)'
               /\ ResultSound(serving.id, serving.result)'
    <3>1. PICK r \in RequestIds, res \in Result \cup {NoResult} :
            r = serving.id /\ res = serving.result
      BY <1>3, <2>2 DEF ServingSound, RpcTypeOK
    <3>2. Asked(r)' /\ ResultSound(r, res)'
      BY <1>3, <1>6, <1>8, <2>2, <3>1, ResultStays DEF ServingSound
    <3> QED
      BY <1>2, <3>1, <3>2
  <2> QED
    BY <1>2, <2>1, <2>2 DEF ServingSound
<1>12. RpcSound'
  <2>1. ASSUME NEW u \in Tasks, rpc'[u].id # NULL
        PROVE  Asked(rpc[u].id)' /\ ResultSound(rpc[u].id, rpc[u].result)'
    <3>1. CASE u = t
      <4>1. ResultSound(id, result)'
        BY RpcAssumption DEF ResultSound, NoResult, Failed
      <4> QED
        BY <1>4, <1>10, <3>1, <4>1
    <3>2. CASE u # t
      <4>1. PICK r \in RequestIds, res \in Result \cup {NoResult} :
              r = rpc[u].id /\ res = rpc[u].result
        BY <1>3, <1>4, <2>1, <3>2 DEF RpcTypeOK
      <4>2. Asked(r) /\ ResultSound(r, res)
        BY <1>3, <1>4, <2>1, <3>2, <4>1 DEF RpcSound
      <4>3. Asked(r)' /\ ResultSound(r, res)'
        BY <1>3, <1>6, <1>8, <4>2, ResultStays
      <4>4. rpc'[u].id = r /\ rpc'[u].result = res
        BY <1>4, <3>2, <4>1
      <4> QED
        BY <4>3, <4>4
    <3> QED
      BY <3>1, <3>2
  <2> QED
    BY <2>1 DEF RpcSound
<1> QED
  BY <1>1, <1>4, <1>6, <1>7, <1>9, <1>11, <1>12 DEF RpcPartsSound

LEMMA ReturnSound ==
  ASSUME Sound, NEW t \in Tasks, Returned(t) \/ TimesOut(t)
  PROVE  /\ Grows /\ RpcPartsSound'
         /\ \A u \in Tasks \ {t} : rpc'[u] = rpc[u]
         /\ TimesOut(t) => rpc'[t].id = rpc[t].id
<1>1. UNCHANGED <<offerVars, applied, queued, serving, asked>>
  BY DEF Returned, TimesOut, serverVars, dataVars
<1>2. Grows
  BY <1>1, GrowsAlone
<1>3. DataSound' /\ ApprovalSound' /\ ServingSound'
  BY <1>1, <1>2, RestStays
<1>4. RpcTypeOK /\ RpcSound
  BY DEF Sound
<1>5. /\ \A u \in Tasks \ {t} : rpc'[u] = rpc[u]
      /\ TimesOut(t) => rpc'[t].id = rpc[t].id /\ rpc'[t].result = Failed("temporary")
      /\ Returned(t) => rpc'[t].id = NULL
  BY <1>4 DEF Returned, TimesOut, RpcTypeOK, Resting
<1>6. RpcSound'
  <2>1. ASSUME NEW u \in Tasks, rpc'[u].id # NULL
        PROVE  Asked(rpc[u].id)' /\ ResultSound(rpc[u].id, rpc[u].result)'
    <3>1. rpc'[u].id = rpc[u].id
      BY <1>5, <2>1
    <3>2. PICK r \in RequestIds, res \in Result \cup {NoResult} :
            /\ r = rpc'[u].id
            /\ res = rpc'[u].result
            /\ ResultSound(r, res)
            /\ Asked(r)
      <4>1. Asked(rpc[u].id) /\ ResultSound(rpc[u].id, rpc[u].result) /\ rpc[u].id \in RequestIds
        BY <1>4, <2>1, <3>1 DEF RpcSound, RpcTypeOK
      <4>2. CASE rpc'[u] = rpc[u]
        BY <1>4, <4>1, <4>2 DEF RpcTypeOK
      <4>3. CASE rpc'[u].result = Failed("temporary")
        <5>1. Failed("temporary") \in Result
          BY ResultTypes DEF Errors
        <5>2. ResultSound(rpc[u].id, Failed("temporary"))
          BY RpcAssumption DEF ResultSound, Failed
        <5> QED
          BY <3>1, <4>1, <4>3, <5>1, <5>2
      <4> QED
        BY <1>5, <2>1, <4>2, <4>3
    <3>3. Asked(r)' /\ ResultSound(r, res)'
      <4>1. DataSound /\ ApprovalSound
        BY DEF Sound
      <4> QED
        BY <1>2, <1>4, <3>2, <4>1, FactsStay, ResultStays
    <3> QED
      BY <3>2, <3>3
  <2> QED
    BY <2>1 DEF RpcSound
<1> QED
  BY <1>2, <1>3, <1>5, <1>6 DEF RpcPartsSound

\* What the consumer answers is so when it answers it.
LEMMA AnswerIsSound ==
  ASSUME Sound, NEW id \in queued, CreateOffer(id) \/ RequestApproval(id) \/ Apply(id) \/ Refuse(id)
  PROVE  /\ Grows /\ DataSound'
         /\ \E result : Answer(id, result) /\ ResultSound(id, result)'
<1>1. RpcTypeOK /\ DataSound /\ ApprovalSound /\ ServingSound /\ id \in RequestIds /\ Asked(id)
  BY DEF Sound, RpcTypeOK, ServingSound
<1>2. asked' = asked /\ queued' \subseteq queued
  BY DEF CreateOffer, RequestApproval, Apply, Refuse, Serving, clientVars
<1>3. ASSUME NEW code \in Errors PROVE ResultSound(id, Failed(code))'
  BY <1>3, RpcAssumption DEF ResultSound, Failed, Errors
<1>4. {"permanent", "temporary"} = Errors
  BY DEF Errors
<1>5. ASSUME UNCHANGED <<offerVars, applied>> PROVE Grows /\ DataSound'
  BY <1>2, <1>5, GrowsAlone, RestStays
<1>6. CASE CreateOffer(id)
  <2>1. asked[id].op = "create" /\ UNCHANGED applied
    BY <1>6 DEF CreateOffer, Serving
  <2>2. CASE \E o \in OfRequest(id) : Answer(id, Ok(o, status[o])) /\ UNCHANGED offerVars
    <3>1. PICK o \in OfRequest(id) : Answer(id, Ok(o, status[o]))
      BY <2>2
    <3>2. UNCHANGED offerVars
      BY <2>2
    <3>3. ResultSound(id, Ok(o, status[o]))'
      BY <1>2, <2>1, <3>2 DEF ResultSound, Ok, OfRequest, offerVars, Life!Exists
    <3>4. PICK s : s = status[o]
      OBVIOUS
    <3>5. Answer(id, Ok(o, s)) /\ ResultSound(id, Ok(o, s))'
      BY <3>1, <3>2, <3>3, <3>4 DEF offerVars
    <3> QED
      BY <1>5, <2>1, <3>2, <3>5
  <2>3. CASE \E o \in Offers, needed \in BOOLEAN :
               /\ NextOffer(o)
               /\ Life!Create(o, id, needed)
               /\ \/ Answer(id, Ok(o, IF needed THEN "draft" ELSE "approved"))
                  \/ Answer(id, Failed("permanent"))
    <3>1. PICK o \in Offers, needed \in BOOLEAN :
               /\ Life!Create(o, id, needed)
               /\ \/ Answer(id, Ok(o, IF needed THEN "draft" ELSE "approved"))
                  \/ Answer(id, Failed("permanent"))
      BY <2>3
    <3>2. /\ ~Life!Exists(o)
          /\ \A other \in Offers \ {o} : status'[other] = status[other] /\ requestOf'[other] = requestOf[other]
          /\ status'[o] = IF needed THEN "draft" ELSE "approved"
          /\ requestOf'[o] = id
      BY <1>1, <3>1 DEF Life!Create, RpcTypeOK, Life!TypeOK
    <3>3. Grows
      BY <1>2, <2>1, <3>2 DEF Grows, Life!Exists
    <3>4. DataSound'
      BY <1>1, <1>2, <2>1, <3>2 DEF DataSound, Life!Exists, Asked
    <3>5. ResultSound(id, Ok(o, IF needed THEN "draft" ELSE "approved"))'
      BY <1>2, <2>1, <3>2 DEF ResultSound, Ok, Life!Exists
    <3> QED
      BY <1>3, <1>4, <3>1, <3>3, <3>4, <3>5
  <2> QED
    BY <1>6, <2>2, <2>3 DEF CreateOffer
<1>7. CASE RequestApproval(id)
  <2>1. asked[id].op = "approve" /\ UNCHANGED applied
    BY <1>7 DEF RequestApproval, Serving
  <2>2. PICK o \in Offers :
          /\ o = asked[id].offer
          /\ \/ /\ Life!Submit(o)
                /\ Answer(id, Ok(o, "pending_approval")) \/ Answer(id, Failed("permanent"))
             \/ /\ status[o] = "pending_approval"
                /\ Answer(id, Ok(o, "pending_approval"))
                /\ UNCHANGED offerVars
    BY <1>7 DEF RequestApproval
  <2>3. /\ \A other \in Offers \ {o} : status'[other] = status[other]
        /\ status[o] \in {"draft", "pending_approval"}
        /\ status'[o] = "pending_approval"
        /\ requestOf' = requestOf
    BY <1>1, <2>2 DEF Life!Submit, offerVars, RpcTypeOK, Life!TypeOK
  <2>4. Grows
    BY <1>2, <2>1, <2>3 DEF Grows, Life!Exists
  <2>5. DataSound'
    BY <1>1, <1>2, <2>1, <2>3 DEF DataSound, Life!Exists, Asked
  <2>6. ResultSound(id, Ok(o, "pending_approval"))'
    BY <1>2, <2>1, <2>2, <2>3 DEF ResultSound, Ok
  <2> QED
    BY <1>3, <1>4, <2>2, <2>4, <2>5, <2>6
<1>8. CASE Apply(id)
  <2>1. /\ applied' = applied \cup {id}
        /\ UNCHANGED offerVars
        /\ asked[id].op \in {"prefer", "recommend"}
        /\ Answer(id, Ok(NULL, NULL)) \/ Answer(id, Failed("permanent"))
    BY <1>8 DEF Apply, Serving
  <2>2. Grows
    BY <1>2, <2>1 DEF Grows, offerVars, Life!Exists
  <2>3. DataSound'
    BY <1>1, <1>2, <2>1 DEF DataSound, offerVars, Life!Exists, Asked
  <2>4. ResultSound(id, Ok(NULL, NULL))'
    BY <1>2, <2>1 DEF ResultSound, Ok
  <2> QED
    BY <1>3, <1>4, <2>1, <2>2, <2>3, <2>4
<1>9. CASE Refuse(id)
  <2>1. PICK code \in Errors : Answer(id, Failed(code))
    BY <1>9 DEF Refuse
  <2>2. UNCHANGED <<offerVars, applied>>
    BY <1>9 DEF Refuse, dataVars
  <2> QED
    BY <1>3, <1>5, <2>1, <2>2
<1> QED
  BY <1>6, <1>7, <1>8, <1>9

LEMMA ServeSound ==
  ASSUME Sound, Serve
  PROVE  /\ Grows /\ RpcPartsSound'
         /\ \A u \in Tasks : rpc'[u].id = rpc[u].id
<1>1. RpcTypeOK /\ DataSound /\ ApprovalSound /\ ServingSound /\ RpcSound
  BY DEF Sound
<1>2. ASSUME NEW id \in queued, CreateOffer(id) \/ RequestApproval(id) \/ Apply(id) \/ Refuse(id)
      PROVE  /\ Grows /\ RpcPartsSound'
             /\ \A u \in Tasks : rpc'[u].id = rpc[u].id
  <2>1. Grows /\ DataSound'
    BY <1>2, AnswerIsSound
  <2>2. PICK result : Answer(id, result) /\ ResultSound(id, result)'
    BY <1>2, AnswerIsSound
  <2>3. asked' = asked /\ rpc' = rpc /\ queued' \subseteq queued
    BY <1>2 DEF CreateOffer, RequestApproval, Apply, Refuse, Serving, clientVars
  <2>4. ApprovalSound' /\ RpcSound'
    BY <2>1, <2>3, RestStays
  <2>5. /\ id \in RequestIds
        /\ \A other \in queued : Asked(other)'
    BY <1>1, <2>3 DEF RpcTypeOK, ServingSound, Asked
  <2>6. serving' = [pc |-> "publish", id |-> id, result |-> result]
    BY <2>2 DEF Answer
  <2>7. \A other \in (queued \cup Unacked)' : Asked(other)'
    BY <2>3, <2>5, <2>6 DEF Unacked
  <2>8. /\ serving'.id = id
        /\ serving'.result = result
    BY <2>6
  <2>9. ResultSound(serving.id, serving.result)'
    BY <2>2, <2>8
  <2>10. ServingSound'
    BY <2>5, <2>7, <2>8, <2>9 DEF ServingSound
  <2> QED
    BY <2>1, <2>3, <2>4, <2>10 DEF RpcPartsSound
<1>3. ASSUME PublishReply
      PROVE  /\ Grows /\ RpcPartsSound'
             /\ \A u \in Tasks : rpc'[u].id = rpc[u].id
  <2>1. UNCHANGED <<offerVars, applied, asked>> /\ serving' = NotServing /\ serving.pc = "publish"
    BY <1>3 DEF PublishReply, dataVars
  <2>2. Grows
    BY <2>1, GrowsAlone
  <2>3. DataSound' /\ ApprovalSound'
    BY <2>1, <2>2, RestStays
  <2>4. queued' \subseteq queued \cup Unacked
    BY <1>3 DEF PublishReply
  <2>5. Unacked' = {}
    BY <2>1, RpcAssumption DEF Unacked, NotServing
  <2>6. \A id \in (queued \cup Unacked)' : Asked(id)'
    BY <1>1, <2>1, <2>4, <2>5 DEF ServingSound, Asked
  <2>7. ServingSound'
    BY <2>1, <2>6 DEF ServingSound, NotServing
  <2>8. rpc' = rpc \/ Deliver(serving)
    BY <1>3 DEF PublishReply
  <2>9. CASE rpc' = rpc
    BY <2>2, <2>3, <2>7, <2>9, RestStays DEF RpcPartsSound
  <2>10. CASE Deliver(serving)
    <3>1. PICK id \in RequestIds, result \in Result \cup {NoResult} :
            id = serving.id /\ result = serving.result
      BY <1>1, <2>1 DEF ServingSound, RpcTypeOK
    <3>2. Asked(id)' /\ ResultSound(id, result)'
      BY <1>1, <2>1, <2>2, <3>1, FactsStay, ResultStays DEF ServingSound
    <3>3. ASSUME NEW u \in Tasks
          PROVE  /\ rpc'[u].id = rpc[u].id
                 /\ \/ rpc'[u].result = rpc[u].result
                    \/ rpc'[u].id = id /\ rpc'[u].result = result
      BY <1>1, <2>10, <3>1 DEF Deliver, RpcTypeOK
    <3>4. ASSUME NEW u \in Tasks, rpc'[u].id # NULL
          PROVE  (Asked(rpc[u].id) /\ ResultSound(rpc[u].id, rpc[u].result))'
      <4>1. PICK r \in RequestIds, res \in Result \cup {NoResult} :
              r = rpc[u].id /\ res = rpc[u].result
        BY <1>1, <3>3, <3>4 DEF RpcTypeOK
      <4>2. Asked(r)' /\ ResultSound(r, res)'
        BY <1>1, <2>2, <3>3, <3>4, <4>1, FactsStay, ResultStays DEF RpcSound
      <4>3. CASE rpc'[u].result = rpc[u].result
        <5>1. rpc'[u].id = r /\ rpc'[u].result = res
          BY <3>3, <4>1, <4>3
        <5> QED
          BY <4>2, <5>1
      <4>4. CASE rpc'[u].id = id /\ rpc'[u].result = result
        BY <3>2, <4>4
      <4> QED
        BY <3>3, <4>3, <4>4
    <3>5. RpcSound'
      BY <3>4 DEF RpcSound
    <3> QED
      BY <2>2, <2>3, <2>7, <3>3, <3>5 DEF RpcPartsSound
  <2> QED
    BY <2>8, <2>9, <2>10
<1> QED
  BY <1>2, <1>3 DEF Serve

LEMMA LossSound ==
  ASSUME Sound, ConsumerLost \/ ServerRestarts \/ BrokerRestarts \/ ClientStops \/ PeopleAct
  PROVE  /\ Grows /\ RpcPartsSound'
         /\ ClientStops \/ rpc' = rpc
<1>1. RpcTypeOK /\ DataSound /\ ServingSound
  BY DEF Sound
<1>2. asked' = asked /\ applied' = applied
  BY DEF ConsumerLost, ServerRestarts, BrokerRestarts, ClientStops, PeopleAct, serverVars, clientVars,
         dataVars
<1>3. ASSUME PeopleAct PROVE Grows /\ DataSound'
  <2>1. PICK o \in Offers :
          \/ Life!Submit(o)
          \/ \E u \in Supervisors, verdict \in {"approved", "rejected"} : Life!Decide(o, u, verdict)
    BY <1>3 DEF PeopleAct
  <2>2. /\ \A other \in Offers \ {o} : status'[other] = status[other]
        /\ status[o] \in {"draft", "pending_approval"}
        /\ status'[o] \in {"pending_approval", "approved", "rejected"}
        /\ requestOf' = requestOf
    BY <1>1, <2>1 DEF Life!Submit, Life!Decide, RpcTypeOK, Life!TypeOK
  <2>3. Grows
    BY <1>2, <2>2 DEF Grows, Life!Exists
  <2> QED
    BY <1>1, <1>2, <2>2, <2>3 DEF DataSound, Life!Exists, Asked
<1>4. ASSUME ~PeopleAct PROVE Grows /\ DataSound'
  <2>1. UNCHANGED offerVars
    BY <1>4 DEF ConsumerLost, ServerRestarts, BrokerRestarts, ClientStops, serverVars, dataVars
  <2> QED
    BY <1>2, <2>1, GrowsAlone, RestStays
<1>5. ApprovalSound'
  BY <1>2, <1>3, <1>4, RestStays
<1>6. /\ queued' \subseteq queued \cup Unacked
      /\ serving' \in {serving, NotServing}
  BY DEF ConsumerLost, ServerRestarts, BrokerRestarts, ClientStops, PeopleAct, serverVars
<1>7. Grows
  BY <1>3, <1>4
<1>8. ServingSound'
  <2>1. Unacked' \subseteq Unacked
    <3>1. NotServing.id \notin RequestIds
      BY RpcAssumption DEF NotServing
    <3>2. serving'.id \in {serving.id, NotServing.id}
      BY <1>6
    <3> QED
      BY <3>1, <3>2 DEF Unacked
  <2>2. \A id \in (queued \cup Unacked)' : Asked(id)'
    BY <1>1, <1>2, <1>6, <2>1 DEF ServingSound, Asked
  <2>3. CASE serving' = NotServing
    BY <2>2, <2>3 DEF ServingSound, NotServing
  <2>4. CASE serving' = serving /\ serving.pc = "publish"
    <3>1. PICK id \in RequestIds, result \in Result \cup {NoResult} :
            id = serving.id /\ result = serving.result
      BY <1>1, <2>4 DEF ServingSound, RpcTypeOK
    <3>2. ApprovalSound
      BY DEF Sound
    <3>3. Asked(id)' /\ ResultSound(id, result)'
      BY <1>1, <1>7, <2>4, <3>1, <3>2, FactsStay, ResultStays DEF ServingSound
    <3>4. (Asked(serving.id) /\ ResultSound(serving.id, serving.result))' /\ serving'.id \in RequestIds
      BY <2>4, <3>1, <3>3
    <3> QED
      BY <2>2, <3>4 DEF ServingSound
  <2> QED
    BY <1>6, <2>2, <2>3, <2>4 DEF ServingSound
<1>9. RpcSound' /\ (ClientStops \/ rpc' = rpc)
  <2>1. CASE rpc' = rpc
    BY <1>7, <2>1, RestStays
  <2>2. CASE ClientStops
    BY <2>2 DEF ClientStops, RpcSound, Resting
  <2>3. ClientStops \/ rpc' = rpc
    BY DEF ConsumerLost, ServerRestarts, BrokerRestarts, PeopleAct, clientVars
  <2> QED
    BY <2>1, <2>2, <2>3
<1> QED
  BY <1>3, <1>4, <1>5, <1>8, <1>9 DEF RpcPartsSound

--------------------------------------------------------------------------------
(* The steps of the chat.                                                    *)

\* The work of a coroutine.
LEMMA WorkSound ==
  ASSUME Sound, NEW t \in Tasks, Work(t)
  PROVE  /\ Grows /\ RpcPartsSound'
         /\ \A u \in Tasks : TaskSound(u)'
         /\ SaidSound'
<1>1. RpcTypeOK /\ ChatTypes /\ TaskSound(t) /\ task[t] \in Task /\ RpcSound /\ ApprovalSound
  BY DEF Sound, ChatTypes
<1>a. ASSUME \A u \in Tasks \ {t} : task'[u] = task[u] /\ rpc'[u] = rpc[u], Grows, TaskSound(t)'
      PROVE  \A u \in Tasks : TaskSound(u)'
  BY <1>a, TaskStays
<1>b. ASSUME UNCHANGED <<serverVars, clientVars>>
      PROVE  Grows /\ RpcPartsSound'
  <2>1. UNCHANGED <<offerVars, applied, asked, queued, serving, rpc>>
    BY <1>b DEF serverVars, clientVars, dataVars
  <2>2. Grows
    BY <2>1, GrowsAlone
  <2> QED
    BY <2>1, <2>2, RestStays DEF RpcPartsSound
<1>g. ASSUME NEW pc, Go(t, pc)
      PROVE  /\ \A u \in Tasks \ {t} : task'[u] = task[u]
             /\ task'[t].pc = pc
             /\ task'[t].call = task[t].call
             /\ task'[t].offer = task[t].offer
  BY <1>1, <1>g DEF Go, ChatTypes, Task
<1>s. ASSUME NEW a, Say(t, a)
      PROVE  /\ \A u \in Tasks \ {t} : task'[u] = task[u]
             /\ task'[t].pc = "reply"
             /\ task'[t].call = task[t].call
             /\ task'[t].answer = a
  BY <1>1, <1>s DEF Say, ChatTypes, Task
<1>f. ASSUME Finish(t)
      PROVE  /\ \A u \in Tasks \ {t} : task'[u] = task[u]
             /\ TaskSound(t)'
  <2>1. /\ \A u \in Tasks \ {t} : task'[u] = task[u]
        /\ task'[t].pc = "idle"
    BY <1>1, <1>f DEF Finish, ChatTypes, Idle
  <2> QED
    BY <2>1 DEF TaskSound
<1>n. \A c : AnswerSound(c, "nothing")'
  BY DEF AnswerSound
<1>2. CASE Conclude(t) \/ TemporaryError(t)
  <2>1. UNCHANGED <<serverVars, clientVars, said>>
    BY <1>2 DEF Conclude, TemporaryError, rpcVars
  <2>2. Grows /\ RpcPartsSound' /\ SaidSound'
    BY <1>b, <2>1, RestStays
  <2>3. (Say(t, "nothing") \/ Go(t, "retry")) /\ task[t].call \in Calls
    BY <1>1, <1>2 DEF Conclude, TemporaryError, TaskSound
  <2>4. TaskSound(t)'
    BY <1>g, <1>s, <1>n, <2>3 DEF TaskSound, Answers
  <2> QED
    BY <1>a, <1>g, <1>s, <2>1, <2>2, <2>3, <2>4 DEF clientVars
<1>3. CASE AskCreate(t) \/ AskPrefer(t)
  <2>1. PICK op \in {"create", "prefer"} :
          /\ Ask(t, op, task[t].call, NULL)
          /\ \A u \in Tasks \ {t} : task'[u] = task[u]
          /\ task'[t].pc = op
          /\ task'[t].call = task[t].call
    <3>1. CASE AskCreate(t)
      <4>1. PICK needs \in BOOLEAN : task' = [task EXCEPT ![t].pc = "create", ![t].needs = needs]
        BY <3>1 DEF AskCreate
      <4>2. /\ \A u \in Tasks \ {t} : task'[u] = task[u]
            /\ task'[t].pc = "create"
            /\ task'[t].call = task[t].call
        BY <1>1, <4>1 DEF ChatTypes, Task
      <4> QED
        BY <3>1, <4>2 DEF AskCreate
    <3>2. CASE AskPrefer(t)
      BY <1>g, <3>2 DEF AskPrefer
    <3> QED
      BY <1>3, <3>1, <3>2
  <2>2. said' = said /\ task[t].call \in Calls
    BY <1>1, <1>3 DEF AskCreate, AskPrefer, TaskSound
  <2>3. /\ Grows /\ RpcPartsSound'
        /\ \A u \in Tasks \ {t} : rpc'[u] = rpc[u]
        /\ rpc'[t].id \in RequestIds
        /\ asked'[rpc'[t].id] = [op |-> op, work |-> task[t].call, offer |-> NULL]
    <3>1. PICK w : w = task[t].call
      OBVIOUS
    <3>2. op \in Operations /\ op # "approve"
      BY DEF Operations
    <3>3. Ask(t, op, w, NULL)
      BY <2>1, <3>1
    <3>4. /\ Grows /\ RpcPartsSound'
          /\ \A u \in Tasks \ {t} : rpc'[u] = rpc[u]
          /\ rpc'[t].id \in RequestIds
          /\ asked'[rpc'[t].id] = [op |-> op, work |-> w, offer |-> NULL]
      BY <3>2, <3>3, AskSound
    <3> QED
      BY <3>1, <3>4
  <2>4. TaskSound(t)'
    BY <2>1, <2>2, <2>3 DEF TaskSound
  <2>5. SaidSound'
    BY <2>2, <2>3, RestStays
  <2> QED
    BY <1>a, <2>1, <2>3, <2>4, <2>5
<1>4. CASE AskApproval(t)
  <2>1. PICK w, o : w = task[t].call /\ o = task[t].offer
    OBVIOUS
  <2>2. /\ Ask(t, "approve", w, o)
        /\ w \in Calls /\ o \in OffersOf(w)
        /\ Go(t, "approve") /\ said' = said
    BY <1>1, <1>4, <2>1 DEF AskApproval, TaskSound
  <2>3. /\ Grows /\ RpcPartsSound'
        /\ \A u \in Tasks \ {t} : rpc'[u] = rpc[u]
        /\ rpc'[t].id \in RequestIds
        /\ asked'[rpc'[t].id] = [op |-> "approve", work |-> w, offer |-> o]
    BY <2>2, AskSound DEF Operations
  <2>4. OffersOf(w) \subseteq OffersOf(w)'
    BY <1>1, <2>3, FactsStay DEF Sound
  <2>5. /\ task'[t].pc = "approve"
        /\ task'[t].call = w
        /\ task'[t].offer = o
    BY <1>g, <2>1, <2>2
  <2>6. (task[t].offer \in OffersOf(task[t].call))'
    BY <2>2, <2>4, <2>5
  <2>7. TaskSound(t)'
    BY <2>2, <2>3, <2>5, <2>6 DEF TaskSound
  <2>8. SaidSound'
    BY <2>2, <2>3, RestStays
  <2> QED
    BY <1>a, <1>g, <2>2, <2>3, <2>7, <2>8
<1>5. CASE OfferCreated(t) \/ ApprovalRequested(t) \/ PreferencesUpdated(t)
  <2>1. Returned(t) /\ said' = said
    BY <1>5 DEF OfferCreated, ApprovalRequested, PreferencesUpdated
  <2>2. /\ Grows /\ RpcPartsSound' /\ SaidSound'
        /\ \A u \in Tasks \ {t} : rpc'[u] = rpc[u]
    BY <2>1, ReturnSound, RestStays
  <2>3. UNCHANGED <<offerVars, applied, asked>>
    BY <2>1 DEF Returned, serverVars, dataVars
  <2>4. PICK id \in RequestIds, result \in Result, c \in Calls :
          /\ id = rpc[t].id /\ result = rpc[t].result /\ c = task[t].call
          /\ ResultSound(id, result)
          /\ asked[id].op = task[t].pc
          /\ asked[id].work = c
          /\ task[t].pc = "approve" => asked[id].offer = task[t].offer
    <3>1. rpc[t].result \in Result /\ rpc[t].id # NULL
      BY <1>1, <2>1 DEF Returned, RpcTypeOK
    <3>2. task[t].pc \in {"create", "prefer", "approve"}
      BY <1>5 DEF OfferCreated, ApprovalRequested, PreferencesUpdated
    <3>3. /\ rpc[t].id \in RequestIds /\ task[t].call \in Calls
          /\ asked[rpc[t].id].op = task[t].pc
          /\ asked[rpc[t].id].work = task[t].call
          /\ task[t].pc = "approve" => asked[rpc[t].id].offer = task[t].offer
      BY <1>1, <3>2 DEF TaskSound
    <3>4. ResultSound(rpc[t].id, rpc[t].result)
      BY <1>1, <3>1 DEF RpcSound
    <3> QED
      BY <3>1, <3>3, <3>4
  <2>5. \A w : OffersOf(w)' = OffersOf(w)
    BY <2>3 DEF OffersOf, offerVars, Life!Exists
  <2>6. ASSUME NEW a, Say(t, a), a \in Answers, AnswerSound(c, a)'
        PROVE  TaskSound(t)'
    BY <1>s, <2>4, <2>6 DEF TaskSound
  <2>7. CASE OfferCreated(t)
    <3>1. asked[id].op = "create"
      BY <2>4, <2>7 DEF OfferCreated
    <3>2. ASSUME result.status = ExpectedStatus(t)
          PROVE  /\ result.offer \in OffersOf(c)
                 /\ result.status = "approved" => status[result.offer] = "approved"
      <4>1. result.code = "ok"
        BY <2>4, <3>2 DEF ResultSound, ExpectedStatus
      <4> QED
        BY <2>4, <3>1, <4>1 DEF ResultSound, OffersOf
    <3>3. CASE Say(t, "nothing")
      BY <1>a, <1>s, <1>n, <2>2, <2>6, <3>3 DEF Answers
    <3>4. CASE /\ result.status = ExpectedStatus(t)
               /\ task[t].needs
               /\ task' = [task EXCEPT ![t].pc = "submit", ![t].offer = result.offer]
      <4>1. /\ \A u \in Tasks \ {t} : task'[u] = task[u]
            /\ task'[t].pc = "submit"
            /\ task'[t].call = c
            /\ task'[t].offer = result.offer
        BY <1>1, <2>4, <3>4 DEF ChatTypes, Task
      <4>2. (task[t].offer \in OffersOf(task[t].call))'
        BY <2>5, <3>2, <3>4, <4>1
      <4>3. TaskSound(t)'
        BY <4>1, <4>2 DEF TaskSound
      <4> QED
        BY <1>a, <2>2, <4>1, <4>3
    <3>5. CASE result.status = ExpectedStatus(t) /\ ~task[t].needs /\ Say(t, "saved")
      <4>1. result.status = "approved"
        BY <3>5 DEF ExpectedStatus
      <4>2. AnswerSound(c, "saved")'
        BY <2>3, <2>5, <3>2, <3>5, <4>1 DEF AnswerSound, offerVars
      <4>3. TaskSound(t)'
        BY <2>6, <3>5, <4>2 DEF Answers
      <4> QED
        BY <1>a, <1>s, <2>2, <3>5, <4>3
    <3>6. \/ Say(t, "nothing")
          \/ /\ result.status = ExpectedStatus(t)
             /\ task[t].needs
             /\ task' = [task EXCEPT ![t].pc = "submit", ![t].offer = result.offer]
          \/ result.status = ExpectedStatus(t) /\ ~task[t].needs /\ Say(t, "saved")
      BY <2>4, <2>7 DEF OfferCreated
    <3> QED
      BY <1>a, <1>s, <2>2, <3>3, <3>4, <3>5, <3>6
  <2>8. CASE ApprovalRequested(t)
    <3>1. CASE Say(t, "nothing")
      BY <1>a, <1>s, <1>n, <2>2, <2>6, <3>1 DEF Answers
    <3>2. CASE Say(t, "waiting") /\ result = Ok(task[t].offer, "pending_approval")
      <4>1. /\ result.code = "ok"
            /\ asked[id].op = "approve"
        BY <2>4, <2>8, <3>2 DEF ApprovalRequested, Ok
      <4>2. status[asked[id].offer] # "draft"
        BY <2>4, <4>1 DEF ResultSound
      <4>3. asked[id].offer \in OffersOf(c)
        BY <1>1, <2>4, <4>1 DEF ApprovalSound
      <4>4. AnswerSound(c, "waiting")'
        BY <2>3, <2>5, <4>2, <4>3 DEF AnswerSound, offerVars
      <4>5. TaskSound(t)'
        BY <2>6, <3>2, <4>4 DEF Answers
      <4> QED
        BY <1>a, <1>s, <2>2, <3>2, <4>5
    <3> QED
      BY <2>4, <2>8, <3>1, <3>2 DEF ApprovalRequested
  <2>9. CASE PreferencesUpdated(t)
    <3>1. CASE Say(t, "nothing")
      BY <1>a, <1>s, <1>n, <2>2, <2>6, <3>1 DEF Answers
    <3>2. CASE Say(t, "updated") /\ result.code = "ok"
      <4>1. id \in applied
        BY <2>4, <2>9, <3>2 DEF PreferencesUpdated, ResultSound
      <4>2. AnswerSound(c, "updated")'
        BY <2>3, <2>4, <4>1 DEF AnswerSound
      <4>3. TaskSound(t)'
        BY <2>6, <3>2, <4>2 DEF Answers
      <4> QED
        BY <1>a, <1>s, <2>2, <3>2, <4>3
    <3> QED
      BY <2>4, <2>9, <3>1, <3>2 DEF PreferencesUpdated
  <2> QED
    BY <1>5, <2>7, <2>8, <2>9
<1>6. CASE Retry(t) \/ Ack(t)
  <2>1. UNCHANGED <<serverVars, clientVars, said>>
    BY <1>6 DEF Retry, Ack, rpcVars
  <2>2. Grows /\ RpcPartsSound' /\ SaidSound'
    BY <1>b, <2>1, RestStays
  <2>3. (Go(t, "ack") /\ task[t].call \in Calls) \/ Finish(t)
    BY <1>1, <1>6 DEF Retry, Ack, Nack, TaskSound
  <2>4. TaskSound(t)'
    BY <1>f, <1>g, <2>3 DEF TaskSound
  <2> QED
    BY <1>a, <1>f, <1>g, <2>1, <2>2, <2>3, <2>4 DEF clientVars
<1>7. CASE Publish(t)
  <2>1. UNCHANGED <<serverVars, clientVars>>
    BY <1>7 DEF Publish
  <2>2. Grows /\ RpcPartsSound'
    BY <1>b, <2>1
  <2>3. PICK c \in Calls, a \in Answers :
          c = task[t].call /\ a = task[t].answer /\ AnswerSound(c, a)
    BY <1>1, <1>7 DEF Publish, TaskSound
  <2>4. said' \in {said, [said EXCEPT ![c] = @ \cup {a}]}
    BY <1>7, <2>3 DEF Publish
  <2>5. \A w, b : AnswerSound(w, b) => AnswerSound(w, b)'
    BY <1>1, <2>2, FactsStay DEF Sound
  <2>6. SaidSound'
    <3>1. ASSUME NEW w \in Calls, NEW b \in said'[w] PROVE AnswerSound(w, b)
      BY <1>1, <2>3, <2>4 DEF Sound, SaidSound, ChatTypes
    <3> QED
      BY <2>5, <3>1 DEF SaidSound
  <2>7. Go(t, "ack") \/ Finish(t)
    BY <1>7 DEF Publish, Nack
  <2>8. TaskSound(t)'
    BY <1>f, <1>g, <2>3, <2>7 DEF TaskSound
  <2> QED
    BY <1>a, <1>f, <1>g, <2>1, <2>2, <2>6, <2>7, <2>8 DEF clientVars
<1> QED
  BY <1>2, <1>3, <1>4, <1>5, <1>6, <1>7 DEF Work

\* Everything else that happens.
LEMMA OtherSound ==
  ASSUME Sound,
         \/ \E c \in Calls : SendRpc(c)
         \/ \E t \in Tasks : Receive(t)
         \/ RpcStep /\ UNCHANGED chatVars
         \/ Loss
         \/ UNCHANGED vars
  PROVE  /\ RpcPartsSound'
         /\ \A u \in Tasks : TaskSound(u)'
         /\ SaidSound'
<1>1. RpcTypeOK /\ ChatTypes
  BY DEF Sound
<1>b. ASSUME UNCHANGED <<serverVars, clientVars>>
      PROVE  Grows /\ RpcPartsSound'
  <2>1. UNCHANGED <<offerVars, applied, asked, queued, serving, rpc>>
    BY <1>b DEF serverVars, clientVars, dataVars
  <2>2. Grows
    BY <2>1, GrowsAlone
  <2> QED
    BY <2>1, <2>2, RestStays DEF RpcPartsSound
<1>2. ASSUME NEW c \in Calls, SendRpc(c) PROVE RpcPartsSound' /\ SaidSound' /\ \A u \in Tasks : TaskSound(u)'
  BY <1>2, <1>b, RestStays, TaskStays DEF SendRpc, clientVars
<1>3. ASSUME NEW t \in Tasks, Receive(t)
      PROVE  RpcPartsSound' /\ SaidSound' /\ \A u \in Tasks : TaskSound(u)'
  <2>1. UNCHANGED <<serverVars, clientVars, said>>
    BY <1>3 DEF Receive, rpcVars
  <2>2. Grows /\ RpcPartsSound' /\ SaidSound'
    BY <1>b, <2>1, RestStays
  <2>3. PICK c \in Calls, r \in Counts : Start(t, c, r)
    BY <1>3 DEF Receive
  <2>4. /\ \A u \in Tasks \ {t} : task'[u] = task[u]
        /\ task'[t].pc = "think"
        /\ task'[t].call = c
    BY <1>1, <2>3 DEF Start, Idle, ChatTypes
  <2>5. TaskSound(t)'
    BY <2>4 DEF TaskSound
  <2> QED
    BY <2>1, <2>2, <2>4, <2>5, TaskStays DEF clientVars
<1>4. ASSUME RpcStep, UNCHANGED chatVars
      PROVE  RpcPartsSound' /\ SaidSound' /\ \A u \in Tasks : TaskSound(u)'
  <2>1. task' = task /\ said' = said
    BY <1>4 DEF chatVars, agentVars
  <2>2. Grows /\ RpcPartsSound' /\ \A u \in Tasks : rpc'[u].id = rpc[u].id
    <3>1. ASSUME NEW t \in Tasks, TimesOut(t)
          PROVE  Grows /\ RpcPartsSound' /\ \A u \in Tasks : rpc'[u].id = rpc[u].id
      BY <3>1, ReturnSound
    <3>2. ASSUME PeopleAct
          PROVE  Grows /\ RpcPartsSound' /\ \A u \in Tasks : rpc'[u].id = rpc[u].id
      BY <3>2, LossSound DEF PeopleAct, clientVars
    <3> QED
      BY <1>4, <3>1, <3>2, ServeSound DEF RpcStep
  <2> QED
    BY <2>1, <2>2, RestStays, TaskStays
<1>5. ASSUME Loss PROVE RpcPartsSound' /\ SaidSound' /\ \A u \in Tasks : TaskSound(u)'
  <2>1. CASE AgentStops
    <3>1. Grows /\ RpcPartsSound' /\ said' = said
      BY <2>1, LossSound DEF AgentStops
    <3>2. \A u \in Tasks : task'[u].pc = "idle"
      BY <2>1 DEF AgentStops, Idle
    <3> QED
      BY <3>1, <3>2, RestStays DEF TaskSound
  <2>2. CASE AgentDisconnected \/ BrokerStops
    <3>1. Grows /\ RpcPartsSound' /\ rpc' = rpc /\ said' = said
      <4>1. CASE AgentDisconnected
        BY <1>b, <4>1 DEF AgentDisconnected, clientVars
      <4>2. CASE BrokerStops
        BY <4>2, LossSound DEF BrokerStops, BrokerRestarts
      <4> QED
        BY <2>2, <4>1, <4>2
    <3>2. \A u \in Tasks : /\ task'[u].pc = task[u].pc /\ task'[u].call = task[u].call
                          /\ task'[u].offer = task[u].offer /\ task'[u].answer = task[u].answer
      BY <1>1, <2>2 DEF AgentDisconnected, BrokerStops, ChatTypes, Task
    <3> QED
      BY <3>1, <3>2, RestStays, TaskStays
  <2>3. CASE (ConsumerLost \/ ServerRestarts) /\ UNCHANGED chatVars
    <3>1. Grows /\ RpcPartsSound'
      BY <2>3, LossSound
    <3>2. task' = task /\ said' = said /\ rpc' = rpc
      BY <2>3 DEF ConsumerLost, ServerRestarts, clientVars, chatVars, agentVars
    <3> QED
      BY <3>1, <3>2, RestStays, TaskStays
  <2> QED
    BY <1>5, <2>1, <2>2, <2>3 DEF Loss
<1>6. ASSUME UNCHANGED vars PROVE RpcPartsSound' /\ SaidSound' /\ \A u \in Tasks : TaskSound(u)'
  <2>1. UNCHANGED <<serverVars, clientVars, task, said>>
    BY <1>6 DEF vars, rpcVars, chatVars, agentVars
  <2> QED
    BY <2>1, <1>b, RestStays, TaskStays DEF clientVars
<1> QED
  BY <1>2, <1>3, <1>4, <1>5, <1>6

--------------------------------------------------------------------------------
(* What is told is so.                                                       *)

LEMMA SoundInit == Init => Sound
<1> SUFFICES ASSUME Init PROVE Sound
  OBVIOUS
<1>1. RpcTypeOK /\ ChatTypes
  BY InitType DEF TypeOK, ChatTypes
<1>2. \A o \in Offers : ~Life!Exists(o)
  BY DEF Init, RpcInit, Life!Init, Life!Exists
<1>3. applied = {} /\ queued = {} /\ serving = NotServing /\ asked = [id \in RequestIds |-> Unasked]
  BY DEF Init, RpcInit
<1>4. DataSound
  BY <1>2, <1>3 DEF DataSound
<1>5. ApprovalSound
  BY <1>3 DEF ApprovalSound, Unasked
<1>6. Unacked = {}
  BY <1>3, RpcAssumption DEF Unacked, NotServing
<1>7. ServingSound
  BY <1>3, <1>6 DEF ServingSound, NotServing
<1>8. RpcSound
  BY DEF Init, RpcInit, RpcSound, Resting
<1>9. \A t \in Tasks : TaskSound(t)
  BY DEF Init, TaskSound, Idle
<1>10. SaidSound
  BY DEF Init, SaidSound
<1> QED
  BY <1>1, <1>4, <1>5, <1>7, <1>8, <1>9, <1>10 DEF Sound

LEMMA SoundNext == Sound /\ [Next]_vars => Sound'
<1> SUFFICES ASSUME Sound, [Next]_vars PROVE Sound'
  OBVIOUS
<1>1. RpcTypeOK /\ ChatTypes
  BY DEF Sound
<1>2. ASSUME NEW t \in Tasks, Work(t) PROVE Sound'
  <2>1. task[t].pc = "reply" => task[t].answer \in Answers
    BY DEF Sound, TaskSound
  <2> QED
    BY <1>1, <1>2, <2>1, WorkTypes, WorkSound DEF Sound, RpcPartsSound
<1>3. ASSUME \/ \E c \in Calls : SendRpc(c)
             \/ \E t \in Tasks : Receive(t)
             \/ RpcStep /\ UNCHANGED chatVars
             \/ Loss
             \/ UNCHANGED vars
      PROVE  Sound'
  BY <1>1, <1>3, OtherTypes, OtherSound DEF Sound, RpcPartsSound
<1> QED
  BY <1>2, <1>3 DEF Next

\* The inductive invariant holds of the agent and the backend.
THEOREM SoundAlways == Spec => []Sound
<1> QED
  BY SoundInit, SoundNext, PTL DEF Spec

\* Every variable keeps its type, whatever is lost and however copies of a
\* request multiply.
THEOREM TypesHold == Spec => []TypeOK
<1>1. Sound => TypeOK
  BY DEF Sound, ChatTypes, TypeOK
<1> QED
  BY <1>1, SoundAlways, PTL

\* What the agent tells a manager of the database is so, for any number of
\* coroutines and requests: a late reply is matched by its request id, an id is
\* asked for one thing only, and what a request did is not undone.
THEOREM WhatIsToldIsDone == Spec => []ToldIsDone
<1>1. Sound => ToldIsDone
  BY DEF Sound, SaidSound, AnswerSound, ToldIsDone
<1> QED
  BY <1>1, SoundAlways, PTL

\* What was asked is never asked otherwise, an offer keeps its request, and what
\* is in force stays so: the facts that the soundness of an answer, given long
\* after the backend made it, rests on.
THEOREM DatabaseGrows == Spec => [][Grows]_vars
<1>1. Sound /\ [Next]_vars => [Grows]_vars
  <2> SUFFICES ASSUME Sound, Next, vars' # vars PROVE Grows
    BY DEF Sound
  <2>1. ASSUME UNCHANGED <<serverVars, clientVars>> PROVE Grows
    BY <2>1, GrowsAlone DEF serverVars, clientVars, dataVars
  <2>2. ASSUME NEW c \in Calls, SendRpc(c) PROVE Grows
    BY <2>1, <2>2 DEF SendRpc
  <2>3. ASSUME NEW t \in Tasks, Receive(t) PROVE Grows
    BY <2>1, <2>3 DEF Receive, rpcVars
  <2>4. ASSUME NEW t \in Tasks, Work(t) PROVE Grows
    BY <2>4, WorkSound
  <2>5. ASSUME RpcStep PROVE Grows
    BY <2>5, ServeSound, LossSound, ReturnSound DEF RpcStep
  <2>6. ASSUME Loss PROVE Grows
    BY <2>1, <2>6, LossSound DEF Loss, AgentStops, AgentDisconnected, BrokerStops
  <2> QED
    BY <2>2, <2>3, <2>4, <2>5, <2>6 DEF Next
<1> QED
  BY <1>1, SoundAlways, PTL DEF Spec

--------------------------------------------------------------------------------
(* What a request may still cost.                                            *)

\* A copy of a request: one of those that wait in the queue with a retry count, or
\* the one that a coroutine works on and has made nothing of.
Copy == [who : Tasks \cup {NULL}, count : Counts, n : Nat]

Undecided(t, c) == task[t].call = c /\ task[t].pc \in {"think", "retry"}

Copies(c) ==
  {x \in Copy :
     \/ x.who = NULL /\ x.n \in 1 .. queue[c][x.count]
     \/ x.who \in Tasks /\ x.n = 0 /\ Undecided(x.who, c) /\ x.count = task[x.who].retry}

\* The runs that a copy may still lead to, each known by the retry count it has.
MayRun(copy, r) == r > copy.count \/ (r = copy.count /\ copy.who = NULL)
RunsLeft(copies) == {x \in [copy : copies, run : Counts] : MayRun(x.copy, x.run)}

\* The calls that asked, or ask, the backend for an offer.
Creations(c) == {id \in RequestIds : asked[id].op = "create" /\ asked[id].work = c}

Deliveries(c) == (IF c \in sent THEN 1 ELSE 0) + redelivered[c]

LEMMA Injects ==
  ASSUME NEW S, NEW T, IsFiniteSet(T), NEW f \in [S -> T],
         \A x, y \in S : f[x] = f[y] => x = y
  PROVE  /\ IsFiniteSet(S)
         /\ Cardinality(S) \in Nat /\ Cardinality(T) \in Nat
         /\ Cardinality(S) <= Cardinality(T)
<1>1. f \in Injection(S, T)
  BY DEF Injection, IsInjective
<1> QED
  BY <1>1, FS_Injection, FS_CardinalityType

LEMMA CountsFinite == IsFiniteSet(Counts) /\ Cardinality(Counts) = MaxRetries + 1
<1>1. Counts = 0 .. MaxRetries /\ MaxRetries \in Nat
  BY ChatAssumption DEF Counts
<1> QED
  BY <1>1, FS_Interval

\* Finitely many copies have finitely many runs left, at most MaxRetries + 1 each.
LEMMA RunsOfCopies ==
  ASSUME NEW S, IsFiniteSet(S)
  PROVE  /\ IsFiniteSet(RunsLeft(S))
         /\ Cardinality(S) \in Nat /\ Cardinality(RunsLeft(S)) \in Nat
         /\ Cardinality(RunsLeft(S)) <= Cardinality(S) * (MaxRetries + 1)
<1> DEFINE f == [x \in RunsLeft(S) |-> <<x.copy, x.run>>]
<1>1. IsFiniteSet(S \X Counts) /\ Cardinality(S \X Counts) = Cardinality(S) * (MaxRetries + 1)
  BY CountsFinite, FS_Product
<1>2. \A x \in RunsLeft(S) : x.copy \in S /\ x.run \in Counts /\ x = [copy |-> x.copy, run |-> x.run]
  BY DEF RunsLeft
<1>3. f \in [RunsLeft(S) -> S \X Counts]
  BY <1>2
<1>4. \A x, y \in RunsLeft(S) : f[x] = f[y] => x = y
  BY <1>2
<1> HIDE DEF f
<1> QED
  BY <1>1, <1>3, <1>4, Injects, FS_CardinalityType

\* Copies that each come from another, with no more runs left than that one, are no
\* more copies and have no more runs left than those they come from.
LEMMA CopiesMove ==
  ASSUME NEW Old, IsFiniteSet(Old), NEW New, NEW f \in [New -> Old],
         \A x, y \in New : f[x] = f[y] => x = y,
         \A x \in New : \A r \in Counts : MayRun(x, r) => MayRun(f[x], r)
  PROVE  /\ IsFiniteSet(New)
         /\ Cardinality(New) <= Cardinality(Old)
         /\ Cardinality(RunsLeft(New)) <= Cardinality(RunsLeft(Old))
<1> DEFINE g == [x \in RunsLeft(New) |-> [copy |-> f[x.copy], run |-> x.run]]
<1>1. IsFiniteSet(RunsLeft(Old))
  BY RunsOfCopies
<1>2. \A x \in RunsLeft(New) :
        /\ x.copy \in New /\ x.run \in Counts /\ MayRun(x.copy, x.run)
        /\ x = [copy |-> x.copy, run |-> x.run]
  BY DEF RunsLeft
<1>3. \A x \in RunsLeft(New) : g[x] \in RunsLeft(Old)
  <2> TAKE x \in RunsLeft(New)
  <2>1. f[x.copy] \in Old /\ x.run \in Counts /\ MayRun(f[x.copy], x.run)
    BY <1>2
  <2>2. g[x] = [copy |-> f[x.copy], run |-> x.run]
    OBVIOUS
  <2> QED
    BY <2>1, <2>2 DEF RunsLeft
<1>4. \A x, y \in RunsLeft(New) : g[x] = g[y] => x = y
  <2> TAKE x, y \in RunsLeft(New)
  <2> HAVE g[x] = g[y]
  <2>1. g[x].copy = g[y].copy /\ g[x].run = g[y].run
    OBVIOUS
  <2>2. f[x.copy] = f[y.copy] /\ x.run = y.run
    BY <2>1
  <2> QED
    BY <1>2, <2>2
<1>5. g \in [RunsLeft(New) -> RunsLeft(Old)]
  BY <1>3
<1> HIDE DEF g
<1>6. Cardinality(RunsLeft(New)) <= Cardinality(RunsLeft(Old))
  BY <1>1, <1>4, <1>5, Injects
<1> QED
  BY <1>6, Injects

\* Copies that were delivered again come on top.
LEMMA CopiesMoveAndJoin ==
  ASSUME NEW Old, IsFiniteSet(Old), NEW Moved, NEW f \in [Moved -> Old],
         \A x, y \in Moved : f[x] = f[y] => x = y,
         \A x \in Moved : \A r \in Counts : MayRun(x, r) => MayRun(f[x], r),
         NEW Joined, IsFiniteSet(Joined), NEW k \in Nat, Cardinality(Joined) <= k,
         NEW New, New \subseteq Moved \cup Joined
  PROVE  /\ IsFiniteSet(New)
         /\ Cardinality(New) <= Cardinality(Old) + k
         /\ Cardinality(RunsLeft(New)) <= Cardinality(RunsLeft(Old)) + (MaxRetries + 1) * k
<1>1. /\ IsFiniteSet(Moved)
      /\ Cardinality(Moved) <= Cardinality(Old)
      /\ Cardinality(RunsLeft(Moved)) <= Cardinality(RunsLeft(Old))
  BY CopiesMove
<1> DEFINE All == Moved \cup Joined
<1>2. /\ IsFiniteSet(All)
      /\ Cardinality(All) = Cardinality(Moved) + Cardinality(Joined) - Cardinality(Moved \cap Joined)
  BY <1>1, FS_Union
<1>3. Cardinality(Moved \cap Joined) \in Nat
  BY <1>1, FS_Intersection, FS_CardinalityType
<1>4. /\ Cardinality(Moved) \in Nat /\ Cardinality(Joined) \in Nat /\ Cardinality(Old) \in Nat
      /\ Cardinality(All) \in Nat
  BY <1>1, <1>2, FS_CardinalityType
<1>5. Cardinality(All) <= Cardinality(Old) + k
  BY <1>1, <1>2, <1>3, <1>4
<1>6. IsFiniteSet(New) /\ Cardinality(New) <= Cardinality(All) /\ Cardinality(New) \in Nat
  BY <1>2, FS_Subset, FS_CardinalityType
<1>7. /\ IsFiniteSet(RunsLeft(Moved)) /\ IsFiniteSet(RunsLeft(Joined)) /\ IsFiniteSet(RunsLeft(Old))
      /\ Cardinality(RunsLeft(Moved)) \in Nat /\ Cardinality(RunsLeft(Joined)) \in Nat
      /\ Cardinality(RunsLeft(Old)) \in Nat
      /\ Cardinality(RunsLeft(Joined)) <= Cardinality(Joined) * (MaxRetries + 1)
  BY <1>1, RunsOfCopies
<1>8. RunsLeft(New) \subseteq RunsLeft(Moved) \cup RunsLeft(Joined)
  BY DEF RunsLeft
<1> DEFINE R == RunsLeft(Moved) \cup RunsLeft(Joined)
<1>9. /\ IsFiniteSet(R)
      /\ Cardinality(R) = Cardinality(RunsLeft(Moved)) + Cardinality(RunsLeft(Joined))
                            - Cardinality(RunsLeft(Moved) \cap RunsLeft(Joined))
  BY <1>7, FS_Union
<1>10. Cardinality(RunsLeft(Moved) \cap RunsLeft(Joined)) \in Nat
  BY <1>7, FS_Intersection, FS_CardinalityType
<1>11. Cardinality(RunsLeft(New)) <= Cardinality(R) /\ Cardinality(R) \in Nat /\ Cardinality(RunsLeft(New)) \in Nat
  BY <1>8, <1>9, FS_Subset, FS_CardinalityType
<1>12. Cardinality(Joined) * (MaxRetries + 1) <= (MaxRetries + 1) * k
  <2>1. \A a, b, m \in Nat : a <= b => a * m <= m * b
    OBVIOUS
  <2>2. MaxRetries + 1 \in Nat
    BY ChatAssumption
  <2> QED
    BY <1>4, <2>1, <2>2
<1>13. (MaxRetries + 1) * k \in Nat /\ Cardinality(Joined) * (MaxRetries + 1) \in Nat
  BY <1>4, ChatAssumption
<1>14. Cardinality(RunsLeft(New)) <= Cardinality(RunsLeft(Old)) + (MaxRetries + 1) * k
  <2> DEFINE p == (MaxRetries + 1) * k
             q == Cardinality(Joined) * (MaxRetries + 1)
  <2>1. p \in Nat /\ q \in Nat /\ q <= p /\ Cardinality(RunsLeft(Joined)) <= q
    BY <1>7, <1>12, <1>13
  <2> HIDE DEF p, q
  <2>2. Cardinality(RunsLeft(New)) <= Cardinality(RunsLeft(Old)) + p
    BY <1>1, <1>7, <1>9, <1>10, <1>11, <2>1
  <2> QED
    BY <2>2 DEF p
<1> QED
  BY <1>5, <1>6, <1>4, <1>14

\* What is left of a request never exceeds what its deliveries allow: one creation
\* and MaxRetries + 1 runs for each.
CallBounded(c) ==
  /\ IsFiniteSet(Copies(c)) /\ IsFiniteSet(Creations(c))
  /\ Cardinality(Creations(c)) + Cardinality(Copies(c)) <= Deliveries(c)
  /\ runs[c] + Cardinality(RunsLeft(Copies(c))) <= (MaxRetries + 1) * Deliveries(c)

Bounded ==
  /\ \A t \in Tasks : task[t].pc = "retry" => task[t].retry < MaxRetries
  /\ \A c \in Calls : CallBounded(c)

LEMMA DeliveriesType ==
  ASSUME ChatTypes, NEW c \in Calls
  PROVE  Deliveries(c) \in Nat
BY DEF ChatTypes, Deliveries

LEMMA Distributes ==
  \A a, b, d \in Nat : a * (b + d) = a * b + a * d
OBVIOUS

\* Copies move, and k of them come on top for k more deliveries.
LEMMA MovedAndJoined ==
  ASSUME ChatTypes, ChatTypes', NEW c \in Calls, CallBounded(c),
         NEW Moved, NEW f \in [Moved -> Copies(c)],
         \A x, y \in Moved : f[x] = f[y] => x = y,
         \A x \in Moved : \A r \in Counts : MayRun(x, r) => MayRun(f[x], r),
         NEW Joined, IsFiniteSet(Joined), NEW k \in Nat, Cardinality(Joined) <= k,
         Copies(c)' \subseteq Moved \cup Joined,
         Creations(c)' = Creations(c), runs'[c] = runs[c],
         Deliveries(c)' = Deliveries(c) + k
  PROVE  CallBounded(c)'
<1> PICK Old : Old = Copies(c)
  OBVIOUS
<1> PICK New : New = Copies(c)'
  OBVIOUS
<1>0. IsFiniteSet(Old) /\ IsFiniteSet(Creations(c))
  BY DEF CallBounded
<1>1. /\ IsFiniteSet(New)
      /\ Cardinality(New) <= Cardinality(Old) + k
      /\ Cardinality(RunsLeft(New)) <= Cardinality(RunsLeft(Old)) + (MaxRetries + 1) * k
  <2>1. f \in [Moved -> Old] /\ New \subseteq Moved \cup Joined
    OBVIOUS
  <2> QED
    BY <1>0, <2>1, CopiesMoveAndJoin
<1>2. /\ Cardinality(New) \in Nat /\ Cardinality(Old) \in Nat /\ Cardinality(Creations(c)) \in Nat
      /\ Cardinality(RunsLeft(New)) \in Nat /\ Cardinality(RunsLeft(Old)) \in Nat
  BY <1>0, <1>1, RunsOfCopies, FS_CardinalityType
<1>3. Deliveries(c) \in Nat /\ MaxRetries + 1 \in Nat /\ runs[c] \in Nat
  BY DeliveriesType, ChatAssumption DEF ChatTypes
<1>4. (MaxRetries + 1) * Deliveries(c)' = (MaxRetries + 1) * Deliveries(c) + (MaxRetries + 1) * k
  BY <1>3, Distributes
<1>5. (MaxRetries + 1) * k \in Nat /\ (MaxRetries + 1) * Deliveries(c) \in Nat
  BY <1>3
<1>6. /\ Cardinality(Creations(c)) + Cardinality(Old) <= Deliveries(c)
      /\ runs[c] + Cardinality(RunsLeft(Old)) <= (MaxRetries + 1) * Deliveries(c)
  BY DEF CallBounded
<1>7. Cardinality(Creations(c)) + Cardinality(New) <= Deliveries(c) + k
  BY <1>1, <1>2, <1>3, <1>6
<1>8. runs[c] + Cardinality(RunsLeft(New)) <= (MaxRetries + 1) * Deliveries(c) + (MaxRetries + 1) * k
  BY <1>1, <1>2, <1>3, <1>5, <1>6
<1> QED
  BY <1>0, <1>1, <1>4, <1>7, <1>8 DEF CallBounded

\* Nothing new of c.
LEMMA NothingNew ==
  ASSUME ChatTypes, ChatTypes', NEW c \in Calls, CallBounded(c),
         Copies(c)' \subseteq Copies(c),
         Creations(c)' = Creations(c), runs'[c] = runs[c], Deliveries(c)' = Deliveries(c)
  PROVE  CallBounded(c)'
<1> DEFINE f == [x \in Copies(c) |-> x]
<1>1. f \in [Copies(c) -> Copies(c)]
  OBVIOUS
<1>2. \A x \in Copies(c) : f[x] = x
  OBVIOUS
<1>3. Deliveries(c)' = Deliveries(c) + 0
  BY DeliveriesType
<1>4. IsFiniteSet({}) /\ Cardinality({}) <= 0 /\ 0 \in Nat
  BY FS_EmptySet
<1>5. Copies(c)' \subseteq Copies(c) \cup {}
  OBVIOUS
<1> HIDE DEF f
<1> QED
  BY <1>1, <1>2, <1>3, <1>4, <1>5, MovedAndJoined

\* Copies(c) when the queue of c has no more of them and coroutines took none.
LEMMA CopiesRest ==
  ASSUME ChatTypes, ChatTypes', NEW c \in Calls,
         \A r \in Counts : queue'[c][r] <= queue[c][r],
         \A t \in Tasks : Undecided(t, c)' => Undecided(t, c) /\ task'[t].retry = task[t].retry
  PROVE  Copies(c)' \subseteq Copies(c)
<1> SUFFICES ASSUME NEW x \in Copies(c)' PROVE x \in Copies(c)
  OBVIOUS
<1>1. x \in Copy /\ x.who \in Tasks \cup {NULL} /\ x.count \in Counts /\ x.n \in Nat
  BY DEF Copies, Copy
<1>2. CASE x.who = NULL /\ x.n \in 1 .. queue'[c][x.count]
  <2>1. queue[c][x.count] \in Nat /\ queue'[c][x.count] \in Nat /\ queue'[c][x.count] <= queue[c][x.count]
    BY <1>1 DEF ChatTypes
  <2>2. x.n \in 1 .. queue[c][x.count]
    BY <1>1, <1>2, <2>1
  <2> QED
    BY <1>1, <1>2, <2>2 DEF Copies
<1>3. CASE x.who \in Tasks /\ x.n = 0 /\ Undecided(x.who, c)' /\ x.count = task'[x.who].retry
  BY <1>1, <1>3 DEF Copies
<1> QED
  BY <1>2, <1>3 DEF Copies

\* What the coroutines ts give back of c joins its copies: one for each of those
\* that hold a delivery of it.
Regained(ts, c) ==
  {x \in Copy : x.who = NULL /\ x.n \in queue[c][x.count] + 1 .. Requeued(ts)[c][x.count]}
Holding(ts, c) == {t \in ts : task[t].held /\ task[t].call = c}

LEMMA RegainedAreHeld ==
  ASSUME ChatTypes, NEW ts \in SUBSET Tasks, NEW c \in Calls
  PROVE  /\ IsFiniteSet(Regained(ts, c))
         /\ Cardinality(Holding(ts, c)) \in Nat
         /\ Cardinality(Regained(ts, c)) <= Cardinality(Holding(ts, c))
<1> DEFINE H(r) == Held(ts, c, r)
           b(r) == CHOOSE g : g \in Bijection(1 .. Cardinality(H(r)), H(r))
           f == [x \in Regained(ts, c) |-> b(x.count)[x.n - queue[c][x.count]]]
<1>1. IsFiniteSet(ts) /\ IsFiniteSet(Holding(ts, c))
  BY ChatAssumption, FS_Subset DEF Holding
<1>2. ASSUME NEW r \in Counts
      PROVE  /\ Cardinality(H(r)) \in Nat
             /\ b(r) \in Bijection(1 .. Cardinality(H(r)), H(r))
  <2>1. IsFiniteSet(H(r))
    BY <1>1, FS_Subset DEF Held
  <2>2. Cardinality(H(r)) \in Nat /\ ExistsBijection(1 .. Cardinality(H(r)), H(r))
    BY <2>1, FS_CardinalityType
  <2> QED
    BY <2>2 DEF ExistsBijection
<1> HIDE DEF b
<1>3. ASSUME NEW x \in Regained(ts, c)
      PROVE  /\ x = [who |-> NULL, count |-> x.count, n |-> x.n] /\ x.count \in Counts
             /\ x.n \in Nat /\ queue[c][x.count] \in Nat
             /\ x.n - queue[c][x.count] \in 1 .. Cardinality(H(x.count))
  <2>1. x \in Copy /\ x.who = NULL /\ x.n \in queue[c][x.count] + 1 .. Requeued(ts)[c][x.count]
    BY DEF Regained
  <2>2. x.count \in Counts /\ x.n \in Nat /\ x = [who |-> x.who, count |-> x.count, n |-> x.n]
    BY <2>1 DEF Copy
  <2>3. queue[c][x.count] \in Nat /\ Cardinality(H(x.count)) \in Nat
    BY <1>2, <2>2 DEF ChatTypes
  <2>4. Requeued(ts)[c][x.count] = queue[c][x.count] + Cardinality(H(x.count))
    BY <2>2 DEF Requeued
  <2> QED
    BY <2>1, <2>2, <2>3, <2>4
<1>4. ASSUME NEW x \in Regained(ts, c)
      PROVE  f[x] \in H(x.count) /\ f[x] = b(x.count)[x.n - queue[c][x.count]]
  <2>1. b(x.count) \in [1 .. Cardinality(H(x.count)) -> H(x.count)]
    BY <1>2, <1>3 DEF Bijection, Injection, Surjection
  <2> QED
    BY <1>3, <2>1
<1>5. ASSUME NEW x \in Regained(ts, c), NEW y \in Regained(ts, c), f[x] = f[y]
      PROVE  x = y
  <2>1. task[f[x]].retry = x.count /\ task[f[y]].retry = y.count
    BY <1>4 DEF Held
  <2>2. x.count = y.count
    BY <1>5, <2>1
  <2>3. PICK r \in Counts : r = x.count
    BY <1>3
  <2>4. b(r) \in Injection(1 .. Cardinality(H(r)), H(r))
    BY <1>2 DEF Bijection
  <2>5. b(r)[x.n - queue[c][r]] = b(r)[y.n - queue[c][r]]
    BY <1>4, <1>5, <2>2, <2>3
  <2>6. /\ x.n - queue[c][r] \in 1 .. Cardinality(H(r))
        /\ y.n - queue[c][r] \in 1 .. Cardinality(H(r))
    BY <1>3, <2>2, <2>3
  <2>7. x.n - queue[c][r] = y.n - queue[c][r]
    BY <2>4, <2>5, <2>6 DEF Injection, IsInjective
  <2>8. x.n = y.n
    BY <1>3, <2>2, <2>3, <2>7
  <2> QED
    BY <1>3, <2>2, <2>8
<1>6. f \in [Regained(ts, c) -> Holding(ts, c)]
  <2>1. \A r : H(r) \subseteq Holding(ts, c)
    BY DEF Held, Holding
  <2> HIDE DEF H
  <2>2. \A x \in Regained(ts, c) : f[x] \in Holding(ts, c)
    BY <1>4, <2>1
  <2> QED
    BY <2>2
<1> HIDE DEF f
<1> QED
  BY <1>1, <1>5, <1>6, Injects

\* The copies of c once coroutines gave theirs back: those there were, and those.
LEMMA CopiesRegained ==
  ASSUME ChatTypes, ChatTypes', NEW c \in Calls, NEW ts \in SUBSET Tasks,
         \A r \in Counts : queue'[c][r] <= Requeued(ts)[c][r],
         \A t \in Tasks : Undecided(t, c)' => Undecided(t, c) /\ task'[t].retry = task[t].retry
  PROVE  Copies(c)' \subseteq Copies(c) \cup Regained(ts, c)
<1> SUFFICES ASSUME NEW x \in Copies(c)' PROVE x \in Copies(c) \cup Regained(ts, c)
  OBVIOUS
<1>1. x \in Copy /\ x.who \in Tasks \cup {NULL} /\ x.count \in Counts /\ x.n \in Nat
  BY DEF Copies, Copy
<1>2. CASE x.who = NULL /\ x.n \in 1 .. queue'[c][x.count]
  <2>1. queue[c][x.count] \in Nat /\ queue'[c][x.count] \in Nat
    BY <1>1 DEF ChatTypes
  <2>2. Requeued(ts)[c][x.count] \in Nat /\ queue'[c][x.count] <= Requeued(ts)[c][x.count]
    BY <1>1, GivenBackTypes
  <2>3. CASE x.n \in 1 .. queue[c][x.count]
    BY <1>1, <1>2, <2>3 DEF Copies
  <2>4. CASE x.n \notin 1 .. queue[c][x.count]
    <3>1. x.n \in queue[c][x.count] + 1 .. Requeued(ts)[c][x.count]
      BY <1>1, <1>2, <2>1, <2>2, <2>4
    <3> QED
      BY <1>1, <1>2, <3>1 DEF Regained
  <2> QED
    BY <2>3, <2>4
<1>3. CASE x.who \in Tasks /\ x.n = 0 /\ Undecided(x.who, c)' /\ x.count = task'[x.who].retry
  BY <1>1, <1>3 DEF Copies
<1> QED
  BY <1>2, <1>3 DEF Copies

\* Deliveries that are given back and come again.
LEMMA GivenBack ==
  ASSUME ChatTypes, ChatTypes', NEW c \in Calls, CallBounded(c), NEW ts \in SUBSET Tasks,
         \A r \in Counts : queue'[c][r] <= Requeued(ts)[c][r],
         \A t \in Tasks : Undecided(t, c)' => Undecided(t, c) /\ task'[t].retry = task[t].retry,
         CountRedelivery(ts), sent' = sent, Creations(c)' = Creations(c), runs'[c] = runs[c]
  PROVE  CallBounded(c)'
<1> DEFINE f == [x \in Copies(c) |-> x]
<1>1. f \in [Copies(c) -> Copies(c)] /\ \A x \in Copies(c) : f[x] = x
  OBVIOUS
<1>2. PICK k \in Nat : k = Cardinality(Holding(ts, c))
  BY RegainedAreHeld
<1>3. IsFiniteSet(Regained(ts, c)) /\ Cardinality(Regained(ts, c)) <= k
  BY <1>2, RegainedAreHeld
<1>4. Copies(c)' \subseteq Copies(c) \cup Regained(ts, c)
  BY CopiesRegained
<1>5. Deliveries(c)' = Deliveries(c) + k
  <2>1. redelivered'[c] = redelivered[c] + k
    BY <1>2 DEF CountRedelivery, Holding
  <2> QED
    BY <2>1 DEF Deliveries, ChatTypes
<1> HIDE DEF f
<1> PICK J : J = Regained(ts, c)
  OBVIOUS
<1>6. IsFiniteSet(J) /\ Cardinality(J) <= k /\ Copies(c)' \subseteq Copies(c) \cup J
  BY <1>3, <1>4
<1> QED
  BY <1>1, <1>5, <1>6, MovedAndJoined

--------------------------------------------------------------------------------
(* Every step keeps the bounds.                                              *)

RetriesBelow == \A t \in Tasks : task[t].pc = "retry" => task[t].retry < MaxRetries

\* A queue that gets one copy more, or one less.
LEMMA QueueChanged ==
  ASSUME NEW q \in [Calls -> [Counts -> Nat]], NEW c \in Calls, NEW r \in Counts
  PROVE  /\ \A d \in Calls, s \in Counts :
              [q EXCEPT ![c][r] = @ + 1][d][s] = IF d = c /\ s = r THEN q[d][s] + 1 ELSE q[d][s]
         /\ \A d \in Calls, s \in Counts :
              [q EXCEPT ![c][r] = @ - 1][d][s] = IF d = c /\ s = r THEN q[d][s] - 1 ELSE q[d][s]
<1>1. q[c] \in [Counts -> Nat]
  OBVIOUS
<1> QED
  BY <1>1

\* A new request is one copy, for one delivery.
LEMMA SendBounded ==
  ASSUME ChatTypes, ChatTypes', NEW d \in Calls, SendRpc(d), NEW c \in Calls, CallBounded(c)
  PROVE  CallBounded(c)'
<1>1. /\ d \notin sent /\ sent' = sent \cup {d}
      /\ task' = task /\ asked' = asked /\ redelivered' = redelivered /\ runs' = runs
  BY DEF SendRpc, clientVars
<1>2. Creations(c)' = Creations(c)
  BY <1>1 DEF Creations
<1>3. \A t \in Tasks : Undecided(t, c)' => Undecided(t, c) /\ task'[t].retry = task[t].retry
  BY <1>1 DEF Undecided
<1>4. queue' = queue \/ queue' = [queue EXCEPT ![d][0] = @ + 1]
  BY DEF SendRpc
<1>5. queue \in [Calls -> [Counts -> Nat]] /\ queue' \in [Calls -> [Counts -> Nat]]
  BY DEF ChatTypes
<1>z. 0 \in Counts
  BY ChatAssumption DEF Counts
<1>6. \A r \in Counts : queue[c][r] \in Nat /\ queue'[c][r] \in Nat
  BY <1>5
<1>7. \A r \in Counts : queue'[c][r] = queue[c][r] \/ (c = d /\ r = 0 /\ queue'[c][r] = queue[c][r] + 1)
  BY <1>4, <1>5, <1>z, QueueChanged
<1>8. CASE c # d
  <2>1. \A r \in Counts : queue'[c][r] <= queue[c][r]
    BY <1>6, <1>7, <1>8
  <2>2. Deliveries(c)' = Deliveries(c)
    BY <1>1, <1>8 DEF Deliveries
  <2> QED
    BY <1>1, <1>2, <1>3, <2>1, <2>2, CopiesRest, NothingNew
<1>9. CASE c = d
  <2> DEFINE new == [who |-> NULL, count |-> 0, n |-> queue[c][0] + 1]
             f == [x \in Copies(c) |-> x]
  <2>1. Copies(c)' \subseteq Copies(c) \cup {new}
    <3> SUFFICES ASSUME NEW x \in Copies(c)' PROVE x \in Copies(c) \/ x = new
      OBVIOUS
    <3>1. /\ x \in Copy /\ x.count \in Counts /\ x.n \in Nat
          /\ x = [who |-> x.who, count |-> x.count, n |-> x.n]
      BY DEF Copies, Copy
    <3>2. CASE x.who = NULL /\ x.n \in 1 .. queue'[c][x.count]
      <4>1. CASE x.n \in 1 .. queue[c][x.count]
        BY <3>1, <3>2, <4>1 DEF Copies
      <4>2. CASE x.n \notin 1 .. queue[c][x.count]
        <5>1. x.count = 0 /\ x.n = queue[c][0] + 1
          BY <1>6, <1>7, <3>1, <3>2, <4>2
        <5> QED
          BY <3>1, <3>2, <5>1
      <4> QED
        BY <4>1, <4>2
    <3>3. CASE x.who \in Tasks /\ x.n = 0 /\ Undecided(x.who, c)' /\ x.count = task'[x.who].retry
      BY <1>3, <3>1, <3>3 DEF Copies
    <3> QED
      BY <3>2, <3>3 DEF Copies
  <2>2. Deliveries(c)' = Deliveries(c) + 1
    BY <1>1, <1>9 DEF Deliveries, ChatTypes
  <2>3. f \in [Copies(c) -> Copies(c)] /\ \A x \in Copies(c) : f[x] = x
    OBVIOUS
  <2>4. IsFiniteSet({new}) /\ Cardinality({new}) <= 1 /\ 1 \in Nat
    <3> HIDE DEF new
    <3> QED
      BY FS_Singleton
  <2> HIDE DEF f, new
  <2> QED
    BY <1>1, <1>2, <2>1, <2>2, <2>3, <2>4, MovedAndJoined
<1> QED
  BY <1>8, <1>9

\* A copy that is taken leads to a run now, and to one less later.
LEMMA ReceiveBounded ==
  ASSUME ChatTypes, ChatTypes', NEW t \in Tasks, Receive(t), NEW c \in Calls, CallBounded(c)
  PROVE  CallBounded(c)'
<1>1. PICK d \in Calls, r \in Counts :
        /\ queue[d][r] > 0
        /\ queue' = [queue EXCEPT ![d][r] = @ - 1]
        /\ Start(t, d, r)
        /\ runs' = [runs EXCEPT ![d] = @ + 1]
  BY DEF Receive
<1>2. sent' = sent /\ asked' = asked /\ redelivered' = redelivered /\ task[t].pc = "idle"
  BY DEF Receive, Free, rpcVars, clientVars
<1>3. Creations(c)' = Creations(c) /\ Deliveries(c)' = Deliveries(c)
  BY <1>2 DEF Creations, Deliveries
<1>4. /\ \A u \in Tasks \ {t} : task'[u] = task[u]
      /\ task'[t].call = d /\ task'[t].retry = r
  BY <1>1 DEF Start, Idle, ChatTypes
<1>5. \A s \in Counts : queue[c][s] \in Nat /\ queue'[c][s] \in Nat
  BY DEF ChatTypes
<1>6. \A s \in Counts : queue'[c][s] = IF c = d /\ s = r THEN queue[c][s] - 1 ELSE queue[c][s]
  BY <1>1, QueueChanged DEF ChatTypes
<1>7. CASE c # d
  <2>1. \A s \in Counts : queue'[c][s] <= queue[c][s]
    BY <1>5, <1>6, <1>7
  <2>2. \A u \in Tasks : Undecided(u, c)' => Undecided(u, c) /\ task'[u].retry = task[u].retry
    BY <1>4, <1>7 DEF Undecided
  <2>3. runs'[c] = runs[c]
    BY <1>1, <1>7 DEF ChatTypes
  <2> QED
    BY <1>3, <2>1, <2>2, <2>3, CopiesRest, NothingNew
<1>8. CASE c = d
  <2> PICK Old : Old = Copies(c)
    OBVIOUS
  <2> PICK New : New = Copies(c)'
    OBVIOUS
  <2> DEFINE taken == [who |-> NULL, count |-> r, n |-> queue[c][r]]
             mine == [who |-> t, count |-> r, n |-> 0]
             f == [x \in New |-> IF x.who = t THEN taken ELSE x]
  <2>0. NULL \notin Tasks /\ t # NULL
    BY RpcAssumption, ChatAssumption
  <2>1. taken \in Old
    <3>1. queue[c][r] \in Nat /\ queue[c][r] > 0
      BY <1>1, <1>5, <1>8
    <3>2. taken \in Copy /\ taken.n \in 1 .. queue[c][r] /\ taken.who = NULL /\ taken.count = r
      BY <3>1 DEF Copy
    <3> QED
      BY <3>2 DEF Copies
  <2>2. ASSUME NEW x \in New
        PROVE  (x.who = t /\ x = mine) \/ (x.who # t /\ x \in Old /\ x # taken)
    <3>1. /\ x \in Copy /\ x.count \in Counts /\ x.n \in Nat
          /\ x = [who |-> x.who, count |-> x.count, n |-> x.n]
      BY <2>2 DEF Copies, Copy
    <3>2. CASE x.who = NULL /\ x.n \in 1 .. queue'[c][x.count]
      <4>1. x.n \in 1 .. queue[c][x.count] /\ (x.count = r => x.n # queue[c][r])
        BY <1>5, <1>6, <1>8, <3>1, <3>2
      <4>2. x \in Old
        BY <3>1, <3>2, <4>1 DEF Copies
      <4>3. x # taken
        BY <4>1
      <4> QED
        BY <2>0, <3>2, <4>2, <4>3
    <3>3. CASE x.who \in Tasks /\ x.n = 0 /\ Undecided(x.who, c)' /\ x.count = task'[x.who].retry
      <4>1. CASE x.who = t
        BY <1>4, <3>1, <3>3, <4>1
      <4>2. CASE x.who # t
        <5>1. task'[x.who] = task[x.who]
          BY <1>4, <3>3, <4>2
        <5>2. x \in Old
          BY <3>1, <3>3, <5>1 DEF Copies, Undecided
        <5> QED
          BY <2>0, <3>3, <4>2, <5>2
      <4> QED
        BY <4>1, <4>2
    <3> QED
      BY <2>2, <3>2, <3>3 DEF Copies
  <2>3. f \in [New -> Old] /\ \A x \in New : f[x] = IF x.who = t THEN taken ELSE x
    BY <2>1, <2>2
  <2>4. \A x, y \in New : f[x] = f[y] => x = y
    BY <2>2, <2>3
  <2>5. ASSUME NEW x \in New, NEW s \in Counts, MayRun(x, s)
        PROVE  MayRun(f[x], s)
    <3>1. CASE x.who = t
      BY <2>0, <2>2, <2>3, <2>5, <3>1 DEF MayRun
    <3>2. CASE x.who # t
      BY <2>3, <2>5, <3>2
    <3> QED
      BY <3>1, <3>2
  <2>6. IsFiniteSet(Old) /\ IsFiniteSet(Creations(c))
    BY DEF CallBounded
  <2> HIDE DEF f
  <2>7. IsFiniteSet(New) /\ Cardinality(New) <= Cardinality(Old)
    BY <2>3, <2>4, <2>5, <2>6, CopiesMove
  <2> DEFINE run == [copy |-> taken, run |-> r]
             Rest == RunsLeft(Old) \ {run}
             g == [x \in RunsLeft(New) |-> [copy |-> f[x.copy], run |-> x.run]]
  <2>8. /\ IsFiniteSet(RunsLeft(Old)) /\ Cardinality(RunsLeft(Old)) \in Nat
        /\ IsFiniteSet(RunsLeft(New)) /\ Cardinality(RunsLeft(New)) \in Nat
    BY <2>6, <2>7, RunsOfCopies
  <2>9. run \in RunsLeft(Old)
    <3>1. MayRun(taken, r)
      BY DEF MayRun
    <3> QED
      BY <2>1, <3>1 DEF RunsLeft
  <2>10. IsFiniteSet(Rest) /\ Cardinality(Rest) = Cardinality(RunsLeft(Old)) - 1
    BY <2>8, <2>9, FS_RemoveElement
  <2>11. ASSUME NEW x \in RunsLeft(New)
         PROVE  /\ x = [copy |-> x.copy, run |-> x.run]
                /\ x.copy \in New /\ x.run \in Counts /\ MayRun(x.copy, x.run)
    BY DEF RunsLeft
  <2>12. ASSUME NEW x \in RunsLeft(New)
         PROVE  g[x] \in Rest /\ g[x].copy = f[x.copy] /\ g[x].run = x.run
    <3>1. x.copy \in New /\ x.run \in Counts /\ MayRun(x.copy, x.run)
      BY <2>11
    <3>2. f[x.copy] \in Old /\ MayRun(f[x.copy], x.run)
      BY <2>3, <2>5, <3>1
    <3>3. g[x] = [copy |-> f[x.copy], run |-> x.run]
      OBVIOUS
    <3>4. g[x] \in RunsLeft(Old)
      BY <3>1, <3>2, <3>3 DEF RunsLeft
    <3>5. g[x] # run
      <4>1. CASE x.copy.who = t
        <5>1. x.copy = mine
          BY <2>2, <3>1, <4>1
        <5>2. x.run # r
          BY <2>0, <3>1, <5>1 DEF MayRun, Counts
        <5> QED
          BY <3>3, <5>2
      <4>2. CASE x.copy.who # t
        <5>1. f[x.copy] # taken
          BY <2>2, <2>3, <3>1, <4>2
        <5> QED
          BY <3>3, <5>1
      <4> QED
        BY <4>1, <4>2
    <3> QED
      BY <3>3, <3>4, <3>5
  <2>13. \A x, y \in RunsLeft(New) : g[x] = g[y] => x = y
    <3> TAKE x, y \in RunsLeft(New)
    <3> HAVE g[x] = g[y]
    <3> HIDE DEF g
    <3>1. f[x.copy] = f[y.copy] /\ x.run = y.run
      BY <2>12
    <3>2. x.copy = y.copy
      BY <2>4, <2>11, <3>1
    <3> QED
      BY <2>11, <3>1, <3>2
  <2>14. g \in [RunsLeft(New) -> Rest]
    BY <2>12
  <2> HIDE DEF g, Rest
  <2>15. Cardinality(RunsLeft(New)) <= Cardinality(RunsLeft(Old)) - 1
    BY <2>10, <2>13, <2>14, Injects
  <2>16. runs'[c] = runs[c] + 1 /\ runs[c] \in Nat
    BY <1>1, <1>8 DEF ChatTypes
  <2>17. /\ Cardinality(Creations(c)) \in Nat /\ Cardinality(Old) \in Nat /\ Cardinality(New) \in Nat
         /\ Deliveries(c) \in Nat
    BY <2>6, <2>7, FS_CardinalityType, DeliveriesType
  <2>18. /\ Cardinality(Creations(c)) + Cardinality(Old) <= Deliveries(c)
         /\ runs[c] + Cardinality(RunsLeft(Old)) <= (MaxRetries + 1) * Deliveries(c)
    BY DEF CallBounded
  <2>19. Cardinality(Creations(c)) + Cardinality(New) <= Deliveries(c)
    BY <2>7, <2>17, <2>18
  <2>20. runs'[c] + Cardinality(RunsLeft(New)) <= (MaxRetries + 1) * Deliveries(c)
    <3>1. (MaxRetries + 1) * Deliveries(c) \in Nat
      BY <2>17, ChatAssumption
    <3> QED
      BY <2>8, <2>15, <2>16, <2>18, <3>1
  <2> QED
    BY <1>3, <2>6, <2>7, <2>19, <2>20 DEF CallBounded
<1> QED
  BY <1>7, <1>8

\* A coroutine that asks for an offer makes something of its copy.
LEMMA AskCreateBounded ==
  ASSUME RpcTypeOK, ChatTypes, ChatTypes', NEW t \in Tasks, AskCreate(t),
         task[t].call \in Calls, NEW c \in Calls, CallBounded(c)
  PROVE  CallBounded(c)'
<1>1. PICK id \in RequestIds :
        /\ asked[id] = Unasked
        /\ asked' = [asked EXCEPT ![id] = [op |-> "create", work |-> task[t].call, offer |-> NULL]]
  BY DEF AskCreate, Ask, Fresh
<1>2. /\ task[t].pc = "think" /\ task'[t].pc = "create"
      /\ \A u \in Tasks \ {t} : task'[u] = task[u]
  <2>1. PICK needs \in BOOLEAN : task' = [task EXCEPT ![t].pc = "create", ![t].needs = needs]
    BY DEF AskCreate
  <2>2. task[t] \in Task /\ task[t].pc = "think"
    BY DEF AskCreate, ChatTypes
  <2> QED
    BY <2>1, <2>2 DEF ChatTypes, Task
<1>3. queue' = queue /\ sent' = sent /\ redelivered' = redelivered /\ runs' = runs
  BY DEF AskCreate
<1>4. Deliveries(c)' = Deliveries(c)
  BY <1>3 DEF Deliveries
<1>5. \A u \in Tasks : Undecided(u, c)' => u # t /\ Undecided(u, c) /\ task'[u].retry = task[u].retry
  BY <1>2 DEF Undecided
<1>6. \A r \in Counts : queue'[c][r] <= queue[c][r]
  BY <1>3 DEF ChatTypes
<1>7. Copies(c)' \subseteq Copies(c)
  BY <1>5, <1>6, CopiesRest
<1>8. asked'[id].op = "create" /\ asked'[id].work = task[t].call /\ asked[id].op = "none"
  BY <1>1 DEF RpcTypeOK, Unasked
<1>9. \A other \in RequestIds \ {id} : asked'[other] = asked[other]
  BY <1>1 DEF RpcTypeOK
<1>10. CASE task[t].call # c
  <2>1. Creations(c)' = Creations(c)
    BY <1>8, <1>9, <1>10 DEF Creations
  <2> QED
    BY <1>3, <1>4, <1>7, <2>1, NothingNew
<1>11. CASE task[t].call = c
  <2> PICK Old : Old = Copies(c)
    OBVIOUS
  <2> PICK New : New = Copies(c)'
    OBVIOUS
  <2> PICK Made : Made = Creations(c)
    OBVIOUS
  <2> DEFINE mine == [who |-> t, count |-> task[t].retry, n |-> 0]
  <2>0. NULL \notin Tasks
    BY RpcAssumption, ChatAssumption
  <2>1. mine \in Old
    <3>1. task[t].retry \in Counts /\ Undecided(t, c)
      BY <1>2, <1>11 DEF Undecided, ChatTypes, Task
    <3>2. mine \in Copy
      BY <3>1 DEF Copy
    <3> QED
      BY <3>1, <3>2 DEF Copies
  <2>2. mine \notin New
    <3>1. ~Undecided(t, c)'
      BY <1>5
    <3> QED
      BY <2>0, <3>1 DEF Copies
  <2> HIDE DEF mine
  <2>3. IsFiniteSet(Old) /\ IsFiniteSet(Made)
    BY DEF CallBounded
  <2>4. IsFiniteSet(Old \ {mine}) /\ Cardinality(Old \ {mine}) = Cardinality(Old) - 1
    BY <2>1, <2>3, FS_RemoveElement
  <2>5. New \subseteq Old \ {mine} /\ New \subseteq Old
    BY <1>7, <2>2
  <2>6. IsFiniteSet(New) /\ Cardinality(New) <= Cardinality(Old) - 1
    BY <2>4, <2>5, FS_Subset
  <2>7. Creations(c)' = Made \cup {id} /\ id \notin Made
    BY <1>8, <1>9, <1>11 DEF Creations
  <2>8. IsFiniteSet(Made \cup {id}) /\ Cardinality(Made \cup {id}) = Cardinality(Made) + 1
    BY <2>3, <2>7, FS_AddElement
  <2>9. RunsLeft(New) \subseteq RunsLeft(Old)
    BY <2>5 DEF RunsLeft
  <2>10. Cardinality(RunsLeft(New)) <= Cardinality(RunsLeft(Old))
    BY <2>3, <2>9, RunsOfCopies, FS_Subset
  <2>11. /\ Cardinality(Old) \in Nat /\ Cardinality(New) \in Nat /\ Cardinality(Made) \in Nat
         /\ Cardinality(RunsLeft(New)) \in Nat /\ Cardinality(RunsLeft(Old)) \in Nat
         /\ Deliveries(c) \in Nat /\ runs[c] \in Nat
    BY <2>3, <2>6, RunsOfCopies, FS_CardinalityType, DeliveriesType DEF ChatTypes
  <2>12. /\ Cardinality(Made) + Cardinality(Old) <= Deliveries(c)
         /\ runs[c] + Cardinality(RunsLeft(Old)) <= (MaxRetries + 1) * Deliveries(c)
    BY DEF CallBounded
  <2>13. Cardinality(Made) + 1 + Cardinality(New) <= Deliveries(c)
    BY <2>6, <2>11, <2>12
  <2>14. runs[c] + Cardinality(RunsLeft(New)) <= (MaxRetries + 1) * Deliveries(c)
    <3>1. (MaxRetries + 1) * Deliveries(c) \in Nat
      BY <2>11, ChatAssumption
    <3> QED
      BY <2>10, <2>11, <2>12, <3>1
  <2>15. IsFiniteSet(Creations(c)') /\ Cardinality(Creations(c)') + Cardinality(New) <= Deliveries(c)
    BY <2>7, <2>8, <2>13
  <2> QED
    BY <1>3, <1>4, <2>6, <2>14, <2>15 DEF CallBounded
<1> QED
  BY <1>10, <1>11

\* A copy that is retried is replaced by one with a higher count, and others may
\* come back.
LEMMA RetriedCopies ==
  ASSUME ChatTypes, ChatTypes', NEW c \in Calls, CallBounded(c),
         NEW t \in Tasks, task[t].pc = "retry", NEW next, next = task[t].retry + 1,
         \A u \in Tasks : Undecided(u, c)' => u # t /\ Undecided(u, c) /\ task'[u].retry = task[u].retry,
         NEW back, IsFiniteSet(back), NEW k \in Nat, Cardinality(back) <= k,
         Deliveries(c)' = Deliveries(c) + k, Creations(c)' = Creations(c), runs'[c] = runs[c],
         \A x \in Copies(c)' : x.who = NULL =>
           \/ x \in Copies(c) \cup back
           \/ task[t].call = c /\ x = [who |-> NULL, count |-> next, n |-> queue[c][next] + 1]
  PROVE  CallBounded(c)'
<1> PICK Old : Old = Copies(c)
  OBVIOUS
<1> PICK New : New = Copies(c)'
  OBVIOUS
<1> DEFINE mine == [who |-> t, count |-> task[t].retry, n |-> 0]
           new == [who |-> NULL, count |-> next, n |-> queue[c][next] + 1]
           Moved == New \ back
           f == [x \in Moved |-> IF x \in Old THEN x ELSE mine]
<1>1. NULL \notin Tasks /\ task[t].retry \in Counts
  BY RpcAssumption, ChatAssumption DEF ChatTypes, Task
<1>2. ASSUME NEW x \in New
      PROVE  x \in Old \cup back \/ (task[t].call = c /\ x = new)
  <2>1. CASE x.who = NULL
    BY <2>1
  <2>2. CASE x.who # NULL
    <3>1. x \in Copy /\ x.who \in Tasks /\ x.n = 0 /\ Undecided(x.who, c)' /\ x.count = task'[x.who].retry
      BY <2>2 DEF Copies
    <3>2. Undecided(x.who, c) /\ x.count = task[x.who].retry
      BY <3>1
    <3> QED
      BY <3>1, <3>2 DEF Copies
  <2> QED
    BY <2>1, <2>2
<1>3. mine \notin New
  <2>1. ~Undecided(t, c)'
    OBVIOUS
  <2> QED
    BY <1>1, <2>1 DEF Copies
<1>4. task[t].call = c => mine \in Old
  <2>1. mine \in Copy
    BY <1>1 DEF Copy, Counts
  <2> QED
    BY <2>1 DEF Copies, Undecided
<1> HIDE DEF mine
<1>5. f \in [Moved -> Old] /\ \A x \in Moved : f[x] = IF x \in Old THEN x ELSE mine
  <2>1. \A x \in Moved : x \in Old \/ mine \in Old
    BY <1>2, <1>4
  <2> QED
    BY <2>1
<1>6. \A x, y \in Moved : f[x] = f[y] => x = y
  <2> SUFFICES ASSUME NEW x \in Moved, NEW y \in Moved, f[x] = f[y] PROVE x = y
    OBVIOUS
  <2>1. x # mine /\ y # mine
    BY <1>3
  <2>2. (x \in Old \/ x = new) /\ (y \in Old \/ y = new)
    BY <1>2
  <2> HIDE DEF f
  <2> QED
    BY <1>5, <2>1, <2>2
<1>7. ASSUME NEW x \in Moved, NEW r \in Counts, MayRun(x, r)
      PROVE  MayRun(f[x], r)
  <2>1. CASE x \in Old
    BY <1>5, <1>7, <2>1
  <2>2. CASE x \notin Old
    <3>1. x = new /\ f[x] = mine
      BY <1>2, <1>5, <2>2
    <3>2. r \in Nat /\ task[t].retry \in Nat
      BY <1>1 DEF Counts
    <3>3. r > task[t].retry
      BY <1>7, <3>1, <3>2 DEF MayRun
    <3> QED
      BY <3>1, <3>3 DEF MayRun, mine
  <2> QED
    BY <2>1, <2>2
<1>8. Copies(c)' \subseteq Moved \cup back
  OBVIOUS
<1> HIDE DEF f, Moved
<1>9. f \in [Moved -> Copies(c)]
  BY <1>5
<1> QED
  BY <1>6, <1>7, <1>8, <1>9, MovedAndJoined

\* One copy more in a queue that reached up to top.
LEMMA CopyAdded ==
  ASSUME ChatTypes, ChatTypes', NEW c \in Calls, NEW next \in Counts, NEW d \in Calls,
         NEW top \in [Counts -> Nat],
         \A r \in Counts : queue'[c][r] = IF c = d /\ r = next THEN top[r] + 1 ELSE top[r],
         c = d => top[next] = queue[c][next],
         NEW x \in Copies(c)', x.who = NULL
  PROVE  \/ x \in Copies(c)
         \/ x.n \in queue[c][x.count] + 1 .. top[x.count]
         \/ d = c /\ x = [who |-> NULL, count |-> next, n |-> queue[c][next] + 1]
<1>0. NULL \notin Tasks
  BY RpcAssumption, ChatAssumption
<1>1. /\ x \in Copy /\ x.count \in Counts /\ x.n \in Nat
      /\ x = [who |-> NULL, count |-> x.count, n |-> x.n]
      /\ x.n \in 1 .. queue'[c][x.count]
  BY <1>0 DEF Copies, Copy
<1>2. queue[c][x.count] \in Nat /\ top[x.count] \in Nat /\ queue[c][next] \in Nat
  BY <1>1 DEF ChatTypes
<1>4. CASE x.n \in 1 .. queue[c][x.count]
  BY <1>1, <1>4 DEF Copies
<1>5. CASE x.n \notin 1 .. queue[c][x.count] /\ ~(c = d /\ x.count = next)
  <2>1. queue'[c][x.count] = top[x.count] /\ x.n \in Nat /\ x.n \in 1 .. queue'[c][x.count]
    BY <1>1, <1>5
  <2> QED
    BY <1>2, <1>5, <2>1
<1>6. CASE x.n \notin 1 .. queue[c][x.count] /\ c = d /\ x.count = next
  <2>1. queue'[c][x.count] = queue[c][next] + 1
    BY <1>6
  <2>2. x.n \in 1 .. queue[c][next] + 1 /\ x.n \notin 1 .. queue[c][next]
    BY <1>1, <1>6, <2>1
  <2>3. x.n \in Nat /\ queue[c][next] \in Nat
    BY <1>1, <1>2
  <2>4. x.n = queue[c][next] + 1
    BY <2>2, <2>3
  <2> QED
    BY <1>1, <1>6, <2>4
<1> QED
  BY <1>4, <1>5, <1>6

\* A retry is a copy with a higher count in the place of the one it was; when the
\* publication fails, that copy may be there beside the one that is given back.
LEMMA RetryBounded ==
  ASSUME ChatTypes, ChatTypes', NEW t \in Tasks, Retry(t), task[t].call \in Calls,
         task[t].retry < MaxRetries, NEW c \in Calls, CallBounded(c)
  PROVE  CallBounded(c)'
<1> PICK d \in Calls : d = task[t].call
  OBVIOUS
<1>r. task[t] \in Task /\ task[t].pc = "retry" /\ task[t].retry \in Counts
  BY DEF ChatTypes, Task, Retry
<1>n. task[t].retry + 1 \in Counts /\ task[t].retry + 1 # task[t].retry
  BY <1>r, ChatAssumption DEF Counts
<1> PICK next \in Counts : next = task[t].retry + 1
  BY <1>n
<1>1. sent' = sent /\ asked' = asked /\ runs' = runs
  BY DEF Retry, clientVars
<1>2. Creations(c)' = Creations(c) /\ runs'[c] = runs[c]
  BY <1>1 DEF Creations
<1>3. task'[t].pc \in {"ack", "idle"} /\ \A u \in Tasks \ {t} : task'[u] = task[u]
  <2>1. CASE Go(t, "ack")
    BY <1>r, <2>1 DEF Go, ChatTypes, Task
  <2>2. CASE Finish(t)
    BY <2>2 DEF Finish, Idle, ChatTypes
  <2> QED
    BY <2>1, <2>2 DEF Retry, Nack
<1>4. \A u \in Tasks : Undecided(u, c)' => u # t /\ Undecided(u, c) /\ task'[u].retry = task[u].retry
  BY <1>3 DEF Undecided
<1>5. \/ queue' = [queue EXCEPT ![d][next] = @ + 1] /\ redelivered' = redelivered
      \/ queue' = Requeued({t}) /\ CountRedelivery({t})
      \/ queue' = [Requeued({t}) EXCEPT ![d][next] = @ + 1] /\ CountRedelivery({t})
  BY DEF Retry, Nack
<1>6. queue \in [Calls -> [Counts -> Nat]] /\ {t} \in SUBSET Tasks
  BY DEF ChatTypes
<1>7. Requeued({t}) \in [Calls -> [Counts -> Nat]]
  BY <1>6, GivenBackTypes
<1>8. CASE queue' = Requeued({t}) /\ CountRedelivery({t})
  <2>1. ASSUME NEW r \in Counts PROVE queue'[c][r] <= Requeued({t})[c][r]
    <3>1. queue'[c][r] \in Nat
      BY DEF ChatTypes
    <3> QED
      BY <1>8, <3>1
  <2> QED
    BY <1>1, <1>2, <1>4, <1>6, <1>8, <2>1, GivenBack
<1>9. CASE queue' = [queue EXCEPT ![d][next] = @ + 1] /\ redelivered' = redelivered
  <2>1. PICK top \in [Counts -> Nat] : top = queue[c]
    BY <1>6
  <2>a. \A r \in Counts : queue'[c][r] = IF c = d /\ r = next THEN top[r] + 1 ELSE top[r]
    BY <1>6, <1>9, <2>1, QueueChanged
  <2>2. ASSUME NEW x \in Copies(c)', x.who = NULL
        PROVE  \/ x \in Copies(c) \cup {}
               \/ d = c /\ x = [who |-> NULL, count |-> next, n |-> queue[c][next] + 1]
    <3>1. x.count \in Counts
      BY <2>2 DEF Copies, Copy
    <3>2. x.n \notin queue[c][x.count] + 1 .. top[x.count]
      <4>1. queue[c][x.count] \in Nat
        BY <1>6, <3>1
      <4> QED
        BY <2>1, <4>1
    <3>3. \/ x \in Copies(c)
          \/ x.n \in queue[c][x.count] + 1 .. top[x.count]
          \/ d = c /\ x = [who |-> NULL, count |-> next, n |-> queue[c][next] + 1]
      BY <2>1, <2>a, <2>2, CopyAdded
    <3> QED
      BY <3>2, <3>3
  <2>3. Deliveries(c)' = Deliveries(c) + 0
    BY <1>1, <1>9, DeliveriesType DEF Deliveries
  <2>4. IsFiniteSet({}) /\ Cardinality({}) <= 0 /\ 0 \in Nat
    BY FS_EmptySet
  <2> QED
    BY <1>r, <1>2, <1>4, <2>2, <2>3, <2>4, RetriedCopies
<1>10. CASE queue' = [Requeued({t}) EXCEPT ![d][next] = @ + 1] /\ CountRedelivery({t})
  <2>1. \A b \in Calls, r \in Counts :
          /\ Requeued({t})[b][r] = queue[b][r] + Cardinality(Held({t}, b, r))
          /\ queue[b][r] \in Nat /\ Cardinality(Held({t}, b, r)) \in Nat
    <3>1. \A b \in Calls, r \in Counts : Held({t}, b, r) \subseteq {t}
      BY DEF Held
    <3>2. \A b \in Calls, r \in Counts : Cardinality(Held({t}, b, r)) \in Nat
      BY <3>1, FS_Singleton, FS_Subset, FS_CardinalityType
    <3> QED
      BY <1>6, <3>2 DEF Requeued
  <2>3. Requeued({t})[d][next] = queue[d][next]
    <3>1. Held({t}, d, next) = {}
      BY <1>n DEF Held
    <3>2. Requeued({t})[d][next] = queue[d][next] + 0 /\ queue[d][next] \in Nat
      BY <2>1, <3>1, FS_EmptySet
    <3> QED
      BY <3>2
  <2>a. \A r \in Counts :
          queue'[c][r] = IF c = d /\ r = next THEN Requeued({t})[c][r] + 1 ELSE Requeued({t})[c][r]
    <3>1. \E q \in [Calls -> [Counts -> Nat]] :
            q = Requeued({t}) /\ queue' = [q EXCEPT ![d][next] = @ + 1]
      BY <1>7, <1>10
    <3>2. ASSUME NEW q \in [Calls -> [Counts -> Nat]], queue' = [q EXCEPT ![d][next] = @ + 1]
          PROVE  \A r \in Counts : queue'[c][r] = IF c = d /\ r = next THEN q[c][r] + 1 ELSE q[c][r]
      BY <3>2, QueueChanged
    <3> QED
      BY <3>1, <3>2
  <2>4. PICK top \in [Counts -> Nat] :
          /\ \A r \in Counts : queue'[c][r] = IF c = d /\ r = next THEN top[r] + 1 ELSE top[r]
          /\ c = d => top[next] = queue[c][next]
          /\ \A x \in Copy : x.who = NULL /\ x.n \in queue[c][x.count] + 1 .. top[x.count]
                            => x \in Regained({t}, c)
    BY <1>7, <2>3, <2>a DEF Regained
  <2>5. PICK k \in Nat :
          /\ IsFiniteSet(Regained({t}, c)) /\ Cardinality(Regained({t}, c)) <= k
          /\ k = Cardinality(Holding({t}, c))
    BY <1>6, RegainedAreHeld
  <2>b. PICK back : IsFiniteSet(back) /\ Cardinality(back) <= k /\ Regained({t}, c) \subseteq back
    BY <2>5
  <2>6. ASSUME NEW x \in Copies(c)', x.who = NULL
        PROVE  \/ x \in Copies(c) \cup back
               \/ task[t].call = c /\ x = [who |-> NULL, count |-> next, n |-> queue[c][next] + 1]
    <3>1. \/ x \in Copies(c)
          \/ x.n \in queue[c][x.count] + 1 .. top[x.count]
          \/ d = c /\ x = [who |-> NULL, count |-> next, n |-> queue[c][next] + 1]
      BY <2>4, <2>6, CopyAdded
    <3>2. x \in Copy
      BY DEF Copies
    <3>3. x.n \in queue[c][x.count] + 1 .. top[x.count] => x \in back
      BY <2>4, <2>b, <2>6, <3>2
    <3> QED
      BY <3>1, <3>3
  <2>7. Deliveries(c)' = Deliveries(c) + k
    <3>1. redelivered'[c] = redelivered[c] + k
      BY <1>10, <2>5 DEF CountRedelivery, Holding
    <3> QED
      BY <1>1, <3>1 DEF Deliveries, ChatTypes
  <2>8. IsFiniteSet(back) /\ Cardinality(back) <= k /\ task[t].pc = "retry"
    BY <1>r, <2>b
  <2> QED
    BY <1>2, <1>4, <2>6, <2>7, <2>8, RetriedCopies
<1> QED
  BY <1>5, <1>8, <1>9, <1>10

\* A step that leaves the queue and what was asked for c alone.
LEMMA QuietBounded ==
  ASSUME ChatTypes, ChatTypes', NEW c \in Calls, CallBounded(c),
         UNCHANGED <<sent, queue, redelivered, runs>>, Creations(c)' = Creations(c),
         \A u \in Tasks : Undecided(u, c)' => Undecided(u, c) /\ task'[u].retry = task[u].retry
  PROVE  CallBounded(c)'
<1>1. \A r \in Counts : queue'[c][r] <= queue[c][r]
  BY DEF ChatTypes
<1>2. Deliveries(c)' = Deliveries(c)
  BY DEF Deliveries
<1> QED
  BY <1>1, <1>2, CopiesRest, NothingNew

\* What a coroutine asks the backend for, other than an offer.
LEMMA NotCreations ==
  ASSUME RpcTypeOK, NEW t \in Tasks, NEW op, op # "create", NEW w, NEW o, Ask(t, op, w, o)
  PROVE  \A c \in Calls : Creations(c)' = Creations(c)
<1>1. PICK id \in RequestIds :
        /\ asked[id] = Unasked
        /\ asked' = [asked EXCEPT ![id] = [op |-> op, work |-> w, offer |-> o]]
  BY DEF Ask, Fresh
<1>2. asked[id].op # "create" /\ asked'[id].op # "create"
  BY <1>1 DEF RpcTypeOK, Unasked
<1>3. \A other \in RequestIds \ {id} : asked'[other] = asked[other]
  BY <1>1 DEF RpcTypeOK
<1> QED
  BY <1>2, <1>3 DEF Creations

\* The steps of a coroutine.
LEMMA WorkBounded ==
  ASSUME RpcTypeOK, ChatTypes, ChatTypes', RetriesBelow, NEW t \in Tasks, Work(t),
         task[t].pc # "idle" => task[t].call \in Calls
  PROVE  /\ \A c \in Calls : CallBounded(c) => CallBounded(c)'
         /\ RetriesBelow'
<1>t. task[t] \in Task
  BY DEF ChatTypes
<1> DEFINE Goal == /\ \A c \in Calls : CallBounded(c) => CallBounded(c)'
                   /\ RetriesBelow'
<1>o. ASSUME \A u \in Tasks \ {t} : task'[u] = task[u], task'[t].pc \notin {"think", "retry"}
      PROVE  /\ \A c \in Calls : \A u \in Tasks :
                  Undecided(u, c)' => Undecided(u, c) /\ task'[u].retry = task[u].retry
             /\ RetriesBelow'
  BY <1>o DEF Undecided, RetriesBelow
<1>g. ASSUME NEW pc, Go(t, pc)
      PROVE  /\ task'[t] = [task[t] EXCEPT !.pc = pc]
             /\ \A u \in Tasks \ {t} : task'[u] = task[u]
             /\ task'[t].pc = pc /\ task'[t].call = task[t].call /\ task'[t].retry = task[t].retry
  BY <1>t, <1>g DEF Go, ChatTypes, Task
<1>s. ASSUME NEW a, Say(t, a)
      PROVE  task'[t].pc = "reply" /\ \A u \in Tasks \ {t} : task'[u] = task[u]
  BY <1>t, <1>s DEF Say, ChatTypes, Task
<1>f. ASSUME Finish(t)
      PROVE  task'[t].pc = "idle" /\ \A u \in Tasks \ {t} : task'[u] = task[u]
  BY <1>t, <1>f DEF Finish, Idle, ChatTypes
<1>a. ASSUME asked' = asked PROVE \A c \in Calls : Creations(c)' = Creations(c)
  BY <1>a DEF Creations
<1>1. CASE Conclude(t) \/ Ack(t)
  <2>1. /\ UNCHANGED <<sent, queue, redelivered, runs>> /\ asked' = asked
        /\ Say(t, "nothing") \/ Finish(t)
    BY <1>1 DEF Conclude, Ack, rpcVars, clientVars
  <2> QED
    BY <1>o, <1>s, <1>f, <1>a, <2>1, QuietBounded
<1>2. CASE TemporaryError(t)
  <2>1. UNCHANGED <<sent, queue, redelivered, runs>> /\ asked' = asked /\ task[t].pc = "think"
    BY <1>2 DEF TemporaryError, rpcVars, clientVars
  <2>2. CASE Say(t, "nothing")
    BY <1>o, <1>s, <1>a, <2>1, <2>2, QuietBounded
  <2>3. CASE HasRetries(t) /\ Go(t, "retry")
    <3>1. \A c \in Calls : \A u \in Tasks :
            Undecided(u, c)' => Undecided(u, c) /\ task'[u].retry = task[u].retry
      BY <1>g, <2>1, <2>3 DEF Undecided
    <3>2. RetriesBelow'
      BY <1>g, <2>3 DEF RetriesBelow, HasRetries
    <3> QED
      BY <1>a, <2>1, <3>1, <3>2, QuietBounded
  <2> QED
    BY <1>2, <2>2, <2>3 DEF TemporaryError
<1>3. CASE AskCreate(t)
  <2>1. task[t].call \in Calls
    BY <1>3 DEF AskCreate
  <2>2. task'[t].pc = "create" /\ \A u \in Tasks \ {t} : task'[u] = task[u]
    <3>1. PICK needs \in BOOLEAN : task' = [task EXCEPT ![t].pc = "create", ![t].needs = needs]
      BY <1>3 DEF AskCreate
    <3> QED
      BY <1>t, <3>1 DEF ChatTypes, Task
  <2> QED
    BY <1>3, <1>o, <2>1, <2>2, AskCreateBounded
<1>4. CASE AskPrefer(t) \/ AskApproval(t)
  <2>1. UNCHANGED <<sent, queue, redelivered, runs>> /\ (Go(t, "prefer") \/ Go(t, "approve"))
    BY <1>4 DEF AskPrefer, AskApproval
  <2>2. \/ Ask(t, "prefer", task[t].call, NULL)
        \/ Ask(t, "approve", task[t].call, task[t].offer)
    BY <1>4 DEF AskPrefer, AskApproval
  <2>3. \A c \in Calls : Creations(c)' = Creations(c)
    BY <2>2, NotCreations
  <2>4. task'[t].pc \in {"prefer", "approve"} /\ \A u \in Tasks \ {t} : task'[u] = task[u]
    BY <1>g, <2>1
  <2> QED
    BY <1>o, <2>1, <2>3, <2>4, QuietBounded
<1>5. CASE OfferCreated(t) \/ ApprovalRequested(t) \/ PreferencesUpdated(t)
  <2>1. UNCHANGED <<sent, queue, redelivered, runs>> /\ asked' = asked
    BY <1>5 DEF OfferCreated, ApprovalRequested, PreferencesUpdated, Returned
  <2>2. \/ \E a : Say(t, a)
        \/ task' = [task EXCEPT ![t].pc = "submit", ![t].offer = rpc[t].result.offer]
    BY <1>5 DEF OfferCreated, ApprovalRequested, PreferencesUpdated
  <2>3. task'[t].pc \in {"reply", "submit"} /\ \A u \in Tasks \ {t} : task'[u] = task[u]
    <3>1. CASE \E a : Say(t, a)
      BY <1>s, <3>1
    <3>2. CASE task' = [task EXCEPT ![t].pc = "submit", ![t].offer = rpc[t].result.offer]
      BY <1>t, <3>2 DEF ChatTypes, Task
    <3> QED
      BY <2>2, <3>1, <3>2
  <2> QED
    BY <1>o, <1>a, <2>1, <2>3, QuietBounded
<1>6. CASE Retry(t)
  <2>1. task[t].call \in Calls /\ task[t].retry < MaxRetries
    BY <1>6 DEF Retry, RetriesBelow
  <2>2. Go(t, "ack") \/ Finish(t)
    BY <1>6 DEF Retry, Nack
  <2>m. task'[t].pc \in {"ack", "idle"} /\ \A u \in Tasks \ {t} : task'[u] = task[u]
    BY <1>g, <1>f, <2>2
  <2>3. RetriesBelow'
    BY <1>o, <2>m
  <2> QED
    BY <1>6, <2>1, <2>3, RetryBounded
<1>7. CASE Publish(t)
  <2>1. /\ UNCHANGED <<sent, runs>> /\ asked' = asked
        /\ \/ Go(t, "ack") /\ UNCHANGED <<queue, redelivered>>
           \/ queue' = Requeued({t}) /\ Nack(t)
    BY <1>7 DEF Publish, clientVars
  <2>2. CASE Go(t, "ack") /\ UNCHANGED <<queue, redelivered>>
    <3>1. task'[t].pc = "ack" /\ \A u \in Tasks \ {t} : task'[u] = task[u]
      BY <1>g, <2>2
    <3> QED
      BY <1>o, <1>a, <2>1, <2>2, <3>1, QuietBounded
  <2>3. CASE queue' = Requeued({t}) /\ Nack(t)
    <3>1. Finish(t) /\ CountRedelivery({t}) /\ {t} \in SUBSET Tasks
      BY <2>3 DEF Nack
    <3>2. \A c \in Calls : \A r \in Counts : queue'[c][r] <= Requeued({t})[c][r]
      <4>1. \A c \in Calls, r \in Counts : queue'[c][r] \in Nat
        BY DEF ChatTypes
      <4> QED
        BY <2>3, <4>1
    <3> QED
      BY <1>o, <1>f, <1>a, <2>1, <3>1, <3>2, GivenBack
  <2> QED
    BY <2>1, <2>2, <2>3
<1> QED
  BY <1>1, <1>2, <1>3, <1>4, <1>5, <1>6, <1>7 DEF Work

\* All that a request costs is accounted for.
LEMMA BoundedNext ==
  ASSUME Sound, Sound', Bounded, [Next]_vars
  PROVE  Bounded'
<1>1. RpcTypeOK /\ ChatTypes /\ ChatTypes' /\ RetriesBelow
  BY DEF Sound, Bounded, RetriesBelow
<1>2. SUFFICES RetriesBelow' /\ \A c \in Calls : CallBounded(c)'
  BY DEF Bounded, RetriesBelow
<1>3. \A c \in Calls : CallBounded(c)
  BY DEF Bounded
<1>a. ASSUME asked' = asked PROVE \A c \in Calls : Creations(c)' = Creations(c)
  BY <1>a DEF Creations
<1>u. ASSUME \A u \in Tasks : \/ task'[u].pc = "idle"
                              \/ /\ task'[u].pc = task[u].pc /\ task'[u].call = task[u].call
                                 /\ task'[u].retry = task[u].retry
      PROVE  /\ \A c \in Calls : \A u \in Tasks :
                  Undecided(u, c)' => Undecided(u, c) /\ task'[u].retry = task[u].retry
             /\ RetriesBelow'
  BY <1>1, <1>u DEF Undecided, RetriesBelow
<1>4. ASSUME NEW c \in Calls, SendRpc(c) PROVE RetriesBelow' /\ \A d \in Calls : CallBounded(d)'
  <2>1. task' = task
    BY <1>4 DEF SendRpc
  <2> QED
    BY <1>1, <1>3, <1>4, <1>u, <2>1, SendBounded
<1>5. ASSUME NEW t \in Tasks, Receive(t) PROVE RetriesBelow' /\ \A d \in Calls : CallBounded(d)'
  <2>1. task'[t].pc = "think" /\ \A u \in Tasks \ {t} : task'[u] = task[u]
    BY <1>1, <1>5 DEF Receive, Start, Idle, ChatTypes
  <2>2. RetriesBelow'
    BY <1>1, <2>1 DEF RetriesBelow
  <2> QED
    BY <1>1, <1>3, <1>5, <2>2, ReceiveBounded
<1>6. ASSUME NEW t \in Tasks, Work(t) PROVE RetriesBelow' /\ \A d \in Calls : CallBounded(d)'
  <2>1. task[t].pc # "idle" => task[t].call \in Calls
    BY DEF Sound, TaskSound
  <2> QED
    BY <1>1, <1>3, <1>6, <2>1, WorkBounded
<1>7. ASSUME UNCHANGED <<asked, chatVars>> PROVE RetriesBelow' /\ \A d \in Calls : CallBounded(d)'
  <2>1. UNCHANGED <<asked, sent, queue, task, redelivered, runs>>
    BY <1>7 DEF chatVars, agentVars
  <2> QED
    BY <1>1, <1>3, <1>a, <1>u, <2>1, QuietBounded
<1>8. ASSUME RpcStep, UNCHANGED chatVars PROVE RetriesBelow' /\ \A d \in Calls : CallBounded(d)'
  <2>1. asked' = asked
    BY <1>8 DEF RpcStep, TimesOut, Serve, CreateOffer, RequestApproval, Apply, Refuse, Serving,
                PublishReply, PeopleAct, clientVars
  <2> QED
    BY <1>7, <1>8, <2>1
<1>9. ASSUME Loss PROVE RetriesBelow' /\ \A d \in Calls : CallBounded(d)'
  <2>1. asked' = asked
    BY <1>9 DEF Loss, AgentStops, ClientStops, AgentDisconnected, BrokerStops, BrokerRestarts,
                ConsumerLost, ServerRestarts, clientVars
  <2>2. CASE (ConsumerLost \/ ServerRestarts) /\ UNCHANGED chatVars
    BY <1>7, <2>1, <2>2
  <2>3. CASE AgentStops \/ AgentDisconnected
    <3>1. /\ queue' = Requeued(Tasks) /\ CountRedelivery(Tasks) /\ UNCHANGED <<sent, runs>>
      BY <2>3 DEF AgentStops, AgentDisconnected
    <3>2. \A u \in Tasks : \/ task'[u].pc = "idle"
                           \/ /\ task'[u].pc = task[u].pc /\ task'[u].call = task[u].call
                              /\ task'[u].retry = task[u].retry
      BY <1>1, <2>3 DEF AgentStops, AgentDisconnected, Idle, ChatTypes, Task
    <3>3. \A c \in Calls, r \in Counts : queue'[c][r] <= Requeued(Tasks)[c][r]
      <4>1. \A c \in Calls, r \in Counts : queue'[c][r] \in Nat
        BY <1>1 DEF ChatTypes
      <4> QED
        BY <3>1, <4>1
    <3>4. Tasks \in SUBSET Tasks
      OBVIOUS
    <3> QED
      BY <1>1, <1>3, <1>a, <1>u, <2>1, <3>1, <3>2, <3>3, <3>4, GivenBack
  <2>4. CASE BrokerStops
    <3>1. /\ UNCHANGED <<sent, redelivered, runs>>
          /\ queue' = [c \in Calls |-> [r \in Counts |-> 0]]
      BY <2>4 DEF BrokerStops
    <3>2. \A u \in Tasks : /\ task'[u].pc = task[u].pc /\ task'[u].call = task[u].call
                           /\ task'[u].retry = task[u].retry
      BY <1>1, <2>4 DEF BrokerStops, ChatTypes, Task
    <3>3. \A c \in Calls, r \in Counts : queue'[c][r] <= queue[c][r]
      BY <1>1, <3>1 DEF ChatTypes
    <3>4. \A c \in Calls : Deliveries(c)' = Deliveries(c)
      BY <3>1 DEF Deliveries
    <3>5. \A c \in Calls : Copies(c)' \subseteq Copies(c)
      BY <1>1, <1>u, <3>2, <3>3, CopiesRest
    <3> QED
      BY <1>1, <1>3, <1>a, <1>u, <2>1, <3>1, <3>2, <3>4, <3>5, NothingNew
  <2> QED
    BY <1>9, <2>2, <2>3, <2>4 DEF Loss
<1>10. CASE UNCHANGED vars
  <2>1. UNCHANGED <<asked, chatVars>>
    BY <1>10 DEF vars, rpcVars, clientVars
  <2> QED
    BY <1>7, <2>1
<1> QED
  BY <1>4, <1>5, <1>6, <1>8, <1>9, <1>10 DEF Next

LEMMA BoundedInit == Init => Bounded
<1> SUFFICES ASSUME Init PROVE Bounded
  OBVIOUS
<1>1. ASSUME NEW c \in Calls PROVE CallBounded(c)
  <2>1. Copies(c) = {}
    <3>1. \A r \in Counts : queue[c][r] = 0
      BY DEF Init
    <3>2. \A t \in Tasks : ~Undecided(t, c)
      BY DEF Init, Idle, Undecided
    <3>3. ASSUME NEW x \in Copies(c) PROVE FALSE
      <4>1. x.count \in Counts /\ x.n \in Nat
        BY DEF Copies, Copy
      <4> QED
        BY <3>1, <3>2, <4>1 DEF Copies
    <3> QED
      BY <3>3
  <2>2. Creations(c) = {}
    BY DEF Init, RpcInit, Unasked, Creations
  <2>3. RunsLeft({}) = {}
    BY DEF RunsLeft
  <2>4. Deliveries(c) = 0 /\ runs[c] = 0
    BY DEF Init, Deliveries
  <2>5. 0 <= (MaxRetries + 1) * 0
    BY ChatAssumption
  <2> QED
    BY <2>1, <2>2, <2>3, <2>4, <2>5, FS_EmptySet DEF CallBounded
<1>2. \A t \in Tasks : task[t].pc # "retry"
  BY DEF Init, Idle
<1> QED
  BY <1>1, <1>2 DEF Bounded

--------------------------------------------------------------------------------
(* The offers: one for a call that asked for it.                             *)

\* What may happen to the offers: what the abstract offers allow, and they are
\* created for calls that asked for it.
OffersMove ==
  \E o \in Offers :
    \/ \E id \in RequestIds, needed \in BOOLEAN :
         asked[id].op = "create" /\ Life!Create(o, id, needed)
    \/ Life!Submit(o)
    \/ \E u \in Supervisors, verdict \in {"approved", "rejected"} : Life!Decide(o, u, verdict)

LEMMA OfferSteps ==
  ASSUME RpcTypeOK, [Next]_vars
  PROVE  OffersMove \/ UNCHANGED offerVars
<1>1. ASSUME Serve PROVE OffersMove \/ UNCHANGED offerVars
  <2>1. ASSUME NEW id \in queued, CreateOffer(id) PROVE OffersMove \/ UNCHANGED offerVars
    <3>1. id \in RequestIds /\ asked[id].op = "create"
      BY <2>1 DEF CreateOffer, Serving, RpcTypeOK
    <3> QED
      BY <2>1, <3>1 DEF CreateOffer, OffersMove
  <2>2. ASSUME NEW id \in queued, RequestApproval(id) PROVE OffersMove \/ UNCHANGED offerVars
    BY <2>2 DEF RequestApproval, OffersMove
  <2>3. ASSUME NEW id \in queued, Apply(id) \/ Refuse(id) PROVE UNCHANGED offerVars
    BY <2>3 DEF Apply, Refuse, dataVars
  <2>4. ASSUME PublishReply PROVE UNCHANGED offerVars
    BY <2>4 DEF PublishReply, dataVars
  <2> QED
    BY <1>1, <2>1, <2>2, <2>3, <2>4 DEF Serve
<1>2. ASSUME PeopleAct PROVE OffersMove
  BY <1>2 DEF PeopleAct, OffersMove
<1>3. ASSUME NEW t \in Tasks, TimesOut(t) PROVE UNCHANGED offerVars
  BY <1>3 DEF TimesOut, serverVars, dataVars
<1>4. ASSUME NEW t \in Tasks, Work(t) PROVE UNCHANGED offerVars
  BY <1>4 DEF Work, Conclude, TemporaryError, AskCreate, AskPrefer, OfferCreated, AskApproval,
              ApprovalRequested, PreferencesUpdated, Retry, Publish, Ack, Ask, Returned,
              rpcVars, serverVars, dataVars
<1>5. ASSUME NEW t \in Tasks, Receive(t) PROVE UNCHANGED offerVars
  BY <1>5 DEF Receive, rpcVars, serverVars, dataVars
<1>6. ASSUME NEW c \in Calls, SendRpc(c) PROVE UNCHANGED offerVars
  BY <1>6 DEF SendRpc, serverVars, dataVars
<1>7. ASSUME Loss PROVE UNCHANGED offerVars
  BY <1>7 DEF Loss, AgentStops, ClientStops, AgentDisconnected, BrokerStops, BrokerRestarts,
              ConsumerLost, ServerRestarts, serverVars, dataVars
<1>8. ASSUME UNCHANGED vars PROVE UNCHANGED offerVars
  BY <1>8 DEF vars, rpcVars, serverVars, dataVars
<1> QED
  BY <1>1, <1>2, <1>3, <1>4, <1>5, <1>6, <1>7, <1>8 DEF Next, RpcStep

OffersWanted ==
  /\ \A o \in Offers : Life!Exists(o) =>
       requestOf[o] \in RequestIds /\ asked[requestOf[o]].op = "create"
  /\ \A o, other \in Offers :
       Life!Exists(o) /\ Life!Exists(other) /\ requestOf[o] = requestOf[other] => o = other

LEMMA OffersWantedNext ==
  ASSUME RpcTypeOK, OffersWanted, Grows, OffersMove \/ UNCHANGED offerVars
  PROVE  OffersWanted'
<1>1. ASSUME NEW id \in RequestIds, asked[id].op = "create" PROVE asked'[id] = asked[id]
  BY <1>1 DEF Grows, Asked
<1>2. ASSUME requestOf' = requestOf, \A o \in Offers : Life!Exists(o)' => Life!Exists(o)
      PROVE  OffersWanted'
  BY <1>1, <1>2 DEF OffersWanted
<1>3. CASE UNCHANGED offerVars
  BY <1>2, <1>3 DEF offerVars, Life!Exists
<1>4. ASSUME NEW o \in Offers, Life!Submit(o) \/
               \E u \in Supervisors, verdict \in {"approved", "rejected"} : Life!Decide(o, u, verdict)
      PROVE  OffersWanted'
  <2>1. requestOf' = requestOf /\ status[o] # "absent" /\ \A x \in Offers \ {o} : status'[x] = status[x]
    BY <1>4 DEF Life!Submit, Life!Decide, RpcTypeOK, Life!TypeOK
  <2> QED
    BY <1>2, <2>1 DEF Life!Exists
<1>5. ASSUME NEW o \in Offers, NEW id \in RequestIds, NEW needed \in BOOLEAN,
             asked[id].op = "create", Life!Create(o, id, needed)
      PROVE  OffersWanted'
  <2>1. /\ requestOf'[o] = id
        /\ \A x \in Offers \ {o} : status'[x] = status[x] /\ requestOf'[x] = requestOf[x]
        /\ \A x \in Offers : requestOf[x] # id
    BY <1>5 DEF Life!Create, RpcTypeOK, Life!TypeOK
  <2>2. \A x \in Offers \ {o} : Life!Exists(x)' => Life!Exists(x)
    BY <2>1 DEF Life!Exists
  <2> QED
    BY <1>1, <1>5, <2>1, <2>2 DEF OffersWanted
<1> QED
  BY <1>3, <1>4, <1>5 DEF OffersMove

--------------------------------------------------------------------------------
(* The offers go the way of the abstract ones, and cost is bounded.          *)

\* Nothing that the agent, the losses of connections and retries do makes the
\* offers go another way than the abstract ones: what OfferLifecycle promises
\* holds of offers that a client over RabbitMQ creates and submits, while people
\* decide.
THEOREM OffersKeepLifecycle == Spec => Life!Spec
<1>1. Init => Life!Init
  BY DEF Init, RpcInit
<1>2. Sound /\ [Next]_vars => [Life!Next]_(Life!vars)
  <2> SUFFICES ASSUME Sound, [Next]_vars PROVE [Life!Next]_(Life!vars)
    OBVIOUS
  <2>1. OffersMove \/ UNCHANGED offerVars
    BY OfferSteps DEF Sound
  <2> QED
    BY <2>1 DEF OffersMove, offerVars, Life!Next, Life!vars
<1> QED
  BY <1>1, <1>2, SoundAlways, PTL DEF Spec, Life!Spec

LEMMA OffersWantedAlways == Spec => []OffersWanted
<1>1. Init => OffersWanted
  BY DEF Init, RpcInit, Life!Init, Life!Exists, OffersWanted
<1>2. Sound /\ OffersWanted /\ [Next]_vars /\ [Grows]_vars => OffersWanted'
  <2> SUFFICES ASSUME Sound, OffersWanted, [Next]_vars, [Grows]_vars PROVE OffersWanted'
    OBVIOUS
  <2>1. RpcTypeOK
    BY DEF Sound
  <2>2. CASE UNCHANGED vars
    BY <2>2 DEF vars, rpcVars, serverVars, clientVars, dataVars, offerVars, OffersWanted, Life!Exists
  <2>3. CASE Grows
    BY <2>1, <2>3, OfferSteps, OffersWantedNext
  <2> QED
    BY <2>2, <2>3
<1> QED
  BY <1>1, <1>2, SoundAlways, DatabaseGrows, PTL DEF Spec

\* Whoever creates and submits, nothing is in force without the approval it needs.
OffersEntitled ==
  \A o \in Offers :
    /\ status[o] = "approved" /\ required[o] => decidedBy[o] \in Supervisors
    /\ Life!Exists(o) /\ ~required[o] => status[o] = "approved" /\ decidedBy[o] = NULL
    /\ ~Life!Exists(o) => decidedBy[o] = NULL

LEMMA OffersEntitledNext ==
  ASSUME RpcTypeOK, OffersEntitled, OffersMove \/ UNCHANGED offerVars
  PROVE  OffersEntitled'
<1>1. CASE UNCHANGED offerVars
  BY <1>1 DEF offerVars, OffersEntitled, Life!Exists
<1>2. ASSUME NEW o \in Offers, NEW id \in RequestIds, NEW needed \in BOOLEAN, Life!Create(o, id, needed)
      PROVE  OffersEntitled'
  <2>1. \A x \in Offers \ {o} : /\ status'[x] = status[x] /\ required'[x] = required[x]
                                /\ decidedBy'[x] = decidedBy[x]
    BY <1>2 DEF Life!Create, RpcTypeOK, Life!TypeOK
  <2>2. /\ status'[o] = (IF needed THEN "draft" ELSE "approved")
        /\ required'[o] = needed /\ decidedBy'[o] = NULL
    BY <1>2 DEF Life!Create, RpcTypeOK, Life!TypeOK, OffersEntitled
  <2> QED
    BY <2>1, <2>2 DEF OffersEntitled, Life!Exists
<1>3. ASSUME NEW o \in Offers, Life!Submit(o) PROVE OffersEntitled'
  BY <1>3 DEF Life!Submit, OffersEntitled, Life!Exists, RpcTypeOK, Life!TypeOK
<1>4. ASSUME NEW o \in Offers, NEW u \in Supervisors, NEW verdict \in {"approved", "rejected"},
             Life!Decide(o, u, verdict)
      PROVE  OffersEntitled'
  BY <1>4 DEF Life!Decide, OffersEntitled, Life!Exists, RpcTypeOK, Life!TypeOK
<1> QED
  BY <1>1, <1>2, <1>3, <1>4 DEF OffersMove

\* However often a request of the agent is delivered and served, it makes one offer at most,
\* it makes one only if it asked for one (service/offer.go:193-215), and what comes into force
\* for the agent needed no approval or has a supervisor's.
THEOREM OffersStayEntitled == Spec => [](OffersWanted /\ OffersEntitled)
<1>1. Init => OffersEntitled
  BY DEF Init, RpcInit, Life!Init, Life!Exists, OffersEntitled
<1>2. Sound /\ OffersEntitled /\ [Next]_vars => OffersEntitled'
  BY OfferSteps, OffersEntitledNext DEF Sound
<1> QED
  BY <1>1, <1>2, SoundAlways, OffersWantedAlways, PTL DEF Spec

LEMMA BoundedAlways == Spec => []Bounded
<1>1. Sound /\ Sound' /\ Bounded /\ [Next]_vars => Bounded'
  BY BoundedNext
<1> QED
  BY <1>1, BoundedInit, SoundAlways, PTL DEF Spec

\* A request makes no more offers than it has asked for, and a call for an offer is
\* made of a copy that leads to no other.
LEMMA BoundsHold ==
  ASSUME Sound, Bounded, OffersWanted
  PROVE  WorkIsBounded
<1>1. ChatTypes
  BY DEF Sound
<1>2. ASSUME NEW c \in Calls PROVE Cardinality(OffersOf(c)) <= 1 + redelivered[c]
  <2> DEFINE f == [o \in OffersOf(c) |-> requestOf[o]]
  <2>1. IsFiniteSet(Creations(c)) /\ IsFiniteSet(Copies(c))
    BY DEF Bounded, CallBounded
  <2>2. f \in [OffersOf(c) -> Creations(c)]
    BY DEF OffersOf, Creations, OffersWanted
  <2>3. \A o, other \in OffersOf(c) : f[o] = f[other] => o = other
    BY DEF OffersOf, OffersWanted
  <2> HIDE DEF f
  <2>4. Cardinality(OffersOf(c)) <= Cardinality(Creations(c)) /\ Cardinality(OffersOf(c)) \in Nat
    BY <2>1, <2>2, <2>3, Injects
  <2>5. Cardinality(Creations(c)) \in Nat /\ Cardinality(Copies(c)) \in Nat
    BY <2>1, FS_CardinalityType
  <2>6. Cardinality(Creations(c)) + Cardinality(Copies(c)) <= Deliveries(c)
    BY DEF Bounded, CallBounded
  <2>7. Deliveries(c) \in Nat /\ Deliveries(c) <= 1 + redelivered[c] /\ redelivered[c] \in Nat
    BY <1>1 DEF Deliveries, ChatTypes
  <2> QED
    BY <2>4, <2>5, <2>6, <2>7
<1>3. ASSUME NEW c \in Calls PROVE runs[c] <= (MaxRetries + 1) * (1 + redelivered[c])
  <2>1. /\ Cardinality(RunsLeft(Copies(c))) \in Nat
        /\ runs[c] + Cardinality(RunsLeft(Copies(c))) <= (MaxRetries + 1) * Deliveries(c)
    BY RunsOfCopies DEF Bounded, CallBounded
  <2>2. /\ Deliveries(c) \in Nat /\ Deliveries(c) <= 1 + redelivered[c]
        /\ redelivered[c] \in Nat /\ runs[c] \in Nat /\ MaxRetries + 1 \in Nat
    BY <1>1, ChatAssumption DEF Deliveries, ChatTypes
  <2>3. \A m, a, b \in Nat : a <= b => m * a <= m * b
    OBVIOUS
  <2>4. (MaxRetries + 1) * Deliveries(c) <= (MaxRetries + 1) * (1 + redelivered[c])
    BY <2>2, <2>3
  <2>5. (MaxRetries + 1) * Deliveries(c) \in Nat /\ (MaxRetries + 1) * (1 + redelivered[c]) \in Nat
    BY <2>2
  <2> QED
    BY <2>1, <2>2, <2>4, <2>5
<1> QED
  BY <1>2, <1>3 DEF WorkIsBounded, OneOfferPerDelivery, RunsAreBounded

\* What a request costs is bounded by how often it was delivered, for any number of
\* coroutines, retries and losses: a retry is a copy in the place of the one it was,
\* and an offer is asked for with a copy that leads to nothing else.
THEOREM WorkAlwaysBounded == Spec => []WorkIsBounded
<1>1. Sound /\ Bounded /\ OffersWanted => WorkIsBounded
  BY BoundsHold
<1> QED
  BY <1>1, SoundAlways, BoundedAlways, OffersWantedAlways, PTL

--------------------------------------------------------------------------------
(* What the servers may expect of the agent: AgentService.                   *)

\* The requests that were sent, those whose copies or coroutines there are, those answered.
Agent == INSTANCE AgentService WITH
  spent <- sent, pending <- {c \in Calls : InHand(c)}, answered <- {c \in Calls : said[c] # {}}

\* A request that was in hand neither before a step nor is newly made is not in hand after it.
OnlyLeave == \A c \in Calls : InHand(c)' => InHand(c)

\* A copy that a step finds in the queue was there, or is given back by a coroutine.
LEMMA GivenBackInHand ==
  ASSUME ChatTypes, NEW ts \in SUBSET Tasks, NEW c \in Calls, NEW r \in Counts,
         Requeued(ts)[c][r] > 0
  PROVE  InHand(c)
<1>1. CASE queue[c][r] > 0
  BY <1>1 DEF InHand
<1>2. CASE queue[c][r] = 0
  <2>1. Cardinality(Held(ts, c, r)) # 0
    BY <1>2 DEF Requeued
  <2>2. PICK t \in Held(ts, c, r) : TRUE
    <3>1. Held(ts, c, r) # {}
      BY <2>1, FS_EmptySet
    <3> QED
      BY <3>1
  <2> QED
    BY <2>2 DEF Held, InHand
<1> QED
  BY <1>1, <1>2 DEF ChatTypes

\* A step whose copies and coroutines are about requests in hand brings none back.
LEMMA NoneComesBack ==
  ASSUME \A c \in Calls, r \in Counts : queue'[c][r] > 0 => queue[c][r] > 0 \/ InHand(c),
         \A c \in Calls, t \in Tasks : task'[t].call = c => InHand(c)
  PROVE  OnlyLeave
BY DEF InHand, OnlyLeave

LEMMA SendInService ==
  ASSUME ChatTypes, ChatTypes', NEW c \in Calls, SendRpc(c)
  PROVE  Agent!Make(c)
<1>1. /\ c \notin sent /\ sent' = sent \cup {c} /\ task' = task /\ said' = said
      /\ queue' = queue \/ queue' = [queue EXCEPT ![c][0] = @ + 1]
  BY DEF SendRpc
<1>2. CASE queue' = queue
  BY <1>1, <1>2 DEF Agent!Make, InHand
<1>3. CASE queue' = [queue EXCEPT ![c][0] = @ + 1]
  <2>1. 0 \in Counts
    BY ChatAssumption DEF Counts
  <2>2. /\ queue'[c][0] = queue[c][0] + 1 /\ queue[c][0] \in Nat
        /\ \A d \in Calls \ {c} : queue'[d] = queue[d]
    BY <1>3, <2>1 DEF ChatTypes
  <2>3. InHand(c)' /\ \A d \in Calls \ {c} : InHand(d)' <=> InHand(d)
    BY <1>1, <2>1, <2>2 DEF InHand
  <2>4. {d \in Calls : InHand(d)}' = {d \in Calls : InHand(d)} \cup {c}
    BY <2>3
  <2> QED
    BY <1>1, <2>4 DEF Agent!Make
<1> QED
  BY <1>1, <1>2, <1>3

\* What a coroutine does to itself: it keeps its request, or is idle.
LEMMA WorkKeepsCall ==
  ASSUME ChatTypes, NEW t \in Tasks, Work(t)
  PROVE  /\ \A u \in Tasks \ {t} : task'[u] = task[u]
         /\ task'[t].call \in {task[t].call, NULL}
<1>t. task[t] \in Task
  BY DEF ChatTypes
<1>g. ASSUME NEW pc, Go(t, pc) PROVE task'[t].call = task[t].call /\ \A u \in Tasks \ {t} : task'[u] = task[u]
  BY <1>t, <1>g DEF Go, ChatTypes, Task
<1>s. ASSUME NEW a, Say(t, a) PROVE task'[t].call = task[t].call /\ \A u \in Tasks \ {t} : task'[u] = task[u]
  BY <1>t, <1>s DEF Say, ChatTypes, Task
<1>f. ASSUME Finish(t) PROVE task'[t].call = NULL /\ \A u \in Tasks \ {t} : task'[u] = task[u]
  BY <1>t, <1>f DEF Finish, Idle, ChatTypes
<1>o. ASSUME NEW needs, NEW pc, task' = [task EXCEPT ![t].pc = pc, ![t].needs = needs]
      PROVE  task'[t].call = task[t].call /\ \A u \in Tasks \ {t} : task'[u] = task[u]
  BY <1>t, <1>o DEF ChatTypes, Task
<1>p. ASSUME NEW offer, NEW pc, task' = [task EXCEPT ![t].pc = pc, ![t].offer = offer]
      PROVE  task'[t].call = task[t].call /\ \A u \in Tasks \ {t} : task'[u] = task[u]
  BY <1>t, <1>p DEF ChatTypes, Task
<1>1. CASE Conclude(t) \/ TemporaryError(t) \/ AskPrefer(t) \/ AskApproval(t) \/ Ack(t)
  <2>1. (\E pc : Go(t, pc)) \/ (\E a : Say(t, a)) \/ Finish(t)
    BY <1>1 DEF Conclude, TemporaryError, AskPrefer, AskApproval, Ack
  <2> QED
    BY <1>g, <1>s, <1>f, <2>1
<1>2. CASE AskCreate(t)
  BY <1>2, <1>o DEF AskCreate
<1>3. CASE OfferCreated(t)
  BY <1>3, <1>s, <1>p DEF OfferCreated
<1>4. CASE ApprovalRequested(t) \/ PreferencesUpdated(t)
  <2>1. \E a : Say(t, a)
    BY <1>4 DEF ApprovalRequested, PreferencesUpdated
  <2> QED
    BY <1>s, <2>1
<1>5. CASE Retry(t) \/ Publish(t)
  <2>1. Go(t, "ack") \/ Finish(t)
    BY <1>5 DEF Retry, Publish, Nack
  <2> QED
    BY <1>g, <1>f, <2>1
<1> QED
  BY <1>1, <1>2, <1>3, <1>4, <1>5 DEF Work

\* A coroutine takes a copy, a copy is published again with the next count, or all goes on.
LEMMA TakenInService ==
  ASSUME ChatTypes, ChatTypes', NEW t \in Tasks, Receive(t)
  PROVE  OnlyLeave
<1>1. PICK c \in Calls, r \in Counts :
        /\ queue[c][r] > 0 /\ queue' = [queue EXCEPT ![c][r] = @ - 1]
        /\ Start(t, c, r)
  BY DEF Receive
<1>2. task'[t].call = c /\ \A u \in Tasks \ {t} : task'[u] = task[u]
  BY <1>1 DEF Start, Idle, ChatTypes
<1>3. \A d \in Calls, s \in Counts : queue'[d][s] > 0 => queue[d][s] > 0
  BY <1>1 DEF ChatTypes
<1>4. InHand(c)
  BY <1>1 DEF InHand
<1> QED
  BY <1>2, <1>3, <1>4, NoneComesBack DEF InHand

LEMMA RetryInService ==
  ASSUME ChatTypes, ChatTypes', RetriesBelow, NEW t \in Tasks, Retry(t), task[t].call \in Calls
  PROVE  OnlyLeave
<1> DEFINE c == task[t].call
           next == task[t].retry + 1
<1>1. InHand(c)
  BY DEF InHand
<1>2. task'[t].call \in {c, NULL} /\ \A u \in Tasks \ {t} : task'[u] = task[u]
  BY WorkKeepsCall DEF Work
<1>3. \A d \in Calls, u \in Tasks : task'[u].call = d => InHand(d)
  BY <1>1, <1>2, RpcAssumption, ChatAssumption DEF InHand
<1>n. next \in Counts
  <2>1. task[t].pc = "retry" /\ task[t].retry \in Counts
    BY DEF Retry, ChatTypes, Task
  <2> QED
    BY <2>1, ChatAssumption DEF RetriesBelow, Counts
<1>4. ASSUME NEW q \in [Calls -> [Counts -> Nat]],
             queue' = q \/ queue' = [q EXCEPT ![c][next] = @ + 1],
             \A d \in Calls, r \in Counts : q[d][r] > 0 => InHand(d)
      PROVE  OnlyLeave
  <2>1. \A d \in Calls \ {c} : queue'[d] = q[d]
    BY <1>4
  <2>2. \A d \in Calls, r \in Counts : queue'[d][r] > 0 => InHand(d)
    BY <1>1, <1>4, <2>1
  <2> QED
    BY <1>3, <2>2, NoneComesBack
<1>5. CASE queue' = [queue EXCEPT ![c][next] = @ + 1]
  <2>1. \A d \in Calls, r \in Counts : queue[d][r] > 0 => InHand(d)
    BY DEF InHand
  <2> QED
    BY <1>4, <1>5, <2>1 DEF ChatTypes
<1>6. CASE queue' \in {Requeued({t}), [Requeued({t}) EXCEPT ![c][next] = @ + 1]}
  <2>1. Requeued({t}) \in [Calls -> [Counts -> Nat]]
    BY GivenBackTypes
  <2>2. \A d \in Calls, r \in Counts : Requeued({t})[d][r] > 0 => InHand(d)
    BY GivenBackInHand
  <2> QED
    BY <1>4, <1>6, <2>1, <2>2
<1> QED
  BY <1>5, <1>6 DEF Retry

\* What is given back, to the queue or by the coroutines, was in hand.
LEMMA GivenBackLeaves ==
  ASSUME ChatTypes, NEW ts \in SUBSET Tasks, queue' = Requeued(ts),
         \A u \in Tasks : task'[u].call \in {task[u].call, NULL}
  PROVE  OnlyLeave
<1>1. \A c \in Calls, u \in Tasks : task'[u].call = c => InHand(c)
  BY RpcAssumption, ChatAssumption DEF InHand
<1>2. \A c \in Calls, r \in Counts : queue'[c][r] > 0 => InHand(c)
  BY GivenBackInHand
<1> QED
  BY <1>1, <1>2, NoneComesBack

LEMMA QueueLeft ==
  ASSUME queue' = queue, \A u \in Tasks : task'[u].call \in {task[u].call, NULL}
  PROVE  OnlyLeave
BY RpcAssumption, ChatAssumption, NoneComesBack DEF InHand

\* The reply goes out while the request is in hand.
LEMMA PublishInService ==
  ASSUME ChatTypes, NEW t \in Tasks, Publish(t), task[t].call \in Calls
  PROVE  Agent!Answer(task[t].call)
<1> DEFINE c == task[t].call
<1>1. InHand(c)
  BY DEF InHand
<1>2. task'[t].call \in {c, NULL} /\ \A u \in Tasks \ {t} : task'[u] = task[u]
  BY WorkKeepsCall DEF Work
<1>3. ASSUME NEW d \in Calls, d # c PROVE InHand(d)' <=> InHand(d)
  <2>1. \A u \in Tasks : task'[u].call = d <=> task[u].call = d
    BY <1>2, <1>3, RpcAssumption, ChatAssumption
  <2>2. ASSUME NEW r \in Counts, queue' = Requeued({t}) PROVE queue'[d][r] = queue[d][r]
    <3>1. Held({t}, d, r) = {}
      BY <1>3 DEF Held
    <3>2. queue[d][r] + 0 = queue[d][r]
      BY DEF ChatTypes
    <3> QED
      BY <2>2, <3>1, <3>2, FS_EmptySet DEF Requeued
  <2> QED
    BY <2>1, <2>2 DEF InHand, Publish
<1>4. /\ \A d \in Calls \ {c} : said'[d] = said[d]
      /\ said[c] # {} => said'[c] # {}
      /\ sent' = sent
  BY DEF Publish, ChatTypes
<1> DEFINE before == {d \in Calls : InHand(d)}
           heard == {d \in Calls : said[d] # {}}
<1>5. c \in before /\ before' \in {before, before \ {c}}
  <2>1. before' \ {c} = before \ {c}
    BY <1>3
  <2> QED
    BY <1>1, <2>1
<1>6. heard' \in {heard, heard \cup {c}}
  BY <1>4
<1> QED
  BY <1>4, <1>5, <1>6 DEF Agent!Answer

LEMMA AgentSteps ==
  ASSUME Sound, Sound', Bounded, [Next]_vars
  PROVE  [Agent!Next]_(Agent!vars)
<1>1. RpcTypeOK /\ ChatTypes /\ ChatTypes' /\ RetriesBelow
  BY DEF Sound, Bounded, RetriesBelow
<1>2. ASSUME OnlyLeave, sent' = sent, said' = said PROVE Agent!Next
  BY <1>1, <1>2 DEF OnlyLeave, ChatTypes, Agent!Next, Agent!GiveUp
<1>3. ASSUME NEW c \in Calls, SendRpc(c) PROVE Agent!Next
  BY <1>1, <1>3, SendInService DEF Agent!Next
<1>4. ASSUME NEW t \in Tasks, Receive(t) PROVE Agent!Next
  <2>1. OnlyLeave
    BY <1>1, <1>4, TakenInService
  <2>2. sent' = sent /\ said' = said
    BY <1>4 DEF Receive
  <2> QED
    BY <1>2, <2>1, <2>2
<1>5. ASSUME NEW t \in Tasks, Work(t) PROVE Agent!Next
  <2>1. task[t].pc # "idle" => task[t].call \in Calls
    BY DEF Sound, TaskSound
  <2>2. CASE Publish(t)
    <3>1. task[t].call \in Calls
      BY <2>1, <2>2 DEF Publish
    <3>2. Agent!Answer(task[t].call)
      BY <1>1, <2>2, <3>1, PublishInService
    <3> QED
      BY <3>1, <3>2 DEF Agent!Next, Agent!Answer
  <2>3. CASE Retry(t)
    <3>1. task[t].call \in Calls
      BY <2>1, <2>3 DEF Retry
    <3>2. OnlyLeave
      BY <1>1, <2>3, <3>1, RetryInService
    <3>3. sent' = sent /\ said' = said
      BY <2>3 DEF Retry
    <3> QED
      BY <1>2, <3>2, <3>3
  <2>4. CASE ~Publish(t) /\ ~Retry(t)
    <3>1. queue' = queue /\ sent' = sent /\ said' = said
      BY <1>5, <2>4 DEF Work, Conclude, TemporaryError, AskCreate, AskPrefer, OfferCreated,
                        AskApproval, ApprovalRequested, PreferencesUpdated, Ack
    <3>2. \A u \in Tasks : task'[u].call \in {task[u].call, NULL}
      BY <1>1, <1>5, WorkKeepsCall
    <3>3. OnlyLeave
      BY <3>1, <3>2, QueueLeft
    <3> QED
      BY <1>2, <3>1, <3>3
  <2> QED
    BY <2>2, <2>3, <2>4
<1>6. ASSUME UNCHANGED chatVars PROVE Agent!Next
  <2>1. queue' = queue /\ task' = task /\ sent' = sent /\ said' = said
    BY <1>6 DEF chatVars, agentVars
  <2>2. OnlyLeave
    BY <2>1, QueueLeft
  <2> QED
    BY <1>2, <2>1, <2>2
<1>7. ASSUME Loss PROVE Agent!Next
  <2>1. CASE AgentStops \/ AgentDisconnected
    <3>1. queue' = Requeued(Tasks) /\ sent' = sent /\ said' = said
      BY <2>1 DEF AgentStops, AgentDisconnected
    <3>2. \A u \in Tasks : task'[u].call \in {task[u].call, NULL}
      BY <1>1, <2>1 DEF AgentStops, AgentDisconnected, Idle, ChatTypes, Task
    <3>3. OnlyLeave
      BY <1>1, <3>1, <3>2, GivenBackLeaves
    <3> QED
      BY <1>2, <3>1, <3>3
  <2>2. CASE BrokerStops
    <3>1. /\ queue' = [c \in Calls |-> [r \in Counts |-> 0]] /\ sent' = sent /\ said' = said
          /\ task' = [t \in Tasks |-> [task[t] EXCEPT !.held = FALSE]]
      BY <2>2 DEF BrokerStops
    <3>2. \A u \in Tasks : task'[u].call = task[u].call
      BY <1>1, <3>1 DEF ChatTypes, Task
    <3>3. \A c \in Calls, r \in Counts : ~(queue'[c][r] > 0)
      BY <3>1
    <3>4. OnlyLeave
      BY <3>2, <3>3, NoneComesBack DEF InHand
    <3> QED
      BY <1>2, <3>1, <3>4
  <2> QED
    BY <1>6, <1>7, <2>1, <2>2 DEF Loss
<1>8. CASE UNCHANGED vars
  BY <1>6, <1>8 DEF vars
<1> QED
  BY <1>3, <1>4, <1>5, <1>6, <1>7, <1>8 DEF Next

\* Losses, retries and restarts of whatever number leave the agent what its servers take it
\* for: it answers only requests it has, and one that has left does not come back
\* (broker/consumer.py:120-319).
THEOREM AgentKeepsService == Spec => Agent!Spec
<1>1. Init => Agent!Init
  <2> SUFFICES ASSUME Init PROVE Agent!Init
    OBVIOUS
  <2>1. \A c \in Calls : ~InHand(c)
    BY RpcAssumption, ChatAssumption DEF Init, InHand, Idle
  <2>2. \A c \in Calls : said[c] = {}
    BY DEF Init
  <2> QED
    BY <2>1, <2>2 DEF Init, Agent!Init
<1>2. Sound /\ Sound' /\ Bounded /\ [Next]_vars => [Agent!Next]_(Agent!vars)
  BY AgentSteps
<1> QED
  BY <1>1, <1>2, SoundAlways, BoundedAlways, PTL DEF Spec, Agent!Spec

\* A request that has left the agent, answered, dropped or lost, is not worked on and not
\* answered again, whatever is delivered late or twice; nothing is answered that nobody asked.
THEOREM RequestsLeaveForGood == Spec => []Agent!NothingUnasked /\ Agent!LeftForGood
<1>1. Agent!Init => Agent!NothingUnasked
  BY DEF Agent!Init, Agent!NothingUnasked
<1>2. Agent!NothingUnasked /\ [Agent!Next]_(Agent!vars) => Agent!NothingUnasked'
  <2> SUFFICES ASSUME Agent!NothingUnasked, [Agent!Next]_(Agent!vars) PROVE Agent!NothingUnasked'
    OBVIOUS
  <2> QED
    BY DEF Agent!NothingUnasked, Agent!Next, Agent!Make, Agent!Answer, Agent!GiveUp, Agent!vars
<1>3. [Agent!Next]_(Agent!vars) => [Agent!StaysAway]_(Agent!vars)
  BY DEF Agent!Next, Agent!Make, Agent!Answer, Agent!GiveUp, Agent!StaysAway
<1> QED
  BY <1>1, <1>2, <1>3, AgentKeepsService, PTL DEF Agent!Spec, Agent!LeftForGood

--------------------------------------------------------------------------------
(* The servers' side of the calls: AssistantCalls, for any callers, sessions *)
(* and deals.  The requests are those above; its agent may answer any of     *)
(* them as it likes, so that nothing here rests on what the agent does.      *)

\* What is asked stays what it was, a client asks in his own session, and only a text for
\* him is on its way to the chat.
Sane(g) ==
  /\ g.at # "idle" => g.actor \in Actors /\ g.kind \in Kinds
  /\ g.at # "idle" /\ g.kind = "chat" => g.about \in Sessions
  /\ g.at # "idle" /\ g.kind = "dialog" => g.about \in Deals
  /\ g.at \notin Over /\ g.kind = "chat" /\ Role[g.actor] = "user" =>
       Session[g.about].client = g.actor
  /\ g.at = "question" => g.kind = "chat"
  /\ g.at = "answer" => g.kind = "chat" /\ g.result = "text" /\ Role[g.actor] = "user"

CallsSane ==
  /\ \A c \in Requests : Sane(call[c])
  /\ \A c \in pending : call[c].at # "idle"

\* The reply queue of a call that uses it is on the connection that it will be deleted on.
QueueAtHand ==
  \A c \in Requests :
    queues[c] # None /\ call[c].at \in {"publish", "wait"} => queues[c] = call[c].link

\* An answer in the chat is that of a call that is over.
IsAnswer(s, line) ==
  LET c == line.of IN
  /\ c \in Requests /\ call[c].at = "done"
  /\ call[c].kind = "chat" /\ call[c].about = s /\ Session[s].client = call[c].actor
  /\ call[c].result = "text"

AnswersSaved ==
  /\ \A s \in Sessions : \A i \in DOMAIN chat[s] : chat[s][i].from = "ai" => IsAnswer(s, chat[s][i])
  /\ \A s \in Sessions : \A i, j \in DOMAIN chat[s] :
       chat[s][i].from = "ai" /\ chat[s][j] = chat[s][i] => i = j

Apart ==
  /\ CallsTypeOK /\ CallsSane /\ QueueAtHand /\ AnswersSaved
  /\ \A c \in Requests : \A m \in seen[c] : m.from # "ai"

LEMMA CallerInit == CallsInit => Apart
<1> SUFFICES ASSUME CallsInit PROVE Apart
  OBVIOUS
<1>1. Unmade \in Goroutines
  BY DEF Unmade, Goroutines
<1>2. [from |-> "manager", of |-> None] \in Lines
  BY DEF Lines
<1>3. CallsTypeOK
  BY <1>1, <1>2, CallsAssumption DEF CallsTypeOK, CallsInit
<1>4. CallsSane /\ QueueAtHand
  BY DEF CallsSane, Sane, QueueAtHand, CallsInit, Unmade, Over
<1>5. AnswersSaved
  BY DEF AnswersSaved, CallsInit
<1> QED
  BY <1>3, <1>4, <1>5 DEF Apart, CallsInit

\* Goroutines that end, or are not of this step, leave the answers what they are.
LEMMA AnswersStay ==
  ASSUME AnswersSaved, chat' = chat,
         \A d \in Requests : call[d].at = "done" =>
           /\ call'[d].at = "done" /\ call'[d].kind = call[d].kind /\ call'[d].about = call[d].about
           /\ call'[d].actor = call[d].actor /\ call'[d].result = call[d].result
  PROVE  AnswersSaved'
<1>1. ASSUME NEW s \in Sessions, NEW i \in DOMAIN chat[s], chat[s][i].from = "ai"
      PROVE  IsAnswer(s, chat[s][i])'
  BY <1>1 DEF AnswersSaved, IsAnswer
<1> QED
  BY <1>1 DEF AnswersSaved

\* One goroutine moves on.
LEMMA OneMoves ==
  ASSUME Apart, NEW c \in Requests, NEW g \in Goroutines,
         call' = [call EXCEPT ![c] = g], Sane(g), g.at # "idle", call[c].at # "done"
  PROVE  /\ call' \in [Requests -> Goroutines]
         /\ \A d \in Requests : Sane(call[d])'
         /\ \A d \in Requests : call[d].at # "idle" => call'[d].at # "idle"
         /\ chat' = chat => AnswersSaved'
<1>1. call \in [Requests -> Goroutines]
  BY DEF Apart, CallsTypeOK
<1>2. call'[c] = g /\ (\A d \in Requests : d # c => call'[d] = call[d])
  BY <1>1
<1>3. \A d \in Requests : Sane(call[d])'
  BY <1>2 DEF Apart, CallsSane, Sane
<1>4. \A d \in Requests : call[d].at = "done" =>
           /\ call'[d].at = "done" /\ call'[d].kind = call[d].kind /\ call'[d].about = call[d].about
           /\ call'[d].actor = call[d].actor /\ call'[d].result = call[d].result
  BY <1>2
<1>5. chat' = chat => AnswersSaved'
  BY <1>4, AnswersStay DEF Apart
<1> QED
  BY <1>1, <1>2, <1>3, <1>5

\* And leaves the channels, the chat and what others wait for alone.
LEMMA Moves ==
  ASSUME Apart, NEW c \in Requests, NEW g \in Goroutines,
         call' = [call EXCEPT ![c] = g], Sane(g), g.at # "idle", call[c].at # "done",
         link' = link, connOpen' = connOpen, chanOpen' = chanOpen, chat' = chat, seen' = seen,
         queues' \in [Requests -> connOpen \cup {None}],
         \A d \in Requests : d # c => queues'[d] = queues[d],
         queues'[c] \in chanOpen => g.at \in {"publish", "wait"},
         queues'[c] # None /\ g.at \in {"publish", "wait"} => queues'[c] = g.link,
         reply' \in [Requests -> Replies \cup {None}],
         pending' \subseteq pending \cup {c},
         audit' \in [Requests -> {"success", "failed", None}]
  PROVE  Apart'
<1>1. call \in [Requests -> Goroutines] /\ pending \subseteq Requests
  BY DEF Apart, CallsTypeOK
<1>2. call'[c] = g /\ (\A d \in Requests : d # c => call'[d] = call[d])
  BY <1>1
<1>3. /\ call' \in [Requests -> Goroutines]
      /\ \A d \in Requests : Sane(call[d])'
      /\ \A d \in Requests : call[d].at # "idle" => call'[d].at # "idle"
      /\ AnswersSaved'
  BY OneMoves
<1>4. \A d \in Requests : queues'[d] \in chanOpen' => call'[d].at \in {"publish", "wait"}
  BY <1>2 DEF Apart, CallsTypeOK
<1>5. CallsTypeOK'
  BY <1>1, <1>3, <1>4 DEF Apart, CallsTypeOK
<1>6. QueueAtHand'
  BY <1>2 DEF Apart, QueueAtHand
<1>7. CallsSane'
  BY <1>1, <1>2, <1>3 DEF Apart, CallsSane
<1> QED
  BY <1>3, <1>5, <1>6, <1>7 DEF Apart

LEMMA AskSteps ==
  ASSUME Apart, NEW c \in Requests, NEW a \in Actors,
         \/ \E s \in Sessions : Chat(c, a, s)
         \/ \E d \in Deals : AskDialog(c, a, d)
  PROVE  Apart'
<1>1. call[c].at = "idle"
  BY DEF Chat, AskDialog
<1>2. ASSUME NEW g \in Goroutines, Sane(g), call' = [call EXCEPT ![c] = g],
             g.at \in {"question", "connect", "done"},
             UNCHANGED <<link, brokerVars, tableVars, seen>>
      PROVE  Apart'
  <2>1. /\ queues \in [Requests -> connOpen \cup {None}] /\ queues[c] \notin chanOpen
        /\ reply \in [Requests -> Replies \cup {None}]
        /\ audit \in [Requests -> {"success", "failed", None}]
    BY <1>1 DEF Apart, CallsTypeOK
  <2>2. /\ link' = link /\ connOpen' = connOpen /\ chanOpen' = chanOpen /\ chat' = chat /\ seen' = seen
        /\ queues' = queues /\ reply' = reply /\ pending' = pending /\ audit' = audit
    BY <1>2 DEF brokerVars, tableVars
  <2> QED
    BY <1>1, <1>2, <2>1, <2>2, Moves
<1>3. ASSUME NEW s \in Sessions, Chat(c, a, s) PROVE Apart'
  <2>1. ASSUME MayAsk(a, s), NEW step \in {"question", "connect"},
               Begin(c, "chat", a, s, step)
        PROVE  Apart'
    <3> DEFINE g == [Unmade EXCEPT !.at = step, !.kind = "chat", !.actor = a, !.about = s]
    <3>1. g \in Goroutines
      BY <2>1 DEF Unmade, Goroutines, Kinds
    <3>2. Sane(g) /\ g.at = step
      BY <2>1 DEF Unmade, Sane, Kinds, MayAsk
    <3>3. call' = [call EXCEPT ![c] = g]
      BY <2>1 DEF Begin
    <3>4. UNCHANGED <<link, brokerVars, tableVars, seen>>
      BY <1>3 DEF Chat
    <3> HIDE DEF g
    <3> QED
      BY <1>2, <2>1, <3>1, <3>2, <3>3, <3>4
  <2>2. ASSUME RefuseCall(c, "chat", a, s) PROVE Apart'
    <3> DEFINE g == [Unmade EXCEPT !.at = "done", !.kind = "chat", !.actor = a, !.about = s, !.result = "failed"]
    <3>1. g \in Goroutines
      BY DEF Unmade, Goroutines, Kinds, Replies
    <3>2. Sane(g) /\ g.at = "done"
      BY DEF Unmade, Sane, Kinds, Over
    <3>3. call' = [call EXCEPT ![c] = g]
      BY <2>2 DEF RefuseCall
    <3>4. UNCHANGED <<link, brokerVars, tableVars, seen>>
      BY <1>3 DEF Chat
    <3> HIDE DEF g
    <3> QED
      BY <1>2, <3>1, <3>2, <3>3, <3>4
  <2> QED
    BY <1>3, <2>1, <2>2 DEF Chat
<1>4. ASSUME NEW d \in Deals, AskDialog(c, a, d) PROVE Apart'
  <2>1. ASSUME Begin(c, "dialog", a, d, "connect") PROVE Apart'
    <3> DEFINE g == [Unmade EXCEPT !.at = "connect", !.kind = "dialog", !.actor = a, !.about = d]
    <3>1. g \in Goroutines
      BY DEF Unmade, Goroutines, Kinds
    <3>2. Sane(g) /\ g.at = "connect"
      BY DEF Unmade, Sane, Kinds
    <3>3. call' = [call EXCEPT ![c] = g]
      BY <2>1 DEF Begin
    <3>4. UNCHANGED <<link, brokerVars, tableVars, seen>>
      BY <1>4 DEF AskDialog
    <3> HIDE DEF g
    <3> QED
      BY <1>2, <3>1, <3>2, <3>3, <3>4
  <2>2. ASSUME RefuseCall(c, "dialog", a, d) PROVE Apart'
    <3> DEFINE g == [Unmade EXCEPT !.at = "done", !.kind = "dialog", !.actor = a, !.about = d, !.result = "failed"]
    <3>1. g \in Goroutines
      BY DEF Unmade, Goroutines, Kinds, Replies
    <3>2. Sane(g) /\ g.at = "done"
      BY DEF Unmade, Sane, Kinds, Over
    <3>3. call' = [call EXCEPT ![c] = g]
      BY <2>2 DEF RefuseCall
    <3>4. UNCHANGED <<link, brokerVars, tableVars, seen>>
      BY <1>4 DEF AskDialog
    <3> HIDE DEF g
    <3> QED
      BY <1>2, <3>1, <3>2, <3>3, <3>4
  <2> QED
    BY <1>4, <2>1, <2>2 DEF AskDialog
<1> QED
  BY <1>3, <1>4

\* A goroutine at work has its record, and no queue it could have left behind.
LEMMA AtWork ==
  ASSUME Apart, NEW c \in Requests
  PROVE  /\ call[c] \in Goroutines /\ Sane(call[c])
         /\ queues \in [Requests -> connOpen \cup {None}]
         /\ reply \in [Requests -> Replies \cup {None}]
         /\ audit \in [Requests -> {"success", "failed", None}]
         /\ call[c].at \notin {"publish", "wait"} => queues[c] \notin chanOpen
         /\ queues[c] # None /\ call[c].at \in {"publish", "wait"} => queues[c] = call[c].link
BY DEF Apart, CallsTypeOK, CallsSane, QueueAtHand

\* A goroutine that takes a step that neither its queue nor its link is about.
LEMMA Advances ==
  ASSUME Apart, NEW c \in Requests, NEW g \in Goroutines,
         call' = [call EXCEPT ![c] = g], g = [call[c] EXCEPT !.at = g.at, !.gone = g.gone],
         call[c].at \notin Over, g.at # "idle", g.at \in {"question", "answer"} => Sane(g),
         \/ g.at = call[c].at
         \/ g.at \notin {"publish", "wait"} /\ call[c].at \notin {"publish", "wait"},
         audit' \in [Requests -> {"success", "failed", None}],
         UNCHANGED <<link, brokerVars, chat, seen>>
  PROVE  Apart'
<1>1. /\ call[c] \in Goroutines /\ Sane(call[c])
      /\ queues \in [Requests -> connOpen \cup {None}]
      /\ reply \in [Requests -> Replies \cup {None}]
      /\ call[c].at \notin {"publish", "wait"} => queues[c] \notin chanOpen
      /\ queues[c] # None /\ call[c].at \in {"publish", "wait"} => queues[c] = call[c].link
  BY AtWork
<1>2. /\ g.kind = call[c].kind /\ g.actor = call[c].actor /\ g.about = call[c].about
      /\ g.link = call[c].link /\ g.result = call[c].result
  BY <1>1 DEF Goroutines
<1>3. Sane(g)
  BY <1>1, <1>2 DEF Sane, Over
<1>4. /\ link' = link /\ connOpen' = connOpen /\ chanOpen' = chanOpen /\ chat' = chat /\ seen' = seen
      /\ queues' = queues /\ reply' = reply /\ pending' = pending
  BY DEF brokerVars
<1>5. queues[c] \in chanOpen => call[c].at \in {"publish", "wait"}
  BY <1>1
<1>6. call[c].at # "done"
  BY DEF Over
<1>7. queues'[c] \in chanOpen => g.at \in {"publish", "wait"}
  BY <1>4, <1>5
<1>8. queues'[c] # None /\ g.at \in {"publish", "wait"} => queues'[c] = g.link
  BY <1>1, <1>2, <1>4
<1> QED
  BY <1>1, <1>3, <1>4, <1>6, <1>7, <1>8, Moves

LEMMA HangUpApart ==
  ASSUME Apart, NEW c \in Requests, HangUp(c)
  PROVE  Apart'
<1> DEFINE g == [call[c] EXCEPT !.gone = TRUE]
<1>1. call[c] \in Goroutines /\ audit \in [Requests -> {"success", "failed", None}]
  BY AtWork
<1>2. g \in Goroutines /\ g.at = call[c].at /\ g.gone = TRUE
  BY <1>1 DEF Goroutines
<1>3. g = [call[c] EXCEPT !.at = g.at, !.gone = g.gone]
  BY <1>1, <1>2 DEF Goroutines
<1>4. call' = [call EXCEPT ![c] = g] /\ call[c].at \notin Over
  BY DEF HangUp
<1>5. g.at \in {"question", "answer"} => Sane(g)
  <2>1. Sane(call[c])
    BY AtWork
  <2>2. /\ g.kind = call[c].kind /\ g.actor = call[c].actor /\ g.about = call[c].about
        /\ g.at = call[c].at /\ g.result = call[c].result
    BY <1>1 DEF Goroutines
  <2> QED
    BY <2>1, <2>2 DEF Sane
<1>6. audit' = audit /\ UNCHANGED <<link, brokerVars, chat, seen>>
  BY DEF HangUp, tableVars
<1> HIDE DEF g
<1>7. g.at # "idle"
  BY <1>2, <1>4 DEF Over
<1> QED
  BY <1>1, <1>2, <1>3, <1>4, <1>5, <1>6, <1>7, Advances

LEMMA RecordApart ==
  ASSUME Apart, NEW c \in Requests, RecordAIAction(c)
  PROVE  Apart'
<1>1. call[c] \in Goroutines /\ Sane(call[c]) /\ audit \in [Requests -> {"success", "failed", None}]
  BY AtWork
<1>2. call[c].at = "audit"
  BY DEF RecordAIAction
<1>3. audit' \in [Requests -> {"success", "failed", None}]
  BY <1>1 DEF RecordAIAction
<1>4. ASSUME Published(c), Reach(c, "answer") PROVE Apart'
  <2> DEFINE g == [call[c] EXCEPT !.at = "answer"]
  <2>1. /\ g \in Goroutines /\ g.at = "answer" /\ g.gone = call[c].gone
        /\ g.kind = call[c].kind /\ g.actor = call[c].actor /\ g.about = call[c].about
        /\ g.result = call[c].result
    BY <1>1 DEF Goroutines
  <2>2. g = [call[c] EXCEPT !.at = g.at, !.gone = g.gone]
    BY <1>1, <2>1 DEF Goroutines
  <2>3. Sane(g)
    BY <1>1, <1>2, <1>4, <2>1 DEF Sane, Published, Over
  <2>4. call' = [call EXCEPT ![c] = g] /\ UNCHANGED <<link, brokerVars, chat, seen>>
    BY <1>4 DEF Reach, RecordAIAction
  <2> HIDE DEF g
  <2> QED
    BY <1>2, <1>3, <2>1, <2>2, <2>3, <2>4, Advances DEF Over
<1>5. ASSUME CloseCall(c) PROVE Apart'
  <2> DEFINE g == [call[c] EXCEPT !.at = "done", !.gone = FALSE]
  <2>1. g \in Goroutines /\ g.at = "done" /\ g.gone = FALSE
    BY <1>1 DEF Goroutines
  <2>2. g = [call[c] EXCEPT !.at = g.at, !.gone = g.gone]
    BY <1>1, <2>1 DEF Goroutines
  <2>4. call' = [call EXCEPT ![c] = g] /\ UNCHANGED <<link, brokerVars, chat, seen>>
    BY <1>5 DEF CloseCall, RecordAIAction
  <2> HIDE DEF g
  <2> QED
    BY <1>2, <1>3, <2>1, <2>2, <2>4, Advances DEF Over
<1> QED
  BY <1>4, <1>5 DEF RecordAIAction

\* The call returns, with its queue gone or out of reach.
LEMMA ReturnApart ==
  ASSUME Apart, NEW c \in Requests, NEW result \in Replies, Return(c, result),
         call[c].at \in {"declare", "publish", "wait"}, pending' = pending,
         UNCHANGED <<link, connOpen, chanOpen, tableVars, seen>>
  PROVE  Apart'
<1> DEFINE g == [call[c] EXCEPT !.at = "audit", !.link = None, !.result = result]
<1>1. /\ call[c] \in Goroutines /\ Sane(call[c])
      /\ queues \in [Requests -> connOpen \cup {None}]
      /\ reply \in [Requests -> Replies \cup {None}]
      /\ audit \in [Requests -> {"success", "failed", None}]
      /\ call[c].at \notin {"publish", "wait"} => queues[c] \notin chanOpen
      /\ queues[c] # None /\ call[c].at \in {"publish", "wait"} => queues[c] = call[c].link
  BY AtWork
<1>2. /\ g \in Goroutines /\ g.at = "audit"
      /\ g.kind = call[c].kind /\ g.actor = call[c].actor /\ g.about = call[c].about
  BY <1>1 DEF Goroutines
<1>3. Sane(g)
  BY <1>1, <1>2 DEF Sane, Over
<1>4. call' = [call EXCEPT ![c] = g]
  BY DEF Return, HoldResult
<1>5. /\ link' = link /\ connOpen' = connOpen /\ chanOpen' = chanOpen /\ chat' = chat /\ seen' = seen
      /\ audit' = audit
  BY DEF tableVars
<1>6. /\ queues' \in [Requests -> connOpen \cup {None}]
      /\ \A d \in Requests : d # c => queues'[d] = queues[d]
      /\ queues'[c] = IF call[c].link \in chanOpen THEN None ELSE queues[c]
  BY <1>1 DEF Return
<1>7. reply' \in [Requests -> Replies \cup {None}]
  BY <1>1 DEF Return, HoldResult
<1>8. queues'[c] \notin chanOpen
  <2>1. None \notin chanOpen
    BY CallsAssumption DEF Apart, CallsTypeOK
  <2> QED
    BY <1>1, <1>6, <2>1
<1> HIDE DEF g
<1> QED
  BY <1>1, <1>2, <1>3, <1>4, <1>5, <1>6, <1>7, <1>8, Moves

\* A goroutine that goes on with a link, a queue or a message of its own.
LEMMA DeclareApart ==
  ASSUME Apart, NEW c \in Requests, DeclareQueue(c)
  PROVE  Apart'
<1>1. /\ call[c].at = "declare"
      /\ link' = link /\ connOpen' = connOpen /\ chanOpen' = chanOpen /\ pending' = pending
      /\ chat' = chat /\ audit' = audit /\ seen' = seen
  BY DEF DeclareQueue, tableVars
<1>2. CASE Return(c, "failed")
  BY <1>1, <1>2, ReturnApart DEF Replies, tableVars
<1>3. CASE /\ call[c].link \in chanOpen /\ Reach(c, "publish") /\ reply' = reply
           /\ queues' = [queues EXCEPT ![c] = call[c].link]
  <2> DEFINE g == [call[c] EXCEPT !.at = "publish"]
  <2>1. /\ call[c] \in Goroutines /\ Sane(call[c])
        /\ queues \in [Requests -> connOpen \cup {None}]
        /\ reply \in [Requests -> Replies \cup {None}]
        /\ audit \in [Requests -> {"success", "failed", None}]
    BY AtWork
  <2>2. /\ g \in Goroutines /\ g.at = "publish" /\ g.link = call[c].link
        /\ g.kind = call[c].kind /\ g.actor = call[c].actor /\ g.about = call[c].about
    BY <2>1 DEF Goroutines
  <2>3. Sane(g)
    BY <1>1, <2>1, <2>2 DEF Sane, Over
  <2>4. call' = [call EXCEPT ![c] = g]
    BY <1>3 DEF Reach
  <2>5. call[c].link \in connOpen
    BY <1>3 DEF Apart, CallsTypeOK
  <2>6. /\ queues' \in [Requests -> connOpen \cup {None}]
        /\ \A d \in Requests : d # c => queues'[d] = queues[d]
        /\ queues'[c] = call[c].link
    BY <1>3, <2>1, <2>5
  <2> HIDE DEF g
  <2> QED
    BY <1>1, <1>3, <2>1, <2>2, <2>3, <2>4, <2>6, Moves
<1> QED
  BY <1>2, <1>3 DEF DeclareQueue

LEMMA PublishApart ==
  ASSUME Apart, NEW c \in Requests, PublishRequest(c)
  PROVE  Apart'
<1>1. /\ call[c].at = "publish"
      /\ link' = link /\ connOpen' = connOpen /\ chanOpen' = chanOpen
      /\ chat' = chat /\ audit' = audit /\ seen' = seen
  BY DEF PublishRequest, tableVars
<1>2. CASE Return(c, "failed") /\ pending' = pending
  BY <1>1, <1>2, ReturnApart DEF Replies, tableVars
<1>3. CASE /\ pending' = pending \cup {c} /\ Reach(c, "wait")
           /\ queues' = queues /\ reply' = reply
  <2> DEFINE g == [call[c] EXCEPT !.at = "wait"]
  <2>1. /\ call[c] \in Goroutines /\ Sane(call[c])
        /\ queues \in [Requests -> connOpen \cup {None}]
        /\ reply \in [Requests -> Replies \cup {None}]
        /\ audit \in [Requests -> {"success", "failed", None}]
        /\ queues[c] # None => queues[c] = call[c].link
    BY <1>1, AtWork
  <2>2. /\ g \in Goroutines /\ g.at = "wait" /\ g.link = call[c].link
        /\ g.kind = call[c].kind /\ g.actor = call[c].actor /\ g.about = call[c].about
    BY <2>1 DEF Goroutines
  <2>3. Sane(g)
    BY <1>1, <2>1, <2>2 DEF Sane, Over
  <2>4. call' = [call EXCEPT ![c] = g]
    BY <1>3 DEF Reach
  <2> HIDE DEF g
  <2> QED
    BY <1>1, <1>3, <2>1, <2>2, <2>3, <2>4, Moves
<1> QED
  BY <1>2, <1>3 DEF PublishRequest

LEMMA WaitApart ==
  ASSUME Apart, NEW c \in Requests, Wait(c)
  PROVE  Apart'
<1>1. /\ call[c].at = "wait" /\ pending' = pending
      /\ UNCHANGED <<link, connOpen, chanOpen, tableVars, seen>>
  BY DEF Wait
<1>2. ASSUME NEW r \in Replies, Return(c, r) PROVE Apart'
  BY <1>1, <1>2, ReturnApart
<1>3. "failed" \in Replies /\ (reply[c] # None => reply[c] \in Replies)
  BY AtWork DEF Replies
<1> QED
  BY <1>2, <1>3 DEF Wait

\* A new connection has a name that no queue and no channel has.
LEMMA DialledApart ==
  ASSUME Apart, NEW c \in Requests, NEW l \in Links \ connOpen,
         call[c].at = "connect",
         connOpen' = connOpen \cup {l}, chanOpen' = chanOpen \cup {l}, link' = l,
         call' = [call EXCEPT ![c].at = "declare", ![c].link = l],
         UNCHANGED <<queues, reply, pending, tableVars, seen>>
  PROVE  Apart'
<1> DEFINE g == [call[c] EXCEPT !.at = "declare", !.link = l]
<1>1. /\ call[c] \in Goroutines /\ Sane(call[c])
      /\ queues \in [Requests -> connOpen \cup {None}]
      /\ queues[c] \notin chanOpen
  BY AtWork
<1>2. call \in [Requests -> Goroutines] /\ chanOpen \subseteq connOpen /\ connOpen \subseteq Links
  BY DEF Apart, CallsTypeOK
<1>3. /\ g \in Goroutines /\ g.at = "declare" /\ g.link = l
      /\ g.kind = call[c].kind /\ g.actor = call[c].actor /\ g.about = call[c].about
  BY <1>1 DEF Goroutines
<1>4. Sane(g)
  BY <1>1, <1>3 DEF Sane, Over
<1>5. call' = [call EXCEPT ![c] = g]
  OBVIOUS
<1> HIDE DEF g
<1>6. chat' = chat /\ audit' = audit /\ seen' = seen /\ queues' = queues /\ reply' = reply /\ pending' = pending
  BY DEF tableVars
<1>7. /\ call' \in [Requests -> Goroutines]
      /\ \A d \in Requests : Sane(call[d])'
      /\ \A d \in Requests : call[d].at # "idle" => call'[d].at # "idle"
      /\ AnswersSaved'
  <2>1. g \in Goroutines /\ g.at # "idle" /\ call[c].at # "done"
    BY <1>3
  <2>2. chat' = chat
    BY <1>6
  <2> QED
    BY <1>4, <1>5, <2>1, <2>2, OneMoves
<1>8. \A d \in Requests : d # c => call'[d] = call[d]
  BY <1>2, <1>5
<1>9. call'[c].at = "declare"
  BY <1>2, <1>3, <1>5
<1>10. \A d \in Requests : queues[d] # l
  BY <1>1, CallsAssumption
<1>11. \A d \in Requests : queues'[d] \in chanOpen' => call'[d].at \in {"publish", "wait"}
  BY <1>1, <1>6, <1>8, <1>10 DEF Apart, CallsTypeOK
<1>12. queues' \in [Requests -> connOpen' \cup {None}]
  BY <1>1, <1>6
<1>13. CallsTypeOK'
  BY <1>2, <1>6, <1>7, <1>11, <1>12 DEF Apart, CallsTypeOK
<1>14. QueueAtHand'
  BY <1>6, <1>8, <1>9 DEF Apart, QueueAtHand
<1>15. CallsSane'
  BY <1>6, <1>7 DEF Apart, CallsSane, CallsTypeOK
<1> QED
  BY <1>6, <1>7, <1>13, <1>14, <1>15 DEF Apart

LEMMA EnsureApart ==
  ASSUME Apart, NEW c \in Requests, EnsureConnection(c)
  PROVE  Apart'
<1>1. /\ call[c].at = "connect" /\ UNCHANGED <<queues, reply, pending, tableVars, seen>>
      /\ chat' = chat /\ audit' = audit
  BY DEF EnsureConnection, tableVars
<1>2. /\ call[c] \in Goroutines /\ Sane(call[c])
      /\ queues \in [Requests -> connOpen \cup {None}]
      /\ reply \in [Requests -> Replies \cup {None}]
      /\ audit \in [Requests -> {"success", "failed", None}]
      /\ queues[c] \notin chanOpen
  BY <1>1, AtWork
<1>3. ASSUME NEW g \in Goroutines, call' = [call EXCEPT ![c] = g],
             g.at \in {"declare", "audit"},
             g.kind = call[c].kind, g.actor = call[c].actor, g.about = call[c].about,
             UNCHANGED <<link, connOpen, chanOpen>>
      PROVE  Apart'
  <2>1. Sane(g)
    BY <1>1, <1>2, <1>3 DEF Sane, Over
  <2> QED
    BY <1>1, <1>2, <1>3, <2>1, Moves
<1>4. CASE /\ link \in chanOpen
           /\ call' = [call EXCEPT ![c].at = "declare", ![c].link = link]
           /\ UNCHANGED <<link, connOpen, chanOpen>>
  <2> DEFINE g == [call[c] EXCEPT !.at = "declare", !.link = link]
  <2>1. link \in Links
    BY <1>4 DEF Apart, CallsTypeOK
  <2>2. /\ g \in Goroutines /\ g.at = "declare"
        /\ g.kind = call[c].kind /\ g.actor = call[c].actor /\ g.about = call[c].about
    BY <1>2, <2>1 DEF Goroutines
  <2>3. call' = [call EXCEPT ![c] = g]
    BY <1>4
  <2> HIDE DEF g
  <2> QED
    BY <1>3, <1>4, <2>2, <2>3
<1>5. CASE /\ call' = [call EXCEPT ![c].at = "audit", ![c].result = "failed"]
           /\ UNCHANGED <<link, connOpen, chanOpen>>
  <2> DEFINE g == [call[c] EXCEPT !.at = "audit", !.result = "failed"]
  <2>1. /\ g \in Goroutines /\ g.at = "audit"
        /\ g.kind = call[c].kind /\ g.actor = call[c].actor /\ g.about = call[c].about
    BY <1>2 DEF Goroutines, Replies
  <2>2. call' = [call EXCEPT ![c] = g]
    BY <1>5
  <2> HIDE DEF g
  <2> QED
    BY <1>3, <1>5, <2>1, <2>2
<1>6. ASSUME Links \ connOpen # {},
             LET l == CHOOSE l \in Links \ connOpen : TRUE IN
             /\ connOpen' = connOpen \cup {l} /\ chanOpen' = chanOpen \cup {l}
             /\ link' = l
             /\ call' = [call EXCEPT ![c].at = "declare", ![c].link = l]
      PROVE  Apart'
  <2> DEFINE l == CHOOSE l \in Links \ connOpen : TRUE
  <2>1. l \in Links \ connOpen
    BY <1>6
  <2>2. /\ connOpen' = connOpen \cup {l} /\ chanOpen' = chanOpen \cup {l} /\ link' = l
        /\ call' = [call EXCEPT ![c].at = "declare", ![c].link = l]
    BY <1>6
  <2> HIDE DEF l
  <2> QED
    BY <1>1, <2>1, <2>2, DialledApart
<1> QED
  BY <1>4, <1>5, <1>6 DEF EnsureConnection

LEMMA LineAdded ==
  ASSUME chat \in [Sessions -> Seq(Lines)], NEW s \in Sessions, NEW line \in Lines,
         chat' = [chat EXCEPT ![s] = Append(@, line)]
  PROVE  /\ chat' \in [Sessions -> Seq(Lines)]
         /\ \A r \in Sessions : \A i \in DOMAIN chat'[r] :
              \/ i \in DOMAIN chat[r] /\ chat'[r][i] = chat[r][i]
              \/ r = s /\ i = Len(chat[s]) + 1 /\ chat'[r][i] = line
<1>1. \A r \in Sessions : chat[r] \in Seq(Lines)
  OBVIOUS
<1>2. chat'[s] = Append(chat[s], line) /\ (\A r \in Sessions : r # s => chat'[r] = chat[r])
  OBVIOUS
<1>3. /\ Append(chat[s], line) \in Seq(Lines)
      /\ \A i \in DOMAIN Append(chat[s], line) :
           \/ i \in DOMAIN chat[s] /\ Append(chat[s], line)[i] = chat[s][i]
           \/ i = Len(chat[s]) + 1 /\ Append(chat[s], line)[i] = line
  BY <1>1
<1>4. \A r \in Sessions : \A i \in DOMAIN chat'[r] :
        \/ i \in DOMAIN chat[r] /\ chat'[r][i] = chat[r][i]
        \/ r = s /\ i = Len(chat[s]) + 1 /\ chat'[r][i] = line
  BY <1>2, <1>3
<1>5. chat' \in [Sessions -> Seq(Lines)]
  BY <1>3
<1> QED
  BY <1>4, <1>5

\* The goroutine saves a line, or fails to, and goes on.
LEMMA SaysApart ==
  ASSUME Apart, NEW c \in Requests, NEW g \in Goroutines,
         call' = [call EXCEPT ![c] = g], Sane(g), g.at \in {"connect", "done"},
         call[c].at \in {"question", "answer"},
         NEW s \in Sessions, NEW from \in {"client", "ai"},
         \/ chat' = [chat EXCEPT ![s] = Append(@, [from |-> from, of |-> c])]
         \/ chat' = chat,
         from = "ai" =>
           /\ g.at = "done" /\ g.kind = "chat" /\ g.about = s /\ Session[s].client = g.actor
           /\ g.result = "text",
         UNCHANGED <<link, brokerVars, audit, seen>>
  PROVE  Apart'
<1>1. /\ queues \in [Requests -> connOpen \cup {None}] /\ queues[c] \notin chanOpen
      /\ reply \in [Requests -> Replies \cup {None}]
      /\ audit \in [Requests -> {"success", "failed", None}]
  BY AtWork
<1>2. /\ link' = link /\ connOpen' = connOpen /\ chanOpen' = chanOpen /\ seen' = seen
      /\ queues' = queues /\ reply' = reply /\ pending' = pending /\ audit' = audit
  BY DEF brokerVars
<1>3. call \in [Requests -> Goroutines] /\ chat \in [Sessions -> Seq(Lines)] /\ AnswersSaved
  BY DEF Apart, CallsTypeOK
<1>4. call'[c] = g /\ (\A d \in Requests : d # c => call'[d] = call[d])
  BY <1>3
<1>5. /\ call' \in [Requests -> Goroutines]
      /\ \A d \in Requests : Sane(call[d])'
      /\ \A d \in Requests : call[d].at # "idle" => call'[d].at # "idle"
      /\ chat' = chat => AnswersSaved'
  BY OneMoves
<1>6. chat' \in [Sessions -> Seq(Lines)] /\ AnswersSaved'
  <2> DEFINE line == [from |-> from, of |-> c]
  <2>1. CASE chat' = chat
    BY <1>3, <1>5, <2>1
  <2>2. ASSUME chat' = [chat EXCEPT ![s] = Append(@, line)]
        PROVE  chat' \in [Sessions -> Seq(Lines)] /\ AnswersSaved'
    <3>1. line \in Lines /\ line.from = from /\ line.of = c
      BY DEF Lines
    <3> HIDE DEF line
    <3>2. /\ chat' \in [Sessions -> Seq(Lines)]
          /\ \A r \in Sessions : \A i \in DOMAIN chat'[r] :
               \/ i \in DOMAIN chat[r] /\ chat'[r][i] = chat[r][i]
               \/ r = s /\ i = Len(chat[s]) + 1 /\ chat'[r][i] = line
      BY <1>3, <2>2, <3>1, LineAdded
    \* The goroutine was at work, so no answer in the chat is its own.
    <3>3. ASSUME NEW r \in Sessions, NEW x \in Lines, IsAnswer(r, x)
          PROVE  x # line /\ IsAnswer(r, x)'
      <4>1. x.of \in Requests /\ x.of # c
        BY <3>3 DEF IsAnswer
      <4>2. call'[x.of] = call[x.of]
        BY <1>4, <4>1
      <4> QED
        BY <3>1, <3>3, <4>1, <4>2 DEF IsAnswer
    <3>4. from = "ai" => IsAnswer(s, line)'
      BY <1>4, <3>1 DEF IsAnswer
    <3>5. ASSUME NEW r \in Sessions, NEW x \in Lines, x.from = "ai",
                 NEW i \in DOMAIN chat[r], chat[r][i] = x
          PROVE  IsAnswer(r, x)
      BY <1>3, <3>5 DEF AnswersSaved
    <3>6. ASSUME NEW r \in Sessions, NEW x \in Lines, x.from = "ai",
                 NEW i \in DOMAIN chat'[r], chat'[r][i] = x
          PROVE  IsAnswer(r, x)'
      <4>1. CASE i \in DOMAIN chat[r] /\ chat[r][i] = x
        BY <3>3, <3>5, <3>6, <4>1
      <4>2. CASE r = s /\ x = line
        BY <3>1, <3>4, <3>6, <4>2
      <4> QED
        BY <3>2, <3>6, <4>1, <4>2
    <3>7. ASSUME NEW r \in Sessions, NEW x \in Lines, x.from = "ai",
                 NEW i \in DOMAIN chat'[r], NEW j \in DOMAIN chat'[r],
                 chat'[r][i] = x, chat'[r][j] = x
          PROVE  i = j
      <4>1. CASE x = line
        <5>1. \A k \in DOMAIN chat[r] : chat[r][k] # x
          BY <3>3, <3>5, <3>7, <4>1
        <5> QED
          BY <3>2, <3>7, <5>1
      <4>2. CASE x # line
        <5>1. /\ i \in DOMAIN chat[r] /\ chat[r][i] = x
              /\ j \in DOMAIN chat[r] /\ chat[r][j] = x
          BY <3>2, <3>7, <4>2
        <5> QED
          BY <1>3, <3>7, <5>1 DEF AnswersSaved
      <4> QED
        BY <4>1, <4>2
    <3>8. \A r \in Sessions : \A i \in DOMAIN chat'[r] : chat'[r][i] \in Lines
      BY <3>2
    <3>9. \A r \in Sessions : \A i \in DOMAIN chat'[r] : chat'[r][i].from = "ai" =>
            LET d == chat'[r][i].of IN
            /\ d \in Requests /\ call'[d].at = "done"
            /\ call'[d].kind = "chat" /\ call'[d].about = r /\ Session[r].client = call'[d].actor
            /\ call'[d].result = "text"
      BY <3>6, <3>8 DEF IsAnswer
    <3>10. AnswersSaved'
      BY <3>7, <3>8, <3>9 DEF AnswersSaved, IsAnswer
    <3> QED
      BY <3>2, <3>10
  <2> QED
    BY <2>1, <2>2
<1>7. \A d \in Requests : queues[d] \in chanOpen => call'[d].at \in {"publish", "wait"}
  BY <1>1, <1>4 DEF Apart, CallsTypeOK
<1>8. CallsTypeOK'
  BY <1>2, <1>5, <1>6, <1>7 DEF Apart, CallsTypeOK
<1>9. QueueAtHand' /\ CallsSane'
  BY <1>2, <1>4, <1>5 DEF Apart, QueueAtHand, CallsSane, CallsTypeOK
<1> QED
  BY <1>2, <1>6, <1>8, <1>9 DEF Apart

LEMMA SaveApart ==
  ASSUME Apart, NEW c \in Requests,
         SaveQuestion(c) \/ SaveAnswer(c)
  PROVE  Apart'
<1>1. call[c] \in Goroutines /\ Sane(call[c])
  BY AtWork
<1>2. CASE SaveQuestion(c)
  <2> DEFINE g == [call[c] EXCEPT !.at = "connect"]
  <2>1. call[c].at = "question" /\ UNCHANGED <<link, brokerVars, audit, seen>>
    BY <1>2 DEF SaveQuestion
  <2>2. /\ g \in Goroutines /\ g.at = "connect"
        /\ g.kind = call[c].kind /\ g.actor = call[c].actor /\ g.about = call[c].about
    BY <1>1 DEF Goroutines
  <2>3. Sane(g)
    BY <1>1, <2>1, <2>2 DEF Sane, Over
  <2>4. call' = [call EXCEPT ![c] = g]
    BY <1>2 DEF SaveQuestion, Reach
  <2>5. \/ chat' = [chat EXCEPT ![call[c].about] = Append(@, [from |-> "client", of |-> c])]
        \/ chat' = chat
    BY <1>2 DEF SaveQuestion, SaveMessage
  <2>6. call[c].about \in Sessions
    BY <1>1, <2>1 DEF Sane
  <2> HIDE DEF g
  <2> QED
    BY <2>1, <2>2, <2>3, <2>4, <2>5, <2>6, SaysApart
<1>3. CASE SaveAnswer(c)
  <2> DEFINE g == [call[c] EXCEPT !.at = "done", !.gone = FALSE]
  <2>1. call[c].at = "answer" /\ UNCHANGED <<link, brokerVars, audit, seen>>
    BY <1>3 DEF SaveAnswer
  <2>2. /\ g \in Goroutines /\ g.at = "done" /\ g.result = call[c].result
        /\ g.kind = call[c].kind /\ g.actor = call[c].actor /\ g.about = call[c].about
    BY <1>1 DEF Goroutines
  <2>3. Sane(g)
    BY <1>1, <2>1, <2>2 DEF Sane, Over
  <2>4. call' = [call EXCEPT ![c] = g]
    BY <1>3 DEF SaveAnswer, CloseCall
  <2>5. \/ chat' = [chat EXCEPT ![call[c].about] = Append(@, [from |-> "ai", of |-> c])]
        \/ chat' = chat
    BY <1>3 DEF SaveAnswer, SaveMessage
  <2>6. /\ call[c].kind = "chat" /\ call[c].result = "text" /\ call[c].about \in Sessions
        /\ Session[call[c].about].client = call[c].actor
    BY <1>1, <2>1 DEF Sane, Over
  <2>7. call[c].at \in {"question", "answer"} /\ g.at \in {"connect", "done"}
    BY <2>1, <2>2
  <2>8. /\ g.kind = "chat" /\ g.about = call[c].about /\ Session[call[c].about].client = g.actor
        /\ g.result = "text" /\ call[c].about \in Sessions
    BY <2>2, <2>6
  <2> HIDE DEF g
  <2> QED
    BY <2>1, <2>2, <2>3, <2>4, <2>5, <2>7, <2>8, SaysApart
<1> QED
  BY <1>2, <1>3

\* A step of the agent or the broker on the way, which leaves the goroutines and the chat alone.
LEMMA OthersApart ==
  ASSUME Apart, call' = call, chat' = chat, link' = link, connOpen' = connOpen, audit' = audit,
         queues' = queues, chanOpen' \subseteq chanOpen, pending' \subseteq pending,
         reply' \in [Requests -> Replies \cup {None}],
         seen' \in [Requests -> SUBSET Lines],
         \A c \in Requests : \A m \in seen'[c] : m.from # "ai"
  PROVE  Apart'
<1>1. CallsTypeOK'
  BY DEF Apart, CallsTypeOK
<1>2. AnswersSaved'
  BY AnswersStay DEF Apart
<1>3. QueueAtHand' /\ CallsSane'
  BY DEF Apart, QueueAtHand, CallsSane, Sane
<1> QED
  BY <1>1, <1>2, <1>3 DEF Apart

LEMMA AgentApart ==
  ASSUME Apart, NEW c \in Requests,
         \/ GetDealMessages(c)
         \/ \E r \in Replies : AgentReplies(c, r)
         \/ AgentGivesUp(c)
  PROVE  Apart'
<1>1. /\ reply \in [Requests -> Replies \cup {None}]
      /\ seen \in [Requests -> SUBSET Lines]
      /\ \A d \in Requests : \A m \in seen[d] : m.from # "ai"
      /\ chat \in [Sessions -> Seq(Lines)]
  BY DEF Apart, CallsTypeOK
<1>2. CASE GetDealMessages(c)
  <2> DEFINE s == Deal[call[c].about].session
             given == IF s = None THEN {} ELSE {chat[s][i] : i \in Newest(s)}
  <2>1. /\ seen' = [seen EXCEPT ![c] = given] /\ c \in pending /\ call[c].kind # "chat"
        /\ link' = link /\ connOpen' = connOpen /\ chanOpen' = chanOpen /\ chat' = chat
        /\ audit' = audit /\ call' = call
        /\ queues' = queues /\ reply' = reply /\ pending' = pending
    BY <1>2 DEF GetDealMessages, brokerVars, tableVars
  <2>2. s \in Sessions \cup {None}
    <3>1. call[c].kind = "dialog" /\ call[c].about \in Deals
      BY <2>1 DEF Apart, CallsSane, Sane, Kinds
    <3> QED
      BY <3>1, CallsAssumption
  <2>3. ASSUME s # None, NEW i \in Newest(s)
        PROVE  chat[s][i] \in Lines /\ chat[s][i].from # "ai"
    <3>1. i \in DOMAIN chat[s] /\ chat[s][i].from \in {"client", "manager"}
      BY <2>3 DEF Newest, Talk
    <3>2. chat[s] \in Seq(Lines)
      BY <1>1, <2>2, <2>3
    <3> QED
      BY <3>1, <3>2
  <2>4. given \subseteq Lines /\ (\A m \in given : m.from # "ai")
    BY <2>3
  <2> HIDE DEF given
  <2> QED
    BY <1>1, <2>1, <2>4, OthersApart
<1>3. ASSUME NEW r \in Replies, AgentReplies(c, r) PROVE Apart'
  <2>1. /\ link' = link /\ connOpen' = connOpen /\ chanOpen' = chanOpen /\ chat' = chat
        /\ audit' = audit /\ call' = call /\ queues' = queues /\ seen' = seen
        /\ pending' \subseteq pending
    BY <1>3 DEF AgentReplies, tableVars
  <2>2. reply' \in [Requests -> Replies \cup {None}]
    BY <1>1, <1>3 DEF AgentReplies
  <2> QED
    BY <1>1, <2>1, <2>2, OthersApart
<1>4. CASE AgentGivesUp(c)
  <2>1. /\ link' = link /\ connOpen' = connOpen /\ chanOpen' = chanOpen /\ chat' = chat
        /\ audit' = audit /\ call' = call /\ queues' = queues /\ seen' = seen /\ reply' = reply
        /\ pending' \subseteq pending
    BY <1>4 DEF AgentGivesUp, tableVars
  <2> QED
    BY <1>1, <2>1, OthersApart
<1> QED
  BY <1>2, <1>3, <1>4

\* The channel fails, the broker stops, the server stops.
LEMMA StopsApart ==
  ASSUME Apart,
         \/ \E l \in Links : ChannelFails(l)
         \/ ConnectionsLost
         \/ ServerStops
  PROVE  Apart'
<1>1. /\ reply \in [Requests -> Replies \cup {None}]
      /\ seen \in [Requests -> SUBSET Lines]
      /\ \A c \in Requests : \A m \in seen[c] : m.from # "ai"
      /\ call \in [Requests -> Goroutines]
      /\ pending \subseteq Requests
  BY DEF Apart, CallsTypeOK
<1>2. ASSUME NEW l \in Links, ChannelFails(l) PROVE Apart'
  <2>1. /\ link' = link /\ connOpen' = connOpen /\ chat' = chat
        /\ audit' = audit /\ call' = call /\ queues' = queues /\ seen' = seen /\ reply' = reply
        /\ chanOpen' \subseteq chanOpen /\ pending' = pending
    BY <1>2 DEF ChannelFails, tableVars
  <2> QED
    BY <1>1, <2>1, OthersApart
\* No channel is left, and every goroutine is what it was or is dead.
<1>3. ASSUME connOpen' = {}, chanOpen' = {}, queues' = [c \in Requests |-> None],
             link' \in Links \cup {None}, reply' \in [Requests -> Replies \cup {None}],
             pending' \subseteq pending, chat' = chat, audit' = audit, seen' = seen,
             call' \in [Requests -> Goroutines],
             \A c \in Requests :
               /\ call'[c].kind = call[c].kind /\ call'[c].actor = call[c].actor
               /\ call'[c].about = call[c].about
               /\ \/ call'[c].at = call[c].at /\ call'[c].result = call[c].result
                  \/ call[c].at \notin Over /\ call'[c].at = "dead"
      PROVE  Apart'
  <2>1. CallsTypeOK'
    <3>1. queues' \in [Requests -> connOpen' \cup {None}]
      BY <1>3
    <3>2. \A c \in Requests : queues'[c] \notin chanOpen'
      BY <1>3
    <3> QED
      BY <1>1, <1>3, <3>1, <3>2 DEF Apart, CallsTypeOK
  <2>2. AnswersSaved'
    <3>1. \A d \in Requests : call[d].at = "done" => call'[d].at = "done" /\ call'[d].result = call[d].result
      BY <1>3 DEF Over
    <3> QED
      BY <1>3, <3>1, AnswersStay DEF Apart
  <2>3. \A c \in Requests : Sane(call[c])'
    BY <1>3 DEF Apart, CallsSane, Sane, Over
  <2>4. CallsSane'
    BY <1>1, <1>3, <2>3 DEF Apart, CallsSane, Over
  <2>5. QueueAtHand'
    BY <1>3 DEF QueueAtHand
  <2> QED
    BY <1>1, <1>3, <2>1, <2>2, <2>4, <2>5 DEF Apart
<1>4. CASE ConnectionsLost
  <2>1. /\ connOpen' = {} /\ chanOpen' = {} /\ queues' = [c \in Requests |-> None]
        /\ link' = link /\ reply' = reply /\ chat' = chat /\ audit' = audit /\ seen' = seen
        /\ pending' \subseteq pending
        /\ call' = [c \in Requests |-> [call[c] EXCEPT !.link = None]]
    BY <1>4 DEF ConnectionsLost, tableVars
  <2>2. ASSUME NEW c \in Requests
        PROVE  /\ call'[c] \in Goroutines /\ call'[c].at = call[c].at
               /\ call'[c].kind = call[c].kind /\ call'[c].actor = call[c].actor
               /\ call'[c].about = call[c].about /\ call'[c].result = call[c].result
    <3>1. call[c] \in Goroutines /\ call'[c] = [call[c] EXCEPT !.link = None]
      BY <1>1, <2>1
    <3> QED
      BY <3>1 DEF Goroutines
  <2>3. call' \in [Requests -> Goroutines] /\ link' \in Links \cup {None}
    BY <2>1, <2>2 DEF Apart, CallsTypeOK
  <2> QED
    BY <1>1, <1>3, <2>1, <2>2, <2>3
<1>5. CASE ServerStops
  <2>1. /\ connOpen' = {} /\ chanOpen' = {} /\ queues' = [c \in Requests |-> None]
        /\ link' = None /\ chat' = chat /\ audit' = audit /\ seen' = seen /\ pending' = pending
        /\ reply' \in [Requests -> Replies \cup {None}]
        /\ call' = [c \in Requests |-> IF call[c].at \in Over THEN call[c] ELSE
                     [call[c] EXCEPT !.at = "dead", !.link = None, !.gone = FALSE, !.result = None]]
    BY <1>5 DEF ServerStops, tableVars
  <2>2. ASSUME NEW c \in Requests
        PROVE  /\ call'[c] \in Goroutines
               /\ call'[c].kind = call[c].kind /\ call'[c].actor = call[c].actor
               /\ call'[c].about = call[c].about
               /\ \/ call'[c].at = call[c].at /\ call'[c].result = call[c].result
                  \/ call[c].at \notin Over /\ call'[c].at = "dead"
    <3>1. /\ call[c] \in Goroutines
          /\ call'[c] = IF call[c].at \in Over THEN call[c] ELSE
                          [call[c] EXCEPT !.at = "dead", !.link = None, !.gone = FALSE, !.result = None]
      BY <1>1, <2>1
    <3>2. CASE call[c].at \in Over
      BY <3>1, <3>2
    <3>3. CASE call[c].at \notin Over
      <4>1. call'[c] = [call[c] EXCEPT !.at = "dead", !.link = None, !.gone = FALSE, !.result = None]
        BY <3>1, <3>3
      <4>2. call'[c] \in Goroutines
        BY <3>1, <4>1 DEF Goroutines
      <4>3. /\ call'[c].kind = call[c].kind /\ call'[c].actor = call[c].actor
            /\ call'[c].about = call[c].about /\ call'[c].at = "dead"
        BY <3>1, <4>1 DEF Goroutines
      <4> QED
        BY <3>3, <4>2, <4>3
    <3> QED
      BY <3>2, <3>3
  <2>3. call' \in [Requests -> Goroutines]
    BY <2>1, <2>2
  <2> QED
    BY <1>3, <2>1, <2>2, <2>3
<1> QED
  BY <1>2, <1>4, <1>5

LEMMA CallerNext == Apart /\ [CallsNext]_callsVars => Apart'
<1> SUFFICES ASSUME Apart, [CallsNext]_callsVars PROVE Apart'
  OBVIOUS
<1>1. CASE UNCHANGED callsVars
  <2>1. /\ link' = link /\ connOpen' = connOpen /\ chanOpen' = chanOpen /\ chat' = chat
        /\ audit' = audit /\ call' = call /\ queues' = queues /\ seen' = seen /\ reply' = reply
        /\ pending' = pending
    BY <1>1 DEF callsVars, brokerVars, tableVars
  <2> QED
    BY <2>1, OthersApart DEF Apart, CallsTypeOK
<1>2. ASSUME NEW c \in Requests, NEW a \in CallersOf[c],
             (\E s \in Sessions : Chat(c, a, s)) \/ (\E d \in Deals : AskDialog(c, a, d))
      PROVE  Apart'
  BY <1>2, AskSteps, CallsAssumption
<1>3. ASSUME NEW c \in Requests, Proceed(c) PROVE Apart'
  BY <1>3, SaveApart, EnsureApart, DeclareApart, PublishApart, WaitApart, RecordApart DEF Proceed
<1>4. ASSUME NEW c \in Requests,
             \/ GetDealMessages(c)
             \/ \E r \in Replies : AgentReplies(c, r)
             \/ AgentGivesUp(c)
      PROVE  Apart'
  BY <1>4, AgentApart
<1>5. ASSUME NEW c \in Requests, HangUp(c) PROVE Apart'
  BY <1>5, HangUpApart
<1>6. ASSUME \/ \E l \in Links : ChannelFails(l)
             \/ ConnectionsLost
             \/ ServerStops
      PROVE  Apart'
  BY <1>6, StopsApart
<1> QED
  BY <1>1, <1>2, <1>3, <1>4, <1>5, <1>6 DEF CallsNext

LEMMA ApartImplies == Apart /\ QuestionThenAnswer => CallsTypeOK /\ AssistantStaysApart
<1> SUFFICES ASSUME Apart, QuestionThenAnswer PROVE AssistantStaysApart
  BY DEF Apart
<1>1. AnswersSaved /\ (\A c \in Requests : \A m \in seen[c] : m.from # "ai")
  BY DEF Apart
<1> QED
  BY <1>1 DEF AnswersSaved, IsAnswer, AssistantStaysApart

LEMMA ApartAlways == CallsSpec => []Apart
<1>1. CallsInit => Apart
  BY CallerInit
<1>2. Apart /\ [CallsNext]_callsVars => Apart'
  BY CallerNext
<1> QED
  BY <1>1, <1>2, PTL DEF CallsSpec

--------------------------------------------------------------------------------
(* What a call leaves behind: its rows in the chat and the audit.            *)

\* An audit row says how its call ended.
AuditTrue ==
  \A c \in Requests : audit[c] # None =>
    /\ call[c].at \in {"answer", "done", "dead"}
    /\ call[c].at # "dead" => (audit[c] = "success" <=> Answered(c))

\* A line of a call is in the session that the call is about, and no question is anyone else's.
LinesPlaced ==
  \A s \in Sessions : \A i \in DOMAIN chat[s] :
    /\ chat[s][i].from = "client" => chat[s][i].of \in Requests
    /\ chat[s][i].of \in Requests =>
         /\ call[chat[s][i].of].at \notin {"idle", "question"}
         /\ call[chat[s][i].of].kind = "chat" /\ call[chat[s][i].of].about = s

Recorded == AuditTrue /\ LinesPlaced /\ QuestionThenAnswer

\* A call that has its question behind it stays what it is, and one that has returned keeps
\* its result, unless its server stops.
GoesForward(c) ==
  /\ call[c].at \notin {"idle", "question"} =>
       /\ call'[c].at \notin {"idle", "question"}
       /\ call'[c].kind = call[c].kind /\ call'[c].about = call[c].about
  /\ call[c].at \in {"answer", "done"} =>
       \/ call'[c].at = "dead"
       \/ call'[c].at \in {"answer", "done"} /\ call'[c].result = call[c].result
  /\ call[c].at = "dead" => call'[c].at = "dead"

\* What is saved is not changed.
RecordsStay ==
  /\ \A c \in Requests : audit[c] # None => audit'[c] = audit[c]
  /\ \A s \in Sessions : chat'[s] = chat[s] \/ \E line \in Lines : chat'[s] = Append(chat[s], line)
  /\ \A c \in Requests : GoesForward(c)

LEMMA OneForward ==
  ASSUME CallsTypeOK, NEW c \in Requests, NEW g, call' = [call EXCEPT ![c] = g],
         call[c].at \notin {"idle", "question"} =>
           /\ g.at \notin {"idle", "question"} /\ g.kind = call[c].kind /\ g.about = call[c].about,
         call[c].at \in {"answer", "done"} =>
           g.at \in {"answer", "done"} /\ g.result = call[c].result,
         call[c].at # "dead"
  PROVE  \A d \in Requests : GoesForward(d)
<1>1. call'[c] = g /\ \A d \in Requests \ {c} : call'[d] = call[d]
  BY DEF CallsTypeOK
<1>2. \A d \in Requests : call[d] \in Goroutines
  BY DEF CallsTypeOK
<1>3. \A d \in Requests \ {c} : GoesForward(d)
  BY <1>1 DEF GoesForward
<1>4. GoesForward(c)
  BY <1>1 DEF GoesForward
<1> QED
  BY <1>3, <1>4

LEMMA ReturnForward ==
  ASSUME CallsTypeOK, NEW c \in Requests, NEW r, Return(c, r),
         call[c].at \in {"declare", "publish", "wait"}
  PROVE  \A d \in Requests : GoesForward(d)
<1> DEFINE g == [call[c] EXCEPT !.at = "audit", !.link = None, !.result = r]
<1>1. call[c] \in Goroutines
  BY DEF CallsTypeOK
<1>2. g.at = "audit" /\ g.kind = call[c].kind /\ g.about = call[c].about
  BY <1>1 DEF Goroutines
<1>3. call' = [call EXCEPT ![c] = g]
  BY DEF Return, HoldResult
<1> HIDE DEF g
<1> QED
  BY <1>2, <1>3, OneForward

LEMMA ProceedForward ==
  ASSUME CallsTypeOK, NEW c \in Requests, Proceed(c)
  PROVE  \A d \in Requests : GoesForward(d)
<1>1. call[c] \in Goroutines
  BY DEF CallsTypeOK
<1>r. ASSUME NEW step \in {"connect", "publish", "wait", "answer"}, Reach(c, step),
             call[c].at \notin {"answer", "done", "dead"}
      PROVE  \A d \in Requests : GoesForward(d)
  <2> DEFINE g == [call[c] EXCEPT !.at = step]
  <2>1. g.at = step /\ g.kind = call[c].kind /\ g.about = call[c].about
    BY <1>1 DEF Goroutines
  <2>2. call' = [call EXCEPT ![c] = g]
    BY <1>r DEF Reach
  <2> HIDE DEF g
  <2> QED
    BY <1>r, <2>1, <2>2, OneForward
<1>c. ASSUME CloseCall(c), call[c].at \in {"audit", "answer"}
      PROVE  \A d \in Requests : GoesForward(d)
  <2> DEFINE g == [call[c] EXCEPT !.at = "done", !.gone = FALSE]
  <2>1. g.at = "done" /\ g.kind = call[c].kind /\ g.about = call[c].about /\ g.result = call[c].result
    BY <1>1 DEF Goroutines
  <2>2. call' = [call EXCEPT ![c] = g]
    BY <1>c DEF CloseCall
  <2> HIDE DEF g
  <2> QED
    BY <1>c, <2>1, <2>2, OneForward
<1>2. CASE SaveQuestion(c)
  BY <1>2, <1>r DEF SaveQuestion
<1>3. CASE EnsureConnection(c)
  <2>1. ASSUME NEW l, call' = [call EXCEPT ![c].at = "declare", ![c].link = l]
        PROVE  \A d \in Requests : GoesForward(d)
    <3> DEFINE g == [call[c] EXCEPT !.at = "declare", !.link = l]
    <3>1. g.at = "declare" /\ g.kind = call[c].kind /\ g.about = call[c].about
      BY <1>1 DEF Goroutines
    <3>2. call' = [call EXCEPT ![c] = g] /\ call[c].at = "connect"
      BY <1>3, <2>1 DEF EnsureConnection, CallsTypeOK
    <3> HIDE DEF g
    <3> QED
      BY <3>1, <3>2, OneForward
  <2>2. ASSUME call' = [call EXCEPT ![c].at = "audit", ![c].result = "failed"]
        PROVE  \A d \in Requests : GoesForward(d)
    <3> DEFINE g == [call[c] EXCEPT !.at = "audit", !.result = "failed"]
    <3>1. g.at = "audit" /\ g.kind = call[c].kind /\ g.about = call[c].about
      BY <1>1 DEF Goroutines
    <3>2. call' = [call EXCEPT ![c] = g] /\ call[c].at = "connect"
      BY <1>3, <2>2 DEF EnsureConnection, CallsTypeOK
    <3> HIDE DEF g
    <3> QED
      BY <3>1, <3>2, OneForward
  <2> QED
    BY <1>3, <2>1, <2>2 DEF EnsureConnection
<1>4. CASE DeclareQueue(c)
  BY <1>4, <1>r, ReturnForward DEF DeclareQueue
<1>5. CASE PublishRequest(c)
  BY <1>5, <1>r, ReturnForward DEF PublishRequest
<1>6. CASE Wait(c)
  BY <1>6, ReturnForward DEF Wait
<1>7. CASE RecordAIAction(c)
  BY <1>7, <1>r, <1>c DEF RecordAIAction
<1>8. CASE SaveAnswer(c)
  BY <1>8, <1>c DEF SaveAnswer
<1> QED
  BY <1>2, <1>3, <1>4, <1>5, <1>6, <1>7, <1>8 DEF Proceed

LEMMA CallsForward ==
  ASSUME CallsTypeOK, [CallsNext]_callsVars
  PROVE  \A d \in Requests : GoesForward(d)
<1>1. call \in [Requests -> Goroutines]
  BY DEF CallsTypeOK
<1>2. ASSUME \A d \in Requests :
               /\ call'[d].kind = call[d].kind /\ call'[d].about = call[d].about
               /\ \/ call'[d].at = call[d].at /\ call'[d].result = call[d].result
                  \/ call[d].at \notin {"idle", "done"} /\ call'[d].at = "dead"
      PROVE  \A d \in Requests : GoesForward(d)
  BY <1>2 DEF GoesForward
<1>3. ASSUME NEW c \in Requests, NEW a \in CallersOf[c],
             (\E s \in Sessions : Chat(c, a, s)) \/ (\E d \in Deals : AskDialog(c, a, d))
      PROVE  \A d \in Requests : GoesForward(d)
  <2>1. PICK g : call' = [call EXCEPT ![c] = g]
    BY <1>3 DEF Chat, AskDialog, Begin, RefuseCall
  <2>2. call[c].at = "idle"
    BY <1>3 DEF Chat, AskDialog
  <2> QED
    BY <2>1, <2>2, OneForward
<1>4. ASSUME NEW c \in Requests, Proceed(c) PROVE \A d \in Requests : GoesForward(d)
  BY <1>4, ProceedForward
<1>5. ASSUME NEW c \in Requests, HangUp(c) PROVE \A d \in Requests : GoesForward(d)
  <2>1. call' = [call EXCEPT ![c].gone = TRUE]
    BY <1>5 DEF HangUp
  <2>2. \A d \in Requests : /\ call'[d].kind = call[d].kind /\ call'[d].about = call[d].about
                            /\ call'[d].at = call[d].at /\ call'[d].result = call[d].result
    BY <1>1, <2>1 DEF Goroutines
  <2> QED
    BY <1>2, <2>2
<1>6. ASSUME call' = call PROVE \A d \in Requests : GoesForward(d)
  BY <1>2, <1>6
<1>7. CASE ConnectionsLost
  <2>1. call' = [c \in Requests |-> [call[c] EXCEPT !.link = None]]
    BY <1>7 DEF ConnectionsLost
  <2>2. \A d \in Requests : /\ call'[d].kind = call[d].kind /\ call'[d].about = call[d].about
                            /\ call'[d].at = call[d].at /\ call'[d].result = call[d].result
    BY <1>1, <2>1 DEF Goroutines
  <2> QED
    BY <1>2, <2>2
<1>8. CASE ServerStops
  <2>1. call' = [c \in Requests |-> IF call[c].at \in Over THEN call[c] ELSE
                [call[c] EXCEPT !.at = "dead", !.link = None, !.gone = FALSE, !.result = None]]
    BY <1>8 DEF ServerStops
  <2>2. ASSUME NEW d \in Requests
        PROVE  /\ call'[d].kind = call[d].kind /\ call'[d].about = call[d].about
               /\ \/ call'[d].at = call[d].at /\ call'[d].result = call[d].result
                  \/ call[d].at \notin {"idle", "done"} /\ call'[d].at = "dead"
    <3>1. call[d] \in Goroutines
      BY <1>1
    <3>2. CASE call[d].at \in Over
      BY <2>1, <3>2
    <3>3. CASE call[d].at \notin Over
      BY <2>1, <3>1, <3>3 DEF Over, Goroutines
    <3> QED
      BY <3>2, <3>3
  <2> QED
    BY <1>2, <2>2
<1>9. CASE UNCHANGED callsVars
  BY <1>6, <1>9 DEF callsVars
<1> QED
  BY <1>3, <1>4, <1>5, <1>6, <1>7, <1>8, <1>9
  DEF CallsNext, GetDealMessages, AgentReplies, AgentGivesUp, ChannelFails

\* What a step saves: a line of a goroutine for its session, an audit row, or nothing.
LEMMA CallsSave ==
  ASSUME Apart, [CallsNext]_callsVars
  PROVE  /\ \/ chat' = chat
            \/ \E c \in Requests :
                 /\ SaveQuestion(c) \/ SaveAnswer(c)
                 /\ \E from \in {"client", "ai"} :
                      /\ from = IF call[c].at = "question" THEN "client" ELSE "ai"
                      /\ chat' = [chat EXCEPT ![call[c].about] = Append(@, [from |-> from, of |-> c])]
         /\ \/ audit' = audit
            \/ \E c \in Requests :
                 /\ RecordAIAction(c)
                 /\ audit' = [audit EXCEPT ![c] = IF Answered(c) THEN "success" ELSE "failed"]
<1> DEFINE Saves ==
         /\ \/ chat' = chat
            \/ \E c \in Requests :
                 /\ SaveQuestion(c) \/ SaveAnswer(c)
                 /\ \E from \in {"client", "ai"} :
                      /\ from = IF call[c].at = "question" THEN "client" ELSE "ai"
                      /\ chat' = [chat EXCEPT ![call[c].about] = Append(@, [from |-> from, of |-> c])]
         /\ \/ audit' = audit
            \/ \E c \in Requests :
                 /\ RecordAIAction(c)
                 /\ audit' = [audit EXCEPT ![c] = IF Answered(c) THEN "success" ELSE "failed"]
<1>1. ASSUME NEW c \in Requests, SaveQuestion(c) PROVE Saves
  BY <1>1 DEF SaveQuestion, SaveMessage
<1>2. ASSUME NEW c \in Requests, SaveAnswer(c) PROVE Saves
  BY <1>2 DEF SaveAnswer, SaveMessage
<1>3. ASSUME NEW c \in Requests, RecordAIAction(c) PROVE Saves
  BY <1>3 DEF RecordAIAction
<1>4. ASSUME chat' = chat, audit' = audit PROVE Saves
  BY <1>4
<1>5. ASSUME NEW c \in Requests, NEW a \in CallersOf[c],
             (\E s \in Sessions : Chat(c, a, s)) \/ (\E d \in Deals : AskDialog(c, a, d))
      PROVE  chat' = chat /\ audit' = audit
  BY <1>5 DEF Chat, AskDialog, tableVars
<1>6. ASSUME NEW c \in Requests,
             EnsureConnection(c) \/ DeclareQueue(c) \/ PublishRequest(c) \/ Wait(c) \/ HangUp(c)
             \/ GetDealMessages(c) \/ (\E r \in Replies : AgentReplies(c, r)) \/ AgentGivesUp(c)
      PROVE  chat' = chat /\ audit' = audit
  BY <1>6 DEF EnsureConnection, DeclareQueue, PublishRequest, Wait, HangUp, GetDealMessages,
              AgentReplies, AgentGivesUp, tableVars
<1>7. ASSUME (\E l \in Links : ChannelFails(l)) \/ ConnectionsLost \/ ServerStops \/ UNCHANGED callsVars
      PROVE  chat' = chat /\ audit' = audit
  BY <1>7 DEF ChannelFails, ConnectionsLost, ServerStops, callsVars, tableVars
<1> QED
  BY <1>1, <1>2, <1>3, <1>4, <1>5, <1>6, <1>7 DEF CallsNext, Proceed

LEMMA RecordsKept ==
  ASSUME Apart, Recorded, [CallsNext]_callsVars
  PROVE  RecordsStay
<1>1. CallsTypeOK
  BY DEF Apart
<1>2. \A d \in Requests : GoesForward(d)
  BY <1>1, CallsForward
<1>3. \A d \in Requests : audit[d] # None => audit'[d] = audit[d]
  <2>1. ASSUME NEW c \in Requests, RecordAIAction(c),
               audit' = [audit EXCEPT ![c] = IF Answered(c) THEN "success" ELSE "failed"]
        PROVE  \A d \in Requests : audit[d] # None => audit'[d] = audit[d]
    <3>1. audit[c] = None
      BY <2>1 DEF Recorded, AuditTrue, RecordAIAction
    <3>2. \A d \in Requests \ {c} : audit'[d] = audit[d]
      BY <1>1, <2>1 DEF CallsTypeOK
    <3> QED
      BY <3>1, <3>2
  <2> QED
    BY <2>1, CallsSave
<1>4. \A s \in Sessions : chat'[s] = chat[s] \/ \E line \in Lines : chat'[s] = Append(chat[s], line)
  <2>1. ASSUME NEW c \in Requests, NEW from \in {"client", "ai"},
               chat' = [chat EXCEPT ![call[c].about] = Append(@, [from |-> from, of |-> c])]
        PROVE  \A s \in Sessions : chat'[s] = chat[s] \/ \E line \in Lines : chat'[s] = Append(chat[s], line)
    <3>1. [from |-> from, of |-> c] \in Lines
      BY DEF Lines
    <3> QED
      BY <1>1, <2>1, <3>1 DEF CallsTypeOK
  <2> QED
    BY <2>1, CallsSave
<1> QED
  BY <1>2, <1>3, <1>4 DEF RecordsStay

LEMMA AuditStaysTrue ==
  ASSUME Apart, AuditTrue, [CallsNext]_callsVars
  PROVE  AuditTrue'
<1>1. \A d \in Requests : GoesForward(d)
  BY CallsForward DEF Apart
<1>2. ASSUME NEW d \in Requests, audit'[d] = audit[d], audit'[d] # None
      PROVE  /\ call'[d].at \in {"answer", "done", "dead"}
             /\ call'[d].at # "dead" => (audit'[d] = "success" <=> Answered(d)')
  <2>1. /\ call[d].at \in {"answer", "done", "dead"}
        /\ call[d].at # "dead" => (audit[d] = "success" <=> Answered(d))
    BY <1>2 DEF AuditTrue
  <2> QED
    BY <1>1, <1>2, <2>1 DEF GoesForward, Answered
<1>3. CASE audit' = audit
  BY <1>2, <1>3 DEF AuditTrue
<1>4. ASSUME NEW c \in Requests, RecordAIAction(c),
             audit' = [audit EXCEPT ![c] = IF Answered(c) THEN "success" ELSE "failed"]
      PROVE  AuditTrue'
  <2>0. audit \in [Requests -> {"success", "failed", None}] /\ call \in [Requests -> Goroutines]
    BY DEF Apart, CallsTypeOK
  <2>1. \A d \in Requests \ {c} : audit'[d] = audit[d]
    BY <1>4, <2>0
  <2>2. audit'[c] = IF Answered(c) THEN "success" ELSE "failed"
    BY <1>4, <2>0
  <2>3. call'[c].at \in {"answer", "done"} /\ call'[c].result = call[c].result
    BY <1>4, <2>0 DEF RecordAIAction, Reach, CloseCall, Goroutines
  <2> QED
    BY <1>2, <2>1, <2>2, <2>3 DEF AuditTrue, Answered
<1> QED
  BY <1>3, <1>4, CallsSave

LEMMA LinesStayPlaced ==
  ASSUME Apart, LinesPlaced, QuestionThenAnswer, [CallsNext]_callsVars
  PROVE  LinesPlaced' /\ QuestionThenAnswer'
<1>0. /\ chat \in [Sessions -> Seq(Lines)] /\ call \in [Requests -> Goroutines]
      /\ \A c \in Requests : Sane(call[c])
      /\ AnswersSaved
  BY DEF Apart, CallsTypeOK, CallsSane
<1>1. \A d \in Requests : GoesForward(d)
  BY CallsForward DEF Apart
\* A line that was there stays well placed.
<1>2. ASSUME NEW s \in Sessions, NEW line,
             line.from = "client" => line.of \in Requests,
             line.of \in Requests =>
               /\ call[line.of].at \notin {"idle", "question"}
               /\ call[line.of].kind = "chat" /\ call[line.of].about = s
      PROVE  line.of \in Requests =>
               /\ call'[line.of].at \notin {"idle", "question"}
               /\ call'[line.of].kind = "chat" /\ call'[line.of].about = s
  BY <1>1, <1>2 DEF GoesForward
<1>3. ASSUME chat' = chat PROVE LinesPlaced' /\ QuestionThenAnswer'
  BY <1>2, <1>3 DEF LinesPlaced, QuestionThenAnswer
<1>4. ASSUME NEW c \in Requests, SaveQuestion(c) \/ SaveAnswer(c), NEW from \in {"client", "ai"},
             from = IF call[c].at = "question" THEN "client" ELSE "ai",
             chat' = [chat EXCEPT ![call[c].about] = Append(@, [from |-> from, of |-> c])]
      PROVE  LinesPlaced' /\ QuestionThenAnswer'
  <2> DEFINE line == [from |-> from, of |-> c]
             s == call[c].about
  <2>1. line \in Lines /\ line.from = from /\ line.of = c
    BY DEF Lines
  <2>2. /\ call[c].at \in {"question", "answer"} /\ call[c].kind = "chat" /\ s \in Sessions
        /\ call'[c].at \in {"connect", "done"} /\ call'[c].kind = "chat" /\ call'[c].about = s
    <3>1. call[c] \in Goroutines /\ Sane(call[c])
      BY <1>0
    <3>2. call[c].at \in {"question", "answer"}
      BY <1>4 DEF SaveQuestion, SaveAnswer
    <3>3. call[c].kind = "chat" /\ s \in Sessions
      BY <3>1, <3>2 DEF Sane
    <3>4. /\ call'[c].at \in {"connect", "done"}
          /\ call'[c].kind = call[c].kind /\ call'[c].about = call[c].about
      BY <1>0, <1>4, <3>1 DEF SaveQuestion, SaveAnswer, Reach, CloseCall, Goroutines
    <3> QED
      BY <3>2, <3>3, <3>4
  <2>3. ASSUME NEW r \in Sessions, NEW i \in DOMAIN chat[r], chat[r][i].of = c
        PROVE  from = "ai" /\ r = s /\ chat[r][i].from # "ai"
    <3>1. call[c].at = "answer" /\ r = s
      BY <2>2, <2>3 DEF LinesPlaced
    <3>2. chat[r][i].from # "ai"
      BY <1>0, <2>3, <3>1 DEF AnswersSaved, IsAnswer
    <3> QED
      BY <1>4, <3>1, <3>2
  <2> HIDE DEF line, s
  <2>4. /\ \A r \in Sessions : \A i \in DOMAIN chat'[r] :
             \/ i \in DOMAIN chat[r] /\ chat'[r][i] = chat[r][i]
             \/ r = s /\ i = Len(chat[s]) + 1 /\ chat'[r][i] = line
    <3>1. chat' = [chat EXCEPT ![s] = Append(@, line)]
      BY <1>4 DEF line, s
    <3> QED
      BY <1>0, <2>1, <2>2, <3>1, LineAdded
  <2>5. LinesPlaced'
    <3>1. ASSUME NEW r \in Sessions, NEW i \in DOMAIN chat'[r]
          PROVE  /\ chat'[r][i].from = "client" => chat'[r][i].of \in Requests
                 /\ chat'[r][i].of \in Requests =>
                      /\ call'[chat'[r][i].of].at \notin {"idle", "question"}
                      /\ call'[chat'[r][i].of].kind = "chat" /\ call'[chat'[r][i].of].about = r
      <4>1. CASE i \in DOMAIN chat[r] /\ chat'[r][i] = chat[r][i]
        <5> DEFINE old == chat[r][i]
        <5>1. /\ old.from = "client" => old.of \in Requests
              /\ old.of \in Requests =>
                   /\ call[old.of].at \notin {"idle", "question"}
                   /\ call[old.of].kind = "chat" /\ call[old.of].about = r
          BY <4>1 DEF LinesPlaced
        <5>2. chat'[r][i] = old
          BY <4>1
        <5> HIDE DEF old
        <5> QED
          BY <1>2, <5>1, <5>2
      <4>2. CASE r = s /\ chat'[r][i] = line
        BY <2>1, <2>2, <4>2
      <4> QED
        BY <2>4, <4>1, <4>2
    <3> QED
      BY <3>1 DEF LinesPlaced
  <2>6. QuestionThenAnswer'
    <3>1. ASSUME NEW r \in Sessions, NEW i \in DOMAIN chat'[r], NEW j \in DOMAIN chat'[r],
                 chat'[r][i].from = "client", chat'[r][j].of = chat'[r][i].of, i # j
          PROVE  chat'[r][j].from = "ai" /\ i < j
      <4>1. CASE /\ i \in DOMAIN chat[r] /\ chat'[r][i] = chat[r][i]
                 /\ j \in DOMAIN chat[r] /\ chat'[r][j] = chat[r][j]
        BY <3>1, <4>1 DEF QuestionThenAnswer
      <4>2. CASE /\ i \in DOMAIN chat[r] /\ chat'[r][i] = chat[r][i]
                 /\ r = s /\ j = Len(chat[s]) + 1 /\ chat'[r][j] = line
        <5>1. from = "ai"
          BY <2>1, <2>3, <3>1, <4>2
        <5>2. chat[s] \in Seq(Lines) /\ i \in DOMAIN chat[s]
          BY <1>0, <2>2, <4>2
        <5>3. i < j
          BY <4>2, <5>2
        <5> QED
          BY <2>1, <4>2, <5>1, <5>3
      <4>3. CASE /\ r = s /\ i = Len(chat[s]) + 1 /\ chat'[r][i] = line
                 /\ j \in DOMAIN chat[r] /\ chat'[r][j] = chat[r][j]
        <5>1. from = "client" /\ chat[r][j].of = c
          BY <2>1, <3>1, <4>3
        <5> QED
          BY <2>3, <4>3, <5>1
      <4> QED
        BY <2>4, <3>1, <4>1, <4>2, <4>3
    <3> QED
      BY <3>1 DEF QuestionThenAnswer
  <2> QED
    BY <2>5, <2>6
<1> QED
  BY <1>3, <1>4, CallsSave

LEMMA RecordedInit == CallsInit => Recorded
<1> SUFFICES ASSUME CallsInit PROVE Recorded
  OBVIOUS
<1>1. None \notin Requests
  BY CallsAssumption
<1> QED
  BY <1>1 DEF CallsInit, Recorded, AuditTrue, LinesPlaced, QuestionThenAnswer

LEMMA RecordedAlways == CallsSpec => []Recorded
<1>1. Apart /\ Recorded /\ [CallsNext]_callsVars => Recorded'
  BY AuditStaysTrue, LinesStayPlaced DEF Recorded
<1> QED
  BY <1>1, RecordedInit, ApartAlways, PTL DEF CallsSpec

--------------------------------------------------------------------------------
(* What callers, clients and staff can rely on.                              *)

\* No reply queue outlives the call it was declared for while its channel is open
\* (service/ai_agent.go:177), and whatever the agent answers, to whom and how often, the
\* calls, the queues, the chat and the audit are what the code takes them for.
THEOREM CallsTypes == CallsSpec => []CallsTypeOK
<1>1. Apart => CallsTypeOK
  BY DEF Apart
<1> QED
  BY <1>1, ApartAlways, PTL

\* What the assistant says in a chat answers a call of its client that is over and did not
\* fail, once and after his question; advice to staff is not published, and no dialog the agent is given to analyse
\* holds a line of the assistant (handler/ai.go:125, service/dialog_analysis.go:55).
THEOREM AssistantAlwaysApart == CallsSpec => []AssistantStaysApart
<1>1. Apart /\ Recorded => AssistantStaysApart
  BY ApartImplies DEF Recorded
<1> QED
  BY <1>1, ApartAlways, RecordedAlways, PTL

\* A call's audit row says how the call ended, and every line it saves is in its own session
\* (handler/ai.go:90-126), although audit and lines are statements of their own, between which
\* the caller hangs up and servers stop.
THEOREM CallsWellRecorded == CallsSpec => [](AuditTrue /\ LinesPlaced)
<1>1. Recorded => AuditTrue /\ LinesPlaced
  BY DEF Recorded
<1> QED
  BY <1>1, RecordedAlways, PTL

\* Audit rows and chats are only added to, and no goroutine goes back to its question or
\* changes the result it returned with: the safety half of CallsEnd.
THEOREM CallsOnlyGoForward == CallsSpec => [][RecordsStay]_callsVars
<1>1. Apart /\ Recorded /\ [CallsNext]_callsVars => [RecordsStay]_callsVars
  BY RecordsKept
<1> QED
  BY <1>1, ApartAlways, RecordedAlways, PTL DEF CallsSpec

--------------------------------------------------------------------------------
(* What the agent may expect of its servers, and they rest on: AgentService. *)

\* A goroutine whose request is with the agent, or will not be sent any more.
Spent(c) == call[c].at \notin {"idle", "question", "connect", "declare", "publish"}

Server == INSTANCE AgentService WITH
  Calls <- Requests,
  spent <- {c \in Requests : Spent(c)},
  pending <- pending,
  answered <- {c \in Requests : reply[c] # None}

\* A step that makes no request and brings no answer.
LEMMA CallsGivenUp ==
  ASSUME \A c \in Requests : Spent(c) => Spent(c)',
         \A c \in Requests : reply'[c] # None => reply[c] # None,
         pending' \subseteq pending
  PROVE  Server!Next
BY DEF Spent, Server!Next, Server!GiveUp

\* A goroutine goes on to a step from where it does not come back to its request.
LEMMA GoesOn ==
  ASSUME CallsTypeOK, NEW c \in Requests, NEW g, call' = [call EXCEPT ![c] = g],
         Spent(c) => g.at \notin {"idle", "question", "connect", "declare", "publish"},
         \A d \in Requests : reply'[d] # None => reply[d] # None,
         pending' \subseteq pending
  PROVE  Server!Next
<1>1. call'[c] = g /\ \A d \in Requests \ {c} : call'[d] = call[d]
  BY DEF CallsTypeOK
<1>2. \A d \in Requests : Spent(d) => Spent(d)'
  BY <1>1 DEF Spent
<1> QED
  BY <1>2, CallsGivenUp

LEMMA AskInService ==
  ASSUME CallsTypeOK, NEW c \in Requests, NEW a,
         (\E s \in Sessions : Chat(c, a, s)) \/ (\E d \in Deals : AskDialog(c, a, d))
  PROVE  Server!Next
<1>1. call[c].at = "idle" /\ reply' = reply /\ pending' = pending
  BY DEF Chat, AskDialog, brokerVars
<1>2. PICK g : call' = [call EXCEPT ![c] = g]
  BY DEF Chat, AskDialog, Begin, RefuseCall
<1> QED
  BY <1>1, <1>2, GoesOn DEF Spent

LEMMA ReturnInService ==
  ASSUME CallsTypeOK, NEW c \in Requests, NEW r, Return(c, r), pending' = pending
  PROVE  Server!Next
<1>1. \A d \in Requests : reply'[d] # None => reply[d] # None
  BY DEF Return, HoldResult, CallsTypeOK
<1>2. call[c] \in Goroutines
  BY DEF CallsTypeOK
<1> DEFINE g == [call[c] EXCEPT !.at = "audit", !.link = None, !.result = r]
<1>3. g.at = "audit"
  BY <1>2 DEF Goroutines
<1>4. call' = [call EXCEPT ![c] = g]
  BY DEF Return, HoldResult
<1> HIDE DEF g
<1> QED
  BY <1>1, <1>3, <1>4, GoesOn

LEMMA PublishedOnce ==
  ASSUME Apart, NEW c \in Requests, PublishRequest(c)
  PROVE  Server!Next
<1>1. call[c].at = "publish" /\ CallsTypeOK /\ call[c] \in Goroutines
  BY DEF PublishRequest, Apart, CallsTypeOK
<1>2. CASE Return(c, "failed") /\ pending' = pending
  BY <1>1, <1>2, ReturnInService
<1>3. CASE pending' = pending \cup {c} /\ Reach(c, "wait") /\ reply' = reply
  <2>1. call'[c].at = "wait" /\ \A d \in Requests \ {c} : call'[d] = call[d]
    BY <1>1, <1>3 DEF Reach, CallsTypeOK, Goroutines
  <2>2. ~Spent(c) /\ Spent(c)' /\ \A d \in Requests \ {c} : Spent(d)' <=> Spent(d)
    BY <1>1, <2>1 DEF Spent
  <2>3. {d \in Requests : Spent(d)}' = {d \in Requests : Spent(d)} \cup {c}
    BY <2>2
  <2>4. Server!Make(c)
    BY <1>3, <2>2, <2>3 DEF Spent, Server!Make
  <2> QED
    BY <2>4 DEF Server!Next
<1> QED
  BY <1>2, <1>3 DEF PublishRequest

LEMMA ProceedInService ==
  ASSUME Apart, NEW c \in Requests, Proceed(c)
  PROVE  Server!Next
<1>1. CallsTypeOK /\ call[c] \in Goroutines
  BY DEF Apart, CallsTypeOK
<1>r. ASSUME NEW step, Reach(c, step), ~Spent(c) \/ step = "answer",
             reply' = reply, pending' = pending
      PROVE  Server!Next
  <2> DEFINE g == [call[c] EXCEPT !.at = step]
  <2>1. g.at = step
    BY <1>1 DEF Goroutines
  <2>2. call' = [call EXCEPT ![c] = g]
    BY <1>r DEF Reach
  <2> HIDE DEF g
  <2> QED
    BY <1>1, <1>r, <2>1, <2>2, GoesOn
<1>c. ASSUME CloseCall(c), reply' = reply, pending' = pending PROVE Server!Next
  <2> DEFINE g == [call[c] EXCEPT !.at = "done", !.gone = FALSE]
  <2>1. g.at = "done"
    BY <1>1 DEF Goroutines
  <2>2. call' = [call EXCEPT ![c] = g]
    BY <1>c DEF CloseCall
  <2> HIDE DEF g
  <2> QED
    BY <1>1, <1>c, <2>1, <2>2, GoesOn
<1>2. CASE SaveQuestion(c)
  BY <1>2, <1>r DEF SaveQuestion, brokerVars, Spent
<1>3. CASE EnsureConnection(c)
  <2>1. call[c].at = "connect" /\ reply' = reply /\ pending' = pending
    BY <1>3 DEF EnsureConnection
  <2>2. \E g : call' = [call EXCEPT ![c] = g]
    BY <1>3 DEF EnsureConnection
  <2> QED
    BY <1>1, <2>1, <2>2, GoesOn DEF Spent
<1>4. CASE DeclareQueue(c)
  <2>1. pending' = pending /\ call[c].at = "declare"
    BY <1>4 DEF DeclareQueue
  <2>2. (Reach(c, "publish") /\ reply' = reply) \/ Return(c, "failed")
    BY <1>4 DEF DeclareQueue
  <2> QED
    BY <1>1, <1>r, <2>1, <2>2, ReturnInService DEF Spent
<1>5. CASE PublishRequest(c)
  BY <1>5, PublishedOnce
<1>6. CASE Wait(c)
  <2>1. pending' = pending /\ \E r : Return(c, r)
    BY <1>6 DEF Wait
  <2> QED
    BY <1>1, <2>1, ReturnInService
<1>7. CASE RecordAIAction(c)
  <2>1. reply' = reply /\ pending' = pending /\ (Reach(c, "answer") \/ CloseCall(c))
    BY <1>7 DEF RecordAIAction, brokerVars
  <2> QED
    BY <1>r, <1>c, <2>1
<1>8. CASE SaveAnswer(c)
  BY <1>8, <1>c DEF SaveAnswer, brokerVars
<1> QED
  BY <1>2, <1>3, <1>4, <1>5, <1>6, <1>7, <1>8 DEF Proceed

LEMMA ServerSteps ==
  ASSUME Apart, [CallsNext]_callsVars
  PROVE  [Server!Next]_(Server!vars)
<1>1. CallsTypeOK
  BY DEF Apart
<1>2. ASSUME call' = call, reply' = reply, pending' \subseteq pending PROVE Server!Next
  BY <1>2, CallsGivenUp DEF Spent
<1>3. CASE UNCHANGED callsVars
  BY <1>2, <1>3 DEF callsVars, brokerVars
<1>4. ASSUME NEW c \in Requests, NEW a \in CallersOf[c],
             (\E s \in Sessions : Chat(c, a, s)) \/ (\E d \in Deals : AskDialog(c, a, d))
      PROVE  Server!Next
  BY <1>1, <1>4, AskInService
<1>5. ASSUME NEW c \in Requests, Proceed(c) PROVE Server!Next
  BY <1>5, ProceedInService
<1>6. ASSUME NEW c \in Requests, HangUp(c) PROVE Server!Next
  <2>1. call[c] \in Goroutines /\ call' = [call EXCEPT ![c].gone = TRUE]
    BY <1>1, <1>6 DEF HangUp, CallsTypeOK
  <2>2. \A d \in Requests : call'[d].at = call[d].at
    BY <1>1, <2>1 DEF CallsTypeOK, Goroutines
  <2> QED
    BY <1>6, <2>2, CallsGivenUp DEF HangUp, brokerVars, Spent
<1>7. ASSUME NEW c \in Requests, GetDealMessages(c) \/ AgentGivesUp(c) PROVE Server!Next
  BY <1>2, <1>7 DEF GetDealMessages, AgentGivesUp, brokerVars
<1>8. ASSUME NEW c \in Requests, NEW r \in Replies, AgentReplies(c, r) PROVE Server!Next
  <2> DEFINE heard == {d \in Requests : reply[d] # None}
  <2>1. /\ c \in pending /\ pending' \in {pending, pending \ {c}} /\ call' = call
        /\ \A d \in Requests \ {c} : reply'[d] = reply[d]
        /\ reply[c] # None => reply'[c] # None
    BY <1>1, <1>8 DEF AgentReplies, CallsTypeOK
  <2>2. heard' \in {heard, heard \cup {c}}
    BY <2>1
  <2>3. {d \in Requests : Spent(d)}' = {d \in Requests : Spent(d)}
    BY <2>1 DEF Spent
  <2>4. Server!Answer(c)
    BY <2>1, <2>2, <2>3 DEF Server!Answer
  <2> QED
    BY <2>4 DEF Server!Next
<1>9. ASSUME NEW l \in Links, ChannelFails(l) PROVE Server!Next
  BY <1>2, <1>9 DEF ChannelFails
<1>10. CASE ConnectionsLost
  <2>1. call' = [c \in Requests |-> [call[c] EXCEPT !.link = None]]
    BY <1>10 DEF ConnectionsLost
  <2>2. \A d \in Requests : call'[d].at = call[d].at
    BY <1>1, <2>1 DEF CallsTypeOK, Goroutines
  <2>3. reply' = reply /\ pending' \subseteq pending
    BY <1>10 DEF ConnectionsLost
  <2> QED
    BY <2>2, <2>3, CallsGivenUp DEF Spent
<1>11. CASE ServerStops
  <2>1. /\ call' = [c \in Requests |-> IF call[c].at \in Over THEN call[c] ELSE
                [call[c] EXCEPT !.at = "dead", !.link = None, !.gone = FALSE, !.result = None]]
        /\ reply' = [c \in Requests |-> None] /\ pending' = pending
    BY <1>11 DEF ServerStops
  <2>2. ASSUME NEW d \in Requests PROVE call'[d].at \in {call[d].at, "dead"}
    <3>1. call[d] \in Goroutines
      BY <1>1 DEF CallsTypeOK
    <3> QED
      BY <2>1, <3>1 DEF Goroutines
  <2> QED
    BY <2>1, <2>2, CallsGivenUp DEF Spent
<1> QED
  BY <1>3, <1>4, <1>5, <1>6, <1>7, <1>8, <1>9, <1>10, <1>11 DEF CallsNext

\* Whatever fails or is hung up on, a server publishes a request once, and no answer is
\* waiting for a call but one the agent gave to a request it had (service/ai_agent.go:156-258):
\* what the agent is proved to keep to is what its servers are modelled with.
THEOREM ServersKeepService == CallsSpec => Server!Spec
<1>1. CallsInit => Server!Init
  BY DEF CallsInit, Unmade, Spent, Server!Init
<1>2. Apart /\ [CallsNext]_callsVars => [Server!Next]_(Server!vars)
  BY ServerSteps
<1> QED
  BY <1>1, <1>2, ApartAlways, PTL DEF CallsSpec, Server!Spec

\* A call that has its answer, its error or no server any more is never with the agent again,
\* and no answer comes for it; no request is with the agent before its server published it.
THEOREM CallsLeaveForGood == CallsSpec => []Server!NothingUnasked /\ Server!LeftForGood
<1>1. Server!Init => Server!NothingUnasked
  BY DEF Server!Init, Server!NothingUnasked
<1>2. Server!NothingUnasked /\ [Server!Next]_(Server!vars) => Server!NothingUnasked'
  <2> SUFFICES ASSUME Server!NothingUnasked, [Server!Next]_(Server!vars) PROVE Server!NothingUnasked'
    OBVIOUS
  <2> QED
    BY DEF Server!NothingUnasked, Server!Next, Server!Make, Server!Answer, Server!GiveUp, Server!vars
<1>3. [Server!Next]_(Server!vars) => [Server!StaysAway]_(Server!vars)
  BY DEF Server!Next, Server!Make, Server!Answer, Server!GiveUp, Server!StaysAway
<1> QED
  BY <1>1, <1>2, <1>3, ServersKeepService, PTL DEF Server!Spec, Server!LeftForGood
================================================================================
