--------------------------- MODULE RequestsProofs ---------------------------
(* Proofs about Requests: for any number of requests and ways to remove. *)
EXTENDS Requests, TLAPS

USE ConstantsAssumption
USE DEF vars, startVars

Requests == Dispatched \cup Customs

\* What a step of any request leaves alone, and where it may lead.
LEMMA RequestKeeps ==
    ASSUME TypeOK, NEW r \in Requests, RequestStep(r)
    PROVE  /\ UNCHANGED <<flags, hooked, startVars, remover>>
           /\ client' \in Senders \cup {NoRequest}
           /\ at[r] # "out"
           /\ \E label \in Labels : at' = [at EXCEPT ![r] = label]
<1> USE DEF Step, Labels
<1>1. CASE r \in Streams /\ StreamStep(r)
    BY <1>1 DEF StreamStep, Connect, Test, Receive, TypeOK
<1>2. CASE r \in Senders /\ (MakeClient(r) \/ Send(r))
    BY <1>2 DEF MakeClient, Send, TypeOK
<1>3. CASE r \in Dispatched /\ Forward(r)
    BY <1>3 DEF Forward, TypeOK
<1>4. CASE Fail(r)
    BY <1>4 DEF Fail, TypeOK
<1> QED BY <1>1, <1>2, <1>3, <1>4 DEF RequestStep

\* Every step keeps the types.
LEMMA TypeStep ==
    ASSUME TypeOK, [Next]_vars
    PROVE  TypeOK'
<1>1. ASSUME NEW r \in Dispatched, Enter(r)
      PROVE  TypeOK'
    BY <1>1 DEF Enter, Step, TypeOK, Labels
<1>2. ASSUME NEW c \in Customs, Call(c)
      PROVE  TypeOK'
    BY <1>2 DEF Call, Step, TypeOK, Labels
<1>3. ASSUME NEW r \in Requests, RequestStep(r)
      PROVE  TypeOK'
    <2>1. PICK label \in Labels : at' = [at EXCEPT ![r] = label]
        BY <1>3, RequestKeeps
    <2>2. at' \in [Dispatched \cup Customs -> Labels]
        BY <2>1 DEF TypeOK
    <2> QED BY <1>3, <2>2, RequestKeeps DEF TypeOK
<1>4. ASSUME NEW m \in Removers, SetFlag(m) \/ RemoverStep(m)
      PROVE  TypeOK'
    BY <1>4 DEF SetFlag, RemoverStep, Unhook, Drained, Move, TypeOK
<1>5. CASE HomegearStarted
    BY <1>5 DEF HomegearStarted, TypeOK
<1>6. CASE UNCHANGED vars
    BY <1>6 DEF TypeOK
<1> QED BY <1>1, <1>2, <1>3, <1>4, <1>5, <1>6 DEF Next, Requests

\* Every variable keeps its type (the requests and removals of one peer).
THEOREM TypeCorrect == Spec => []TypeOK
<1>1. Init => TypeOK
    BY DEF Init, TypeOK, Labels
<1> QED BY <1>1, TypeStep, PTL DEF Spec

\* What RemovedIsEmpty rests on: a removal that has closed the hook keeps it
\* closed, unless homegearStarted came in between.
StaysClosed ==
    \A m \in Removers : remover[m] \in {"drain", "done"} /\ ~rehooked => ~hooked

\* A removal is over only when nobody is inside, and nobody gets in afterwards.
LEMMA EmptyStep ==
    ASSUME TypeOK, StaysClosed, RemovedIsEmpty, [Next]_vars
    PROVE  StaysClosed' /\ RemovedIsEmpty'
<1> USE DEF StaysClosed, RemovedIsEmpty
<1>1. ASSUME NEW r \in Dispatched, Enter(r)
      PROVE  StaysClosed' /\ RemovedIsEmpty'
    BY <1>1 DEF Enter
<1>2. ASSUME NEW c \in Customs, Call(c)
      PROVE  StaysClosed' /\ RemovedIsEmpty'
    BY <1>2 DEF Call, Step, TypeOK, Dispatched
<1>3. ASSUME NEW r \in Requests, RequestStep(r)
      PROVE  StaysClosed' /\ RemovedIsEmpty'
    BY <1>3, RequestKeeps DEF TypeOK, Requests
<1>4. ASSUME NEW m \in Removers, SetFlag(m)
      PROVE  StaysClosed' /\ RemovedIsEmpty'
    BY <1>4 DEF SetFlag, Move, TypeOK
<1>5. ASSUME NEW m \in Removers, RemoverStep(m)
      PROVE  StaysClosed' /\ RemovedIsEmpty'
    BY <1>5 DEF RemoverStep, Unhook, Drained, Move, TypeOK
<1>6. CASE HomegearStarted
    BY <1>6 DEF HomegearStarted, TypeOK
<1>7. CASE UNCHANGED vars
    BY <1>7
<1> QED BY <1>1, <1>2, <1>3, <1>4, <1>5, <1>6, <1>7 DEF Next, Requests

\* When deletePeer, dispose or homegearShuttingDown got out of removeHooks,
\* nobody is inside the peer, with any number of requests and removals.
THEOREM RemovedStaysEmpty == Spec => []RemovedIsEmpty
<1>1. Init => StaysClosed /\ RemovedIsEmpty
    BY DEF Init, StaysClosed, RemovedIsEmpty
<1> QED BY <1>1, EmptyStep, TypeCorrect, PTL DEF Spec

\* Once a flag is set a step leads a request closer to its end.
LEMMA StepLeaves ==
    ASSUME TypeOK, NEW r \in Requests, RequestStep(r), flags # {}
    PROVE  StepsLeft[at'[r]] < StepsLeft[at[r]]
<1>1. \/ at[r] = "connect" /\ at'[r] = "test"
      \/ at[r] = "read" /\ at'[r] = "write"
      \/ at[r] = "make" /\ at'[r] = "send"
      \/ at[r] = "write" /\ at'[r] = "test"
      \/ at[r] = "send" /\ at'[r] = "write"
      \/ at[r] # "out" /\ at'[r] = "out"
    <2> USE DEF Step, TypeOK, Requests
    <2>1. CASE r \in Streams /\ StreamStep(r)
        BY <2>1 DEF StreamStep, Connect, Test, Receive
    <2>2. CASE r \in Senders /\ (MakeClient(r) \/ Send(r))
        BY <2>2 DEF MakeClient, Send
    <2>3. CASE r \in Dispatched /\ Forward(r)
        BY <2>3 DEF Forward
    <2>4. CASE Fail(r)
        BY <2>4 DEF Fail
    <2> QED BY <2>1, <2>2, <2>3, <2>4 DEF RequestStep
<1>2. at[r] \in Labels
    BY DEF TypeOK, Requests
<1> QED BY <1>1, <1>2 DEF StepsLeft, Labels

\* With any number of requests, a removal waits at most four steps for each: the
\* bound behind RemovalReturns, which needs no fairness.
THEOREM RequestsLeaveSoon == Spec => LeavesSoon
<1> DEFINE Closer == \A r \in Dispatched \cup Customs : at[r] # "out" /\ at'[r] # at[r] =>
                        StepsLeft[at'[r]] < StepsLeft[at[r]]
<1>1. ASSUME TypeOK, Next, flags # {}
      PROVE  Closer
    <2>1. ASSUME NEW q \in Requests, RequestStep(q)
          PROVE  Closer
        <3>1. \A r \in Requests \ {q} : at'[r] = at[r]
            BY <2>1, <1>1, RequestKeeps DEF TypeOK, Requests
        <3> QED BY <1>1, <2>1, <3>1, StepLeaves DEF Requests
    <2>2. ASSUME NEW q \in Requests, at[q] = "out",
                 \E label \in Labels : at' = [at EXCEPT ![q] = label]
          PROVE  Closer
        BY <1>1, <2>2 DEF TypeOK, Requests
    <2>3. ASSUME NEW q \in Requests, (q \in Dispatched /\ Enter(q)) \/ (q \in Customs /\ Call(q))
          PROVE  Closer
        BY <2>2, <2>3 DEF Enter, Call, Step, Labels
    <2>4. CASE HomegearStarted \/ \E m \in Removers : SetFlag(m) \/ RemoverStep(m)
        BY <2>4 DEF HomegearStarted, SetFlag, RemoverStep, Unhook, Drained
    <2> QED BY <1>1, <2>1, <2>3, <2>4 DEF Next, Requests
<1>2. TypeOK /\ [Next]_vars => [flags # {} => Closer]_vars
    BY <1>1
<1> QED BY <1>2, TypeCorrect, PTL DEF Spec, LeavesSoon
=============================================================================
