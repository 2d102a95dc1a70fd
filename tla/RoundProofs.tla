----------------------------- MODULE RoundProofs -----------------------------
(***************************************************************************)
(* The round of PeerRegistry's worker thread, for any number of cameras.   *)
(* The worker goes through the index of ids in the order of the ids: it    *)
(* always finds one next peer, and gets closer to all the others.          *)
(***************************************************************************)
EXTENDS PeerRegistryProofs, WellFoundedInduction

USE ConstantsAssumption
USE DEF vars, threadVars, workerVars, mainVars, indexVars, objectVars, diskVars, logVars
USE DEF Goto, Release, Fresh, Loaded, Lockable, Holders, Holds, MainFree

\* The database gives every peer an id of its own.
IdsDiffer ==
    /\ \A p \in Peers : id[p] <= lastId
    /\ \A p, q \in Peers : id[p] # 0 /\ id[p] = id[q] => p = q

\* Only the database assigns ids, each above all earlier ones.
LEMMA StepIds ==
    ASSUME IInv, IdsDiffer, [Next]_vars
    PROVE  IdsDiffer'
<1> USE DEF IInv, TypeOK, Ownership, PointersHeld, IdsDiffer
<1>1. ASSUME NEW t \in Rpc, CreateStep(t)
      PROVE  IdsDiffer'
    <2>1. CASE Save(t) \/ SaveThrows(t)
        BY <2>1 DEF Save, SaveThrows, Store
    <2>2. CASE AddSerial(t) \/ AddId(t) \/ Announce(t)
        BY <2>2 DEF AddSerial, AddId, Announce
    <2> QED BY <1>1, <2>1, <2>2 DEF CreateStep
<1>2. ASSUME NEW t \in Rpc, DeleteStep(t) \/ NameStep(t)
      PROVE  IdsDiffer'
    BY <1>2 DEF DeleteStep, MarkDeleting, RemoveHooks, HooksRemoved, Retract, EraseIndexes,
                WaitDone, WaitTimeout, Purge, DeleteThrows, NameStep, NameGetPeer, NameNoPeer,
                NameWrite, Restart
<1>3. ASSUME NEW t \in Rpc, NEW p \in Peers,
             DeleteDevice(t, p) \/ SetName(t, p) \/ \E s \in Serials : CreateDevice(t, s, p)
      PROVE  IdsDiffer'
    BY <1>3 DEF DeleteDevice, SetName, CreateDevice
<1>4. CASE WorkerStep
    BY <1>4 DEF WorkerStep, WorkerPick, WorkerStop, WorkerGet, WorkerCheck, WorkerRun
<1>5. CASE MainStep \/ Crash
    BY <1>5 DEF MainStep, HomegearStarted, SavePeersLock, ShutDown, VisitStep, InitPeer,
                PeerUnhooked, LoadPeer, SavePeersSave, HookPeer, UnhookPeer, EndStep, Dispose,
                Exit, Crash, Restart
<1>6. CASE UNCHANGED vars \/ \E w \in Web : WebServe(w) \/ \E p \in Peers : WebEnter(w, p)
    BY <1>6 DEF WebServe, WebEnter
<1> QED BY <1>1, <1>2, <1>3, <1>4, <1>5, <1>6 DEF Next, RpcStep

\* No two peers share an id, and no id is given out again after a removal or a
\* restart: what the index of ids and the worker's round rest on.
THEOREM IdsStayDifferent == Spec => []IdsDiffer
<1>1. Init => IdsDiffer
    BY DEF Init, IdsDiffer
<1>2. IInv /\ IdsDiffer /\ [Next]_vars => IdsDiffer'
    BY StepIds
<1> QED BY <1>1, <1>2, InvariantHolds, PTL DEF Spec

\* The keys of the index.
LEMMA IndexIds ==
    ASSUME IInv, IdsDiffer
    PROVE  /\ byId \subseteq Peers
           /\ \A p \in byId : id[p] \in Nat
           /\ \A p, q \in byId : id[p] = id[q] => p = q
BY DEF IInv, TypeOK, Ownership, ObjectsKnown, RegisteredIsStored, IdsDiffer

\* A set of peers that is not empty has one with the lowest id.
LEMMA LowestExists ==
    ASSUME NEW S \in SUBSET Peers, S # {}, \A p \in S : id[p] \in Nat
    PROVE  \E p \in S : IsLowest(p, S)
<1> DEFINE R == OpToRel(<, Nat)
           Ids == {id[p] : p \in S}
<1>1. Ids \subseteq Nat /\ Ids # {}
    OBVIOUS
<1>2. \E x \in Ids : \A y \in Ids : ~ (<<y, x>> \in R)
    <2> HIDE DEF Ids
    <2> QED BY <1>1, NatLessThanWellFounded, WFMin
<1>3. ASSUME NEW x \in Nat, NEW y \in Nat, ~ (<<y, x>> \in R)
      PROVE  x <= y
    <2>1. <<y, x>>[1] = y /\ <<y, x>>[2] = x /\ <<y, x>> \in Nat \X Nat
        OBVIOUS
    <2>2. y < x => <<y, x>> \in R
        BY <2>1, Zenon DEF OpToRel
    <2> HIDE DEF R
    <2> QED BY <1>3, <2>2
<1> HIDE DEF R
<1>4. PICK p \in S : \A q \in S : id[p] <= id[q]
    BY <1>2, <1>3
<1> QED BY <1>4 DEF IsLowest

\* The iterator always stands on exactly one entry.
OneNextPeer ==
    byId # {} => \E p \in byId : \A q \in byId : IsNextPeer(q) <=> q = p

\* As long as a peer is paired the worker finds the next one, and has no choice:
\* it neither runs past the end of the index nor stays behind.
THEOREM NextPeerFound == Spec => []OneNextPeer
<1>1. IInv /\ IdsDiffer => OneNextPeer
    <2> SUFFICES ASSUME IInv, IdsDiffer, byId # {}
                 PROVE  \E p \in byId : \A q \in byId : IsNextPeer(q) <=> q = p
        BY DEF OneNextPeer
    <2> DEFINE later == {q \in byId : lastPeer \in byId /\ id[q] > id[lastPeer]}
               S == IF later = {} THEN byId ELSE later
    <2>1. S # {} /\ S \subseteq byId /\ \A q : IsNextPeer(q) <=> IsLowest(q, S)
        BY DEF IsNextPeer
    <2> HIDE DEF S
    <2>2. PICK p \in S : IsLowest(p, S)
        BY <2>1, IndexIds, LowestExists
    <2>3. ASSUME NEW q \in S, IsLowest(q, S)
          PROVE  q = p
        BY <2>1, <2>2, <2>3, IndexIds DEF IsLowest
    <2> QED BY <2>1, <2>2, <2>3 DEF IsLowest
<1> QED BY <1>1, InvariantHolds, IdsStayDifferent, PTL

\* The next peer leaves the peers ahead of p, and none gets in.
LEMMA PickComesCloser ==
    ASSUME IInv, IdsDiffer, WorkerPick, lastPeer \in byId, NEW p \in byId
    PROVE  lastPeer' = p \/ (Ahead(p)' \subseteq Ahead(p) /\ Ahead(p)' # Ahead(p))
<1> DEFINE later == {q \in byId : id[q] > id[lastPeer]}
<1>1. PICK n \in byId : lastPeer' = n /\ IsLowest(n, IF later = {} THEN byId ELSE later)
    BY DEF WorkerPick, IsNextPeer
<1>2. Ahead(p)' = {q \in byId : IF id[n] < id[p] THEN id[n] < id[q] /\ id[q] < id[p]
                                                 ELSE id[q] > id[n] \/ id[q] < id[p]}
    BY <1>1 DEF WorkerPick, Ahead
<1> SUFFICES ASSUME n # p
             PROVE  n \in Ahead(p) /\ n \notin Ahead(p)' /\ Ahead(p)' \subseteq Ahead(p)
    BY <1>1
<1>3. id[n] # id[p] /\ \A q \in byId : id[q] \in Nat
    BY IndexIds
<1>4. CASE later = {}
    <2>1. id[n] < id[p] /\ \A q \in byId : id[n] <= id[q] /\ id[q] <= id[lastPeer]
        BY <1>1, <1>3, <1>4 DEF IsLowest
    <2> QED BY <1>2, <1>3, <2>1 DEF Ahead
<1>5. CASE later # {}
    <2>1. id[n] > id[lastPeer] /\ \A q \in byId : id[q] > id[lastPeer] => id[n] <= id[q]
        BY <1>1, <1>5 DEF IsLowest
    <2> QED BY <1>2, <1>3, <2>1 DEF Ahead
<1> QED BY <1>4, <1>5

\* With any number of peers, each turn of the worker brings it closer to every
\* peer it does not choose.
THEOREM RoundGoesOnForAll == Spec => RoundGoesOn
<1> DEFINE A == workerPc = "pick" /\ workerPc' = "get" /\ lastPeer \in byId =>
                    \A p \in byId :
                        lastPeer' = p \/ (Ahead(p)' \subseteq Ahead(p) /\ Ahead(p)' # Ahead(p))
<1>1. ASSUME IInv, IdsDiffer, Next
      PROVE  A
    <2>1. SUFFICES ASSUME workerPc = "pick", workerPc' = "get"
                   PROVE  WorkerPick
        BY <1>1, PickComesCloser
    <2>2. ~ (MainStep \/ Crash \/ \E t \in Rpc : RpcStep(t))
        <3>1. ~ (MainStep \/ Crash)
            BY <2>1 DEF MainStep, HomegearStarted, SavePeersLock, ShutDown, VisitStep, InitPeer,
                        PeerUnhooked, LoadPeer, SavePeersSave, HookPeer, UnhookPeer, EndStep,
                        Dispose, Exit, Crash, Restart
        <3>2. ~ \E t \in Rpc : RpcStep(t)
            BY <2>1 DEF RpcStep, CreateStep, AddSerial, Save, SaveThrows, AddId, Announce,
                        DeleteStep, MarkDeleting, RemoveHooks, HooksRemoved, Retract,
                        EraseIndexes, WaitDone, WaitTimeout, Purge, DeleteThrows, NameStep,
                        NameGetPeer, NameNoPeer, NameWrite, Restart
        <3> QED BY <3>1, <3>2
    <2>3. ~ \E t \in Rpc, p \in Peers : DeleteDevice(t, p) \/ SetName(t, p)
                                        \/ \E s \in Serials : CreateDevice(t, s, p)
        BY <2>1 DEF DeleteDevice, SetName, CreateDevice
    <2>4. ~ \E w \in Web : WebServe(w) \/ \E p \in Peers : WebEnter(w, p)
        BY <2>1 DEF WebServe, WebEnter
    <2>5. ~ (WorkerStop \/ WorkerGet \/ WorkerCheck \/ WorkerRun)
        BY <2>1 DEF WorkerStop, WorkerGet, WorkerCheck, WorkerRun
    <2> QED BY <1>1, <2>2, <2>3, <2>4, <2>5 DEF Next, WorkerStep
<1>2. IInv /\ IdsDiffer /\ [Next]_vars => [A]_vars
    BY <1>1
<1> QED BY <1>2, InvariantHolds, IdsStayDifferent, PTL DEF Spec, RoundGoesOn
=============================================================================
