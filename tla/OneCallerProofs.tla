--------------------------- MODULE OneCallerProofs ---------------------------
(***************************************************************************)
(* What PeerRegistry promises to calls that do not overlap, for any number *)
(* of cameras, serial numbers and crashes: both indexes and the clients'   *)
(* list hold the same peers, and the database is a map.  Saving and        *)
(* deleting do not throw and loading does not fail; without any one of the *)
(* three assumptions an index entry and its row may part.                  *)
(***************************************************************************)
EXTENDS PeerRegistryProofs

USE ConstantsAssumption
USE DEF vars, threadVars, workerVars, mainVars, indexVars, objectVars, diskVars, logVars
USE DEF Goto, Release, Fresh, Loaded, Lockable, Creating, Unhooked, Drained, Erased
USE DEF Holders, Holds, MainFree
USE DEF Labels, CreateLabels, DeleteLabels, NameLabels

OneCaller ==
    /\ \A t, u \in Rpc : t = u
    /\ ~MayThrow /\ ~LoadMayFail

\* The peers a call holds at one of the labels.
HeldAt(labels) == {p \in Peers : \E t \in Rpc : held[t] = p /\ pc[t] \in labels}

\* The peers whose serial number is taken.
Known == db \cup HeldAt({"addSerial", "save", "addId"})

SerialsDiffer == \A p, q \in Known : serialOf[p] = serialOf[q] => p = q

\* What is stored is loaded, or about to be, or in the hands of a call.
StoredIsFound == db \subseteq byId \cup toLoad \cup HeldAt({"addId", "wait", "purge"})

\* A call that announces or deletes a peer is about one that is reachable.
CalledIsFound == HeldAt({"announce", "mark", "unhook", "drain", "retract", "erase"}) \subseteq byId

SerialsLead ==
    /\ \A p \in byId \cup HeldAt({"save", "addId"}) : bySerial[serialOf[p]] = p
    /\ \A s \in Serials : bySerial[s] # NoPeer =>
          serialOf[bySerial[s]] = s /\ bySerial[s] \in byId \cup HeldAt({"save", "addId"})

ListFollows == listed = byId \ HeldAt({"announce", "erase"})

\* The inductive invariant, which rests on IInv.
Agreement == SerialsDiffer /\ StoredIsFound /\ CalledIsFound /\ SerialsLead /\ ListFollows

\* A creation takes a serial number no stored peer has, and fills the three
\* places in its order; nothing comes between.
LEMMA CreateAgrees ==
    ASSUME OneCaller, IInv, Agreement, NEW t \in Rpc,
           CreateStep(t) \/ \E s \in Serials, p \in Peers : CreateDevice(t, s, p)
    PROVE  Agreement'
<1> USE DEF OneCaller, IInv, TypeOK, Ownership, PointersHeld, CreatorOwnsPeer, HeldAt
<1>1. ASSUME NEW s \in Serials, NEW p \in Peers, CreateDevice(t, s, p)
      PROVE  Agreement'
    <2> USE <1>1 DEF CreateDevice
    <2>1. \A q \in Known : q \in byId /\ q # p /\ serialOf[q] # s
        BY DEF Agreement, Known, StoredIsFound, SerialsLead, RegisteredIsStored, ObjectsKnown
    <2>2. Known' = Known \cup {p}
        BY DEF Known
    <2>3. SerialsDiffer'
        BY <2>1, <2>2 DEF Agreement, SerialsDiffer
    <2>4. SerialsLead'
        BY <2>1 DEF Agreement, SerialsLead, Known, RegisteredIsStored
    <2>5. StoredIsFound' /\ CalledIsFound' /\ ListFollows'
        BY DEF Agreement, StoredIsFound, CalledIsFound, ListFollows
    <2> QED BY <2>3, <2>4, <2>5 DEF Agreement
<1>2. CASE AddSerial(t)
    <2> USE <1>2 DEF AddSerial
    <2>1. \A p \in byId : serialOf[p] # serialOf[held[t]]
        BY DEF Agreement, SerialsDiffer, Known, RegisteredIsStored
    <2>2. SerialsLead'
        BY <2>1 DEF Agreement, SerialsLead
    <2>3. SerialsDiffer' /\ StoredIsFound' /\ CalledIsFound' /\ ListFollows'
        BY DEF Agreement, SerialsDiffer, Known, StoredIsFound, CalledIsFound, ListFollows
    <2> QED BY <2>2, <2>3 DEF Agreement
<1>3. CASE Save(t)
    <2> USE <1>3 DEF Save, Store
    <2>1. Known' = Known
        BY DEF Known
    <2>2. SerialsDiffer' /\ StoredIsFound' /\ CalledIsFound' /\ SerialsLead' /\ ListFollows'
        BY <2>1 DEF Agreement, SerialsDiffer, StoredIsFound, CalledIsFound, SerialsLead,
                    ListFollows
    <2> QED BY <2>2 DEF Agreement
<1>4. CASE AddId(t)
    <2> USE <1>4 DEF AddId
    <2>1. SerialsLead'
        BY DEF Agreement, SerialsLead
    <2>2. SerialsDiffer'
        BY DEF Agreement, SerialsDiffer, Known
    <2>3. ListFollows'
        <3>1. HeldAt({"announce", "erase"}) = {} /\ HeldAt({"announce", "erase"})' = {held[t]}
            OBVIOUS
        <3>2. listed = byId /\ held[t] \notin byId
            BY <3>1 DEF Agreement, ListFollows
        <3> QED BY <3>1, <3>2 DEF ListFollows
    <2>4. StoredIsFound' /\ CalledIsFound'
        BY DEF Agreement, StoredIsFound, CalledIsFound
    <2> QED BY <2>1, <2>2, <2>3, <2>4 DEF Agreement
<1>5. CASE Announce(t)
    <2> USE <1>5 DEF Announce
    <2>1. ListFollows'
        BY DEF Agreement, ListFollows, CalledIsFound
    <2>2. SerialsDiffer' /\ StoredIsFound' /\ CalledIsFound' /\ SerialsLead'
        BY DEF Agreement, SerialsDiffer, Known, StoredIsFound, CalledIsFound, SerialsLead
    <2> QED BY <2>1, <2>2 DEF Agreement
<1> QED BY <1>1, <1>2, <1>3, <1>4, <1>5 DEF CreateStep, SaveThrows

\* A deletion takes the peer out of the list and the indexes, and frees its
\* serial number last.
LEMMA DeleteAgrees ==
    ASSUME OneCaller, IInv, Agreement, NEW t \in Rpc,
           DeleteStep(t) \/ \E p \in Peers : DeleteDevice(t, p)
    PROVE  Agreement'
<1> USE DEF OneCaller, IInv, TypeOK, Ownership, PointersHeld, HeldAt
<1>1. ASSUME NEW p \in Peers, DeleteDevice(t, p)
      PROVE  Agreement'
    BY <1>1 DEF DeleteDevice, Agreement, SerialsDiffer, Known, StoredIsFound, CalledIsFound,
                SerialsLead, ListFollows
<1>2. CASE MarkDeleting(t) \/ RemoveHooks(t) \/ HooksRemoved(t)
    BY <1>2 DEF MarkDeleting, RemoveHooks, HooksRemoved, Agreement, SerialsDiffer, Known,
                StoredIsFound, CalledIsFound, SerialsLead, ListFollows
<1>3. CASE Retract(t)
    <2> USE <1>3 DEF Retract
    <2>1. ListFollows'
        BY DEF Agreement, ListFollows
    <2>2. SerialsDiffer' /\ StoredIsFound' /\ CalledIsFound' /\ SerialsLead'
        BY DEF Agreement, SerialsDiffer, Known, StoredIsFound, CalledIsFound, SerialsLead
    <2> QED BY <2>1, <2>2 DEF Agreement
<1>4. CASE EraseIndexes(t)
    <2> USE <1>4 DEF EraseIndexes
    <2>1. \A p \in byId' : serialOf[p] # serialOf[held[t]]
        BY DEF Agreement, SerialsDiffer, Known, RegisteredIsStored, CalledIsFound
    <2>2. SerialsLead'
        BY <2>1 DEF Agreement, SerialsLead
    <2>3. ListFollows'
        BY DEF Agreement, ListFollows
    <2>4. SerialsDiffer' /\ StoredIsFound' /\ CalledIsFound'
        BY DEF Agreement, SerialsDiffer, Known, StoredIsFound, CalledIsFound
    <2> QED BY <2>2, <2>3, <2>4 DEF Agreement
<1>5. CASE WaitDone(t) \/ WaitTimeout(t)
    BY <1>5 DEF WaitDone, WaitTimeout, Agreement, SerialsDiffer, Known, StoredIsFound,
                CalledIsFound, SerialsLead, ListFollows
<1>6. CASE Purge(t)
    <2> USE <1>6 DEF Purge
    <2>1. StoredIsFound' /\ CalledIsFound'
        BY DEF Agreement, StoredIsFound, CalledIsFound
    <2>2. SerialsDiffer' /\ SerialsLead' /\ ListFollows'
        BY DEF Agreement, SerialsDiffer, Known, SerialsLead, ListFollows
    <2> QED BY <2>1, <2>2 DEF Agreement
<1> QED BY <1>1, <1>2, <1>3, <1>4, <1>5, <1>6 DEF DeleteStep, DeleteThrows

\* Naming a peer moves none of this.
LEMMA NameAgrees ==
    ASSUME OneCaller, IInv, Agreement, NEW t \in Rpc,
           NameGetPeer(t) \/ NameWrite(t) \/ \E p \in Peers : SetName(t, p)
    PROVE  Agreement'
<1> USE DEF OneCaller, IInv, TypeOK, Ownership, PointersHeld, HeldAt
<1>1. ASSUME NEW p \in Peers, SetName(t, p)
      PROVE  Agreement'
    BY <1>1 DEF SetName, Agreement, SerialsDiffer, Known, StoredIsFound, CalledIsFound,
                SerialsLead, ListFollows
<1>2. CASE NameGetPeer(t)
    BY <1>2 DEF NameGetPeer, Agreement, SerialsDiffer, Known, StoredIsFound, CalledIsFound,
                SerialsLead, ListFollows
<1>3. CASE NameWrite(t)
    BY <1>3 DEF NameWrite, Agreement, SerialsDiffer, Known, StoredIsFound, CalledIsFound,
                SerialsLead, ListFollows
<1> QED BY <1>1, <1>2, <1>3

\* A new process has everything in the database, and loads it.
LEMMA RestartAgrees ==
    ASSUME OneCaller, IInv, Agreement, Restart
    PROVE  Agreement'
BY DEF Restart, IInv, TypeOK, Agreement, HeldAt, SerialsDiffer, Known, StoredIsFound,
       CalledIsFound, SerialsLead, ListFollows

\* A loaded peer gets into both indexes and the list at once, before any call.
LEMMA LoadAgrees ==
    ASSUME OneCaller, IInv, Agreement, NEW p \in Peers, LoadPeer(p)
    PROVE  Agreement'
<1> USE DEF OneCaller, IInv, TypeOK, Ownership, LoadedFirst, LoadPeer, HeldAt
<1>1. \A q \in byId \cup {p} : q \in Known /\ serialOf[q] \in Serials
    BY DEF Known, RegisteredIsStored, ObjectsKnown
<1>2. \A q \in byId : serialOf[q] = serialOf[p] => q = p
    BY <1>1 DEF Agreement, SerialsDiffer
<1>3. SerialsLead'
    BY <1>1, <1>2 DEF Agreement, SerialsLead
<1>4. ListFollows'
    BY DEF Agreement, ListFollows
<1>5. SerialsDiffer' /\ StoredIsFound' /\ CalledIsFound'
    BY DEF Agreement, SerialsDiffer, Known, StoredIsFound, CalledIsFound
<1> QED BY <1>3, <1>4, <1>5 DEF Agreement

\* The other threads change none of the three places.
LEMMA OthersAgree ==
    ASSUME IInv, ~MayThrow, Agreement,
           UNCHANGED <<pc, bySerial, byId, serialOf, db, toLoad, listed>>,
           \A t \in Rpc : held'[t] = held[t]
    PROVE  Agreement'
BY DEF Agreement, HeldAt, SerialsDiffer, Known, StoredIsFound, CalledIsFound, SerialsLead,
       ListFollows

\* Every step keeps the indexes and the list in step with each other.
LEMMA StepAgrees ==
    ASSUME OneCaller, IInv, Agreement, [Next]_vars
    PROVE  Agreement'
<1> USE DEF OneCaller
<1>1. ASSUME NEW t \in Rpc, RpcStep(t)
      PROVE  Agreement'
    BY <1>1, CreateAgrees, DeleteAgrees, NameAgrees, RestartAgrees DEF RpcStep, NameStep, NameNoPeer
<1>2. ASSUME NEW t \in Rpc, NEW p \in Peers,
             DeleteDevice(t, p) \/ SetName(t, p) \/ \E s \in Serials : CreateDevice(t, s, p)
      PROVE  Agreement'
    BY <1>2, CreateAgrees, DeleteAgrees, NameAgrees
<1>3. CASE WorkerStep
    <2>1. \A t \in Rpc : held'[t] = held[t]
        BY <1>3 DEF WorkerStep, WorkerPick, WorkerStop, WorkerGet, WorkerCheck, WorkerRun, IInv,
                    TypeOK
    <2> QED BY <1>3, <2>1, OthersAgree DEF WorkerStep, WorkerPick, WorkerStop, WorkerGet,
                                           WorkerCheck, WorkerRun
<1>4. CASE UNCHANGED vars \/ \E w \in Web : WebServe(w) \/ \E p \in Peers : WebEnter(w, p)
    BY <1>4, OthersAgree DEF WebServe, WebEnter
<1>7. CASE \/ HomegearStarted \/ InitPeer \/ SavePeersLock \/ ShutDown \/ PeerUnhooked
           \/ Dispose \/ \E p \in Peers : HookPeer(p) \/ UnhookPeer(p)
    <2>1. \A t \in Rpc : held'[t] = held[t]
        BY <1>7 DEF HomegearStarted, InitPeer, SavePeersLock, ShutDown, PeerUnhooked, Dispose,
                    HookPeer, UnhookPeer, IInv, TypeOK
    <2> QED BY <1>7, <2>1, OthersAgree DEF HomegearStarted, InitPeer, SavePeersLock, ShutDown,
                                           PeerUnhooked, Dispose, HookPeer, UnhookPeer
<1>5. ASSUME NEW p \in Peers, SavePeersSave(p)
      PROVE  Agreement'
    <2>1. UNCHANGED db
        BY <1>5 DEF SavePeersSave, IInv, Ownership, SavedUnderLock, RegisteredIsStored
    <2> QED BY <1>5, <2>1, OthersAgree DEF SavePeersSave
<1>6. CASE Crash \/ Exit
    BY <1>6, RestartAgrees DEF Crash, Exit
<1> QED BY <1>1, <1>2, <1>3, <1>4, <1>5, <1>6, <1>7, LoadAgrees
       DEF Next, MainStep, VisitStep, EndStep

\* The indexes and the list agree, with the calls in progress accounted for.
THEOREM AgreementHolds == OneCaller => (Spec => []Agreement)
<1> SUFFICES ASSUME OneCaller PROVE Spec => []Agreement
    OBVIOUS
<1>1. Init => Agreement
    BY DEF Init, Agreement, HeldAt, SerialsDiffer, Known, StoredIsFound, CalledIsFound,
           SerialsLead, ListFollows
<1>2. IInv /\ Agreement /\ [Next]_vars => Agreement'
    BY StepAgrees
<1> QED BY <1>1, <1>2, InvariantHolds, PTL DEF Spec

\* Calls that do not overlap leave both indexes and the clients' list with the
\* same peers, through any number of crashes and shutdowns.
THEOREM IndexesStayInStep == OneCaller => (Spec => []IndexesAgree)
<1> SUFFICES ASSUME OneCaller PROVE Spec => []IndexesAgree
    OBVIOUS
<1>1. Agreement => IndexesAgree
    BY DEF Agreement, HeldAt, SerialsLead, ListFollows, IndexesAgree
<1> QED BY <1>1, AgreementHolds, PTL

-----------------------------------------------------------------------------
(* The database implements Pairing *)

Entry(p) == [serial |-> serialOf[p], camera |-> p]
Entries == {Entry(p) : p \in db}

\* Without a change of the database no entry changes: the serial number of a
\* stored peer is never assigned again.
LEMMA EntriesStay ==
    ASSUME IInv, UNCHANGED db,
           UNCHANGED serialOf \/ \E t \in Rpc, s \in Serials, p \in Peers : CreateDevice(t, s, p)
    PROVE  Entries' = Entries
<1>1. \A p \in db : serialOf'[p] = serialOf[p]
    BY DEF CreateDevice, IInv, TypeOK, Ownership, ObjectsKnown
<1> QED BY <1>1 DEF Entries, Entry

\* The database gets one entry by Save and loses one by Purge.
LEMMA StepPairs ==
    ASSUME OneCaller, IInv, Agreement, [Next]_vars
    PROVE  [Map!Next]_Entries
<1> USE DEF OneCaller, IInv, TypeOK, Ownership, PointersHeld
<1>1. ASSUME NEW t \in Rpc, Save(t)
      PROVE  Map!Next
    <2>1. PICK p \in Peers : p = held[t] /\ p \notin db /\ serialOf[p] \in Serials
        BY <1>1 DEF Save, CreatorOwnsPeer, ObjectsKnown
    <2>2. \A q \in db : serialOf[q] # serialOf[p]
        BY <1>1, <2>1 DEF Save, Agreement, SerialsDiffer, Known, HeldAt
    <2>3. Entries' = Entries \cup {Entry(p)}
        BY <1>1, <2>1 DEF Save, Store, Entries, Entry
    <2>4. \A entry \in Entries : entry.serial # serialOf[p] /\ entry.camera # p
        BY <2>1, <2>2 DEF Entries, Entry
    <2>5. Map!Pair(serialOf[p], p)
        BY <2>3, <2>4 DEF Map!Pair, Entries, Entry
    <2> QED BY <2>1, <2>5 DEF Map!Next
<1>2. ASSUME NEW t \in Rpc, Purge(t)
      PROVE  [Map!Next]_Entries
    <2>1. PICK p \in Peers : p = held[t]
        BY <1>2 DEF Purge
    <2>2. Entries' = Entries \ {Entry(p)}
        BY <1>2, <2>1 DEF Purge, Entries, Entry
    <2>3. CASE p \in db
        <3>1. PICK entry \in Entries : Entries' = Entries \ {entry}
            BY <2>2, <2>3 DEF Entries
        <3>2. entry \in {[serial |-> serialOf[q], camera |-> q] : q \in db} /\ Map!Unpair(entry)
            BY <3>1 DEF Map!Unpair, Entries, Entry
        <3> QED BY <3>2 DEF Map!Next
    <2>4. CASE p \notin db
        BY <1>2, <2>1, <2>4, EntriesStay DEF Purge
    <2> QED BY <2>3, <2>4
<1>3. ASSUME NEW t \in Rpc, RpcStep(t), ~Save(t), ~Purge(t)
      PROVE  Entries' = Entries
    BY <1>3, EntriesStay DEF RpcStep, CreateStep, AddSerial, SaveThrows, AddId, Announce,
           DeleteStep, MarkDeleting, RemoveHooks, HooksRemoved, Retract, EraseIndexes, WaitDone,
           WaitTimeout, DeleteThrows, NameStep, NameGetPeer, NameNoPeer, NameWrite, Restart
<1>4. ASSUME NEW t \in Rpc, NEW p \in Peers,
             DeleteDevice(t, p) \/ SetName(t, p) \/ \E s \in Serials : CreateDevice(t, s, p)
      PROVE  Entries' = Entries
    <2>1. UNCHANGED db
        BY <1>4 DEF DeleteDevice, SetName, CreateDevice
    <2>2. UNCHANGED serialOf \/ \E s \in Serials : CreateDevice(t, s, p)
        BY <1>4 DEF DeleteDevice, SetName
    <2> QED BY <2>1, <2>2, EntriesStay
<1>5. ASSUME NEW p \in Peers, SavePeersSave(p)
      PROVE  Entries' = Entries
    <2>1. UNCHANGED <<db, serialOf>>
        BY <1>5 DEF SavePeersSave, SavedUnderLock, RegisteredIsStored
    <2> QED BY <2>1, EntriesStay
<1>6. CASE EndStep \/ Crash \/ \E p \in Peers : LoadPeer(p)
    BY <1>6, EntriesStay DEF EndStep, Dispose, Exit, Crash, Restart, LoadPeer
<1>9. CASE \/ HomegearStarted \/ InitPeer \/ SavePeersLock \/ ShutDown \/ PeerUnhooked
           \/ \E p \in Peers : HookPeer(p) \/ UnhookPeer(p)
    BY <1>9, EntriesStay DEF HomegearStarted, InitPeer, SavePeersLock, ShutDown, PeerUnhooked,
                             HookPeer, UnhookPeer
<1>7. CASE WorkerStep \/ UNCHANGED vars
    BY <1>7, EntriesStay DEF WorkerStep, WorkerPick, WorkerStop, WorkerGet, WorkerCheck, WorkerRun
<1>8. CASE \E w \in Web : WebServe(w) \/ \E p \in Peers : WebEnter(w, p)
    BY <1>8, EntriesStay DEF WebServe, WebEnter
<1> QED BY <1>1, <1>2, <1>3, <1>4, <1>5, <1>6, <1>7, <1>8, <1>9 DEF Next, MainStep, VisitStep

\* To callers that take turns the central is a map from serial numbers to
\* cameras, with any number of crashes, restarts and shutdowns in between.
THEOREM DatabaseIsPairing == OneCaller => (Spec => ImplementsPairing)
<1> SUFFICES ASSUME OneCaller PROVE Spec => ImplementsPairing
    OBVIOUS
<1>1. Init => Map!Init
    BY DEF Init, Map!Init
<1>2. IInv /\ Agreement /\ [Next]_vars
         => [Map!Next]_({[serial |-> serialOf[p], camera |-> p] : p \in db})
    BY StepPairs DEF Entries, Entry
<1> QED BY <1>1, <1>2, InvariantHolds, AgreementHolds, PTL DEF Spec, ImplementsPairing, Map!Spec

=============================================================================
