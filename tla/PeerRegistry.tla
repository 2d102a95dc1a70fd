---------------------------- MODULE PeerRegistry ----------------------------
(***************************************************************************)
(* IpCamCentral: the two indexes of the paired cameras (_peersBySerial and *)
(* _peersById), the database rows behind them, and the threads that change *)
(* them: RPC and CLI threads that create, delete and name peers, the       *)
(* worker thread that visits one peer after the other, webserver threads   *)
(* that run a peer's handlers, and the main thread that loads, starts,     *)
(* saves and shuts down the peers.                                         *)
(*                                                                         *)
(* A peer stands for one camera and its IpCamPeer object.  The entry of    *)
(* _peersById under a peer's id is membership in the set byId: an id, once *)
(* the database has assigned it, is never changed or given out again.      *)
(* Every step is the code between two points where another thread can be   *)
(* seen; a section under _peersMutex that makes no call is one step that   *)
(* waits for the mutex to be free.                                         *)
(***************************************************************************)
EXTENDS Naturals

CONSTANTS
    Rpc,            \* threads that serve RPC calls and CLI commands
    Web,            \* threads of Homegear's webserver
    Worker,         \* the central's worker thread
    Main,           \* Homegear's main thread
    Peers,          \* every camera that can be created (a bound for TLC)
    Serials,        \* serial numbers
    NoPeer,         \* an empty pointer or index entry
    NoSerial,       \* the serial number of a camera not created yet
    MayThrow,       \* whether saving a new peer, or deleting one, may throw
    LoadMayFail,    \* whether loading a stored peer may fail
    Tours,          \* whether the main thread calls the peers (a bound for TLC)
    MaxCrashes      \* bound on the crashes and shutdowns of the process

ASSUME ConstantsAssumption ==
    /\ Worker \notin Rpc /\ Main \notin Rpc \cup {Worker}
    /\ NoPeer \notin Peers
    /\ NoSerial \notin Serials
    /\ MayThrow \in BOOLEAN
    /\ LoadMayFail \in BOOLEAN /\ Tours \in BOOLEAN
    /\ MaxCrashes \in Nat

VARIABLES
    pc,             \* where each RPC thread is
    arg,            \* the peer an RPC thread was asked for by id
    held,           \* the shared_ptr each thread holds
    workerPc,       \* where the worker thread is
    lastPeer,       \* the worker's lastPeer
    at,             \* the peer whose handler a webserver thread is in
    mutex,          \* "free", or "save" while savePeers holds _peersMutex
    toSave,         \* the peers savePeers has still to visit
    toLoad,         \* the rows loadPeers has still to visit
    stage,          \* what the main thread has told the central
    toVisit,        \* the peers it has still to tell of it
    bySerial,       \* _peersBySerial
    byId,           \* _peersById
    deleting,       \* the peers whose deleting flag is set
    hook,           \* the peers registered with the webserver
    serialOf, id,   \* each peer's serial number and id (0: not assigned)
    lastId,         \* the last id the database assigned
    db,             \* peers with a row in the database
    rows,           \* peers with parameter rows in the database
    listed,         \* the devices RPC clients have been told of
    tookTooLong,    \* peers for which "Peer deletion took too long" was logged
    rehooked,       \* peers hooked again after their deletion removed the hook
    nullPeer,       \* whether an empty peer pointer was dereferenced
    crashes

threadVars == <<pc, arg, held>>
workerVars == <<workerPc, lastPeer>>
mainVars == <<mutex, toSave, toLoad, stage, toVisit>>
indexVars == <<bySerial, byId>>
objectVars == <<deleting, hook, serialOf, id, lastId>>
diskVars == <<db, rows>>
logVars == <<listed, tookTooLong, rehooked, nullPeer, crashes>>
vars == <<threadVars, workerVars, at, mainVars, indexVars, objectVars, diskVars, logVars>>

CreateLabels == {"addSerial", "save", "addId", "announce"}
DeleteLabels == {"mark", "unhook", "drain", "retract", "erase", "wait", "purge"}
NameLabels == {"getPeer", "setName"}
Labels == {"idle"} \cup CreateLabels \cup DeleteLabels \cup NameLabels

\* The threads that hold shared_ptrs.
Holders == Rpc \cup {Worker, Main}

\* How far thread t is with its creation or deletion.
Creating(t) == pc[t] \in {"addSerial", "save", "addId"}
Unhooked(t) == pc[t] \in {"drain", "retract", "erase", "wait", "purge"}
Drained(t) == pc[t] \in {"retract", "erase", "wait", "purge"}
Erased(t) == pc[t] \in {"wait", "purge"}

Fresh(p) == serialOf[p] = NoSerial
Loaded == toLoad = {}
Lockable == mutex = "free"

Goto(t, label) == pc' = [pc EXCEPT ![t] = label]
Release(t) == held' = [held EXCEPT ![t] = NoPeer]

\* The main thread goes through a copy of the index: it holds the peer it is in
\* and those it has still to visit.
Holds(u, p) == held[u] = p \/ (u = Main /\ p \in toVisit)

\* Peer p's use_count() seen by thread t is 1: t's pointer is the only one left.
OnlyPointer(t, p) ==
    /\ p \notin byId
    /\ \A s \in Serials : bySerial[s] # p
    /\ \A u \in Holders \ {t} : ~Holds(u, p)

\* Somebody holds a pointer to peer p; when the last one goes, ~IpCamPeer runs
\* and removes the hooks.
Alive(p) ==
    \/ p \in byId
    \/ \E s \in Serials : bySerial[s] = p
    \/ \E u \in Holders : Holds(u, p)

Init ==
    /\ pc = [t \in Rpc |-> "idle"]
    /\ arg = [t \in Rpc |-> NoPeer]
    /\ held = [u \in Holders |-> NoPeer]
    /\ workerPc = "pick" /\ lastPeer = NoPeer
    /\ at = [w \in Web |-> NoPeer]
    /\ mutex = "free" /\ toSave = {} /\ toLoad = {}
    /\ stage = "loaded" /\ toVisit = {}
    /\ bySerial = [s \in Serials |-> NoPeer] /\ byId = {}
    /\ deleting = {} /\ hook = {}
    /\ serialOf = [p \in Peers |-> NoSerial]
    /\ id = [p \in Peers |-> 0] /\ lastId = 0
    /\ db = {} /\ rows = {}
    /\ listed = {} /\ tookTooLong = {} /\ rehooked = {} /\ nullPeer = FALSE /\ crashes = 0

-----------------------------------------------------------------------------
(* createDevice and "peers create" *)

\* peerExists(serial) was false under its own lock; createPeer builds the
\* object, whose constructor registers it with the webserver.
CreateDevice_NoCheck(t, s, p) ==
    /\ pc[t] = "idle" /\ Loaded /\ Lockable
    /\ Fresh(p)
    /\ serialOf' = [serialOf EXCEPT ![p] = s]
    /\ hook' = hook \cup {p}
    /\ held' = [held EXCEPT ![t] = p]
    /\ Goto(t, "addSerial")
    /\ UNCHANGED <<arg, workerVars, at, mainVars, indexVars, deleting, id, lastId,
                   diskVars, logVars>>

CreateDevice(t, s, p) ==
    /\ pc[t] = "idle" /\ Loaded /\ Lockable
    /\ bySerial[s] = NoPeer
    /\ Fresh(p)
    /\ serialOf' = [serialOf EXCEPT ![p] = s]
    /\ hook' = hook \cup {p}
    /\ held' = [held EXCEPT ![t] = p]
    /\ Goto(t, "addSerial")
    /\ UNCHANGED <<arg, workerVars, at, mainVars, indexVars, deleting, id, lastId,
                   diskVars, logVars>>

AddSerial_BothIndexes(t) ==
    /\ pc[t] = "addSerial" /\ Lockable
    /\ bySerial' = [bySerial EXCEPT ![serialOf[held[t]]] = held[t]]
    /\ byId' = byId \cup {held[t]}
    /\ Goto(t, "save")
    /\ UNCHANGED <<arg, held, workerVars, at, mainVars, objectVars, diskVars, logVars>>

AddSerial(t) ==
    /\ pc[t] = "addSerial" /\ Lockable
    /\ bySerial' = [bySerial EXCEPT ![serialOf[held[t]]] = held[t]]
    /\ Goto(t, "save")
    /\ UNCHANGED <<arg, held, workerVars, at, mainVars, byId, objectVars, diskVars, logVars>>

\* The database writes the peer's rows and assigns its id.
Store(p) ==
    /\ db' = db \cup {p}
    /\ rows' = rows \cup {p}
    /\ lastId' = lastId + 1
    /\ id' = [id EXCEPT ![p] = lastId + 1]

\* save(true, true, false) and initializeCentralConfig().
Save(t) ==
    /\ pc[t] = "save"
    /\ Store(held[t])
    /\ Goto(t, "addId")
    /\ UNCHANGED <<arg, held, workerVars, at, mainVars, indexVars, deleting, hook, serialOf,
                   logVars>>

\* One of the two throws, before or after the peer was stored.  The handler
\* unlocks _peersMutex, which this thread does not hold, and goes on.
SaveThrows(t) ==
    /\ pc[t] = "save" /\ MayThrow
    /\ \/ Store(held[t])
       \/ UNCHANGED <<diskVars, lastId, id>>
    /\ mutex' = "free"
    /\ Goto(t, "announce")
    /\ UNCHANGED <<arg, held, workerVars, at, toSave, toLoad, stage, toVisit, indexVars,
                   deleting, hook, serialOf, logVars>>

AddId(t) ==
    /\ pc[t] = "addId" /\ Lockable
    /\ byId' = byId \cup {held[t]}
    /\ Goto(t, "announce")
    /\ UNCHANGED <<arg, held, workerVars, at, mainVars, bySerial, objectVars, diskVars, logVars>>

\* raiseRPCNewDevices, and the end of the call.
Announce_Silent(t) ==
    /\ pc[t] = "announce"
    /\ Release(t)
    /\ Goto(t, "idle")
    /\ UNCHANGED <<arg, workerVars, at, mainVars, indexVars, objectVars, diskVars, logVars>>

Announce(t) ==
    /\ pc[t] = "announce"
    /\ listed' = listed \cup {held[t]}
    /\ Release(t)
    /\ Goto(t, "idle")
    /\ UNCHANGED <<arg, workerVars, at, mainVars, indexVars, objectVars, diskVars,
                   tookTooLong, rehooked, nullPeer, crashes>>

-----------------------------------------------------------------------------
(* deleteDevice and "peers remove": deletePeer *)

\* getPeer(id) found the peer.  A deletion by serial number first reads the
\* peer's id through _peersBySerial and then does the same.
DeleteDevice(t, p) ==
    /\ pc[t] = "idle" /\ Loaded /\ Lockable
    /\ p \in byId
    /\ held' = [held EXCEPT ![t] = p]
    /\ Goto(t, "mark")
    /\ UNCHANGED <<arg, workerVars, at, mainVars, indexVars, objectVars, diskVars, logVars>>

MarkDeleting(t) ==
    /\ pc[t] = "mark"
    /\ deleting' = deleting \cup {held[t]}
    /\ Goto(t, "unhook")
    /\ UNCHANGED <<arg, held, workerVars, at, mainVars, indexVars, hook, serialOf, id, lastId,
                   diskVars, logVars>>

\* removeHooks: no request is dispatched to the peer any more, ...
RemoveHooks_Kept(t) ==
    /\ pc[t] = "unhook"
    /\ Goto(t, "drain")
    /\ UNCHANGED <<arg, held, workerVars, at, mainVars, indexVars, objectVars, diskVars, logVars>>

RemoveHooks(t) ==
    /\ pc[t] = "unhook"
    /\ hook' = hook \ {held[t]}
    /\ Goto(t, "drain")
    /\ UNCHANGED <<arg, held, workerVars, at, mainVars, indexVars, deleting, serialOf, id,
                   lastId, diskVars, logVars>>

\* ... and those already in one of its handlers have left it.
HooksRemoved(t) ==
    /\ pc[t] = "drain"
    /\ \A w \in Web : at[w] # held[t]
    /\ Goto(t, "retract")
    /\ UNCHANGED <<arg, held, workerVars, at, mainVars, indexVars, objectVars, diskVars, logVars>>

\* raiseRPCDeleteDevices.
Retract(t) ==
    /\ pc[t] = "retract"
    /\ listed' = listed \ {held[t]}
    /\ Goto(t, "erase")
    /\ UNCHANGED <<arg, held, workerVars, at, mainVars, indexVars, objectVars, diskVars,
                   tookTooLong, rehooked, nullPeer, crashes>>

\* The entry under the peer's serial number goes, whichever peer it holds.
EraseIndexes_SerialOnly(t) ==
    /\ pc[t] = "erase" /\ Lockable
    /\ bySerial' = [bySerial EXCEPT ![serialOf[held[t]]] = NoPeer]
    /\ Goto(t, "wait")
    /\ UNCHANGED <<arg, held, workerVars, at, mainVars, byId, objectVars, diskVars, logVars>>

EraseIndexes(t) ==
    /\ pc[t] = "erase" /\ Lockable
    /\ bySerial' = [bySerial EXCEPT ![serialOf[held[t]]] = NoPeer]
    /\ byId' = byId \ {held[t]}
    /\ Goto(t, "wait")
    /\ UNCHANGED <<arg, held, workerVars, at, mainVars, objectVars, diskVars, logVars>>

\* The loop that waits for use_count() to drop to 1.
WaitDone_Unchecked(t) ==
    /\ pc[t] = "wait"
    /\ Goto(t, "purge")
    /\ UNCHANGED <<arg, held, workerVars, at, mainVars, indexVars, objectVars, diskVars, logVars>>

WaitDone(t) ==
    /\ pc[t] = "wait"
    /\ OnlyPointer(t, held[t])
    /\ Goto(t, "purge")
    /\ UNCHANGED <<arg, held, workerVars, at, mainVars, indexVars, objectVars, diskVars, logVars>>

\* The loop's 600 turns are over and another pointer is still there.
WaitTimeout_Never(t) == FALSE /\ UNCHANGED vars

WaitTimeout(t) ==
    /\ pc[t] = "wait"
    /\ ~OnlyPointer(t, held[t])
    /\ tookTooLong' = tookTooLong \cup {held[t]}
    /\ Goto(t, "purge")
    /\ UNCHANGED <<arg, held, workerVars, at, mainVars, indexVars, objectVars, diskVars,
                   listed, rehooked, nullPeer, crashes>>

\* deleteFromDatabase, and the end of the call.
Purge(t) ==
    /\ pc[t] = "purge"
    /\ db' = db \ {held[t]}
    /\ rows' = rows \ {held[t]}
    /\ Release(t)
    /\ Goto(t, "idle")
    /\ UNCHANGED <<arg, workerVars, at, mainVars, indexVars, objectVars, logVars>>

\* The handler of deletePeer logs an exception of removeHooks, of the event or
\* of deleteFromDatabase, and leaves everything else as it is by then.
DeleteThrows(t) ==
    /\ MayThrow /\ pc[t] \in {"unhook", "retract", "purge"}
    /\ \/ UNCHANGED listed
       \/ pc[t] = "retract" /\ listed' = listed \ {held[t]}
    /\ Release(t)
    /\ Goto(t, "idle")
    /\ UNCHANGED <<arg, workerVars, at, mainVars, indexVars, objectVars, diskVars,
                   tookTooLong, rehooked, nullPeer, crashes>>

-----------------------------------------------------------------------------
(* "peers setname" *)

\* peerExists(id) was true under its own lock.
SetName(t, p) ==
    /\ pc[t] = "idle" /\ Loaded /\ Lockable
    /\ p \in byId
    /\ arg' = [arg EXCEPT ![t] = p]
    /\ Goto(t, "getPeer")
    /\ UNCHANGED <<held, workerVars, at, mainVars, indexVars, objectVars, diskVars, logVars>>

NameGetPeer(t) ==
    /\ pc[t] = "getPeer" /\ Lockable
    /\ arg[t] \in byId
    /\ held' = [held EXCEPT ![t] = arg[t]]
    /\ arg' = [arg EXCEPT ![t] = NoPeer]
    /\ Goto(t, "setName")
    /\ UNCHANGED <<workerVars, at, mainVars, indexVars, objectVars, diskVars, logVars>>

NameWrite(t) ==
    /\ pc[t] = "setName"
    /\ rows' = rows \cup {held[t]}
    /\ Release(t)
    /\ Goto(t, "idle")
    /\ UNCHANGED <<arg, workerVars, at, mainVars, indexVars, objectVars, db, logVars>>

-----------------------------------------------------------------------------
(* The worker thread *)

IsLowest(p, S) == p \in S /\ \A q \in S : id[p] <= id[q]

\* find(lastPeer), then the next entry, or begin() at the end and when
\* lastPeer is gone.
IsNextPeer_Begin(p) == IsLowest(p, byId)

IsNextPeer(p) ==
    LET later == {q \in byId : lastPeer \in byId /\ id[q] > id[lastPeer]}
    IN  IsLowest(p, IF later = {} THEN byId ELSE later)

WorkerPick ==
    /\ workerPc = "pick" /\ stage # "stopping" /\ Lockable
    /\ \/ byId = {} /\ UNCHANGED lastPeer
       \/ \E p \in byId : IsNextPeer(p) /\ lastPeer' = p
    /\ workerPc' = "get"
    /\ UNCHANGED <<threadVars, at, mainVars, indexVars, objectVars, diskVars, logVars>>

\* The loop sees _stopWorkerThread.
WorkerStop ==
    /\ workerPc = "pick" /\ stage = "stopping"
    /\ workerPc' = "stopped"
    /\ UNCHANGED <<threadVars, lastPeer, at, mainVars, indexVars, objectVars, diskVars, logVars>>

\* getPeer(lastPeer); the peer may have been erased since.
WorkerGet_NoCheck ==
    /\ workerPc = "get" /\ Lockable
    /\ held' = [held EXCEPT ![Worker] = lastPeer]
    /\ workerPc' = "check"
    /\ UNCHANGED <<pc, arg, lastPeer, at, mainVars, indexVars, objectVars, diskVars, logVars>>

WorkerGet ==
    /\ workerPc = "get" /\ Lockable
    /\ IF lastPeer \in byId
       THEN held' = [held EXCEPT ![Worker] = lastPeer] /\ workerPc' = "check"
       ELSE workerPc' = "pick" /\ UNCHANGED held
    /\ UNCHANGED <<pc, arg, lastPeer, at, mainVars, indexVars, objectVars, diskVars, logVars>>

WorkerCheck ==
    /\ workerPc = "check"
    /\ IF held[Worker] \in deleting
       THEN workerPc' = "pick" /\ Release(Worker)
       ELSE workerPc' = "run" /\ UNCHANGED held
    /\ UNCHANGED <<pc, arg, lastPeer, at, mainVars, indexVars, objectVars, diskVars, logVars>>

\* peer->worker() may save the peer's MOTION variable.
WorkerRun ==
    /\ workerPc = "run"
    /\ rows' \in {rows, rows \cup {held[Worker]}}
    /\ workerPc' = "pick" /\ Release(Worker)
    /\ UNCHANGED <<pc, arg, lastPeer, at, mainVars, indexVars, objectVars, db, logVars>>

-----------------------------------------------------------------------------
(* Webserver threads: a camera or a browser calls one of the peer's URLs *)

\* The webserver holds the peer's address, not a shared_ptr.
WebEnter(w, p) ==
    /\ at[w] = NoPeer
    /\ p \in hook /\ Alive(p)
    /\ at' = [at EXCEPT ![w] = p]
    /\ UNCHANGED <<threadVars, workerVars, mainVars, indexVars, objectVars, diskVars, logVars>>

\* A stream or snapshot writes nothing; a motion call saves MOTION, once the
\* peer has that variable.
WebServe(w) ==
    /\ at[w] # NoPeer
    /\ \/ UNCHANGED rows
       \/ id[at[w]] # 0 /\ rows' = rows \cup {at[w]}
    /\ at' = [at EXCEPT ![w] = NoPeer]
    /\ UNCHANGED <<threadVars, workerVars, mainVars, indexVars, objectVars, db, logVars>>

-----------------------------------------------------------------------------
(* The main thread *)

\* One turn of loadPeers: a peer whose load() fails is skipped.  Clients list
\* the loaded devices when they connect to the new process.
LoadPeer(p) ==
    /\ p \in toLoad /\ Lockable
    /\ toLoad' = toLoad \ {p}
    /\ \/ /\ byId' = byId \cup {p}
          /\ bySerial' = [bySerial EXCEPT ![serialOf[p]] = p]
          /\ hook' = hook \cup {p}
          /\ rows' = rows \cup {p}
          /\ listed' = listed \cup {p}
       \/ LoadMayFail /\ UNCHANGED <<byId, bySerial, hook, rows, listed>>
    /\ UNCHANGED <<threadVars, workerVars, at, mutex, toSave, stage, toVisit, deleting, serialOf,
                   id, lastId, db, tookTooLong, rehooked, nullPeer, crashes>>

\* It is in none of its other loops.
MainFree == Loaded /\ toSave = {} /\ toVisit = {} /\ held[Main] = NoPeer

\* homegearStarted is called for a copy of the index, peer by peer: ...
HomegearStarted ==
    /\ Tours /\ MainFree /\ Lockable /\ stage = "loaded"
    /\ stage' = "started" /\ toVisit' = byId
    /\ UNCHANGED <<threadVars, workerVars, at, mutex, toSave, toLoad, indexVars, objectVars,
                   diskVars, logVars>>

\* ... it hooks the peer again, whatever has happened to its hook since, ...
HookPeer(p) ==
    /\ stage = "started" /\ held[Main] = NoPeer /\ p \in toVisit
    /\ hook' = hook \cup {p}
    /\ rehooked' = IF p \notin byId \/ \E t \in Rpc : held[t] = p /\ Unhooked(t)
                   THEN rehooked \cup {p} ELSE rehooked
    /\ toVisit' = toVisit \ {p} /\ held' = [held EXCEPT ![Main] = p]
    /\ UNCHANGED <<pc, arg, workerVars, at, mutex, toSave, toLoad, stage, indexVars, deleting,
                   serialOf, id, lastId, diskVars, listed, tookTooLong, nullPeer, crashes>>

\* ... and initHttpClient may save the peer's announced URLs.
InitPeer ==
    /\ stage = "started" /\ held[Main] # NoPeer
    /\ rows' \in {rows, rows \cup {held[Main]}}
    /\ Release(Main)
    /\ UNCHANGED <<pc, arg, workerVars, at, mainVars, indexVars, objectVars, db, logVars>>

\* savePeers holds _peersMutex while it saves every peer of _peersById.
SavePeersLock ==
    /\ MainFree /\ Lockable /\ byId # {}
    /\ mutex' = "save"
    /\ toSave' = byId
    /\ UNCHANGED <<threadVars, workerVars, at, toLoad, stage, toVisit, indexVars, objectVars,
                   diskVars, logVars>>

SavePeersSave(p) ==
    /\ p \in toSave
    /\ toSave' = toSave \ {p}
    /\ db' = db \cup {p}
    /\ rows' = rows \cup {p}
    /\ mutex' = IF toSave = {p} THEN "free" ELSE mutex
    /\ UNCHANGED <<threadVars, workerVars, at, toLoad, stage, toVisit, indexVars, objectVars,
                   logVars>>

\* homegearShuttingDown is called for a copy of the index too: ...
ShutDown ==
    /\ MainFree /\ Lockable /\ stage = "started"
    /\ crashes < MaxCrashes /\ crashes' = crashes + 1
    /\ stage' = "unhooking" /\ toVisit' = byId
    /\ UNCHANGED <<threadVars, workerVars, at, mutex, toSave, toLoad, indexVars, objectVars,
                   diskVars, listed, tookTooLong, rehooked, nullPeer>>

\* ... it removes the hooks of each peer, ...
UnhookPeer_Kept(p) ==
    /\ stage = "unhooking" /\ held[Main] = NoPeer /\ p \in toVisit
    /\ toVisit' = toVisit \ {p} /\ held' = [held EXCEPT ![Main] = p]
    /\ UNCHANGED <<pc, arg, workerVars, at, mutex, toSave, toLoad, stage, indexVars, objectVars,
                   diskVars, logVars>>

UnhookPeer(p) ==
    /\ stage = "unhooking" /\ held[Main] = NoPeer /\ p \in toVisit
    /\ hook' = hook \ {p}
    /\ toVisit' = toVisit \ {p} /\ held' = [held EXCEPT ![Main] = p]
    /\ UNCHANGED <<pc, arg, workerVars, at, mutex, toSave, toLoad, stage, indexVars, deleting,
                   serialOf, id, lastId, diskVars, logVars>>

\* ... and goes on to the next one when no request is in it any more.
PeerUnhooked ==
    /\ stage = "unhooking" /\ held[Main] # NoPeer
    /\ \A w \in Web : at[w] # held[Main]
    /\ Release(Main)
    /\ UNCHANGED <<pc, arg, workerVars, at, mainVars, indexVars, objectVars, diskVars, logVars>>

\* dispose tells the worker to stop and waits for it.
Dispose ==
    /\ MainFree /\ stage = "unhooking"
    /\ stage' = "stopping"
    /\ UNCHANGED <<threadVars, workerVars, at, mutex, toSave, toLoad, toVisit, indexVars,
                   objectVars, diskVars, logVars>>

-----------------------------------------------------------------------------
(* The end of the process, and its next start *)

\* Whoever is still stored is loaded, as if nothing had happened to it.
Restart ==
    /\ pc' = [t \in Rpc |-> "idle"]
    /\ arg' = [t \in Rpc |-> NoPeer]
    /\ held' = [u \in Holders |-> NoPeer]
    /\ workerPc' = "pick" /\ lastPeer' = NoPeer
    /\ at' = [w \in Web |-> NoPeer]
    /\ mutex' = "free" /\ toSave' = {} /\ toLoad' = db
    /\ stage' = "loaded" /\ toVisit' = {}
    /\ bySerial' = [s \in Serials |-> NoPeer] /\ byId' = {}
    /\ deleting' = {} /\ hook' = {} /\ listed' = {}
    /\ tookTooLong' = tookTooLong \ db /\ rehooked' = rehooked \ db
    /\ UNCHANGED <<serialOf, id, lastId, diskVars>>

Crash ==
    /\ crashes < MaxCrashes
    /\ crashes' = crashes + 1
    /\ Restart
    /\ UNCHANGED nullPeer

\* The worker has been joined and the central is gone.
Exit ==
    /\ workerPc = "stopped"
    /\ Restart
    /\ UNCHANGED <<nullPeer, crashes>>

\* getPeer returned nothing to "peers setname": the process ends.
NameNoPeer(t) ==
    /\ pc[t] = "getPeer" /\ Lockable
    /\ arg[t] \notin byId
    /\ nullPeer' = TRUE
    /\ Restart
    /\ UNCHANGED crashes

-----------------------------------------------------------------------------
CreateStep(t) == AddSerial(t) \/ Save(t) \/ SaveThrows(t) \/ AddId(t) \/ Announce(t)

DeleteStep(t) ==
    \/ MarkDeleting(t) \/ RemoveHooks(t) \/ HooksRemoved(t) \/ Retract(t)
    \/ EraseIndexes(t) \/ WaitDone(t) \/ WaitTimeout(t) \/ Purge(t) \/ DeleteThrows(t)

NameStep(t) == NameGetPeer(t) \/ NameNoPeer(t) \/ NameWrite(t)

RpcStep(t) == CreateStep(t) \/ DeleteStep(t) \/ NameStep(t)

WorkerStep == WorkerPick \/ WorkerStop \/ WorkerGet \/ WorkerCheck \/ WorkerRun

\* The main thread goes on with what it began.
VisitStep ==
    \/ InitPeer \/ PeerUnhooked
    \/ \E p \in Peers : LoadPeer(p) \/ SavePeersSave(p) \/ HookPeer(p) \/ UnhookPeer(p)

EndStep == Dispose \/ Exit

MainStep == HomegearStarted \/ SavePeersLock \/ ShutDown \/ VisitStep \/ EndStep

Next ==
    \/ \E t \in Rpc, s \in Serials, p \in Peers : CreateDevice(t, s, p)
    \/ \E t \in Rpc, p \in Peers : DeleteDevice(t, p) \/ SetName(t, p)
    \/ \E t \in Rpc : RpcStep(t)
    \/ WorkerStep
    \/ \E w \in Web, p \in Peers : WebEnter(w, p)
    \/ \E w \in Web : WebServe(w)
    \/ MainStep
    \/ Crash

Spec == Init /\ [][Next]_vars

\* A call that has begun goes on, the worker loops, handlers return and the
\* main thread finishes what it began; who waits for _peersMutex gets it in
\* the end (SF).  Nobody has to begin a call, and nothing has to fail.
Fairness ==
    /\ \A t \in Rpc : SF_vars(RpcStep(t))
    /\ SF_vars(WorkerStep)
    /\ \A w \in Web : WF_vars(WebServe(w))
    /\ WF_vars(VisitStep)
    /\ SF_vars(EndStep)

FairSpec == Spec /\ Fairness

-----------------------------------------------------------------------------
(* Properties *)

TypeOK ==
    /\ pc \in [Rpc -> Labels]
    /\ arg \in [Rpc -> Peers \cup {NoPeer}]
    /\ held \in [Holders -> Peers \cup {NoPeer}]
    /\ workerPc \in {"pick", "get", "check", "run", "stopped"}
    /\ lastPeer \in Peers \cup {NoPeer}
    /\ at \in [Web -> Peers \cup {NoPeer}]
    /\ mutex \in {"free", "save"}
    /\ toSave \subseteq Peers /\ toLoad \subseteq Peers /\ toVisit \subseteq Peers
    /\ stage \in {"loaded", "started", "unhooking", "stopping"}
    /\ bySerial \in [Serials -> Peers \cup {NoPeer}] /\ byId \subseteq Peers
    /\ deleting \subseteq Peers /\ hook \subseteq Peers
    /\ serialOf \in [Peers -> Serials \cup {NoSerial}]
    /\ id \in [Peers -> Nat] /\ lastId \in Nat
    /\ db \subseteq Peers /\ rows \subseteq Peers
    /\ listed \subseteq Peers /\ tookTooLong \subseteq Peers /\ rehooked \subseteq Peers
    /\ nullPeer \in BOOLEAN /\ crashes \in Nat

\* A peer callers can reach by its id has its row in the database, so that a
\* crash at any moment loses no paired camera (create saves first, delete
\* removes the row last).
RegisteredIsStored == byId \subseteq db

\* No worker, request, CLI command or homegearStarted writes parameter rows for
\* a peer that deletePeer has removed from the database, unless it gave up
\* waiting, or homegearStarted hooked the peer again after removeHooks.
NoOrphanRows == rows \subseteq db \cup tookTooLong \cup rehooked

\* Clients know of every peer that can be reached, but for the moment between
\* the index and the event of a call that is creating or deleting it, and for
\* a deletion that an exception ended there.
RegisteredIsListed ==
    \A p \in byId \ listed :
        \/ \E t \in Rpc : held[t] = p /\ pc[t] \in {"announce", "erase"}
        \/ MayThrow /\ p \in deleting

\* What every thread may rely on about the peer it holds; the reason why the
\* two properties on the database hold.
PointersHeld ==
    /\ \A t \in Rpc : held[t] = NoPeer <=> pc[t] \in {"idle", "getPeer"}
    /\ held[Worker] = NoPeer <=> workerPc \in {"pick", "get", "stopped"}
    /\ \A u \in Holders, p \in Peers : Holds(u, p) => ~Fresh(p)

ObjectsKnown ==
    /\ \A p \in hook : ~Fresh(p) /\ (id[p] # 0 => p \in db \cup rehooked)
    /\ \A p \in db \cup toSave \cup deleting : id[p] # 0
    /\ \A p \in Peers : id[p] # 0 => ~Fresh(p)

LoadedFirst ==
    /\ toLoad \subseteq db
    /\ toLoad # {} =>
          /\ \A t \in Rpc : pc[t] = "idle"
          /\ toVisit = {} /\ held[Main] = NoPeer /\ deleting = {}

\* Without the unlock in a catch, savePeers sees no peer erased under it.
SavedUnderLock ==
    \/ MayThrow
    \/ toSave \subseteq byId /\ (mutex = "free" <=> toSave = {})

CreatorOwnsPeer ==
    \A t \in Rpc : Creating(t) =>
        /\ held[t] \notin byId \cup deleting
        /\ pc[t] \in {"addSerial", "save"} <=> id[held[t]] = 0
        /\ pc[t] = "addId" => held[t] \in db
        /\ \A u \in Holders \ {t} : ~Holds(u, held[t])

\* At each point of a deletion, that the peer is marked, and who can no longer
\* use it: requests, whom only homegearStarted lets in again, callers, and all
\* holders of pointers.
DeleterExcludesWriters ==
    \A t \in Rpc :
        /\ pc[t] \in DeleteLabels => id[held[t]] # 0
        /\ pc[t] = "mark" => held[t] \in byId \cup deleting
        /\ pc[t] \in DeleteLabels \ {"mark"} => held[t] \in deleting
        /\ Unhooked(t) => held[t] \notin hook \ rehooked
        /\ Drained(t) => held[t] \in rehooked \/ \A w \in Web : at[w] # held[t]
        /\ Erased(t) => held[t] \notin byId
        /\ pc[t] = "purge" /\ held[t] \notin tookTooLong =>
              \A u \in Holders \ {t} : ~Holds(u, held[t])

WritersPeersStored ==
    /\ \A t \in Rpc : pc[t] = "setName" => held[t] \in db \cup tookTooLong
    /\ \A u \in {Worker, Main}, p \in Peers : Holds(u, p) => p \in db \cup tookTooLong
    /\ \A w \in Web : at[w] # NoPeer /\ id[at[w]] # 0 => at[w] \in db \cup rehooked

\* The inductive invariant of the proofs: threads, indexes and database agree
\* on who may still use which peer.
Ownership ==
    /\ PointersHeld /\ ObjectsKnown /\ LoadedFirst /\ SavedUnderLock
    /\ CreatorOwnsPeer /\ DeleterExcludesWriters /\ WritersPeersStored

\* The webserver holds no pointer to a peer: when deletePeer has taken one out
\* of the indexes, no request is in it, and no hook leads a new one there, so
\* that the last pointer can go; also when an exception ended the deletion
\* half-way, and unless homegearStarted hooked the peer again in between.
RemovedHasNoRequests ==
    \A p \in (deleting \ byId) \ rehooked : p \notin hook /\ \A w \in Web : at[w] # p

\* Nobody gets a new pointer to a peer that was taken out of the indexes, so
\* that use_count() only falls while deletePeer looks at it, and stays 1 after
\* its loop has seen a 1.
RemovedIsLetGo ==
    [][\A p \in deleting \ byId :
          /\ \A u \in Holders : Holds(u, p)' => Holds(u, p)
          /\ \A s \in Serials : bySerial'[s] = p => bySerial[s] = p
          /\ p \notin byId']_vars

\* What a client may expect of calls that do not overlap: between them both
\* indexes and the clients' list hold the same peers.
IndexesAgree ==
    (Loaded /\ \A t \in Rpc : pc[t] = "idle") =>
        /\ \A p \in byId : bySerial[serialOf[p]] = p
        /\ \A s \in Serials : bySerial[s] # NoPeer => bySerial[s] \in byId
        /\ listed = byId

\* The promise behind "This peer is already paired to this central.".
SerialPairedOnce ==
    \A p, q \in byId : serialOf[p] = serialOf[q] => p = q

\* The promise behind "This peer is not paired to this central." of setname.
NoNullPeer == ~nullPeer

\* The registry keeps the promises of PeerLifecycle.
Phase(p) ==
    IF p \in byId THEN "paired"
    ELSE IF p \in db THEN "stored"
    ELSE IF id[p] # 0 THEN "removed" ELSE "new"

Lifecycle == INSTANCE PeerLifecycle WITH
                 MayReturn <- MayThrow,
                 phase     <- [p \in Peers |-> Phase(p)]

\* Every step of the threads is a step of one camera's life, or none of it.  An
\* exception while saving unlocks _peersMutex under savePeers, which may then
\* store a camera again that was just removed.
ImplementsLifecycle == Lifecycle!Spec

\* For calls that do not overlap the database is the map of Pairing.
Map == INSTANCE Pairing WITH
           Cameras <- Peers,
           paired  <- {[serial |-> serialOf[p], camera |-> p] : p \in db}

ImplementsPairing == Map!Spec

\* A call that deletes a peer returns, whoever else holds a pointer to it; only
\* the requests to a peer that homegearStarted hooked again may delay it for ever.
DeletionEnds ==
    \A t \in Rpc : pc[t] \in DeleteLabels ~> pc[t] = "idle" \/ held[t] \in rehooked

\* The worker's round visits every peer that stays, until it is told to stop.
EveryPeerVisited ==
    \A p \in Peers : p \in byId ~> held[Worker] = p \/ p \notin byId \/ stage = "stopping"

\* The peers of the round between lastPeer and p.
Ahead(p) ==
    {q \in byId : IF id[lastPeer] < id[p]
                  THEN id[lastPeer] < id[q] /\ id[q] < id[p]
                  ELSE id[q] > id[lastPeer] \/ id[q] < id[p]}

\* Each turn of the worker comes closer to every peer it does not choose, so
\* that none waits for ever, unless the peer last visited has been deleted.
RoundGoesOn ==
    [][workerPc = "pick" /\ workerPc' = "get" /\ lastPeer \in byId =>
          \A p \in byId :
              lastPeer' = p \/ (Ahead(p)' \subseteq Ahead(p) /\ Ahead(p)' # Ahead(p))]_vars

\* A shutdown comes to its end: the requests leave one peer after the other, and
\* the worker, wherever it is in its round and whoever holds _peersMutex, can be
\* joined.
ShutdownEnds == stage = "unhooking" ~> stage = "loaded"
=============================================================================
