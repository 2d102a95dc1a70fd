-------------------------- MODULE PeerRegistryProofs --------------------------
(***************************************************************************)
(* Proofs about PeerRegistry, for any number of threads, cameras, serial   *)
(* numbers and crashes, with and without exceptions.                       *)
(*                                                                         *)
(* TLC checks each conjunct of IInv on small instances; none of them      *)
(* is inductive alone.  Ownership says which threads may still use a peer  *)
(* at each point of its deletion, from which the properties of the         *)
(* database follow.                                                        *)
(***************************************************************************)
EXTENDS PeerRegistry, TLAPS

USE ConstantsAssumption
USE DEF vars, threadVars, workerVars, mainVars, indexVars, objectVars, diskVars, logVars
USE DEF Goto, Release, Fresh, Loaded, Lockable, Creating, Unhooked, Drained, Erased
USE DEF Holders, Holds, MainFree
USE DEF Labels, CreateLabels, DeleteLabels, NameLabels

IInv == TypeOK /\ Ownership /\ RegisteredIsStored /\ NoOrphanRows /\ RegisteredIsListed

\* In a new process nobody holds, uses or stores anything.
LEMMA InitInv == Init => IInv
<1> SUFFICES ASSUME Init PROVE IInv
    OBVIOUS
<1> USE DEF Init
<1>1. TypeOK
    BY DEF TypeOK
<1>2. PointersHeld /\ ObjectsKnown /\ LoadedFirst /\ SavedUnderLock
    BY DEF PointersHeld, ObjectsKnown, LoadedFirst, SavedUnderLock
<1>3. CreatorOwnsPeer /\ DeleterExcludesWriters /\ WritersPeersStored
    BY DEF CreatorOwnsPeer, DeleterExcludesWriters, WritersPeersStored
<1>4. RegisteredIsStored /\ NoOrphanRows /\ RegisteredIsListed
    BY DEF RegisteredIsStored, NoOrphanRows, RegisteredIsListed
<1> QED BY <1>1, <1>2, <1>3, <1>4 DEF IInv, Ownership

\* createDevice: the peer is its creator's alone until AddId makes it reachable,
\* by which time it is stored; an exception keeps it out of byId.
LEMMA CreateKeeps ==
    ASSUME IInv, NEW t \in Rpc,
           CreateStep(t) \/ \E s \in Serials, p \in Peers : CreateDevice(t, s, p)
    PROVE  IInv'
<1> USE DEF IInv, Ownership
<1>1. ASSUME NEW s \in Serials, NEW p \in Peers, CreateDevice(t, s, p)
      PROVE  IInv'
    <2> USE <1>1 DEF CreateDevice
    <2>1. CreatorOwnsPeer'
        BY DEF TypeOK, PointersHeld, ObjectsKnown, CreatorOwnsPeer, RegisteredIsStored
    <2>2. DeleterExcludesWriters'
        BY DEF TypeOK, ObjectsKnown, DeleterExcludesWriters
    <2>3. /\ TypeOK' /\ PointersHeld' /\ ObjectsKnown' /\ LoadedFirst' /\ SavedUnderLock'
          /\ WritersPeersStored' /\ RegisteredIsStored' /\ NoOrphanRows'
          /\ RegisteredIsListed'
        BY DEF TypeOK, PointersHeld, ObjectsKnown, LoadedFirst, SavedUnderLock,
               WritersPeersStored, RegisteredIsStored, NoOrphanRows, RegisteredIsListed
    <2> QED BY <2>1, <2>2, <2>3
<1>2. CASE AddSerial(t)
    <2> USE <1>2 DEF AddSerial
    <2>1. TypeOK'
        BY DEF TypeOK, PointersHeld
    <2>2. /\ PointersHeld' /\ ObjectsKnown' /\ LoadedFirst' /\ SavedUnderLock'
          /\ CreatorOwnsPeer' /\ DeleterExcludesWriters' /\ WritersPeersStored'
          /\ RegisteredIsStored' /\ NoOrphanRows' /\ RegisteredIsListed'
        BY DEF TypeOK, PointersHeld, ObjectsKnown, LoadedFirst, SavedUnderLock,
               CreatorOwnsPeer, DeleterExcludesWriters, WritersPeersStored,
               RegisteredIsStored, NoOrphanRows, RegisteredIsListed
    <2> QED BY <2>1, <2>2
<1>3. CASE Save(t)
    <2> USE <1>3 DEF Save, Store
    <2>1. TypeOK'
        BY DEF TypeOK, PointersHeld
    <2>2. ObjectsKnown'
        BY DEF TypeOK, PointersHeld, ObjectsKnown
    <2>3. CreatorOwnsPeer'
        BY DEF TypeOK, PointersHeld, CreatorOwnsPeer
    <2>4. /\ PointersHeld' /\ LoadedFirst' /\ SavedUnderLock' /\ DeleterExcludesWriters'
          /\ WritersPeersStored' /\ RegisteredIsStored' /\ NoOrphanRows'
          /\ RegisteredIsListed'
        BY DEF TypeOK, PointersHeld, LoadedFirst, SavedUnderLock, DeleterExcludesWriters,
               WritersPeersStored, RegisteredIsStored, NoOrphanRows, RegisteredIsListed
    <2> QED BY <2>1, <2>2, <2>3, <2>4
<1>4. CASE SaveThrows(t)
    <2> USE <1>4 DEF SaveThrows, Store
    <2>1. TypeOK'
        BY DEF TypeOK, PointersHeld
    <2>2. ObjectsKnown'
        BY DEF TypeOK, PointersHeld, ObjectsKnown
    <2>3. CreatorOwnsPeer'
        BY DEF TypeOK, PointersHeld, CreatorOwnsPeer
    <2>4. DeleterExcludesWriters'
        BY DEF TypeOK, PointersHeld, DeleterExcludesWriters
    <2>5. /\ PointersHeld' /\ LoadedFirst' /\ SavedUnderLock' /\ WritersPeersStored'
          /\ RegisteredIsStored' /\ NoOrphanRows' /\ RegisteredIsListed'
        BY DEF TypeOK, PointersHeld, LoadedFirst, SavedUnderLock, WritersPeersStored,
               RegisteredIsStored, NoOrphanRows, RegisteredIsListed
    <2> QED BY <2>1, <2>2, <2>3, <2>4, <2>5
<1>5. CASE AddId(t)
    <2> USE <1>5 DEF AddId
    <2>1. TypeOK'
        BY DEF TypeOK, PointersHeld
    <2>2. DeleterExcludesWriters'
        BY DEF TypeOK, PointersHeld, CreatorOwnsPeer, DeleterExcludesWriters
    <2>3. RegisteredIsStored'
        BY DEF TypeOK, CreatorOwnsPeer, RegisteredIsStored
    <2>4. /\ PointersHeld' /\ ObjectsKnown' /\ LoadedFirst' /\ SavedUnderLock'
          /\ CreatorOwnsPeer' /\ WritersPeersStored' /\ NoOrphanRows'
          /\ RegisteredIsListed'
        BY DEF TypeOK, PointersHeld, ObjectsKnown, LoadedFirst, SavedUnderLock,
               CreatorOwnsPeer, WritersPeersStored, NoOrphanRows, RegisteredIsListed
    <2> QED BY <2>1, <2>2, <2>3, <2>4
<1>6. CASE Announce(t)
    <2> USE <1>6 DEF Announce
    <2>1. TypeOK'
        BY DEF TypeOK, PointersHeld
    <2>2. CreatorOwnsPeer'
        BY DEF TypeOK, PointersHeld, CreatorOwnsPeer
    <2>3. DeleterExcludesWriters'
        BY DEF TypeOK, PointersHeld, DeleterExcludesWriters
    <2>4. /\ PointersHeld' /\ ObjectsKnown' /\ LoadedFirst' /\ SavedUnderLock'
          /\ WritersPeersStored' /\ RegisteredIsStored' /\ NoOrphanRows'
          /\ RegisteredIsListed'
        BY DEF TypeOK, PointersHeld, ObjectsKnown, LoadedFirst, SavedUnderLock,
               WritersPeersStored, RegisteredIsStored, NoOrphanRows, RegisteredIsListed
    <2> QED BY <2>1, <2>2, <2>3, <2>4
<1> QED BY <1>1, <1>2, <1>3, <1>4, <1>5, <1>6 DEF CreateStep

\* deletePeer: the hook goes before the requests drain, both before the indexes
\* are cleared, and the rows last, when no other pointer is left or the wait was
\* given up; whoever writes later is excused by tookTooLong.
LEMMA DeleteKeeps ==
    ASSUME IInv, NEW t \in Rpc, DeleteStep(t) \/ \E p \in Peers : DeleteDevice(t, p)
    PROVE  IInv'
<1> USE DEF IInv, Ownership
<1>1. ASSUME NEW p \in Peers, DeleteDevice(t, p)
      PROVE  IInv'
    <2> USE <1>1 DEF DeleteDevice
    <2>1. PointersHeld'
        BY DEF TypeOK, PointersHeld, ObjectsKnown, RegisteredIsStored
    <2>2. DeleterExcludesWriters'
        BY DEF TypeOK, ObjectsKnown, DeleterExcludesWriters, RegisteredIsStored
    <2>3. /\ TypeOK' /\ ObjectsKnown' /\ LoadedFirst' /\ SavedUnderLock'
          /\ CreatorOwnsPeer' /\ WritersPeersStored' /\ RegisteredIsStored'
          /\ NoOrphanRows' /\ RegisteredIsListed'
        BY DEF TypeOK, ObjectsKnown, LoadedFirst, SavedUnderLock, CreatorOwnsPeer,
               WritersPeersStored, RegisteredIsStored, NoOrphanRows, RegisteredIsListed
    <2> QED BY <2>1, <2>2, <2>3
<1>2. CASE MarkDeleting(t)
    <2> USE <1>2 DEF MarkDeleting
    <2>1. TypeOK'
        BY DEF TypeOK, PointersHeld
    <2>2. /\ PointersHeld' /\ ObjectsKnown' /\ LoadedFirst' /\ SavedUnderLock'
          /\ CreatorOwnsPeer' /\ DeleterExcludesWriters' /\ WritersPeersStored'
          /\ RegisteredIsStored' /\ NoOrphanRows' /\ RegisteredIsListed'
        BY DEF TypeOK, PointersHeld, ObjectsKnown, LoadedFirst, SavedUnderLock,
               CreatorOwnsPeer, DeleterExcludesWriters, WritersPeersStored,
               RegisteredIsStored, NoOrphanRows, RegisteredIsListed
    <2> QED BY <2>1, <2>2
<1>3. CASE RemoveHooks(t)
    <2> USE <1>3 DEF RemoveHooks
    <2>1. /\ TypeOK' /\ PointersHeld' /\ ObjectsKnown' /\ LoadedFirst' /\ SavedUnderLock'
          /\ CreatorOwnsPeer' /\ DeleterExcludesWriters' /\ WritersPeersStored'
          /\ RegisteredIsStored' /\ NoOrphanRows' /\ RegisteredIsListed'
        BY DEF TypeOK, PointersHeld, ObjectsKnown, LoadedFirst, SavedUnderLock,
               CreatorOwnsPeer, DeleterExcludesWriters, WritersPeersStored,
               RegisteredIsStored, NoOrphanRows, RegisteredIsListed
    <2> QED BY <2>1
<1>4. CASE HooksRemoved(t)
    <2> USE <1>4 DEF HooksRemoved
    <2>1. /\ TypeOK' /\ PointersHeld' /\ ObjectsKnown' /\ LoadedFirst' /\ SavedUnderLock'
          /\ CreatorOwnsPeer' /\ DeleterExcludesWriters' /\ WritersPeersStored'
          /\ RegisteredIsStored' /\ NoOrphanRows' /\ RegisteredIsListed'
        BY DEF TypeOK, PointersHeld, ObjectsKnown, LoadedFirst, SavedUnderLock,
               CreatorOwnsPeer, DeleterExcludesWriters, WritersPeersStored,
               RegisteredIsStored, NoOrphanRows, RegisteredIsListed
    <2> QED BY <2>1
<1>5. CASE Retract(t)
    <2> USE <1>5 DEF Retract
    <2>1. RegisteredIsListed'
        BY DEF TypeOK, PointersHeld, DeleterExcludesWriters, RegisteredIsListed
    <2>2. /\ TypeOK' /\ PointersHeld' /\ ObjectsKnown' /\ LoadedFirst' /\ SavedUnderLock'
          /\ CreatorOwnsPeer' /\ DeleterExcludesWriters' /\ WritersPeersStored'
          /\ RegisteredIsStored' /\ NoOrphanRows'
        BY DEF TypeOK, PointersHeld, ObjectsKnown, LoadedFirst, SavedUnderLock,
               CreatorOwnsPeer, DeleterExcludesWriters, WritersPeersStored,
               RegisteredIsStored, NoOrphanRows
    <2> QED BY <2>1, <2>2
<1>6. CASE EraseIndexes(t)
    <2> USE <1>6 DEF EraseIndexes
    <2>1. TypeOK'
        BY DEF TypeOK, PointersHeld
    <2>2. /\ PointersHeld' /\ ObjectsKnown' /\ LoadedFirst' /\ SavedUnderLock'
          /\ CreatorOwnsPeer' /\ DeleterExcludesWriters' /\ WritersPeersStored'
          /\ RegisteredIsStored' /\ NoOrphanRows' /\ RegisteredIsListed'
        BY DEF TypeOK, PointersHeld, ObjectsKnown, LoadedFirst, SavedUnderLock,
               CreatorOwnsPeer, DeleterExcludesWriters, WritersPeersStored,
               RegisteredIsStored, NoOrphanRows, RegisteredIsListed
    <2> QED BY <2>1, <2>2
<1>7. CASE WaitDone(t)
    <2> USE <1>7 DEF WaitDone, OnlyPointer
    <2>1. DeleterExcludesWriters'
        BY DEF TypeOK, PointersHeld, DeleterExcludesWriters
    <2>2. /\ TypeOK' /\ PointersHeld' /\ ObjectsKnown' /\ LoadedFirst' /\ SavedUnderLock'
          /\ CreatorOwnsPeer' /\ WritersPeersStored' /\ RegisteredIsStored'
          /\ NoOrphanRows' /\ RegisteredIsListed'
        BY DEF TypeOK, PointersHeld, ObjectsKnown, LoadedFirst, SavedUnderLock,
               CreatorOwnsPeer, WritersPeersStored, RegisteredIsStored, NoOrphanRows,
               RegisteredIsListed
    <2> QED BY <2>1, <2>2
<1>8. CASE WaitTimeout(t)
    <2> USE <1>8 DEF WaitTimeout, OnlyPointer
    <2>1. TypeOK'
        BY DEF TypeOK, PointersHeld
    <2>2. /\ PointersHeld' /\ ObjectsKnown' /\ LoadedFirst' /\ SavedUnderLock'
          /\ CreatorOwnsPeer' /\ DeleterExcludesWriters' /\ WritersPeersStored'
          /\ RegisteredIsStored' /\ NoOrphanRows' /\ RegisteredIsListed'
        BY DEF TypeOK, PointersHeld, ObjectsKnown, LoadedFirst, SavedUnderLock,
               CreatorOwnsPeer, DeleterExcludesWriters, WritersPeersStored,
               RegisteredIsStored, NoOrphanRows, RegisteredIsListed
    <2> QED BY <2>1, <2>2
<1>9. CASE Purge(t)
    <2> USE <1>9 DEF Purge
    <2>1. ObjectsKnown'
        BY DEF TypeOK, ObjectsKnown, DeleterExcludesWriters
    <2>2. CreatorOwnsPeer'
        BY DEF TypeOK, PointersHeld, CreatorOwnsPeer
    <2>3. DeleterExcludesWriters'
        BY DEF TypeOK, PointersHeld, DeleterExcludesWriters
    <2>4. WritersPeersStored'
        BY DEF TypeOK, DeleterExcludesWriters, WritersPeersStored
    <2>5. RegisteredIsStored'
        BY DEF TypeOK, DeleterExcludesWriters, RegisteredIsStored
    <2>6. /\ TypeOK' /\ PointersHeld' /\ LoadedFirst' /\ SavedUnderLock' /\ NoOrphanRows'
          /\ RegisteredIsListed'
        BY DEF TypeOK, PointersHeld, LoadedFirst, SavedUnderLock, NoOrphanRows,
               RegisteredIsListed
    <2> QED BY <2>1, <2>2, <2>3, <2>4, <2>5, <2>6
<1>10. CASE DeleteThrows(t)
    <2> USE <1>10 DEF DeleteThrows
    <2>1. TypeOK'
        BY DEF TypeOK, PointersHeld
    <2>2. CreatorOwnsPeer'
        BY DEF TypeOK, PointersHeld, CreatorOwnsPeer
    <2>3. DeleterExcludesWriters'
        BY DEF TypeOK, PointersHeld, DeleterExcludesWriters
    <2>4. RegisteredIsListed'
        BY DEF TypeOK, PointersHeld, DeleterExcludesWriters, RegisteredIsListed
    <2>5. /\ PointersHeld' /\ ObjectsKnown' /\ LoadedFirst' /\ SavedUnderLock'
          /\ WritersPeersStored' /\ RegisteredIsStored' /\ NoOrphanRows'
        BY DEF TypeOK, PointersHeld, ObjectsKnown, LoadedFirst, SavedUnderLock,
               WritersPeersStored, RegisteredIsStored, NoOrphanRows
    <2> QED BY <2>1, <2>2, <2>3, <2>4, <2>5
<1> QED BY <1>1, <1>2, <1>3, <1>4, <1>5, <1>6, <1>7, <1>8, <1>9, <1>10 DEF DeleteStep

\* "peers setname": the pointer it takes is to a peer that is stored.
LEMMA NameKeeps ==
    ASSUME IInv, NEW t \in Rpc, NameStep(t) \/ \E p \in Peers : SetName(t, p)
    PROVE  IInv'
<1> USE DEF IInv, Ownership
<1>1. ASSUME NEW p \in Peers, SetName(t, p)
      PROVE  IInv'
    <2> USE <1>1 DEF SetName
    <2>1. /\ TypeOK' /\ PointersHeld' /\ ObjectsKnown' /\ LoadedFirst' /\ SavedUnderLock'
          /\ CreatorOwnsPeer' /\ DeleterExcludesWriters' /\ WritersPeersStored'
          /\ RegisteredIsStored' /\ NoOrphanRows' /\ RegisteredIsListed'
        BY DEF TypeOK, PointersHeld, ObjectsKnown, LoadedFirst, SavedUnderLock,
               CreatorOwnsPeer, DeleterExcludesWriters, WritersPeersStored,
               RegisteredIsStored, NoOrphanRows, RegisteredIsListed
    <2> QED BY <2>1
<1>2. CASE NameGetPeer(t)
    <2> USE <1>2 DEF NameGetPeer
    <2>1. PointersHeld'
        BY DEF TypeOK, PointersHeld, ObjectsKnown, RegisteredIsStored
    <2>2. DeleterExcludesWriters'
        BY DEF TypeOK, ObjectsKnown, DeleterExcludesWriters, RegisteredIsStored
    <2>3. WritersPeersStored'
        BY DEF TypeOK, WritersPeersStored, RegisteredIsStored
    <2>4. /\ TypeOK' /\ ObjectsKnown' /\ LoadedFirst' /\ SavedUnderLock'
          /\ CreatorOwnsPeer' /\ RegisteredIsStored' /\ NoOrphanRows'
          /\ RegisteredIsListed'
        BY DEF TypeOK, ObjectsKnown, LoadedFirst, SavedUnderLock, CreatorOwnsPeer,
               RegisteredIsStored, NoOrphanRows, RegisteredIsListed
    <2> QED BY <2>1, <2>2, <2>3, <2>4
<1>3. CASE NameWrite(t)
    <2> USE <1>3 DEF NameWrite
    <2>1. TypeOK'
        BY DEF TypeOK, PointersHeld
    <2>2. CreatorOwnsPeer'
        BY DEF TypeOK, PointersHeld, CreatorOwnsPeer
    <2>3. DeleterExcludesWriters'
        BY DEF TypeOK, PointersHeld, DeleterExcludesWriters
    <2>4. NoOrphanRows'
        BY DEF TypeOK, WritersPeersStored, NoOrphanRows
    <2>5. /\ PointersHeld' /\ ObjectsKnown' /\ LoadedFirst' /\ SavedUnderLock'
          /\ WritersPeersStored' /\ RegisteredIsStored' /\ RegisteredIsListed'
        BY DEF TypeOK, PointersHeld, ObjectsKnown, LoadedFirst, SavedUnderLock,
               WritersPeersStored, RegisteredIsStored, RegisteredIsListed
    <2> QED BY <2>1, <2>2, <2>3, <2>4, <2>5
<1>4. CASE NameNoPeer(t)
    <2> USE <1>4 DEF NameNoPeer, Restart
    <2>1. /\ TypeOK' /\ PointersHeld' /\ ObjectsKnown' /\ LoadedFirst' /\ SavedUnderLock'
          /\ CreatorOwnsPeer' /\ DeleterExcludesWriters' /\ WritersPeersStored'
          /\ RegisteredIsStored' /\ NoOrphanRows' /\ RegisteredIsListed'
        BY DEF TypeOK, PointersHeld, ObjectsKnown, LoadedFirst, SavedUnderLock,
               CreatorOwnsPeer, DeleterExcludesWriters, WritersPeersStored,
               RegisteredIsStored, NoOrphanRows, RegisteredIsListed
    <2> QED BY <2>1
<1> QED BY <1>1, <1>2, <1>3, <1>4 DEF NameStep

\* The worker's pointer is to a stored peer too, and its write is excused by
\* tookTooLong when the deletion did not wait for it.
LEMMA WorkerKeeps ==
    ASSUME IInv, WorkerStep
    PROVE  IInv'
<1> USE DEF IInv, Ownership
<1>1. CASE WorkerPick
    <2> USE <1>1 DEF WorkerPick, IsNextPeer, IsLowest
    <2>1. /\ TypeOK' /\ PointersHeld' /\ ObjectsKnown' /\ LoadedFirst' /\ SavedUnderLock'
          /\ CreatorOwnsPeer' /\ DeleterExcludesWriters' /\ WritersPeersStored'
          /\ RegisteredIsStored' /\ NoOrphanRows' /\ RegisteredIsListed'
        BY DEF TypeOK, PointersHeld, ObjectsKnown, LoadedFirst, SavedUnderLock,
               CreatorOwnsPeer, DeleterExcludesWriters, WritersPeersStored,
               RegisteredIsStored, NoOrphanRows, RegisteredIsListed
    <2> QED BY <2>1
<1>2. CASE WorkerGet
    <2> USE <1>2 DEF WorkerGet
    <2>1. PointersHeld'
        BY DEF TypeOK, PointersHeld, ObjectsKnown, RegisteredIsStored
    <2>2. DeleterExcludesWriters'
        BY DEF TypeOK, PointersHeld, DeleterExcludesWriters
    <2>3. WritersPeersStored'
        BY DEF TypeOK, WritersPeersStored, RegisteredIsStored
    <2>4. /\ TypeOK' /\ ObjectsKnown' /\ LoadedFirst' /\ SavedUnderLock'
          /\ CreatorOwnsPeer' /\ RegisteredIsStored' /\ NoOrphanRows'
          /\ RegisteredIsListed'
        BY DEF TypeOK, ObjectsKnown, LoadedFirst, SavedUnderLock, CreatorOwnsPeer,
               RegisteredIsStored, NoOrphanRows, RegisteredIsListed
    <2> QED BY <2>1, <2>2, <2>3, <2>4
<1>3. CASE WorkerCheck
    <2> USE <1>3 DEF WorkerCheck
    <2>1. CreatorOwnsPeer'
        BY DEF TypeOK, PointersHeld, CreatorOwnsPeer
    <2>2. DeleterExcludesWriters'
        BY DEF TypeOK, PointersHeld, DeleterExcludesWriters
    <2>3. /\ TypeOK' /\ PointersHeld' /\ ObjectsKnown' /\ LoadedFirst' /\ SavedUnderLock'
          /\ WritersPeersStored' /\ RegisteredIsStored' /\ NoOrphanRows'
          /\ RegisteredIsListed'
        BY DEF TypeOK, PointersHeld, ObjectsKnown, LoadedFirst, SavedUnderLock,
               WritersPeersStored, RegisteredIsStored, NoOrphanRows, RegisteredIsListed
    <2> QED BY <2>1, <2>2, <2>3
<1>4. CASE WorkerRun
    <2> USE <1>4 DEF WorkerRun
    <2>1. TypeOK'
        BY DEF TypeOK, PointersHeld
    <2>2. CreatorOwnsPeer'
        BY DEF TypeOK, PointersHeld, CreatorOwnsPeer
    <2>3. DeleterExcludesWriters'
        BY DEF TypeOK, PointersHeld, DeleterExcludesWriters
    <2>4. NoOrphanRows'
        BY DEF TypeOK, PointersHeld, WritersPeersStored, NoOrphanRows
    <2>5. /\ PointersHeld' /\ ObjectsKnown' /\ LoadedFirst' /\ SavedUnderLock'
          /\ WritersPeersStored' /\ RegisteredIsStored' /\ RegisteredIsListed'
        BY DEF TypeOK, PointersHeld, ObjectsKnown, LoadedFirst, SavedUnderLock,
               WritersPeersStored, RegisteredIsStored, RegisteredIsListed
    <2> QED BY <2>1, <2>2, <2>3, <2>4, <2>5
<1>5. CASE WorkerStop
    <2> USE <1>5 DEF WorkerStop
    <2>1. /\ TypeOK' /\ PointersHeld' /\ ObjectsKnown' /\ LoadedFirst' /\ SavedUnderLock'
          /\ CreatorOwnsPeer' /\ DeleterExcludesWriters' /\ WritersPeersStored'
          /\ RegisteredIsStored' /\ NoOrphanRows' /\ RegisteredIsListed'
        BY DEF TypeOK, PointersHeld, ObjectsKnown, LoadedFirst, SavedUnderLock,
               CreatorOwnsPeer, DeleterExcludesWriters, WritersPeersStored,
               RegisteredIsStored, NoOrphanRows, RegisteredIsListed
    <2> QED BY <2>1
<1> QED BY <1>1, <1>2, <1>3, <1>4, <1>5 DEF WorkerStep

\* A request holds no pointer: it relies on the hook, which is gone before
\* deletePeer starts to wait.
LEMMA WebKeeps ==
    ASSUME IInv, NEW w \in Web, WebServe(w) \/ \E p \in Peers : WebEnter(w, p)
    PROVE  IInv'
<1> USE DEF IInv, Ownership
<1>1. ASSUME NEW p \in Peers, WebEnter(w, p)
      PROVE  IInv'
    <2> USE <1>1 DEF WebEnter
    <2>1. ObjectsKnown'
        BY DEF TypeOK, PointersHeld, ObjectsKnown
    <2>2. DeleterExcludesWriters'
        BY DEF TypeOK, PointersHeld, DeleterExcludesWriters
    <2>3. WritersPeersStored'
        BY DEF TypeOK, ObjectsKnown, WritersPeersStored
    <2>4. /\ TypeOK' /\ PointersHeld' /\ LoadedFirst' /\ SavedUnderLock'
          /\ CreatorOwnsPeer' /\ RegisteredIsStored' /\ NoOrphanRows'
          /\ RegisteredIsListed'
        BY DEF TypeOK, PointersHeld, LoadedFirst, SavedUnderLock, CreatorOwnsPeer,
               RegisteredIsStored, NoOrphanRows, RegisteredIsListed
    <2> QED BY <2>1, <2>2, <2>3, <2>4
<1>2. CASE WebServe(w)
    <2> USE <1>2 DEF WebServe
    <2>1. DeleterExcludesWriters'
        BY DEF TypeOK, PointersHeld, DeleterExcludesWriters
    <2>2. NoOrphanRows'
        BY DEF TypeOK, WritersPeersStored, NoOrphanRows
    <2>3. /\ TypeOK' /\ PointersHeld' /\ ObjectsKnown' /\ LoadedFirst' /\ SavedUnderLock'
          /\ CreatorOwnsPeer' /\ WritersPeersStored' /\ RegisteredIsStored'
          /\ RegisteredIsListed'
        BY DEF TypeOK, PointersHeld, ObjectsKnown, LoadedFirst, SavedUnderLock,
               CreatorOwnsPeer, WritersPeersStored, RegisteredIsStored, RegisteredIsListed
    <2> QED BY <2>1, <2>2, <2>3
<1> QED BY <1>1, <1>2

\* The main thread's two tours hold pointers to peers that are stored; who is
\* hooked again in a deletion is excused by rehooked, and the shutdown only
\* takes hooks away.
LEMMA ToursKeep ==
    ASSUME IInv,
           \/ HomegearStarted \/ InitPeer \/ ShutDown \/ PeerUnhooked \/ Dispose
           \/ \E p \in Peers : HookPeer(p) \/ UnhookPeer(p)
    PROVE  IInv'
<1> USE DEF IInv, Ownership
<1>1. CASE HomegearStarted
    <2> USE <1>1 DEF HomegearStarted
    <2>1. /\ PointersHeld' /\ CreatorOwnsPeer' /\ DeleterExcludesWriters'
          /\ WritersPeersStored'
        BY DEF TypeOK, PointersHeld, ObjectsKnown, CreatorOwnsPeer, DeleterExcludesWriters,
               WritersPeersStored, RegisteredIsStored
    <2>2. /\ TypeOK' /\ ObjectsKnown' /\ LoadedFirst' /\ SavedUnderLock'
          /\ RegisteredIsStored' /\ NoOrphanRows' /\ RegisteredIsListed'
        BY DEF TypeOK, ObjectsKnown, LoadedFirst, SavedUnderLock, RegisteredIsStored,
               NoOrphanRows, RegisteredIsListed
    <2> QED BY <2>1, <2>2
<1>2. ASSUME NEW p \in Peers, HookPeer(p)
      PROVE  IInv'
    <2> USE <1>2 DEF HookPeer
    <2>1. TypeOK'
        BY DEF TypeOK
    <2>2. PointersHeld' /\ CreatorOwnsPeer'
        BY DEF TypeOK, PointersHeld, CreatorOwnsPeer
    <2>3. ObjectsKnown'
        BY DEF TypeOK, PointersHeld, ObjectsKnown, WritersPeersStored, RegisteredIsStored
    <2>4. DeleterExcludesWriters'
        BY DEF TypeOK, PointersHeld, DeleterExcludesWriters
    <2>5. /\ LoadedFirst' /\ SavedUnderLock' /\ WritersPeersStored'
          /\ RegisteredIsStored' /\ NoOrphanRows' /\ RegisteredIsListed'
        BY DEF TypeOK, LoadedFirst, SavedUnderLock, WritersPeersStored,
               RegisteredIsStored, NoOrphanRows, RegisteredIsListed
    <2> QED BY <2>1, <2>2, <2>3, <2>4, <2>5
<1>3. CASE InitPeer
    <2> USE <1>3 DEF InitPeer
    <2>1. NoOrphanRows'
        BY DEF TypeOK, WritersPeersStored, NoOrphanRows
    <2>2. /\ TypeOK' /\ PointersHeld' /\ ObjectsKnown' /\ LoadedFirst' /\ SavedUnderLock'
          /\ CreatorOwnsPeer' /\ DeleterExcludesWriters' /\ WritersPeersStored'
          /\ RegisteredIsStored' /\ RegisteredIsListed'
        BY DEF TypeOK, PointersHeld, ObjectsKnown, LoadedFirst, SavedUnderLock,
               CreatorOwnsPeer, DeleterExcludesWriters, WritersPeersStored,
               RegisteredIsStored, RegisteredIsListed
    <2> QED BY <2>1, <2>2
<1>4. CASE ShutDown
    <2> USE <1>4 DEF ShutDown
    <2>1. /\ PointersHeld' /\ CreatorOwnsPeer' /\ DeleterExcludesWriters'
          /\ WritersPeersStored'
        BY DEF TypeOK, PointersHeld, ObjectsKnown, CreatorOwnsPeer, DeleterExcludesWriters,
               WritersPeersStored, RegisteredIsStored
    <2>2. /\ TypeOK' /\ ObjectsKnown' /\ LoadedFirst' /\ SavedUnderLock'
          /\ RegisteredIsStored' /\ NoOrphanRows' /\ RegisteredIsListed'
        BY DEF TypeOK, ObjectsKnown, LoadedFirst, SavedUnderLock, RegisteredIsStored,
               NoOrphanRows, RegisteredIsListed
    <2> QED BY <2>1, <2>2
<1>5. ASSUME NEW p \in Peers, UnhookPeer(p)
      PROVE  IInv'
    <2> USE <1>5 DEF UnhookPeer
    <2>1. /\ TypeOK' /\ PointersHeld' /\ ObjectsKnown' /\ LoadedFirst' /\ SavedUnderLock'
          /\ CreatorOwnsPeer' /\ DeleterExcludesWriters' /\ WritersPeersStored'
          /\ RegisteredIsStored' /\ NoOrphanRows' /\ RegisteredIsListed'
        BY DEF TypeOK, PointersHeld, ObjectsKnown, LoadedFirst, SavedUnderLock,
               CreatorOwnsPeer, DeleterExcludesWriters, WritersPeersStored,
               RegisteredIsStored, NoOrphanRows, RegisteredIsListed
    <2> QED BY <2>1
<1>6. CASE PeerUnhooked
    <2> USE <1>6 DEF PeerUnhooked
    <2>1. /\ TypeOK' /\ PointersHeld' /\ ObjectsKnown' /\ LoadedFirst' /\ SavedUnderLock'
          /\ CreatorOwnsPeer' /\ DeleterExcludesWriters' /\ WritersPeersStored'
          /\ RegisteredIsStored' /\ NoOrphanRows' /\ RegisteredIsListed'
        BY DEF TypeOK, PointersHeld, ObjectsKnown, LoadedFirst, SavedUnderLock,
               CreatorOwnsPeer, DeleterExcludesWriters, WritersPeersStored,
               RegisteredIsStored, NoOrphanRows, RegisteredIsListed
    <2> QED BY <2>1
<1>7. CASE Dispose
    <2> USE <1>7 DEF Dispose
    <2>1. /\ TypeOK' /\ PointersHeld' /\ ObjectsKnown' /\ LoadedFirst' /\ SavedUnderLock'
          /\ CreatorOwnsPeer' /\ DeleterExcludesWriters' /\ WritersPeersStored'
          /\ RegisteredIsStored' /\ NoOrphanRows' /\ RegisteredIsListed'
        BY DEF TypeOK, PointersHeld, ObjectsKnown, LoadedFirst, SavedUnderLock,
               CreatorOwnsPeer, DeleterExcludesWriters, WritersPeersStored,
               RegisteredIsStored, NoOrphanRows, RegisteredIsListed
    <2> QED BY <2>1
<1> QED BY <1>1, <1>2, <1>3, <1>4, <1>5, <1>6, <1>7

\* The end of the process leaves the database and the ids; everything else
\* starts anew.
LEMMA EndKeeps ==
    ASSUME IInv, Crash \/ Exit
    PROVE  IInv'
<1> USE DEF IInv, Ownership, Crash, Exit, Restart
<1>1. TypeOK'
    BY DEF TypeOK
<1>2. /\ PointersHeld' /\ ObjectsKnown' /\ LoadedFirst' /\ SavedUnderLock'
      /\ CreatorOwnsPeer' /\ DeleterExcludesWriters' /\ WritersPeersStored'
    BY DEF TypeOK, PointersHeld, ObjectsKnown, LoadedFirst, SavedUnderLock,
           CreatorOwnsPeer, DeleterExcludesWriters, WritersPeersStored
<1>3. RegisteredIsStored' /\ NoOrphanRows' /\ RegisteredIsListed'
    BY DEF TypeOK, RegisteredIsStored, NoOrphanRows, RegisteredIsListed
<1> QED BY <1>1, <1>2, <1>3

\* Loading happens before any call, saving under the lock that keeps the
\* indexes as they are.
LEMMA MainKeeps ==
    ASSUME IInv, MainStep
    PROVE  IInv'
<1> USE DEF IInv, Ownership
<1>1. CASE SavePeersLock
    <2> USE <1>1 DEF SavePeersLock
    <2>1. ObjectsKnown'
        BY DEF TypeOK, ObjectsKnown, RegisteredIsStored
    <2>2. /\ TypeOK' /\ PointersHeld' /\ LoadedFirst' /\ SavedUnderLock'
          /\ CreatorOwnsPeer' /\ DeleterExcludesWriters' /\ WritersPeersStored'
          /\ RegisteredIsStored' /\ NoOrphanRows' /\ RegisteredIsListed'
        BY DEF TypeOK, PointersHeld, LoadedFirst, SavedUnderLock, CreatorOwnsPeer,
               DeleterExcludesWriters, WritersPeersStored, RegisteredIsStored, NoOrphanRows,
               RegisteredIsListed
    <2> QED BY <2>1, <2>2
<1>2. ASSUME NEW p \in Peers, LoadPeer(p)
      PROVE  IInv'
    <2> USE <1>2 DEF LoadPeer
    <2>1. ObjectsKnown'
        BY DEF TypeOK, ObjectsKnown, LoadedFirst
    <2>2. CreatorOwnsPeer'
        BY DEF TypeOK, LoadedFirst, CreatorOwnsPeer
    <2>3. DeleterExcludesWriters'
        BY DEF TypeOK, LoadedFirst, DeleterExcludesWriters
    <2>4. RegisteredIsStored'
        BY DEF TypeOK, LoadedFirst, RegisteredIsStored
    <2>5. NoOrphanRows'
        BY DEF TypeOK, LoadedFirst, NoOrphanRows
    <2>6. /\ TypeOK' /\ PointersHeld' /\ LoadedFirst' /\ SavedUnderLock'
          /\ WritersPeersStored' /\ RegisteredIsListed'
        BY DEF TypeOK, PointersHeld, LoadedFirst, SavedUnderLock, WritersPeersStored,
               RegisteredIsListed
    <2> QED BY <2>1, <2>2, <2>3, <2>4, <2>5, <2>6
<1>3. ASSUME NEW p \in Peers, SavePeersSave(p)
      PROVE  IInv'
    <2> USE <1>3 DEF SavePeersSave
    <2>1. /\ TypeOK' /\ PointersHeld' /\ ObjectsKnown' /\ LoadedFirst' /\ SavedUnderLock'
          /\ CreatorOwnsPeer' /\ DeleterExcludesWriters' /\ WritersPeersStored'
          /\ RegisteredIsStored' /\ NoOrphanRows' /\ RegisteredIsListed'
        BY DEF TypeOK, PointersHeld, ObjectsKnown, LoadedFirst, SavedUnderLock,
               CreatorOwnsPeer, DeleterExcludesWriters, WritersPeersStored,
               RegisteredIsStored, NoOrphanRows, RegisteredIsListed
    <2> QED BY <2>1
<1> QED BY <1>1, <1>2, <1>3, ToursKeep, EndKeeps DEF MainStep, VisitStep, EndStep

\* A step that changes nothing keeps the invariant.
LEMMA StutterKeeps ==
    ASSUME IInv, UNCHANGED vars
    PROVE  IInv'
BY DEF IInv, TypeOK, Ownership, PointersHeld, ObjectsKnown, LoadedFirst, SavedUnderLock,
       CreatorOwnsPeer, DeleterExcludesWriters, WritersPeersStored,
       RegisteredIsStored, NoOrphanRows, RegisteredIsListed

\* IInv is an invariant: the threads' steps keep it in every interleaving.
THEOREM InvariantHolds == Spec => []IInv
<1>1. IInv /\ [Next]_vars => IInv'
    <2> SUFFICES ASSUME IInv, [Next]_vars PROVE IInv'
        OBVIOUS
    <2>1. ASSUME NEW t \in Rpc
          PROVE  /\ RpcStep(t) => IInv'
                 /\ \A s \in Serials, p \in Peers : CreateDevice(t, s, p) => IInv'
                 /\ \A p \in Peers : DeleteDevice(t, p) \/ SetName(t, p) => IInv'
        BY CreateKeeps, DeleteKeeps, NameKeeps DEF RpcStep
    <2>2. ASSUME NEW w \in Web
          PROVE  WebServe(w) \/ (\E p \in Peers : WebEnter(w, p)) => IInv'
        BY WebKeeps
    <2>3. CASE WorkerStep \/ MainStep \/ Crash \/ UNCHANGED vars
        BY <2>3, WorkerKeeps, MainKeeps, EndKeeps, StutterKeeps
    <2> QED BY <2>1, <2>2, <2>3 DEF Next
<1> QED BY InitInv, <1>1, PTL DEF Spec

\* Every variable keeps its type (the state of the central and its threads).
THEOREM TypeCorrect == Spec => []TypeOK
BY InvariantHolds, PTL DEF IInv

\* The threads' claims on peers exclude each other as Ownership says.
THEOREM OwnershipHolds == Spec => []Ownership
BY InvariantHolds, PTL DEF IInv

\* A crash at any moment loses no peer that callers could reach by its id.
THEOREM PairedIsStored == Spec => []RegisteredIsStored
BY InvariantHolds, PTL DEF IInv

\* No thread writes rows of a peer that was removed from the database, unless
\* the removal had given up waiting for it, or homegearStarted, running at the
\* same time, had hooked the peer again.
THEOREM RowsHaveOwners == Spec => []NoOrphanRows
BY InvariantHolds, PTL DEF IInv

\* Clients know the peers that can be reached, but for calls in progress and
\* deletions that an exception ended.
THEOREM PairedIsListed == Spec => []RegisteredIsListed
BY InvariantHolds, PTL DEF IInv

-----------------------------------------------------------------------------
(* The registry implements PeerLifecycle *)

phaseOf == [p \in Peers |-> Phase(p)]

\* A step that moves camera p to another phase and leaves the others alone.
LEMMA OneAdvances ==
    ASSUME NEW p \in Peers, NEW from, NEW to,
           phaseOf[p] = from, phaseOf'[p] = to,
           \A q \in Peers \ {p} : phaseOf'[q] = phaseOf[q]
    PROVE  Lifecycle!Advance(p, from, to)
BY DEF phaseOf, Lifecycle!Advance

\* Only the indexes, the database and the ids decide on a camera's phase.
LEMMA PhaseUnchanged ==
    ASSUME UNCHANGED <<byId, db, id>>
    PROVE  UNCHANGED phaseOf
BY DEF phaseOf, Phase

\* A restart leaves every camera that is stored as stored.
LEMMA RestartAdvances ==
    ASSUME IInv, Restart
    PROVE  Lifecycle!Next
<1>1. ASSUME NEW p \in Peers
      PROVE  Phase(p)' = IF Phase(p) = "paired" THEN "stored" ELSE Phase(p)
    BY <1>1 DEF Restart, Phase, IInv, RegisteredIsStored
<1> QED BY <1>1 DEF Lifecycle!Next, Lifecycle!Restart

\* A peer that is stored for the first time.
LEMMA StoreAdvances ==
    ASSUME IInv, NEW t \in Rpc, pc[t] = "save", Store(held[t]), UNCHANGED byId
    PROVE  Lifecycle!Next
<1>1. PICK p \in Peers : p = held[t] /\ id[p] = 0 /\ p \notin byId \cup db
    BY DEF IInv, TypeOK, Ownership, PointersHeld, CreatorOwnsPeer, ObjectsKnown, RegisteredIsStored
<1>2. phaseOf[p] = "new" /\ phaseOf'[p] = "stored"
    BY <1>1 DEF IInv, TypeOK, Store, phaseOf, Phase
<1>3. \A q \in Peers \ {p} : phaseOf'[q] = phaseOf[q]
    BY <1>1 DEF IInv, TypeOK, Store, phaseOf, Phase
<1> QED BY <1>1, <1>2, <1>3, OneAdvances DEF Lifecycle!Next

\* Every step of the central is a step of one camera's life, or none.  Only an
\* exception lets a camera return: savePeers stores the peers it has listed,
\* and without its lock one of them may have been removed by then.
LEMMA StepAdvances ==
    ASSUME IInv, [Next]_vars
    PROVE  [Lifecycle!Next]_phaseOf
<1> USE DEF IInv, TypeOK, Ownership, Lifecycle!Next
<1>1. ASSUME NEW t \in Rpc, Save(t) \/ SaveThrows(t)
      PROVE  [Lifecycle!Next]_phaseOf
    BY <1>1, StoreAdvances, PhaseUnchanged DEF Save, SaveThrows
<1>2. ASSUME NEW t \in Rpc, AddId(t)
      PROVE  Lifecycle!Next
    <2>1. PICK p \in Peers : p = held[t] /\ p \in db \ byId
        BY <1>2 DEF AddId, PointersHeld, CreatorOwnsPeer
    <2>2. phaseOf[p] = "stored" /\ phaseOf'[p] = "paired"
        BY <1>2, <2>1 DEF AddId, phaseOf, Phase
    <2>3. \A q \in Peers \ {p} : phaseOf'[q] = phaseOf[q]
        BY <1>2, <2>1 DEF AddId, phaseOf, Phase
    <2> QED BY <2>1, <2>2, <2>3, OneAdvances
<1>3. ASSUME NEW t \in Rpc, EraseIndexes(t)
      PROVE  [Lifecycle!Next]_phaseOf
    <2>1. PICK p \in Peers : p = held[t]
        BY <1>3 DEF EraseIndexes, PointersHeld
    <2>2. \A q \in Peers \ {p} : phaseOf'[q] = phaseOf[q]
        BY <1>3, <2>1 DEF EraseIndexes, phaseOf, Phase
    <2>3. CASE p \in byId
        <3>1. phaseOf[p] = "paired" /\ phaseOf'[p] = "stored"
            BY <1>3, <2>1, <2>3 DEF EraseIndexes, phaseOf, Phase, RegisteredIsStored
        <3> QED BY <2>1, <2>2, <3>1, OneAdvances
    <2>4. CASE p \notin byId
        BY <1>3, <2>1, <2>4, PhaseUnchanged DEF EraseIndexes
    <2> QED BY <2>3, <2>4
<1>4. ASSUME NEW t \in Rpc, Purge(t)
      PROVE  [Lifecycle!Next]_phaseOf
    <2>1. PICK p \in Peers : p = held[t] /\ id[p] # 0 /\ p \notin byId
        BY <1>4 DEF Purge, PointersHeld, DeleterExcludesWriters
    <2>2. \A q \in Peers \ {p} : phaseOf'[q] = phaseOf[q]
        BY <1>4, <2>1 DEF Purge, phaseOf, Phase
    <2>3. CASE p \in db
        <3>1. phaseOf[p] = "stored" /\ phaseOf'[p] = "removed"
            BY <1>4, <2>1, <2>3 DEF Purge, phaseOf, Phase
        <3> QED BY <2>1, <2>2, <3>1, OneAdvances
    <2>4. CASE p \notin db
        BY <1>4, <2>1, <2>4, PhaseUnchanged DEF Purge
    <2> QED BY <2>3, <2>4
<1>5. ASSUME NEW p \in Peers, LoadPeer(p)
      PROVE  [Lifecycle!Next]_phaseOf
    <2>1. p \in db
        BY <1>5 DEF LoadPeer, LoadedFirst
    <2>2. \A q \in Peers \ {p} : phaseOf'[q] = phaseOf[q]
        BY <1>5 DEF LoadPeer, phaseOf, Phase
    <2>3. CASE p \in byId' \ byId
        <3>1. phaseOf[p] = "stored" /\ phaseOf'[p] = "paired"
            BY <1>5, <2>1, <2>3 DEF LoadPeer, phaseOf, Phase
        <3> QED BY <2>2, <3>1, OneAdvances
    <2>4. CASE p \notin byId' \ byId
        <3>1. phaseOf'[p] = phaseOf[p]
            BY <1>5, <2>4 DEF LoadPeer, phaseOf, Phase
        <3> QED BY <2>2, <3>1 DEF phaseOf
    <2> QED BY <2>3, <2>4
<1>6. ASSUME NEW p \in Peers, SavePeersSave(p)
      PROVE  [Lifecycle!Next]_phaseOf
    <2>1. CASE p \in db
        <3>1. UNCHANGED <<byId, db, id>>
            BY <1>6, <2>1 DEF SavePeersSave
        <3> QED BY <3>1, PhaseUnchanged
    <2>2. CASE p \notin db
        <3>1. MayThrow /\ id[p] # 0 /\ p \notin byId
            BY <1>6, <2>2 DEF SavePeersSave, ObjectsKnown, SavedUnderLock, RegisteredIsStored
        <3>2. phaseOf[p] = "removed" /\ phaseOf'[p] = "stored"
            BY <1>6, <2>2, <3>1 DEF SavePeersSave, phaseOf, Phase
        <3>3. \A q \in Peers \ {p} : phaseOf'[q] = phaseOf[q]
            BY <1>6 DEF SavePeersSave, phaseOf, Phase
        <3> QED BY <3>1, <3>2, <3>3, OneAdvances
    <2> QED BY <2>1, <2>2
<1>7. ASSUME NEW t \in Rpc, NameStep(t)
      PROVE  [Lifecycle!Next]_phaseOf
    BY <1>7, PhaseUnchanged, RestartAdvances DEF NameStep, NameGetPeer, NameNoPeer, NameWrite
<1>8. CASE Crash \/ Exit
    BY <1>8, RestartAdvances DEF Crash, Exit
<1>9. CASE WorkerStep \/ UNCHANGED vars
    BY <1>9, PhaseUnchanged DEF WorkerStep, WorkerPick, WorkerStop, WorkerGet, WorkerCheck,
                                WorkerRun
<1>10. CASE \/ HomegearStarted \/ InitPeer \/ SavePeersLock \/ ShutDown \/ PeerUnhooked
            \/ Dispose \/ \E p \in Peers : HookPeer(p) \/ UnhookPeer(p)
    BY <1>10, PhaseUnchanged DEF HomegearStarted, InitPeer, SavePeersLock, ShutDown,
                                 PeerUnhooked, Dispose, HookPeer, UnhookPeer
<1>11. CASE \/ \E w \in Web : WebServe(w) \/ \E p \in Peers : WebEnter(w, p)
            \/ \E t \in Rpc, p \in Peers : DeleteDevice(t, p) \/ SetName(t, p)
            \/ \E t \in Rpc, s \in Serials, p \in Peers : CreateDevice(t, s, p)
    BY <1>11, PhaseUnchanged DEF WebEnter, WebServe, DeleteDevice, SetName, CreateDevice
<1>12. ASSUME NEW t \in Rpc, CreateStep(t) \/ DeleteStep(t)
       PROVE  [Lifecycle!Next]_phaseOf
    <2>1. CASE AddSerial(t) \/ Announce(t)
        BY <2>1, PhaseUnchanged DEF AddSerial, Announce
    <2>2. CASE \/ MarkDeleting(t) \/ RemoveHooks(t) \/ HooksRemoved(t) \/ Retract(t)
               \/ WaitDone(t) \/ WaitTimeout(t) \/ DeleteThrows(t)
        BY <2>2, PhaseUnchanged DEF MarkDeleting, RemoveHooks, HooksRemoved, Retract,
                                    WaitDone, WaitTimeout, DeleteThrows
    <2> QED BY <1>1, <1>2, <1>3, <1>4, <1>12, <2>1, <2>2 DEF CreateStep, DeleteStep
<1> QED BY <1>5, <1>6, <1>7, <1>8, <1>9, <1>10, <1>11, <1>12
       DEF Next, RpcStep, MainStep, VisitStep, EndStep

\* The refinement: whatever the threads do, each camera lives the life that
\* PeerLifecycle promises; it may return from its removal only if saving a new
\* peer may throw.
THEOREM RegistryImplementsLifecycle == Spec => ImplementsLifecycle
<1>1. Init => Lifecycle!Init
    BY DEF Init, Lifecycle!Init, Phase
<1>2. IInv /\ [Next]_vars => [Lifecycle!Next]_([p \in Peers |-> Phase(p)])
    BY StepAdvances DEF phaseOf
<1> QED BY <1>1, <1>2, InvariantHolds, PTL DEF Spec, ImplementsLifecycle, Lifecycle!Spec

-----------------------------------------------------------------------------
(* Requests and pointers to a peer that was taken out of the indexes *)

\* A deletion takes a peer out of the index when no request is in it or can get
\* in; a creation puts only peers there that nobody deletes.
LEMMA CallKeepsRemoved ==
    ASSUME IInv, RemovedHasNoRequests, NEW t \in Rpc,
           \/ CreateStep(t) \/ DeleteStep(t) \/ NameGetPeer(t) \/ NameWrite(t)
           \/ \E p \in Peers : DeleteDevice(t, p) \/ SetName(t, p)
           \/ \E s \in Serials, p \in Peers : CreateDevice(t, s, p)
    PROVE  RemovedHasNoRequests'
<1> USE DEF IInv, TypeOK, Ownership, RemovedHasNoRequests
<1>1. CASE AddSerial(t) \/ Save(t) \/ SaveThrows(t) \/ AddId(t) \/ Announce(t)
    BY <1>1 DEF AddSerial, Save, SaveThrows, Store, AddId, Announce
<1>2. CASE MarkDeleting(t)
    BY <1>2 DEF MarkDeleting, DeleterExcludesWriters
<1>3. CASE EraseIndexes(t)
    BY <1>3 DEF EraseIndexes, DeleterExcludesWriters
<1>4. CASE RemoveHooks(t) \/ HooksRemoved(t) \/ Retract(t) \/ DeleteThrows(t)
    BY <1>4 DEF RemoveHooks, HooksRemoved, Retract, DeleteThrows
<1>5. CASE WaitDone(t) \/ WaitTimeout(t) \/ Purge(t)
    BY <1>5 DEF WaitDone, WaitTimeout, Purge
<1>6. CASE NameGetPeer(t) \/ NameWrite(t)
    BY <1>6 DEF NameGetPeer, NameWrite
<1>7. ASSUME NEW p \in Peers, DeleteDevice(t, p) \/ SetName(t, p)
      PROVE  RemovedHasNoRequests'
    BY <1>7 DEF DeleteDevice, SetName
<1>8. ASSUME NEW s \in Serials, NEW p \in Peers, CreateDevice(t, s, p)
      PROVE  RemovedHasNoRequests'
    BY <1>8 DEF CreateDevice, ObjectsKnown
<1> QED BY <1>1, <1>2, <1>3, <1>4, <1>5, <1>6, <1>7, <1>8 DEF CreateStep, DeleteStep

\* Every step leaves removed peers without requests; homegearStarted, which may
\* hook one, says so in rehooked.
LEMMA StepKeepsRemoved ==
    ASSUME IInv, RemovedHasNoRequests, [Next]_vars
    PROVE  RemovedHasNoRequests'
<1> USE DEF IInv, TypeOK, Ownership, RemovedHasNoRequests
<1>1. ASSUME NEW w \in Web, WebServe(w) \/ \E p \in Peers : WebEnter(w, p)
      PROVE  RemovedHasNoRequests'
    BY <1>1 DEF WebServe, WebEnter
<1>2. CASE WorkerStep \/ UNCHANGED vars
    BY <1>2 DEF WorkerStep, WorkerPick, WorkerStop, WorkerGet, WorkerCheck, WorkerRun
<1>3. CASE HomegearStarted \/ InitPeer \/ SavePeersLock \/ ShutDown \/ PeerUnhooked \/ Dispose
    BY <1>3 DEF HomegearStarted, InitPeer, SavePeersLock, ShutDown, PeerUnhooked, Dispose
<1>4. ASSUME NEW p \in Peers, LoadPeer(p) \/ SavePeersSave(p) \/ HookPeer(p) \/ UnhookPeer(p)
      PROVE  RemovedHasNoRequests'
    BY <1>4 DEF LoadPeer, LoadedFirst, SavePeersSave, HookPeer, UnhookPeer
<1>5. CASE Crash \/ Exit \/ \E t \in Rpc : NameNoPeer(t)
    BY <1>5 DEF Crash, Exit, NameNoPeer, Restart
<1> QED BY <1>1, <1>2, <1>3, <1>4, <1>5, CallKeepsRemoved
       DEF Next, RpcStep, NameStep, MainStep, VisitStep, EndStep

\* deletePeer lets go of a peer only when no request is in it and no hook leads
\* one there, also when it ends with an exception; homegearStarted alone can
\* hook the peer again.
THEOREM RemovedIsUnhooked == Spec => []RemovedHasNoRequests
<1>1. Init => RemovedHasNoRequests
    BY DEF Init, RemovedHasNoRequests
<1>2. IInv /\ RemovedHasNoRequests /\ [Next]_vars => RemovedHasNoRequests'
    BY StepKeepsRemoved
<1> QED BY <1>1, <1>2, InvariantHolds, PTL DEF Spec

\* Nobody gets a new pointer to peer p: the action of RemovedIsLetGo.
NoNewPointer(p) ==
    /\ \A u \in Holders : Holds(u, p)' => Holds(u, p)
    /\ \A s \in Serials : bySerial'[s] = p => bySerial[s] = p
    /\ p \notin byId'

\* Who takes a pointer takes it from the index, or to a peer of its own.
LEMMA StepLetsGo ==
    ASSUME IInv, [Next]_vars, NEW p \in deleting \ byId
    PROVE  NoNewPointer(p)
<1> USE DEF IInv, TypeOK, Ownership, NoNewPointer
<1>1. ASSUME NEW t \in Rpc, CreateStep(t) \/ \E s \in Serials, q \in Peers : CreateDevice(t, s, q)
      PROVE  NoNewPointer(p)
    <2>1. CASE AddSerial(t) \/ Save(t) \/ SaveThrows(t)
        BY <2>1 DEF AddSerial, Save, SaveThrows, CreatorOwnsPeer
    <2>2. CASE AddId(t) \/ Announce(t)
        BY <2>2 DEF AddId, Announce, CreatorOwnsPeer
    <2>3. ASSUME NEW s \in Serials, NEW q \in Peers, CreateDevice(t, s, q)
          PROVE  NoNewPointer(p)
        BY <2>3 DEF CreateDevice, ObjectsKnown
    <2> QED BY <1>1, <2>1, <2>2, <2>3 DEF CreateStep
<1>2. ASSUME NEW t \in Rpc, DeleteStep(t) \/ \E q \in Peers : DeleteDevice(t, q)
      PROVE  NoNewPointer(p)
    <2>1. CASE MarkDeleting(t) \/ RemoveHooks(t) \/ HooksRemoved(t) \/ Retract(t) \/ DeleteThrows(t)
        BY <2>1 DEF MarkDeleting, RemoveHooks, HooksRemoved, Retract, DeleteThrows
    <2>2. CASE EraseIndexes(t) \/ WaitDone(t) \/ WaitTimeout(t) \/ Purge(t)
        BY <2>2 DEF EraseIndexes, WaitDone, WaitTimeout, Purge
    <2>3. ASSUME NEW q \in Peers, DeleteDevice(t, q)
          PROVE  NoNewPointer(p)
        BY <2>3 DEF DeleteDevice
    <2> QED BY <1>2, <2>1, <2>2, <2>3 DEF DeleteStep
<1>3. ASSUME NEW t \in Rpc, NameGetPeer(t) \/ NameWrite(t) \/ \E q \in Peers : SetName(t, q)
      PROVE  NoNewPointer(p)
    BY <1>3 DEF NameGetPeer, NameWrite, SetName
<1>4. CASE WorkerStep \/ UNCHANGED vars
    BY <1>4 DEF WorkerStep, WorkerPick, WorkerStop, WorkerGet, WorkerCheck, WorkerRun
<1>5. CASE HomegearStarted \/ InitPeer \/ SavePeersLock \/ ShutDown \/ PeerUnhooked \/ Dispose
    BY <1>5 DEF HomegearStarted, InitPeer, SavePeersLock, ShutDown, PeerUnhooked, Dispose
<1>6. ASSUME NEW q \in Peers, LoadPeer(q) \/ SavePeersSave(q) \/ HookPeer(q) \/ UnhookPeer(q)
      PROVE  NoNewPointer(p)
    BY <1>6 DEF LoadPeer, LoadedFirst, SavePeersSave, HookPeer, UnhookPeer
<1>7. CASE Crash \/ Exit \/ \E t \in Rpc : NameNoPeer(t)
    BY <1>7 DEF Crash, Exit, NameNoPeer, Restart
<1>8. CASE \E w \in Web : WebServe(w) \/ \E q \in Peers : WebEnter(w, q)
    BY <1>8 DEF WebServe, WebEnter
<1> QED BY <1>1, <1>2, <1>3, <1>4, <1>5, <1>6, <1>7, <1>8
       DEF Next, RpcStep, NameStep, MainStep, VisitStep, EndStep

\* The use_count() that deletePeer waits for only falls: no thread takes a new
\* pointer to a peer that is out of the indexes.
THEOREM CountOnlyFalls == Spec => RemovedIsLetGo
<1>1. IInv /\ [Next]_vars => [\A p \in deleting \ byId : NoNewPointer(p)]_vars
    BY StepLetsGo
<1> QED BY <1>1, InvariantHolds, PTL DEF Spec, RemovedIsLetGo, NoNewPointer
=============================================================================
