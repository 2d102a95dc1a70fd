# A verification project for Homegear-IPCam

Homegear-IPCam is a device family module of the home automation server Homegear. It gives every
IP camera a *peer*: an object with a configuration (the camera's URLs), a `MOTION` variable that
the camera sets by calling a URL, and a URL under which browsers get the camera's stream and
snapshots. The base library (`BaseLib`: peers, database, webserver, sockets, events) is not part
of the repository; what the code relies on in it is modelled from how the code uses it and marked
*external* in `PROJECT.json`.

Line numbers below refer to `src/src/IpCamCentral.cpp` (C) and `src/src/IpCamPeer.cpp` (P).

## 1. Inventory

| Component | State | Operations | Who calls them |
|---|---|---|---|
| `IpCamCentral`: registry of peers | `_peersBySerial`, `_peersById`, `_peersMutex`, database rows of the peers | `createDevice`, `deleteDevice`/`deletePeer`, `getPeer`, `loadPeers`, `savePeers`, CLI `peers create/remove/setname/list/select` | RPC threads, the CLI thread, the main thread |
| `IpCamCentral`: worker and life cycle | `lastPeer`, `sleepingTime`, `_stopWorkerThread`, `_disposing` | `worker` (round robin over the peers), `init`, `dispose` (joins the worker) | its own thread, the main thread |
| `IpCamPeer`: motion | `_motion`, `_motionTime`, `_resetMotionAfter`, `MOTION` in memory and in the database | motion URL in `onGet`, `worker`, `load` | webserver threads, the worker thread, the main thread |
| `IpCamPeer`: configuration | `configCentral[0]`, `_streamUrlInfo`, `_snapshotUrlInfo`, `_caFile`, `_verifyCertificate`, announced URLs in `valuesCentral[1]` | `putParamset`, `getParamset`, `initHttpClient`, `homegearStarted` | RPC threads, the main thread |
| `IpCamPeer`: stream and hook | webserver hook, `_disposing`, `deleting`, `_shuttingDown` | stream URL in `onGet`, `removeHooks`, `dispose`, `homegearShuttingDown` | webserver threads, whoever deletes or stops |
| `IpCamPeer`: snapshot, custom URLs | `_httpClient`, shared by all requests | snapshot URL in `onGet`, `setValue` of `OPEN_CUSTOM_URL_nn` | webserver and RPC threads |
| `IpCamPeer::getUrlInfo` | none | splits a URL into host, port, path | `initHttpClient`, `setValue` |
| `IpCam`, `Factory`, `GD` | the family's singletons | construction, `getPairingInfo` | Homegear |
| `Interfaces`, `IIpCamInterface`, `EventServer` | the listen address | `setListenAddress`; listening is empty | Homegear |
| `IpCamPacket` | a value object | none that the module uses | nobody |

How they interact. The central and its peers run in threads of four kinds, which share the two
indexes under `_peersMutex` and everything inside a peer without any lock. A pointer to a peer is a
`shared_ptr`, and `deletePeer` waits for the other copies to disappear; webserver threads use the
peer's address and are waited for by `removeHooks` instead. Peers tell clients of changes through
events, and write each changed parameter to the database at once.

What is hard:

- *check, then act*: `_peersMutex` is released between a test and the use of its result (C 629/636,
  587/590, 124/125);
- *deletion against everything else*: hook, requests, event, indexes, pointers and rows are taken
  away in an order that has to be right for each of the other threads (C 231-266), with a wait that
  gives up after a minute;
- *crash between two writes*, in creation, deletion, the reset of `MOTION` and the announcement of
  the two URLs;
- *exceptions while saving*, whose handlers unlock a mutex that the thread does not hold (C 647, 350), and *while
  deleting*, whose handler leaves a half-deleted peer (C 270);
- *a second hook*: `homegearStarted` hooks every peer again (P 136), also one that is just being deleted;
- *two lock-free writers of one variable*: the worker and the requests (P 82-98, 480-502);
- *an endless loop in a request* that a deletion has to get rid of (P 418);
- *a shutdown* that takes hooks away and joins the worker while calls, requests and saves go on
  (P 145, C 52);
- *calls of `putParamset` that overlap*, each with its own run of `initHttpClient` over the same fields
  (P 834-846);
- *one HTTP client for all requests* of a peer, replaced without a lock (P 449, 894).

What makes each part correct: the indexes, the database, and what clients have been told agree, and
no thread writes for a peer that is gone (registry); every peer is visited, and the worker can be
joined (worker); motion that was
reported ends, not too early, and clients hear of it (motion); the code uses the URLs that were
stored, now and after a restart (configuration); removing a hook ends, with nobody inside (stream);
a request goes to the host it was made for (custom URLs); a text is understood as the URL it is (`getUrlInfo`). The hazards, each at its line with the properties that cover
it, are listed in `PROJECT.json`.

## 2. The modules

| Module | Models | Depends on |
|---|---|---|
| `PeerLifecycle` | abstract: the life of one camera (new, stored, paired, removed) | |
| `Pairing` | abstract: the map from serial numbers to cameras that callers see who take turns | |
| `WebHook` | abstract: the hook of one peer in Homegear's webserver, which requests enter and leave | |
| `PeerRegistry` | `IpCamCentral` with all its threads, the hooks, the database, starts, shutdowns and crashes | `PeerLifecycle`, `Pairing` (refinements) |
| `PeerRegistryProofs` | proofs about `PeerRegistry`, including that it implements `PeerLifecycle` | `PeerRegistry` |
| `OneCallerProofs` | proofs about `PeerRegistry` with calls that do not overlap, including that it implements `Pairing` | `PeerRegistryProofs` |
| `RoundProofs` | proofs about the worker's round in `PeerRegistry` | `PeerRegistryProofs` |
| `Motion` | `MOTION` of one peer | |
| `MotionProofs` | proofs about `Motion` | `Motion` |
| `PeerConfig` | configuration of one peer, with calls that overlap | |
| `PeerConfigProofs` | proofs about `PeerConfig` | `PeerConfig` |
| `Requests` | hook, streams, snapshots and custom URLs of one peer | `WebHook` (refinement, by TLC) |
| `RequestsProofs` | proofs about `Requests` | `Requests` |
| `UrlInfo` | `getUrlInfo` | |
| `UrlInfoProofs` | proofs about `UrlInfo` | `UrlInfo` |
| `MC...` | the instances that TLC checks (symmetry) | the module they are named after |

Definitions named `X_Something` are faulty versions of the definition `X` below them (a forgotten
test, a missing reset, a swapped order). Nothing uses them; `PROJECT.json` names, for every property
of a passing run, the one that breaks it, which shows that the property depends on the code.

### PeerRegistry

One step is the code between two points where another thread can be seen: a section under
`_peersMutex`, one database call, one event. `held[t]` is the `shared_ptr` of thread `t` (RPC threads,
the worker, the main thread; the main thread also holds the copies of its loops over the peers, `toVisit`);
`OnlyPointer` is `use_count() == 1` seen from `deletePeer`, and `Alive` says that any pointer is left: when
the last one goes, `~IpCamPeer` (P 66-76) removes the hooks and waits for the requests, so that a request can
enter only a peer that is alive. It may enter before the peer has an id; it then writes nothing that outlives
it. `_peersById` is a set, since an id belongs to one peer for good; `_peersBySerial` is a function. `db` and
`rows` are the peer's own row and its parameter rows, `listed` is what clients know from `raiseRPCNewDevices`
and `raiseRPCDeleteDevices`.

| Code | Actions |
|---|---|
| `createDevice`, `peers create` (C 624-664, 293-362) | `CreateDevice`, `AddSerial`, `Save` or `SaveThrows`, `AddId`, `Announce` |
| `deleteDevice`, `peers remove`, `deletePeer` (C 666-711, 363-402, 227-274) | `DeleteDevice`, `MarkDeleting`, `RemoveHooks`, `HooksRemoved`, `Retract`, `EraseIndexes`, `WaitDone` or `WaitTimeout`, `Purge`; `DeleteThrows` |
| `peers setname` (C 548-595) | `SetName`, `NameGetPeer` or `NameNoPeer`, `NameWrite` |
| `worker` (C 85-139) and the peer's `worker` (P 77-106) | `WorkerPick`, `WorkerGet`, `WorkerCheck`, `WorkerRun` |
| `onGet` (P 392-507) | `WebEnter`, `WebServe` |
| `loadPeers`, `savePeers` (C 141-164, 206-225) | `LoadPeer`, `SavePeersLock`, `SavePeersSave` |
| `homegearStarted` of the peers (P 131-143) | `HomegearStarted`, `HookPeer`, `InitPeer` |
| `homegearShuttingDown` of the peers (P 145-157) | `ShutDown`, `UnhookPeer`, `PeerUnhooked` |
| `dispose` and the join (C 47-61) | `Dispose`, `WorkerStop`, `Exit` |
| the end of the process and its next start | `Crash`, `NameNoPeer`, `Exit` |

`stage` says what the main thread has told the central: nothing yet (`loaded`), that Homegear has started, that it
shuts down (`unhooking`), and to stop the worker. It goes through the peers one after the other with a copy of the
index taken when the loop begins, in which a peer may be deleted before its turn comes; calls, creations and requests
go on all the time. The process ends (`Exit`) when the worker has been joined, wherever the calls are.

`homegearStarted` hooks a peer again whatever has happened to it since. If a deletion has removed its hook before,
requests get in once more, nobody waits for them, and they may write rows after `deleteFromDatabase`. The model does what
the code does; `rehooked` records the peers it happened to, and the properties about hooks, requests and rows of a
deleted peer (`DeleterExcludesWriters`, `NoOrphanRows`, `RemovedHasNoRequests`, `DeletionEnds`) exempt exactly those.

An exception in `deletePeer` (C 270) leaves the peer as it is by then: marked `deleting`, with or without its hook, in
the indexes, or (from `deleteFromDatabase`) out of them with its rows still there. The properties say what holds of such a
peer, too.

Abstractions: the arguments of a command are parsed before its first action and refused without a
change of state; `createPeer` for an unknown device type leaves nothing behind and is left out, as is
the pointer that `deleteDevice` takes and drops before it calls `deletePeer` (it can only prolong the
wait of another deletion, which is bounded). The unlock of a mutex that is not owned is undefined; the
model has the outcome that the lock is released (`SaveThrows`). The dereference of an empty pointer
ends the process.

### Motion

Webserver threads are in `onGet` of the motion URL, one step for each access to what they share with
the worker: setting, assignment and clamping of `_resetMotionAfter` are three (P 499-502, `got` is what the
thread has read). `age` is the time since `_motionTime`; the clock `Tick` may advance between any two steps.
`Restart` is the end of the process and `load` of the next one. `met` and `alone` are history: whether a request took a
step during this turn of the worker, and whether the last request to begin met no other one and no change of the setting.

### PeerConfig

`entry[k]` is the `RpcConfigurationParameter` of `k`: its description, the row it is saved to, and its
data. The description matters because `initHttpClient` overwrites one entry with another (P 587). `key`
and `got` are what a thread holds between two accesses to shared state. `Put` and `SavePut` are one turn of the loop of `putParamset`, which may be called before `homegearStarted`; the
other actions are the statements of
`initHttpClient` that read or write shared state. The order of the parameters in a call is arbitrary,
and a call may contain any number of them. Calls overlap without any order: `stale` remembers that the last
call to begin has met another one, `torn` which URL was stored by two calls at once. They record what the
code cannot promise then, so that the properties can say when it can again.

### WebHook and Requests

`WebHook` is what a peer needs from its hook: a request gets in only while the hook is open, and when it is
closed for good whoever is inside gets out. `Requests` implements it with the peer's handlers; what is checked is
the second half, since the first is the webserver's.

In `Requests` three removers (deletion, disposal, shutdown) set their flag and remove the hook; streams go
round the loop of P 418; snapshots and custom URLs make a client and send with whatever client the peer has
by then. `HomegearStarted` hooks the peer once more at any time; `rehooked` says that a removal had begun.
That the webserver waits for requests inside the peer when its hook is removed is taken from the message
of P 122. Writes of custom URLs come through RPC, hold a pointer to the peer and are not waited for here but
by `deletePeer`.

### UrlInfo

The machine writes every text character by character; `ParsesUrls` compares `GetUrlInfo` with what a URL
is: authority, host, port and path by concatenation rather than by splitting. A character stands for a
kind of characters: letters, digits, ":" and "/". User names and IPv6 addresses need other kinds and are left out, as
are letter case of the scheme and other texts than `://` after `http` and `https`. The code takes no text of up to eight
characters for a URL (P 515), which leaves `http://a` without a host: `ParsesUrls` is about longer texts, and
`OthersHaveNoHost` says that the short ones have none.

## 3. What is checked

| Run | Instance | Shows |
|---|---|---|
| `registry` | 2 RPC threads, 1 webserver thread, the worker, the main thread that loads and saves, 2 cameras, 1 serial number, exceptions while saving and deleting, failing loads, 1 crash | `TypeOK`, `Ownership`, `RegisteredIsStored`, `NoOrphanRows`, `RegisteredIsListed`; the refinement of `PeerLifecycle`, with removed cameras that may return to the database |
| `registry_deletion` | 2 RPC threads, 1 webserver thread, the worker, `homegearStarted` and `homegearShuttingDown`, 1 camera, 2 shutdowns or crashes, no exceptions and failing loads, with fairness | every deletion returns; every shutdown ends; who may use a deleted peer (`Ownership`, `NoOrphanRows`, `RemovedHasNoRequests`, `RemovedIsLetGo`); the refinement of `PeerLifecycle` (nothing returns) |
| `registry_one_caller` | 1 RPC thread, the worker, `homegearStarted` and `homegearShuttingDown`, 2 cameras, 2 serial numbers, 1 shutdown or crash, with fairness | between calls the indexes and the client list are equal; the refinement of `Pairing`; each turn of the worker comes closer to every camera it does not choose, and it visits every camera that stays |
| `motion` | 2 requests at once, 2 reports, 1 restart, settings below and above the range, with fairness | `MOTION` is never stuck; the wait is clamped; a changed setting gets into use; no early reset in a turn that met no report; `MOTION` ends |
| `config` | 2 calls that overlap and store `STREAM_URL`, `SNAPSHOT_URL` and `CA_FILE`, a URL and the empty text, one address of Homegear or none, 1 restart | hosts in use and rows follow the stored URLs; the two announced URLs stay together |
| `requests` | 2 streams, a snapshot, a custom URL, 3 removers, a second hook, with fairness | every removal returns, with nobody inside; every step brings a request closer to its end once a removal has begun; the refinement of `WebHook` |
| `url_info` | 3 schemes, texts of up to 6 characters of 4 kinds | `getUrlInfo` against the definition of a URL; which texts have no host |

Bounds. Two threads that call and two cameras under one serial number are what every conflict of the
registry needs: two creations of one serial number, a deletion against a creation or another deletion, a
name command against a deletion. The other threads (worker, webserver, main) come with their own
actions. The loops of the main thread over the peers multiply the states, so that `Tours` leaves them out of
`registry`, where two cameras share a serial number and calls throw; `registry_deletion` has them with one camera, which is what
a deletion against `homegearStarted` or a shutdown needs, and `registry_one_caller` with two. That the properties also hold
for all of this together is left to the proofs, which have no such bound. Crashes are bounded by `MaxCrashes`; one crash
reaches every intermediate state of a creation or deletion and loads from it. A shutdown counts as a crash; with two of
them (`registry_deletion`) one comes after a load. Cameras are never reused (an id is given out once), so their number
bounds the creations. In `motion` the range of the setting is 2 to 3 clock units, with the settings 1
and 6 outside of it, and `MaxAge` is one more than the longest wait, beyond which the clock decides
nothing. Six characters hold a host, a ":" with and without a port, and a path with a ":" in it.
In `config` two calls are what every overlap needs, and the empty text stands for every text without a
host; `VERIFY_CERTIFICATE` is written by the alias of P 587 only (`Stored`, which `config_ca_file` sets to all four),
and files and a change of Homegear's address are left to the proofs, which hold for any number of them.
Symmetry is used for the cameras, serial numbers and threads of the safety runs only.

Fairness. `PeerRegistry`: RPC threads and the worker, once begun, go on (strong fairness, as they may
have to queue for `_peersMutex`, whose holders never keep it for ever); requests return, and the main thread
finishes the loop it is in (weak, `VisitStep`; nobody can take its step away). Between its loops of a shutdown it may be
called to save the peers any number of times, and still comes to the next (strong, `EndStep`). No call,
exception, shutdown or crash is ever forced. `Motion`: requests and the worker
proceed, time passes; neither reports nor restarts have to happen. `Requests`: sockets answer, close
or run into a timeout (P 406 for streams, the HTTP client's own otherwise), so each step of a request ends,
and a remover goes on; but no camera has to end its stream and browsers may come back for ever.

Disagreements found. Five runs check what the program says of itself and are violated:

- `registry_two_creations`: two overlapping creations of one serial number both succeed, in spite of
  "This peer is already paired to this central." (C 629).
- `registry_set_name`: `setname` uses an empty pointer if the peer is deleted between its two lookups,
  instead of "This peer is not paired to this central." (C 587-591).
- `motion_clients`: the event of the reset can overtake the event of the report; clients keep `MOTION`
  = true.
- `config_ca_file`: `parameter = configCentral[0]["VERIFY_CERTIFICATE"]` (P 587) assigns through a reference
  and overwrites the entry of `CA_FILE`, which `IPCam.xml` describes as readable and writeable;
- `custom_url`: a snapshot replaces the HTTP client between the two steps of a custom URL (P 894, 898), whose
  request then goes to the camera, although the log says "Calling URL" with the custom one (P 897).

Weaknesses that no run of its own shows, because nothing in the repository says otherwise in as many words; the
properties are stated so that they hold beside them:

- *early reset* (`ResetNotEarly`): the initial `_resetMotionAfter` is 30 *milliseconds* (the
  unit of `IPCam.xml` 88 is seconds) and is replaced only after the first report, and `_motion` is set before
  `_motionTime` (P 490-491). While a request is between these assignments the worker may reset its report
  before the minimum of 5 seconds has passed. Besides, a report that comes between the worker's look at the time (P 82) and
  its assignments (P 84-93) is reset at once, even if `onGet` is through with it. `ResetNotEarly` therefore
  constrains the clearing of the value in turns that met no request (`met`);
- *a hook under a deletion* (`rehooked`): see `PeerRegistry` above;
- *late announcement*: `deleteDevice` may overtake `raiseRPCNewDevices` (C 654), so that clients keep a device that is gone.
  `RegisteredIsListed` is about the other direction;
- *foreign index entry*: with two cameras under one serial number the deletion of one erases the other's entry of
  `_peersBySerial` (C 254).

## 4. What is proved

TLAPS checks the following for every number of threads, cameras, serial numbers, URLs, requests and crashes;
the only assumptions are those on the constants (`ConstantsAssumption`: the values that stand for "none" are
none of the others, flags are Boolean, bounds are numbers, the default is a setting).
Some theorems have a premise of their own:

| Premise | Theorems | Why it is needed |
|---|---|---|
| `OneCaller`: calls do not overlap, neither saving nor deleting throws, and loading does not fail | `IndexesStayInStep`, `DatabaseIsPairing` | two creations of one serial number overlap (`registry_two_creations`); a peer that failed to be saved, deleted or loaded stays behind in one index or in the database only, and its serial number can be paired again without any overlap |

`PeerRegistryProofs`:

- `TypeCorrect`, `OwnershipHolds`, `PairedIsStored`, `RowsHaveOwners`, `PairedIsListed`: `TypeOK`,
  `Ownership`, `RegisteredIsStored`, `NoOrphanRows` and `RegisteredIsListed` are invariants, with and without
  exceptions, with `homegearStarted` and shutdowns;
- `RegistryImplementsLifecycle`: the registry implements `PeerLifecycle` in every interleaving. Whether calls may throw
  decides `MayReturn`: the unlock in the exception handler lets a deletion finish while `savePeers` is running, which
  then saves the removed peer again. Without exceptions a removed camera never comes back; with them it gets back into
  the database (and is loaded by the next process), but into no index of this one;
- `RemovedIsUnhooked` (`RemovedHasNoRequests`): a peer that is out of the indexes has no hook and no request inside, also
  after an exception in `deletePeer`, unless it is `rehooked`: the webserver has its bare address;
- `CountOnlyFalls` (`RemovedIsLetGo`): nobody gets a new pointer to it, so that the `use_count()` of C 259 cannot rise again
  after the loop has seen a 1.

The argument: `NoOrphanRows` alone is not inductive, since a step that writes rows must know that its
peer is still stored. `Ownership` says so for every kind of writer: a creator has its peer for itself until
it is in `_peersById` (`CreatorOwnsPeer`); a pointer taken from `_peersById` is to a stored peer
(`WritersPeersStored`, from `RegisteredIsStored`); a request implies a hook or a deleter that still waits for
it, but for a `rehooked` peer; and a deleter has, in this order, no hook, no request, no index entry and no other pointer
left, unless it gave up or, for the first two, `homegearStarted` came in between (`DeleterExcludesWriters`). There is one lemma per component that takes steps, in each one step
per action, and in it one step per conjunct that the action can disturb and one for those it cannot. The
refinement maps `phase` to membership in `byId` and `db`; only `Save`, `SaveThrows`, `AddId`,
`EraseIndexes`, `Purge`, `LoadPeer`, `SavePeersSave` and a restart change it. `RemovedHasNoRequests` follows the deletion: `EraseIndexes`,
the only step that takes a peer out of `_peersById`, has `DeleterExcludesWriters` for its hook and its requests, and what
is hooked later was just created, or is `rehooked`. `RemovedIsLetGo` holds because every thread takes its pointer from
`_peersById`, from its own copy, or by making the peer (`CreatorOwnsPeer`).

`RoundProofs`: `IdsStayDifferent` (no id is assigned twice, from the database's `lastId`), `NextPeerFound` (with any
number of cameras `find` and `begin()` lead to exactly one next peer, as long as there is one) and
`RoundGoesOnForAll` (`RoundGoesOn`). That a set of peers has one with the lowest id (`LowestExists`) comes from the
well-founded order of the naturals. `Ahead(p)` are the peers of the round that come before `p`; `PickComesCloser`
shows that the next peer leaves that set and none enters. The theorem is about a `lastPeer` that is still
paired, since the worker begins anew after that one's deletion, and about one turn: between two turns new peers, whose
ids are higher, may get ahead of `p`. A camera could therefore wait for ever only if deletions hit the worker's last
peer, or creations overtake it, again and again; in the instance of `EveryPeerVisited` the number of cameras bounds
both.

`OneCallerProofs`: `IndexesStayInStep` (`IndexesAgree`) and `DatabaseIsPairing` (`ImplementsPairing`). The invariant `Agreement` says what the one call in progress may have changed already: cameras that
are stored, or being created, have different serial numbers (`SerialsDiffer`); what is stored is in
`_peersById`, about to be loaded, or in the hands of a call at the labels between the two writes
(`StoredIsFound`); and entries of `_peersBySerial` and of the clients' list are ahead of or behind `_peersById` at
such labels only (`SerialsLead`, `ListFollows`). The refinement maps the database to the entries of `Pairing`: `Save` is
`Pair`, for which `SerialsDiffer` has the new serial number free, `Purge` is `Unpair`, and everything else a stutter, a
crash, a restart and `savePeers` included (`SavedUnderLock`: what it saves is still paired).

`MotionProofs`: `TypeCorrect`, `MotionNeverStuck`, `ResetAfterStaysInRange`, `ResetInTime` (`ResetNotEarly`) and
`SettingGetsIntoUse` (`SettingInUse`). `NoStuckMotion` is inductive as it stands, because it names at each point of the two
writers who is bound to reset the value and the row. `ResetInTime` needs that the time the worker compares with is that of
the last report (`TimeIsLast`) whenever no request is between its assignments, and that the decision stays as good until
the clearing if no request takes a step (`DueIsOld`). `SettingGetsIntoUse` needs what a request that is alone carries from
reading the setting to the clamped field (`AloneCarriesSetting`).

`PeerConfigProofs`: `TypeCorrect`, `SavedUrls`, `UrlsAnnouncedTogether`, `HostsFollowUrls` and
`CaFileReadsUntilAssigned`. The types rest on
which entry may have become another parameter's (`EntriesNamed`: only `CA_FILE`'s, and the row follows the
description) and on what a thread holds at which step (`HeldFits`). A URL is in its row or in the hands of the
only thread about to write it (`RowsFollow`); a difference between the two announced URLs has a thread that is
about to remove it, in memory and in the database (`InOrder`); and a call that meets no other one leaves the
fields as its own reads said (`FieldsFollow`). `CaFileReadsUntilAssigned` says what `config_ca_file` shows on one
behaviour for all of them: until a restart `CA_FILE` reads back as it was stored as long as its entry is its own, and
as empty once P 587 has made it the entry of `VERIFY_CERTIFICATE`.

`RequestsProofs`: `TypeCorrect`, `RemovedStaysEmpty` (`RemovedIsEmpty`) and `RequestsLeaveSoon` (`LeavesSoon`). A hook stays closed after the first
removal, but for `HomegearStarted`, so that nobody can get in between `Drained` and the end. `LeavesSoon` is what
`RemovalReturns` rests on besides fairness: once a flag is set, a step of any request decreases `StepsLeft`, which is
four at most, so that neither the loop of P 418 nor a later step can hold a removal up for longer.

`UrlInfoProofs`: `UrlsParsed` (`ParsesUrls`) and `NoHostsInvented` (`OthersHaveNoHost`), for texts of every length over the four kinds of characters. No
induction over texts is needed: `splitFirst` cuts at the least index of a character (`SplitsBefore`, from the
well-founded order of the naturals), and everything `getUrlInfo` returns depends on whether the first ":" or the
first "/" comes first (`HostAndPortIs`).

Only model-checked: everything under fairness (`DeletionEnds`, `ShutdownEnds`, `EveryPeerVisited`, `MotionEnds`,
`RemovalReturns`, and `ImplementsHook`, whose content is that a closed hook drains), which is out of the
prover's reach.

## 5. Assumptions and what is not modelled

Assumed of the base library: ids are never given out twice; `saveParameter` is durable when it returns;
removing a webserver hook waits for the requests inside; RPC calls begin after `loadPeers`; a database row
exists for every configuration entry; the base library calls `homegearStarted` and `homegearShuttingDown` of the peers one
after the other from a copy of the index, from the thread that loads and saves them, and then `dispose` of the central. The last
one matters: a peer keeps the pointer that `getCentral` returns (P 45), so that dropping the family's pointer
does not destroy the central any more, and its destructor (C 47) cannot be relied on to stop the worker.

Not modelled: parameters of `putParamset` that nothing but `getParamset` reads again, and its error returns;
data races inside strings and containers (URLs are atomic values, and entries are not inserted while others
are looked up); what a request does with an HTTP client that was freed under it, which is undefined; the pacing
of the worker (`windowTimePerPeer`); the argument parsers of the CLI, descriptions, lists and help texts, which
change nothing; `getParamset` beyond one entry, `getValue`, `getParamsetDescription` and `getDeviceInfo`, which only
read; `IpCamPacket`, the interfaces, the family's glue and the packaging, which keep no state of their own or none
that changes.

## 6. Plan

Done: `PeerLifecycle`, `Pairing`, `WebHook`, `PeerRegistry` with `homegearStarted`, exceptions and shutdowns, `Motion`, `PeerConfig` with calls that overlap, `Requests`,
`UrlInfo`; proofs about all of them, of every invariant and action property that a passing run checks.

Left:

1. Requests that read the fields of `PeerConfig` while `initHttpClient` writes them: which mixtures of host, path,
   CA file and flag a request can connect with.
2. The pointer of `getCentral` in `PeerRegistry`, once it is known whether the base library disposes the central.
3. The argument parsers of the CLI, as operators like those of `UrlInfo`.
4. Proofs of the registry with several callers that never use one serial number at once: `IndexesAgree` and `Pairing` for
   each serial number, instead of for one caller only.
