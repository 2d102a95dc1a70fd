------------------------------ MODULE Requests ------------------------------
(***************************************************************************)
(* The requests one IpCamPeer serves, and how its webserver hook is        *)
(* removed while they run.  The webserver dispatches streams and snapshots *)
(* to onGet; clients call custom URLs through setValue.  Snapshots and     *)
(* custom URLs replace the one HTTP client of the peer, without a lock.    *)
(* deletePeer, dispose and homegearShuttingDown remove the hook and wait   *)
(* for the requests inside ("If Homegear hangs here, Sockets are still     *)
(* open."), homegearStarted hooks the peer once more, at any time.  The    *)
(* webserver is not part of the repository.                                *)
(***************************************************************************)
EXTENDS Naturals

CONSTANTS
    Streams,        \* requests of stream.mjpeg
    Snapshots,      \* requests of snapshot.jpg
    Customs,        \* writes of OPEN_CUSTOM_URL_XX
    Removers,       \* the ways to remove the hook: "delete", "dispose", "shutdown"
    NoRequest

ASSUME ConstantsAssumption ==
    /\ Streams \cap Snapshots = {} /\ (Streams \cup Snapshots) \cap Customs = {}
    /\ NoRequest \notin Streams \cup Snapshots \cup Customs
    /\ Removers \subseteq {"delete", "dispose", "shutdown"}

Dispatched == Streams \cup Snapshots
Senders == Snapshots \cup Customs

VARIABLES
    flags,          \* which of deleting, _disposing and _shuttingDown are set
    hooked,         \* whether requests are dispatched to the peer
    started,        \* whether homegearStarted has been called
    rehooked,       \* whether it was called after a removal began
    client,         \* the request that made _httpClient, NoRequest for init()'s
    at,             \* where each request is
    remover         \* where each remover is

startVars == <<started, rehooked>>
vars == <<flags, hooked, startVars, client, at, remover>>

Labels == {"out", "connect", "test", "read", "write", "make", "send"}

Init ==
    /\ flags = {} /\ hooked = TRUE /\ started = FALSE /\ rehooked = FALSE
    /\ client = NoRequest
    /\ at = [r \in Dispatched \cup Customs |-> "out"]
    /\ remover = [m \in Removers |-> "idle"]

Step(r, from, to) == at[r] = from /\ at' = [at EXCEPT ![r] = to]
Move(m, from, to) == remover[m] = from /\ remover' = [remover EXCEPT ![m] = to]

-----------------------------------------------------------------------------
(* onGet of the stream and of the snapshot, setValue of a custom URL *)

\* The request is dispatched.
Enter(r) ==
    /\ hooked
    /\ Step(r, "out", IF r \in Streams THEN "connect" ELSE "make")
    /\ UNCHANGED <<flags, hooked, startVars, client, remover>>

\* Not once the peer is disposed.
Call(c) ==
    /\ "dispose" \notin flags
    /\ Step(c, "out", "make")
    /\ UNCHANGED <<flags, hooked, startVars, client, remover>>

\* The URL has no host, or a socket or the HTTP client throws: it was closed
\* or timed out.
Fail(r) ==
    /\ \E label \in {"connect", "read", "write", "make", "send"} : Step(r, label, "out")
    /\ UNCHANGED <<flags, hooked, startVars, client, remover>>

Connect(s) ==
    /\ Step(s, "connect", "test")
    /\ UNCHANGED <<flags, hooked, startVars, client, remover>>

\* while(!_disposing && !deleting && !_shuttingDown)
Test_NotDeleting(s) ==
    /\ Step(s, "test", IF flags \ {"delete"} = {} THEN "read" ELSE "out")
    /\ UNCHANGED <<flags, hooked, startVars, client, remover>>

Test(s) ==
    /\ Step(s, "test", IF flags = {} THEN "read" ELSE "out")
    /\ UNCHANGED <<flags, hooked, startVars, client, remover>>

\* The camera sent something, ...
Receive(s) ==
    /\ Step(s, "read", "write")
    /\ UNCHANGED <<flags, hooked, startVars, client, remover>>

\* ... which the client gets; the stream goes on, a snapshot is complete.
Forward(r) ==
    /\ Step(r, "write", IF r \in Streams THEN "test" ELSE "out")
    /\ UNCHANGED <<flags, hooked, startVars, client, remover>>

\* The peer's HTTP client is replaced by one for this request's host, ...
MakeClient(r) ==
    /\ Step(r, "make", "send")
    /\ client' = r
    /\ UNCHANGED <<flags, hooked, startVars, remover>>

\* ... and whatever client the peer has sends the request and returns.
Send(r) ==
    /\ Step(r, "send", IF r \in Snapshots THEN "write" ELSE "out")
    /\ UNCHANGED <<flags, hooked, startVars, client, remover>>

-----------------------------------------------------------------------------
(* deletePeer, dispose and homegearShuttingDown *)

\* The flag first, ...
SetFlag_After(m) ==
    /\ Move(m, "idle", "remove")
    /\ UNCHANGED <<flags, hooked, startVars, client, at>>

SetFlag_OfItsOwn(m) ==
    /\ Move(m, "idle", "remove")
    /\ flags' = flags \cup {"removing"}
    /\ UNCHANGED <<hooked, startVars, client, at>>

SetFlag(m) ==
    /\ Move(m, "idle", "remove")
    /\ flags' = flags \cup {m}
    /\ UNCHANGED <<hooked, startVars, client, at>>

\* ... then removeHooks: no new requests, ...
Unhook_Kept(m) ==
    /\ Move(m, "remove", "drain")
    /\ UNCHANGED <<flags, hooked, startVars, client, at>>

Unhook(m) ==
    /\ Move(m, "remove", "drain")
    /\ hooked' = FALSE
    /\ UNCHANGED <<flags, startVars, client, at>>

\* ... and it returns when those inside the peer are out.
Drained(m) ==
    /\ \A r \in Dispatched : at[r] = "out"
    /\ Move(m, "drain", "done")
    /\ UNCHANGED <<flags, hooked, startVars, client, at>>

\* homegearStarted hooks the peer again, which the constructor did first.
HomegearStarted ==
    /\ ~started /\ started' = TRUE
    /\ hooked' = TRUE
    /\ rehooked' = (\E m \in Removers : remover[m] # "idle")
    /\ UNCHANGED <<flags, client, at, remover>>

-----------------------------------------------------------------------------
StreamStep(s) == Connect(s) \/ Test(s) \/ Receive(s)

RequestStep(r) ==
    \/ r \in Streams /\ StreamStep(r)
    \/ r \in Senders /\ (MakeClient(r) \/ Send(r))
    \/ r \in Dispatched /\ Forward(r)
    \/ Fail(r)

RemoverStep(m) == Unhook(m) \/ Drained(m)

Next ==
    \/ \E r \in Dispatched : Enter(r)
    \/ \E c \in Customs : Call(c)
    \/ \E r \in Dispatched \cup Customs : RequestStep(r)
    \/ \E m \in Removers : SetFlag(m) \/ RemoverStep(m)
    \/ HomegearStarted

Spec == Init /\ [][Next]_vars

\* Sockets answer, close or time out (the camera's after 30 seconds), and a
\* remover goes on when nobody is inside.  Clients may ask for ever, and no
\* camera has to end its stream.
Fairness ==
    /\ \A r \in Dispatched \cup Customs : WF_vars(RequestStep(r))
    /\ \A m \in Removers : WF_vars(RemoverStep(m))

FairSpec == Spec /\ Fairness

-----------------------------------------------------------------------------
(* Properties *)

TypeOK ==
    /\ flags \subseteq Removers /\ hooked \in BOOLEAN
    /\ started \in BOOLEAN /\ rehooked \in BOOLEAN
    /\ client \in Senders \cup {NoRequest}
    /\ at \in [Dispatched \cup Customs -> Labels]
    /\ remover \in [Removers -> {"idle", "remove", "drain", "done"}]

\* Once a removal has returned, no request is inside the peer, so that its
\* object can be freed and its rows removed; unless homegearStarted came after
\* the removal had begun, which hooks the peer for good.
RemovedIsEmpty ==
    \A m \in Removers : remover[m] = "done" /\ ~rehooked =>
        \A r \in Dispatched : at[r] = "out"

\* Removing the hooks never hangs on a stream that goes on and on, nor on a
\* snapshot or on another removal, while nobody hooks the peer again.
RemovalReturns ==
    \A m \in Removers : remover[m] = "remove" ~> remover[m] = "done" \/ rehooked

\* How many steps a request inside has left once it is told to stop.
StepsLeft ==
    [make |-> 4, send |-> 3, read |-> 3, write |-> 2, connect |-> 2, test |-> 1, out |-> 0]

\* From the moment one of the flags is set, every step of a request brings it
\* closer to its end: no stream begins another turn, wherever it was.
LeavesSoon ==
    [][flags # {} =>
          \A r \in Dispatched \cup Customs : at[r] # "out" /\ at'[r] # at[r] =>
              StepsLeft[at'[r]] < StepsLeft[at[r]]]_vars

\* The hook of the peer, as the webserver sees it, is the one of WebHook: its
\* loops and calls leave a closed hook for good.
Hook == INSTANCE WebHook WITH
            Visitors <- Dispatched,
            open     <- hooked,
            inside   <- {r \in Dispatched : at[r] # "out"}

ImplementsHook == Hook!Spec

\* "Info: Calling URL: ...": the request of a custom URL is sent by a client
\* for the host of that URL.
CustomUrlCalled == \A c \in Customs : at[c] = "send" => client = c
=============================================================================
