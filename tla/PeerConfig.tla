------------------------------ MODULE PeerConfig ------------------------------
(***************************************************************************)
(* The configuration of one IpCamPeer: putParamset stores a parameter of   *)
(* channel 0 and calls initHttpClient, which fills the fields the HTTP     *)
(* code uses and announces the peer's own URLs in channel 1.               *)
(*                                                                         *)
(* An entry of configCentral[0] is an RpcConfigurationParameter: the       *)
(* parameter that describes it, the database row it is saved to and its    *)
(* data.  A row is named by the parameter it was made for.  A URL is a     *)
(* value that getUrlInfo finds a host in, or not.                          *)
(*                                                                         *)
(* Nothing keeps two calls apart: their steps interleave, and two history  *)
(* variables remember which effects of that the next calls have to mend.   *)
(***************************************************************************)
EXTENDS Naturals

CONSTANTS
    Threads,        \* RPC threads, and the main thread that starts the peer
    GoodUrls,       \* URLs with a host
    BadUrls,        \* texts without one
    Files,          \* names of CA files
    NoText,         \* the empty string
    Stored,         \* the parameters that calls store (a bound for TLC)
    Prefixes,       \* Homegear's own URL, as its address and port may change
    MaxRestarts     \* bound on the restarts of the process

ASSUME ConstantsAssumption ==
    /\ NoText \notin GoodUrls \cup BadUrls \cup Files
    /\ GoodUrls \cap BadUrls = {}
    /\ NoText \notin Prefixes /\ Prefixes # {}
    /\ MaxRestarts \in Nat

VARIABLES
    entry,          \* configCentral[0]
    rows,           \* the rows of these entries in the database
    streamHost,     \* _streamUrlInfo (NoText: ip is empty)
    snapshotHost,   \* _snapshotUrlInfo
    caFile,         \* _caFile
    verify,         \* _verifyCertificate
    value,          \* STREAM_URL and SNAPSHOT_URL in valuesCentral[1]
    valueRows,      \* their rows in the database
    prefix,         \* newPrefix in this process (NoText: rpcPort is 0)
    started,        \* whether homegearStarted has been called
    at,             \* where each thread is
    key,            \* the parameter a thread is storing
    got,            \* the data a thread has read or is storing
    caWritten,      \* the CA_FILE the last putParamset was given
    interrupted,    \* whether a restart hit a thread between the two URLs
    stale,          \* whether the last call to begin has met another one
    torn,           \* the URLs whose last two values were stored at once
    restarts

configVars == <<entry, rows, caWritten>>
fieldVars == <<streamHost, snapshotHost, caFile, verify>>
valueVars == <<value, valueRows>>
processVars == <<prefix, started, interrupted, restarts>>
historyVars == <<stale, torn>>
vars == <<configVars, fieldVars, valueVars, processVars, historyVars, at, key, got>>

Urls == GoodUrls \cup BadUrls \cup {NoText}
Flags == {"true", "false"}
Keys == {"STREAM_URL", "SNAPSHOT_URL", "CA_FILE", "VERIFY_CERTIFICATE"}

ASSUME StoredAssumption == Stored \subseteq Keys

Values(k) ==
    CASE k \in {"STREAM_URL", "SNAPSHOT_URL"} -> Urls
      [] k = "CA_FILE" -> Files \cup {NoText}
      [] k = "VERIFY_CERTIFICATE" -> Flags
Channel1 == {"STREAM_URL", "SNAPSHOT_URL"}

Labels == {"idle", "savePut", "nextPut", "readStream", "setStream", "readSnapshot", "setSnapshot",
           "readCa", "setCa", "aliasCa", "readVerify", "setVerify", "check",
           "setStreamValue", "saveStream", "setSnapshotValue", "saveSnapshot"}

\* The description of an entry converts: a flag's data has no text, and what
\* is not a flag is stored as FALSE by the description of one.  A text that was
\* saved to a flag's row is a flag again: set unless it is empty.
TextOf(e) == IF e.param = "VERIFY_CERTIFICATE" THEN NoText ELSE e.data
FlagOf(e) ==
    CASE e.param # "VERIFY_CERTIFICATE" -> "false"
      [] e.data \in Flags -> e.data
      [] OTHER -> IF e.data = NoText THEN "false" ELSE "true"
ToPacket(param, v) == IF param = "VERIFY_CERTIFICATE" /\ v \notin Flags THEN "false" ELSE v
\* What getParamset returns for the parameter k.
GetParamset(k) == TextOf(entry[k])
Host(url) == IF url \in GoodUrls THEN url ELSE NoText

Default(k) == IF k = "VERIFY_CERTIFICATE" THEN "true" ELSE NoText
EntryOf(k, data) == [param |-> k, row |-> k, data |-> data]

Init ==
    /\ rows = [k \in Keys |-> Default(k)]
    /\ entry = [k \in Keys |-> EntryOf(k, Default(k))]
    /\ caWritten = NoText
    /\ streamHost = NoText /\ snapshotHost = NoText /\ caFile = NoText /\ verify = "false"
    /\ value = [k \in Channel1 |-> NoText] /\ valueRows = value
    /\ prefix \in Prefixes \cup {NoText} /\ started = TRUE
    /\ at = [t \in Threads |-> "idle"]
    /\ key = [t \in Threads |-> "STREAM_URL"] /\ got = [t \in Threads |-> NoText]
    /\ interrupted = FALSE /\ stale = FALSE /\ torn = {} /\ restarts = 0

\* What a thread held for a step is gone after it.
Drop(t) == key' = [key EXCEPT ![t] = "STREAM_URL"] /\ got' = [got EXCEPT ![t] = NoText]

Step(t, from, to) == at[t] = from /\ at' = [at EXCEPT ![t] = to]

\* A step of t, the first one or not, while another call is in progress.
Meets(t) ==
    stale' = ((\E u \in Threads \ {t} : at[u] # "idle") \/ (stale /\ at[t] # "idle"))

-----------------------------------------------------------------------------
(* putParamset of some of the four parameters initHttpClient depends on *)

\* The call, or its loop, takes a parameter: setBinaryData, ...
Put(t, k, v) ==
    LET data == ToPacket(entry[k].param, v)
    IN  /\ v \in Values(k)
        /\ Step(t, "idle", "savePut") \/ Step(t, "nextPut", "savePut")
        /\ entry' = [entry EXCEPT ![k].data = data]
        /\ key' = [key EXCEPT ![t] = k] /\ got' = [got EXCEPT ![t] = data]
        /\ caWritten' = IF k = "CA_FILE" THEN v ELSE caWritten
        /\ Meets(t)
        /\ torn' = IF \E u \in Threads \ {t} : at[u] = "savePut" /\ key[u] = k
                   THEN torn \cup ({k} \cap Channel1) ELSE torn \ {k}
        /\ UNCHANGED <<rows, fieldVars, valueVars, processVars>>

\* ... and saveParameter.  The loop goes on, or initHttpClient is called.
SavePut_Forgotten(t) ==
    /\ Step(t, "savePut", "nextPut")
    /\ UNCHANGED <<configVars, fieldVars, valueVars, processVars, historyVars>>
    /\ Drop(t)

SavePut_NoReload(t) ==
    /\ Step(t, "savePut", IF key[t] = "SNAPSHOT_URL" THEN "idle" ELSE "nextPut")
    /\ rows' = [rows EXCEPT ![entry[key[t]].row] = got[t]]
    /\ UNCHANGED <<entry, caWritten, fieldVars, valueVars, processVars, historyVars>>
    /\ Drop(t)

SavePut(t) ==
    /\ Step(t, "savePut", "nextPut")
    /\ rows' = [rows EXCEPT ![entry[key[t]].row] = got[t]]
    /\ UNCHANGED <<entry, caWritten, fieldVars, valueVars, processVars, historyVars>>
    /\ Drop(t)

-----------------------------------------------------------------------------
(* initHttpClient *)

\* homegearStarted, for a peer that was loaded when the process started.
HomegearStarted(t) ==
    /\ ~started /\ started' = TRUE
    /\ Step(t, "idle", "readStream")
    /\ Meets(t)
    /\ UNCHANGED <<configVars, fieldVars, valueVars, prefix, interrupted, restarts, torn, key, got>>

Read(t, data) ==
    /\ got' = [got EXCEPT ![t] = data]
    /\ UNCHANGED <<configVars, fieldVars, valueVars, processVars, historyVars, key>>

ReadUrl(t) ==
    \/ /\ Step(t, "nextPut", "setStream") \/ Step(t, "readStream", "setStream")
       /\ Read(t, TextOf(entry["STREAM_URL"]))
    \/ Step(t, "readSnapshot", "setSnapshot") /\ Read(t, TextOf(entry["SNAPSHOT_URL"]))

SetUrl(t) ==
    /\ \/ /\ Step(t, "setStream", "readSnapshot")
          /\ streamHost' = Host(got[t]) /\ UNCHANGED snapshotHost
       \/ /\ Step(t, "setSnapshot", "readCa")
          /\ snapshotHost' = Host(got[t]) /\ UNCHANGED streamHost
    /\ UNCHANGED <<configVars, caFile, verify, valueVars, processVars, historyVars>>
    /\ Drop(t)

ReadCa(t) == Step(t, "readCa", "setCa") /\ Read(t, TextOf(entry["CA_FILE"]))

SetCa(t) ==
    /\ Step(t, "setCa", "aliasCa")
    /\ caFile' = got[t]
    /\ UNCHANGED <<configVars, streamHost, snapshotHost, verify, valueVars, processVars, historyVars>>
    /\ Drop(t)

\* parameter = configCentral[0]["VERIFY_CERTIFICATE"] assigns to the entry
\* that parameter refers to.
AliasCa(t) ==
    /\ Step(t, "aliasCa", "readVerify")
    /\ entry' = [entry EXCEPT !["CA_FILE"] = entry["VERIFY_CERTIFICATE"]]
    /\ UNCHANGED <<rows, caWritten, fieldVars, valueVars, processVars, historyVars, key, got>>

ReadVerify_AsText(t) ==
    Step(t, "readVerify", "setVerify") /\ Read(t, TextOf(entry["CA_FILE"]))

ReadVerify(t) == Step(t, "readVerify", "setVerify") /\ Read(t, FlagOf(entry["CA_FILE"]))

SetVerify(t) ==
    /\ Step(t, "setVerify", "check")
    /\ verify' = got[t]
    /\ UNCHANGED <<configVars, streamHost, snapshotHost, caFile, valueVars, processVars, historyVars>>
    /\ Drop(t)

\* Without a stream or a port, or when its URL is announced already, that is
\* all.
MustAnnounce == streamHost # NoText /\ prefix # NoText /\ value["STREAM_URL"] # prefix

CheckStream(t) ==
    /\ \/ ~MustAnnounce /\ Step(t, "check", "idle")
       \/ MustAnnounce /\ Step(t, "check", "setStreamValue")
    /\ UNCHANGED <<configVars, fieldVars, valueVars, processVars, historyVars, key, got>>

\* Another call may have announced the URL since.
SetStreamValue(t) ==
    /\ Step(t, "setStreamValue", "saveStream")
    /\ value' = [value EXCEPT !["STREAM_URL"] = prefix]
    /\ UNCHANGED <<configVars, fieldVars, valueRows, processVars, historyVars, key, got>>

SaveStream_Only(t) ==
    /\ Step(t, "saveStream", "idle")
    /\ valueRows' = [valueRows EXCEPT !["STREAM_URL"] = prefix]
    /\ UNCHANGED <<configVars, fieldVars, value, processVars, historyVars, key, got>>

SaveStream(t) ==
    /\ Step(t, "saveStream", "setSnapshotValue")
    /\ valueRows' = [valueRows EXCEPT !["STREAM_URL"] = prefix]
    /\ UNCHANGED <<configVars, fieldVars, value, processVars, historyVars, key, got>>

SetSnapshotValue(t) ==
    /\ Step(t, "setSnapshotValue", "saveSnapshot")
    /\ value' = [value EXCEPT !["SNAPSHOT_URL"] = prefix]
    /\ UNCHANGED <<configVars, fieldVars, valueRows, processVars, historyVars, key, got>>

\* The last save, and the events.
SaveSnapshot(t) ==
    /\ Step(t, "saveSnapshot", "idle")
    /\ valueRows' = [valueRows EXCEPT !["SNAPSHOT_URL"] = prefix]
    /\ UNCHANGED <<configVars, fieldVars, value, processVars, historyVars, key, got>>

-----------------------------------------------------------------------------
\* The process ends; the next one, perhaps at another address, loads the rows.
Restart ==
    /\ restarts < MaxRestarts /\ restarts' = restarts + 1
    /\ entry' = [k \in Keys |-> EntryOf(k, rows[k])]
    /\ streamHost' = NoText /\ snapshotHost' = NoText /\ caFile' = NoText /\ verify' = "false"
    /\ value' = valueRows
    /\ prefix' \in Prefixes \cup {NoText} /\ started' = FALSE
    /\ at' = [t \in Threads |-> "idle"]
    /\ interrupted' = (interrupted \/
           \E t \in Threads : at[t] \in {"setSnapshotValue", "saveSnapshot"})
    /\ stale' = FALSE /\ torn' = {}
    /\ key' = [t \in Threads |-> "STREAM_URL"] /\ got' = [t \in Threads |-> NoText]
    /\ UNCHANGED <<rows, caWritten, valueRows>>

InitHttpClientStep(t) ==
    \/ ReadUrl(t) \/ SetUrl(t) \/ ReadCa(t) \/ SetCa(t) \/ AliasCa(t) \/ ReadVerify(t)
    \/ SetVerify(t) \/ CheckStream(t) \/ SetStreamValue(t) \/ SaveStream(t)
    \/ SetSnapshotValue(t) \/ SaveSnapshot(t)

Next ==
    \/ \E t \in Threads, k \in Stored : \E v \in Values(k) : Put(t, k, v)
    \/ \E t \in Threads : SavePut(t) \/ HomegearStarted(t) \/ InitHttpClientStep(t)
    \/ Restart

Spec == Init /\ [][Next]_vars

-----------------------------------------------------------------------------
(* Properties *)

Packets == Urls \cup Files \cup Flags

TypeOK ==
    /\ entry \in [Keys -> [param : Keys, row : Keys, data : Packets]]
    /\ rows \in [Keys -> Packets] /\ caWritten \in Files \cup {NoText}
    /\ streamHost \in Urls /\ snapshotHost \in Urls
    /\ caFile \in Files \cup {NoText} /\ verify \in Flags
    /\ value \in [Channel1 -> Prefixes \cup {NoText}]
    /\ valueRows \in [Channel1 -> Prefixes \cup {NoText}]
    /\ prefix \in Prefixes \cup {NoText} /\ started \in BOOLEAN /\ interrupted \in BOOLEAN
    /\ at \in [Threads -> Labels] /\ key \in [Threads -> Keys] /\ got \in [Threads -> Packets]
    /\ stale \in BOOLEAN /\ torn \subseteq Channel1
    /\ restarts \in 0 .. MaxRestarts

Quiet == started /\ \A t \in Threads : at[t] = "idle"

\* Between calls the hosts that requests connect to are those of the URLs
\* getParamset returns, also after a restart; calls that overlap may leave
\* another host, but only until the next call that meets none.
UrlsInUse ==
    Quiet /\ ~stale => /\ streamHost = Host(GetParamset("STREAM_URL"))
                       /\ snapshotHost = Host(GetParamset("SNAPSHOT_URL"))

\* Between calls the URLs getParamset returns are those the next process loads;
\* two calls that store one of them at once may save the other's value, but
\* only until the next time it is stored.
UrlsSaved == Quiet => \A k \in Channel1 \ torn : GetParamset(k) = rows[k]

\* The two URLs of the peer itself are announced together: a SNAPSHOT_URL that
\* lags behind STREAM_URL comes from a restart between the two saves (and is
\* never repaired, because STREAM_URL is not written again).
AnnouncedTogether ==
    Quiet /\ value["STREAM_URL"] = prefix /\ ~interrupted => value["SNAPSHOT_URL"] = prefix

\* CA_FILE is <readable>: getParamset returns what putParamset stored.
CaFileReadsBack == Quiet /\ restarts = 0 => GetParamset("CA_FILE") = caWritten
=============================================================================
