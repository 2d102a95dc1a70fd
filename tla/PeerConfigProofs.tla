-------------------------- MODULE PeerConfigProofs --------------------------
(***************************************************************************)
(* Proofs about PeerConfig: for any number of calls at once, URLs, files   *)
(* and restarts.                                                           *)
(***************************************************************************)
EXTENDS PeerConfig, TLAPS

USE ConstantsAssumption, StoredAssumption
USE DEF vars, configVars, fieldVars, valueVars, processVars, historyVars
USE DEF Keys, Channel1, Flags, Urls, Labels, Step, Read, Drop

Texts == Files \cup {NoText}

\* What the types rest on: only CA_FILE's entry is ever another parameter's,
\* and what a thread holds is what it read or converted for its next step.
EntriesNamed ==
    /\ \A k \in Keys : entry[k].row = entry[k].param
    /\ \A k \in Keys \ {"CA_FILE"} : entry[k].param = k
    /\ entry["CA_FILE"].param \in {"CA_FILE", "VERIFY_CERTIFICATE"}
    /\ \A k \in Channel1 : entry[k].data \in Urls /\ rows[k] \in Urls
    /\ entry["CA_FILE"].param = "CA_FILE" => entry["CA_FILE"].data \in Texts
    /\ rows["CA_FILE"] \in Texts

HeldFits ==
    \A t \in Threads :
        /\ at[t] = "savePut" /\ key[t] \in Channel1 => got[t] \in Urls
        /\ at[t] = "savePut" /\ key[t] = "CA_FILE" =>
              got[t] \in Texts \/ entry["CA_FILE"].param = "VERIFY_CERTIFICATE"
        /\ at[t] \in {"setStream", "setSnapshot"} => got[t] \in Urls
        /\ at[t] = "setCa" => got[t] \in Texts
        /\ at[t] = "setVerify" => got[t] \in Flags

TInv == TypeOK /\ EntriesNamed /\ HeldFits

\* A call stores a value of the right kind, for the parameter that describes
\* the entry.
LEMMA PutKeepsTypes ==
    ASSUME TInv, NEW t \in Threads, NEW k \in Keys, NEW v \in Values(k), Put(t, k, v)
    PROVE  TInv'
<1> USE DEF TInv, TypeOK, EntriesNamed, HeldFits
<1> DEFINE data == ToPacket(entry[k].param, v)
<1>1. /\ data \in Packets
      /\ k \in Channel1 => data \in Urls /\ v \in Urls
      /\ k = "CA_FILE" => v \in Texts /\ (data \in Texts \/ entry[k].param = "VERIFY_CERTIFICATE")
      /\ entry[k].param = "CA_FILE" => data \in Texts
    BY DEF Values, ToPacket, Packets, Texts
<1>2. /\ entry' = [entry EXCEPT ![k].data = data]
      /\ key' = [key EXCEPT ![t] = k] /\ got' = [got EXCEPT ![t] = data]
      /\ at' = [at EXCEPT ![t] = "savePut"]
      /\ UNCHANGED <<rows, fieldVars, valueVars, processVars>>
      /\ stale' \in BOOLEAN /\ torn' \subseteq Channel1
      /\ caWritten' \in Texts
    BY <1>1 DEF Put, Meets, Texts
<1>3. TypeOK'
    BY <1>1, <1>2 DEF Texts
<1>4. EntriesNamed'
    BY <1>1, <1>2
<1>5. HeldFits'
    BY <1>1, <1>2
<1> QED BY <1>3, <1>4, <1>5

\* The row a value goes to is the one of a parameter of its kind.
LEMMA SaveKeepsTypes ==
    ASSUME TInv, NEW t \in Threads, SavePut(t)
    PROVE  TInv'
<1> USE DEF TInv, TypeOK, EntriesNamed, HeldFits
<1> DEFINE row == entry[key[t]].row
<1>1. /\ row \in Keys
      /\ row \in Channel1 => key[t] = row
      /\ row = "CA_FILE" => key[t] = row /\ entry["CA_FILE"].param = "CA_FILE"
    OBVIOUS
<1>2. /\ rows' = [rows EXCEPT ![row] = got[t]]
      /\ key' = [key EXCEPT ![t] = "STREAM_URL"] /\ got' = [got EXCEPT ![t] = NoText]
      /\ at[t] = "savePut" /\ at' = [at EXCEPT ![t] = "nextPut"]
      /\ UNCHANGED <<entry, caWritten, fieldVars, valueVars, processVars, historyVars>>
    BY DEF SavePut
<1>3. TypeOK'
    BY <1>1, <1>2 DEF Packets
<1>4. EntriesNamed'
    BY <1>1, <1>2
<1>5. HeldFits'
    BY <1>2
<1> QED BY <1>3, <1>4, <1>5

\* initHttpClient reads texts and flags where it needs them, also from the
\* entry of CA_FILE once it is VERIFY_CERTIFICATE's.
LEMMA ReadKeepsTypes ==
    ASSUME TInv, NEW t \in Threads, ReadUrl(t) \/ ReadCa(t) \/ ReadVerify(t)
    PROVE  TInv'
<1> USE DEF TInv, TypeOK, EntriesNamed, HeldFits
<1>1. CASE ReadUrl(t)
    <2>1. TextOf(entry["STREAM_URL"]) \in Urls /\ TextOf(entry["SNAPSHOT_URL"]) \in Urls
        BY DEF TextOf
    <2>2. PICK url \in Urls :
              /\ at' \in {[at EXCEPT ![t] = "setStream"], [at EXCEPT ![t] = "setSnapshot"]}
              /\ got' = [got EXCEPT ![t] = url]
              /\ UNCHANGED <<configVars, fieldVars, valueVars, processVars, historyVars, key>>
        BY <1>1, <2>1 DEF ReadUrl
    <2>3. TypeOK'
        BY <2>2 DEF Packets
    <2>4. EntriesNamed'
        BY <2>2
    <2>5. HeldFits'
        BY <2>2
    <2> QED BY <2>3, <2>4, <2>5
<1>2. CASE ReadCa(t)
    <2>1. TextOf(entry["CA_FILE"]) \in Texts
        BY DEF TextOf, Texts
    <2>2. TypeOK'
        BY <1>2, <2>1 DEF ReadCa, Packets, Texts
    <2>3. EntriesNamed' /\ HeldFits'
        BY <1>2, <2>1 DEF ReadCa
    <2> QED BY <2>2, <2>3
<1>3. CASE ReadVerify(t)
    <2>1. FlagOf(entry["CA_FILE"]) \in Flags
        BY DEF FlagOf
    <2> QED BY <1>3, <2>1 DEF ReadVerify, Packets
<1> QED BY <1>1, <1>2, <1>3

\* It writes what it read.
LEMMA SetKeepsTypes ==
    ASSUME TInv, NEW t \in Threads,
           SetUrl(t) \/ SetCa(t) \/ AliasCa(t) \/ SetVerify(t)
    PROVE  TInv'
<1> USE DEF TInv, TypeOK, EntriesNamed, HeldFits, Packets
<1>1. CASE SetUrl(t)
    <2>1. at[t] \in {"setStream", "setSnapshot"} => Host(got[t]) \in Urls
        BY DEF Host
    <2> QED BY <1>1, <2>1 DEF SetUrl
<1>2. CASE SetCa(t)
    BY <1>2 DEF SetCa, Texts
<1>3. CASE AliasCa(t)
    BY <1>3 DEF AliasCa
<1>4. CASE SetVerify(t)
    BY <1>4 DEF SetVerify
<1> QED BY <1>1, <1>2, <1>3, <1>4

\* The announcement writes the prefix of this process.
LEMMA AnnounceKeepsTypes ==
    ASSUME TInv, NEW t \in Threads,
           \/ CheckStream(t) \/ SetStreamValue(t) \/ SaveStream(t)
           \/ SetSnapshotValue(t) \/ SaveSnapshot(t)
    PROVE  TInv'
<1> USE DEF TInv, TypeOK, EntriesNamed, HeldFits
<1>1. CASE CheckStream(t)
    BY <1>1 DEF CheckStream
<1>2. CASE SaveStream(t)
    BY <1>2 DEF SaveStream
<1>3. CASE SetStreamValue(t)
    BY <1>3 DEF SetStreamValue
<1>4. CASE SetSnapshotValue(t)
    BY <1>4 DEF SetSnapshotValue
<1>5. CASE SaveSnapshot(t)
    BY <1>5 DEF SaveSnapshot
<1> QED BY <1>1, <1>2, <1>3, <1>4, <1>5

\* Every step keeps the types and what they rest on.
LEMMA TypeStep ==
    ASSUME TInv, [Next]_vars
    PROVE  TInv'
<1>1. ASSUME NEW t \in Threads, NEW k \in Keys, NEW v \in Values(k), Put(t, k, v)
      PROVE  TInv'
    BY <1>1, PutKeepsTypes
<1>2. ASSUME NEW t \in Threads, SavePut(t) \/ InitHttpClientStep(t)
      PROVE  TInv'
    BY <1>2, SaveKeepsTypes, ReadKeepsTypes, SetKeepsTypes, AnnounceKeepsTypes
       DEF InitHttpClientStep
<1>3. ASSUME NEW t \in Threads, HomegearStarted(t)
      PROVE  TInv'
    BY <1>3 DEF HomegearStarted, Meets, TInv, TypeOK, EntriesNamed, HeldFits
<1>4. CASE Restart
    <2>1. TypeOK'
        <3>1. /\ entry' \in [Keys -> [param : Keys, row : Keys, data : Packets]]
              /\ rows' \in [Keys -> Packets] /\ caWritten' \in Files \cup {NoText}
            BY <1>4 DEF Restart, EntryOf, TInv, TypeOK
        <3>2. /\ streamHost' \in Urls /\ snapshotHost' \in Urls
              /\ caFile' \in Files \cup {NoText} /\ verify' \in Flags
            BY <1>4 DEF Restart
        <3>3. /\ value' \in [Channel1 -> Prefixes \cup {NoText}]
              /\ valueRows' \in [Channel1 -> Prefixes \cup {NoText}]
              /\ prefix' \in Prefixes \cup {NoText}
            BY <1>4 DEF Restart, TInv, TypeOK
        <3>4. started' \in BOOLEAN /\ interrupted' \in BOOLEAN /\ stale' \in BOOLEAN
            BY <1>4 DEF Restart, TInv, TypeOK
        <3>5. /\ at' \in [Threads -> Labels] /\ key' \in [Threads -> Keys]
              /\ got' \in [Threads -> Packets]
              /\ torn' \subseteq Channel1 /\ restarts' \in 0 .. MaxRestarts
            BY <1>4 DEF Restart, TInv, TypeOK, Packets
        <3> QED BY <3>1, <3>2, <3>3, <3>4, <3>5 DEF TypeOK
    <2>2. EntriesNamed'
        BY <1>4 DEF Restart, EntryOf, TInv, EntriesNamed
    <2>3. HeldFits'
        BY <1>4 DEF Restart, HeldFits
    <2> QED BY <2>1, <2>2, <2>3 DEF TInv
<1>5. CASE UNCHANGED vars
    BY <1>5 DEF TInv, TypeOK, EntriesNamed, HeldFits
<1> QED BY <1>1, <1>2, <1>3, <1>4, <1>5 DEF Next

\* The types and what they rest on hold in every interleaving of the calls.
LEMMA TypesHold == Spec => []TInv
<1>1. Init => TInv
    <2> SUFFICES ASSUME Init PROVE TInv
        OBVIOUS
    <2> USE DEF Init, EntryOf, Default
    <2>1. TypeOK
        <3>1. /\ entry \in [Keys -> [param : Keys, row : Keys, data : Packets]]
              /\ rows \in [Keys -> Packets]
            BY DEF Packets
        <3>2. /\ caWritten \in Files \cup {NoText} /\ streamHost \in Urls /\ snapshotHost \in Urls
              /\ caFile \in Files \cup {NoText} /\ verify \in Flags
            OBVIOUS
        <3>3. /\ value \in [Channel1 -> Prefixes \cup {NoText}]
              /\ valueRows \in [Channel1 -> Prefixes \cup {NoText}]
              /\ prefix \in Prefixes \cup {NoText}
            OBVIOUS
        <3>4. started \in BOOLEAN /\ interrupted \in BOOLEAN /\ stale \in BOOLEAN
            OBVIOUS
        <3>5. /\ at \in [Threads -> Labels] /\ key \in [Threads -> Keys]
              /\ got \in [Threads -> Packets]
              /\ torn \subseteq Channel1 /\ restarts \in 0 .. MaxRestarts
            BY DEF Packets
        <3> QED BY <3>1, <3>2, <3>3, <3>4, <3>5 DEF TypeOK
    <2>2. EntriesNamed /\ HeldFits
        BY DEF EntriesNamed, HeldFits, Texts
    <2> QED BY <2>1, <2>2 DEF TInv
<1> QED BY <1>1, TypeStep, PTL DEF Spec

\* Every variable keeps its type (the configuration of one peer, in memory and
\* in the database).
THEOREM TypeCorrect == Spec => []TypeOK
BY TypesHold, PTL DEF TInv

-----------------------------------------------------------------------------
(* UrlsSaved *)

Storing(t, k) == at[t] = "savePut" /\ key[t] = k

\* A URL that was not stored twice at once is in its row, or in the hands of the
\* one thread that is about to write it there.
RowsFollow ==
    \A k \in Channel1 \ torn :
        /\ \A t, u \in Threads : Storing(t, k) /\ Storing(u, k) => t = u
        /\ \A t \in Threads : Storing(t, k) => got[t] = entry[k].data
        /\ (\A t \in Threads : ~Storing(t, k)) => rows[k] = entry[k].data

\* A call that stores a URL while no other one does is followed by its save.
LEMMA PutFollows ==
    ASSUME TInv, RowsFollow, NEW t \in Threads, NEW k \in Keys, NEW v \in Values(k), Put(t, k, v)
    PROVE  RowsFollow'
<1> USE DEF TInv, TypeOK, RowsFollow, Storing
<1> DEFINE data == ToPacket(entry[k].param, v)
<1> SUFFICES ASSUME NEW l \in Channel1 \ torn'
             PROVE  /\ \A s, u \in Threads : Storing(s, l)' /\ Storing(u, l)' => s = u
                    /\ \A s \in Threads : Storing(s, l)' => got'[s] = entry'[l].data
                    /\ (\A s \in Threads : ~Storing(s, l)') => rows'[l] = entry'[l].data
    OBVIOUS
<1>1. /\ at[t] \in {"idle", "nextPut"}
      /\ entry' = [entry EXCEPT ![k].data = data]
      /\ key' = [key EXCEPT ![t] = k] /\ got' = [got EXCEPT ![t] = data]
      /\ at' = [at EXCEPT ![t] = "savePut"] /\ rows' = rows
      /\ torn' = IF \E u \in Threads \ {t} : at[u] = "savePut" /\ key[u] = k
                 THEN torn \cup ({k} \cap Channel1) ELSE torn \ {k}
    BY DEF Put
<1> HIDE DEF data
<1>2. CASE l = k
    <2>1. \A u \in Threads \ {t} : ~Storing(u, k)'
        BY <1>1, <1>2
    <2>2. entry'[k].data = data /\ got'[t] = data /\ Storing(t, k)'
        BY <1>1
    <2> QED BY <1>2, <2>1, <2>2
<1>3. CASE l # k
    <2>1. l \in Channel1 \ torn /\ entry'[l] = entry[l] /\ rows'[l] = rows[l]
        BY <1>1, <1>3
    <2>2. \A s \in Threads : (Storing(s, l)' <=> Storing(s, l)) /\ (s # t => got'[s] = got[s])
        BY <1>1, <1>3
    <2>3. ~Storing(t, l)
        BY <1>1
    <2> QED BY <2>1, <2>2, <2>3
<1> QED BY <1>2, <1>3

\* The save writes the value in memory, to the row of its own parameter.
LEMMA SaveFollows ==
    ASSUME TInv, RowsFollow, NEW t \in Threads, SavePut(t)
    PROVE  RowsFollow'
<1> USE DEF TInv, TypeOK, RowsFollow, Storing
<1> SUFFICES ASSUME NEW l \in Channel1 \ torn'
             PROVE  /\ \A s, u \in Threads : Storing(s, l)' /\ Storing(u, l)' => s = u
                    /\ \A s \in Threads : Storing(s, l)' => got'[s] = entry'[l].data
                    /\ (\A s \in Threads : ~Storing(s, l)') => rows'[l] = entry'[l].data
    OBVIOUS
<1>1. /\ at[t] = "savePut" /\ at' = [at EXCEPT ![t] = "nextPut"]
      /\ rows' = [rows EXCEPT ![entry[key[t]].row] = got[t]]
      /\ key' = [key EXCEPT ![t] = "STREAM_URL"] /\ got' = [got EXCEPT ![t] = NoText]
      /\ UNCHANGED <<entry, torn>>
    BY DEF SavePut
<1>2. (entry[key[t]].row = l) <=> key[t] = l
    BY DEF EntriesNamed
<1>3. ~Storing(t, l)' /\ \A s \in Threads \ {t} : Storing(s, l)' <=> Storing(s, l)
    BY <1>1
<1>4. l \in Channel1 \ torn /\ \A s \in Threads \ {t} : got'[s] = got[s]
    BY <1>1
<1>5. CASE key[t] = l
    BY <1>1, <1>2, <1>3, <1>4, <1>5
<1>6. CASE key[t] # l
    BY <1>1, <1>2, <1>3, <1>4, <1>6
<1> QED BY <1>5, <1>6

LEMMA FollowStep ==
    ASSUME TInv, RowsFollow, [Next]_vars
    PROVE  RowsFollow'
<1> USE DEF TInv, TypeOK, RowsFollow, Storing
<1>1. ASSUME NEW t \in Threads, InitHttpClientStep(t) \/ HomegearStarted(t)
      PROVE  RowsFollow'
    <2>1. /\ UNCHANGED <<rows, torn>> /\ \A k \in Channel1 : entry'[k] = entry[k]
          /\ \A k \in Channel1, s \in Threads : Storing(s, k)' <=> Storing(s, k)
          /\ \A s \in Threads : at[s] = "savePut" => got'[s] = got[s]
        <3>1. CASE ReadUrl(t)
            BY <3>1 DEF ReadUrl
        <3>2. CASE SetUrl(t)
            BY <3>2 DEF SetUrl
        <3>3. CASE ReadCa(t) \/ SetCa(t) \/ AliasCa(t)
            BY <3>3 DEF ReadCa, SetCa, AliasCa
        <3>4. CASE ReadVerify(t) \/ SetVerify(t)
            BY <3>4 DEF ReadVerify, SetVerify
        <3>5. CASE \/ CheckStream(t) \/ SetStreamValue(t) \/ SaveStream(t)
                   \/ SetSnapshotValue(t) \/ SaveSnapshot(t)
            BY <3>5 DEF CheckStream, SetStreamValue, SaveStream, SetSnapshotValue, SaveSnapshot
        <3>6. CASE HomegearStarted(t)
            BY <3>6 DEF HomegearStarted
        <3> QED BY <1>1, <3>1, <3>2, <3>3, <3>4, <3>5, <3>6 DEF InitHttpClientStep
    <2> QED BY <2>1
<1>2. CASE Restart
    BY <1>2 DEF Restart, EntryOf
<1>3. CASE UNCHANGED vars
    BY <1>3
<1> QED BY <1>1, <1>2, <1>3, PutFollows, SaveFollows DEF Next

\* What getParamset returns for a URL is what the next process loads, unless two
\* calls have stored it at once.
THEOREM SavedUrls == Spec => []UrlsSaved
<1>1. Init => RowsFollow
    BY DEF Init, EntryOf, Default, RowsFollow, Storing
<1>2. TInv /\ RowsFollow => UrlsSaved
    BY DEF TInv, EntriesNamed, RowsFollow, Storing, UrlsSaved, Quiet, GetParamset, TextOf
<1> QED BY <1>1, <1>2, TypesHold, FollowStep, PTL DEF Spec

-----------------------------------------------------------------------------
(* AnnouncedTogether *)

Announcing(t) == at[t] \in {"saveStream", "setSnapshotValue", "saveSnapshot"}

\* STREAM_URL is announced first, and nobody finishes before SNAPSHOT_URL is
\* the same, in memory and in the database.
InOrder ==
    /\ \A t \in Threads :
          /\ Announcing(t) => value["STREAM_URL"] = prefix
          /\ Announcing(t) /\ at[t] # "saveStream" => valueRows["STREAM_URL"] = prefix
    /\ \/ interrupted \/ value["SNAPSHOT_URL"] = value["STREAM_URL"]
       \/ \E t \in Threads : at[t] \in {"saveStream", "setSnapshotValue"}
    /\ \/ interrupted \/ valueRows["SNAPSHOT_URL"] = valueRows["STREAM_URL"]
       \/ \E t \in Threads : at[t] \in {"setSnapshotValue", "saveSnapshot"}

LEMMA OrderStep ==
    ASSUME TInv, InOrder, [Next]_vars
    PROVE  InOrder'
<1> USE DEF TInv, TypeOK, InOrder, Announcing
<1>1. ASSUME NEW t \in Threads,
             /\ UNCHANGED <<value, valueRows, prefix, interrupted>>
             /\ ~Announcing(t) /\ ~Announcing(t)'
             /\ \A s \in Threads \ {t} : at'[s] = at[s]
      PROVE  InOrder'
    BY <1>1
<1>2. ASSUME NEW t \in Threads, NEW k \in Keys, NEW v \in Values(k), Put(t, k, v)
      PROVE  InOrder'
    BY <1>1, <1>2 DEF Put
<1>3. ASSUME NEW t \in Threads, SavePut(t) \/ HomegearStarted(t)
      PROVE  InOrder'
    BY <1>1, <1>3 DEF SavePut, HomegearStarted
<1>4. ASSUME NEW t \in Threads, ReadUrl(t) \/ SetUrl(t)
      PROVE  InOrder'
    BY <1>1, <1>4 DEF ReadUrl, SetUrl
<1>5. ASSUME NEW t \in Threads,
             ReadCa(t) \/ SetCa(t) \/ AliasCa(t) \/ ReadVerify(t) \/ SetVerify(t)
      PROVE  InOrder'
    BY <1>1, <1>5 DEF ReadCa, SetCa, AliasCa, ReadVerify, SetVerify
<1>6. ASSUME NEW t \in Threads, CheckStream(t) \/ SetStreamValue(t)
      PROVE  InOrder'
    <2>1. CASE CheckStream(t)
        BY <1>1, <2>1 DEF CheckStream
    <2>2. CASE SetStreamValue(t)
        BY <2>2 DEF SetStreamValue
    <2> QED BY <1>6, <2>1, <2>2
<1>7. ASSUME NEW t \in Threads, SaveStream(t)
      PROVE  InOrder'
    BY <1>7 DEF SaveStream
<1>8. ASSUME NEW t \in Threads, SetSnapshotValue(t)
      PROVE  InOrder'
    BY <1>8 DEF SetSnapshotValue
<1>9. ASSUME NEW t \in Threads, SaveSnapshot(t)
      PROVE  InOrder'
    BY <1>9 DEF SaveSnapshot
<1>10. CASE Restart
    BY <1>10 DEF Restart
<1>11. CASE UNCHANGED vars
    BY <1>11
<1> QED BY <1>2, <1>3, <1>4, <1>5, <1>6, <1>7, <1>8, <1>9, <1>10, <1>11
        DEF Next, InitHttpClientStep

\* Unless a restart cut an announcement in two, the peer's two URLs are the same.
THEOREM UrlsAnnouncedTogether == Spec => []AnnouncedTogether
<1>1. Init => InOrder
    BY DEF Init, InOrder, Announcing
<1>2. InOrder => AnnouncedTogether
    BY DEF InOrder, AnnouncedTogether, Quiet
<1> QED BY <1>1, <1>2, TypesHold, OrderStep, PTL DEF Spec, TInv

-----------------------------------------------------------------------------
(* UrlsInUse *)

AfterSnapshot == {"readCa", "setCa", "aliasCa", "readVerify", "setVerify", "check",
                  "setStreamValue", "saveStream", "setSnapshotValue", "saveSnapshot"}
AfterStream == {"readSnapshot", "setSnapshot"} \cup AfterSnapshot

\* A call that meets no other one leaves the fields as its own reads said.
FieldsFollow ==
    ~stale =>
        /\ \A t, u \in Threads : at[t] # "idle" /\ at[u] # "idle" => t = u
        /\ \A t \in Threads :
              /\ at[t] = "setStream" => got[t] = entry["STREAM_URL"].data
              /\ at[t] = "setSnapshot" => got[t] = entry["SNAPSHOT_URL"].data
              /\ at[t] \in AfterStream => streamHost = Host(entry["STREAM_URL"].data)
              /\ at[t] \in AfterSnapshot => snapshotHost = Host(entry["SNAPSHOT_URL"].data)
        /\ Quiet => /\ streamHost = Host(entry["STREAM_URL"].data)
                    /\ snapshotHost = Host(entry["SNAPSHOT_URL"].data)

\* A call begins afresh: what it meets, or that it meets nobody, is remembered.
LEMMA BeginFollows ==
    ASSUME TInv, FieldsFollow, NEW t \in Threads,
           HomegearStarted(t) \/ \E k \in Keys : \E v \in Values(k) : Put(t, k, v)
    PROVE  FieldsFollow'
<1> USE DEF TInv, TypeOK
<1>1. /\ at' \in {[at EXCEPT ![t] = "savePut"], [at EXCEPT ![t] = "readStream"]}
      /\ stale' = ((\E u \in Threads \ {t} : at[u] # "idle") \/ (stale /\ at[t] # "idle"))
    BY DEF HomegearStarted, Put, Meets
<1>2. ~stale' => \A u \in Threads \ {t} : at'[u] = "idle"
    BY <1>1
<1> QED BY <1>1, <1>2 DEF FieldsFollow, AfterStream, AfterSnapshot, Quiet

\* A step of the only call in progress.
LEMMA AloneFollows ==
    ASSUME TInv, FieldsFollow, NEW t \in Threads, SavePut(t) \/ InitHttpClientStep(t)
    PROVE  FieldsFollow'
<1> USE DEF TInv, TypeOK, EntriesNamed, FieldsFollow, AfterStream, AfterSnapshot, Quiet
<1> SUFFICES ASSUME ~stale
             PROVE  FieldsFollow'
    BY DEF SavePut, InitHttpClientStep, ReadUrl, SetUrl, ReadCa, SetCa, AliasCa, ReadVerify,
           SetVerify, CheckStream, SetStreamValue, SaveStream, SetSnapshotValue, SaveSnapshot
<1>1. CASE SavePut(t)
    BY <1>1 DEF SavePut
<1>2. CASE ReadUrl(t)
    BY <1>2 DEF ReadUrl, TextOf
<1>3. CASE SetUrl(t)
    BY <1>3 DEF SetUrl
<1>4. CASE ReadCa(t) \/ ReadVerify(t)
    BY <1>4 DEF ReadCa, ReadVerify
<1>5. CASE SetCa(t) \/ AliasCa(t) \/ SetVerify(t)
    BY <1>5 DEF SetCa, AliasCa, SetVerify
<1>6. CASE CheckStream(t) \/ SetStreamValue(t)
    BY <1>6 DEF CheckStream, SetStreamValue
<1>7. CASE SaveStream(t) \/ SetSnapshotValue(t) \/ SaveSnapshot(t)
    BY <1>7 DEF SaveStream, SetSnapshotValue, SaveSnapshot
<1> QED BY <1>1, <1>2, <1>3, <1>4, <1>5, <1>6, <1>7 DEF InitHttpClientStep

\* Requests connect to the hosts of the URLs getParamset returns, whenever the
\* last call to begin has met no other one.
THEOREM HostsFollowUrls == Spec => []UrlsInUse
<1>1. Init => FieldsFollow
    BY DEF Init, EntryOf, Default, FieldsFollow, Host, AfterStream, AfterSnapshot
<1>2. TInv /\ FieldsFollow /\ [Next]_vars => FieldsFollow'
    <2>1. CASE Restart
        BY <2>1 DEF Restart, FieldsFollow, AfterStream, AfterSnapshot, Quiet
    <2>2. CASE UNCHANGED vars
        BY <2>2 DEF FieldsFollow, AfterStream, AfterSnapshot, Quiet
    <2> QED BY <2>1, <2>2, BeginFollows, AloneFollows DEF Next
<1>3. TInv /\ FieldsFollow => UrlsInUse
    BY DEF TInv, EntriesNamed, FieldsFollow, UrlsInUse, GetParamset, TextOf
<1> QED BY <1>1, <1>2, <1>3, TypesHold, PTL DEF Spec

-----------------------------------------------------------------------------
(* What CA_FILE reads as *)

\* The entry of CA_FILE has the last file it was given, as long as it is the
\* entry of CA_FILE.
CaFileKept ==
    restarts = 0 /\ entry["CA_FILE"].param = "CA_FILE" => entry["CA_FILE"].data = caWritten

\* getParamset returns that file, or, after the assignment through the
\* reference, nothing at all.
CaFileReads ==
    restarts = 0 =>
        GetParamset("CA_FILE") = IF entry["CA_FILE"].param = "CA_FILE" THEN caWritten ELSE NoText

\* Only a call that stores CA_FILE and the assignment of initHttpClient touch
\* the entry of CA_FILE.
LEMMA CaFileStep ==
    ASSUME TInv, CaFileKept, [Next]_vars
    PROVE  CaFileKept'
<1> USE DEF TInv, TypeOK, EntriesNamed, CaFileKept
<1>1. ASSUME NEW t \in Threads, NEW k \in Keys, NEW v \in Values(k), Put(t, k, v)
      PROVE  CaFileKept'
    <2>1. CASE k = "CA_FILE"
        BY <1>1, <2>1 DEF Put, ToPacket
    <2>2. CASE k # "CA_FILE"
        BY <1>1, <2>2 DEF Put
    <2> QED BY <2>1, <2>2
<1>2. ASSUME NEW t \in Threads, SavePut(t) \/ HomegearStarted(t)
      PROVE  CaFileKept'
    BY <1>2 DEF SavePut, HomegearStarted
<1>3. ASSUME NEW t \in Threads, InitHttpClientStep(t)
      PROVE  CaFileKept'
    <2>1. CASE AliasCa(t)
        BY <2>1 DEF AliasCa
    <2>2. CASE ReadUrl(t) \/ SetUrl(t) \/ ReadCa(t) \/ SetCa(t) \/ ReadVerify(t) \/ SetVerify(t)
        BY <2>2 DEF ReadUrl, SetUrl, ReadCa, SetCa, ReadVerify, SetVerify
    <2>3. CASE \/ CheckStream(t) \/ SetStreamValue(t) \/ SaveStream(t)
               \/ SetSnapshotValue(t) \/ SaveSnapshot(t)
        BY <2>3 DEF CheckStream, SetStreamValue, SaveStream, SetSnapshotValue, SaveSnapshot
    <2> QED BY <1>3, <2>1, <2>2, <2>3 DEF InitHttpClientStep
<1>4. CASE Restart
    BY <1>4 DEF Restart
<1>5. CASE UNCHANGED vars
    BY <1>5
<1> QED BY <1>1, <1>2, <1>3, <1>4, <1>5, StoredAssumption DEF Next

\* Why CaFileReadsBack fails, and the only reason: with any number of calls at
\* once CA_FILE reads back what was stored while its entry is its own, and as
\* empty once initHttpClient has made it that of VERIFY_CERTIFICATE.
THEOREM CaFileReadsUntilAssigned == Spec => []CaFileReads
<1>1. Init => CaFileKept
    BY DEF Init, EntryOf, Default, CaFileKept
<1>2. TInv /\ CaFileKept => CaFileReads
    BY DEF TInv, TypeOK, EntriesNamed, CaFileKept, CaFileReads, GetParamset, TextOf
<1> QED BY <1>1, <1>2, TypesHold, CaFileStep, PTL DEF Spec
=============================================================================
