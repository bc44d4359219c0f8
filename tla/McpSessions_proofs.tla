------------------------- MODULE McpSessions_proofs -------------------------
(***************************************************************************)
(* Proofs about McpSessions, for any set of sessions, keys and requests    *)
(* and any number of restarts and of failing pipelines.                    *)
(*                                                                         *)
(* The five invariants hold because of three facts about the requests in   *)
(* flight that none of them states: an initialize request that has drawn   *)
(* its session id shares it with nobody, as no client has been told of it  *)
(* yet (Opening), nothing is known anywhere of an id that has not been     *)
(* drawn (Undrawn), and a DELETE whose pipeline is behind it has left its  *)
(* id in Redis only if a pipeline has failed (Removed).                    *)
(***************************************************************************)
EXTENDS McpSessions, TLAPS

(* An initialize request between drawing its id and answering. *)
Opens(r) == request[r].pc \in {"save", "saved"}

Opening ==
  \A r \in Requests : Opens(r) =>
    /\ request[r].session \in transports \ issued
    /\ sessionProject[request[r].session] = request[r].key
    /\ \A q \in Requests : Opens(q) /\ request[q].session = request[r].session => q = r

Undrawn ==
  /\ \A p \in serverCache : p[2] \in issued
  /\ \A p \in projectSet : p[2] \in drawn
  /\ \A rec \in records : rec.session \in drawn

Removed ==
  /\ \A p \in ended : p[2] \in issued
  /\ \A r \in Requests : request[r].pc = "cache" =>
       <<request[r].key, request[r].session>> \notin projectSet \/ faults > 0

Project == \A s \in Sessions : Served(s) => sessionProject[s] \in Keys

Inv ==
  /\ TypeOK /\ Opening /\ Undrawn /\ Removed /\ Project
  /\ OpenSessionsAreWhole /\ StrayServersAreExplained /\ ProjectIsSettledAtOpening
  /\ StrayIdsAreExplained

RequestType == [pc : Stages, key : Keys \cup {NoKey}, session : Sessions \cup {NoSession}]

(* A request moves to another stage, and the others stay where they are.   *)
LEMMA GoesIs ==
  ASSUME request \in [Requests -> RequestType],
         NEW r \in Requests, NEW stage \in Stages, Goes(r, stage)
  PROVE  /\ request' \in [Requests -> RequestType]
         /\ request'[r] = [pc |-> stage, key |-> request[r].key,
                           session |-> request[r].session]
         /\ \A q \in Requests \ {r} : request'[q] = request[q]
  BY DEF Goes, RequestType

LEMMA IdleIs == Idle \in RequestType /\ Idle.pc = "idle"
  BY DEF Idle, At, RequestType, Stages

LEMMA Initialization == Init => Inv
<1> SUFFICES ASSUME Init PROVE Inv
  OBVIOUS
<1> USE SessionsAssumption DEF Init
<1>1. \A r \in Requests : request[r] = Idle
  OBVIOUS
<1>2. TypeOK
  BY <1>1, IdleIs DEF TypeOK, Stages, RequestType, Idle, At
<1>3. Opening
  BY <1>1, IdleIs DEF Opening, Opens
<1>5. Removed
  BY <1>1, IdleIs DEF Removed
<1>4. Undrawn /\ Project /\ OpenSessionsAreWhole /\ StrayServersAreExplained
        /\ ProjectIsSettledAtOpening /\ StrayIdsAreExplained
  BY DEF StrayIdsAreExplained, Undrawn, Project, OpenSessionsAreWhole, Deleted,
         StrayServersAreExplained, ProjectIsSettledAtOpening, Served
<1> QED BY <1>2, <1>3, <1>4, <1>5 DEF Inv

(* Whatever a pipeline did of what it was meant to do, it did nothing else. *)
LEMMA PipelineIs ==
  ASSUME NEW recs, NEW set, Pipeline(recs, set), faults \in 0 .. MaxFaults
  PROVE  /\ records' \in {records, recs} /\ projectSet' \in {projectSet, set}
         /\ faults' \in 0 .. MaxFaults /\ faults <= faults'
         /\ projectSet' = set \/ faults' > 0
  BY SessionsAssumption DEF Pipeline

(* An alias is resolved: only the request moves. *)
LEMMA InitResolvePreserves ==
  ASSUME Inv, NEW r \in Requests, InitResolve(r)
  PROVE  Inv'
<1>t. TypeOK /\ request \in [Requests -> RequestType] /\ request[r] \in RequestType
  BY DEF Inv, TypeOK, RequestType
<1>1. TypeOK'
  BY <1>t DEF InitResolve, TypeOK, At, Stages, locals, redis, pasts
<1>2. Opening'
  BY DEF InitResolve, Inv, Opening, Opens, At, locals, pasts
<1>3. Undrawn'
  BY DEF InitResolve, Inv, Undrawn, locals, redis, pasts
<1>4. Project'
  BY DEF InitResolve, Inv, Project, Served, locals
<1>5. OpenSessionsAreWhole'
  BY DEF InitResolve, Inv, OpenSessionsAreWhole, Deleted, Served, locals, pasts
<1>6. StrayServersAreExplained'
  BY SessionsAssumption
     DEF InitResolve, Inv, StrayServersAreExplained, Deleting, Served,
         locals, pasts
<1>7. ProjectIsSettledAtOpening'
  BY DEF InitResolve, Inv, ProjectIsSettledAtOpening, Served, locals, redis
<1>8. Removed'
  BY <1>t DEF InitResolve, Inv, Removed, At, locals, redis, pasts
<1>9. StrayIdsAreExplained'
  BY <1>t DEF InitResolve, Inv, StrayIdsAreExplained, Deleting, Served, At, locals, redis, pasts
<1> QED BY <1>1, <1>2, <1>3, <1>4, <1>5, <1>6, <1>7, <1>8, <1>9 DEF Inv

(* The id that is drawn is new, so nothing is known of it elsewhere. *)
LEMMA InitMapsPreserves ==
  ASSUME Inv, NEW r \in Requests, InitMaps(r)
  PROVE  Inv'
<1>t. TypeOK /\ request \in [Requests -> RequestType] /\ request[r] \in RequestType
  BY DEF Inv, TypeOK, RequestType
<1>1. TypeOK'
  BY <1>t DEF InitMaps, TypeOK, At, Stages, redis
<1>2. Opening'
  BY DEF InitMaps, Inv, Opening, Opens, TypeOK, At
<1>3. Undrawn'
  BY DEF InitMaps, Inv, Undrawn, redis
<1>4. Project'
  BY DEF InitMaps, Inv, Project, Served, TypeOK
<1>5. OpenSessionsAreWhole'
  BY DEF InitMaps, Inv, OpenSessionsAreWhole, Deleted, Served, TypeOK
<1>6. StrayServersAreExplained'
  BY DEF InitMaps, Inv, StrayServersAreExplained, Deleting, Served
<1>7. ProjectIsSettledAtOpening'
  BY DEF InitMaps, Inv, ProjectIsSettledAtOpening, Served, TypeOK,
         Undrawn, redis
<1>8. Removed'
  BY <1>t DEF InitMaps, Inv, Removed, At, redis
<1>9. StrayIdsAreExplained'
  BY <1>t DEF InitMaps, Inv, StrayIdsAreExplained, Deleting, Served, At, redis
<1> QED BY <1>1, <1>2, <1>3, <1>4, <1>5, <1>6, <1>7, <1>8, <1>9 DEF Inv

(* Redis learns of a session that is known under the same key here. *)
LEMMA InitSavePreserves ==
  ASSUME Inv, NEW r \in Requests, InitSave(r)
  PROVE  Inv'
<1>t. TypeOK /\ request \in [Requests -> RequestType] /\ request[r] \in RequestType
  BY DEF Inv, TypeOK, RequestType
<1> DEFINE recs == records \cup {Record(request[r].key, request[r].session)}
           set == projectSet \cup {<<request[r].key, request[r].session>>}
<1>p. /\ records' \in {records, recs} /\ projectSet' \in {projectSet, set}
      /\ faults' \in 0 .. MaxFaults /\ faults <= faults'
      /\ projectSet' = set \/ faults' > 0
  BY <1>t, PipelineIs DEF InitSave, TypeOK
<1>k. request[r].key \in Keys /\ request[r].session \in Sessions
  BY <1>t DEF InitSave, TypeOK
<1>r. recs \subseteq [key : Keys, session : Sessions, ex : BOOLEAN] /\ set \subseteq Pairs
  <2>1. Record(request[r].key, request[r].session) \in [key : Keys, session : Sessions, ex : BOOLEAN]
    BY <1>k, Zenon DEF Record
  <2>2. <<request[r].key, request[r].session>> \in Pairs
    BY <1>k DEF Pairs
  <2> QED BY <1>t, <2>1, <2>2 DEF TypeOK
<1>1. TypeOK'
  <2>1. records' \subseteq [key : Keys, session : Sessions, ex : BOOLEAN]
        /\ projectSet' \subseteq Pairs
    BY <1>t, <1>p, <1>r DEF TypeOK
  <2>2. /\ request' \in [Requests -> RequestType]
        /\ request'[r] = [pc |-> "saved", key |-> request[r].key,
                          session |-> request[r].session]
        /\ \A q \in Requests \ {r} : request'[q] = request[q]
    <3>1. Goes(r, "saved") /\ "saved" \in Stages
      BY DEF InitSave, Stages
    <3> HIDE DEF recs, set
    <3> QED BY <1>t, <3>1, GoesIs
  <2> QED
    BY <1>t, <1>p, <1>k, <2>1, <2>2 DEF InitSave, TypeOK, RequestType, locals, pasts
<1>2. Opening'
  BY DEF InitSave, Inv, Opening, Opens, Goes, locals, pasts
<1>3. Undrawn'
  BY <1>p DEF InitSave, Inv, Undrawn, Record, TypeOK, locals, pasts
<1>4. Project'
  BY DEF InitSave, Inv, Project, Served, locals
<1>5. OpenSessionsAreWhole'
  BY DEF InitSave, Inv, OpenSessionsAreWhole, Deleted, Served, locals, pasts
<1>6. StrayServersAreExplained'
  BY DEF InitSave, Inv, StrayServersAreExplained, Deleting, Served, Goes,
         locals, pasts
<1>7. ProjectIsSettledAtOpening'
  BY <1>p
     DEF InitSave, Inv, ProjectIsSettledAtOpening, Served, Opening, Opens,
         Record, locals
<1>8. Removed'
  BY <1>t, <1>p DEF InitSave, Inv, Removed, Opening, Opens, TypeOK, Goes, locals, pasts
<1>9. StrayIdsAreExplained'
  BY <1>t, <1>p DEF InitSave, Inv, StrayIdsAreExplained, Removed, Opening, Opens, TypeOK,
         Deleting, Served, Goes, locals, pasts
<1> QED BY <1>1, <1>2, <1>3, <1>4, <1>5, <1>6, <1>7, <1>8, <1>9 DEF Inv

(* The session becomes known to its client when its server is cached. *)
LEMMA InitReplyPreserves ==
  ASSUME Inv, NEW r \in Requests, InitReply(r)
  PROVE  Inv'
<1>t. TypeOK /\ request \in [Requests -> RequestType] /\ request[r] \in RequestType
  BY DEF Inv, TypeOK, RequestType
<1>1. TypeOK'
  BY <1>t, IdleIs DEF InitReply, TypeOK, Returns, RequestType, Pairs, redis
<1>2. Opening'
  BY <1>t, IdleIs DEF InitReply, Inv, Opening, Opens, Returns
<1>3. Undrawn'
  BY DEF InitReply, Inv, Undrawn, redis
<1>4. Project'
  BY DEF InitReply, Inv, Project, Served
<1>5. OpenSessionsAreWhole'
  BY DEF InitReply, Inv, OpenSessionsAreWhole, Deleted, Served, TypeOK, Opening,
         Opens
<1>6. StrayServersAreExplained'
  <2>1. request[r].session \in transports' /\ transports' = transports /\ ended' = ended
    BY <1>t DEF Inv, InitReply, Opening, Opens
  <2>2. \A q \in Requests : request[q].pc \in {"record", "cache"} => request'[q] = request[q]
    BY <1>t DEF InitReply, Returns
  <2>3. \A p \in serverCache : p \in serverCache' /\ Deleting(p[2]) => Deleting(p[2])'
    BY <2>2 DEF Deleting
  <2>4. \A p \in serverCache' : p \in serverCache \/ p[2] = request[r].session
    BY DEF InitReply
  <2>5. ASSUME NEW p \in serverCache'
        PROVE  \/ Served(p[2])' \/ Deleting(p[2])'
               \/ \E k \in Keys \ {p[1]} : <<k, p[2]>> \in ended'
    <3>1. CASE p[2] = request[r].session
      BY <2>1, <3>1 DEF Served
    <3>2. CASE p \in serverCache
      BY <2>1, <2>3, <3>2 DEF Inv, StrayServersAreExplained, Served
    <3> QED BY <2>4, <3>1, <3>2
  <2> QED BY <2>5 DEF StrayServersAreExplained
<1>7. ProjectIsSettledAtOpening'
  BY DEF InitReply, Inv, ProjectIsSettledAtOpening, Served, Opening,
         Opens, redis
<1>8. Removed'
  BY <1>t, IdleIs DEF InitReply, Inv, Removed, Returns, redis
<1>9. StrayIdsAreExplained'
  <2>1. \A q \in Requests : request[q].pc \in {"record", "cache"} => request'[q] = request[q]
    BY <1>t DEF InitReply, Returns
  <2>2. \A s : Deleting(s) => Deleting(s)'
    BY <2>1 DEF Deleting
  <2> QED
    BY <2>2 DEF InitReply, Inv, StrayIdsAreExplained, Served, redis
<1> QED BY <1>1, <1>2, <1>3, <1>4, <1>5, <1>6, <1>7, <1>8, <1>9 DEF Inv

(* A DELETE begins for a session some client knows. *)
LEMMA DeleteResolvePreserves ==
  ASSUME Inv, NEW r \in Requests, DeleteResolve(r)
  PROVE  Inv'
<1>t. TypeOK /\ request \in [Requests -> RequestType] /\ request[r] \in RequestType
  BY DEF Inv, TypeOK, RequestType
<1>1. TypeOK'
  BY <1>t DEF DeleteResolve, TypeOK, At, Stages, locals, redis, pasts
<1>2. Opening'
  BY DEF DeleteResolve, Inv, Opening, Opens, At, locals, pasts
<1>3. Undrawn'
  BY DEF DeleteResolve, Inv, Undrawn, locals, redis, pasts
<1>4. Project'
  BY DEF DeleteResolve, Inv, Project, Served, locals
<1>5. OpenSessionsAreWhole'
  BY DEF DeleteResolve, Inv, OpenSessionsAreWhole, Deleted, Served, locals, pasts
<1>6. StrayServersAreExplained'
  BY DEF DeleteResolve, Inv, StrayServersAreExplained, Deleting, Served,
         locals, pasts
<1>7. ProjectIsSettledAtOpening'
  BY DEF DeleteResolve, Inv, ProjectIsSettledAtOpening, Served, locals, redis
<1>8. Removed'
  BY <1>t DEF DeleteResolve, Inv, Removed, At, locals, redis, pasts
<1>9. StrayIdsAreExplained'
  BY <1>t DEF DeleteResolve, Inv, StrayIdsAreExplained, Deleting, Served, At, locals, redis, pasts
<1> QED BY <1>1, <1>2, <1>3, <1>4, <1>5, <1>6, <1>7, <1>8, <1>9 DEF Inv

(* A DELETE goes on, or is refused. *)
LEMMA DeleteCheckPreserves ==
  ASSUME Inv, NEW r \in Requests, DeleteCheck(r)
  PROVE  Inv'
<1>t. TypeOK /\ request \in [Requests -> RequestType] /\ request[r] \in RequestType
  BY DEF Inv, TypeOK, RequestType
<1>1. TypeOK'
  BY <1>t, IdleIs
     DEF DeleteCheck, TypeOK, Goes, Returns, Stages, RequestType, locals,
         redis, pasts
<1>2. Opening'
  BY IdleIs
     DEF DeleteCheck, Inv, Opening, Opens, TypeOK, Goes, Returns, locals,
         pasts
<1>3. Undrawn'
  BY DEF DeleteCheck, Inv, Undrawn, locals, redis, pasts
<1>4. Project'
  BY DEF DeleteCheck, Inv, Project, Served, locals
<1>5. OpenSessionsAreWhole'
  BY DEF DeleteCheck, Inv, OpenSessionsAreWhole, Deleted, Served, locals, pasts
<1>6. StrayServersAreExplained'
  BY <1>t
     DEF DeleteCheck, Inv, StrayServersAreExplained, Deleting, Served,
         Goes, Returns, locals, pasts
<1>7. ProjectIsSettledAtOpening'
  BY DEF DeleteCheck, Inv, ProjectIsSettledAtOpening, Served, locals, redis
<1>8. Removed'
  <2>1. \A q \in Requests : request'[q].pc = "cache" => request'[q] = request[q]
    BY <1>t, IdleIs DEF DeleteCheck, Goes, Returns, RequestType
  <2> QED BY <2>1 DEF DeleteCheck, Inv, Removed, locals, redis, pasts
<1>9. StrayIdsAreExplained'
  BY <1>t DEF DeleteCheck, Inv, StrayIdsAreExplained, Deleting, Served, Goes, Returns,
         locals, redis, pasts
<1> QED BY <1>1, <1>2, <1>3, <1>4, <1>5, <1>6, <1>7, <1>8, <1>9 DEF Inv

(* The transport goes first; what remains is that of a DELETE in flight. *)
LEMMA DeleteClosePreserves ==
  ASSUME Inv, NEW r \in Requests, DeleteClose(r)
  PROVE  Inv'
<1>t. TypeOK /\ request \in [Requests -> RequestType] /\ request[r] \in RequestType
  BY DEF Inv, TypeOK, RequestType
<1>1. TypeOK'
  BY <1>t DEF DeleteClose, TypeOK, Goes, Stages, redis
<1>2. Opening'
  BY DEF DeleteClose, Inv, Opening, Opens, TypeOK, Goes
<1>3. Undrawn'
  BY DEF DeleteClose, Inv, Undrawn, redis
<1>4. Project'
  BY DEF DeleteClose, Inv, Project, Served
<1>5. OpenSessionsAreWhole'
  BY DEF DeleteClose, Inv, OpenSessionsAreWhole, Deleted, Served
<1>6. StrayServersAreExplained'
  BY <1>t
     DEF DeleteClose, Inv, StrayServersAreExplained, Deleting, Served,
         Goes
<1>7. ProjectIsSettledAtOpening'
  BY DEF DeleteClose, Inv, ProjectIsSettledAtOpening, Served, redis
<1>8. Removed'
  BY <1>t DEF DeleteClose, Inv, Removed, Goes, redis
<1>9. StrayIdsAreExplained'
  BY <1>t DEF DeleteClose, Inv, StrayIdsAreExplained, Deleting, Served, Goes, redis
<1> QED BY <1>1, <1>2, <1>3, <1>4, <1>5, <1>6, <1>7, <1>8, <1>9 DEF Inv

(* A refused DELETE leaves the transport open; only the request moves. *)
LEMMA DeleteRefusedPreserves ==
  ASSUME Inv, NEW r \in Requests, DeleteRefused(r)
  PROVE  Inv'
<1> USE DEF DeleteRefused, locals, redis, pasts
<1>t. TypeOK /\ request \in [Requests -> RequestType]
  BY DEF Inv, TypeOK, RequestType
<1>g. /\ request' \in [Requests -> RequestType]
      /\ request'[r] = [pc |-> "record", key |-> request[r].key,
                        session |-> request[r].session]
      /\ \A q \in Requests \ {r} : request'[q] = request[q]
  <2>1. Goes(r, "record") /\ "record" \in Stages
    BY DEF Stages
  <2> QED BY <1>t, <2>1, GoesIs
<1>1. TypeOK'
  BY <1>t, <1>g DEF TypeOK, RequestType
<1>2. Opening'
  BY <1>g DEF Inv, Opening, Opens
<1>3. Undrawn' /\ Project'
  BY DEF Inv, Undrawn, Project, Served
<1>4. Removed'
  BY <1>g DEF Inv, Removed
<1>5. \A s : Deleting(s) => Deleting(s)'
  BY <1>g DEF Deleting
<1>6. OpenSessionsAreWhole' /\ ProjectIsSettledAtOpening'
  BY DEF Inv, OpenSessionsAreWhole, Deleted, ProjectIsSettledAtOpening, Served
<1>7. StrayServersAreExplained'
  BY <1>5 DEF Inv, StrayServersAreExplained, Served
<1>8. StrayIdsAreExplained'
  BY <1>5 DEF Inv, StrayIdsAreExplained, Served
<1> QED BY <1>1, <1>2, <1>3, <1>4, <1>6, <1>7, <1>8 DEF Inv

(* Redis forgets what the pipeline deletes. *)
LEMMA DeleteRecordPreserves ==
  ASSUME Inv, NEW r \in Requests, DeleteRecord(r)
  PROVE  Inv'
<1>t. TypeOK /\ request \in [Requests -> RequestType] /\ request[r] \in RequestType
  BY DEF Inv, TypeOK, RequestType
<1> DEFINE recs == {rec \in records : rec.key # request[r].key \/ rec.session # request[r].session}
           set == projectSet \ {<<request[r].key, request[r].session>>}
<1>p. /\ records' \in {records, recs} /\ projectSet' \in {projectSet, set}
      /\ faults' \in 0 .. MaxFaults /\ faults <= faults'
      /\ projectSet' = set \/ faults' > 0
  BY <1>t, PipelineIs DEF DeleteRecord, TypeOK
<1>1. TypeOK'
  BY <1>t, <1>p DEF DeleteRecord, TypeOK, Goes, Stages, locals, pasts
<1>2. Opening'
  BY DEF DeleteRecord, Inv, Opening, Opens, Goes, locals, pasts
<1>3. Undrawn'
  BY <1>p DEF DeleteRecord, Inv, Undrawn, locals, pasts
<1>4. Project'
  BY DEF DeleteRecord, Inv, Project, Served, locals
<1>5. OpenSessionsAreWhole'
  BY DEF DeleteRecord, Inv, OpenSessionsAreWhole, Deleted, Served, locals, pasts
<1>6. StrayServersAreExplained'
  BY DEF DeleteRecord, Inv, StrayServersAreExplained, Deleting, Served,
         Goes, locals, pasts
<1>7. ProjectIsSettledAtOpening'
  BY <1>p DEF DeleteRecord, Inv, ProjectIsSettledAtOpening, Served, locals
<1>8. Removed'
  BY <1>t, <1>p DEF DeleteRecord, Inv, Removed, TypeOK, Goes, locals, pasts
<1>9. StrayIdsAreExplained'
  BY <1>t, <1>p DEF DeleteRecord, Inv, StrayIdsAreExplained, TypeOK, Deleting, Served, Goes,
         locals, pasts
<1> QED BY <1>1, <1>2, <1>3, <1>4, <1>5, <1>6, <1>7, <1>8, <1>9 DEF Inv

(* What is left of the session is of another key, and that is recorded. *)
LEMMA DeleteCachePreserves ==
  ASSUME Inv, NEW r \in Requests, DeleteCache(r)
  PROVE  Inv'
<1>t. TypeOK /\ request \in [Requests -> RequestType] /\ request[r] \in RequestType
  BY DEF Inv, TypeOK, RequestType
<1>1. TypeOK'
  BY <1>t, IdleIs DEF DeleteCache, TypeOK, Returns, RequestType, Pairs, redis
<1>2. Opening'
  BY IdleIs DEF DeleteCache, Inv, Opening, Opens, TypeOK, Returns
<1>3. Undrawn'
  BY DEF DeleteCache, Inv, Undrawn, redis
<1>4. Project'
  BY DEF DeleteCache, Inv, Project, Served
<1>5. OpenSessionsAreWhole'
  <2>1. request[r].key \in Keys /\ <<request[r].key, request[r].session>> \in ended'
    BY <1>t DEF DeleteCache, TypeOK
  <2>2. ended \subseteq ended' /\ closed' = closed /\ issued' = issued /\ restarts' = restarts
    BY DEF DeleteCache
  <2>3. ASSUME NEW s \in issued' PROVE Served(s)' \/ Deleted(s)' \/ restarts' > 0
    <3>1. CASE s = request[r].session BY <2>1, <3>1 DEF Deleted
    <3>2. CASE s # request[r].session
      <4>1. Served(s) => Served(s)' BY <3>2 DEF DeleteCache, Served
      <4>2. Deleted(s) => Deleted(s)' BY <2>2 DEF Deleted
      <4>3. Served(s) \/ Deleted(s) \/ restarts > 0 BY <2>2, <2>3 DEF Inv, OpenSessionsAreWhole
      <4> QED BY <2>2, <4>1, <4>2, <4>3
    <3> QED BY <3>1, <3>2
  <2>4. ASSUME NEW s \in issued', Served(s)'
        PROVE  sessionProject'[s] \in Keys /\ <<sessionProject'[s], s>> \in serverCache'
    BY <2>4 DEF DeleteCache, Inv, OpenSessionsAreWhole, Served
  <2> QED BY <2>3, <2>4 DEF OpenSessionsAreWhole
<1>6. StrayServersAreExplained'
  <2> SUFFICES ASSUME NEW p \in serverCache', ~Served(p[2])', ~Deleting(p[2])'
               PROVE  \E k \in Keys \ {p[1]} : <<k, p[2]>> \in ended'
    BY DEF StrayServersAreExplained
  <2>1. p \in serverCache /\ p # <<request[r].key, request[r].session>> /\ p \in Pairs
    BY <1>t DEF DeleteCache, TypeOK
  <2>2. request[r].key \in Keys /\ <<request[r].key, request[r].session>> \in ended'
    BY <1>t DEF DeleteCache, TypeOK
  <2>3. CASE p[2] = request[r].session
    BY <2>1, <2>2, <2>3 DEF Pairs
  <2>4. CASE p[2] # request[r].session
    <3>1. ~Served(p[2])
      BY <2>4 DEF DeleteCache, Served
    <3>2. \A q \in Requests : q # r => request'[q] = request[q]
      BY <1>t DEF DeleteCache, Returns
    <3>3. ~Deleting(p[2])
      BY <2>4, <3>2 DEF Deleting
    <3> QED
      BY <2>1, <3>1, <3>3 DEF Inv, DeleteCache, StrayServersAreExplained
  <2> QED BY <2>3, <2>4
<1>7. ProjectIsSettledAtOpening'
  BY DEF DeleteCache, Inv, ProjectIsSettledAtOpening, Served, redis
<1>8. Removed'
  BY <1>t, IdleIs DEF DeleteCache, Inv, Removed, TypeOK, Returns, redis
<1>9. StrayIdsAreExplained'
  <2> SUFFICES ASSUME NEW p \in projectSet'
               PROVE  /\ p \in ended' => faults' > 0
                      /\ p \notin ended' =>
                           \/ Served(p[2])' \/ Deleting(p[2])'
                           \/ restarts' > 0
                           \/ \E k \in Keys \ {p[1]} : <<k, p[2]>> \in ended'
    BY DEF StrayIdsAreExplained
  <2>1. p \in projectSet /\ p \in Pairs /\ faults' = faults /\ restarts' = restarts
    BY <1>t DEF DeleteCache, TypeOK, redis
  <2>2. request[r].key \in Keys /\ <<request[r].key, request[r].session>> \in ended'
    BY <1>t DEF DeleteCache, TypeOK
  <2>3. p \in ended' => faults' > 0
    BY <2>1 DEF DeleteCache, Inv, Removed, StrayIdsAreExplained
  <2>4. ASSUME p \notin ended', p[2] = request[r].session
        PROVE  \E k \in Keys \ {p[1]} : <<k, p[2]>> \in ended'
    BY <2>1, <2>2, <2>4 DEF Pairs
  <2>5. ASSUME p \notin ended', p[2] # request[r].session
        PROVE  \/ Served(p[2])' \/ Deleting(p[2])' \/ restarts' > 0
               \/ \E k \in Keys \ {p[1]} : <<k, p[2]>> \in ended'
    <3>1. Served(p[2]) => Served(p[2])'
      BY <2>5 DEF DeleteCache, Served
    <3>2. \A q \in Requests : q # r => request'[q] = request[q]
      BY <1>t DEF DeleteCache, Returns
    <3>3. Deleting(p[2]) => Deleting(p[2])'
      BY <2>5, <3>2 DEF Deleting
    <3>4. p \notin ended /\ ended \subseteq ended'
      BY <2>5 DEF DeleteCache
    <3> QED
      BY <2>1, <3>1, <3>3, <3>4 DEF Inv, StrayIdsAreExplained
  <2> QED BY <2>3, <2>4, <2>5
<1> QED BY <1>1, <1>2, <1>3, <1>4, <1>5, <1>6, <1>7, <1>8, <1>9 DEF Inv

(* After a restart nothing is served, cached or in flight. *)
LEMMA RestartPreserves ==
  ASSUME Inv, Restart
  PROVE  Inv'
<1>t. TypeOK
  BY DEF Inv
<1>r. /\ request' \in [Requests -> RequestType] /\ \A r \in Requests : request'[r] = Idle
      /\ transports' = {} /\ serverCache' = {}
  BY IdleIs DEF Restart
<1>1. TypeOK'
  BY <1>t, <1>r, IdleIs, SessionsAssumption DEF TypeOK, Restart, RequestType, redis
<1>2. Opening' /\ Undrawn' /\ Project'
  BY <1>r, IdleIs DEF Inv, Opening, Opens, Undrawn, Project, Served, Restart, redis
<1>s. restarts' > 0
  BY <1>t, SessionsAssumption DEF TypeOK, Restart
<1>3. OpenSessionsAreWhole' /\ StrayServersAreExplained' /\ ProjectIsSettledAtOpening'
  BY <1>r, <1>s DEF OpenSessionsAreWhole, StrayServersAreExplained,
                    ProjectIsSettledAtOpening, Served
<1>4. Removed'
  BY <1>r, IdleIs DEF Inv, Removed, Restart
<1>5. StrayIdsAreExplained'
  BY <1>s DEF Inv, StrayIdsAreExplained, Restart, redis
<1> QED BY <1>1, <1>2, <1>3, <1>4, <1>5 DEF Inv

(* Redis may forget a record at any time. *)
LEMMA ExpirePreserves ==
  ASSUME Inv, NEW k \in Keys, NEW s \in Sessions, Expire(k, s)
  PROVE  Inv'
<1> USE DEF Expire, locals, pasts
<1>r. records' \subseteq records
  OBVIOUS
<1>1. TypeOK'
  BY <1>r DEF Inv, TypeOK
<1>2. Opening' /\ Undrawn' /\ Project'
  BY <1>r DEF Inv, Opening, Opens, Undrawn, Project, Served
<1>3. OpenSessionsAreWhole' /\ StrayServersAreExplained'
  BY DEF Inv, OpenSessionsAreWhole, Deleted, StrayServersAreExplained, Deleting, Served
<1>4. ProjectIsSettledAtOpening'
  BY <1>r DEF Inv, ProjectIsSettledAtOpening, Served
<1>5. Removed' /\ StrayIdsAreExplained'
  BY DEF Inv, Removed, StrayIdsAreExplained, Deleting, Served
<1> QED BY <1>1, <1>2, <1>3, <1>4, <1>5 DEF Inv

(* No session depends on its alias any more. *)
LEMMA RemapPreserves ==
  ASSUME Inv, NEW a \in Aliases, Remap(a)
  PROVE  Inv'
<1> USE DEF Remap, locals, redis, pasts
<1>1. TypeOK'
  BY DEF Inv, TypeOK
<1>2. Opening' /\ Undrawn' /\ Project'
  BY DEF Inv, Opening, Opens, Undrawn, Project, Served
<1>3. OpenSessionsAreWhole' /\ StrayServersAreExplained' /\ ProjectIsSettledAtOpening'
  BY DEF Inv, OpenSessionsAreWhole, Deleted, StrayServersAreExplained, Deleting,
         ProjectIsSettledAtOpening, Served
<1>4. Removed' /\ StrayIdsAreExplained'
  BY DEF Inv, Removed, StrayIdsAreExplained, Deleting, Served
<1> QED BY <1>1, <1>2, <1>3, <1>4 DEF Inv

LEMMA StutterPreserves ==
  ASSUME Inv, UNCHANGED vars
  PROVE  Inv'
<1> USE DEF vars
<1>1. TypeOK'
  BY DEF Inv, TypeOK
<1>2. Opening' /\ Undrawn' /\ Project'
  BY DEF Inv, Opening, Opens, Undrawn, Project, Served
<1>3. OpenSessionsAreWhole' /\ StrayServersAreExplained' /\ ProjectIsSettledAtOpening'
  BY DEF Inv, OpenSessionsAreWhole, Deleted, StrayServersAreExplained, Deleting,
         ProjectIsSettledAtOpening, Served
<1>4. Removed' /\ StrayIdsAreExplained'
  BY DEF Inv, Removed, StrayIdsAreExplained, Deleting, Served
<1> QED BY <1>1, <1>2, <1>3, <1>4 DEF Inv

LEMMA Consecution == Inv /\ [Next]_vars => Inv'
<1> SUFFICES ASSUME Inv, [Next]_vars PROVE Inv'
  OBVIOUS
<1>1. ASSUME NEW r \in Requests, Step(r) PROVE Inv'
  BY <1>1, InitResolvePreserves, InitMapsPreserves, InitSavePreserves, InitReplyPreserves,
     DeleteResolvePreserves, DeleteCheckPreserves, DeleteClosePreserves,
     DeleteRefusedPreserves, DeleteRecordPreserves, DeleteCachePreserves DEF Step
<1>2. CASE Restart
  BY <1>2, RestartPreserves
<1>3. ASSUME NEW k \in Keys, NEW s \in Sessions, Expire(k, s) PROVE Inv'
  BY <1>3, ExpirePreserves
<1>4. ASSUME NEW a \in Aliases, Remap(a) PROVE Inv'
  BY <1>4, RemapPreserves
<1>5. CASE UNCHANGED vars
  BY <1>5, StutterPreserves
<1> QED BY <1>1, <1>2, <1>3, <1>4, <1>5 DEF Next

LEMMA Invariance == Spec => []Inv
BY Initialization, Consecution, PTL DEF Spec

(* Every variable of the gateway's sessions keeps its type; a request past *)
(* its alias lookup has a key, and one about a session a drawn id.         *)
THEOREM TypeCorrect == Spec => []TypeOK
<1>1. Inv => TypeOK
  BY DEF Inv
<1> QED BY <1>1, Invariance, PTL

(* A session that a client was told of has its project and its server      *)
(* while it is served, whatever requests and restarts interleave; and it   *)
(* is served until a client ends it or the process is restarted.           *)
THEOREM OpenMeansWhole == Spec => []OpenSessionsAreWhole
<1>1. Inv => OpenSessionsAreWhole
  BY DEF Inv
<1> QED BY <1>1, Invariance, PTL

(* A server without a transport is that of a DELETE in flight, or of a     *)
(* session deleted through an alias of another project.                    *)
THEOREM NoOtherStrayServer == Spec => []StrayServersAreExplained
<1>1. Inv => StrayServersAreExplained
  BY DEF Inv
<1> QED BY <1>1, Invariance, PTL

(* The maps, the cache and Redis agree on the project of a served session, *)
(* however its alias has moved since.                                      *)
THEOREM OneProjectPerSession == Spec => []ProjectIsSettledAtOpening
<1>1. Inv => ProjectIsSettledAtOpening
  BY DEF Inv
<1> QED BY <1>1, Invariance, PTL

(* An id that stays in a project's set without a session is explained: by  *)
(* a restart, by a DELETE of another project or, after its own DELETE, by  *)
(* a failing pipeline.                                                     *)
THEOREM NoOtherStrayId == Spec => []StrayIdsAreExplained
<1>1. Inv => StrayIdsAreExplained
  BY DEF Inv
<1> QED BY <1>1, Invariance, PTL
=============================================================================
