----------------------------- MODULE McpSessions -----------------------------
(***************************************************************************)
(* The MCP sessions of the gateway: the POST, GET and DELETE handlers of   *)
(* McpController (src/mcp/mcp.controller.ts), the SessionManagerService    *)
(* and the RedisSessionRepository under it.                                *)
(*                                                                         *)
(* What is known of a session lies in four places: the controller's map of *)
(* transports (which alone decides whether a request is served), its map   *)
(* of project keys, the manager's cache of servers, and Redis.  A handler  *)
(* suspends between one and the next, so requests interleave there.  Redis *)
(* outlives the process.                                                   *)
(*                                                                         *)
(* External: the SDK's transport draws a fresh session id, awaits          *)
(* onsessioninitialized before it answers an initialize request, and calls *)
(* onclose when it serves a DELETE, but not when it refuses one.  ioredis  *)
(* resolves a pipeline with a result per command, and the code does not    *)
(* look for errors in it: any of the commands may have had no effect.      *)
(***************************************************************************)
EXTENDS Naturals, FiniteSets

CONSTANTS
  Sessions,        \* the ids randomUUID() can draw
  Aliases,         \* partner aliases, the :alias of the URL
  Keys,            \* project API keys
  NoKey,           \* an alias without a key, a session without a project
  NoSession,       \* a request that names no session
  Requests,        \* bound: handlers in flight at once
  MaxRestarts,     \* bound: restarts of the process
  MaxFaults        \* bound: pipelines with a failing command

ASSUME SessionsAssumption ==
  /\ NoKey \notin Keys
  /\ NoSession \notin Sessions
  /\ MaxRestarts \in Nat /\ MaxFaults \in Nat

VARIABLES
  aliasMap,        \* the external Redis the dashboard writes
  transports,      \* McpController.transports
  sessionProject,  \* McpController.sessionProjectMap
  serverCache,     \* SessionManagerService.serverCache
  records,         \* Redis mcp:session:{key}:{session}; ex: with a TTL
  projectSet,      \* Redis mcp:project-sessions:{key}
  request,         \* the handlers in flight
  drawn,           \* history: session ids drawn so far
  issued,          \* history: those a client has been told of
  closed,          \* history: those whose transport served a DELETE
  ended,           \* history: <<key, session>> of the DELETEs carried out
  restarts,        \* history: restarts so far
  faults           \* history: pipelines with a failing command so far

vars == <<aliasMap, transports, sessionProject, serverCache, records,
          projectSet, request, drawn, issued, closed, ended, restarts, faults>>
locals == <<transports, sessionProject, serverCache>>
redis == <<records, projectSet, faults>>
pasts == <<drawn, issued, closed, ended, restarts>>

At(pc, k, s) == [pc |-> pc, key |-> k, session |-> s]
Idle == At("idle", NoKey, NoSession)

Goes(r, pc) == request' = [request EXCEPT ![r].pc = pc]
Returns(r) == request' = [request EXCEPT ![r] = Idle]

Record(k, s) == [key |-> k, session |-> s, ex |-> TRUE]

(* A pipeline meant to leave recs and set in Redis: each of its two        *)
(* commands has its effect, or the fault of one or both is ignored.        *)
Pipeline(recs, set) ==
  \/ records' = recs /\ projectSet' = set /\ UNCHANGED faults
  \/ /\ faults < MaxFaults /\ faults' = faults + 1
     /\ records' \in {records, recs} /\ projectSet' \in {projectSet, set}
     /\ records' = records \/ projectSet' = projectSet

Init ==
  /\ aliasMap \in [Aliases -> Keys \cup {NoKey}]
  /\ transports = {} /\ serverCache = {}
  /\ sessionProject = [s \in Sessions |-> NoKey]
  /\ records = {} /\ projectSet = {}
  /\ request = [r \in Requests |-> Idle]
  /\ drawn = {} /\ issued = {} /\ closed = {} /\ ended = {}
  /\ restarts = 0 /\ faults = 0

(* A POST or GET with a session id changes nothing here: it is served by   *)
(* the transport in the map, or refused with 400 if there is none.         *)
Served(s) == s \in transports

(***************************************************************************)
(* POST with an initialize request.                                        *)
(***************************************************************************)

(* Mutation: the key of an unknown alias is used as it is. *)
InitResolveUnknown(r) ==
  /\ request[r].pc = "idle"
  /\ \E a \in Aliases :
       request' = [request EXCEPT ![r] = At("resolved", aliasMap[a], NoSession)]
  /\ UNCHANGED <<aliasMap, locals, redis, pasts>>

(* resolveAlias; an unknown alias gets a 404. *)
InitResolve(r) ==
  /\ request[r].pc = "idle"
  /\ \E a \in Aliases :
       /\ aliasMap[a] # NoKey
       /\ request' = [request EXCEPT ![r] = At("resolved", aliasMap[a], NoSession)]
  /\ UNCHANGED <<aliasMap, locals, redis, pasts>>

(* Mutation: onsessioninitialized is not awaited. *)
InitMapsAnswersAtOnce(r) ==
  /\ request[r].pc = "resolved"
  /\ \E s \in Sessions \ drawn :
       /\ drawn' = drawn \cup {s} /\ issued' = issued \cup {s}
       /\ transports' = transports \cup {s}
       /\ sessionProject' = [sessionProject EXCEPT ![s] = request[r].key]
       /\ request' = [request EXCEPT ![r] = At("save", request[r].key, s)]
  /\ UNCHANGED <<aliasMap, serverCache, redis, closed, ended, restarts>>

(* The transport draws its id; onsessioninitialized fills the two maps ... *)
InitMaps(r) ==
  /\ request[r].pc = "resolved"
  /\ \E s \in Sessions \ drawn :
       /\ drawn' = drawn \cup {s}
       /\ transports' = transports \cup {s}
       /\ sessionProject' = [sessionProject EXCEPT ![s] = request[r].key]
       /\ request' = [request EXCEPT ![r] = At("save", request[r].key, s)]
  /\ UNCHANGED <<aliasMap, serverCache, redis, issued, closed, ended, restarts>>

(* Mutation: SET without EX. *)
InitSaveForever(r) ==
  /\ request[r].pc = "save"
  /\ LET k == request[r].key  s == request[r].session
     IN  Pipeline(records \cup {[key |-> k, session |-> s, ex |-> FALSE]},
                  projectSet \cup {<<k, s>>})
  /\ Goes(r, "saved")
  /\ UNCHANGED <<aliasMap, locals, pasts>>

(* Mutation: the alias is resolved again for the record. *)
InitSaveResolvesAgain(r) ==
  /\ request[r].pc = "save"
  /\ \E a \in Aliases :
       LET k == aliasMap[a]  s == request[r].session
       IN  /\ k # NoKey
           /\ Pipeline(records \cup {Record(k, s)}, projectSet \cup {<<k, s>>})
  /\ Goes(r, "saved")
  /\ UNCHANGED <<aliasMap, locals, pasts>>

(* ... and awaits createSession: the pipeline of save, SET EX and SADD, *)
InitSave(r) ==
  /\ request[r].pc = "save"
  /\ LET k == request[r].key  s == request[r].session
     IN  Pipeline(records \cup {Record(k, s)}, projectSet \cup {<<k, s>>})
  /\ Goes(r, "saved")
  /\ UNCHANGED <<aliasMap, locals, pasts>>

(* then the cache; the answer carries the session id.                      *)
InitReply(r) ==
  /\ request[r].pc = "saved"
  /\ serverCache' = serverCache \cup {<<request[r].key, request[r].session>>}
  /\ issued' = issued \cup {request[r].session}
  /\ Returns(r)
  /\ UNCHANGED <<aliasMap, transports, sessionProject, redis,
                 drawn, closed, ended, restarts>>

(***************************************************************************)
(* DELETE.  The project key is that of the request's alias, whatever the   *)
(* session was opened under.                                               *)
(***************************************************************************)
DeleteResolve(r) ==
  /\ request[r].pc = "idle"
  /\ \E a \in Aliases, s \in issued :
       /\ aliasMap[a] # NoKey
       /\ request' = [request EXCEPT ![r] = At("check", aliasMap[a], s)]
  /\ UNCHANGED <<aliasMap, locals, redis, pasts>>

(* Without a transport: 400, and nothing is deleted. *)
DeleteCheck(r) ==
  /\ request[r].pc = "check"
  /\ IF Served(request[r].session) THEN Goes(r, "close") ELSE Returns(r)
  /\ UNCHANGED <<aliasMap, locals, redis, pasts>>

(* transport.handleRequest: the SDK closes the transport, and onclose      *)
(* clears the two maps.                                                    *)
DeleteClose(r) ==
  /\ request[r].pc = "close"
  /\ transports' = transports \ {request[r].session}
  /\ sessionProject' = [sessionProject EXCEPT ![request[r].session] = NoKey]
  /\ closed' = closed \cup {request[r].session}
  /\ Goes(r, "record")
  /\ UNCHANGED <<aliasMap, serverCache, redis, drawn, issued, ended, restarts>>

(* Or the SDK refuses the DELETE, for the protocol version in its header,  *)
(* and answers 400: the transport stays open, and the handler, which does  *)
(* not look at the answer, goes on to delete the session all the same.     *)
DeleteRefused(r) ==
  /\ request[r].pc = "close"
  /\ Goes(r, "record")
  /\ UNCHANGED <<aliasMap, locals, redis, pasts>>

(* Mutation: DEL without SREM. *)
DeleteRecordOnly(r) ==
  /\ request[r].pc = "record"
  /\ LET k == request[r].key  s == request[r].session
     IN  Pipeline({rec \in records : rec.key # k \/ rec.session # s}, projectSet)
  /\ Goes(r, "cache")
  /\ UNCHANGED <<aliasMap, locals, pasts>>

(* deleteSession: DEL and SREM in a pipeline, *)
DeleteRecord(r) ==
  /\ request[r].pc = "record"
  /\ LET k == request[r].key  s == request[r].session
     IN  Pipeline({rec \in records : rec.key # k \/ rec.session # s},
                  projectSet \ {<<k, s>>})
  /\ Goes(r, "cache")
  /\ UNCHANGED <<aliasMap, locals, pasts>>

(* Mutation: the cache entry goes only if Redis reports a deleted record;  *)
(* the pipeline's report is what it left behind.                           *)
DeleteCacheIfDeleted(r) ==
  /\ request[r].pc = "cache"
  /\ LET k == request[r].key  s == request[r].session
     IN  /\ serverCache' = IF \E rec \in records : rec.key = k /\ rec.session = s
                           THEN serverCache ELSE serverCache \ {<<k, s>>}
         /\ ended' = ended \cup {<<k, s>>}
  /\ transports' = transports \ {request[r].session}
  /\ sessionProject' = [sessionProject EXCEPT ![request[r].session] = NoKey]
  /\ Returns(r)
  /\ UNCHANGED <<aliasMap, redis, drawn, issued, closed, restarts>>

(* then the cache, and the controller clears its maps once more.           *)
DeleteCache(r) ==
  /\ request[r].pc = "cache"
  /\ LET k == request[r].key  s == request[r].session
     IN  /\ serverCache' = serverCache \ {<<k, s>>}
         /\ ended' = ended \cup {<<k, s>>}
         /\ transports' = transports \ {s}
         /\ sessionProject' = [sessionProject EXCEPT ![s] = NoKey]
  /\ Returns(r)
  /\ UNCHANGED <<aliasMap, redis, drawn, issued, closed, restarts>>

(***************************************************************************)
(* The environment.                                                        *)
(***************************************************************************)
(* The process is restarted: its maps and its handlers are gone. *)
Restart ==
  /\ restarts < MaxRestarts /\ restarts' = restarts + 1
  /\ transports' = {} /\ serverCache' = {}
  /\ sessionProject' = [s \in Sessions |-> NoKey]
  /\ request' = [r \in Requests |-> Idle]
  /\ UNCHANGED <<aliasMap, redis, drawn, issued, closed, ended>>

(* The TTL of a record runs out; no request ever renews it. *)
Expire(k, s) ==
  /\ Record(k, s) \in records
  /\ records' = records \ {Record(k, s)}
  /\ UNCHANGED <<aliasMap, locals, projectSet, faults, request, pasts>>

(* The dashboard registers an alias, moves it to another project or drops it. *)
Remap(a) ==
  /\ \E k \in (Keys \cup {NoKey}) \ {aliasMap[a]} :
       aliasMap' = [aliasMap EXCEPT ![a] = k]
  /\ UNCHANGED <<locals, redis, request, pasts>>

Step(r) ==
  \/ InitResolve(r) \/ InitMaps(r) \/ InitSave(r) \/ InitReply(r)
  \/ DeleteResolve(r) \/ DeleteCheck(r)
  \/ DeleteClose(r) \/ DeleteRefused(r) \/ DeleteRecord(r) \/ DeleteCache(r)

Next ==
  \/ \E r \in Requests : Step(r)
  \/ Restart
  \/ \E k \in Keys, s \in Sessions : Expire(k, s)
  \/ \E a \in Aliases : Remap(a)

(* Fairness: a TTL that has been set runs out.  No handler need proceed.   *)
Spec == Init /\ [][Next]_vars /\ \A k \in Keys, s \in Sessions : WF_vars(Expire(k, s))

-----------------------------------------------------------------------------
Pairs == Keys \X Sessions
Stages == {"idle", "resolved", "save", "saved", "check", "close", "record", "cache"}

(* Type invariant; a request past its alias lookup has a key, and only an  *)
(* id that was drawn is handled. *)
TypeOK ==
  /\ aliasMap \in [Aliases -> Keys \cup {NoKey}]
  /\ transports \subseteq drawn /\ issued \subseteq drawn
  /\ drawn \subseteq Sessions /\ closed \subseteq issued
  /\ sessionProject \in [Sessions -> Keys \cup {NoKey}]
  /\ serverCache \subseteq Pairs /\ projectSet \subseteq Pairs /\ ended \subseteq Pairs
  /\ records \subseteq [key : Keys, session : Sessions, ex : BOOLEAN]
  /\ request \in [Requests -> [pc : Stages, key : Keys \cup {NoKey},
                            session : Sessions \cup {NoSession}]]
  /\ \A r \in Requests :
       /\ request[r].pc # "idle" => request[r].key \in Keys
       /\ request[r].pc \in {"save", "saved"} => request[r].session \in drawn
       /\ request[r].pc \in {"check", "close", "record", "cache"}
            => request[r].session \in issued
  /\ restarts \in 0 .. MaxRestarts /\ faults \in 0 .. MaxFaults

(* A client has ended s: its transport is closed or its DELETE carried out. *)
Deleted(s) == s \in closed \/ \E k \in Keys : <<k, s>> \in ended

(* Whatever requests are in flight, a session that a client knows has its  *)
(* project and its server while it is served (a DELETE takes the transport *)
(* first), and is served until a client ends it: no other request, no      *)
(* failing pipeline, no TTL and no alias that moves takes it away.  Only a *)
(* restart does, which nothing undoes, though Redis has the record.        *)
OpenSessionsAreWhole ==
  \A s \in issued :
    /\ Served(s) => /\ sessionProject[s] \in Keys
                    /\ <<sessionProject[s], s>> \in serverCache
    /\ Served(s) \/ Deleted(s) \/ restarts > 0

Deleting(s) ==
  \E r \in Requests : request[r].session = s /\ request[r].pc \in {"record", "cache"}

(* A server is in the cache without a transport only while its session is  *)
(* being deleted, or because it was deleted through an alias of another    *)
(* project: neither a failing Redis nor a restart nor a second DELETE      *)
(* leaves one behind.                                                      *)
StrayServersAreExplained ==
  \A p \in serverCache : Served(p[2]) \/ Deleting(p[2])
    \/ \E k \in Keys \ {p[1]} : <<k, p[2]>> \in ended

(* The project of a session is settled when its request's alias is         *)
(* resolved: the maps, the cache and Redis agree on it while the session   *)
(* is served, even if the alias has moved to another project since.        *)
ProjectIsSettledAtOpening ==
  \A s \in Sessions : Served(s) => \A k \in Keys \ {sessionProject[s]} :
    /\ <<k, s>> \notin serverCache \cup projectSet
    /\ \A rec \in records : rec.session = s => rec.key # k

(* mcp:project-sessions has no TTL and nobody calls what would clean it:   *)
(* an id in it is of a session that is served or being deleted, or stays   *)
(* for ever.  It stays after a restart, after a DELETE through an alias of *)
(* another project, and after its own DELETE only when a pipeline failed.  *)
StrayIdsAreExplained ==
  \A p \in projectSet :
    /\ p \in ended => faults > 0
    /\ p \notin ended =>
         \/ Served(p[2]) \/ Deleting(p[2])
         \/ restarts > 0 \/ \E k \in Keys \ {p[1]} : <<k, p[2]>> \in ended

(* No record of a session is left in Redis some time after it was deleted, *)
(* also when its DELETE failed there, named another project or was cut     *)
(* short by a restart: what is left runs out, and nothing writes it again. *)
(* This is of the records alone: the ids of projectSet may stay.           *)
DeletedRecordsRunOut ==
  \A s \in Sessions : Deleted(s) ~> [](\A rec \in records : rec.session # s)
=============================================================================
