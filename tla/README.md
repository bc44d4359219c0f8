# A verification project for iot-cloud-mcp

`iot-cloud-mcp` is two programs in one repository:

* the **gateway** (`src/`, TypeScript, NestJS): an MCP server in front of the
  Rogo IoT cloud, for many partners (aliases) at once. It keeps MCP sessions,
  resolves short device references, runs tools and schedules them;
* **xiaozhi-cloud** (`apps/xiaozhi-cloud/`, Python, FastAPI): a voice cloud for
  Xiaozhi devices. One WebSocket per device; a turn goes from speech to text,
  through a language model with tool calls (to the gateway), to speech.

This directory holds TLA+ modules of their core, the TLC configurations that
check them, and proofs that TLAPS checks. `PROJECT.json` lists components, runs,
mutants, the source lines each definition models, findings, hazards and
theorems.

## 1. Inventory

| Part | State it keeps | Operations | Hard because |
|---|---|---|---|
| Turn pipeline (`services/runtime.py`, `_process_turn` in `main.py`) | two queues per hop, two tasks, iteration, frame index, history | stream, split, speak, retry, tool hop, capped reply, save, send | three coroutines, sentinels, cancellation, a failure or a disconnect at every await |
| Conversation history (`session/models.py`) | a list capped at 20 | `add_turn`, `add_message`, `_safe_truncate` | eviction in the middle of a hop can part a tool call from its result |
| Voice session (`main.py`, `runtime.py`) | phase, listen mode, audio buffer, silence-check offset, the copy in Redis | hello, listen start/stop/detect, abort, audio, silence check, turn | the loop is deaf during a turn; every save may raise; stale audio |
| MCP sessions (`src/mcp`) | transports, project map, server cache (process); record, project set (Redis) | POST initialize, POST/GET, DELETE | four places updated at different awaits, restarts, TTLs, aliases that move, results of pipelines nobody reads |
| Alias registry (`src/alias`) | external Redis | `resolveAlias`, `getAliasMeta` | written by somebody else, at any time |
| References (`src/tools/services/*-reference.service.ts`) | Redis `ref -> uuid` with a TTL | assign, store, resolve | stale entries, collisions, concurrent listings |
| Tool executor and registry (`src/tools`) | none | 24 tools, each a sequence of awaited requests; bulk control in chunks of 10 | partial failures, prefixes of commands, responses lost after a change was made |
| IoT API proxy (`src/proxy`) | none | one HTTP request per method | no timeout; a failure says nothing of what the cloud did |
| Scheduler (`src/scheduler`) | BullMQ queue | schedule, list, cancel, process | cancel races the worker; jobs move while they are listed; the worker dies on a job |
| OAuth, login pages, discovery (`src/auth`, `src/discovery`, `mcp-auth.controller.ts`) | none: all of it is in URLs and forms | metadata, authorize, login, token, register | two controllers under three URL schemes; each step is found through the one before |
| JSON-RPC handler, widgets, resources, server factory | none | registration of static data | little |
| Audio codec (`audio.py`) | encoder pipe | decode, VAD, streaming encode | subprocess and task cancellation |
| Bridge (`bridge/xiaozhi`) | child process | login, restart before the token expires | timing |

How they interact: a device talks to the receive loop; the loop fills the audio
buffer and calls a turn, which appends to the history and saves the session in
Redis; the turn calls tools through an MCP session of the gateway; the gateway's
tools call the IoT cloud. Within xiaozhi-cloud everything of one device runs in
one event loop, so interleaving happens at awaits only; the gateway interleaves
requests at awaits too, and shares Redis with its own past (restarts).

The properties that make each part correct:

* **turn**: the device sees a legal sequence of messages; no sentence is lost;
  the reply is remembered only if spoken, and saved before the stop; the turn
  ends and leaves no task behind;
* **history**: what is sent to the model is always a legal conversation, and no
  more is forgotten than the cap demands;
* **voice session**: a turn hears exactly one listening period, the loop always
  returns to a phase in which the device can be heard, Redis knows the phase;
* **references**: a tool acts only where its reference once pointed, devices of
  one name are told apart, Redis comes to agree with the inventory;
* **tools**: the changes a call orders happen in order, at most once and are
  reported as they went, whatever fails; a tool does what its hints say; what an
  answer names can be used in the next call; every call is answered;
* **scheduler**: a job runs once unless the process dies on it, a cancelled job
  does not begin, a listing misses no pending job, every job settles;
* **login**: every address a login needs is served, a client gets its code with its
  own state at its own redirect_uri, and its connection in the end;
* **MCP sessions**: an open session is served and whole, nothing of a deleted session
  stays unexplained, one session has one project, the records of a deleted one run
  out.

## 2. Plan

Done, in this order: `History`/`ConversationHistory` (+ proofs), `WireContract`
and `TurnPipeline` (+ proofs), `McpSessions` (+ proofs), `VoiceSession` (+ proofs),
`DeviceReferences` (+ proofs), `ToolPlans`, `Delivery` and `ToolCalls` (+ proofs),
`Scheduler` (+ proofs), `LoginFlow` (+ proofs).

Next: an abstract session service (open, serve, close) that `McpSessions`
implements between restarts, and its proof.

Modules to be proved about use functions and sets, no recursive operators, and
one action per operation with constants for every bound.

## 3. Modules

### `History`, `ConversationHistory`

`History` holds the two operations on the list: `AddMessage` (`add_turn` and
`add_message`, which do the same) and `SafeTruncate`. `ConversationHistory` adds
who calls them: a user turn, then hops (an assistant message with k calls, then
one result per call, each appended and truncated by itself), then the reply, or a
failure that leaves the history as it is. `log` is a history variable: everything
ever appended. The cap, 20 in the code, is `MaxHistory`.

The code limits the number of calls of a hop nowhere, and neither does the model:
`MaxCalls` may be larger than the cap. A hop of more calls than the list has room
for evicts its own assistant message, then, with it gone, the results so far; the
results beyond the cap stand alone at the head of the list. `Orphaned` is that case,
and `EveryResultHasItsCall` says that there is no other.

### `WireContract`, `TurnPipeline`

`WireContract` is the abstract specification: which message a device may be sent
next, given those it has been sent in this turn. It is the order the code keeps to,
and weaker than the "Wire contract" of `apps/xiaozhi-cloud/README.md` in two places:
`start` follows the transcript at once, where that README promises none before a
sentence is ready; and a failing stop may follow the normal one, when the save behind
it raises. `TurnPipeline` is the program:

| Variable | Code |
|---|---|
| `main` | the position of `_process_turn` and of the generator it consumes |
| `llm`, `tts` | `_llm_task`, `_tts_task` (`_tts_cap` at the cap) and what they have so far |
| `sentenceQ`, `eventsQ` | `sentence_q`, `events_q`/`events_cap`; 0 and `"none"` are the `None` sentinels |
| `frameIndex` | `frame_index_ref` |
| `history`, `saved` | `conversation_history` and its copy in Redis |
| `wire`, `connected` | what the device got; whether it is there |
| `abandoned` | the generator was dropped inside the `try` of its consumer loop, which cancels both tasks |

One action is what a coroutine does between two suspensions; a `put` on an
unbounded `asyncio.Queue` never suspends. `_try_split` is abstracted to how many
sentences a piece completes and whether it leaves a residue. A send to a device
that has left is lost or raises `WebSocketDisconnect`; after a raise the turn
goes to its recovery. Cancelled tasks still put their sentinels (`finally`), but
`_tts_cap` has none.

### `VoiceSession`

One coroutine (`pc`), the fields of `DeviceSession` that decide what happens
(`phase`, `mode`, `frames`, `analyzed`, `speech`), `since`
(`frames_since_energy_check`), the copy in Redis (`stored`) and the socket
(`inbox`, `open`, `left`). A frame carries whether it is voiced and which
listening period the device was in when it sent it; `heard` counts the periods
the server has begun. Each save succeeds or raises, and what happens then depends
on where it stands: uncaught in the loop (`dead`), caught by the turn (`failed`),
uncaught in the turn's own handlers (`dead`).

### `McpSessions`, `MCMcpSessions`

A handler is a request with a position, a project key and a session id; it stops
at every await of the code. The SDK's transport, ioredis and the dashboard are
external: the transport draws fresh ids, awaits `onsessioninitialized` before it
answers, and calls `onclose` while it serves a DELETE, or refuses the DELETE (an
unsupported protocol version), whereupon the handler deletes the session all the
same (`DeleteRefused`); a pipeline may have had only part of its effect; an alias
moves at any time. `Restart` empties what lives in the process. `projectSet` is
`mcp:project-sessions:*`, which has no TTL and which nothing prunes. `drawn`,
`issued`, `closed`, `ended` are history variables.

### `DeviceReferences`

Devices are numbers in the order of their uuids, and a name or reference is a
word followed by numbers: `<<lamp>>`, `<<lamp, 2>>` (a user's own "Lamp 2", or
the second of two lamps). That is all `assignRefs` and `resolveDeviceUuid` can
tell apart. A tool call stops at every await: a listing holds references made
from an inventory that may have changed since (`ListFetch`, `ListStore`); a
resolution reads Redis, then perhaps the inventory, then stores the whole
listing (`Resolve`, `Load`, `Match`). Of two SETs of one key either may be the
last; each may fail. `assigned` is a history variable: every reference of every
inventory so far. `LongWords` are the names of 47 or 48 characters, which leave no
room for a number: the lookup's cut to 48 characters takes "-2" or all of its digits
away. A name of 46 characters with ten namesakes or more, whose number is cut in
half, is left out; it fails the same way.

### `ToolPlans`, `Delivery`, `ToolCalls`

`ToolPlans` is the tools as data. Each method of `IotApiService` is a request, a
verb and a path; each handler of `ToolExecutorService` is a function from what
its call was given to the *plan* of what it awaits: a sequence of stages (one
`await` after the other), each a set of steps awaited together (`Promise.all`).
A step either ends the handler when it fails (`Must`), may fail (`May`, a
`.catch(() => null)`), stores references, or resolves one. A handler depends on
its parameters only in which of them are there, and on the device it has read in
whether it belongs to a location and a group. Each `..._TOOL` is a definition of
the registry: parameters and hints.

`ToolCalls` carries a plan out. `runs` holds what is left of the plan of each
device (one, except for a bulk control), `results` and `answer` what is
reported. The cloud is external: it answers (`Respond`), or the request fails or
its response is lost (`Miss`), in which case a change may be in the air
(`stray`) and take effect much later (`Arrive`). `orders`, `received` and `read`
are history variables. `NextChunk` and `Answer` are the loop over chunks with
`Promise.allSettled`.

`Delivery` is the abstract specification: what a call orders arrives in order,
nothing twice and nothing left out on the way; a success means that all of it has
arrived; after a failure at most one more change does; an answer comes after
every verdict. The mapping reads a device's verdict from its place in `results`
once it is reported, so that a result under another device's name breaks it.

### `Scheduler`

`state` is the queue: per job the BullMQ state, with `"none"` before and `"gone"`
after. `Schedule`, `List`/`Read`/`ListStates`/`Reply` and `Find`/`Look`/`Remove`
are `SchedulerService`, split at its awaits; `Take` and `Process` are the worker,
which runs inside the gateway's process and takes one job at a time. The queue is
external: `Due`, `Stall` (a job whose worker died is given back once, then
failed), `Forget`. `Crash` ends the worker and the request being served.
`process` returns the answer of a tool also when it reports an error, so a job
whose tool failed is `completed` and `onFailed` is called for stalled jobs only.
A listing reads every job on the page, also other users', before it looks at the
owner; if one is gone by then the whole listing fails (`ListFails`).

### `LoginFlow`, `MCLoginFlow`

One client on its way to a token. A URL is a host (`base` or the alias's
subdomain) and a path; `rewritten` is nginx. The routes of the three controllers
are sets of paths, and each action is guarded by its route, so that a URL that
the code builds and nobody serves leads to `GetLost`. `handed` holds the addresses
of the last answer that named any: the header of the 401, everything in metadata
(also `jwks_uri`, revocation, introspection and the documents) or a form's action.

`page` is the form in front of the user: where it is sent and its hidden fields,
which is all the state a login has. The template writes a field between `value="`
and `"` without escaping it; `AsAttribute` is what the browser reads there, any
function on texts, and `generateLoginPage` applies it, each time the page is shown.
`Submit` / `Redirect` / `ShowAgain` are the two `login` handlers around
`handleLogin`: the redirect goes to the redirect_uri of the form with the state of
the form, and when these are not what the client asked for it ends in `"misled"`;
what `new URL` refuses shows the page again. `serving` is the request being
handled, with the project its alias stood for when it came in. `ValidationPipe`
refuses a token request with a client_secret in its body (`secret`).

`Move` changes the registry at any time. The client is external: it follows the
header of the 401, looks at the well-known places, or reads the metadata of either
controller below its address, and may insist that metadata describe the address it
was given (`strict`). `MCLoginFlow` gives the texts: a plain state and redirect_uri,
a redirect_uri a quote cuts to another, one it cuts to no URL, and a state whose
entity the first page decodes to a quote, at which the second cuts it.

## 4. What the runs check

| Run | Bounds | Shows |
|---|---|---|
| `turn` | 2 tool hops before the cap, 2 sentences a hop, 1 frame an attempt | `KeepsWireContract` (refinement), `SpeechIsDrained`, `OnlySpokenRepliesAreRemembered`, `StopComesAfterSave`, `TurnEndsUnlessCapHangs` |
| `history` | cap 4, up to 6 calls a hop, 14 messages | `EveryResultHasItsCall`, `EveryCallIsAnswered`, `EvictsOnlyTheOldest` |
| `sessions` | 2 sessions, 2 keys, 1 alias, 2 requests, 1 restart, 1 fault; symmetric | `OpenSessionsAreWhole`, `StrayServersAreExplained`, `ProjectIsSettledAtOpening`, `StrayIdsAreExplained` |
| `sessions_live` | 1 session, 2 keys, 2 requests, 2 restarts, 1 fault | `DeletedRecordsRunOut` |
| `voice` | check every 2 frames, 7 messages, 2 waiting, 1 failing save | `TurnHearsOnePeriod`, `LoopIsNeverInATurn`, `RedisKnowsThePhase` |
| `tools` | all 24 tools, up to 2 optional parameters, 3 devices in chunks of 2 | `ImplementsDelivery` (refinement), `HintsAreTrue`, `ShownReferencesAreStored`, `OneChunkAtATime`, `EveryCallIsAnswered` |
| `jobs` | 2 jobs, 2 users, pages of 1, 2 crashes, 1 stall | `CancelledNeverBegins`, `PendingJobsAreListed`, `RerunsAreCrashes`, `EveryJobSettles` |
| `login` | 2 projects, 3 redirect_uris, 2 states (some with a quote or an entity), all kinds of client and host | `LinksAreServed`, `LoginKeepsTheRequest`, `RefusalsAreExplained`, `EveryClientConnects` |
| `references` | 3 devices, 1 word, own number 2, 1 call, 1 change by the app besides the call's own deletions | `OnlyNumberedNamesCollide`, `ActsWhereTheRefPointed`, `CacheHeals` |

Why the bounds are enough: with two sentences there is a "next" sentence to
overtake, lose or misnumber, and a frame of one attempt before the retry; two
hops before the cap give a first, a middle and a capped one. A history of fourteen
messages passes a cap of four more than three times; hops have fewer calls than the
cap, as many, and up to two more, so the cut falls before, inside and after a hop,
and takes a hop's own assistant message with results still to come. Two
requests give every race of two handlers over the same or different sessions;
one alias that moves between two keys is two aliases of different projects in
turn. Seven messages are two listening periods with audio in each and a message
to spare. Three devices give two that share a name and one that is called like
the second of them. One call at a time is enough there because calls meet only
in Redis and in the inventory, and what a second call does to these is among the
effects of `Change`, `Expire` and of a listing that is stored late. Three devices
in chunks of two give a full chunk, a short last one and two devices in flight at
once; two optional parameters give two commands to a device, so a prefix of them.
Two jobs of two users give a page filled by somebody else's job and a job that
moves while another is read; two crashes are one more than a job survives. A
login depends on one alias, and two projects are what it can move between; a text
that survives the page, one that does not, and one that survives the first page only
are what a field can be.

Every property has a mutant in `PROJECT.json`: a plausible bug in one mapped
definition that the run must find.

`CHECK_DEADLOCK FALSE`: a turn ends, a session is over when the device has left,
a conversation reaches its bound, the gateway may have used up its ids, a tool
call has been answered, all jobs are gone, a client is lost.

### Fairness

* `TurnPipeline`: weak fairness of each of the three coroutines: the event loop
  runs what can run, and each model step of a coroutine is enabled until taken.
  It includes that the provider's stream ends or fails (the code sets no read
  timeout, see the hazards) and that a speech synthesis does. The device need not
  do anything, and nobody need disconnect.
* `McpSessions`: weak fairness of `Expire` only: a TTL that was set runs out. No
  handler need proceed.
* `DeviceReferences`: weak fairness of `Expire` only. No call need proceed.
* `ToolCalls`: weak fairness of the gateway's own steps, and of the cloud and
  Redis: every request is answered in the end, with a response or an error. A lost
  change need not arrive. The second half is an assumption about the network that
  the code does not enforce: `SilentCloudSpec` keeps it for Redis alone, and the
  run `requests_time_out` shows what then becomes of the documented timeout.
* `Scheduler`: time passes (`Due`), the queue hands out waiting jobs in turn and
  notices dead workers, though crashes interrupt both (strong fairness of `Take`
  and `Stall`); a tool call is answered (`Process`); a process that died is started
  again, as the compose files have it. Nobody need schedule, list or cancel.
* `LoginFlow`: handlers run, client and user keep trying, and the cloud does what
  it is asked now and then (strong fairness of the three requests a login needs).
  The registry need not settle; `EveryClientConnects` says what follows if it does.
* `VoiceSession` and `ConversationHistory` state safety only.

### Findings

Three runs show the code disagreeing with a document or a description of a tool,
each with the behaviour TLC finds (`PROJECT.json`, `findings`):

* `turn_ends`: the capped reply hangs when its speech fails twice (no `finally`);
* `references_given`: the number of a duplicate is appended to a name that fills
  the reference, and the lookup cuts it off: the tool acts on the first device;
* `requests_time_out`: the documented timeout of 30 seconds belongs to an HTTP
  client nobody uses; a request the cloud never answers is waited for without end.

Other disagreements met while modelling. The models have the behaviour of the
code, and no run is spent on them:

* `start` is sent right after the transcript (`main.py:266`), so that a turn which
  fails before its first sentence has been started on the device, while
  `apps/xiaozhi-cloud/README.md:74` and `:79` promise no `tts_start` before a sentence
  is ready and no false starts;
* the save after the normal stop may raise (`main.py:307-310`), and the device is then
  told a second time that the turn is over, while `README.md:77` there has one stop, on
  completion or on an exception;
* after a restart a session that Redis knows is refused (`mcp.controller.ts:177`,
  `276`, `324`), while `AGENT.md:111` has it continue seamlessly (the exception of
  `OpenSessionsAreWhole`);
* the id of a session may stay in its project's set for ever, while `AGENT.md:113` says
  that stale ids are pruned: the method that does has no caller
  (`StrayIdsAreExplained` says which ids stay);
* the metadata offers `client_secret_post` (`discovery.service.ts:60`), and the
  validation pipe (`main.ts:61`) refuses every token request that uses it (the
  exception of `RefusalsAreExplained` and `EveryClientConnects`);
* a reply cut off by a disconnect is not in the history (`runtime.py:373`), while
  the docstring at `runtime.py:232` says it is;
* a DELETE through an alias of another project leaves the server in the cache
  (`mcp.controller.ts:343`), while line 303 says it cleans up;
* a job may be cancelled after it has run (`scheduler.service.ts:128-133`), while
  `cancel-scheduled-job.tool.ts:12` says only jobs that have not executed can be;
* a listing of one user fails when a job of anybody is removed between the two reads
  (`scheduler.service.ts:95-97`, `ListFails`);
* `update_device` says at least one optional field must be given; nothing checks it;
* a login that fails because the cloud is down is reported as invalid credentials;
* the metadata of `AuthController` names addresses of keys, revocation,
  introspection, documentation, policy and terms (`discovery.service.ts:33-35`, `57`,
  `71`, `77`, `83-86`), and no controller serves any of them; `main.ts:71` announces
  `/docs`, which nothing sets up;
* on a host without subdomains the 401 and the metadata of `McpAuthController` name
  the root, where no metadata, login or token endpoint is; with subdomains, a client
  connected to the base address finds metadata of another resource there.
  `LinksAreServed` lists these addresses and those before (`Unserved`), and says that
  there are no others and who can be led astray by them;
* the login page writes its fields into attributes as they are
  (`login-page.template.ts:160-167`): a state or redirect_uri with a quote or an
  entity does not come back as it was sent (`LoginKeepsTheRequest` is about plain
  values, and states the exception).

## 5. What is proved

TLAPS checks every proof from nothing; the only assumptions are those stated in
the modules (`MaxHistoryAssumption`, `CallsAssumption`, `SessionsAssumption`,
`PipelineAssumption`, `VoiceAssumption`, `ReferencesAssumption`,
`ToolCallsAssumption`, `SchedulerAssumption`, `LoginFlowAssumption`). Every
invariant of a passing run is proved, and so are the action property of the
scheduler and both refinements.

`ConversationHistory_proofs`, for every cap, any number of calls of a hop, also
above the cap, and every length of session:

* `TypeCorrect`, `NoOrphanedResult`, `NoUnansweredCall`, `NothingElseIsEvicted`:
  `Spec => []` of the four invariants of the run `history`.
* The argument goes by the log, which nothing is evicted from: there every result
  stands behind the assistant message of its hop, with the earlier results between.
  The history is the end of the log from some cut on, and `CutWell` says where the cut
  may fall: the list begins with a message that is no result, or with a result beyond
  the cap of its own hop; and it is empty in the middle of a hop only when the hop has
  had as many results as the cap. So a result has its call in the list too, or every
  message before it is a result of its own hop and it is beyond the cap (`Orphaned`).

`McpSessions_proofs`, for every set of sessions, aliases, keys and requests and
any number of restarts and faults:

* `TypeCorrect`, `OpenMeansWhole`, `NoOtherStrayServer`, `OneProjectPerSession`,
  `NoOtherStrayId`: `Spec => []` of the five invariants of the run `sessions`.
* The inductive invariant adds four conjuncts. `Opening`: a request that has
  drawn an id shares it with no other opening request, and no client knows
  the id (otherwise a second handler could overtake the first and the invariant
  about served sessions would break). `Undrawn`: nothing is known anywhere of an
  id that has not been drawn (a fresh id meets no old record). `Removed`: a
  DELETE whose pipeline is behind it has left its id in Redis only if a pipeline has
  failed, and the ids deleted so far have all been issued (so that an id just drawn is
  not among them). `Project`: the project map holds a key for every served
  session. Each action has one lemma, with one step per conjunct.

`Scheduler_proofs`, for every set of users and jobs, every page size and any
number of crashes:

* `TypeCorrect`, `NoPendingJobMissed`, `CancelledStaysCancelled` and
  `RerunsNeedCrashes` state the four safety properties of the run `jobs`;
  `NoRunTooMany` is what the last rests on for a single job.
* The inductive invariant adds: how often a job has begun in each of its states
  (`Counts`: a pending job that has begun was given back, so it can not be one that
  a listing owes its user); that a cancelled job is gone (`ToldAreGone`); that the
  job being cancelled was scheduled (`ChosenIsScheduled`: otherwise removing it
  would give it a state and no owner); and that each job pending when a listing
  began is found, still to be read, cut off by a full page, or has been taken since
  (`KnownAreAccounted`). The action property follows from it: a job in `told` is
  gone, and only a waiting job is taken.
* `RerunsNeedCrashes` counts over all jobs. `Deaths` is the set of what crashes have
  left behind: each time a job was given back, and each job that is active with no
  worker. A crash adds at most one element, `Stall` exchanges one for another, and
  each rerun is the image of a death; so no sum over the jobs is needed.

`LoginFlow_proofs`, for any projects, redirect_uris and values of `state`, and
whatever a browser reads of a text in an attribute (`AsAttribute`):

* `TypeCorrect`, `EveryLinkIsServed`, `RequestIsKept`, `NoGratuitousRefusal`:
  `Spec => []` of `TypeOK`, `LinksAreServed`, `LoginKeepsTheRequest` and
  `RefusalsAreExplained` of the run `login`.
* The inductive invariant says what step of the service a client in each place may
  be waiting for, and that it waits at an address that is served (otherwise it
  could be led astray while its request is under way); that a page has the plain
  fields of the request, made from it directly or from another page (`PageKeeps`), so
  that what does not come back was not plain (`PlainComesBack`); and that as long as
  the alias has not moved since the login was sent, the request being served, the
  code and the registry agree on the project, and the code is unused until it is
  exchanged. `Links` lists, for each place of the client, the addresses it can hold
  there; lemmas show that a route of one of the controllers matches each of those a
  login needs (`AuthLinks`, `McpLinks`, `SubLinks`, `DiscoveryLinks`), that no route
  matches an excepted one (`NobodyServes`), and that whatever is handed out is of one
  kind or the other (`Known`).

`ToolCalls_proofs`, for every tool, whatever it is given, every size of a chunk and
number of devices:

* `TypeCorrect`, `TrueHints`, `StoredReferences`, `OneChunk`: the four invariants of
  the run `tools`; `Delivers`: `ToolCalls` implements `Delivery`.
* Lemmas on the plans (`ReadersAre`, `ChangersAre`, `PlansAre`) say of every handler
  what its plan is made of, for any set of parameters: requests its hints allow
  (`ReadsOf`, `WritesOf`), in stages that either read or make one change, and every
  inventory that is read is stored in a later stage (`Covered`).
* `ChangesAre` and `Owes` tie the order of a run to its plan: some increasing map
  takes each change yet to be made to the stage that makes it, and reaches every such
  stage. The map takes the place of an induction over the plan; `RestOwesNext` and
  `RestOwesStill` say how a step shifts it. With nothing left of a plan nothing is
  owed, so a success has made all of its changes.
* The inductive invariant: what is left of each plan fits the tool (`PlanFits`); what
  took effect is the beginning of the order, and what may arrive late comes next
  (`Ledger`); an inventory that was read is stored, or will be, or its run has failed
  (`Shown`).
* Where a device stands follows from its place: up to `Len(results)` it has settled,
  in the next `ChunkSize` places it has begun, and beyond them it waits. So the set
  `Chunk` is an interval, whose size is what the code's slice has, and the next
  slice begins where the report ends.
* Each step maps to one of `Delivery`, or to a stutter (`NextChunk`): reporting a
  chunk changes no verdict, as results are appended in the places of the devices.
* `ChangesOf` picks the changes of a plan by their rank, and the commands of
  `buildControlCommands` are pushed one by one as in the code: a definition with
  `SelectSeq` would be out of the provers' reach.

`TurnPipeline_proofs`, for any number of hops before the cap, of sentences a hop and
of frames an attempt:

* `TypeCorrect`, `DrainedSpeech`, `RememberedRepliesWereSpoken`, `StopFollowsSave`:
  the four invariants of the run `turn`; `ImplementsWireContract`: what the device is
  sent follows the contract.
* None is inductive alone. The invariant says where the two tasks can be for each
  position of the main coroutine (`LlmFits`, `PlaceFits`); that the sentences in
  flight are numbered without a gap: those announced, then those in the events'
  queue, then the one being spoken, then those still queued, up to the last one cut,
  the sentinel of each queue coming after them (`SentencesFit`, `EventsFit`,
  `NoneIsLast`); that frames are numbered the same way, across attempts; and
  what the wire has seen by then (`WireFits`), which is what the contract asks about
  before the next message. So a failed attempt that is retried cannot announce a
  sentence twice or restart the index of the frames.
* The cut of the history to its cap and the dropping of leading tool results take
  the first place with some property; its existence is the least-element principle,
  from the theorem of the library that strict inclusion is well-founded on finite
  sets (`LeastOf`).
* Each of the actions has a lemma, and each message sent a case of `EventIsAllowed`
  or of the step's own place: the step is one of the contract's.

`VoiceSession_proofs`, for any number of messages, of saves that raise and of
frames between two checks: all four invariants of the run `voice`
(`TypeCorrect`, `OnePeriodPerTurn`, `NeverDeafInTheLoop`, `RedisAgrees`).

* A frame in the buffer is of the period the server is in because of what holds
  of the socket: each waiting `start` or `detect` begins one more period than the
  server has begun, and a frame belongs to the last one begun before it. `InOrder`
  says this with a function `begun` from places in the box to periods; adding a
  message extends it and taking one shifts it.
* `PlaceFitsPhase`: the silence check runs only while listening, and Redis knows.

`DeviceReferences_proofs`, for any number of devices, calls and changes, and
whatever the names: `TypeCorrect`, `NamesakesAreToldApart`, `NoStrangerIsTouched`,
the three invariants of the run `references`.

* Of two devices of one name the later counts strictly more devices before it, so
  the numbers differ, and a number can be told from a word and from another number.
* What Redis holds, what a listing holds and what the inventory would be given now
  has been assigned once; and normalising a reference gives a reference, so that
  a lookup hits what was stored.

Only model-checked: liveness (`TurnEndsUnlessCapHangs`, `DeletedRecordsRunOut`,
`CacheHeals`, `EveryCallIsAnswered` of the tools, `EveryJobSettles`,
`EveryClientConnects`), which rests on fairness and `ENABLED` and is out of the
prover's reach. Induction over data is out of its reach too (the library's
theorems take an operator as a parameter); where an argument needed one, a
witness kept in the invariant (`Owes`, `begun`, `Deaths`) or the least-element
principle replaces it.

## 6. What is not modelled

* Speech processing (`audio.py`) and the provider clients: signal processing,
  subprocesses and HTTP. What they deliver, and that they fail at any point, is
  the environment of `TurnPipeline` and `VoiceSession`.
* The shape of answers: pages, labels, the translation of device states
  (`device-state.utils.ts`), DTOs, wording, frame layouts, JWT contents, the meta
  data of aliases, CORS headers. A login page is modelled by what its hidden fields
  come back as, not by the rest of its markup.
* `McpProtocolHandlerService` and other methods without a caller in the
  repository (`getSession`, `updateLastActivity`, `getProjectSessionIds`,
  `getStats`, `SessionStore.load`): no execution reaches them.
* The server factory, resources, the widget's HTML and its preview controller:
  static data and its registration.
* The bridge (`bridge/xiaozhi`): a separate deployment around a child process, in
  wall-clock time; to the gateway it is one more client.
* Namesakes whose number the lookup cuts in half (see `DeviceReferences`).
* Two voice devices share nothing but Redis under different keys, so one session
  is modelled; unread WebSocket messages are bounded by `MaxWaiting` where the
  server has its own limit. The gateway's rate limits are left out.
