# Bitxor DataNet in TLA+

Bitxor DataNet watches the nodes of a Bitxor network: it discovers them, probes
them, keeps them in MongoDB and serves what it knows over REST.  This directory
holds TLA+ modules that model the service, the C++ linter and the build jobs that
live in the same repository, the TLC configurations that check them on small
instances, and proofs of the main results for every instance.  Paths below are
relative to the repository; the service is TypeScript in `src/`, the linter Python
in `linters/cpp/`, the jobs Python and Jenkins scripts in `jenkins/bitxorcore/`.

Contents

1. The system: its parts, their state, what is hard about them
2. The modules and how they correspond to the code
3. The runs, their bounds and what they show
4. Fairness
5. Disagreements with the documentation
6. The proofs
7. What is only model-checked, what is not modelled
8. Plan

## 1. The system

### The service

One Node.js process (`src/app.ts`) connects to MongoDB, registers the routes and
starts three loops.  Between two `await`s a loop runs alone; at every `await` any
other loop, a route or a timer may run, and a database call or a request may
fail.  Nothing is transactional.

| Part | State | Operations | Talks to |
|---|---|---|---|
| Node monitor (`services/NodeMonitor.ts`) | `nodeList`, `nodeInfoList`, `nodesStats`, network identifier and hash seed | a round: find the network, read the stored nodes, ask the config nodes and the API nodes for peers, probe all nodes, count them, drop stale ones, replace the collections, sleep | REST and TCP of the nodes, `DataBase`, time series, memory cache |
| Database access (`services/DataBase.ts`) | collections Node, NodesStats, NodeHeightStats, HostDetail, NodeCountSeries | reads; `updateCollection`: find, deleteMany, insertMany, compare lengths | MongoDB |
| Time series (`services/TimeSeriesService.ts`) | `dayCollection` in memory, a day and a main collection | `init`, `setData` with the rollover of a finished day | MongoDB; called, not awaited, by the node monitor |
| Host probing (`ApiNodeService.ts`, `PeerNodeService.ts`, `Http.ts`) | none | REST requests, TCP probe, WebSocket check | the nodes |
| Chain height monitor (`ChainHeightMonitor.ts`) | `nodeList`, two height histograms | read API nodes, ask for their heights in chunks, replace NodeHeightStats | `DataBase`, REST of the nodes |
| Geolocation monitor (`GeolocationMonitor.ts`, `HostInfo.ts`, `MemoryCache.ts`) | `nodesHostDetail`, memory cache with an index by host | look up every host, insert new details, refresh the cache, in the loop and once on construction | `DataBase`, ip-api.com; the node monitor reads the index |
| Routes (`routes/index.ts`) | none | reads of the collections with filters | `DataBase` |
| Configuration, start-up, logging | configured values | `verifyConfig`, `App.start` | |

What is hard, and what each part has to get right (PROJECT.json lists every
hazard with its line):

- **Node monitor.**  Nodes come from three sources with different knowledge of
  them: the collection (with statuses and dates), gossip (with neither) and
  probes.  A node is forgotten when it was unavailable for
  `KEEP_STALE_NODES_FOR_HOURS`, so the date `lastAvailable` has to survive every
  merge, and no node may be stored without one.  The update deletes a collection
  and inserts it again; each of the two calls can fail half way, the process can
  die between any two, and a failed update is undone by a second update that can
  fail too.  A round in which the network is unknown must not store anything.
  Counters must not add up over rounds that start over.  Rounds must go on.
- **Time series.**  A call of `setData` that meets a slow database is overtaken
  by the next round's call.  The rollover takes three database calls and changes
  memory in between; a crash or a failure at each of them must lose and repeat as
  little as possible.
- **Chain height and geolocation monitors.**  They read the Node collection while
  it is being replaced, and may find it empty.  Heights are counted before the
  answer is known to be complete, in two histograms that must stay those of one
  round.  The geolocation monitor decides on an index that it refreshes only at the
  end of a loop, and a failure at one host must not keep it from the others.

### The C++ linter

`checkProjectStructure.py` walks the source directories of the server.  Every file
is read once line by line, by validators that are created once and fed the lines of
all files, and once token by token, by a parser of namespaces.  Reports are
collected and counted, and the exit code is their number.  A second part
(`DepsChecker.py`) derives from a configuration of direct rules, with defines and
wildcards, what each component may include.

| Part | State | Operations |
|---|---|---|
| Validators (`validation.py`, `SimpleValidator.py`, `HeaderParser.py`) | what each remembers of earlier lines | `check` per line, `reset` and `finalize` per file |
| Forward declarations (`forwardsValidation.py`) | tree of namespaces, stack, declarations seen | collect, print in canonical order, compare |
| Namespaces (`Parser.py`, lexer `cppLexer.py`) | stack of names, stack of handlers, namespaces found | one handler per state of a pushdown automaton |
| Files, includes, report (`checkProjectStructure.py`) | reports by group, namespaces found, number of failures | walk, order of includes, namespace verdict, printers, exit code |
| Include dependencies (`DepsChecker.py`) | direct rules, derived rules, patterns | parse, expand defines, `process_rules`, `match` |
| Tables (`Rules.py`, `exclusions.py`) | none | paths to names |

Hard: memory that outlives its file; a report that comes with a replacement text,
which must itself be accepted; a classification of declarations that hangs on what
earlier tokens left on a stack; an order of includes made of a chain of tests that
has to be a total preorder; a fixed point that must end on cyclic input; many kinds of
failure that have to reach one exit code.

### The build jobs

Jenkins (`jenkins/bitxorcore/jenkins`) starts jobs on agents whose workspace is
kept from job to job.  A job pulls a base image, lints, builds the server in a container,
assembles an image from the output, pushes it, and starts the test runner in the image.

| Part | State | Operations |
|---|---|---|
| Base images (`baseImageDockerfileGenerator.py`, `dependency_flags.py`) | images in the registry | one job per configuration builds and pushes layer on layer |
| Build and image (`runDockerBuild.py`, `runDockerBuildInnerBuild.py`, `runDockerBuildInnerPrepare.py`) | output directories, cid files, images | prepare, build, copy, commit, push |
| Linters (`runDockerTestsInnerLint.py`) | log files | one run per linter |
| Test runner (`runDockerTestsInnerTest.py`, `runDockerTests.py`) | failed suites, result files, core files, sanitizer logs | prepare, run each suite, handle cores, convert the logs |
| Sanitizer logs (`sanParser.py`) | state of the parser | `push` per line |

Hard: a suite that exits with 0 after a sanitizer error, that crashes or leaves half a
log; jobs that are cut off and leave their output behind; names of images that jobs in
parallel must not share by accident.

`dist/` is the compiled output of the service; `openapi/` and `client/` describe and
generate its API.

## 2. The modules

The service:

| Module | Models | Role |
|---|---|---|
| `NodeRules` | pure rules of `NodeMonitor.ts`, `NodesStats.ts`, `utils.ts` | constants and operators, no state |
| `NodeMonitor` | `NodeMonitor.ts`, `DataBase.updateCollection` | the task as a state machine, its properties |
| `NodeMonitorInv` | | the inductive invariant of `NodeMonitor` |
| `MCNodeMonitor` | | symmetry for TLC; statements of the documentation that the code does not meet |
| `HostProbe` | `ApiNodeService.ts`, `PeerNodeService.ts`, `Http.ts`, `getNodeInfo` of `NodeMonitor.ts` | the probes of a chunk, request by request; what `NodeRules` says of their results is shown of it |
| `NodePublisher` | | abstract: what the other monitors may expect of the Node collection; `NodeMonitor` implements it |
| `ChainHeightMonitor` | `ChainHeightMonitor.ts`, `DataBase.updateCollection` | its loop over the collection of `NodePublisher` |
| `GeolocationMonitor` | `GeolocationMonitor.ts`, `HostInfo.ts`, `MemoryCache.ts` | its loop over the same collection |
| `Monitors` | `app.ts` | the composition, its failures, restarts and fairness |
| `TimeSeries` | `TimeSeriesService.ts` | the time series as a state machine, its properties, its inductive invariant |
| `NodeMonitorProofs`, `HostProbeProofs`, `MonitorsProofs`, `TimeSeriesProofs` | | lemmas and theorems |

The C++ linter:

| Module | Models | Role |
|---|---|---|
| `DependencyClosure` | | abstract: closure of the direct rules, or a loop reported |
| `DepsChecker` | `DepsChecker.py` | the derivation as a state machine, its inductive invariant; implements `DependencyClosure` |
| `DepsCheckerProofs` | | its theorems |
| `LineValidators` | `validation.py` | validators as one step per line and one at the end of a file |
| `HeaderParser` | `HeaderParser.py` | blank lines, includes and indents of a file |
| `ForwardsValidator` | `forwardsValidation.py` | collection and canonical text of forward declarations |
| `NamespacesParser` | `Parser.py` | the pushdown automaton over tokens |
| `NamespaceText` | | abstract: texts as pieces that open, close and declare, and which namespaces they have |
| `IncludeOrder` | `checkProjectStructure.py` (the order of includes) | comparisons, sorting, the proper order |
| `CheckProject` | `checkProjectStructure.py` | the whole run, its properties |
| `NamespaceProofs` | | lemmas and the theorem about the parser and the texts it reads; induction over numbers |
| `CheckProjectProofs` | | lemmas and theorems about the run and the modules it is made of |

The build jobs:

| Module | Models | Role |
|---|---|---|
| `TestSession` | | abstract: suites run, each is judged by what it did, the session fails iff a suite did |
| `SanParser` | `sanParser.py` | parser of the sanitizer logs, a function of the lines pushed; the format of the logs |
| `Tables` | | what is kept under a key (`Store`, `Over`); the linter uses it too |
| `TestRunner` | `runDockerTestsInnerTest.py` | the runner; implements `TestSession` |
| `BaseImages` | `baseImageDockerfileGenerator.py`, `dependency_flags.py`, the base image job | layers, their names and contents, jobs in parallel |
| `ProjectJob` | the job scripts and `runDocker*.py` | jobs in one workspace; composes `TestRunner` and `BaseImages` |
| `ProjectJobProofs` | | lemmas and theorems, those of `SanParser` and `TestRunner` too |

`MCHostProbe`, `MCDepsChecker`, `MCCheckProject`, `MCProjectJob` and `MCMonitors` hold the instances.

The node monitor and the time series share no variable: the call of `setData` at
the start of `updateCollection` reads the counts and is not awaited, so that any
number of calls may be made at any time, and `TimeSeries` allows just that.  The
linter is a program of its own, which a job runs; in `ProjectJob` it is a step that
succeeds or fails.

### Nodes and lists (`NodeRules`)

A list of nodes is a function from the public keys to nodes or `NoNode`.  That is
faithful because every list and the collection hold at most one entry per key:
`addNodesToList` looks the key up, a probe that answers with another key drops
the node.  The order of a list decides only which nodes share a chunk; `Chunks`
allows every grouping that keeps full chunks first.  Of a node the rules look at
its role number, its network (identifier and hash seed as one value), its port
(in range or not), the `isAvailable` of its two statuses, or none if it was not
probed yet, and `lastAvailable`, kept as its *age* in ticks of the clock.  Only
"older than the time to keep" matters, so ages stop growing at `Keep + 1`; a
missing date is `Never`.

`addNodesToList` is a point-wise merge.  A batch with several entries of a key is
covered by the batch with the last of them, since an entry that is replaced leaves
only a date that it could have had itself.  An entry that `validateNodeModel`
rejects is left out of the batch.  `getNodeInfo` is the set of results a probe
can have: the TCP probe and the API fail independently, `/node/info` can change
role and port, an answer of another node or network gives `NoNode`, and a port out
of range makes the TCP probe throw before the API is asked.

### The task (`NodeMonitor`)

The variables `nodeList`, `nodeInfoList`, `nodesStats` and `network` are the
fields of the class; `nodes` and `stats` are the collections; `prevNodes` is the
local of `updateCollection`; `phase` and `stage` say at which `await` the round
stands; `todo` is what the current loop has left.  `before`, `dropped` and
`asked` are history variables that only properties read.  `gone` holds the nodes
that have left for good: they answer nothing and nobody announces them.

| Action | Code |
|---|---|
| `NetworkFound`, `NetworkNotFound` | `fetchAndSetNetworkInfo` |
| `ReadNodeList`, `FetchConfigPeers`, `BeginCrawl`, `CrawlChunk` | `getNodeList`, `fetchAndAddNodeListPeers` |
| `BeginInfo`, `InfoChunkDone`, `CountNodes` | `getNodeListInfo`, `getNodeInfo` |
| `BeginUpdate`, `ReadPrevNodeList` | `updateCollection` up to the first write |
| `StoreFind`, `StoreDelete`, `StoreInsert`, `StoreVerify` | the awaits of `DataBase.updateCollection`, run for the nodes, the stats, or the nodes to restore |
| `WebSocketHangs` | `checkWebSocketHealth` of a probe in the chunk is never settled |
| `CacheCollection`, `Timer` | the end of `start` |
| `ReadFails`, `StoreFails`, `RestoreFails` | a database call that rejects: the catch of `start`, the catch of `updateCollection`, and a failure inside the latter |
| `Crash` | the process dies and starts again: collections stay, everything else is initial |
| `Tick`, `Leave` | time passes; a node leaves |

A failed `deleteMany` or `insertMany` leaves any subset of its effect.  The
requests of a chunk run concurrently in the code and are one step here: they
touch no shared state until `Promise.all` has all of them.  What this step takes them
to return is shown by the next module.  They need not return at all: `WebSocketHangs` takes
the task to the phase `hung`, from any chunk with an API node that has not left, and only a
restart leads out of it.

### The probes of a chunk (`HostProbe`)

For each node of the chunk, `node` is `nodeWithInfo`, `at` the request its probe waits
for, `apiStatus` the status in the making, `open` what is left of `Promise.all` in
`getStatus`.  `TcpProbe`, `buildHostUrl`, `RequestNodeInfo`, `RequestChainInfo`,
`RequestSettles`, `AllSettled` and `checkWebSocketHealth` are the requests in the order of
the code, `Return` the end of `getStatus`, `ChunkDone` the `Promise.all` of
`getNodeListInfo`.  A probe starts with a copy of the node, the statuses of an earlier round
included (`NodeMonitor.ts:186`): `former` is the `apiStatus` among them, which can be any that
`getStatus` returns and that agrees with what the node monitor keeps of it (`LeftWith`).

Each request has one disjunct for its answer and one for its error or timer, which the code
does not tell apart: `Http.ts` settles on whichever is first, and the callers catch both.  Three details are as in the code: a port out of range ends the
probe before the API is asked; an answer of `/chain/info` without a finalized block makes
`getStatus` throw, and its catch returns a status without health and without
`isHttpsEnabled`; a WebSocket over TLS is tried only if HTTPS answered, and the plain one
after it.  `answers` says whether the host answers at all, the parameter that the node
monitor gives to `getNodeInfo` of `NodeRules`; `heard` is a history variable.
`WebSocketHangs` is the one end of a request that is none: a host takes the connection and
never answers the upgrade, and no timer ends the wait.

### The other monitors (`NodePublisher`, `ChainHeightMonitor`, `GeolocationMonitor`, `Monitors`)

`NodePublisher` is the Node collection as a reader sees it: an update begins, takes
the documents away, puts a list there, ends; a call that fails leaves a part.
`NodeMonitor` is shown to implement it (`RefinesNodePublisher`, and
`PublisherRefinement` for all constants): `published` is the set of stored nodes,
`writing` is the phase of the update.  The other two monitors are therefore checked
against everything that the node monitor may do to them, in a few states instead of
its hundreds of thousands.

Chain height monitor: `chainPhase` says at which `await` the loop stands, `left` the API nodes
still to be asked, `heights` and `finalizedHeights` are the histograms of the class,
`heightStats` the collection.  `getNodeList`, `getNodeChainHeight` (a chunk),
`updateCollection`, `FindStats`, `DeleteStats`, `InsertStats`, `VerifyStats`, `NextRound` and
`StartOver` are the steps; `getNodeListFails` and `UpdateFails` the rejections.  The
histograms are emptied at the start of each loop, `finalizedHeights` too.  An answer without
`latestFinalizedBlock` counts in the first histogram only, as in the code.

Geolocation monitor: `index` is what `MemoryCache` holds by host, `hostDetails` the
documents per host (a sequence of one at most, since the collection has a unique key, as
`Inserted` says), `hostNodes`, `host` and `hostDetail` the locals.
`ReadNodes`, `getHostDetail`, `Reply`, `LookupFails`, `addToCollection`, `InsertFails`,
`LoopDone`, `CacheFind`, `CacheSet`, `NextLoop` are the loop; `EarlyFind` and `EarlySet` are
the refresh that the constructor starts without waiting for it, so that it may end in
the middle of a loop.

`Monitors` composes the three.  Each of the two monitors writes only what the other never
reads, so a behaviour has one of them (or both): `cast` says which, and the two can be
checked separately without losing an interleaving that matters.

### The time series (`TimeSeries`)

Each call of `setData` is identified by its sample, and `pc` says where it
stands, so any number of calls can be under way (bounded by `MaxInFlight`).  An
aggregate is the set of samples it averages together with its date.  A `deleteMany`
that fails leaves any subsequence of the day.

The code gives no guarantee for everything.  `setData` is not awaited, so that a slow call
meets the next one: of two rollovers under way both average what is in memory, a rollover
clears samples that another call has just stored, and calls on both sides of midnight put two
days together.  The properties name the samples that this can happen to, one by one, and hold
of all others, also while calls overlap.  History variables keep them:

- `overlapped`: the samples of calls that were under way together with the rollover of another
  call, or with a call of another day;
- `retaken`: the samples that were in memory when a call rolled over beside another rollover,
  and those that were in the day collection when a crash fell between saving an aggregate and
  clearing the day;
- `unsaved`: the samples of an aggregate that could not be saved.

Each was found to be necessary: without it the corresponding property is violated.  Of the
excepted samples nothing is promised, and TLC finds them lost, doubled and misdated.

### The dependency checker (`DependencyClosure`, `DepsChecker`)

A name of a rule is a word or a define; a word matches the directories that
`Covers` gives it.  `Init` takes every subset of `Lines`; `ExpandDefines` is
`process_defines` with its limit on nesting; `PickName`, `add_rule`, `NameDone`,
`LoopDetected` and `PatternsCreated` are the loop of `process_rules`;
`match` judges an include.  The variables have the names of the attributes,
and `left` is what the inner loop has still to add.

### The linter (`CheckProject` and the modules it extends)

| Action | Code |
|---|---|
| `NextFile`, `ReadLine`, `FileRead` | the first reading: `parse_file`'s loop over the lines, the validators' `check` and `finalize`, forward declarations, includes |
| `ParseLine`, `FileParsed` | the second reading: tokens into the parser, the shortest namespace |
| `WalkDone` | all files are read |
| `PrintFormatting`, `PrintNamespaces`, `PrintTemplateErrors`, `PrintDependencies` | the printers, which count |
| `Exit` | the exit code, modulo 256 |

A line is the set of marks that regular expressions look for, an indent, and its
tokens.  `twin` is a second set of validators that starts anew with each file:
where it reports something else, the line goes to `carried`, and
`CarryOverReachesOneLine` says where that can be.

### The jobs (`TestRunner`, `ProjectJob`, `BaseImages`)

`ProjectJob` has one action per stage of a job, named after the function or the stage
(`StartJob`, `PullDependencies`, `run_cpp_linters`, `LinterRun`, `PrepareOutput`,
`_prepare_directory`, `BuildStep`, `PrepareContainer`, `Commit`, `PushImage`,
`RunDockerTests`, `RunBench`, `TestsEnd`, `Post`, `EndRelease`); the commands in them may fail, and
`AgentDies` cuts a job off anywhere.  A linter that finds something does not fail; one that is
not there, whose output is not text, whose log cannot be rewritten or whose container dies ends
the stage with its log replaced or not (`LinterRun`).

`TestRunner` has the steps of the program in the container:
`prepare_tests`, `dispatch_test_subprocess`, `handle_core_file`, `process_sanitizer_log`,
`LogsDone`, `ExitRunner`.  `did` is what a suite did, in truth, and only properties
read it.  What is in an image is told by who built each part and in which base image.

## 3. The runs

| Run | Instance | Shows |
|---|---|---|
| `node_monitor_safety` | two nodes, roles 2 and 4, `Keep = 0`, two probes per chunk, two networks to find, two failures or crashes, symmetric keys | all safety properties of `NodeMonitor`, and that it implements `NodePublisher` |
| `node_monitor_liveness` | one node that may leave, roles 1, 3 and 4, `Keep = 1`, both kinds of ports, two config nodes, one failure | the inductive invariant, `RoundsRecur`, `DepartedNodesAreForgotten` |
| `host_probe` | two nodes, the first of any kind (roles 1 to 4, a port out of range, with or without the status of an earlier round), the second a peer node or silent | a probe's results, the status that is served, and what can keep a chunk |
| `node_monitor_crawl`, `_window`, `_ports`, `host_probe_timeout` | as small as the disagreement needs | section 5 |
| `service` | two API nodes and a peer node on two hosts, two heights, chunks of one, a published list with and without one of the API nodes, two faults with the heights, one with the hosts | the chain height and the geolocation monitor beside a node monitor that replaces the nodes under them |
| `time_series` | four samples, three days, two calls at a time, two failures or crashes | the inductive invariant, the safety properties, `SetDataFinishes` |
| `lint_deps` | every subset of eight rules over three words and a define that may hold itself | derivation, termination and verdicts of `DepsChecker` |
| `lint` | families of small projects, one for each part of the linter | the properties of `CheckProject` |
| `ci` | seven plans: base image jobs in parallel, two suites with every mix of outcomes, jobs one after the other | the properties of the jobs, and that the runner implements `TestSession` |

Properties of the node monitor:

- `StoredNodesAreDated`: no node is ever stored without `lastAvailable`.
- `LengthCheckPasses`: the comparison at the end of `updateCollection` always
  finds the documents it inserted, so the reinsertion of the previous documents,
  which would add to what is there, never runs for this task.
- `EachNodeCountedOnce`: the counts handed on are those of the nodes probed.
- `UpdateAllOrNothing`: a round that gets to its end has replaced the collection
  or left it as it found it, with failures at every await.
- `FreshNodesStay`, `UnavailableNodesKeepTheirDate`: from the first read of a
  round to its write, a node within its time is not lost and an unavailable one
  is not renewed, whatever is announced.
- `OutageKeepsTheCollection`: while the network is unknown nothing is stored.
- `RefinesNodePublisher`: the collection changes as `NodePublisher` says.
- `RoundsRecur`, `DepartedNodesAreForgotten`: rounds are completed again and again, and a node
  that has left is forgotten, whatever failed before; unless the check of a WebSocket keeps a
  round for ever (`KeptByAWebSocket`), which stops both.  See section 4.

Properties of the probes:

- `ProbesReturnAsExpected`: however its requests fail, and in whatever order they settle, a
  probe ends with one of the results that the node monitor is modelled with.
- `StatusTellsWhatAnswered`: where the API was probed, what the routes serve as a node with
  SSL answered over HTTPS and opened a WebSocket over TLS, and what they suggest told its height
  and its health, in the same probe.  Where it was not probed, since the TCP probe threw or the
  role is no API role any more, the node is served by the status that an earlier round has left
  with it, whatever it would answer now.
- `SilentHostsDoNotKeepAChunk`: hosts that are silent, late or answer nonsense do not keep a
  chunk; it ends unless the check of a WebSocket hangs.

Properties of the other monitors:

- `HeightStatsAreOfOneRound`: a stored pair of histograms counts each API node that
  answered in one round once, in both or (without a finalized block) in the first.
- `StatsGiveWayToOthersOnly`: a round that reads an empty collection, or gets no
  answer, leaves the stored histograms alone.
- `RoundsStoreHeights`: if the node monitor's list is there again and again and the
  failures stop, histograms are stored again and again, whatever was lost before.
- `IndexedHostsAreStored`: the index may lag behind the collection, but holds no detail that
  the collection does not, so that no host is passed over that has no document.
- `HostsGetTheirDocument`: a host that stays among the nodes gets its document in
  the end and is in the index for good, also if another one can never be located, and although
  the refresh that the constructor starts may set the index back.

Properties of the time series: `CollectsOneDay`, `StoredSamplesSurvive`,
`NoSampleCountedTwice`, `AggregatesAreDated`, of all samples but those that section 2 excepts, and
`SetDataFinishes`.

Properties of the linter:

- `DerivesTheClosure`, `VerdictsFollowTheConfiguration`, `ConstructorEnds`: the checker
  implements the closure; an include passes exactly if a chain of configured rules leads to
  it; the constructor returns on every configuration, cyclic ones included.
- `RegionsAreJudged`: a file has region reports iff its regions are not properly paired.
- `CarryOverReachesOneLine`: what validators remember of the file before can change the
  verdict on the first line only, two known validators excepted.
- `SuggestionIsAccepted`: the order of forward declarations a report asks for passes, where
  the last namespace at the root starts a line of its own and holds no declarations. The first
  condition is needed: after a line such as `} namespace b {`, which both closes a namespace
  and opens one, the text asked for cannot be put in place of whole lines.
- `NamespacesAreFound`: what a file declares is what the parser finds, and the namespace that
  the linter then goes by is the outermost one that declares something.
- `IncludesHaveOneOrder`: the proper order does not depend on the order found, and passes.
- `ExitTellsTheVerdict`: exit code 0 iff nothing was found.

Properties of the jobs:

- `RefinesTestSession`: the runner judges each suite by what it did, and fails iff one failed.
- `BaseImagesAreTheirOwn`: an image in the registry holds what the configuration it
  is named after asks for, with jobs pushing in parallel.
- `ImagesAreComplete`: no part of another build gets into a committed image.
- `SuccessMeansClean`: a job that ended in success ran all suites of its own
  image and none failed or left a complete sanitizer error.  A suite that exits with 0 and
  whose log is cut off within its first error passes for clean.
- `EveryLinterReports`: a job gets past its linters only with the logs of all four, its own;
  one that ended on its way through them has its own logs of a first part of them, and perhaps
  logs that an earlier job left of the others.

Bounds.  `Keep = 1` gives the ages 0 (fresh), 1 (at the boundary), 2 (stale) and
none; larger values add ages that behave like 0 or 1.  The largest run uses
`Keep = 0`, where a node is at the boundary at once and stale after a tick; a
node below the boundary is treated there as one at it.  The rules are per node, so one
or two nodes show every interference there is: two nodes are needed for partial
deletes and inserts and for chunks.  Role 2 stands for the nodes probed over the
API only (2, 6), 1 for those probed over TCP only (1, 5), 3 for both (3, 7) and 4
for those never probed.  Two networks let a node belong to another one, and let
the config nodes change theirs between rounds (in `node_monitor_safety`; a network that
changes for ever is no network in which nodes can be expected to be forgotten, so the
liveness run has one).  Two faults let a restore
fail after the update failed, and a crash follow a failure.  In `service` the heights have
two faults for the same reason; one is enough for the hosts, whose properties speak of
a single document and are not restored by a second step.

In `host_probe` the second node has few states, which is enough to see a probe wait for
another; probes share nothing else, and the theorems are for any number.

In `TimeSeries`, three days and four samples give two rollovers with two samples
before one of them.  In `DepsChecker` eight rules over three words give chains, loops of
one, two and three names, a define of itself, and a wildcard that covers what another
word names; `NestingLimit = 5` is the code's.  In `CheckProject`, `BlockLimit = 5` and
`CopyrightLines = 1` shorten a block and a header that the code wants longer; all files
are sequences of a few lines out of the marks that the part in question looks at.  In
`ProjectJob`, two suites are enough to tell one's files from another's; six outcomes cover
failing, crashing, a log that ends, is cut off or is garbled, with one error or two.

The time series, the dependency checker, the linter and the jobs stop when their work
is done, hence their runs do not check deadlock, or have a step for being at the end;
the monitors never stop, and their runs check deadlock.

## 4. Fairness

`FairSpec` of `NodeMonitor` assumes that the task keeps running (weak fairness of
its steps taken together: Node.js runs a continuation that is ready, every
request, TCP probe and database call settles, timers fire), that time passes, and
that of infinitely many rounds some find a config node that answers (strong
fairness of `NetworkFound`; otherwise no node is ever accepted and, by
`OutageKeepsTheCollection`, nothing is ever forgotten).  It does not assume that every probe
settles: the check of a WebSocket has no timer, `WebSocketHangs` may happen in any chunk with an
API node, and from there on no step of the task is enabled, so that fairness asks for none.
The liveness properties therefore say "or a round is kept for ever" (`KeptByAWebSocket`); that
this does happen is the run `host_probe_timeout`.  Failures and crashes are bounded,
not fair: the properties say what holds once they stop.

`FairSpec` of `HostProbe` is weak fairness, per node, of what is settled by an answer, an
error or a timer: the requests over HTTP, for which `Http.ts` sets a timer of its own, and the
TCP probe, which the library gives up.  For `checkWebSocketHealth`, which waits for `open` or
`error` and sets no timer, it says only that the wait ends in one of these or hangs: there is no
fairness that leads out of `hung`.

`FairSpec` of `Monitors` assumes weak fairness of each loop and of the refresh that the
constructor starts, and that the locating service, asked for a host for ever, answers for it
at some time (strong fairness, per host).  Nothing is assumed of the node monitor: the
properties have "the nodes are there again and again" as an antecedent where they need it.

`FairSpec` of `TimeSeries` assumes that each call's database operations are
answered; a failed one is repeated by the code itself, and failures are bounded.

`FairSpec` of `DepsChecker` is weak fairness of the constructor, which runs in one thread and
waits for nothing.  The linter and the jobs have safety properties only.

## 5. Disagreements with the documentation

Each is a run that checks what is documented and finds it violated.

- `CrawlIsRecursive`.  `README.md` says that peers are explored recursively.  A
  round asks the API nodes it knew before the crawl, once.
- `KnownNodesAreServed`.  `openapi.yml` says that a 404 means that there is no
  such node.  During an update the collection is empty for a moment.
- `WebSocketChecksTimeOut`.  The comment on `checkWebSocketHealth`
  (`ApiNodeService.ts:216`) says "@param timeout - default 1000".  The value is passed to the
  library as an option that it does not know (its own is `handshakeTimeout`), and the promise is
  settled by `open` and `error` alone: a host that takes the connection and never answers the
  upgrade keeps the probe, its chunk and the round for ever.
- `AvailableNodesAnswer`.  `openapi.yml` says that `isAvailable` of a peer status
  tells whether the node is reachable and answering.  If the port of a stored
  dual node cannot be probed, its statuses are never updated again, and after it
  has left it is shown as available, with a new `lastAvailable`, for ever.

## 6. The proofs

All theorems are proved from the named assumptions on the constants and nothing else.

**Node monitor** (`NodeMonitorProofs`).  For all finite sets of keys, all role
numbers, networks and ports, all times to keep, chunk sizes and numbers of
failures, `Spec` implies each safety property that `node_monitor_safety` checks
(`TypeCorrect`, `DatedAlways`, `LengthsAlwaysAgree`, `AllOrNothing`,
`CountedOnce`, `FreshStay`, `DatesKept`, `OutageSafe`, `PublisherRefinement`).

None of the properties is inductive: at the step that a property speaks of, it
depends on what all earlier phases of the round did.  The inductive invariant
`Inv` of `NodeMonitorInv` says what is carried from phase to phase:

- `TodoOK`: loops run over nodes that are listed;
- `DatesInv`: stored nodes are dated, and in the lists of a round only nodes that
  are never probed may be undated;
- `StoreInv`: a collection is empty between delete and insert, and is the
  documents after it;
- `RoundInv`: until it is deleted, the collection is the one the round first
  read, and `prevNodes` is the same from the second read on, which makes the
  restore exact;
- `NetworkInv`: with the network unknown the lists are empty and no update runs;
- `CountInv`: lists and counts are empty until the phase that fills them;
- `CarriedInv`: a stored node of the network is listed with the date it is stored
  with, and after its probe is in the second list with that date or was dropped.

Each part has a lemma `Step...` with one step per action (or group of actions
that leave the part alone); `Invariance` puts them together.  Lemmas
before them say what the rules do to one node: `AddNodes` (a merge),
`Probes` (a probe), `RemoveStale` (dropping stale nodes), `AgedType` (a tick).
An announcement has no status and a stored node has a date, and `AddNodes` needs
just that (`Mergeable`) to conclude that no probed node stays undated.
`PublisherRefinement` uses `StoreInv`: an insertion finds the collection empty.

**Probes** (`HostProbeProofs`).  `ProbeInvariant`, `Probed`, `StatusIsHeard`, for any nodes,
roles, ports and statuses left by earlier rounds.  `NodeSoFar` says, for every stage of a probe,
which fields of the node may
differ from those it was started with, and by which values; `ToldSoFar` what must have
been heard for the status to become what it will be; `StatusSoFar` that until then it is the
former one, and that any status a probe ends with is one that the next may start with.  A step
concerns one probe (`Moves`) and leaves the
others alone (`Still`); `ProbedApi` and `ProbedPeer` show that what is left at the end is a
member of `getNodeInfo`, the set that the node monitor's step chooses from.

**Other monitors** (`MonitorsProofs`).  `HeightsOfOneRound`, `HeightsGiveWay` and
`IndexIsStored`, for every set of nodes, hosts and heights and every number of failures.
`AskingInv`: the histograms are those of the answers so far, which are of API nodes not
asked any more, so that a chunk adds to them without counting a node twice (`TallyAdds`).
`StoringInv`: an update runs with answers only, the collection holds the histograms of
the round stored last or nothing, and it is away between delete and insert, which makes the
length check pass.  `StoredInv`: what a refresh, of the loop or of the constructor, has read and
not yet put into the index is stored, and stays so, since documents of hosts are never removed.
Nothing is assumed of the nodes that are read.

**Time series** (`TimeSeriesProofs`).  `SeriesInvariant`, `OneDayCollected`,
`SamplesSurvive`, `CountedOnlyOnce`, `AggregatesDated`, for any number of samples, days,
calls under way and failures.  `KnownOnly`: only samples that were handed over are anywhere,
so the next one is new.  `Meetings`: calls of different days, and calls beside a rollover, are
overlapped; a call that is not is of the latest day there is, and if it rolls over it is alone.
`OneDay`: of the samples that are not overlapped, memory has what the database has or is about
to get, and all are of one day, which the samples before and after them in memory keep to
(`InOrder`); hence the first sample decides rightly that the day is over, and the last one gives
the date.  `RolloverHolds`: from the
moment that it is computed until the day is cleared, the aggregate (in the call, then in the
main collection, or given up) holds what the database has for the day but overlapped samples;
hence clearing loses no others.  `NotAggregated`: what is collected is in no aggregate unless it
was saved a moment ago or is retaken; hence the next aggregate repeats nothing else.  The
exceptions are samples, not states: while some calls overlap, the properties go on holding of
the samples of all others.

**Dependency checker** (`DepsCheckerProofs`).  `DerivationInvariant`,
`PublishedIsTheClosure`, `CheckerDerivesTheClosure`, `VerdictsAreTheConfigured`, for every
configuration, any nesting and any number of names.  The closure is the least set closed
under the rules, so no induction on paths is needed: `ReachByDependencies` says that the
closure of a name is its direct dependencies and their closures, which is what `add_rule`
puts together; `CyclesWait` says that a name on a cycle is never picked, so a loop is
reported exactly when there is one.  `VerdictsFollowTheConfiguration` speaks of chains of the
configured rules with their defines still in them.  `ExpansionIsConfigured` shows, level of
nesting by level (`LevelsFollow`), that a define never reaches more or less for having been
replaced by what it stands for; `JudgedInv` carries to the end that the patterns are those
chains.

**Linter** (`CheckProjectProofs`).  `CarryOverEndsAfterOneLine` (`CarryOverReachesOneLine`),
`RegionsAreJudgedByTheirFile` (`RegionsAreJudged`), `ExitCodeTellsTheVerdict`
(`ExitTellsTheVerdict`) and `IncludesAreOrderedOnce` (`IncludesHaveOneOrder`), for any number of
files, lines, tokens and includes.  `WalkInv` says where a run
stands, and each theorem has an invariant of its own:

- `TwinInv`: the validators and their twin, which is new for each file, agree on the fields
  that `reset` sets, and from the second line on also on the previous line.  `LinesAgree` shows
  that a step keeps both, and `ReportsAgree` that validators that agree report the same, but for
  the two (`validation.py:1233`, `1291`) whose fields are set neither per file nor per line;
- `RegionsInv`: while a file is read, the counter of the region validator is the number of
  regions opened less the number closed in the lines read (`DepthSteps`), its list of errors is
  empty exactly if that number has been 0 or 1 all along, the only report so far is that of a
  misspelt region, and no report of a file is made before the file is reached.  At the end of
  the file the three together are the verdict;
- `FoundInv`: what is reported is finite, so that counting it gives 0 only if there is
  nothing.  This goes through every handler of the two automata, which have to be shown to stay
  in the modes they know (`TokensAreTaken`, `LineIsParsed`);
- `EntriesInv`, `CountInv`: the entries are those of the files parsed, and `failures` is, printer
  by printer, the sum of what was to be printed so far (`NumbersAreAdded`); a sum of natural
  numbers is 0 only if all of them are (`SumIsZero`);
- `IncludesInv`: the includes found are includes of the lines of the file.  The chain of tests
  that compares two of them is a comparison of three numbers and then of the paths
  (`LessMeans`), hence a total order of includes that differ in delimiter or path
  (`IncludesAreOrdered`).  Inserting one after the other gives a list that rises and has the same
  elements (`SortRises`); in two such lists as many elements are up to any given one, so they
  are the same (`OneOrder`).  Putting the own header in front is one more rearrangement, and what
  `fix_relative` has shortened it leaves alone (`FixedOnce`): the proper order is its own.
  Python's sort is modelled by insertion; by `OneOrder` the algorithm does not matter where the
  comparison is a total order.

`ProjectsAssumption` says of the files what the code cannot produce otherwise: lists are lists;
a line has at most one mark of a region, since `//(.*)region` is searched once per line and
what stands before `region` is one text (`validation.py:893-931`); `FilteredReporter` filters two
groups, neither of them about regions (`checkProjectStructure.py:375-396`); the faults of a
line are those of the validators without a memory, none of which reports under the name of
one with a memory; and the exclusions are a list.  An include is a text: two with the same
delimiter and path are the same, and only behind a `<` are they looked at for libraries and
C headers (`checkProjectStructure.py:83-102`, `212`).  What an include in angle brackets is
would have to be asked again if its path were shortened; the model is of files whose own
directory is not that of a library they include.

**Namespaces** (`NamespaceProofs`, `CheckProjectProofs`).  `TextIsParsed`: every text of
`NamespaceText`, however long and however deep its namespaces, arguments and bodies are nested,
is read to its end, and what the parser has found is what the text declares.
`DeclaredNamespacesAreFound` (`NamespacesAreFound`) carries that to the run, for all files.

A text is a list of pieces: namespaces that open and close, `#include` and `#pragma`, classes and
enums, forward declarations, `using`, functions, variables and the macros and tests that look
like functions, each with an argument list of `template` if it has one.  A piece is made of
runs of tokens of which little is asked: brackets are balanced, and a run has no token that
would end it.  The grammar is not derived from the parser; it says what C++ must look like for
the parser to take it as what it is.  The argument goes from the tokens up:

- a run of tokens leaves the parser in its mode, however long it is and whatever is nested in
  it, since its stack of brackets is what `Nesting` counts;
- each part of a declaration is read from start to end, and what has been seen so far (a call,
  the first word, a template) is what the parser remembers;
- from `Ready`, the state in which the parser is between two pieces, a declaration is read back
  to `Ready` and adds its kinds to the open namespace (`DeclarationIsRead`); it neither opens
  nor closes one;
- `Recorded` says that the namespaces closed so far and those on the stack are together those
  opened by the pieces so far, each with the kinds declared in it, however often it was opened
  again.  By induction over the pieces it holds at the end, where the stack is empty.

In the run, `ParseInv` says that the parser has read just the tokens of the lines so far, and
that an entry once written is what was found in its file.  Of the namespaces that declare
something, the code takes one with the fewest parts, and asks whether the texts of the others
start with its text:
`PrefixMeans` and `ShortestEncloses` show that this is the enclosing one.  The proof
found the proviso: text is not namespaces, and where one namespace's text is the start of its
sibling's (`a` and `ab`) the code takes the first for an enclosing one
(`checkProjectStructure.py:491`).  `NamespacesAreFound` says what happens otherwise (`told`), and
the instance has such a file too.

What the grammar leaves out the parser takes for something else, as the proof showed: a
function declaration leaves `hadParens` set, so that a variable initialised with braces after it
is taken for a function, and the semicolon behind it ends the linter; `constexpr` functions with a default argument are counted as constants too;
functions that are defined as `default` or `delete` are not counted; of the names in
`namespace a::b {` only the last one is kept; and a forward declaration outside of any namespace
leaves its tokens behind for the next declaration (the comment at `Parser.py:525` takes the list
for empty).

**Sanitizer logs** (`ProjectJobProofs`).  `EveryCompleteErrorIsReported`: for logs with any
number of errors, from either sanitizer, cut off anywhere in an error or ending well, the
parser returns exactly the complete errors, with header, trace and name; only a log of the thread
sanitizer with a marker that no warning follows ends it.  The name is one that the pattern finds
in the line: it wants an address (` 0x`) in an error of undefined behaviour
(`sanParser.py:137`) and a path in a data race, and an error without one keeps "Invalid name".
`Nameless` are the errors whose lines it does not match, any set of them.

The lines of one error take the parser from its start marker
back to it and add that error (`AsanBlock`, `TsanBlock` and the lemmas after them), and the log grows by
such lines (`WrittenGrows`).

**Jobs** (`ProjectJobProofs`).  `BaseImagesHoldTheirLayers`
(`BaseImagesAreTheirOwn`), `CommittedImagesAreComplete` (`ImagesAreComplete`), `LintersReport`
(`EveryLinterReports`), `SuccessIsClean` (`SuccessMeansClean`) and `RunnerIsASession`
(`RefinesTestSession`), for every sequence of jobs, any suites, outcomes, linters and
configurations.  They rest on one invariant, `JobInv`:

- `StageInv`: which kinds of jobs reach which stage; before its post section a job has not
  failed;
- `SessionInv`, `RunnerInv`: the runner is at work in the test stage only; a suite is
  failed exactly if the runner has judged it so, and what has been converted of its logs are
  the results that `EveryCompleteErrorIsReported` tells;
- `RegistryInv`: an image under the name of a layer has the contents of that layer for the
  configuration it is named after, and each base image job has known layers left.  Jobs push in parallel
  and pull what others have pushed, so this needs names that tell layers and configurations
  apart.  A name is a sequence of tags with a varying number of sanitizers in the middle;
  that no two meet follows from the architecture being none of the layers' tags
  (`ConfigurationsAssumption`);
- `ProductInv`: what the directory, the container and the committed images hold, stage by
  stage, is the product of one build in its own base image, whatever job was cut off in
  the workspace before;
- `LintInv`: a first part of the linters have replaced their logs, those that the job got past
  and perhaps the one that failed, and all four have once the job is past them; the logs of the
  others are older;
- `TestedInv`: the image under test is the one the job committed, unless it was told to test
  another, and without a failure the runner succeeded.

The refinement follows from `RunnerInv`: what the runner keeps in files and lists is, suite by
suite, what `TestSession` keeps as a verdict.  Of outcomes it is assumed that a suite that
crashed has failed (`OutcomesAssumption`), of plans that they name existing jobs
(`JobPlansAssumption`, `BasePlansAssumption`).

**Counting.**  The induction theorems of the library take a predicate as a parameter, which
the provers cannot instantiate.  `CountingUp` states induction for a set of numbers instead, and
follows from the well-foundedness of their order (`WFMin`, which has no such parameter).  This is
how the lines of a log, its errors, the levels of nested defines, the tokens of a text and its
pieces are dealt with; recursion
in those modules is written as recursive functions of numbers.

## 7. What is only model-checked, what is not modelled

Only model-checked: the liveness properties (proofs of liveness under fairness
are out of the prover's reach), and one property of `CheckProject`, `SuggestionIsAccepted`: it
speaks of declarations that are sorted with their namespaces, printed and read again, and needs
an induction over nested data that is not carried out. Preparing it has shown the condition on
the last namespace at the root, which the property now states, and that comments after a
template have to be kept in the suggested text.

Three refinements are shown, each by a run and a theorem: `NodeMonitor` implements
`NodePublisher`, `DepsChecker` implements `DependencyClosure`, `TestRunner` implements
`TestSession`.

Not modelled in the service:

- friendly names, versions, host details of a node and the contents of statuses beyond
  `isAvailable`; the arithmetic of the average; a config node list that is empty or
  malformed (`verifyConfig` rejects it); peers that send dates or statuses in
  `/node/peers`; the entry `nodeList` of the memory cache (nothing reads it); more than
  one process on a database.
- Database access is modelled as far as the monitors use it.  The reinsertion branch
  of `updateCollection` is shown unreachable for them; a collection with several writers
  does not occur in the service.
- The total of the counts that goes into the time series.  `getTotal` (`NodesStats.ts:30`) adds
  up the roles 1 to 7, while `openapi.yml:193` calls it "Total number of nodes" and lists role
  numbers above 7 (64, 65, 128): a node with one of these is in its own count and not in the
  total.  That is read off the code; no behaviour has to be explored for it.
- Of the probes: versions, URLs and the texts of answers; the libraries for TCP and
  WebSockets, which are taken as the code uses them.
- The REST routes are reads with filters.  One is looked at through `KnownNodesAreServed`, two
  filters of another through `StatusTellsWhatAnswered`.
- Configuration, start-up, logger; `dist/`, `openapi/`, `client/`.

Not modelled in the linter: the tables of `Rules.py` and `exclusions.py` and the lexer, whose
answers are inputs; regular expressions, which are marks of a line; the validators without a
memory, which are faults of a line; texts, XML and the printer of dependencies; namespaces of
100 parts and more, of which the search for the shortest finds none
(`checkProjectStructure.py:489`).

Not modelled in the jobs: the installer of dependencies, the reading of configurations, dry
runs, the checkout, the texts of Dockerfiles, compose files and commands, compiler caches,
Docker itself, and a post section that fails because junit finds no results.

Hazards without a property, each with its note in PROJECT.json:

- `NodeMonitor.ts:177`: nodes are counted before stale ones are dropped.  Nothing says that
  the stored counts and the stored nodes agree.
- `NodeMonitor.ts:357`: a dead node that others go on announcing is dropped and dated anew
  for ever.  True of the code; `DepartedNodesAreForgotten` leaves such nodes out.
- `TimeSeriesService.ts:64`: a role missing in some samples is averaged over all.
- `utils.ts:78`: a chunk size between 0 and 1; the modules assume positive ones.
- `checkProjectStructure.py:918`: 256 failures exit with 0; stated below that number.
- `checkProjectStructure.py:491`: the shortest of several namespaces is the first one of a
  set, and a prefix of its text is taken for an enclosing namespace.
- `validation.py:1322`: angle brackets that are counted and never reset.

Seen while modelling the probes: no WebSocket that is opened to check it is ever closed, one
more connection per node and round.  Sockets are not in the module, since no part of the
repository says what becomes of them.

Seen while modelling the jobs, and in the modules as the code has it: a job with a
`TEST_IMAGE_LABEL` of its own tests the image of that label in the registry, not the one it
has built (`SuccessMeansClean` excepts it); core files are not removed, so that a suite that
fails later is given the core of an earlier one; a coverage build leaves `_build` in the
source directory, and the next one in that workspace fails.

## 8. Plan

Left, most important first:

1. `NodeCatalog`: what the node monitor promises of the nodes it knows, a set of
   known nodes with dates that rounds refresh and forget, and `NodeMonitor` shown to
   implement it by a refinement mapping that hides the phases.
2. The remaining filters of `/nodes`, read against the documentation.
3. The dependency installer and the reading of configurations, as inputs of `ProjectJob`.
4. `SuggestionIsAccepted`: the proof that sorting has one outcome (`OneOrder`) carries over to
   forward declarations; what is missing is that the printed text is read as it was meant.
