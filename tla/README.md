# A verification project for TTA

TTA (Therapeutic Text Adventure) is a text game whose player writes a line and
gets back a page of story written by a language model. It is a FastAPI service
over PostgreSQL (players, games, turns), Redis (session cache, event buffers, turn
results, rate limits) and Neo4j (the world of a game), with calls to an LLM
provider behind a semaphore and a circuit breaker. All paths below are relative
to `src/src/tta/` unless they start with `specs/`, `plans/` or `migrations/`.

This directory holds TLA+ models of the parts of the service where processes
interleave: the modules, the configurations that check them with TLC, and proofs
that TLAPS checks. `PROJECT.json` lists the runs, which source lines every
definition stands for, a mutant for every property (a plausible mistake in the
code under which the property fails), the hazards, and the theorems.

## 1. Inventory

### 1.1 The life of a turn

    client --POST /games/{id}/turns--> submit_turn --insert row--> turns (Postgres)
                                          |
                                          +--create_task--> dispatch_pipeline
                                                              run_pipeline: understand, context,
                                                                generate, deliver
                                                                  |  every LLM call:
                                                                  |  guarded_llm_call = LLMSemaphore
                                                                  |    ( CircuitBreaker ( provider ) )
                                                              save the turn, count it,
                                                              apply world changes (Neo4j),
                                                              publish (TurnResultStore, Redis)
                                                                  |
    client --GET /games/{id}/stream--> event_stream <--wait_for_result
                                          |
                                          +--_emit--> SseEventBuffer (Redis) --replay--> client

Handlers, tasks, streams and the lifecycle pass run concurrently in one event
loop per worker, and any number of workers share the three databases. What one
of them has read may be stale after its next `await`.

### 1.2 Components

| component | state | operations | hard | what makes it correct |
|---|---|---|---|---|
| game sessions and turns (`api/routes/games_*.py`, `persistence/postgres_turn.py`) | rows of `game_sessions` and `turns`, an advisory lock per game | submit, /end, resume, patch, delete, save; recovery of `turn_count` | handlers read a row unlocked and write it by id later; double submissions; stuck turns; retries by idempotency key | one turn in flight, gapless numbers, one turn per key, counter = terminal turns, limits on games |
| turn task (`pipeline/orchestrator.py`, `dispatch_pipeline`) | the row of its turn | run the pipeline, save, mark moderated, count or flag, apply world changes, publish | several transactions, each may fail; a restart kills the task | a turn leaves `processing`; a running turn is not failed by others |
| turn pipeline (`pipeline/stages/`, `moderation/`, `privacy/cost.py`) | the TurnState passed along, the cost of the session | four stages, moderation of input and output, model calls under two cost caps | a stage fails, is cut by its timeout or skipped; costs are billed late | blocked text leaves no trace, what is told is what is stored, overshoot bounded |
| model calls (`llm/litellm_client.py`, `llm/provider_utilization.py`) | the utilization of the providers | tries, tiers, cascade | three nested loops over an order that other calls change | nothing is left untried before the last resort |
| lifecycle pass (`lifecycle/cleanup.py`) | status of games and players | abandon, expire, pause, delete anonymous players | acts on a counter that lags behind | the counter and the turns differ by what is under way |
| circuit breaker (`resilience/circuit_breaker.py`) | state, failure window, cooldown, probe flag | enter, exit with or without a failure | calls outlive state changes | never stuck half-open, who may decide it, probes a cooldown apart, backoff |
| LLM semaphore (`llm/semaphore.py`) | permits, FIFO of waiters, counters | execute | timeouts race with grants | permits conserved, bounded FIFO queue, no lost wake-up |
| guarded calls (`pipeline/llm_guard.py`) | – (composition) | `guarded_llm_call` | a refusal while holding a permit; timeouts inside and outside the breaker | permits given back, queueing never trips the breaker, outages drain the queue |
| admission control (`llm/rate_limiter.py`) | per tier a semaphore, a FIFO, a counter | admit, queue, drop, expire, release | slot handed to a waiter that expires or is cancelled | cap, FIFO, exact queue |
| turn results (`api/turn_results.py`) | Redis keys with a TTL, pub/sub channels | publish, wait_for_result | SUBSCRIBE/GET against SET/PUBLISH; lost messages | both orderings deliver |
| turn stream (`api/routes/games_stream.py`, `transport/sse.py`) | per connection: the turn it waits for, deadline | connect, replay, heartbeat, narrate, end, time out | reconnects, several tabs, the next turn starting | the outcome of the latest turn reaches every tab |
| SSE buffer (`api/sse.py`) | sorted set and counter in Redis | next id, append, trim, replay | commands of several streams interleave; streams die half-way | a hit is complete, ids unique, newest kept |
| authentication, players (`api/routes/auth.py`, `players.py`, `auth/`) | players, sessions, refresh tokens, deny-list, login counters | register, login, refresh, logout, upgrade, suspend | two refreshes with one token; logins past one counter | one live refresh token per session, bounded guesses |
| erasure (`players.py`, `privacy/purge.py`, `jobs/jobs.py`, `admin_games.py`) | what seven stores keep of a player's games | delete, scrub, purge, erase, terminate, audit | turns, creations and summaries under way write back | what is scrubbed stays away, live games are not purged, deleted ones are |
| rate limits and anti-abuse (`resilience/`, `api/middleware.py`) | windows, violations, cooldowns in Redis | check, record, block, unblock | counts that overlap, requests aborted halfway | limit per window, no block missed |
| genesis (`genesis/`, `create_game`) | the game's row, its world in Neo4j, the dialogue's state | create, enrich, build, introduce; advance by phases | budgets and removals halfway, overlapping calls that write whole states | what is said is what is there; states a dialogue can reach |
| world (`world/`, `pipeline/world_changes.py`) | graph, relationships | validate and apply the changes of a turn | two turns' batches interleave | the player is somewhere, items too; relations are the sum of their changes |
| world templates (`world/template_*.py`) | registry | load, validate, select, build | whatever is written in a file | every place reachable, one way per direction |
| choices and consequences (`choices/`) | chains of consequences | create, evaluate, reveal, prune | late tasks of earlier turns | what is over stays over, the important kept |
| simulation (`simulation/`) | memories, gossip, routines, the clock | record, compress, tell, tick, propagate | late compressions, repeated ticks, deferred characters | nothing lost, nothing twice |
| universe (`universe/`) | status, config, character states | transitions, patch, seed, upsert | transactions of several callers | as one after the other |
| prompts (`prompts/`, `admin_prompts.py`) | files, versions and labels in Langfuse, a cache per server | load, seed, render, activate, preview | several servers, hyphens in names, calls that break off | the cache is stale only for a reason |
| clients (`playtest/`, `eval/`, `quality/`, `scripts/sim_runner.py`) | sessions, reports, verdicts | play, rate, retry, judge | timeouts and shared games: whose turn is this? | reports what was played |
| wiring, observability, test doubles, seeds, routing | – | start-up, reporting, static data | – | – |

`PROJECT.json` has every component with its files, its status and what of it is
left out.

## 2. Plan

### 2.1 Modules

| module | what it is |
|---|---|
| `TurnLog` | abstract: turns are numbered, one is open at a time, a late one may be given up |
| `GameTurns` | one game, its turns, handlers, tasks, lifecycle pass, faults, restarts; implements `TurnLog` |
| `TurnPipeline` | stages, moderation, cost caps and writes of the turns of a session |
| `ProviderCalls` | one model call: tries, tiers, cascade, shared utilization |
| `CircuitBreaker`, `LLMSemaphore` | the breaker and the semaphore, each with its calls |
| `GuardedLLM` | semaphore around breaker, composed by `INSTANCE` |
| `AdmissionControl` | one tier of the admission budget |
| `SseBuffer`, `TurnStream` | the replay buffer, command by command; result store and streams of several tabs |
| `Accounts`, `Erasure` | players and their tokens; what they leave behind and what removes it |
| `RequestLimits`, `GameLimit` | sliding windows and cooldowns; how many games a player has |
| `GenesisLite`, `GenesisV2`, `WorldTemplates`, `Universe` | what games begin with |
| `WorldGraph`, `Relationships`, `Consequences` | what turns change |
| `WorldMemory`, `NpcMemory`, `NpcAutonomy` | what is remembered, told and done without the player |
| `Prompts` | versions of a prompt in several servers |
| `ApiClients`, `Quality` | agents and scenarios that play over the API; the verdict on a session |
| `GameTurnsProofs`, `TurnPipelineProofs` | theorems about the module of that name |
| `AccountsProofs` | theorems about `Accounts` and `Erasure`, which `MCAccounts` holds |
| `BreakersProofs`, `QueuesProofs`, `StreamsProofs` | theorems about the two modules that `MCBreakers`, `MCQueues`, `MCStreams` hold: `CircuitBreaker` and `GuardedLLM`, `AdmissionControl` and `LLMSemaphore`, `SseBuffer` and `TurnStream` |
| `MCParts`, `PartsProofs` | seven modules side by side (`ProviderCalls`, `RequestLimits`, `GameLimit`, `GenesisLite`, `GenesisV2`, `Universe`, `Consequences`), which `MCPipeline` extends, and theorems about them |
| `MCWorlds`, `WorldsProofs` | seven more (`Relationships`, `WorldGraph`, `WorldMemory`, `NpcMemory`, `NpcAutonomy`, `ApiClients`, `Prompts`), on top of those of `MCParts`, and theorems about them |
| `MC*` | instances: sets for the `.cfg` files, and several modules side by side |

A definition whose name is another one's followed by an underscore and a word is
a plausible mistake in it (`Blocking_Never`, `Hit_OffByOne`); no specification
uses one. Together with `PROJECT.json` they show that each property can fail.

**Parts.** `MCPipeline`, `MCAccounts`, `MCQueues`, `MCStreams` and `MCBreakers` each
hold several instances; the variable `part` is chosen at the start and says which of
them a behaviour is about, and the others stand still. The parts that `MCPipeline`
takes from `MCParts` and `MCWorlds` have variables with their own names, which are
`None` while another part is chosen; its other two, templates and verdicts, share
the variables `m1` to `m6`. A property named in one of these modules says what holds
of each of its parts.

**Composition.** The steps that one module takes at once are another's whole
behaviour: a model call of `TurnPipeline` is `ProviderCalls` behind `GuardedLLM`;
its three ways to end are the outcomes of a task in `GameTurns`; its `ApplyChanges`
is a batch of `WorldGraph` and of `Relationships`, its `EvaluateConsequences` a step
of `Consequences`; a creation of `GameLimit` is one of `GenesisLite`, whose template
comes from `WorldTemplates`; the server that `ApiClients` plays with answers as
`GameTurns` and `TurnStream` let it.

### 2.2 What comes next

1. Theorems about what only a fold or an arithmetic of scores decides
   (`RulesAreSound`: templates, contexts, the dawn, circular includes, verdicts), as
   far as invariants over numbers of steps reach it, as they did in `WorldsProofs`.
2. `TurnPipeline` as an implementation of the three outcomes of `GameTurns`.
3. The classifier and the moderator's word lists, as far as a property depends on
   what they find.

## 3. The models

### 3.1 `GameTurns`

One game is enough: games share no row, and the advisory lock is per game.
The row `game` keeps the columns that control anything (status, deleted,
turn_count, needs_recovery) and, instead of clock times, three flags for the
delays the lifecycle rules compare: `idle` (30 minutes), `old` (a day) and
`pausedLong` (a month). A request handler is a record `req[r]` with what it has
read and where it goes on; every later transaction of the handler is an action:

| code | actions |
|---|---|
| `_get_owned_game` and the checks on the row it returns | `ReadGame` (`Submit`, `Patch`, ...) |
| the FR-27.15 recovery in submit and resume | `RecountTurns`, `RecoverCount`, `RecoveryFails` |
| `submit_turn` after it | `RejectInactive`, `RejectInProgress`, `LockTurns`, `AnswerDuplicate`, `CreateTurn` |
| `/end` | `EndGame` |
| resume, patch, delete, save | `WriteGame` |
| `dispatch_pipeline` | `EndPipeline`, `SaveTurn`, `SaveFailure`, `MarkModerated`, `PersistFails`, `FailSafe`, `FailSafeFails`, `CountTurn`, `CountFails`, `FlagRecovery`, `FlagFails`, `ApplyWorldChanges` |
| `run_lifecycle_pass` | `AbandonGame`, `ExpireGame`, `PauseIdleGame` |
| time, failures | `HalfHourPasses`, `DayPasses`, `MonthPasses`, `BecomeOverdue`, `RequestFails`, `Restart` |

The advisory lock (`lock`) is held from the check for a processing turn to the
commit, so those statements are two steps, `LockTurns` and `CreateTurn`, between
which tasks and other handlers act. A turn is *overdue* when it has been
processing for twice the pipeline timeout; the code then calls it stuck. With
`DeadlineHolds`, which the default settings satisfy (`run_pipeline` has a
deadline of once the timeout), no turn is overdue while its pipeline runs.

`ImplementsLog` maps `accepted` to the largest turn number, `open` to the number
of the processing turn and `late` to "that turn is overdue".

Left out: commands other than `/end` (they write nothing that `GameTurns` keeps), a
commit that succeeds although an error is reported; and what other modules keep:
costs (`TurnPipeline`), titles, summaries and snapshots (`Erasure`), anonymous
players (`Accounts`), the number of games (`GameLimit`).

### 3.2 `CircuitBreaker`, `LLMSemaphore`, `GuardedLLM`

The bodies of `__aenter__` and `__aexit__` never await while they hold the lock,
so each is one step. The deque of failure times is represented by how many
failures have each age in the window, and `_opened_at` by the age of the opening,
so that no clock is needed; numbers saturate at the largest value the code
compares them with. `Tick` is a second, or any other unit; no call outlives its
timeout.

`LLMSemaphore` has the segments of `execute` between awaits as actions.
`asyncio.Semaphore` is external code, modelled from how `execute` uses it
(Python 3.12): `release` sets the future of the first waiter that has none
set, and the waiter runs later; until then it may time out, in which case
`acquire` passes the permit on. `WakeUpNext` says which waiters are woken, a set of
as many as there are permits and no one before those ahead of it in the queue.

`GuardedLLM` instantiates both over the same set of calls. Between the grant of
a permit and `__aenter__` nothing is awaited, which `Awaiting` expresses: no
other call moves while one is `Entering`. A call that the breaker refuses gives
its permit back (`Refuse`); a call that times out while it runs is seen by the
breaker as a failure (`Leave`), one that times out in the queue is not
(`GiveUp`). The cost checks of `guarded_llm_call` are in `TurnPipeline`.

### 3.3 `AdmissionControl`

One tier below CRITICAL, chosen at the start: tiers share no state and CRITICAL
calls bypass them. `admitted` is the state between the `event.set()` of the
releasing call and the resumption of the waiter; a timeout or a cancellation in
it is what loses slots (section 6). `Drift` bounds how far dropped calls, which
run without a slot but are counted off at their end, push `_active` below zero.
No call site in the repository passes a tier other than CRITICAL yet, so this
module describes the component and not a path that turns take today.

### 3.4 `SseBuffer`

The sorted set is a set of ids and the counter a number; `INCR`, `ZADD` and
`ZREMRANGEBYRANK` of an emission and the two reads of `replay_after` are steps
of their own, and a stream may be cancelled between any two of them (`Abandon`).
`EXPIRE` is part of the step of the write it follows. `Expire` lets the buffer go,
and the counter with it or not (the counter's TTL is renewed earlier in an
emission, and an abandoned emission renews it alone). That the counter could
expire a few milliseconds before the buffer, with an emission in between, is not
modelled. `appended` and `fresh` are history variables, and `lost` is a history field of
a replay: what left the buffer since its first read.

`Prompt` is an assumption about the environment: during the three round trips of
one emission, the other streams of the game emit fewer than `MaxEvents` (100)
events. Without it an event could be evicted before it is appended, and
`HitIsComplete` would fail for it.

### 3.5 `TurnStream`

A client is a tab with at most one stream. `conn[c]` is the local state of
`event_stream` (`pc`, the turn it has looked up, whether it is still in the check
that follows a replay, the heartbeat round) and of its `wait_for_result`
(`subscribe`, `get`, `listen`, the mailbox `message`). `Store` and `Notify` are the
two halves of `publish`. Of the buffer, only the narrative_end events ahead of
each client matter (`ahead`): whether one was replayed decides if the stream
ends. `ReplayHit` may also replay nothing, as it does when the numbering has
started again, and `ReplayMiss` is always possible, as buffers expire.
A result may be forgotten while no stream waits for it: the key's TTL (300 s) is
longer than a stream (120 s) that was open when it was set, and one that opened
later has found it with its first GET. Only the key of the latest turn can matter
then, as no stream opens for an earlier one. `Narrate` is the rest of the stream
once the result is here; `Disconnect` may cut it before the narrative, amid it, or
when narrative_end was buffered and not yet sent (`BufferEnd`). The in-memory store
used in tests is not modelled.

### 3.6 `TurnPipeline`, `ProviderCalls`

`task[t]` is the `TurnState` of a turn with the local variables of
`dispatch_pipeline`; `row`, `session`, `world` and `told` are what it writes, and
every write is a step that may fail (`SaveFails`, `BillFails`, `ApplyFails`,
`PublishFails`). A text is one of five: nothing, one the moderator lets through,
one it would block, the redirection that replaces it, the text of the last resort.
`Abandon` is a stage that raises or runs into a timeout, its own or the
pipeline's: the code keeps the state from before the stage, so that what the stage
had found is gone. `Screen` is the moderator's verdict or, when it cannot be asked
(a fault), what the fail mode says. `submit_turn` reads the total of the session
before it accepts the turn (`ReadGame`, then `Submit`), and turns bill after they
have left `processing`: `seed` is what a turn knows of the total, `late` the earlier
turns whose cost was not in it, `since` what those have billed by now. Costs are
multiples of one unit.

`ProviderCalls` is one call: `order` is one of the orders of tiers that `TierOrders`
allows (low-priority calls ask the least loaded provider first), `tried` what the
attempt has asked. `load` is shared by all calls, and an exhausted tier changes it.
`skipped` notes an attempt that gave up before it had asked every tier its full
number of tries; the last resort must not follow one.

### 3.7 `Accounts`, `Erasure`

`Accounts` has a step per transaction or Redis call. A pair of tokens has one name:
`family`, `spent` and `holder` are of the refresh token, `denied` and `lapsed` of the
access token. Refreshing is `CheckRefresh` (the reads), then `RotateToken`, whose
UPDATE claims the token (`used = false`), or `LoseToken`. `Columns` are columns that the
statements name and no migration creates; a statement that names a missing one
raises and its transaction is rolled back (`SelectFails`, `LoseToken`), so that the
part `migrated` shows the tables as the migrations leave them and `login` as the
code expects them. `RequestDies` is a worker that dies between two steps.

`Erasure` says which store keeps something of which game (`kept`): the tables with
turns, session, title and snapshots, the cache and the replay buffer in Redis, the
graph. The deletion scrubs in one transaction and then visits the games store by
store, best effort; the purge selects in one query and deletes in another;
`TerminateGame` commits and then evicts the game's keys (`EvictGameState`);
`AuditCacheConsistency` is the operator's audit. What runs meanwhile (`task`,
`summarizing`) has passed its checks and will write. `overtaken` and `reopened` are
history: they say for whom the exceptions in the properties are made.

### 3.8 `RequestLimits`, `GameLimit`

A step is a round trip to Redis; pruning and counting commute with what others do
in between and are one step. `LatencyBudgetMiddleware` is outside the limiter and may
end a request between any two steps (`Abort`), also between the violation it has
added and the cooldown: `cut` names those. Errors of Redis let a request through.
`PatternConfig` gives each pattern its threshold, window and first cooldown (more than
three refusals in ten minutes: two minutes; more than five unauthorized answers in five
minutes: fifteen), but the cooldown has one key for all patterns, so that a request that was past the check when
the long block was made (`late`) puts the short one in its place (`overwritten`).
The count of the limiter and the entry that follows are two pipelines (`Count`, `Admit`):
a request whose count another admission has overtaken is `overtaken`.
The address has two names, as the middleware and as the administration spell it;
the unblocking clears the other one, which is the finding of section 6.

`GameLimit` counts a player's games: one count for anonymous players, one for all,
then the insert, three statements of one request without a lock. Resuming and
patching read and then write the status by id and count nothing; `back` says which
games returned that way, as they are what the limits do not hold for.

### 3.9 `GenesisLite`, `GenesisV2`, `WorldTemplates`, `Universe`

`GenesisLite` is one `POST /games`: the row first, then, under a time budget, the
enrichment by the model, the nodes in Neo4j (one transaction, which may commit
although its request is given up: `BuildUnseen`), the place of the player, the
introduction, and the metadata, whose loss is swallowed and whose commit may have been
made when the request is cancelled (`RequestCancelled`). The row is public all the
time; `RemoveGame` and `CleanupSession` are its deletion from another tab.

`GenesisV2` has overlapping calls of the dialogue, each of which loads the whole
state, waits for the model and writes the whole state back (`Load`, `Advance`). A
state is the phase, how many answers it holds and which finds were made. `stale`
marks calls that another one overtook, which are allowed to lose an answer.

`WorldTemplates` loads a directory of templates, one after another, through every
rule of the validator; what is in the files is any of the templates that the
instance lists, most of them broken. `CreateWorld` chooses one and makes its ways as
`create_world_graph` does. `Universe` is Postgres row locks, commits and rollbacks of
several transactions over one universe; the two inserts of a character state wait
for each other as a unique index makes them.

### 3.10 `WorldGraph`, `Relationships`

A world is a record of where things are, which ways are locked, which items are
hidden and what was rewritten. A turn's task validates its changes one by one
against the graph as it is then, in reads of their own, and applies them in one
transaction; the task of the next turn may do the same in between. `fake` is
`InMemoryWorldService`, which the unit tests use, given the same changes: `FakeAgrees`
says where it may differ (`stray`, and items that begin with somebody).
`Relationships` likewise runs the in-memory service, which the application wires,
next to the Neo4j one, whose read and write are two queries; `overrun` marks
characters whose relationship was written by one task while another had read it and
not yet written: what that one writes is on top of a stale read. `Worlds` and
`FakeWorlds` are the worlds after each change of a batch, in either service.

### 3.11 `Consequences`, `WorldMemory`, `NpcMemory`, `NpcAutonomy`

Nothing in these services awaits, so that calls are steps and the interleaving is of
calls: the pruning of one turn after the evaluation of another, an evaluation of an
earlier turn that comes late, a compression that was scheduled by a memory and runs
after others were recorded, a tick that is processed twice, a restart. A memory is
its length, its turn and until when it is important (all decay at one rate); gossip
is hops over edges that grow strong and weak, each hop a wave of those who hear it
first (`Waves`, the queue of `propagate_gossip` level by level); a routine's step
has its interval or label, whether it repeats and what it does. The context that is
read from the memories is an operator (`Chosen`), checked for every budget in every
state. The clock and the propagation of an event are operators too, checked for
every start; what they return is `result`.

### 3.12 `Prompts`

One template and several servers over one Langfuse, whose versions and labels are
external state. A server's calls to Langfuse block its event loop, so that they are
one step each and only other servers come in between; a call may also break off
after it has moved a label (`ActivationBreaks` keeps the cache). A
text is the deployment whose file it was in. `unseen` and `meddled` are history: a
label moved by somebody else, and servers that have fetched since they seeded. The
depth-first search for circular includes (`DetectCircularRefs`) is recursive in the
code and a recursive function in the model; what it finds is checked for circles of
one, two and three templates and for none.

### 3.13 `ApiClients`, `Quality`

`game` is the server as its clients see it: one turn at a time, a stream that tells
the latest. `agent[r]` is the client of run `r`: which turn it asked for, what it was
told, its timeouts in a row. Scripted scenarios differ where the code does: they
take whatever the stream tells up to the first end of a narrative, go on after a
bad turn and end the program when a request raises. `result` and `verdict` are what
the batch keeps. `Quality` scores a report in parts of `Whole`, which all weights and
factors divide, so that no comparison is rounded that the code does not round; the
property compares verdicts of reports that differ in one rating.

## 4. The runs

| run | instance | shows |
|---|---|---|
| `games__safety` | 3 turns, 2 submitting requests, 1 restart | one turn in flight, numbering, running turns untouched, refinement of `TurnLog` |
| `games__count` | 2 turns, 2 requests over all endpoints, all delays | the counter agrees with the turns |
| `games__faults` | 2 turns, 1 request, a retried key, 2 faults, 1 restart | a key names one turn; no failure locks the game for ever |
| `games__happens_before` | 2 turns | violation: section 6 |
| `breaker__safety` | calls longer than the cooldown; breaker alone: 3 calls, 2 failures trip, cooldowns of 1, 2 and 3; guarded: 3 calls, 2 permits, queue of 2, one outage | half-open is probed; flag, window, backoff; probes a cooldown apart, only older calls decide beside them; no permit lost, only provider calls trip, resumption |
| `breaker__probes` | 3 calls longer than the cooldown | violation: section 6 |
| `queues__safety` | admission: 5 calls, HIGH with 2 slots, or BEST_EFFORT; semaphore: 6 calls, 2 permits, queue of 3 | cap, order, exact queues, conservation of permits, every queued call proceeds unless a slot is lost |
| `stream__safety` | buffer: 2 streams, 1 reader, 3 events, 5 ids; tabs: 2 tabs with 2 turns, or 1 tab with 1 loss | complete hits, newest kept, unique ids, a replay misses only what was evicted meanwhile, in front; whoever listens is told, the outcome arrives |
| `pipeline__safety` | the turns of a session and 19 parts, below | section 4.1 |
| `accounts__safety` | tokens: 1 session, 3 pairs, 2 handlers; account: 2 sessions; logins: 2 at once, 2 attempts; erasure: 1 game, 1 fault | one live refresh token, revocation outrun by one access token, guesses bounded; what is erased stays away, live games stay, removed ones go |
| `accounts__deletion` | 1 player, 1 session | violation: section 6 |
| `limits__unblock` | 3 requests of one address | violation: section 6 |

### 4.1 The parts of `pipeline__safety`

| property | parts | what it says |
|---|---|---|
| `BlockedTextLeavesNoTrace`, `StoredIsTold`, `OvershootIsOneCall` | turns | 2 turns, each of whose calls costs up to 2 of a session's cap of 3 and a turn's cap of 2, one fault, every stage may fail: what was blocked is in no store and told to nobody; what is told is what is stored but for writes that failed, when nothing may be stored of a turn that then is failed or in processing; the cap is exceeded by what one call may cost, and what turns have billed since the total was read |
| `GivesUpLast` | calls | 2 calls, 2 tiers of 2 tries: the last resort follows only attempts that asked every tier in full |
| `LimitsHold` | limits, player | 3 requests under a limit of one, two patterns with a short and a long cooldown; a player, who may have one game, with 3 games and 2 creations: no limit is exceeded but by requests that others have overtaken, and no punishment is missed but by those cut halfway, or shortened but by a late request of the other pattern |
| `WorldIsWhole` | batch, tasks, relations | one turn with two changes, two turns with one each, two tasks on one character's relationship: the player and the items are somewhere, relationships are the sum of their changes, the test doubles agree |
| `MemoryIsKept` | memories, gossip, characters | 3 memories, 3 characters with 2 episodes, 2 days of an hour: nothing recorded is lost, gossip goes back to somebody who saw it, a once-step fires once, what happens fades as it spreads |
| `GenesisIsSound` | creation, dialogue | a creation with a removal, 2 calls of a dialogue: a game told to be complete has its world, one removed and cleared has none, and a dialogue that is saved is one that its phases can reach |
| `ClientsReportTruly` | sharing, agents, scenarios | 2 sessions of 2 turns: a client hears its own turns only and takes none for two, what is complete was played to its end |
| `PromptsAreLive` | prompts | 2 servers, 2 versions: a server's cache is behind the label only for a reason that the code knows of, and a server that seeded tells of the version it renders |
| `RulesAreSound` | templates, characters, memories, prompts, verdicts | some 2,800 templates, 4 sets of includes, every budget of a context, every tick, reports of up to 3 turns: every place of a world is reachable, a server that starts can render, a context tells the most important, a skip ends at the next dawn, no session fails that would pass with worse ratings |
| `WhatIsSettledStays` | chains, dialogue, universe | 2 chains in 3 turns, 2 calls, 2 transactions: what came true or faded comes back by a revelation only, pruning keeps the most important, a dialogue loses answers only to calls that overtook one another, transactions over a universe undo nothing of each other |

**Why the bounds are enough.** The calls of two turns cost up to four units, one
more than the session's cap, so that the second turn meets the cap of the session
before its own. Two requests are what a race needs, and three turns let both try to
replace a stuck one that another request has replaced already. Faults are bounded by
two in `games__faults` because the failsafe needs two to fail (saving the turn, and
the failsafe itself); elsewhere by one, as a single break-off may hit any step.
Three calls give the breaker an old call, a probe and a second probe, and a call of
three ticks spans three cooldowns of one; six calls fill both permits and the queue
of three and leave one to be refused or to arrive between a grant and its use. Five
ids are two more than the buffer holds, so that evictions and their races happen.
Two tabs are needed for events that another tab has put into the buffer, and two
turns for streams that wait for a turn that is no longer the latest. Three pairs of
tokens are a used one, its successor and one that a late refresh makes. Three
memories are what it takes to compress one, keep one and have one at work; three
characters make a chain of gossip with a shorter way beside it; three games exceed a
limit of one by more than the overlap of two creations. The largest template has
three places and two ways, which is what a place that is reachable only backwards
needs.

**Symmetry.** Turns, requests, keys and calls (where no property names an order)
are declared symmetric in `games__safety`, `games__count` and the two violation
runs of `MCGameTurns` and `MCCircuitBreaker`, in none that checks liveness.

**Deadlock** is checked nowhere: all of these systems may really stop. The bound on
turns, ids, calls or trips is reached, the game is deleted, all slots of a tier are
lost, a session has ended. That nothing stops *early* is what the liveness
properties say (`TurnsSettle`, `ServiceResumes`, `QueuesMove`, `OutcomeArrives`,
`RemovedIsPurged`).

**Fairness.** Everywhere it says no more than: the event loop runs tasks that are
ready; calls and waits end, because each has a timeout; and time passes. In
addition

- `games__faults`: clients keep submitting turns without an old key (strong
  fairness, since the lock or a processing turn may disable the read). A game that
  nobody plays does keep a turn in processing after a restart: nothing sweeps it;
- `breaker__safety`: calls keep arriving, and the service recovers at some time
  (`ServiceRecovers`), after which no call fails. `Tick`, `Resume` and `Leave` have
  strong fairness: calls that come and go in no time must not stop the clock (a
  Zeno behaviour), nor must an `Entering` call, which disables the others for an
  instant, over and over;
- `queues__safety`: a waiter that is woken resumes, a call that runs ends;
- `stream__safety`: a tab whose stream has ended opens another one, as EventSource
  does (`retry: 3000`). Nothing is assumed of the turn's task;
- `accounts__safety`: removed games grow old, and the purge loop runs both of its
  queries (it is started with the application and runs hourly).

No fairness is given to failures, losses, restarts, timeouts in a queue,
expirations or new submissions.

## 5. What is proved

TLC shows the above for small instances. The following hold for every value of
the constants (any number of turns, requests, calls, streams or transactions, any
bound on faults), checked by `tlapm`. In each module an inductive invariant is
shown to hold at the start and to be kept by every action, a lemma per action where
that is long; the properties follow from it.

**`GameTurnsProofs`.** `SpecIInv` establishes `IInv`, from which `SpecTypeOK`,
`SpecOneTurnInFlight`, `SpecTurnsNumbered` and `SpecKeysUnique` follow. None of the
properties is inductive by itself: that `CreateTurn` leaves one turn in flight
needs that the request at `insert` holds the lock, that any processing turn is
then the stuck one it has noted, and that this turn is overdue (so that no
pipeline runs for it). The lock conjunct needs in turn that only the holder is
at `insert`. The numbering needs that the maximum is taken over rows of any
status, and gaplessness needs that rows never disappear. `SpecImplementsLog` is the
refinement of `TurnLog`, one lemma per action: each maps to `Accept`, `Settle`,
`GoLate` or a stutter. `SpecRunningTurnsAreProcessing` has the hypothesis
`DeadlineHolds`. `SpecPlayedIsCounted` adds: as long as nothing
has failed no recovery is due (`NothingToRecover`), and every turn is saved by exactly
one task, terminal from then on, and counted once after it (`SavedOnce`), so that
counter and turns differ by the tasks in between.

**`TurnPipelineProofs`.** `SpecBlockedTextLeavesNoTrace` and `SpecStoredIsTold` rest
on what each place in the program knows of the text it carries (`TaskInv`) and of
the row it has written (`RowInv`): before the moderator has seen a text it is in the
task only, the row holds no other text than the task's, and what is missing in it
when the result is published is due to a write that failed (`Stored`).
`SpecOvershootIsOneCall` needs that turns begin in order and that each knows which
earlier ones have still to bill (`SeenInv`); then the total is at most what the turn
has read, what was billed since, and what it spent itself (`CostInv`), and the guard
compared all but the middle one with the cap before the last call.

**`AccountsProofs`.** `SpecOneLiveRefresh`, `SpecRevocationIsOutrunOnce` and
`SpecGuessesAreBounded`, for any number of handlers at once, with faults and workers
that die. The claim of a token (`used = false` in the UPDATE) spends the only live one
of its session before another is minted; a session that was outrun is revoked, and
every handler that has checked one of its tokens holds a spent one, so it is not
outrun again (`OutrunInv`). The logins that have passed the counter and not yet
added to it are counted with the attempts (`GuessInv`).
Of the erasure of an account it proves `SpecErasureInv` and from it
`SpecOnlyWorkUnderWayReturns` and `SpecLiveGameIsPurgedOnlyIfReopened`, for any number of
games. After the scrub only work that was under way has anything to write (`ClosedInv`),
since nothing is admitted for an account that is to be deleted; and what the purge's
first query picked is out of play unless its player took it up again before the second
(`PickedInv`).

**`BreakersProofs`.** `SpecHalfOpenIsProbed`: half-open, a raised flag and a probe
under way go together for *any* durations of calls, which is why the breaker cannot
wedge even where the finding of section 6 applies. What calls of any duration leave
of "one probe at a time" are `SpecProbesAreSpaced` and `SpecIntrudersAreOld`: an
open circuit admits nobody for a cooldown, so that whoever is in progress when a
probe is admitted entered a cooldown before it (`ProbeComesLate`, `AgesInv`). For
the composition, `SpecPermitsAreUsed`: each step of a guarded call is to the
semaphore a step of its own or none, so that its permits are conserved (the
invariant of `QueuesProofs`, which is instanced), and whoever holds one without a
call in the breaker is on its way in, and alone. `SpecCallsHoldPermits`: whoever is
inside the breaker holds a permit, from which `SpecOnlyProviderCallsTrip` follows.
`SpecCountersFollowState`: closed, the breaker has fewer failures in its window than
the threshold; open, its cooldown is the base one doubled once for each opening
after the first and cut at `MaxCooldown`. The window's count is a recursive function
of the age up to which failures count, and the backoff one of the number of
openings. That each has a value for every argument is shown by induction, which is
done without the library's theorem: the numbers at which a claim fails would have a
least member (`LeastNumber`), and the step from its predecessor contradicts it
(`Induction`, `IterationExists`). Then a failure adds at most one to the window
(`UptoCounts`), and fewer are in it as time passes (`FewerAsTimePasses`).

**`QueuesProofs`.** `SpecCapHolds`: permits plus slots in use never exceed the cap of a
tier that drops nothing, whatever expires or is cancelled; each action moves one
slot or loses one. `SpecQueueIsKept`: the queue of admission control is exact and
nobody in it is overtaken, and the counter `_active` errs by what was dropped
(`CountInv`). `SpecPermitsAndQueue`, for the semaphore: free permits, granted ones
and running calls always add up to `MaxConcurrent`; the waiters are the queued calls
once each, within `QueueSize`; permits are granted in their order; and none is free
while somebody waits without one. Each part needs the others: a waiter that times
out with a granted permit hands on a permit that only the sum shows to exist.

**`StreamsProofs`.** `SpecBufferIsSound`, the three parts of which have theorems of
their own (`SpecHitIsComplete`, `SpecNewestAreKept`, `SpecIdsAreUnique`). The
invariant: whatever has left the buffer is older than everything in it *and* than
every id that is on its way into it. The second half needs `Prompt`: an evicted id
has `MaxEvents` ids above it, none beyond the counter, while an emission under way
is less than `MaxEvents` behind the counter. `SpecReplayHasNoHole` is the action
property of the replay's two reads: what a reader was promised is in the buffer or
was lost since (`MissingIsLost`), and what was lost is older than what is left.
`SpecListenerIsTold`: as long as no message was lost, a stream that listens waits
for a turn whose result is not stored, or its message is under way; SUBSCRIBE before
GET, and SET before PUBLISH, are what it rests on.

**`PartsProofs`.** Theorems of `PartsSpec`, the specification of `MCParts`: a behaviour
is one of a part, and `PartsInv` joins an invariant for each of them (`PartsStart`,
`PartsMove`, `SpecPartsInv`).

- Model calls, `SpecGivesUpLast`: every order of tiers misses none, and a call has
  tried everything before the try it is at (`ProviderInv`), although other calls
  change the load, and with it the order, between two attempts.
- Limits, `SpecLimitsHold`. The count and the entry of a request are two pipelines:
  there is room for one that was counted as long as no other admission has overtaken
  it (`HasRoom`), so that those in a window that were not overtaken are at most the
  limit. A pattern of violations is blocked, or a request that is about to block it
  is still running, or was cut off (`LimitsInv`); a request that is not late meets
  no block (`InTime`), so that only late ones replace one. It needs that a cooldown
  is never shorter than the base one, however many violations there were
  (`CooldownIsLong`), and that it begins no earlier than the last violation
  (`MaxIsOne`). For the games of a player, the creations that have passed the count
  and not yet inserted are counted with the games (`CountedInv`, `FreshInv`).
- What a game begins with, `SpecGenesisIsSound`. A creation that has found the place of
  its player has built a world, unless the game was removed since, and one that was not
  outrun by the removal builds nothing after it (`CreationInv`). In a dialogue, what
  each call knows is what is saved, unless another call has overtaken it; and what is
  saved has the answers, the traits and the character that its phase requires
  (`DialogueInv`, with a lemma per phase).
- What is settled, `SpecWhatIsSettledStays`, action properties. Whoever has locked a
  universe's row has the lock still when it commits, and what it commits continues
  the row as it is (`UniverseInv`). A dialogue loses answers only to a call that was
  overtaken. Of a chain, what a step may make of an entry is listed once
  (`ChainsStep`). Pruning drops the excess with the fewest chains before it in the
  order of scores, so that none that is dropped scores more than one that is
  kept (`BestAreLeft`, `PruningIsSound`).

**`WorldsProofs`.** Theorems of `WorldsSpec`, the specification of `MCWorlds`. `WorldsInv`
joins an invariant for each part (`WorldsStart`, `WorldsMove`, `WorldsRest`,
`SpecWorldsInv`); `SpecWorldIsWhole`, `SpecMemoryIsKept`, `SpecPromptsAreLive` and
`SpecClientsReportTruly` follow, each from the lemmas that end in `AreSound` or `IsSound`.
What is computed by a recursive function (a batch of changes, the hops of a rumour) is
handled by the same induction as in `BreakersProofs`.

- Relations, for `SpecWorldIsWhole`. About a character that was not overrun, the two
  services agree when no task is writing, and when one is, it has read what the graph says
  and the other service holds exactly that with the change applied (`AgreeingInv`).
- The graph of a world, for the same. What has been validated leads to a location of this
  world, whatever is locked after the validation; applying a batch keeps the graph whole
  and the fake of the unit tests alike, except for the changes that are listed as
  strays (`ChangeKeeps`, `BatchKeeps`).
- Characters and gossip, for `SpecMemoryIsKept`. What fires once has fired as often as it is
  listed (`OnceInv`); what spreads loses weight at each hop (`SpreadIsSound`). Who is
  marked as having seen an episode is exactly who was told of it, and every telling goes
  back to its origin (`WavesUnfold`, `EventsAreSound`, `GossipInv`).
- Memories, for the same. Each number is remembered once, or told by one summary and
  archived (`Told`); and one of the latest turn's memories is at work (`Latest`), for which
  compression takes the earlier ones only (`ChosenAreEarlier`).
- Prompts. What a server has cached is what is deployed, unless one of the named excuses
  has occurred for this server since it loaded (`Excused`).
- Clients. What a run was told are turns of its own in its game, and what it listens to is
  later than all it was told (`ClientInv`); except under a shared key, each game's turns
  were asked for by its own run (`OwnGames`); a batch is ruled on after every run has an
  outcome (`RulingInv`).

**Assumptions** are those named in the modules (`NullsAssumption`,
`BreakerAssumption`, `CallsAssumption`, `BufferAssumption`, `SemaphoreAssumption`,
`StreamAssumption`, ...): natural bounds, finite sets of turns, calls and requests,
distinct null values. In `MCParts` `NoneAssumption`, `ProviderAssumption` (at least
one tier and one try), `LimitsAssumption`, `PlayerAssumption` (limits of at least
one) and `ChainsAssumption`. In `MCWorlds` `RelationsAssumption` (natural limits),
`WorldAssumption` (entrance, connections and homes within the world; places are not
people), `CastAssumption` (characters, factions and surroundings have different
names), `GossipAssumption`, `MemoryAssumption`, `PromptsAssumption` and
`ClientsAssumption` (finitely many runs, at least one). TLC evaluates all of them in
the runs. One theorem has a hypothesis of its own, a relation between constants that
not every deployment satisfies: `SpecRunningTurnsAreProcessing` that a pipeline ends
before its turn counts as stuck (`DeadlineHolds`). The run that checks the property
sets it.

**Only model-checked.** All liveness, which needs fairness and `ENABLED`
(`TurnsSettle`, `ServiceResumes`, `QueuesMove`, `OutcomeArrives`, `RemovedIsPurged`). Of the
safety properties `RulesAreSound` alone: it is about folds over sequences of scores and of
choices, a walk of the templates that is a RECURSIVE operator, and quotients of the clock;
what those compute for every input is an induction over data.

## 6. Where the code and its documents disagree

Four disagreements are runs that TLC refutes; `PROJECT.json` quotes the texts.

- `games__happens_before` (`HappensBefore`): a turn leaves `processing` before its
  world changes are applied, so the next turn's context assembly may start first;
  plans/llm-and-pipeline.md:864 says the turn lock prevents that.
- `breaker__probes` (`OneProbe`): any call that ends while the circuit is half-open is
  taken for the probe. Generation calls may take 90 s and the cooldown is 30 s, so
  a call from before the opening ends the half-open state, and a second probe may
  join the first; circuit_breaker.py:117 says "Only one probe at a time". How far it can go
  is what `ProbesAreSpaced` and `IntrudersAreOld` say.
- `accounts__deletion` (`DeletionEndsSessions`): the deletion of an account deletes
  rows of `player_sessions`, which nothing writes; the sessions and refresh tokens
  that exist go on (players.py:491, against its docstring at :436).
- `limits__unblock` (`UnblockRemovesBlock`): unblocking an address clears a name that
  the detector never uses (admin_rate_limits.py:109). The reset of a player has
  the same fault.

Others were met while the models were written and can be read off them; they
have no run of their own.

**Games and turns**

- Deletion: `submit_turn` checks `deleted_at` in its first, unlocked read only, so a
  submission that overlaps the deletion is accepted (`ReadGame`, `CreateTurn`).
- `/end` is not final: resume and patch write the status by id, whatever it has
  become since it was read (`WriteGame`). Patch takes any transition that
  `_VALID_TRANSITIONS` lists, though its docstring names pausing only.
- The limits on games (FR-10.10, FR-11.56) are counts and an insert in separate
  statements, and resume and patch count nothing: overlapping creations and the
  resumption of an expired game exceed them (`GameLimit`, `back`).
- The lifecycle pass abandons a day-old game whose first turn is in flight or not
  yet counted (`AbandonGame`, games with "no turn" in FR-11).
- A retry that arrives while its original is processing is answered with 409
  TURN_IN_PROGRESS and not with the original's result (`RejectInProgress`, FR-08.39).
- On the duplicate path the update that fails the stuck turn is rolled back,
  after `stuck_turn_cleared` was logged (`AnswerDuplicate`).
- The recovery of `turn_count` counts a turn whose increment is still to come, or
  overwrites an increment (`RecountTurns`, `RecoverCount`); this is why
  `PlayedIsCounted` says nothing once something has failed (`Undisturbed`).
- A restart between the two writes of a moderated turn leaves it `complete`
  (`MarkModerated`). Turn tasks are not awaited at shutdown.
- The cost of a turn that fails is never billed. `dispatch_pipeline` is given
  `world_seed` as the game's state.

**Resilience**

- Admission: a call that expires between the hand-over of a slot and its
  resumption loses the slot for ever (rate_limiter.py:180), a cancelled call leaves
  its entry in the queue and is given a slot that is lost (:178), and the result
  of `admit_or_queue` is ignored, so that a dropped call runs without a slot (:420).
  `QueuedProceeds` therefore holds unless a slot was lost.
- Limits: the latency budget may cut a request between the violation and the
  cooldown it should cause (`cut`), the count of the window and the entry are separate
  (`outrun`), and the cooldowns of all patterns share a key, so that a block of two minutes
  may end one of fifteen (`overwritten`, anti_abuse.py:302).

**Streams**

- The check after a replay ends the stream if the narrative_end of *any*
  turn was replayed (games_stream.py:154), though the comment means this turn's; the
  next reconnection repairs it, which is what `OutcomeArrives` shows. A stream on a
  turn whose result key has expired waits for the full timeout and reports
  PIPELINE_TIMEOUT. A tab that reconnects after a normal end with nothing to replay
  gets the narrative again.
- The id counter expires with the buffer after 300 s and starts again at 1, and the
  termination of a game evicts it under streams that still emit
  (admin_games.py:218); FR-10.31 asks for increasing ids. A client that comes back
  with an id of the earlier numbering gets a hit that replays nothing.
- `InMemoryTurnResultStore`: the first waiter that times out removes the event that
  later waiters share, so that publish wakes nobody (turn_results.py:80).

**Players and what they leave**

- A turn in flight writes words back after the scrub, and a title or a summary may
  come after it (`OnlyWorkUnderWayReturns` names whose they are). The deletion leaves
  titles, snapshots, the replay buffer and games that have expired.
- The purge collects ids and deletes them later without looking again, so that a game
  that was reopened meanwhile is lost (`LiveGameIsPurgedOnlyIfReopened`).
- Suspending and unsuspending an account whose deletion is pending makes it active.
- Login selects `players.deleted_at`, and the loser of a refresh updates by
  `session_family_id`; no migration creates either column (auth.py:521, :206).
- The audit of the cache compares a restored snapshot's `turn_number` with the game's
  `turn_count` and evicts what was restored on purpose.

**World, simulation, genesis**

- A way's lock is validated with `from_id` and applied with `entity_id`, a quest's status
  is validated as `new_status` and applied as `status`, and the place that a move
  starts from is not compared with the player's.
- `create_world_graph` treats "n" and "north" as two directions; the templates' check of
  reachability ignores locks.
- The world clock begins again with every turn. With ticks of a minute dawn comes
  a tick before its label (`int` cuts the minute off). Characters beyond
  `max_llm_npcs` are dropped, not deferred. Memories that are recorded late may be
  compressed although their turn is recent, and a compressed one may be counted
  twice in a context.
- `reveal_hidden_entry` revives entries of chains that are over; chains without
  entries are never pruned.
- A game that is removed during its creation leaves its world behind; a failure of
  the metadata's write is swallowed. Overlapping calls of genesis_v2 lose answers
  and can undo COMPLETE; a failed extraction is not retried after its phase.
- `universe.create` and the backfill store a config that nobody has validated.

**Prompts and clients**

- The bridge renders the body of the file whatever version is active. Seeding at the
  start overwrites the production label, so that a restart undoes an activation, and
  an unreachable Langfuse is taken for one without the prompt. Names with hyphens
  are turned into dots, so that activation clears the wrong cache key.
- After a turn that timed out, the client's next turn may be answered with 409,
  which ends its session instead of counting as a timeout. Agents with one
  anonymous key share a game (FR-42.07 forbids it). Verdicts count the
  blank ratings of turns that timed out, and a batch whose sessions are all
  inconclusive passes.

## 7. What is not modelled

- **Retry** (`resilience/retry.py`): nothing in the program calls it; the retries that
  run are in `ProviderCalls`.
- **Scenario seeds, settings, error envelopes, observability**: static data and reports
  that nothing reads back.
- **Test doubles**: the transports for tests, the in-memory repositories, the
  in-memory turn results. Two twins that the code relies on elsewhere are modelled
  next to what they stand for, those of the world graph and of the relationships.
- **The job queue**: the tries and dead letters are arq's. The application never sets
  the queue that requests read, so that they enqueue nothing; what the jobs
  do is in `Erasure` and `NpcAutonomy`.
- **Listings, profile, export, audit log**: reads and appended rows without effect on
  anything else.
- **Moderation's words and records, the classifier of choices, taste profiles, the
  terminal interface, baselines of scores, evaluation over the job queue**: what they
  find or show is a choice in the modules that use it, or nothing uses it.
- **Code that only tests call**: the session cache's read-through functions
  (`get_or_create_reconstruct`, `get_active_session`), `create_session`; `genesis_v2`,
  `create_chain` and the writers of memories have no caller in the server either and
  are modelled as components.

Within the modelled components: texts, formats and log lines, the content of
narratives, and everything named as left out in section 3. `PROJECT.json` says for
each component what of it is missing.
