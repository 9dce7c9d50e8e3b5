# Verification of safe-decoder-service

TLA+ models of the decoder service, checked with TLC and, where said, proved with
TLAPS. The service learns the ABIs of contracts and decodes the data of Safe
transactions with them. Paths are relative to the repository (`src/`).

## The system

```
RabbitMQ events --> web process: EventsService.process_event --> Dramatiq queue
                                                                    |
  block explorers <-- workers: get_contract_metadata_task <---------+-- periodiq
                         |            |        \--> Redis (should_attempt_download)
                         v            v
                    table abi    table contract ---> contracts API (Redis answers cache)
                         |            |
                         v            v
   web process: DataDecoderService (selector table, alru_cache) <-- decode requests
```

| Component | State | Operations | What is hard | What makes it correct |
|---|---|---|---|---|
| ABI store (`models.Abi`) | rows, id sequence, unique `abi_hash` | insert, commit, `get_or_create_abi`, two streams | concurrent inserts; ids are given before they are visible | one row per ABI, ids unique |
| Local ABIs (`AbiService`) | none of its own | check, insert, at each startup | check and insert are apart; IntegrityError is fatal | startup completes, local ABIs have precedence |
| Selector table (`DataDecoderService`) | `fn_selectors_with_abis`, `last_abi_id`, `lock_load_new_abis` | `init`, `load_new_abis`, `add_abi` | cursor moved before the load, 10 ms lock wait, failing loads, no override | nothing is skipped, most relevant ABI wins, lock freed |
| Lookup (`get_abi_function`, `get_decoding_accuracy`) | two `alru_cache`s without expiry | lookups, evictions | two awaits of the same cache, `None` is cached | right ABI, right accuracy |
| Contract download (`ContractMetadataService`, tasks) | contract rows, Redis keys, messages | gate, explorers, store, send | redelivery, concurrent tasks of a contract, proxies that name each other | rows and retries consistent, nothing forgotten, no endless downloads |
| Decoding of parameters | none of its own | recursive decoding of MultiSend and execTransaction | nesting, partial failure, a table that grows during a request | nothing decodable is lost, an answer names what it takes from the table after one ABI, answers repeat while the ABIs of the contracts do |
| Shipped ABIs (`datasources/abis`) | constants | stored at startup by relevance | ABIs of one relevance name a function differently | which functions are contested |
| Safe contracts (`SafeContractsService`) | rows, positive cache, Redis lock | create, update hourly | lock expires, a dead task's lock, half-done creation, rows a download created first | the cache is right, chains become complete, rows get their names |
| Event queue (`QueueProvider`, `EventsService`) | RabbitMQ deliveries | consume, ack, nack | exception between two sends, nack without requeue, redelivery to a second callback | acknowledged only with all tasks sent, settled once |
| Answer cache (`cache_response`) | Redis hashes with TTL | get, set, expire, unlink | fill races invalidation; set and expire apart | no stale answer for ever |
| Contracts API and pagination | none | pages and counts | rows that come and go between pages, count later than page | which rows a walk can miss or repeat |
| Admin interface | none of its own | create, edit, delete a contract | nothing tells the caches, the Redis keys or running tasks | who relies on a row copes |
| Sessions, CLI, logging, config, migrations | connection pool | | | not modelled, see below |

The web process is one gunicorn worker with one event loop; a worker process runs
100 threads of tasks. So web code interleaves at its awaits, tasks interleave with
everything, and the database, Redis and RabbitMQ are shared.

## Modules

| Module | Models |
|---|---|
| `AbiDecoder` | from the table `abi` to the selector table: sessions, startup, `load_new_abis` |
| `SelectorTable` | abstract: what the loading of ABIs promises to who decodes; `AbiDecoder` implements it |
| `FunctionTable` | abstract: the same, seen through one function; `SelectorTable` implements it, `DecodeData` decodes with it |
| `SelectorTableProofs` | that refinement, proved |
| `AbiDecoderProofs` | its safety properties, that it implements `SelectorTable`, and through it `FunctionTable`, proved |
| `AbiLookup` | which ABI decodes a call of a contract, and the accuracy reported |
| `AbiLookupProofs` | its safety properties, proved |
| `ContractDownload` | `get_contract_metadata_task` and who sends its messages |
| `ContractDownloadProofs` | its safety properties, proved |
| `ResponseCache` | the cached answers about an address, their expiry and invalidation |
| `ResponseCacheProofs` | its safety properties, proved |
| `DecodeData` | the decoding of nested calls with the names of the winning ABI |
| `DecodeDataProofs` | its safety properties, proved |
| `ShippedAbis` | the shipped ABIs and their relevance, as far as they can disagree |
| `EventDelivery` | abstract: what the consumer of events promises; `EventQueue` implements it |
| `EventQueue` | RabbitMQ, `QueueProvider.consume`, `process_event` |
| `SafeContracts` | the rows of the Safe deployments, their cache, lock and tasks |
| `Events` | `EventQueue` and `SafeContracts` composed |
| `EventsProofs` | the safety properties of the three and the refinement, proved |
| `Pagination` | `GenericPagination` and a client that walks by its links |
| `PaginationProofs` | its safety properties, proved |
| `MC...` | the constants of the instances TLC checks |

Operators named *Mutant of X* are plausible bugs in the code that X models; no
specification uses them. Each shows that a property can fail.

### AbiDecoder

`rows` and `nextId` are the table and its sequence; `txState`/`txRow` the open
transaction of each session (the workers' and the startup's). `BeginInsert` takes the
id, `Insert` is the unique index (fail if committed, wait while another session has the
ABI uncommitted), `CommitRow` makes the row visible. Sequence values are never reused,
also after a rollback, as in PostgreSQL. `web` is the progress of `lifespan`;
`last_abi_id`, `fn_selectors_with_abis` and `lock_load_new_abis` are the attributes of
the service; `rpc`, `previous_last_abi_id` and `todo` the locals of a running
`load_new_abis`. A step is the code between two awaits. `add_abi` awaits a thread before
it writes; only the holder of the lock writes, so one row is one step. `FailLoad` is any
exception of a query of the load: the lock is released by `finally`, the cursor keeps its
new value. A `TimeoutError` of the driver is caught by the handler meant for the lock,
hence its two outcomes. `seen`, `overtaken`, `dropped` and `faults` are history.

Abstractions: an ABI is its set of selectors; `source_id` and the JSON are left out;
the multisend tables, which never change after `init`, are left out; requests read the
table only after their load, and decoding itself is in `AbiLookup` and `DecodeData`.

`SelectorTable` forgets ids, cursor, lock and transactions: ABIs are stored once, with the
relevance they are shipped with or with 0; the table is built, when all that is shipped is
stored, from everything by relevance; it is extended where a selector is free, and gone when
the process stops. `AbiDecoder!Table` maps the committed rows, the selector table and
`web = "ready"` to it.

`FunctionTable` looks at one function: an ABI is the names it gives the inputs, the table the
names in use. `complete` says that everything shipped is stored; from then on only ABIs of
relevance 0 are. `SelectorTableProofs!Fun` maps any selector of `SelectorTable` to it. The
three make a chain from the rows and cursors of `AbiDecoder` to the actions `Store`,
`Build`, `Extend` and `Stop` that `DecodeData` takes as its table.

### AbiLookup

One contract address in several chains. `abiCache` is the cache of `get_contract_abi`
by chain id (`NoChain` for `None`), `selState`/`selAbi`/`selKey` the cache of
`get_contract_abi_selectors_with_functions`, whose computation concurrent requests
share. Other addresses appear only as evictions at any moment. The general table grows
by free selectors, as `AbiDecoder` shows. `Decoded` lets the parameters decode or not.
Nested calls of a MultiSend are lookups of their own, under other addresses.

### DecodeData and ShippedAbis

The data of a request is a tree of calls, numbered in the order `get_data_decoded` meets
them. A call is a `function`, a `multiSend`, an `execTransaction`, an `unknown` selector
or `empty`. Whether its parameters fit the types (eth-abi) and whether the list of a
multiSend can be taken apart are inputs. `CheckSelector` is `get_abi_function` up to its
await, `DecodeParameters` what follows; `Opens` is `decode_parameters_data`. Between two
steps other requests add ABIs (`AddAbi`), workers store them (`Download`), and the process
dies and builds its table anew (`Crash`, `BuildTable`). The module follows one function:
the table is the list of input names the winning ABI gives it. `stored` has a variant per
list of names and relevance. These four are the actions of `FunctionTable`, whose `complete`
is true here: the first startup is over. What it left in the database is one of `Databases`:
the shipped ABIs, but one that a worker had downloaded before keeps relevance 0, since
`_store_abis_in_database` leaves what it finds as it is.

The ABI of the contract that is called has preference over the table. `own` has the names it
gives the function, or none, per contract (`key` of a call; calls without an address or with
an address that never gets an ABI have `NoKey`). `SetContractAbi` changes it: a worker links
an ABI it has just stored, or an administrator any or none. The lookup goes through two
caches that know no expiry and are told nothing. `AbiLookup` has them in detail; here
`visible` is what they may show: everything `own` was since the process started, since an
entry may have been made at any moment and evicted at any other. So two calls of one
contract in one answer may be named after two ABIs, and so may the same data in two answers.
`changed` has the contracts for which this can be, from the start of the process that gave
the last answer; it is the exception in `AnswersRepeat`. A contract is taken to be in one
chain: the ABI of another chain, which `get_contract_abi_selectors_with_functions` falls
back to, is in `AbiLookup`.

`ShippedAbis` gives the functions. Of an ABI of `app/datasources/abis` it has every
function with inputs that another shipped ABI has too, under the names of its inputs, and
one function that is its own and stands for the rest: only shared functions can be
contested. The 113 ABIs of Maker are taken together with all the variants of a function
they have. ERC-20 and ERC-721 come with a library and are external. The Safe contracts,
MultiSend and the exchanges come with it too and are left out; so a function that only they
share with a shipped ABI is not in the list of contested functions.

### EventQueue, SafeContracts and Events

`broker` is the state of each event in the durable queue. The consumer has no prefetch
limit, so callbacks run concurrently: a handler is one of them, with its `event`, the
contracts it still has to send a task for (`todo`), and whether the channel its event came
through is open (`live`). `LoseConnection` puts unacknowledged events back while their
handlers go on: their ack is then without effect. `Raise` is any exception of
`process_event`, also between two sends; `Nack` rejects without requeue. `FailConnect` is
the startup that logs `QueueProviderUnableToConnectException` and serves without a
consumer. `Kind` tells events that are processed from those that are ignored (empty, not
JSON, another type, no data) and those on which `process_event` raises.

`EventDelivery` says what this amounts to: an event is settled once, as handled when a
task was sent for each of its contracts, or dropped after an attempt that failed.

`SafeContracts` has the rows of the Safe deployments per chain (`rows`), those with their
display name and trust (`named`), the positive cache of the web process (`safe_cache`),
the waiting messages, the Redis keys (`locked`) and the executions of the creating task.
An execution inserts one deployment per step (`CreateNext`: `get_or_create` commits each).
A key expires under its holder (`ExpireHeldLock`) or after its holder died
(`ExpireDeadLock`); `ReleaseLock` deletes the key whoever set it. The hourly update is one
`update_contract_info` per step. `expired`, `dropped` and `deleted` are history.
Deployments have distinct addresses here; two versions with one address would share a row.

`Events` joins the two: the check of a handler is `safe_contracts_exist` of its chain, the
task it sends is a message of `SafeContracts`, and a metadata task for an address that is
a deployment may insert its row first (`Download`).

### Pagination

A row is its place in the order by address and chain id. A client starts anywhere with any
limit and follows the next or the previous links; each page is a request, and in it
`GetPage` and `GetCount` are two statements. `Come` and `Leave` are rows that are inserted
or deleted, or whose `trusted_for_delegate_call` begins or ends to fit the query. `due`,
`served`, `repeated`, `came` and `gone` are the history of the walk.

### ContractDownload

A contract is an address of a chain. `exists`, `abi`, `fetch_retries`,
`implementation` are columns of its row, `attempted` the Redis keys, `queue` the waiting
messages (equal waiting messages have the same effect and are one), `pc`, `msg`, `client`,
`found`, `proxied`, `retriesRead` the locals of an execution. `get_or_create` inserts or
loads the row; the later update writes only the changed columns (SQLAlchemy's unit of
work), which is why `StoreFailure` writes `fetch_retries` from `retriesRead` and leaves
the ABI. `found = "bad"` stands for the three early returns of
`process_contract_metadata` (no source, unknown source, empty ABI). A successful download
writes `abi_id` also when another execution has stored the same: the rollback in
`get_or_create_abi` makes the session forget what it read.

`Administer` is the administrator, who deletes a row or creates or edits one (`AdminSave`),
also under an execution that has loaded it; that execution's UPDATE then matches no row and
raises (`pc = "gone"`, `UpdateGone`), and its message comes again. Nothing removes the cached
`no`, so a deleted contract is not downloaded again for up to a day, although its row would say
yes; `administered` has the rows an administrator wrote, which are the exceptions in the
properties. An edit of the address, which the form shows as well, is not modelled.

`failures`, `faults`, `unsent` and `administered` are history; `unsent` has the
implementations whose task a dying execution did not send. `Crash` is a failed
or killed execution; Dramatiq delivers its message again. `ProcessEvent` is the sending
loop of `process_event`; its check for new chains and its failures are in `Events`.

### ResponseCache

One address. `hash` and `timed` are its Redis hash: a field per query, and whether the key
has an expiry. A request is the wrapper of `cache_response`, one step per await: HGET
(`Lookup`; a hit changes nothing), `list_contracts`, HSET, TTL, EXPIRE. What the database
has about the address is a version number; an answer is the version its page was read at. A
task writes (`StoreMetadata`) and then calls `del_contract_cache` (`Unlink`), or dies in
between. `WriteQuietly` stands for the writers that do not invalidate: failed downloads, the
Safe contracts, the command line, the admin interface. `invalidated`, `late`, `orphaned` and
`faults` are history. Time is left out: a hash with an expiry may expire at any moment.

## Runs

| Run | Instance | Shows |
|---|---|---|
| `decoder_race` | 2 workers, 2 local ABIs, 3 ABIs over 2 selectors, 2 requests, 1 fault | `ShippedStored`, `OneLoader`, `UniqueAbis`, `SkippedOnlyByRaceOrFailure`, `MostRelevantWins`, `LoaderSeesCommitted`, `TableRefined` |
| `decoder_live` | 1 worker, 1 local ABI, 2 requests, 1 fault, fairness | `StartupCompletes`, `CommittedIsLoaded`, `RequestsAnswered` |
| `decoder_reorder` | 2 workers, no fault | violation of `NewAbisNeverSkipped`, see below |
| `download` | 2 concurrent executions of 1 contract, 1 explorer, 3 failures, 2 faults or interventions of an administrator | `CachedNoIsRight`, `FailuresRemembered`, `AbiKept`, `TasksSettle` |
| `download_live` | 2 contracts that name each other, 2 failures of one, 1 fault or deletion of a row, fairness | `ImplementationsSent`, `MessagesAreHandled`, `ProxyFollowed`, `MissingRetried`, `UnscheduledStop` |
| `download_retries` | 1 contract, 1 execution, 2 failures | violation of `FewerRetriesFetched`, see below |
| `lookup` | 1 address in 2 chains, 2 ABIs, 1 request | `FunctionHasSelector`, `AccuracyNotUnderstated` |
| `cache` | 2 queries, 2 requests, 2 tasks, 2 writes, 1 fault, fairness | `EveryHashExpires`, `OnlyLateFillsAreStale`, `StaleLeaves` |
| `pages` | 5 rows, limits none/1/4 with page sizes 2 and 3, 2 changes during a walk | `ForwardWalkMisses`, `BackwardWalkMisses`, `ForwardWalkRepeats`, `NothingElseShown`, `LinksValid` |
| `events` | 1 event with 3 addresses (one a deployment, one null), 2 handlers, 2 creating tasks, 1 chain of 2 deployments, 1 + 2 faults, fairness | `NothingForgotten`, `CachedMeansComplete`, `CreatorsBounded`, `DeliveryRefined`, `EventsAreSettled`, `ChainsComplete`, `InfoArrives` |
| `decode` | the shipped ABIs, some of them stored early, each function alone and all trees of 3 calls of three functions, a contract whose ABI changes twice, 2 downloaded ABIs, 1 restart | `AnswerComplete`, `AnswerSound`, `AnswersRepeat` |
| `lookup_accuracy` | as `lookup` | violation of `AccuracyIsOfFunction`, see below |

Bounds. `MaxId` bounds how many inserts the workers start, `MaxFaults` crashes, failed
loads, aborted transactions and interventions of administrators, `MaxFailures` the failed
downloads of each contract. Two sessions are enough for every conflict of two transactions,
and a third id for a commit that is overtaken; two requests for one that loads and one that
waits. In `download` three failures and two executions lose an increment and still count
further; in `download_live` `MaxFailures` of one contract is one more than
`CONTRACT_MAX_DOWNLOAD_RETRIES`, so that its retries are used up, while the downloads of the
other succeed. An administrator enters `fetch_retries` 0 in `download` (`EditedRetries`, a
row that is reset) and only deletes in `download_live`. Every instance of `AbiDecoder` has a
local ABI, so that the branch of `load_new_abis` without a cursor, which the code reaches
only where nothing is shipped, is covered by the proofs alone. In `cache` two requests are
one that fills the hash and one that fills it again after an unlink or an expiry, and two
writes an answer that is stale twice over (`MaxVersion`). In `pages` the default page size
is smaller than the largest, a limit is above the largest, five rows are three pages of two,
and two changes are an insertion and a deletion on both sides of the offset (`MaxChanges`).
In `events` two handlers are an old callback and the redelivery to a new one; two faults of
the workers (`MaxSafeFaults`) are a failure or a crash and an expiry, or an expiry twice;
ignored and broken events need no handler of their own kind and are covered by the proofs
only. In `decode` three calls are a failing sibling, and nesting twice (`MaxCalls`); the
three functions of the trees are a contested one, one the shipped ABIs agree on, and one
that is only downloaded; the contract whose ABI changes is called alone, twice, beside the
same function without an ABI of its own and beside a failure, and two changes (`MaxChanges`)
are one ABI that gives way to another or goes; one restart (`MaxCrashes`) lies between two
answers; of the shipped ABIs with a function none, one or all of the most relevant, or all
were downloaded before the first startup (`Databases`), which are the cases that change who
ties at the top. The safety properties are proved without these bounds.

The type invariants are proved and not run: TLC has nothing to add to them.

Deadlock is checked in all runs: requests, events and periodic tasks can always come.
Symmetry of workers and of requests is used in the runs without liveness properties only;
`TableRefined`, which has no fairness, does not tell them apart.

### Fairness

`AbiDecoder`: statements of the database end, the event loop runs what can run, the
timer of a wait fires, a released lock goes to a waiter that is still there, requests
keep arriving, and a web process that is down is started again (a deployment's
restart policy: the service itself exits when its startup fails). No fairness for faults
or for new ABIs.

`ContractDownload`: explorers answer or time out (their clients have timeouts), Redis
and the database answer, periodiq sends the periodic tasks. Messages are taken under
strong fairness: Dramatiq hands them out in order and executions keep ending, so a
message that is waiting again and again is taken. No fairness for events, faults or the
expiry of a key.

`ResponseCache`: requests and tasks that do not die go on, and the expiry of a hash
ends. No fairness for arrivals, writes or faults.

`Events`: the event loop runs its callbacks, RabbitMQ delivers a ready message to a
consumer that is there, a process that is down is started again and connects (or fails to,
which is a bounded fault), workers go on and take waiting messages, periodiq starts the
hourly task, Redis expires keys. No fairness for events, downloads, deletions or faults.

### Disagreements with the documentation

- `NewAbisNeverSkipped` (`load_new_abis`, `get_abis_with_id_greater_than`): ids are assigned
  at INSERT and visible at COMMIT. The startup leaves the cursor at 1. Worker 1 inserts id
  2, worker 2 inserts and commits id 3, the load of a request moves the cursor from 1 to 3
  and adds id 3, worker 1 commits: id 2 is below the cursor until a restart. The docstring
  promises this of "ABIs inserted with identical timestamps"; `created` is the worker's
  clock before the INSERT, so that the two may be such, and the property asks it of every
  row between the old cursor and the new. `SkippedOnlyByRaceOrFailure` shows that this and a
  failed load are the only ways to lose an ABI.
- `FewerRetriesFetched` (`get_contracts_without_abi`): "fewer retries than max_retries", but
  the query compares with `<=`, so that a contract is downloaded once more when its retries
  are used up. `should_attempt_download` has the same words and the same comparison.
  `MissingRetried` states the boundary of the code.
- `AccuracyIsOfFunction`: if the ABI of the contract lacks the selector (a proxy), the
  function comes from the general table but the answer is FULL_MATCH or PARTIAL_MATCH.
  `AccuracyNotUnderstated` is the direction that does hold.

Seen on the way, without a run: a request whose wait for the lock timed out decodes with
an old table, against the comment "to ensure fresh ABIs" of the endpoint
(`LoaderSeesCommitted` is stated for the requests that load);
`Contract.get_or_create` says *Update or create* and never updates; *Another task is
already creating Safe contracts* is also logged, and the message done, when the key is that
of a task that died (the exception in `ChainsComplete`).

## Proofs

TLAPS proves, for every value of the constants that satisfies the named assumptions
(`NoAbi` is no ABI, `SelectorsOf` has its type, `Web` is no worker, bounds are naturals,
and so on; TLC evaluates them in the runs):

| Module | Theorems |
|---|---|
| `AbiDecoderProofs` | `Invariance`, `TypeCorrect`, `LoadsExclude`, `AbisUnique`, `CursorSkips`, `Relevance`, `LoaderIsFresh`, `ShippedAreStored`, `TableImplemented`, `NamesImplemented` |
| `SelectorTableProofs` | `FunctionImplemented` |
| `AbiLookupProofs` | `Invariance`, `SelectorFound`, `AccuracyHolds` |
| `ContractDownloadProofs` | `Invariance`, `TypeCorrect`, `CachedNo`, `Failures`, `AbisStay`, `ImplementationsFollowed`, `ExecutionsSettle` |
| `ResponseCacheProofs` | `Invariance`, `HashesExpire`, `LateFills` |
| `DecodeDataProofs` | `Invariance`, `TypeCorrect`, `Completeness`, `Soundness`, `Repeatability` |
| `EventsProofs` | `QueueInvariance`, `DeliveryImplemented`, `SafeInvariance`, `Composition`, `TypeCorrect`, `DeliveryHolds`, `CacheIsRight`, `CreatorsLimited`, `Remembered` |
| `PaginationProofs` | `Invariance`, `TypeCorrect`, `ForwardWalk`, `BackwardWalk`, `Repeats`, `OnlyRowsAhead`, `Links` |

Each module has an inductive invariant `IndInv`, proved to hold initially and to be kept
by every action; the theorems follow.

- `AbiDecoder!IndInv`. The safety properties alone are not inductive. `RowsInv` says that
  ids of rows and open transactions are below the sequence and distinct, and that an
  inserted ABI is nowhere else: without it a commit could break `UniqueAbis`.
  `ControlInv` says that requests and the lock exist only while the web process serves,
  and that workers insert with relevance 0, which `MostRelevantWins` rests on: after
  `init` only ABIs of the lowest relevance can appear, so never overriding is right.
  `CursorInv` says that the cursor is `None` or the id of a committed row, hence a row
  that is committed below it is `overtaken`, and that a load keeps the old cursor and
  has moved it past all rows its request saw on arrival. `LocalInv` follows the loop of the
  startup: what is before `nextLocal` is committed, by itself or by a worker. It gives
  `ShippedStored`, and `Build` its condition that everything shipped is stored.
- `AbiLookup!IndInv`. `Known(k)`: the contract has an ABI under the key `k` and the
  cache has no `None` for it. Nothing makes a known key unknown, because ABIs are never
  taken away; every cached entry with an ABI, and every request that took its function
  from one, has a known key. So the second lookup finds an ABI as well.
- `ContractDownload!IndInv`. `TaskInv`: what an execution read of its row (`retriesRead`,
  the `no` it is about to cache) is still true or conservative, since rows never go back
  unless an administrator wrote them; one that is past the check or the store has settled
  its contract, which is what `TasksSettle` needs at every exit. `ImplementationsSent` is
  inductive beside it: an execution that stores a proxy has the implementation in hand until
  its message is sent, and only a death in between, recorded in `unsent`, loses it.
- `ResponseCache!IndInv`. The types with the two properties, which are inductive as
  they stand: the request that is between HSET and EXPIRE is what `EveryHashExpires`
  remembers, and the history of late fills what `OnlyLateFillsAreStale` does.

- `AbiDecoder` implements `SelectorTable` (`TableImplemented`): each action is mapped to
  a step or a stutter. `IndInv` gives what the mapping needs: the table of a startup is
  chosen from all committed rows, an ABI is committed once and with relevance 0 or that of a
  shipped one, and what a load adds is a committed row.
- `SelectorTable` implements `FunctionTable` for every selector (`FunctionImplemented`). Its
  stored ABIs with the selector become variants; several may give the same names. Once
  everything shipped is stored a new ABI is no shipped one, since an ABI is stored once, so its
  relevance is 0; this is what `DecodeData` builds on. `NamesImplemented` composes the two:
  every behaviour of `AbiDecoder` is one of `FunctionTable`. It assumes that an ABI with the
  function gives its inputs some names.
- `DecodeData!IndInv`. `TableInv`: the names in the table are those of a most relevant
  stored variant, and stay so since downloads have relevance 0 and stored variants stay
  (`TopKept`); a function that the table lacks has only variants of relevance 0.
  `RequestInv`: a selector that was in the table when it was checked, or when the request
  came, is there under the same names, since `add_abi` never overrides; this carries the
  check over the await. `BeforeInv` remembers of the previous answer that its names were and
  still are at the top of what is stored, and compares with the next one over a restart: the
  two can differ only if they tie, or if the ABI of the contract changed. `ContractInv`:
  what the caches may show has the stored ABI in it, and nothing else of a contract that did
  not change since the start of the process that gave the previous answer. The tree is used
  through `within` (a call is within its parent and all that the parent is within), which
  takes the place of induction over the depth.
- `EventQueue`: `HandlerInv`. A handler with an open channel is alone with its event, which
  is unacknowledged; a contract that is not in its `todo` has got a task; one at `nack` has
  failed. So an ack or nack that counts is a `Handle` or `Drop` of `EventDelivery`.
  `EventsHeld` is inductive with it: an event that RabbitMQ waits for has a handler whose
  channel is open.
- `SafeContracts`: `LockInv` counts: without the key there are at most as many executions
  as expiries under a holder, with it one more. Releasing a key ends an execution as well.
  `ProgressInv`: an execution has inserted every deployment it has passed, so one that
  releases its key leaves a complete chain.
- `Events`: `Composition` shows that each step of the composition is a step or stutter of
  either part, so the invariants of the parts carry over. `NothingForgotten` needs both:
  `OwedInv` follows a handler that checked its chain until its ack, and `Owed(ch)` is kept
  by every step of the workers (`OwedStays`): a message that is taken becomes an execution,
  one that dies or fails is a message again, one that ends has completed the chain.
- `Pagination!IndInv`. `PastInv`: a row that a forward walk owes is not before the offset it
  has reached, unless a row before it left; a row it has shown is before it, unless one
  before it came. The rank of a row changes by one with a row that comes or goes before it
  and with no other. `LinksInv` is the same for the links of the last answer. `BehindInv` is
  the other half, for `NothingElseShown`: a row that the walk began behind is still behind it,
  unless a row before it moved it across. The
  assumption that the default page size is not above the largest is needed: otherwise the
  limit in a link would be cut when it is followed.

`NothingForgotten`, `ImplementationsSent` and `TasksSettle` are the safety halves of
`EventsAreSettled` with `ChainsComplete`, of `ProxyFollowed` and of `MessagesAreHandled`: they
say that in no state the work has been lost, and fairness alone does the rest. The halves are
proved for every instance, the rest is checked by TLC on the small ones.

Only model-checked: the list of contested functions (an ASSUME of `MCDecodeData`), the
liveness properties (fairness and ENABLED are outside the prover), and the three violations.
Every invariant of every passing run, the action properties `AbiKept` and `TasksSettle`, and
the refinements `TableRefined` and `DeliveryRefined` are also proved.

## Not modelled

- Byte-level decoding (eth-abi, `MultiSend.from_transaction_data`) and the normalisation of
  values: whether they succeed is an input of `DecodeData`.
- The HTTP clients of the explorers: their answers are inputs of `ContractDownload`.
- ABIs that come with a library (Safe, MultiSend, exchanges); functions of the shipped ABIs
  that no other shipped ABI has, but one.
- Database sessions and the connection pool: their visible effect is in the transactions of
  `AbiDecoder` and the commits of the other modules.
- The login of the admin interface and its generated views. What an administrator does to
  the table of contracts is in `ContractDownload`, `DecodeData`, `SafeContracts` and
  `Pagination`; an edit of an address is in none. In `AbiLookup` the ABI of a contract is
  stored and replaced but never taken away, so `AccuracyNotUnderstated` says nothing of a
  contract that an administrator deletes.
- The command line, which runs the same services once; serialization models, settings,
  logging, migrations.
- Several web replicas that start at once behave like the startup that meets a worker's
  insert of a local ABI; for events, a second replica is another set of handlers.

## Plan

Done: every component that changes state is modelled, except for what the list above says.
Left, in this order:

1. `ResponseCache` composed with `ContractDownload`: the version as the row it writes.
2. `AbiLookup` composed with `DecodeData`: the caches themselves, and the ABI of another chain,
   in place of `visible`.
3. Two web replicas in `AbiDecoder`, each with its own table and cursor.
