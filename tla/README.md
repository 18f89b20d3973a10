# Formal model of kiro-rs

kiro-rs is a proxy that offers the Anthropic Messages API and answers from the
Kiro / Amazon Q back end, with a pool of accounts it shares between clients.
This directory holds a TLA+ model of it: modules checked with TLC on small
instances, and theorems about them, for every value of the constants, checked with
TLAPS. The reference is the Rust code under `src/` (paths below are relative to
`src/src/`). `PROJECT.json` lists the components, the runs, the mutants that show
each property can fail, the source lines each definition stands for, the hazards and
the theorems.

## 1. Inventory

| Component | Code | State | Operations | Hard behaviour | What makes it correct |
|---|---|---|---|---|---|
| Credential pool | `kiro/token_manager.rs` 733-1760, 2130-2700 | `entries` (one mutex), `current_id`, `session_affinity`, `load_balancing_mode`, guards held by requests | acquire, wait, release, report_*, heal, the operator's edits | several mutexes taken one after another, sleeps and awaits between reading and acting, dropped futures, ids given out again | limits are hard, slots are counted, only suitable credentials are taken, every acquisition ends, what is enabled has failures left |
| Token refresh | `kiro/token_manager.rs` 1769-2015, 2742-3130, 3483-3600 | tokens in `entries`, `refresh_lock`, the credentials file, the authentication server (rotates refresh tokens) | try_ensure_token, prepare_request_token, force_refresh_token_for, update_refresh_token, reload | double-checked lock, snapshots taken before an await, rotation, crashes between exchange and save and within the save | no consumed refresh token is presented, one exchange per expiry, a rotated token is kept |
| Persistence of credentials | `kiro/token_manager.rs` 1045-1190, 1883-1925, 3135-3470 | the credentials file, ids | new, add, delete, persist | snapshot and write are two steps; ids computed and used in two | file equals memory when quiet; unique ids |
| Call retries | `kiro/provider.rs` | locals of the loops, per-request set of forced refreshes | call_api_with_retry, call_mcp_with_retry | which answer blames which credential; bounds on attempts; what is held during backoff | a usable credential is found, the blameless are not disabled, every slot comes back |
| Event stream decoder | `kiro/parser/` | buffer, state, error count | feed, decode, iteration | frames split over chunks, corrupt frames, recovery | every sound frame comes out once, in order, and no other |
| Stream state | `anthropic/stream.rs` | SSE blocks, thinking and tool-use state, buffers | one per event of the upstream | text cut anywhere, tags and calls hidden in it, several kinds of blocks | the stream is well formed and says what the whole text says |
| Request conversion | `anthropic/converter.rs` | none | pure | pairing of tool uses and results, names, merging | what Kiro is sent is a conversation it accepts |
| Handlers, web searches | `anthropic/handlers.rs`, `websearch.rs`, `websearch_loop.rs` | per-request tracer, usage hook, rounds | post_messages and its variants, run_round, searches | twenty ways out of a request; clients that leave; slots across calls | one record and one trace; no slot held while waiting for another; each call reaches the client once |
| Prompt-cache metering | `anthropic/cache_metering.rs` | entries, session index, in-flight marks, dirty flag, file | lookup, record, begin/finish in-flight, evict, flush | writers that are dropped, expiry, capacity, a flush in two steps | the index is exact, no waiter waits for nobody, nothing clean is unsaved, a prefix is found again |
| Client keys, groups | `admin/client_keys.rs`, `admin/groups.rs`, `anthropic/middleware.rs`, `main.rs` | keys and their index, the registry, groups of credentials, three files | create, rotate, verify, rename and delete of groups, start | cascades over three stores, saves that fail, crashes | the index is exact; a bound key stays within its group, and keeps what it may use |
| Logins | `admin/service.rs`, `kiro/auth/` | sessions, callback servers and their ports | start, poll, complete, callback, clean | two polls and a pasted callback race for one code; ports are few | a code is exchanged once, for its own session; ports come back |
| Accounts | `admin/service.rs`, `kiro/token_manager.rs` 3135-3560 | the list, balances by id | add, relogin, delete, balance, quota | every await between a check and its use | ids and tokens stay apart |
| Binary update | `admin/binary_update.rs`, `admin/service.rs` 940-1480 | files beside the program, config, scheduler | pull, apply, rollback, daily update | overlapping operations; a death between two renames; an undo that fails as well | a program is always at hand; no restart goes back unasked |
| Proxy pool | `admin/proxy_pool.rs` | proxies, failure counts | probe, assign, enable | result applied after an await | only failing proxies are disabled |
| Usage rewriting | `anthropic/cache_rewriter.rs` | none | pure | rounding | totals are preserved |
| Statistics, traces | `admin/usage_stats.rs`, `admin/trace_db.rs` | JSONL, SQLite | append, aggregate | I/O | - |
| Formats, start-up, UI | `kiro/endpoint/`, `model/`, `main.rs`, `common/`, `admin-ui/` | none after start-up | - | - | - |

Interaction: a request passes `middleware.rs`, which looks its key and group up;
`handlers.rs` converts it and calls `provider.rs`, which loops over acquisitions from
`token_manager.rs` and upstream calls and reports each result back; the answer's chunks
go through `kiro/parser` into `stream.rs` or are read whole; the web-search loop makes
several such calls, and MCP calls between them; the cache meter is asked before the call
and told after it. `admin/` edits pool, keys, groups and files while requests run.

## 2. Plan

Done, in this order:

| Module | Models | Extends | Run | Proved in |
|---|---|---|---|---|
| `CredentialEntry` | one entry of the pool and the operations on it | | those of its users | with its users |
| `CredentialPool` | `MultiTokenManager` as requests and the operator share it | `CredentialEntry` | `pool` | `CredentialPool_proofs` |
| `SlotPool` | what the concurrency limits promise (abstract) | | `pool` | `CredentialPool_proofs` |
| `TokenRefresh` | OAuth renewal, the lock, the file, the server | | `refresh_crash`, `refresh_live` | `TokenRefresh_proofs` |
| `CallRetry` | the two retry loops of the provider | `CredentialEntry` | `retry_calls` | `CallRetry_proofs` |
| `EventStreamDecoder` | framing, checksums and recovery | | `decoder_damage` | `EventStreamDecoder_proofs` |
| `ResponseText` | what is looked for in a model's text | | `stream` | with `SseStream` |
| `SseStateManager` | which events of a stream are let through | | `stream` | with `SseStream` |
| `SseStream` | `StreamContext` and its client | the two above | `stream` | `EventStreamDecoder_proofs` |
| `AnthropicStream` | a well-formed stream (abstract) | | `stream` | `EventStreamDecoder_proofs` |
| `CacheMeter` | the prompt cache | | `cachemeter` | `CacheMeter_proofs` |
| `MessagesHandler` | one request through the handlers and the search loop | | `handler` | `MessagesHandler_proofs` |
| `RequestConversion` | a client's conversation and the one sent to Kiro | | `convert` | `MessagesHandler_proofs` |
| `ClientAccess` | keys, groups, credentials' groups, starts | | `access` | `ClientAccess_proofs` |
| `AccountList` | accounts added, renewed, removed; balances | | `logins` | |
| `LoginSessions` | browser and device logins | `AccountList` | `logins` | `AdminService_proofs` |
| `BinaryUpdate` | the online update | | `update` | `AdminService_proofs` |

`MC<module>` holds the instances for TLC and the statements of section 5; `BinaryUpdate` needs
no instances but numbers, which are in `update.cfg`.

The seams between the modules: `CallRetry` uses the entry operations of `CredentialPool`
and takes an acquisition as one step, whose interior `CredentialPool` has; `MessagesHandler`
takes a call as one step that ends as `CallRetry`'s do; the refresh that `CredentialPool`
and `CallRetry` call is `TokenRefresh`'s; the frames that `EventStreamDecoder` yields are
the events of `SseStream` and of `MessagesHandler`; `LoginSessions` extends `AccountList`
with the sessions that lead to an account.

Left, most important first:

1. `ProxyPool` (a health check applied after an await).
2. The rewriting of usage numbers, the statistics file of the pool.

## 3. The modules and the code

### CredentialEntry, CredentialPool

| Model | Code (`kiro/token_manager.rs`) |
|---|---|
| `entries` | `entries: Mutex<Vec<CredentialEntry>>`, by id; the fields that scheduling reads |
| `currentId`, `affinity`, `mode` | `current_id`, `session_affinity`, `load_balancing_mode` |
| `pc`, `target`, `late`, `attempts`, `budget` | where a request is in `acquire_context_for_session`, and its locals |
| `guard` | the `ConcurrencyGuard` the request holds |
| `stale`, `orphans` | history only: ids given out again while in use, guards of deleted credentials |

An action is one critical section of a mutex, or several in a row where another task could
do nothing in between that shows. `ReserveContext`, `CheckBinding`, `ReserveOne`,
`CountWaiting`, `JoinWaiting`, `PollSticky`, `ReserveBest`, `WaitForBest` and `TryAutoheal`
are the steps of the selection; `EnsureToken`, `Bind` and `ReloadFromFile` of the rest of
the acquisition; `Report...` is what a result does to the entry; `SetDisabled` and the
others below it are the operator's. A task that sleeps or awaits may be dropped
(`Cancel`), and so give its guard back. Entry operations (`Occupy`, `ReleaseSlot`, `Fail`,
`Throttle`, `Autoheal`, ...) are functions of the pool in `CredentialEntry`, which
`CallRetry` uses as well.

Abstracted: clock times (a wait budget runs out, a cooldown ends and a binding expires by
actions of their own), the values of priorities and limits (a few), models (opus or not),
what a token is, statistics, and the order of equally good credentials in the vector,
which is left open. `EnsureTok` changes what a refresh changes; that it also stores the rest of
the copied credential over an edit made meanwhile is in `TokenRefresh` (`EditsKept`, section 5).

### SlotPool

A counting semaphore per credential with a limit that may change. `CredentialPool` maps the
guards to the holders and `max_concurrency` to the limit (`Semaphores`).

### TokenRefresh

| Model | Code |
|---|---|
| `entries`, `file` | tokens, one editable field and `disabled`, in memory and in the credentials file |
| `damage` | what is the matter with the file: nothing, emptied by `std::fs::write`, or partly written |
| `lock` | `refresh_lock`, a tokio mutex held over awaits |
| `pc`, `seen`, `image` | where a task is, its clone of the credentials, the snapshot it is about to write |
| `live`, `issued`, `aged` | the authentication server: the refresh token it accepts, how many tokens it has issued, which access tokens are over |
| `torn` | history: credentials of which a rotated token was lost between server and file, or with the file |

Tasks are calls of `try_ensure_token` ("request"), of the functions behind admin queries
("query": `prepare_request_token`, `get_usage_limits_for`, ...), of
`force_refresh_token_for` ("force"), and of the operator's edits. `Begin` is the look
without the lock, `AcquireLock` the second look, `Grant` and `Refuse` the exchange,
`Store`, `Collect`, `Truncate` and `Write` what follows, `ReadFile`, `Compare`, `Adopt` and
`Condemn` `try_reload_credential_from_file` and `report_refresh_token_invalid`. The server,
the Kiro IDE, which uses the same file, and restarts are the environment.

`std::fs::write` is two steps: `Truncate` opens and empties the file, `Write` fills it. Either
may fail, a death between them leaves nothing or a part, and what another save has written in
between is overwritten from the start. Who reads the file meanwhile finds nothing newer in it, and so
condemns its token; a start (`Restart`) takes an empty file for no credentials and stops at a part. The
IDE is taken to replace the file whole. What is written is taken to be on the disk: the code
calls no fsync, and a loss of power is not modelled.

### CallRetry

One iteration of `call_api_with_retry` or `call_mcp_with_retry` is an acquisition and a
branch for each kind of answer. What the upstream answers depends on the `persona` of the
credential, so that a property can say what a call ought to find. Acquiring is one step, or
one for each renewal that fails in it (`Acquire`, `AcquireFails`, `FindFull`, `FindNone`;
`CredentialPool` has the interior). A "lapsed" credential has an access token that is over
and can be renewed, a "dead" one cannot; with "no client" no HTTP client can be built, which
ends the call (`NoClient`). A renewal may fail for any credential, in the acquisition and after
a 401 (`RenewFails`): the server out of reach, 5xx, too late. `outages` notes of which
credentials one failed that way, since the code counts that against them. `Succeeds` keeps the slot for
the reader of an API call and gives it back when an MCP call returns. Assumed:
`account_throttle_failover` is on, as by default; a cooldown outlasts the calls; an exchange
always replaces the refresh token; a request is not dropped halfway (`CredentialPool` has that).

### EventStreamDecoder

Bytes are cells, frames are runs of cells, a checksum finds every damage. `Feed` is
`feed`, `DecodeFrame`, `EndIteration` and `TryRecover` are the cases of `decode` and of the
iterator, `End` the end of the response in the readers. A length where there is no sound
prelude is anything (`Misreadings`), but the same every time. A chunk that does not fit the
buffer is dropped and the stream goes on behind it, as in the readers (`dropped`). What
headers and payloads say is left out, except that headers may be unreadable (`odd`).

### ResponseText, SseStateManager, SseStream, AnthropicStream

A text is a sequence of cells; a tag has two, so that a chunk may end within one
(`ResponseText`). `SseStateManager` and `StreamContext` are one record, `ctx`, with the
fields of the structs, and their functions are operators from record to record that append
to `out` what the function returns. A step of `SseStream` is one event of the upstream
(`Say`: a piece of text of any length, `CallTool`, `Reason`, `Limit`, `End`) or one event
read by the client (`Send`). `client` is what the client has put together; `AnthropicStream`
is the grammar it relies on, and `Sse` the mapping. The loops of the code are recursive functions: one over
the blocks in `StopAll`, a repetition until nothing is left to do (`Repeated`) for the searches in a text
and the rounds of `Sniff`; `ContentAhead`, `ContentInside` and `ContentBehind` are the three places that the
loop of `process_content_with_thinking` can be at. Left out: usage numbers, spaces in texts, and
the order in which a hash map is visited.

### CacheMeter

| Model | Code (`anthropic/cache_metering.rs`) |
|---|---|
| `entries`, `session_index`, `inflight`, `dirty` | the fields of `Inner`, under one lock |
| `file`, `flush` | the persisted entries; `flush_to_disk` between collecting and writing |
| `req` | where a request is in `compute_cache_usage_async`: prompt, what it reads, whether it writes |
| `now` | the clock in seconds, which may stand still between two steps |
| `unsaved` | history: a write failed and none has succeeded since |

A hash is the pair of a session's seed and the texts of a prefix; a prompt is its tools,
system blocks and messages. `Lookup`, `BeginInflight`, `Wake`, `Record` and
`FinishInflight` are the critical sections of a request, `EvictExpired`, `FlushCollect` and
`FlushWrite` the background task, `ClearAll` and `ClearSession` the operator. `Dropped` is
a request whose client leaves; the guard in its future then withdraws the mark.

### MessagesHandler

One request on one of five routes (`Route`): a search alone, the search loop, a stream, a
buffered stream, a whole answer. `pc` is where its future waits, `got` what has been decoded
of the upstream answer under way, `history` and `presentation` what the loop carries from
round to round, `slot` the `SlotGuard`, and `usage`, `traces`, `answer` what
`UsageRecordHook`, `RequestTracer` and the response were given. The provider's call ends in
`CallSucceeds` or `CallFails`; each upstream event is an action; `...Breaks` and `...Ends`
are the ends of the answer on the different routes, `SearchNext`, `SearchFails`,
`AppendSearchRound` and `Flush` the loop. How text becomes SSE events is `SseStream`'s.

### RequestConversion

A client writes a conversation message by message and sends it at any point; `Convert` is
`convert_request` on it. The operators follow the functions of `converter.rs`: merging of
neighbouring messages (`CollectMessage`), pictures (`TakePicture`), tools and names
(`ConvertedTool`, `SentName`), pairing (`validate_tool_pairing`), placeholders. A loop is a
recursive function over its list (`Looped`, `Chosen`). Texts are pieces, a
schema is the set of fields the code looks at, a short name is given by a table.

### ClientAccess

| Model | Code |
|---|---|
| `keys`, `by_key`, `next_id`, `keys_file` | `ClientKeyManager.Inner` and client_api_keys.json |
| `groups`, `groups_file` | `GroupManager` and its file |
| `groups_of`, `creds_file` | the `groups` of the credentials, in the pool and in credentials.json |
| `config` | the keys in config.json |
| `busy` | where a handler of `admin/handlers.rs` is, between its steps |
| `reqs` | a request: verified by `middleware.rs`, bound to a group, served |
| `issued`, `seen`, `pairs` | history: plaintexts given out, groups of a request's key, what a renaming must keep |

A renaming is `RenameGroup`, `RenameCreds`, `RenameKeys`, a deletion `CheckDelete`,
`DeleteCreds`, `DeleteKeys`, `DeleteGroup`; `Start` is what `main.rs` does with the files.
Each save may fail, which the code only logs, and the process may stop at any step. A save is
one step here, and a start finds each file as it was last saved: a file that a death has left half-written
(client_keys.rs:136, groups.rs:86) and the empty managers `main.rs` (187-194, 207-211) goes on with when one
cannot be read are not modelled. `TokenRefresh` has such files for the credentials.

### AccountList, LoginSessions

A refresh token is the login it came from and how often it has been exchanged. `entries` is
a sequence: nothing in the code's type keeps ids apart. A task (`pc`, `job`) adds an account
(`CheckDuplicate`, `Validate`, `ChooseId`, `Push`), renews one (`DisableTarget`,
`ReplaceToken`, `EnableTarget`), deletes one, or asks for a balance; it saves after each
change. `LoginSessions` adds the sessions: `port`, `server` and `channel` are the callback
server of a social login and the oneshot channel it answers in, `PollSocial` and
`CompleteSocial` the two ways a callback is found, `Verify`, `Take` and `Exchange` what is
done with it, `PollDevice` and `DeviceGranted` an IdC login, `Clean` the cleaner, `StopServer`
what a dropped channel makes a server do unless it is reading from a silent connection. In the code
the server's handle is dropped when the exchange is over, and the port is held until then
(service.rs:2614-2684); here the server may stop once the session is taken, earlier than it does. The
exchange ends, since its HTTP client has a timeout.

### BinaryUpdate

`disk` is the directory of the program: paths with a version and whether the file is whole.
On Linux `/proc/self/exe` follows the running file when it is renamed (`self`), and so does
a file that is being written (`open`); `Rename` and `Unlink` say so. A task goes through
`ResolveTargetVersion`, `UseStaged` or `DownloadReleaseBinary`, `CreateStaged`, `CopyEnds`,
`CleanupOtherStaged`, `RemoveBackup`, `MoveAside`, `PlaceStaged`, `RecordApplied` (an
update), or `RestoreBackup`, `PutBack`, `ForgetUpdate`, `RecordRollback` (a rollback). Where
one of the two renames of either fails, `TakeBack` renames back what was moved away, which
may fail too, and nobody looks. The scheduler does the same once a day. `history` notes the version that ran last, whether a
backup was put back since, and whether something happened that properties except: `overlapped`, one
operation began while another was under way or the exit was due; `disturbed`, that, a death between two
steps, a rename that was not taken back, a copy or config.json that could not be written.
Every version is taken to behave as this code does.

## 4. The runs

`tlc -config <run>.cfg <module>`; times are for two workers.

| Run | States, time | Properties | What it shows |
|---|---|---|---|
| `pool` (MCCredentialPool) | 305 k, 95 s | `SlotAccounting`, `EnabledBelowThreshold`, `OnlySuitableTaken`, `ImplementsSlotPool`, `LimitRespected`, `EveryAcquisitionEnds` | Two requests of one conversation, the second bound to a group and asking for opus, on one or two credentials of different kinds, limits, tiers and groups, in both load balancing modes, with waits, cancellations, everything a refresh or a call can end with, cooldowns, healing and one operation of the operator of every kind, credentials added and deleted included, between any two steps: what is taken suits, limits hold, slots are counted and come back, what is enabled has failures left, every acquisition ends, and the pool implements one counting semaphore per credential. |
| `refresh_crash` (MCTokenRefresh) | 1.9 M, 30 s | `OneFreshToken`, `OldTokenNotPresented`, `TokenKept` | Two credentials refreshed by three requests and a query, with restarts (in the middle of a write of the file too), dropped tasks, failed exchanges, lost answers, writes that fail, servers that replace the refresh token or not and answers without a lifetime: one refresh for all, never with a used-up refresh token, and a rotated token is lost only between the answer and the end of its write, or with the whole file in the middle of any write. |
| `refresh_live` (MCTokenRefresh) | 206 k, 40 s | `TypeOK`, `EveryRefreshEnds` | A request and an admin query that find the same token over and wait for one lock, either dropped at any await, while the operator edits or switches the credential and replaces its token, saving without the lock, and the Kiro IDE rotates: the lock is held exactly during a refresh, and whoever waits for it gets it, also after one whose refresh failed. |
| `retry_calls` (MCCallRetry) | 618 k, 110 s | `SlotsReturned`, `Blameless`, `FailoverReaches`, `EveryCallEnds` | An API call, well formed or malformed, and an MCP call over two credentials of all kinds (the better one last, so that calls meet the other first), bad in any way, with and without a limit on slots, and over no credential; renewals may fail for no fault of the credential. A call some credential of which works does not fail, every way out of an iteration gives its slot back, no good credential is disabled or cooled down unless a renewal of its token failed for no fault of it, and both calls end, whatever is healed and disabled again meanwhile. |
| `decoder_damage` (MCEventStreamDecoder) | 730 k, 50 s | `OnlyIntactInOrder`, `SoundFramesKept` | Three frames, one of which may have headers that cannot be read, with no cell or any one cell damaged, every misreading of lengths and chunks of four sizes, one of which may not fit the buffer: no damaged frame comes out, none twice, and no sound frame is thrown away. |
| `stream` (MCSseStream) | 472 k, 20 s | `StreamedAsWhole`, `ThinkingSigned`, `ImplementsAnthropicStream` | All texts of up to three pieces (lines, thinking, calls written as text, fences, stray words), cut into chunks anywhere, and six texts among which two other events come (tool calls, native thinking, limits), with and without thinking, ended or broken off anywhere: the client sees a well-formed stream with the words, the thinking and the calls that the whole text holds. |
| `cachemeter` (MCCacheMeter) | 143 k, 15 s | `IndexExact`, `MarkHasWriter`, `SavedWhenClean`, `NextTurnReads` | Two requests of three prompts, two of them turns of one session, on a memory of three entries, with expiry, eviction, clearing, a restart or a failed write, and an old file: the session index is exact, no mark outlives its writer, what is clean is saved, and a later turn reads what an earlier one left. |
| `handler` (MCMessagesHandler) | 1.5 M, 15 s | `OneRecordOneTrace`, `NoHoldAndWait`, `SearchStaysInside`, `LoopCallsFit` | A request of every route with up to four events in each upstream answer, one search round and the round after it, failing or broken off anywhere, its client leaving anywhere: one usage record and one trace that agree, no slot held while another is waited for, no search handed to the client, each client call handed over once. |
| `convert` (MCRequestConversion) | 1.6 M, 60 s | `UsesAnswered`, `NamesRestored` | Every conversation of up to five messages of the user, the assistant or another role, with tool uses and results of two ids, pictures, names that differ in case or are too long, and three kinds of system prompt: no tool use is sent to Kiro unanswered, one that the client answered in its next message is sent with the result in the turn right behind it, and the tool names lead back to those of the client. Where a client misplaces a result, only its id is matched (AnsweredRightBehind). |
| `access` (MCClientAccess) | 3.9 M, 60 s | `ByKeyExact`, `ServedWithinGroup`, `RenameKeepsAccess` | Four calls of an administrator (keys created, edited, rotated, deleted; groups created, renamed, deleted) around a request, with a crash and a failed save, from a usual and from an old deployment: the index of the keys is exact, a bound request is served within its group, and a renaming keeps what the keys could use. |
| `logins` (MCLoginSessions) | 545 k, 90 s | `CodePresentedOnce`, `OwnCallbackOnly`, `SessionsEnd` | Two logins, social or IdC, a new account and a renewal, compete for one callback port, with polls from several tabs, callbacks pasted into either dialog, callbacks that come after their session, silent connections, expiry, dropped requests and a restart, while another request adds, deletes, asks for balances or disables accounts over their quota: a code is exchanged once, by its own session, and abandoned sessions give their port back. |
| `update` (BinaryUpdate) | 1.2 M, 80 s | `Startable`, `RollbackHonest`, `NoDowngrade`, `ScheduledUpdateArrives` | Pulls, applies and rollbacks of an operator overlap with the scheduler while releases come out, downloads, copies, renames and writes fail, renames cannot be taken back and the process dies at any step. Unless updates overlapped, a program that works is always at hand, at its path unless the failure or the death came between two renames; undisturbed, a rollback puts back what it announces and automatic updates arrive; and whatever happens no restart goes back to an older version. |

**Bounds.** The bounds are on the environment: how many calls a request makes, how often the
operator acts, how many faults there are.

- *pool*: the races need two requests, one between reading and taking, one taking, disabling
  or dropping in between; the second credential is needed for a choice, an id left free for
  adding. `MaxFailures` is 1 instead of 3: nothing depends on its value but the number of
  reports needed, and at 1 self-healing is reached soonest. `MaxCalls`, `MaxAdmin` and
  `MaxReloads` are 1.
- *refresh*: `MaxEvents` bounds expiries, restarts and rotations by the IDE: three in `refresh_crash`,
  one to make a token old and two to hit what follows. In `refresh_live` the access
  token may be over from the start (`StartsFresh`), so one rotation by the IDE is enough to make a
  renewal fail; two tasks are what it takes for one to wait for the lock the other holds, and two
  of the operator's to disable a credential and then to replace its token.
- *retry_calls* uses the program's own constants (3 failures, 3 and 9 attempts). Nine is
  exactly enough for two credentials that answer 401 for ever (four attempts each: one for
  a renewal that does not help, three to reach the threshold) and the one that works. There
  are no groups: a request of another group may heal the bad credentials again meanwhile, and
  then no budget is enough. The API call is malformed or not, so that the budget is tried
  with both kinds of call. Of the pairs of personas those with the better one last are taken: by
  priority the first is met first, and in balanced mode the two are interchangeable.
- *decoder_damage*: a prelude has 2 cells and a frame 3 or 4 instead of 12 and 16 or more
  bytes: what matters is that a prelude is shorter than the shortest frame and that chunks may
  end within, at the end of and behind either. `MaxErrors` is 3 instead of 5.
- *stream*: three pieces of text are one before, one within and one behind whatever is hidden
  in it; the guard against repetitions trips at 2 instead of 32 repetitions, the longest call
  held back has 6 cells instead of 256 KB, so that both limits are met. Texts with two further
  events are a chosen six; a model does not mix the two forms of thinking (section 5 has what
  happens otherwise).
- *cachemeter*: three entries, two per session, are the least with which both evictions choose;
  lifetimes of one and two seconds on a clock up to 2 let one prefix expire under another.
- *handler*: one search round and the one that is over the limit; four events in each answer
  are a text, a search, a call and what ends them.
- *convert*: five messages are two of each role and one that lies between; ids and pictures
  occur twice, so that uses and results can be apart, doubled and one-sided.
- *access*: four calls are a renaming with three of anything around it.
- *logins*: two sessions and one port, so that a session can get the port of an earlier one.
- *update*: three releases are the one that runs, the one being installed and one that
  overtakes it; one operation of the operator beside the scheduler's daily ones; two failures, so
  that a rename fails after something else has, and two deaths (an undo may fail freely).

**Fairness.** `FairSpec` of `CredentialPool`, `TokenRefresh` and `CallRetry` has weak
fairness of each task's own steps: tokio runs a task that is ready, the HTTP client gives up
after a timeout, so an exchange or a call ends, and the clock moves on, so that a wait budget
ends. In `LoginSessions` (`FairLoginSpec`) it is the clock, the cleaner's timer, and the callback servers, of
which `VisitorsSpeak` assumes that who opened a connection speaks or closes it; without
this assumption a port is not released (section 5). In `BinaryUpdate` it is the tasks, the
scheduler's minute, the timer of the exit and the container that starts the program again.
Nothing is assumed of the operator, of the servers' being well, of clients going away or
staying, of cooldowns, of failures or of the IDE. Runs with liveness properties use no symmetry.

**Deadlock** is checked where the system runs on; what is finished stutters explicitly. The
runs `convert` (one request), `handler` (one request, which is answered or dropped),
`access`, `logins` and `update` (bounded calls and faults) may stop, and say so.

**Mutants.** Beside the definitions there are forms of the code with a plausible error
(`...OffByOne`, `...Unchecked`, ...); `PROJECT.json` names for every property of every run
one that violates it.

**Also true.** Each cfg names, in a comment, further properties of its module that hold on
the instance: `TypeOK` and `WaitingCovered`, `OnlyAutoDisabledHeals`, `LoadSpread`,
`SlotsDrain` of the pool; `IntactStreamRead` of the decoder; `FloodStopped`,
`ToolInputsWhole`, `ReasonFits` of the stream; `CapacityHolds` of the cache; `TurnsKept`,
`PicturesSentOnce`, `HistoryToolsDeclared` of the conversion.

## 5. Where the code and its statements differ

Each statement below is a definition in an `MC` module, or at the end of the module itself.
`<part>_unkept.cfg` is an instance on which TLC finds it violated: the first one as the file
stands, another one by exchanging it for the one in the file (they are in its comments). For
`update` they are checked on the instance of the run itself.

| Statement | Configuration | What the code does |
|---|---|---|
| `WaitingExact` | `pool_unkept` | a request dropped while it sleeps stays counted in `waiting` (token_manager.rs:1713) |
| `ActiveExact` | `pool_unkept` | the guard of a deleted credential lowers `active` of one added later with its id (token_manager.rs:1257) |
| `OperatorsDisableHolds` | `pool_unkept` | a reload from the file enables what the operator disabled meanwhile (token_manager.rs:2003) |
| `HealsOnlyWhenAllDisabled` | `pool_unkept` | self-healing runs when nothing suits one request, the rest being enabled (token_manager.rs:1692) |
| `DeletesOnlyDisabled` | `pool_unkept` | an enabled credential can be deleted (token_manager.rs:3440) |
| `ForcedOncePerToken` | `refresh_unkept` | of two forced refreshes the second presents the token the first used up (token_manager.rs:3545) |
| `OnlyOwnTokenLost` | `refresh_unkept` | a death in the middle of any save loses the tokens of all credentials, whose file is emptied first (token_manager.rs:1827, 1902) |
| `RotationReachesFile` | `refresh_unkept` | a snapshot taken before a refresh is written after it (token_manager.rs:1883) |
| `EditsKept` | `refresh_unkept` | a refresh stores the copy it began with over an operator's edit (token_manager.rs:1822) |
| `ReplacedOnlyWhenUnused` | `refresh_unkept` | a refresh under way overwrites the token the operator put in (token_manager.rs:3498) |
| `CondemnedOnlyWhenDead` | `refresh_unkept` | of two requests refused because the IDE rotated the token, the first reloads the new token and the second disables the credential (token_manager.rs:1594) |
| `TriesPerCredential` | `retry_unkept` | one failing credential may get all attempts of a call (provider.rs:440) |
| `SuspicionHeeded` | `retry_unkept` | an MCP call keeps calling with a suspected account (provider.rs:386) |
| `RevokedSurvives` | `retry_unkept` | four concurrent calls with one revoked access token disable a good credential (provider.rs:690); `Blameless` holds up to three |
| `ClientErrorsFailOver` | `retry_unkept` | a credential for which no HTTP client can be built ends the call, whatever others there are (provider.rs:237, 309) |
| `OutagesForgiven` | `retry_unkept` | a network that fails is forgiven in a call, but in a renewal it counts and disables the credential (provider.rs:564, 674) |
| `DamageCostsOneFrame` | `decoder_unkept` | the frames behind a damaged one in the last chunk are never read (decoder.rs:306) |
| `OneDamageDoesNotStop` | `decoder_unkept` | one damaged byte in a prelude stops the decoder for good (decoder.rs:197) |
| `DiscussedCallsAreText` | `stream_unkept` | a call within a sentence is taken for a call when its chunk begins with it (stream.rs:538-544) |
| `EveryThinkingSigned` | `stream_unkept` | a block of thinking that is still empty when the stream ends is stopped without a signature (stream.rs:1960) |
| `QuotedIsText` | `stream_unkept` | a quoted tag starts a block when the quote came in the chunk before (stream.rs:160-163) |
| `ImplementsAnthropicStream` | `stream_unkept` | when thinking comes in tags and as events, deltas go to a block that has stopped (stream.rs:1544) |
| `OneWriter` | `cache_unkept` | a mark can expire, be evicted or cleared while its writer is at work; the next request becomes a second writer of the prefix (doc/真实缓存命中率90以上优化方案.md:245-274) |
| `FailedWriteRetried` | `cache_unkept` | after a failed write the memory stays marked clean until something else changes (cache_metering.rs:438) |
| `CreditsRecorded` | `handler_unkept` | a loop whose next round fails records no credits, one whose search fails records them all (websearch_loop.rs, `run_round`) |
| `WholeReasonFits` | `handler_unkept` | a whole answer cut within a call says it stopped for a tool and holds no call (handlers.rs:1335) |
| `SchemasAccepted` | `convert_unkept` | the placeholder for a tool that the history uses and nobody declares is sent with `$schema`, which is removed from all others (converter.rs:42) |
| `ThinkingAsked` | `convert_unkept` | with an empty system prompt the tags that ask for thinking are not sent (converter.rs:943, 947) |
| `ResultsHaveUses` | `convert_unkept` | only the results of the last message are checked for their uses; those in the history stay (converter.rs:675, 693) |
| `AnsweredRightBehind` | `convert_unkept` | ids are compared as sets: a result that a client places before its use, or turns after it, stays there; and of two user messages at the end the first is followed by an inserted turn, so a result in the second is not right behind its use (converter.rs:722, 766) |
| `AssistantContentFilled` | `convert_unkept` | a message of the assistant without text and calls goes out empty (converter.rs:1097) |
| `RootKeyWorks` | `access_unkept` | the apiKey of config.json is imported as a key, but a plaintext without the prefix `csk_` is refused (client_keys.rs:464; main.rs:251-252, README.md:177) |
| `RotatedStaysDead` | `access_unkept` | a rotation or deletion whose save failed is undone by the next start: the old plaintext is valid again (handlers.rs:1052) |
| `RollbackComplete` | `access_unkept` | when the credentials cannot be saved, the registry is renamed back and the credentials in memory keep the new name (handlers.rs:1540) |
| `SettingsKept` | `access_unkept` | two requests load config.json, change one key each and write: one change is lost (service.rs:1208) |
| `NoGroupMeansUnbound` | `access_unkept` | a request whose key is deleted after its verification is served as one that is bound to no group (middleware.rs:28) |
| `KeyGroupsRegistered` | `access_unkept` | a key is created with any group; nothing looks into the registry (groups.rs:6) |
| `CallbackUsed` | `logins_unkept` | a second poll finds the channel used up and drops the session before the first has taken it (service.rs:2543) |
| `MismatchKeepsPolling` | `logins_unkept` | after a callback with a wrong state the next poll drops the session (service.rs:2595) |
| `PortReleased` | `logins_unkept` | a silent connection keeps a dropped session's server, and its port (social.rs:42) |
| `FileLoads` | `accounts_unkept` | two accounts added at once get one id, and the next start refuses the file (token_manager.rs:1128, 3156) |
| `TokensApart` | `accounts_unkept` | two additions of one refresh token both pass the check (token_manager.rs:3191) |
| `RenewalEnables` | `accounts_unkept` | a renewal that fails halfway leaves the account disabled (service.rs:2907) |
| `ClientMatches` | `accounts_unkept` | a renewal replaces the refresh token and not the client it was issued to (service.rs:2796) |
| `QuotaOfOwner` | `accounts_unkept` | a balance asked for before a deletion disables the account that gets the id (service.rs:703) |
| `AnyStepTakenBack` | `update` | the rename that takes a failed one back may fail as well, which is ignored: no program is at its path, and nothing looks for the backup (binary_update.rs:404, 418, 443) |
| `LostToOverlap` | `update` | of two updates at once one removes, as an old backup or as other releases, what the other has just moved: no whole program is left in the directory (binary_update.rs:407) |
| `ReusedIsVerified` | `update` | what a failed copy left is used as a verified download (service.rs:1351) |
| `RollbackOffered` | `update` | a failed installation has already removed the backup that config.json promises (service.rs:1433) |

What else the modelling brought to light, visible in the modules but not stated as a
property: a newline before `<thinking>` is lost when the chunk ends with it; the input of a
tool call that cannot be parsed becomes `{}`; the texts of intermediate search rounds are
not shown; a failed search on the pure search route is answered with 200 and "no results"
and recorded as a success; that route answers with SSE even when `stream` is false; a client
that leaves mid-stream leaves neither usage record nor trace; the seed of a cache session
does not contain the client key, so that two keys share it; an IdC session found expired by
its poll is left to the cleaner; a poll that is dropped after the grant loses the login; a
renewal whose answer has no refresh token reports success and changes nothing; the reason of
an automatic disable is not in the file, so that after a restart it counts as the
operator's (token_manager.rs:1085); a second apply within the two seconds before the exit
works on `<program>.backup`; a version that was rolled back is applied again by the
scheduler the next day.

## 6. What is proved

With TLAPS (`tlapm <module>.tla`), for every value of the constants that satisfies the
named assumptions of the modules (finite sets of requests and ids, bounds that are
naturals, functions of the right type; nothing about how many there are). The bounds on the
environment are parameters as well, so that a theorem holds for any number of faults.

**The pool** (`CredentialPool_proofs`).

- `TypeCorrect`: `Spec => []TypeOK`. A request holds a guard exactly while it refreshes,
  binds, calls or reads.
- `SlotsAccounted`: `Spec => []SlotAccounting`. `active` is the number of guards out. By itself
  this is not inductive: the guard of a deleted credential may release a slot of a new one
  that has its id. `OrphansOut` says that this is so only for ids that were given out
  again, and `Inv == TypeOK /\ OrphansOut /\ SlotAccounting` is inductive. Each action either
  takes a slot with a guard (`TakeStep`), releases one, or touches neither (`QuietStep`);
  cardinalities change by one by `FS_AddElement` and `FS_RemoveElement`.
- `LimitHolds`: `Spec => LimitRespected`. Whoever gets a guard on a credential whose accounts
  are clean gets it while fewer are out than `max_concurrency`. `GuardMoves` says that a step
  moves no guard, drops one, or hands out a credential that is in `Candidates` when the step
  is taken; what `IsFull` compares is, by `SlotAccounting`, the number of guards.
- `SuitableTaken`: `Spec => OnlySuitableTaken`, from `GuardMoves` as well: what was true when
  the session's credential was looked up does not matter.
- `LoadIsSpread`: `Spec => LoadSpread`. `BestTaken`: a search that ends in a guard took one of
  `BestChoices`; `BestIsIdlest`: as `active` is the number of guards for ids not in `stale`,
  what the code's comparison ranks by is the load there really is.
- `EnabledStartsAfresh`: `Spec => []EnabledBelowThreshold`. This needs more than it says, since
  enabling resets one counter on some paths and both on others: `SanePool` adds that a
  credential disabled for failed calls still has refreshes to fail, and the other way round.
- `OnlyFailuresHeal`: `Spec => OnlyAutoDisabledHeals`. `RequestsStayOff`: whatever a request
  does, a disabled credential stays disabled (`StaysOff`), but for self-healing and a reload
  from the file; what self-healing enables was disabled for failed calls.
- `WaitersCounted`: `Spec => []WaitingCovered`. `WaitInv` adds `HealersWaitNot`: whoever tries
  self-healing has no target, so that it returns to its search without being counted for
  anyone. Only `>=` can hold: a request cancelled while it waits stays counted (the hazard at
  `token_manager.rs:1713`), and ids given out again while in use are excluded as `stale`.
- `PoolIsSemaphores`: `Spec /\ [](stale = {}) => ImplementsSlotPool`. While no id is given out
  again in use, `OrphansOut` makes the guards on a credential exactly its holders; `GuardStep`
  describes what each action of the pool does to guards and limits, in the terms of
  `SlotPool`, and each case is a step of it or a stutter. The hypothesis is needed: without it
  `ActiveExact` of `pool_unkept` fails. `pool` has no such behaviour in its bounds.

**Token refresh** (`TokenRefresh_proofs`).

- `LockCorrect`: `Spec => []TypeOK`, of which the part that matters is that `refresh_lock`
  is held exactly by the task between its second look and the end of its write. The
  strengthening `WellPlaced` says that only tasks that renew tokens are ever in these steps. It
  holds under everything the environment may do.
- `TokensUsedOnce` and `OneTokenAtATime`: no refresh token is presented that the server has
  replaced, and no two access tokens are fresh at once, under `OnlyLockHoldersRenew`: no
  forced refresh, no replacement by the operator, no restart and no IDE. Each of these really
  breaks it (`refresh_unkept` has two of them). The inductive invariants `TokensInStep` and
  `UsableInStep` relate memory, the holder of the lock and the server for each credential of
  which no answer was lost.
- `RotatedTokenKept`: `TokenKept` under `OnlyLockHoldersWrite` (only requests and queries, no IDE), whatever
  else the environment does: restarts at any step, writes that fail, dropped tasks. Once a refresh is over,
  memory and file hold the token the server accepts; a death or an error costs the token of a credential
  if it comes between the server's answer and the end of the write, and those of the others only if it
  comes in the middle of the write itself, which empties the file first. `FileInStep` follows the snapshot
  from its collection to its write and says when the file is whole. With saves outside the lock (an edit)
  an older snapshot may be written last, which is `RotationReachesFile` in section 5.

**Call retries** (`CallRetry_proofs`): `EverySlotReturned`, `Spec => []SlotsReturned`, by the
same counting as in the pool, with a lemma for each way through an iteration.

`GoodUnharmed`: `Blameless`, for any number of credentials, good and bad, and of calls, API and
MCP. It speaks of a good credential until a renewal of its token fails for no fault of the refresh token
(`outages`); the failures that other credentials meet are unrestricted. Until then a good credential is
charged only where the renewal of its token comes too late, since another request has already used the refresh token up; so
the failures counted against it and the renewals of its token together are never more than the requests that have
been through a renewal (`Spared`). The first of them renews, and so fewer than as many fail as there are.
`TokenKnown` and `TokenNew` are what a request knows meanwhile of the token in its hands. Hypotheses:
`FreshPools`, the pools are those of a start; and `FewCalls`, there are at most `MaxFailures` requests
or no access token is revoked. The second is not for want of a
better argument: `RevokedSurvives` (section 5) is what one request more does. Nor is `outages`:
without it the property is false, `OutagesForgiven`.

`CallsReach`: `FailoverReaches`, for any number of calls, API and MCP, at the same time. While a credential
works, a call is not given up: each attempt it has made is paid for by a failure counted against one bad
credential (a renewal that failed, for whatever reason, counts as well), or by the one renewal this credential
gets from the call (`Paid`, `Afloat`); a credential that has cost its share is disabled or in cooldown, so another one is
acquired next. Whether a credential is bad may change: one whose access token is revoked is so until
its token is renewed (`Roles`). That somebody else has meanwhile disabled a
credential only saves attempts. A credential works whose answers are good and of which no renewal has failed
in an outage. The property itself leaves out calls that may spend attempts on failures that are
nobody's (`Starves`: the upstream's, or for an MCP call suspicion and full slots) and
credentials without a client, by which a call fails at once. Hypotheses:
`FreshPools`; `NoneGrouped`, since a call that finds nothing for its own group heals the bad credentials
under the others' feet; and `EnoughAttempts`, the attempts suffice for the bad credentials, of which each may
cost `MaxFailures + 1`: with 3, 3 and 9, as in the program, they do for up to three credentials. With
a fourth they do not, and the property fails.

**The decoder** (`EventStreamDecoder_proofs`), for any frames, sizes, chunks, damage and misread
lengths. `Before`, where frames begin, is a fold over their lengths; that it is what its
recursion says, and grows, is proved by the least counterexample (`BeforeSteps`,
`BeforeGrows`).

- `DecoderTyped`: `Spec => []TypeOK`.
- `DecodedInOrder`: `Spec => []OnlyIntactInOrder`. `InOrder`: the cells in the buffer come in
  order and lie behind those of every frame that is out. A frame is taken for one only where all
  its cells are there, sound and one behind the other (`AtFrame`), so it is the one that begins there.
- `NothingSoundLost`: `Spec => []SoundFramesKept`. `Kept`: while no chunk was dropped the buffer
  has no gaps and ends with the last cell fed, and the sound frames that began before its head are
  out. Recovery passes damaged cells and damaged frames only: a misread length is believed
  only where its checksum fits, which is where it is none.
- `IntactReadWhole`: `Spec => []IntactStreamRead`. `Whole`: without damage the buffer always begins
  where the next frame does, and what ends an iteration is that this frame is not there yet.

**The stream** (`EventStreamDecoder_proofs` too), for any texts, cut anywhere, and any other events among
their pieces, ended or broken off anywhere.

- `StreamIsAnthropic`: `StreamSpec => ImplementsAnthropicStream`, every step of the client is one of
  `AnthropicStream` or a stutter. The client lags behind the context, so the invariant (`StreamInv`) is
  about the client to come: the events on their way are legal, one after the other, and what the client will
  have put together after them agrees with the context's blocks, in kind and in being open (`Reads`, `Agrees`).
  Each function of the context then leads from a context that agrees to one that does (`Fine`). The deltas
  of thinking are sent past `SseStateManager`, to the block that is in the context's
  index; that it is open whenever they are sent is `Placed` and `Inside`.
- `ThoughtsSigned`: `StreamSpec => []ThinkingSigned`. Within tags a block of thinking has content only
  while something of the text is held back (`Inside`): whatever stops the block looks at that first, and
  signs.

Hypothesis of both: `~ MixesThinking`, a model thinks in tags or in events. Otherwise both are false
(section 5). That a recursive function is what its loop says, however many rounds, is proved for
`StopAll` and for `DrainSniffBuffer` by the least counterexample; of the searches in a text all that is
used is where their results may lie, of the guard against repetitions nothing.

**The cache** (`CacheMeter_proofs`).

- `IndexAlwaysExact` needs only that entries keep their fields (`Stored`), wherever they
  come from: memory, a snapshot or the file.
- `SavedAlways`: `SaveInv` says what a snapshot under way has to contain, depending on whether
  the memory has been changed since it was collected.
- `MarksHaveWriters`: `MarkInv` counts on the guard in the future of a request: a writer that is
  dropped withdraws its mark, and a waiter has none.
- `NextTurnAlwaysReads`: `Spec => NextTurnReads`. Of two turns the later one has all prefixes of the earlier
  (`PrefixAgain`), their tokens grow with their depth (`PrefixHasFewer`, by the least counterexample on the
  accumulated sums), and a lookup takes the deepest one that is live. Two turns have the same system prompt
  from its first cached block on (`SameCached`); what precedes this block may change. The only invariant it needs
  is that whoever has looked up has a prompt.
- `CapacityKept`: `Spec => []CapacityHolds`, if the file the process first starts with is within the limits.
  `with_config` does not count what it reads, so without that hypothesis a file left by a process with higher
  limits makes it false until enough prompts are recorded. `CapacityInv` therefore says of what is in memory, of
  the snapshot under way and of the file that each fits (`Fits`): whatever goes into one of them comes from
  another. The step that matters is `RecordFits`: `record` adds prefixes to one session and moves others there
  from theirs, `enforce_session_limit` takes out exactly as many as are too many of that session
  (`SessionLimit`), `enforce_global_capacity` exactly as many as are too many in all (`GlobalLimit`), whichever it
  picks among those that were hit at the same time. `MarksFit` is the same for `begin_inflight`.

**The handlers** (`MessagesHandler_proofs`): `RecordedOnce` and `NeverHoldsAndWaits`. The invariant
adds that a request under way has recorded nothing yet (`Unfinished`); every way out goes through
`Finish`, except where the client left.

`SearchesStayInside` and `CallsHandedOver`: the loop's answer, put together from any number of
rounds, has no search in it, and each call of the client as often as the model made it.
`LoopTyped` says of what the parts that wait to be shown are made. The answer is a concatenation
of concatenations (`FlattenSeq`), so the proof counts: how often a block occurs in one is the sum
of how often it occurs in the parts (lemmas on `Positions`).

**The conversion** (`MessagesHandler_proofs` too), for conversations of any length and content. Each loop has
a lemma that its recursive function exists and takes the loop's steps (least counterexample), and
one for what holds along it.

- `EveryUseAnswered`: `RequestSpec => []UsesPaired`, the part of `UsesAnswered` that is about ids: what is sent has no
  use without a result and none twice. That a result stays right behind its use where the client put it there is
  only model-checked. The uses and results of the history are those of the
  messages it is built of (`build_history`: no message is lost when neighbours are merged), the pairing keeps
  of the last message's results those that answer an open use, each once, and what it calls orphaned
  is then taken out of the history.
- `ToolsDeclared`: `RequestSpec => []HistoryToolsDeclared`. The names collected from the history are all there, and
  a placeholder is made for each that no declared tool has, in whatever case.
- `NamesLeadBack`: `RequestSpec => []NamesRestored`. The map has an entry for each name that is shortened, at the
  declaration and in the history, and none that contradicts it. Hypothesis: `ShortNamesApart`, no two names
  have the same short name and no client uses one as a name of its own; they end in eight digits of a SHA-256.

**Keys and groups** (`ClientAccess_proofs`).

- `ByKeyAlwaysExact`: an id or a plaintext must not be given out twice. Ids grow, `NextIdFree`
  (a maximum of a set of naturals, from well-founded induction) says that the next one after a
  restart is free; a plaintext is new because all that may come back, from the file of the keys,
  from config.json or from a handler that is about to write it, was generated before or is the
  first root key: `Inv == FileSound /\ ConfigSound /\ BusySound /\ KeysSound`.
- `ServedInGroup`: `InGroup` says, for a request at each place, what the group it carries has to
  do with those its key has had.
- `RenamingKeepsAccess`: `Spec => RenameKeepsAccess`. A handler that renames works in three steps, the
  registry, the accounts, the keys, and others edit keys and accounts in between. `Paired` says of
  a key and an account that had the old name in common, and that nobody else has touched since,
  which of them has which name at each step; so at the end both have the new one.

**Logins** (`AdminService_proofs`): `ExchangedOnce` and `OwnCallbackExchanged`. A session out of the
map is never put back, so that of all the tasks that carry it only one passes `Take`
(`SessionsInStep`); a task that exchanges carries its session's callback (`TasksInStep`).

**The update** (`AdminService_proofs`), for any number of operators, releases, failures and deaths.

- `NeverDowngraded`: `Spec => NoDowngrade`, however updates overlap. `Typed` says that a staged file has
  the version in its name and that a task which installs carries a newer one than runs. `Forward`:
  unless a backup has been put back, the program's path holds no file older than what ran last, and
  nor does what a task has moved aside, since it puts that back when a rename fails. The point is
  that a task works on the path that its look at `/proc/self/exe` gave it, which is `<program>.backup`
  when another one has just moved the program: `Kept` and `Renaming` hold for any path.
- `AlwaysStartable`: `Spec => []Startable`. The first part, a program that works is in the directory, holds
  whatever fails, the undoing of a rename included, and wherever the process dies. `InHand`: as long as no
  updates overlapped, one task is the only one at work (`Lone`), and where it stands determines where the
  program is that was started (`HeldBy`): where its `exe` is, under the name it was renamed to, or, once a
  backup was put back, that backup. What is not staged and lies beside the path the task works on is
  whole (`Deep`), so a backup that is put back is. After a failed undo the next update works on
  `<program>.backup`; then no step ever makes a file appear at the program's own path, so that the container
  does not start half a copy from there. The second part, that the program is at its path, is from `Calm`.
  Overlapping updates are excluded because with them it is false (`LostToOverlap`).
- `RollbackAlwaysHonest`: `Spec => []RollbackHonest`, from `Calm`: unless disturbed, some task is the only
  one that may be at work (`Alone`), and where it stands determines what is at the program's path (`InPlace`), in
  the backup (`Backed`) and in the staged files (`Copying`). Failures of downloads, of renames that are taken back
  and of rollbacks, the scheduler and an exit that is due are all included; a failed undo is not: after it the backup
  is the running program, not the recorded version.

**Only model-checked.**

- `UsesAnswered` beyond `UsesPaired`: where in the conversation that is sent a result stands.
- Liveness: `EveryAcquisitionEnds`, `EveryRefreshEnds`, `EveryCallEnds`, `SessionsEnd`,
  `ScheduledUpdateArrives`. TLAPS has no rules for fairness of actions and for ENABLED.
- `StreamedAsWhole` of `SseStream`: what a text says as a whole and what its pieces say one after the other are two
  recursive computations, and that they come to the same is an induction over both.

## 7. What is not modelled

- Usage rewriting, a pure computation nothing reads back; usage statistics and the trace
  database, which only append and aggregate; endpoints, wire formats, token estimates and
  picture sizes; the user interface.
- The proxy pool: its state meets that of the other parts only when a proxy is copied into a
  credential. Its one race (a health check's result applied after an await) is among the hazards.
- Half-written files other than that of the credentials, and losses of power.
- Of the pool: the statistics file, and the backoff and profile data that credentials carry
  along; of the provider: the cache of HTTP clients and the resolution of profile ARNs.
- Of the handlers: the list of models and `count_tokens`. Of the admin service: reports, and
  settings that only change a number. Of the start: reading of options and files other than those
  of keys, groups and credentials.
- The contents of tokens, headers, payloads, texts of search results; archives and checksums of
  releases, taken as what they detect.
