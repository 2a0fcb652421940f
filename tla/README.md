# Verification of miryad-core

TLA+ models of miryad-core, the TLC runs that check them on small instances and
the theorems TLAPS proves about them. Paths are relative to the repository
(`manager.rs` is `src/lymaille/interactive/manager.rs`, and so on; each
definition of the modules is tied to its lines by the "map" of `PROJECT.json`).

## 1. The system

miryad-core is the library behind a server of conversational agents: a layer of
resources (REST, MCP, RBAC, users), interactive sessions of agents (`lymaille`),
a bridge to Matrix, and an engine of durable workflows whose steps may run
scripts and agents. Handlers run concurrently on tokio, in one process per
instance, over one SQL database that instances share.

### Inventory

| Component | State | Operations | What makes it hard | What makes it correct |
|---|---|---|---|---|
| Event hub (`interactive/hub.rs`) | map of subjects, map of broadcast channels, subscriptions with a bounded queue | register, subscribe (three sections), emit / publish_host, close (two sections), recv, drop | sections interleave; a slow reader overflows; emit frees a channel nobody reads | no event lost, repeated or mixed without `Lagged`; a closed session cuts all its readers, who are told |
| Session manager (`interactive/manager.rs`, `store/session.rs`, `store/purge.rs`) | rows, table of entries, marks of closed sessions, turn gate, cancellation handle and pending request of each entry | open, send and its detached turn, cancel, resume, close, subscribe, idle sweep, purge | every call crosses several awaits and locks; a turn outlives its request; handlers are abandoned; the process restarts | one turn per session, no permit leaked, a cancellation is not lost, an entry serves one session, the context of a session is immutable |
| Session assembly (`interactive/assemble.rs`, `event.rs`) | none | reads, may fail | fails in the detached task | its failure releases what the turn holds |
| Toolset versions (`store/toolset.rs`, `store/draft.rs`, `interactive/activation.rs`) | active and draft version of a row | put_draft, activate, discard, CRUD | a decision is read in one query and acted on in another | only a checked draft is promoted; the version in service survives a discard |
| Journaled writes of batch steps (`resource_module.rs`, `store/write_journal.rs`) | rows, journal, count of writes | create, update, delete, replay, record, purge | the step dies at any await and is run again with other calls; other users write the same rows | a write is not redone while journaled, an answer belongs to its call |
| Matrix account linking (`chat/link.rs`) | codes, links, failed attempts | issue, consume, unlink, expiry | two identities on one code, one identity on two accounts | a code is spent once, a link was proved, no takeover |
| Chat bridge (`chat/bridge.rs`, `render.rs`) | seen events, rooms, one task per message | dispatch, `!new`, `!resume`, free text, collection of a turn's end, room table | an event may be delivered again, elsewhere; a handler reads a room, awaits and writes it; a turn ends while nobody listens | an event is acted on once; a room's session is its owner's; who waits for a turn hears its end |
| Workflow engine (`src/workflow/`) | steps' results, durable runs, keys of sub-workflows | layers of a DAG, durable and ordinary steps, ceilings, sub-workflows, sub-agents | replay after a crash, a failing step with siblings still running, depth | a step starts after its dependencies, a durable one is not run again once recorded |
| Matrix sync (`matrix/sync.rs`, `store/crypto_account.rs`) | the lease's row, sync position, backoff | take, renew, lose, sync, deliver, retry, release | the lease may end while a handler runs; a handler may never return | a lease passes on only once expired; a replica that lost it stops; a waiting one gets it |
| Matrix store (`matrix/store/`, `matrix/client.rs`, `session.rs`) | cipher of the store, session row, keys and devices | open, login, save of a rotation, compare and set | replicas start at once; a rotation is saved after the fact | all read what any sealed; a restart finds a session that is accepted |
| Device login (`matrix/device_code.rs`) | none | discover, register, ask for a code, poll, whoami | retries, deadline | granted tokens are not lost to a passing failure |
| Resources over REST and MCP (`rest/`, `mcp/`, `rbac.rs`) | rows | list, get, create, update, delete | read, decide, act without a transaction | what a call obtains, its caller was entitled to; a row keeps its owner |
| Users, groups, memberships (`users/`) | accounts, groups, memberships, service accounts | get-or-create, reconciliation at login | logins of one account overlap | memberships come from the claims of the last logins |
| Authentication (`auth/`, `rest/tokens.rs`) | API tokens; cookies and JWTs hold no row | issue, validate and stamp, ensure, revoke; OIDC exchange | a token is revoked while it is being validated | a revoked token authenticates nobody |
| Access to MCP servers (`mcp_access.rs`, `identity.rs`) | none of its own | resolution | definitions change between resolution and use | a session calls only what it was granted |
| Catalogue, memory, audit, HTTP routes, migrations, IR | rows, a bounded audit queue | single statements | the audit queue overflows | dropped records are counted |

### How they interact

A REST or MCP request, or a Matrix message through the bridge, calls the session
manager. `send` takes the turn gate, resets the entry and spawns a detached task,
which assembles the session from the catalogue, publishes a cancellation handle
in the entry, and runs the turn of the external engine; its sink emits the
events through the hub, whose subscriptions are read by the SSE route and by the
bridge. The bridge is called by the one replica whose sync loop holds the lease of the
account; a loop that loses it goes on until its handlers have returned, so that
handlers of one event may run on two replicas. `activate_toolset` and `put_draft` are called by configuration sessions.
A workflow step runs a script whose `resources` module writes the tables the
CRUD layer serves, through the journal. Whoever calls is known by a cookie, a JWT or an
API token, and its rights are the memberships left by its last logins, read again at
each decision.

## 2. Modules

| Module | Models |
|---|---|
| `HubOps` | the hub's shared state, one operator per critical section |
| `EventHub` (extends `HubOps`) | the hub alone, under arbitrary callers and numbered events |
| `SessionManager` (extends `HubOps`) | the manager composed with the hub |
| `MCEventHub`, `MCSessionManager` | their instances |
| `HubOps_proof` | what each section of the hub preserves, whoever calls it |
| `EventHub_proof` (extends `HubOps_proof`) | theorems about `EventHub` |
| `SessionManager_proof` (extends `HubOps_proof`) | theorems about `SessionManager` |
| `Handlers` | what the store models share |
| `Drafts`, `BatchWrites`, `LinkCodes` | three stores of lymaille |
| `Memberships`, `Resources`, `Tokens` | who a caller is, and what it may do to rows |
| `MatrixStore` | cipher and session of a Matrix account |
| `Stores` (extends these seven), `MCStores` | the stores side by side |
| `Stores_proof`, `Access_proof`, `Matrix_proof` | theorems about `Stores`: lymaille's stores; access; the Matrix store and the types |
| `Deliveries` | what both halves of the Matrix side share: replicas and messages |
| `SyncLease` | the sync loops of the replicas of an account, over the lease |
| `ChatBridge` | the handlers of messages, on all replicas, over a session manager seen from outside |
| `MatrixChat` (extends both), `MCMatrixChat` | the two halves side by side |
| `MatrixChat_proof` | theorems about `MatrixChat` |
| `Dags` | graphs of steps, their validation and their layers |
| `DagRun` (extends `Dags`) | the abstract specification of a run |
| `Workflow` (extends `Dags`, instantiates `DagRun`), `MCWorkflow` | the engine, and the small graphs it is given |
| `Workflow_proof` | theorems about `Workflow`, and about `Dags` on the way: the validation against its reference, the refinement |

### HubOps and EventHub

`subjects` and `slots` are the two maps of `Inner`. A subscription goes through
`granted`, `subject`, `slot`, `live`, the points between the locks of
`subscribe`. `linked` says whether the channel a subscription holds is still the
one in the map: `close`, and `emit` on a channel without a receiver, remove it
from there. `queue` is what the broadcast channel keeps for a receiver,
`lagged` that it overwrote something. The tokio channel is external and modelled
as its documentation and its use require: at the capacity the oldest event goes.

### SessionManager

One element of `Calls` is one handler invocation, and then the turn it
spawns. `pc` names what it does next; a step ends wherever the code awaits or
releases a lock. `owner`, `context`, `minted` are the rows; `byId`, `holder`,
`idle` the table; `handle`, `requested` the fields of an `Entry`, which live as
long as some `Arc` of it does (`FreeEntries`); `closed`, `gate` the marks and the
turn gate. `Abandon` is a handler whose future is dropped; `Restart` keeps the
rows only. What the manager reads to authorise a call (context type, agent,
principal) appears as a refusal, that is, as a step that need not be taken.
Time is the set `idle` of the entries that have outlived `idle_ttl`.

`cancelled` and `asked` serve the properties: the turns whose handle was
cancelled, and those whose entry got a signal after it was reset.

### Stores and its components

The seven share no table. `Stores` lets the variable `focus` choose the one
that runs, which keeps one run for all; nothing is lost, since no step of one reads
a variable of another, and what one assumes of another it assumes in the most general
way (`Resources` lets memberships change at any time).

* `Drafts`: the row is `None` or `active`, `draft`, `version`; each call reads in
  one step (`PutProbe`, `ActivateRead`, `DiscardProbe`) and acts in another.
  `Promote` is the transaction of `activate_with`: conditional on the draft it
  read. A CRUD update is one step here, though it reads before it writes: what
  it writes does not depend on what it read.
* `BatchWrites`: one attempt of a step at a time, at any point of which `Rerun`
  starts the next one. A body is its unique label and the rest. `OtherWrite` is
  everybody else. `done` remembers the calls executed whose journal entry was not
  lost. Resources without a unique label are left out: for them a create
  replayed after a crash before its record does insert twice, and no code
  claims otherwise.
* `LinkCodes`: codes are numbered in the order they were asked for, which is that
  of their expiry, so that time is the number of the last one expired. The
  `DELETE` and `INSERT` of `consume_code` are one transaction that the primary key
  of `matrix_links` may roll back.
* `Memberships`: a login reads the memberships of the account and remembers the rows to
  delete (`doomed`); its deletes, inserts and commit are one step, since a transaction
  that meets the locked rows of another waits for it. A row deleted and inserted again is
  another row, which the first login does not delete. The get-or-create of accounts and
  groups is left out; it can make a login fail (`LoginFails`): after an `INSERT` refused by
  the unique constraint, the second read of `ensure_group` runs in a PostgreSQL
  transaction that is already aborted.
* `Resources`: a call goes through the queries of `rbac.rs` and `core.rs` one by one:
  `AsksAdmin`, `AsksMember`, `Find` or `Weigh` and `Recheck`, then the write. `role` says
  what the memberships make of a caller and may change between any two of them. The
  pages and filters of the listing and what hooks do besides failing are left out.
* `Tokens`: `ValidateRead` reads the row of a fingerprint, `Stamp` writes `last_used_at`
  by its id. Fingerprints are injective. `given` is the value a deployment ensures for a
  service account, `None` for a drawn one.
* `MatrixStore`: `Probe`, `InsertCipher`, `Reread` are the three queries of `Kv::open`.
  Sessions are numbered by login and rotation; the homeserver knows the `current` rotation of
  each and refuses an older one. `refreshed` counts the rotations matrix-sdk has announced
  and `spawn_session_persistence` has not received; it reads the client's session, then
  saves it. `crossed` marks the runs in which a save was lost, or a replica connected while
  another had rotations to save: there the code promises nothing.

### SyncLease, ChatBridge, MatrixChat

The two halves meet in `deliver`, which awaits the handler of one message after the
other. Each module replaces the other half by all it may do. In `SyncLease` a handler
`Returns` at any time, or never. In `ChatBridge` an event is received (`Receives`) by any
replica, as often as it likes, at any age, and a loop may stop and leave its handler running
(`LoopStops`). What is proved of either holds of their composition, and `focus` chooses the
one that runs.

* `SyncLease`: `loop` is where `run_sync` is, `holder` and `left` the row of the lease and
  the ticks until it expires. `unread`, `batch`, `current` follow a message from the server to
  the handler that treats it. `late` counts the responses a replica took since another took
  the lease. Delays of the backoff have no length.
* `ChatBridge`: a task is a replica and a message; `pc` is the query, or the call to the
  session manager, that it makes next; `saw` what it read of the room, `fresh` whether its
  turn is on a session it opened, `heard` what its subscription brought. `turn` is, per
  replica, the message whose turn each session runs: the turn gate is per process.
  `RestSends`, `RestCloses` are the same sessions used over REST. `age` and `seen` are the two
  clocks of the deduplication, counted up to their bound.

The rest of the bridge touches neither rooms nor sessions: `!link` is `LinkCodes`,
`!activate` is `Drafts`, `!cancel` is `SessionManager`.

### Dags, DagRun, Workflow

`Dags` holds the pure functions of `definition.rs` and `interpreter.rs`: `Valid` is
`validate_dag` with its four stages, `Sorted` the queue of Kahn's sort taken round by
round (only the set taken out is observable): `Start` counts the in-degrees, `Round` empties the
queue and takes its edges away, `Rounds` iterates. `ReadySteps` the choice of a layer.
`Acyclic` and `Walkable` are the reference they are checked against. An id is a
sequence of tokens of which `:` is one, so that the names built from ids
(`ChildRunKey`) keep what concatenation does to them; digests (`TxnId`,
`SessionName`) are pairs, as a hash with a separator is.

`Workflow` has four variables. `run` gives, for each workflow key, the graph, depth and
identity it was started with, the steps `asked` for and those `got`, that is the
interpreter's `completed`. `inv` gives, for each pair of a run and a step, the
invocation and its `phase`: `queued`, `running` (inside the kind), `acted` (its effect
has happened outside the engine and its answer is not journaled), `waiting` (for a
sub-run), `paused`, `ok`, `err`. `msgs` is what the homeserver accepted, `saved` the
stored sessions of sub-agents. One action is one point where the journal or the
outside changes: `AskLayer` sends a whole layer, `Collect` takes an answer in any
order, `CollectFailure` ends the run on the first failure seen, and its siblings go on.

Restate is external. As the code uses it: what is journaled is found again by every
later attempt; an attempt lost before it is journaled (`LoseAttempt`) starts again
from nothing and counts; after `MaxTries` the invocation is paused until an operator
resumes it; a call under a key that exists is attached to the run of that key. An
attempt that is given up does not go on in secret beside its successor, and nobody
cancels a run. Losing a worker loses attempts only, since the walk is rebuilt
from the journal: there is no crash action beyond `LoseAttempt`.

`DagRun` is what a user of the engine sees: a step is asked for once and after its
dependencies, it succeeds or fails once, a run is done when all steps are, failed only
when one is. `Walk` maps the engine to it.

## 3. Runs

| Run | Question | Instance |
|---|---|---|
| `EventHub` | Does a subscription get what its session emits, and the end of it? | 2 sessions, 2 subscriptions, capacity 1, 2 events per session |
| `Sessions` | Do gate, entries and handles stay coherent, and does a cancelled turn end? | 2 calls, 1 session, 2 entries, idle sweep and purge on |
| `SessionsEvents` | Are the turns of a session seen one after the other? | the same with a subscription of capacity 2 |
| `Stores` | Do the stores that read, then act, keep what they promise? | 2 calls; 3 definitions, one of them reserved; 2 rows, 2 writes; 2 accounts, 2 identities, 2 codes; 2 groups; 4 declarations of policies, 1 row id; 3 tokens, 1 given value; 2 replicas, 2 Matrix logins, 3 rotations |
| `Chat` | Are messages handled once, and rooms and turns coherent, whichever replica leads? Does a waiting replica get to lead? | 2 replicas, 1 room, 2 users, 2 messages, 2 sessions, 1 mishap, a lease of 2 ticks |
| `Workflow` | Does the engine keep the promise of `DagRun`, and end? | 1 triggered run over some 700 graphs, with and without identity |
| `CancelTold`, `ClosedStartsNoTurn`, `SendAnswered`, `DiscardSparesActive`, `PurgedRoomReopens`, `ChildKeyUnique` | Does the code keep what its documentation says? No: see Findings. | the smallest that shows it |

### The properties

* `HubSound`, `CloseCutsAll`, `CutIsNoticed` (EventHub): `HubSound` is the hub's types and
  `Contiguous`, that the queue of a live
  subscription continues exactly what was read, except under `Lagged`; `close`
  leaves none attached; who is cut is told.
* `OneTurn`: the gate is the set of the sessions of the tasks that own a permit,
  and no two own the same. It fails as soon as one path of the detached task
  leaks the permit or releases another's.
* `SignalSurvives`: `signal` looks at the handle, the turn publishes its handle
  and then looks at the pending request. Whatever the order, an armed turn that
  was asked to stop is cancelled or is about to see it. `AskedTurnEnds` adds that
  it ends.
* `EntryOfOneTurn`: a call that keeps an `Arc` of an entry across awaits cannot
  reach through it the turn of another session, nor a finished one.
* `SweepSparesTurns`, `ContextImmutable`: what a step may not do.
* `TurnsNotMixed`: `TurnEnded` goes out before the permit is dropped, so the next
  turn's events follow it.
* `PromotesOnlyItsDraft`, `AnswersFitTheirCall`, `RedoneOnlyAfterLoss`,
  `CodeSpentOnce`, `LinksProven`, `NoTakeover` (Stores): see the table of section 1.
* `GroupsFromClaims`: after a login that overlapped no other, the memberships are exactly
  its claim. Two that overlap may leave a mix of both claims, and the property says which:
  nothing that neither named, everything that both named.
* `AnswersEarned`: a call that succeeds has a caller who was entitled at some instant of
  the call, whatever changed in between, and so has one that learns that a row does not
  exist, except under `OwnerOnly`. `RowsKeepTheirOwner`: no interleaving of two updates gives
  a row to another, or brings a deleted one back.
* `TokensKeepTheirHolder`: a request authenticated with its stamp written was authenticated
  before the revocation; a token disappears by its holder; one value, one row.
* `SavedSessionServes`: one cipher for all replicas, whoever made it, and in store the last
  rotation once the pending ones are saved.
* `HandledOnce`: an event is acted on once, however often, late and widely it is delivered;
  it needs `MaxAge <= Window`, which the defaults (5 minutes, 7 days) satisfy.
* `RoomSessionOwned`, `TakenUnknowingly`: two handlers may write one room after reading it
  unclaimed, and the second wins; even so the room's session is one its owner opened.
* `CollectorHasTurn`: subscribing before sending leaves no gap through which the end of the
  turn is missed; a handler that waits, waits for a turn that runs (or ended mute).
* `LeaseKept`, `OneLateResponse`, `WaiterLeads`: the lease passes on only when expired; a
  replica that lost it without knowing takes one response more at most; a replica that
  waits leads in the end, even when the loop of the holder is held by a handler that never
  returns.

* `RejectsTheUnwalkable`, `NeverAnEmptyLayer` (Workflow): the validation refuses what
  cannot be walked and nothing else, and the walk, which has no guard of its own, always
  finds a step to ask for.
* `KeepsItsPromise`: `Promise!Spec`, the refinement.
* `MessageOnce`, `AgentNeverStartsOver`: what an attempt did outside the engine is met
  again by the next attempt, not done again.
* `DoneAllTheWayDown`, `BoundedAndForTheTrigger`: what holds through nested runs, of
  their outcome, their depth and their identity.
* `EveryRunEnds`: unless an invocation under it is paused.

Every property of a passing run has a mutant in `PROJECT.json`: a plausible
fault of one action (the definitions commented "Faulty", next to the right one)
under which TLC finds it violated.

### Bounds, and why they are enough

Two calls are enough for the races looked for: each is between the sections of
one handler and one other actor, and the second call may be any operation, any
number of times in succession. With two calls and two `Arc<Entry>` an old entry may be
held while the new one is in use. `Capacity` 1 makes every unread event a lag,
and 2 shows an event and its successor together. Three definitions let a draft be
replaced by a reserved one while another is in service. Two rows let a label
pass to another user's row after a crash. `Idling` and `Expiring` restrict the
sessions that time may touch. `MaxEvents`, `MaxRows`, `MaxCodes`, `MaxWrites`, `MaxTokens`, `MaxIds`, `MaxLogins`,
`MaxRotations` bound counters. Two groups let overlapping claims agree on one and differ on
another. `FourDeclarations` has each policy once for reads and once for writes, since a call
consults one of them. One row id suffices: ids are never drawn again, and calls on two rows
do not meet. Three tokens are one validated, one issued and one ensured meanwhile; three
rotations leave one saved, one pending and one announced. In `Chat`, two messages
let two handlers meet in a room, the same one being received again at will; `MaxMishaps` lets one of
the events from outside (death of a replica, loop that stops, purge, REST call, abandoned
handler) happen anywhere; two ticks are a lease renewed in time and one that is not.
`MaxAge = Window = 0` is the tightest case the assumption allows. `SmallDags` is every list of at most two steps over two ids with at most two
dependencies each, dangling and repeated ones included; rings of three, squares with
repeated edges, messages, agents and three levels of nesting are given one by one.
`MaxDepth` 2 refuses the third level, `MaxTries` 2 has one retry and one pause, `MaxTurns` 2
a loss between two turns, `MaxResumes` bounds the operator. Runs of different
callers share nothing but their keys, so one triggered run is enough. The theorems remove all these bounds where they apply.

### Fairness

`FairSpec` of `EventHub` says that a call inside `subscribe` or `close` goes on (no
await there) and that a subscriber that stays calls `recv`. `FairSpec` of
`SessionManager` says that the runtime runs each call and each turn, and that a
turn whose handle was cancelled stops (the engine polls the handle it was
given). Nothing is assumed of the other turns, which may wait for a model for ever.
`Workflow` assumes that Restate drives the runs and attempts it accepted (`WF_vars(Engine)`);
losses, operators and callers owe nothing. `FairSpec` of `MatrixChat` says that time passes
and that a loop that is up goes on; a handler need never return, and a replica may stop. An attempt cannot be lost for ever: losses count
as tries. No fairness is assumed of the users, of the sweep, of the purge or of the crashes.

### Findings

* `CancelTold`: between `try_begin` and the reset of the entry, a cancel finds the
  session active and answers `true`, while its signal reaches nothing that lasts
  (`manager.rs:412`; `manager.sdd:53`).
* `ClosedStartsNoTurn`: `send` looks at `closed` and takes the gate in two sections;
  a close in between leaves a turn running on a closed session (`manager.rs:347`).
* `SendAnswered`: a turn whose assembly fails emits nothing, though `send` says that
  the result comes as `TurnEnded` (`manager.rs:371`).
* `DiscardSparesActive`: `discard_draft` deletes the row on the strength of an earlier
  read, with the version activated since (`draft.rs:158`).

* `PurgedRoomReopens`: a text in a room whose session the retention removed fails at the
  subscription, before the `send` whose `NotFound` would reopen a session: the room gets no
  answer until someone types `!new` (`bridge.rs:476`).
* `ChildKeyUnique`: `child_run_key` joins the run's key and the step's id with `:`, which
  an id may hold. Step `a:b` of a run and step `b` of the child of its step `a` share a
  key, and the later is answered by the run of the other's graph (`durable.rs:42`). That a call
  under a used key attaches to its run is how the repository describes Restate; were it
  refused instead, the key would be no more unique, and the step would fail.

## 4. Proofs

`HubOps_proof` states `HubInv(E)` for a hub that broadcasts events of any set `E`, and that every
critical section of the hub keeps it: a subscription attached to a channel of the map is on the
channel of its own session, queues stay within the capacity, and what does not read yet has
nothing to read. `PushedElements` says what a push leaves in a full queue and in one with room.
Both modules that drive the hub rest on it.

`EventHub_proof` proves `HubSoundAlways` and `CloseCutsAllAlways`, for any sessions, subscriptions,
capacity and number of events. The invariant adds `Suite` for each reading subscription: its queue is
consecutive; it begins right after what was accounted for, or later if a loss is to be
reported; and, as long as it is attached, it ends with the last event sent. The second half is
what makes the first inductive: the next event is then one more than the last of every queue.

`SessionManager_proof` proves, for any number of calls, sessions, entries, users
and subscribers, `TypeCorrect`, `OneTurnAlways`, `SignalSurvivesAlways`,
`EntryOfOneTurnAlways`, `SweepSparesTurnsAlways`, `ContextImmutableAlways`, `TurnsNotMixedAlways`.
Of the constants the proofs use only that `None` is outside the other sets.
The inductive invariant is `IInv`:

* `TypeOK` contains what a `pc` implies of the call's user, session and entry;
* `OneTurn` is inductive with it: two turns on a session would release each other's permit;
* `EntryOneSession`: calls that hold the same entry work on the same session, and
  so does the table. Without it a signal could arrive in another session;
* `Handles`: in the phases where a turn has published its handle it is the one of
  its entry, and none is there from `SendClear` to the publication. It needs
  `OneTurn`: another turn on the entry would overwrite it;
* `OnlyTurnsAsked` and `SignalSurvives`: the handshake itself. The case that matters
  is `ApplySignal` on an entry whose turn is between its reset and its publication:
  `Handles` says no handle is there, so the request is set, and stays until the check.

`Rows` (a stamped context belongs to a row and to a drawn identifier; a call that is
about to save and stamp a new row finds no context there, and no other call opens
that identifier) gives `ContextImmutable`. `SweepSparesTurns` follows from `OneTurn`: an armed turn's
session is in the gate, which `Swept` spares.

`TurnsNotMixed` composes the manager and the hub. Its invariant is `Voices`: `HubInv`, every queue
`Unmixed`, and, for a turn between its `TurnStarted` and its `TurnEnded`, every subscription
attached to its session either empty or in the middle of that turn (`LeftIn`). A push keeps it by
`PushedUnmixed`, when it drops the oldest event too. What another turn could disturb is excluded by `OneTurn`:
two turns that speak are on two sessions, and by `HubInv` two sessions share no channel.
It was checked by TLC as an invariant of the `SessionsEvents` instance before it was proved.

`Stores_proof` proves `PromotesOnlyItsDraftAlways`, `AnswersFitTheirCallAlways`,
`RedoneOnlyAfterLossAlways`, `CodeSpentOnceAlways`, `LinksProvenAlways`,
`NoTakeoverAlways` and `LinkTypesAlways`, with four inductive invariants: `HeldChecked` (what an
activation carries passed `check_grants`), `JournalSound` (what is done is journaled or
about to be; a call about to write has no entry; answers fit), `CodeSound` (a code
that exists was issued and not spent; each issuing call has a number of its own that
is not born; each consuming call knows the account its code was issued to) and
`FailuresBounded` (the attempts counted for an identity, with the calls that may still
fail, never exceed the limit and all the calls; the limit alone is exceeded by the
calls in flight, since `failures` is read before and written after). The assumptions are
that `None` is no value, that the bounds are numbers and that `Calls` is finite.

`Access_proof` proves `GroupsFromClaimsAlways`, `AnswersEarnedAlways`,
`RowsKeepTheirOwnerAlways` and `TokensKeepTheirHolderAlways`, for any callers, groups,
policies, rows and tokens:

* `LoginSound`: for each transaction under way, the memberships are within what it has read
  and what others have named since; those it has read and does not keep are doomed, or
  named since by another; those it has read and all others have named since are still there;
* `CrudSound`: a call that was let through by a verdict is in the history of those entitled at
  some instant; one about to write an update has a row in hand; ids are drawn once;
* `TokenSound`: the id a call holds was drawn, and while its row lives it is of the
  subject the call works for; two rows never share a given value.

`Matrix_proof` proves `SavedSessionServesAlways` and, with the invariants of the two modules
it extends, `StoresTypes`. Its invariant `SessionSound` has four parts besides the property:
`CipherSound`, `SessionsKnown` (what is held, saved or about to be was granted), `FreshAlone`
(a session not saved yet is one client's) and `LatestAlone`: a replica with rotations to
save holds the last one, no other replica does, and what it saves last is that one.

`MatrixChat_proof` proves `LateOnce`, `LeaseIsKept`, `EventsHandledOnce`,
`RoomsKeepTheirOwners`, `CollectorsAreHeard`, `RoomsTakenUnknowingly` and `ChatTypes`, for any
number of replicas, rooms, users, messages, sessions and mishaps:

* `LateInv`: a late response is one being delivered, so the lease is asked for before another;
* `SeenInv`: a message acted on is marked, or too old; a mark is never older than its event.
  It needs `WindowAssumption`: with a shorter window a purged event would be young enough to be
  handled again;
* `TaskInv`: the room a handler read was nobody's or its author's, and the session it is about
  to write into the room is one its author opened; with `RoomInv`, that gives
  `RoomSessionOwned` whatever another handler wrote in between;
* `CollectorHasTurn` is inductive with them.

An earlier form of these properties passed TLC with two messages and failed its proof, which
showed the run with more messages that breaks it: what is stated here is what holds for any number.

`Workflow_proof` proves, for any graphs, keys, depth and bounds, `WorkflowTyped`,
`PostedOnce`, `AlwaysForTheTrigger`, `RefusesTheUnwalkable`, `AlwaysALayer`, `DoneIsDoneBelow`,
`ConversationsGoOn` and the refinement `EngineKeepsItsPromise`. The assumptions are the named ones of `Workflow`: keys
and ids are sequences of tokens, a drawn key is a single one, graphs are finite lists, `depends_on`
is a list of ids, and the set of graphs holds those of their sub-workflows. The invariant has six parts:

* `Typed`: the records, and that `inv` is exactly what the runs asked for;
* `NamesApart`: an accepted message has the transaction of who posted it, so that the
  next attempt is answered and not posted;
* `Lineage`: `BoundedAndForTheTrigger` with the fact that an invocation carries the depth
  and identity of its run. A child's key extends its parent's, so both have the
  same first token, that of the triggered run;
* `Outcomes`: a run that walks, or has, passed the validation, and one that was rejected did
  not; what it got is `ok`; an `ok`
  sub-workflow has a done child. `Cardinality(got) = Len(dag)`, the loop's condition, means
  that every step was got, because the ids of a validated graph are distinct;
* `AtWhatIsStored`: an agent at work is at the length of its stored session, so what it
  saves is one longer;
* `IdleTakesNoTurn`: an attempt that has not started its agent has taken no turn.

The validation is proved against `Walkable`, for every graph (`ValidIsWalkable`), and this is where
its arithmetic counts. The recursive function of the rounds is handled without an
induction schema: a set that holds 0 and the successor of each of its members holds every number up
to the bound (`AllRounds`, from the well-foundedness of strict inclusion between finite sets), applied to the
set of the rounds for which a fact is true. The invariant of a round is `Counted`: the in-degree left is
the number of positions of `depends_on` not met yet, repetitions included, so that a step is
free exactly when all it depends on was taken, and the subtraction never saturates.
`SortedIsAcyclic` takes, in a group that waits for itself, the first round that takes a member of
it, which could not have been free. `AcyclicIsSorted` says that each round takes at least one step
(`OneIsFree`, the reference applied to the rest), so that as many rounds as steps take all.
`NeverAnEmptyLayer` is `OneIsFree` once more, for what a run has collected.

The refinement then takes each action: those on the journal's outcome are steps of
`DagRun`, attempts, pauses and collections are stutters. That a layer was not asked for
before follows from `asked = got`, its guard; that its dependencies have succeeded,
from `Outcomes`.

Every safety invariant and every action property of the passing runs is stated by a theorem. Only
model-checked: the liveness properties (`AskedTurnEnds`, `CutIsNoticed`, `WaiterLeads`, `EveryRunEnds`),
which need fairness and ENABLED, out of reach of the prover. There is no `RECURSIVE` operator.

## 5. What the code does beside its documentation

Met while modelling, and not given a run: each is either bounded by a property above, or
documented as best-effort in one place and as a promise in another.

* "Un seul synchronisateur par compte à la fois" (`sync.sdd`): a handler that outlives the
  lease leaves its replica with the response it had; `OneLateResponse` bounds it.
* `bridge.sdd` says that a message's handler runs in a task of its own; `deliver` awaits it, and
  the loop with it.
* `collecte` answers with the first `TurnEnded` since it subscribed, which on a session also
  used over REST may be that of another turn. Notices of a resume are dropped in `texte_libre`
  (`bridge.sdd:43`). Internal errors are traced, not answered (`bridge.sdd:46`).
* The turn gate is per process: two replicas may run two turns of a session.
* A message marked seen whose handler dies with its replica is never answered.
* `!new` whose `open` fails leaves the room with the session it has closed.
* Two replicas that share one stored Matrix session: the second to refresh is refused
  (`client.sdd:11-12`). A crash between a rotation and its save loses the session. A replica
  still up on an older session, on its next rotation, overwrites the row of a newer login.
* A token whose `last_used_at` cannot be written may outlive its revocation by one request. The
  loser of two replicas that ensure one value gets a database error. An expired token of the
  same subject counts as ensured.
* `mcp_access.rs` says that the right to use a server is decided at each call. For a server
  of the host it is (`SeaHostMcpAuth::headers`); for a server of the table it is at the
  assembly of the turn (`server_for`), so that a group lost meanwhile counts from the next
  turn on. A server in mode `forward` fails the assembly of any session without a token,
  even for an optional role, and `resume` and the bridge never have one.
* `write_draft` decides on an earlier read (`toolset.rs:279`, listed under the hazards).

## 6. Not modelled

Left out for good: formats and rendering, OpenAPI, IR, frontend, query strings,
single-statement reads; cryptography, OIDC, the olm library, the model and its
tools, which are external. Of the workflow engine: `sleep` and `run_effect` of durable steps,
which no kind of the crate uses, the registration of a deployment, and what scripts, judges and
templates compute.

* Access to MCP servers, session assembly: they decide from the rows they read at that time and
  keep nothing but the connectors of the turn; a failure of theirs is `TurnAssemblyFails`.
* Catalogue and definitions: rows with validations, under the operations of `Resources`.
  The drafts of context types are those of toolsets, with one upsert more.
* Memory and audit: one statement each; the audit queue drops what it cannot hold and counts it.
* HTTP routes: they extract arguments and call the manager; the SSE stream is the
  reader of the hub.
* Migrations: run once, in order, by SeaORM.
* Device login (`device_code.rs`): a client of one request at a time, with three attempts for
  each step and a deadline for the polling. A request whose answer is lost after the
  code was consumed loses the login, as the protocol has it.
* Keys, devices and olm sessions of the Matrix store: single statements that matrix-sdk
  asks for, but for `set_backup_flag` (`crypto_sessions.rs`), which reads a session and writes
  it back in a transaction that does not lock it; key backups are not enabled here.
* In the bridge, the refusals and invitations rationed by marks in memory, which each process
  and each restart gives again; in the sync, the filter of what is delivered.
* Get-or-create of accounts and groups, the cookie and the JWT (no state), `revoke_token` by id
  (offered to hosts, not called here), the listing of rows.

Known hazards without a property, the first two of them within the models: the context of a session is stamped after its row is
saved, and the cap on open sessions is read before it is used (`manager.rs:314`, `:299`); a batch
resource without a unique label has no second barrier against a create replayed after a
crash (`resource_module.rs:316`); `issue_code` counts and inserts in two statements
(`link.rs:158`); a script out of time may still be running (`rhai_step.rs:453`); `trigger_run`
draws a new key at each call, so that a caller who did not hear its answer starts a second run
(`workflow/client.rs:193`). Each is how the code is written, and nothing in it claims otherwise.

Theorems to come: action properties that say what a step of liveness relies on (that a turn on its way
never waits for another call, that a leader's lease runs out), to bring the four liveness properties
as near to a proof as safety goes.
