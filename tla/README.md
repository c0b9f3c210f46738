# Verification of InsightQuery

TLA+ models of the parts of InsightQuery (`src/app`) whose correctness depends
on the order in which things happen: Conversation Runs and their SSE streams,
the projection of query experiences into the search index, specialist Sessions,
the value index, the life and deletion of a Conversation, the sandbox
containers, the metadata catalogue and its semantic index, accounts with their
tokens and deletion, the roles in Doris, the recall contexts of a Conversation -
and of the SQL guard, whose correctness depends on what a statement may contain.
TLC checks them on small instances; TLAPS proves the most important properties
for every value of the constants.

Paths below are relative to the repository root, `A/` stands for
`src/app/assistant/`, `M/` for `src/app/metadata/`, `Q/` for `src/app/query/`,
`S/` for `src/app/sandbox/`, `I/` for `src/app/identity/`.

## 1. The system and its parts

InsightQuery answers questions about data. An API process accepts a message of
a user in a Conversation and starts a Run: a planner agent, which delegates to
specialist agents in Sessions, which look up metadata, recall earlier query
experiences, run guarded SQL on Doris and work with files in the container of
the user. Progress goes to the browser as server-sent events. Celery workers
carry out what takes long or must not be forgotten: index synchronisation,
deletion of Conversations and users, container clean-up.

    browser --SSE--> ConversationRunService --> AgentManager --> planner
                          |                         |              |
                          |            advisory lock + tombstone   | delegations
                          v                         v              v
              ConversationTurnService        ConversationLifecycle  SessionService
                          |                         ^              |       |
                     PostgreSQL            Celery beat / worker    |   sandbox container
                                                                   v    (Redis locks, Docker)
            QueryExperience <-- SQL executor <-- specialist tools -- metadata search
                  |                                                   ^
            Celery sync_index --> Elasticsearch <-- Celery value index sync <-- Doris

The components, the state each keeps, what changes it, what is hard about it
and what makes it correct:

| Component (source) | State | Operations | Hard behaviour | Correct when |
|---|---|---|---|---|
| Conversation Runs and subscriptions (`A/services/conversation_run.py`) | registry of Runs, asyncio task, replay cache, subscriber queues | start, publish, subscribe, stop, close, consume | callbacks interleave at every await; cancel before the first step; slow and reconnecting clients; bounded cache and queues | one live Run; nothing missed or repeated; every stream ends |
| Turns, life cycle and deletion of a Conversation (`A/services/conversation_turn.py`, `conversation_lifecycle.py`, `A/agents/manager.py`) | row, tombstone, LangGraph thread, recall records, workspace, deleted keys of each process, advisory lock | submit, resume, upload, request deletion, delete, recover | stale view of the row; partial failure over three stores; crashes of worker and API | the deleted leaves nothing and stays deleted; a requested deletion is carried out |
| Specialist Sessions (`A/agents/session_service.py`, `session_store.py`) | checkpoint per Session, record per delegation, capacity slots, workspace, advisory locks | delegate, replay, cancel, delete Session | planner repeats tool calls; cancellation while a record is written; two stores deleted in turn; crash | an answer given stays on record; a recorded result is not executed again; a checkpoint has its workspace |
| Shell jobs (`A/agents/shell_jobs.py`) | job table per runtime, process in the container | start, wait, monitor, cancel, clean up | a job ends while it is cancelled; result consumed once; deadline of the clean-up | one terminal state per job; a result is delivered once |
| Query experiences (`Q/`) | row with revision and `indexed_revision`, Elasticsearch document with external version, tasks | record a success, recall, disable, delete, project, repair | lossy at-least-once tasks; late embeddings; rotation of the authorization epoch | the index agrees with every row that counts as synchronised, and catches up |
| Value index (`M/services/index.py`, `M/repositories/`) | state row with run id, generation and cursor; documents | claim, begin, full, incremental, clear, complete, fail | stale claims, redelivery, crash between document and state, late rows, configuration changes | no value is missed; runs exclude each other; what is switched off is cleared |
| Metadata catalogue and import, semantic indexes (`M/services/catalog.py`, `import_service.py`, `index.py`, `M/tasks.py`) | columns, metrics, versions, semantic documents, tasks | upsert, import, delete, synchronise | commit, queueing and synchronising are separate; batches, partial bulk failures, a new embedding model | at rest the documents are those of the row; a vector is of the model it names |
| Metadata search and recall (`M/services/search.py`, `recall.py`, `authorization_filter.py`, `A/agents/explorer/`) | recall contexts per query, advisory locks | search, save, merge, prune, read, expand | calls of one turn at the same time; stored contexts older than the policy and the catalogue | nothing saved is lost; nothing hidden is shown; a context hangs together and knows its gaps |
| SQL guard and executor (`Q/services/`) | none | validate, limit, execute | subqueries, stars, USING, aliases; metadata read in two steps | only what the policy allows is read, and all of it may be |
| Doris permissions (`I/services/doris_permission.py`, `authorization.py`) | identities with an epoch and projected grants in PostgreSQL; roles, users, grants, row policies in Doris | create, delete, grant, revoke, policies | two stores without a common transaction, compensation that may fail | both agree at rest; what failed is undone; old experience reveals nothing |
| Authentication and login limits (`I/services/auth.py`, `rate_limit.py`) | accounts with a version, refresh token families, attempt windows | login, refresh, log out, change, disable | rotation and reuse, snapshots, the last administrator | a revoked family stays revoked; an administrator remains; limits hold |
| Deletion of a user (`src/app/workflows/`, `I/services/user_deletion_store.py`) | deletion task with lease, messages | request, claim, delete stores, complete, fail, recover | two workers, lost workers, requests authenticated before | the deletion completes, and leaves nothing |
| Sandbox containers (`S/`) | container and volume per user, Redis locks, leases and tombstones | operation, write, tidy, delete, reclaim, evict | locks in several processes, capacity, expiry, death | capacity holds; an operation keeps its container; the deleted stays deleted; no circular wait |
| Chat history projection (`A/services/message_projection.py`) | none | group checkpoint messages | order of tool calls and results | a history equals what was streamed |
| Agents, prompts, middleware (`A/agents/`) | passed through | - | behaviour of language models | out of scope |
| Configuration, logging, clients (`src/app/shared/`) | connections | - | pure wiring | out of scope; its Celery settings are assumptions |
| Web client (`src/web/`) | stream and token state | reconnect, refresh | shared refresh, reconnection | planned |

`PROJECT.json` lists the same components with their status, and under
"hazards" everything in this code that is hard to test, each at its line with
the properties that would catch it going wrong.

## 2. Modules

| Module | Models | TLC instances |
|---|---|---|
| `ConversationRun` | `A/services/conversation_run.py` | `ConversationRunSafety`, `ConversationRunLive` |
| `QueryExperience` | `Q/models`, `Q/repositories`, `Q/services/experience_*.py`, `Q/tasks.py` | `QueryExperience` |
| `SpecialistSessions` | `A/agents/session_service.py`, `session_store.py`, `specialist_checkpoint.py` | `SpecialistSessions` |
| `ValueIndexSync` | `M/services/index.py`, `M/repositories/postgres.py`, `value_index.py`, `source_doris.py`, `M/tasks.py` | `ValueIndexSync` |
| `ConversationLifecycle`, implementing `ConversationPromise` | `A/services/conversation_lifecycle.py`, `conversation_turn.py`, `A/agents/manager.py`, `A/tasks.py` | `ConversationLifecycle` |
| `SandboxOwnership` | `S/ownership.py`, `runtime_pool.py`, `manager.py`, `backend.py`, `archive.py` | `SandboxOwnership` |
| `CatalogSync` | `M/services/catalog.py`, `import_service.py`, `index.py`, `M/repositories/semantic_index.py`, `M/tasks.py` | `CatalogSync` |
| `Accounts` | `I/services/auth.py`, `authorization.py`, `I/repositories/identity.py` | through `UserDeletion` |
| `UserDeletion`, extending `Accounts` | `src/app/workflows/`, `I/services/user_deletion_store.py` | `UserDeletion` |
| `DorisRoles` | `I/services/doris_permission.py`, `authorization.py`, `I/repositories/doris_role.py`, `Q/services/execution_handler.py` | `DorisRoles` |
| `AssetAccess` | the policy of `I/services/authorization.py`, `M/services/authorization_filter.py` | through the next two |
| `SemanticRecall`, extending `AssetAccess` | `M/services/search.py`, `recall.py`, `A/agents/explorer/` | `SemanticRecall` |
| `SqlGuard`, extending `AssetAccess` | `Q/services/guard.py` | `SqlGuard` |

`MC<Module>` gives the constants their values, `<Module>Proofs` holds the
theorems. Those of SpecialistSessions and ConversationLifecycle, the two modules
about what belongs to one Conversation, are together in `ConversationProofs`, and
those of QueryExperience and SemanticRecall, the two stores an agent consults for
what is known already, in `ExperienceRecallProofs`; those of UserDeletion and SqlGuard,
about what an account may do, in `AccessProofs`. This is why ConversationLifecycle
calls its specification `LifeSpec`, SemanticRecall `RecallSpec` and SqlGuard
`GuardSpec`. Operators whose comment starts with "fault:" are not part of a specification: each is a
definition of the model with a plausible mistake, and shows that a property can
tell the difference.

In all modules an action is what happens between two points at which another
process, thread or callback can come in: an `await` that really suspends, the
end of a transaction, a call to another store. The lock of a database row, an
asyncio lock and a Lua script make one step of what they enclose.

### ConversationRun

One (user, conversation) key of the registry `_runs`; keys do not interact. The
service lives on one event loop, and its lock is never held across a suspension,
so everything between two suspensions is one step. A task is `created`,
`running`, `cancelling` while `CancelledError` unwinds the agent generator, and
`done`; `doomed` is a task that was cancelled before its first step, whose body
- the `finally` that calls `_finish` included - is never entered. An event is
its number in the Run; an entry of the replay cache covers the range of numbers
it merged (`_merge_delta`), so that gaps and repetitions are visible. The limits
of the cache (events and bytes) and of a queue are constants. A subscription
takes its snapshot and registers in one step, as in `subscribe`, then yields the
snapshot and the queue item by item.

### QueryExperience

One (role, fingerprint): the row, the document in Elasticsearch and the tasks
between them. A transaction is a step; the send after the commit may be lost; a
worker reads the row, writes the document under the external version rule, and
marks the row, in three steps of three different tasks in any order. Late,
repeated and lost tasks, the rotation of the authorization epoch, an import
that disables, an administrator who disables and deletes, and recalls that
notice outdated metadata are actions. Versions of the metadata are abstracted:
that they changed may be noticed at any time. Embeddings and ranking are left
out. Elasticsearch forgets the version of a deleted document only when no sync
of it is under way (`index.gc_deletes`; ExpireTombstone).

### SpecialistSessions

The calls of `execute_delegation` and `delete_session` of one Conversation, in
several processes: the locks of delegation and Session, the capacity slot, the
permit of the process, then the execution, the shielded record, and the
clean-up. The advisory locks belong to the call and go with its process. The
planner repeats a call whenever it resumes. What is said in a result, artifacts,
and the listing of activities are left out; so is a database connection that
breaks while the process lives on.

### ValueIndexSync

One column. A source value is the stamp of its row in the cursor column; rows
may become visible up to `Lag` late. The daily claim, stale claims, requests of
administrators, repeated and lost messages, and the three kinds of run (full,
incremental, clear) with their reads, writes, purge and commit are steps of two
workers that may fail or die between any two, and a request to Elasticsearch that
fails may have been carried out in part (`Outcome`). An administrator switches the
index off and on at any time. The history variable `lost` keeps the values that a
clear run removed and whose removal it could not commit; no action reads it, and
`NothingMissed` excepts them (observation 3 of section 6).

### ConversationLifecycle

One Conversation: its row, its tombstone and its parts (LangGraph thread,
recall records, workspace). A turn of an API process goes from `submitted` (the
check under the lock, which is given back) through the runtime, the
registration of the task and the shared lock to `running`; a deletion request
cancels the turn and then marks the row; a worker checks, saves the tombstone,
deletes part after part and then the row. `Write` recreates thread and recall
records. The workspace is the sandbox's, which does not take the Conversation's
lock: `BuildRuntime` prepares it at any time after `GetRuntime`'s look at the
tombstone, `Upload` writes into it, and a thread of the sandbox that a Tool or
a build has started goes on when its task is cancelled (`late`, `Settle`). What
keeps them from bringing it back is `sealed`, the sandbox's own tombstone in
Redis (`Prepared`, `Seal`). Any step may fail and any API process may die.

`ConversationPromise` says what all this is for, in three variables: a
Conversation is open, closed or gone, one process at most runs a turn, and some
things hang on it; it is closed when no turn runs, and goes, for good, when
nothing hangs on it any more. `ConversationLifecycle` implements it
(`KeepsPromise`): a Conversation is closed from the moment its tombstone is
saved, and gone with its row.

### SandboxOwnership

The containers of all users and the calls of threads in any process. The keys
in Redis - the locks `capacity`, `mutation(u)`, `gate(x)`, the leases of
operations and the tombstones - are variables; `_OPERATION_ENTER`, the script
that checks tombstones and gates and writes the lease, is one step (`Register`).
`get_running` is a sequence of steps, because Docker is asked and told in
separate calls: reserve the capacity, look and count, start, or give the
capacity back and evict one candidate after another (gate, wait for its
operations, capacity again, stop) and look a second time. Which container is
evicted and how long one has been idle depend on times of activity; any choice
is allowed. A call may fail at any point, a lease may lapse and come back, a
process may die, and its keys expire one after the other.

### CatalogSync

Columns and metrics with their versions, and per resource its documents in
Elasticsearch. A document is found by its text, so the documents of a resource
are a function of their texts, each with role, payload, version, and the model
that its vector and its `embedding_revision` are of. An editor's change goes
from the reading of what there is, through the removal of documents of deleted
rows and the commit, to the queueing of a task, which may fail; a worker takes
a task, which may name several resources, and goes through them one by one:
read and compare under the lock of the resource (`Plan`), write in bulk
(`Apply`, where any part of the items may fail), mark (`Mark`). Versions are
numbered per row. A change that no task knows of - queueing failed, or the task
did - is `lost` until somebody asks for its resource again (`Ask`). `Deploy` is a
new embedding model, deployed while no worker is at work.

### Accounts and UserDeletion

`Accounts` has the rows of users, the refresh tokens with their families, and
the access tokens, which carry the `auth_version` they were issued under.
`update_user` and the configuration of the first administrator read the account
(`UpdateRead`, `BootstrapRead`) and write the version they computed later
(`UpdateWrite`), under the security lock but without one of the row. A logout
sees the tokens of a family in the snapshot of its statement and revokes them
later (`LogoutStart`, `LogoutEnd`). Everything else holds the lock of its row
and is one step. `UserDeletion` extends it with the task, the lease (`due`),
the messages of the queue and the workers, which remove Conversations and
agents, the sandbox and the account in this order; `Carry` is what a request
that was authenticated before may still do.

### DorisRoles

What Doris holds of each role against the identity and the projected grants in
PostgreSQL. An operation of an administrator is a saga: under the security lock
it sends statements one after the other and commits; what fails is undone after
the transaction, so without the lock. Each statement has a condition under
which Doris accepts it and an effect. `Mislead` is a statement that takes effect
and reports a failure, `Crash` the death of the process; `drift` records that
something could not be undone. A query resolves its principal, reads the policy
in a second statement, runs when the policy and Doris allow it, and records the
experience under the epoch of its principal.

### AssetAccess and SemanticRecall

`AssetAccess` is the meaning of a policy: a set of assets - database, tables,
columns - where an asset allows what it encompasses. `SemanticRecall` has the
stored context of each query of a Conversation and the calls of the tools on
them: a search (`Search`, any choice of hits that the policy allows, with the
columns of foreign and primary keys added up to a limit), the lookup of
experiences with its cache of a day, and then the locks - a call takes those of its
queries (`wants`) in their order, whatever order they were named in - and the
saving, merging or pruning of contexts; a reader is shown a context filtered by its own policy.
Policy, catalogue and time change beside them. A scope is a type of resource and
a term, and a failure of a scope is kept until a later call searches it.

### SqlGuard

A parsed statement is a record; a query is a sequence of scopes of which the
last is the outermost, with sources, select items, and references of other
clauses. The checks of `QueryGuardService.check` are operators of the same
names; what sqlglot does with a statement - resolving names, expanding stars
and USING - is modelled from how the guard uses it and marked external. The one
interleaving is a change of the metadata between the reading of tables and the
reading of columns.

A condition is the sequence of its parts, each after the parts it consists of, so
that what the guard reads off the tree (`Links`, `Terms`) is a recursive function
of the index. `IsStatement` says what the parser guarantees of a statement and
the theorems assume: the sources of a scope have different names, a condition
has its parts. `GuardAssumption` adds that a policy naming all tables names all
columns (there is no grant on one column of every table), and that no column is
called `*`, which stands for a column of a table without known ones.

## 3. Runs and bounds

| Run | Question | Bounds | Size |
|---|---|---|---|
| ConversationRunSafety | is what a client receives whole, and is it told the truth about the end? | 2 Runs, 2 subscriptions, 3 events, cache of 2 events / 3 bytes, queue of 3 | about 45 s |
| ConversationRunLive | does every stream end, does a stop free the Conversation? | 2 Runs, 2 subscriptions, 2 events, cache of 1, queue of 2 | about 2 min |
| QueryExperience | does the index agree with the row, in the end too? | 1 recorder, 2 workers, 3 revisions, 2 epochs | about 70 s |
| SpecialistSessions | are answers, records and workspaces kept? | 2 processes, 2 Sessions, 3 delegations of which 2 share a Session, 2 calls each | about 80 s |
| ValueIndexSync | do documents fit their state, do runs exclude each other, is everything released and cleared? | 2 workers, 1 value and other rows, 3 stamps, 2 mishaps | 550 000 states, about 190 s |
| ConversationLifecycle | is the promise kept, and does a deletion end? | 2 APIs, 2 workers, 3 mishaps | 296 000 states, about 50 s |
| SandboxOwnership | do capacity, leases, tombstones and locks do their work? | 3 threads, 3 calls, 2 users with a Conversation each, 1 running container, 1 mishap | 640 000 states, about 60 s |
| CatalogSync | do documents and row agree at rest, are vectors of their model? | 2 columns, 1 metric of one, 2 editors, 2 workers, 2 changes, 2 versions, 2 models, 1 mishap | 1.2 million states, about 90 s |
| UserDeletion | does an administrator remain, do families stay revoked, does the deletion complete and leave nothing? | 2 users, 1 of them deleted, 2 tokens, 1 version, 2 workers, 1 mishap | 460 000 states, about 110 s |
| DorisRoles | do both stores agree, is a failure undone, is experience still allowed? | 1 administrator, 2 roles, 1 table, 1 column of another, 1 row policy, 1 query, 3 epochs, 1 mishap | 3.9 million states, about 85 s |
| SemanticRecall | are stored contexts sound, complete and filtered? | 2 callers, 2 queries, 2 columns, 1 metric, 1 value, 1 experience, 2 policies, 2 calls, 2 changes | 970 000 states, about 130 s |
| SqlGuard | is what is admitted allowed, and what is allowed admitted? | 2 tables, 3 columns, all policies over them and the whole database, some 240 statements and more of the catalogue, 1 change between the readings | 343 000 states, 20 s |

The bounds are chosen so that the interesting case and one more fit in:

- Two Runs are needed for a new Run to meet the unwinding of the old one, two
  subscriptions for one to be slow while the other is not. Three events exceed
  the cache by one (eviction), its byte limit by a merge and the queue by one.
- Three revisions let a row be indexed, disabled and refreshed; two workers let
  a late task of an older revision overtake a newer one. One id is enough for
  a deleted row, because later rows have ids of their own.
- Two delegations of one Session compete for its lock, a third in another
  Session for the slots; a second call of a delegation is a resumed planner.
- Three stamps with `Lookback = Lag = 1` let a row arrive late inside the window
  and one before it; two mishaps are a failure and one during its recovery. One
  value is enough: documents of two values meet only in the cursor, which the
  column's other rows (`ArriveElse`) move too.
- Three mishaps of a Conversation are a failing deletion, a crash of its worker
  and one of an API process.
- Three threads are needed for a circle of three waits; with one place and two
  users every start of the other user evicts.
- Two editors change one resource while a task of the earlier version is under
  way; texts that share a word give one document two roles, a metric that uses
  the column ties the two resources together.
- Two accounts, both possibly administrators, are the case in which each could
  demote the other. Two tokens are a family with one rotation or two families.
  Two workers carry out one deletion when one of them was taken for lost.
- One table and one column of another make two groups of privileges, so that
  taking all of them can fail after the first. Two roles let the user be moved
  between the readings of a query. There is one administrator, for with a second one the
  stores come apart (observation 13).
- Two callers on two contexts are what a circle of two waits takes, and what one
  call that overwrites another takes; a day and two more let a cache expire
  between two savings; the policies overlap in nothing the other one has.
- In SqlGuard the tables share one column name, so that names can be ambiguous
  and USING applies; two scopes are a subquery and what surrounds it.

Symmetry is used for safety only, over Runs, subscriptions, threads, users with
their Conversations, editors, workers, roles and callers, which nothing tells
apart.

Every run says `CHECK_DEADLOCK FALSE` except that of ValueIndexSync: a bounded
history comes to a rest when all Runs have ended, all calls are made or the
Conversation is gone. Waiting is the subject of `NoCircularWait` (twice), of the
liveness properties and of `StreamsAreAnswered`, which says that whoever follows a
Run that was entered is told of its end. One does wait for ever: a subscriber of
a Run that was cancelled before its first step (observation 1), against
the docstring of `subscribe`. ValueIndexSync always has a next step, because requests
never stop.

Each property was also run against a mutant of the code it is about
(`PROJECT.json`, "mutants"): a dropped lock, a swapped order, a missing filter.

## 4. Fairness

- **ConversationRun**: the event loop runs every callback that is ready, so a
  created task is entered, a cancelled one finishes unwinding and a generator
  with something to yield yields it (weak fairness). Nothing obliges an agent
  turn to end, a client to read or a Run to be stopped; `EveryStreamEnds` starts
  from a Run that has ended.
- **QueryExperience**: beat runs the repair for ever, and the broker does not
  refuse it for ever (weak fairness of a repair that queues something); workers
  take messages (weak), and a sync that is retried again and again gets through
  (strong fairness of Write and Commit, which an error may disable each time).
- **ValueIndexSync**: claims age and the daily dispatch looks at the column, a
  message that a run may begin with is taken (`acks_late`, `reject_on_worker_lost`
  in `src/app/shared/tasks/celery_app.py`), and a run that was begun goes on (weak
  fairness). Nothing else has to happen; mishaps are bounded.
- **ConversationLifecycle**: turns advance, the periodic task starts jobs, jobs
  proceed (weak); failures and crashes are bounded.
- **UserDeletion**: a transaction that holds the security lock ends (weak). What
  serves the deletion of one user - time, the periodic dispatch, a worker that
  takes its message and goes on - happens as long as it can again and again
  (strong fairness of `Progress(u)`): the security lock, which closing and removing
  an account need, is free now and then only. Losses and failures are bounded.
- **SpecialistSessions, SandboxOwnership, CatalogSync, DorisRoles,
  SemanticRecall, SqlGuard**: safety only. Locks are tried without a queue or are
  held by transactions, and nothing in the code comes back to what was given up;
  what a settled state must look like is stated as an invariant instead
  (`SettledIndexAgrees`, `StoresAgreeAtRest`).

## 5. Proofs

The proof modules are checked by TLAPS and hold for any numbers of Runs,
subscribers, threads, processes, users, roles, columns and so on; they rest on
the named ASSUMEs of their modules only (types of the constants, finiteness of
the sets whose sizes matter, `SubscriberQueueLimit >= 2`, users and
Conversations being different things), and where a theorem assumes more it says so.

- **ConversationRunProofs**: `TypeCorrect` (no queue outgrows its limit) and
  `OneLiveRunHolds`. Types need lemmas about the cache: `_cache_event` drops a
  prefix (`EvictIsSuffix`, from the least number of entries to drop), merging and
  offering keep entries well-formed. `OneLiveRun` is inductive together with the
  types: `_start` refuses while a live Run is registered, and `_finish` takes a
  Run off the registry only if it is the registered one. `EventsStayWholeHolds` and
  `StreamsAreAnsweredHolds` share one invariant, `StreamInv`: what a subscriber has
  received and what is in his queue are together the events from his position to
  the last one published (`Followers`), the cache is a gapless window that ends
  with the last event (`ReplayWindow`), `done` and the notice of removal come last
  and are put by nobody else (`SubsInOrder`, `CutOffIsAnnounced`), and a Run has
  published `done` and taken its subscribers off before it is over
  (`RunsInOrder`), so the closing None is the last thing in the queue of whoever is
  still connected to a Run that was entered and is over (`EndIsLast`). Neither property is inductive alone: a reconnection takes its
  events from the window, and what it finds there may have been merged after
  the subscriber had seen a part of it.
- **ConversationProofs**, of SpecialistSessions: `AnswersAreRecordedAlways` from IInv = types and,
  per delegation, `Pending` (a success that is about to be answered is on record),
  `Fresh` (what executes has not been answered with a success before), `Alone`
  (no call of a Session is under way while it is being deleted) and `Kept` (the
  property itself). `WorkspaceKept` adds that a checkpoint is gone before its workspace is
  removed (`Gone`), which is what the order in `delete_session` is for. `ResultsStand`
  is about steps: it follows from `Unrecorded`, that a call which is going to
  execute has found no result and none has come since, because nobody else
  writes the record of its delegation.
- **ConversationProofs**, of ConversationLifecycle: `NothingLeftAlways`,
  `NoRunOfDeletedAlways` and `OneTurnAlways` from LifeInv = types, `Exclusive`
  (one holder of the advisory lock among turns and jobs), `JobsInOrder` (what a job
  has deleted by then is gone and cannot come back: thread and recall records
  because the job holds the lock and the tombstone is saved, the workspace because
  the sandbox's tombstone is), `GoneIsBare`. `PromiseKept` is the refinement: the first states map to the
  first state of `ConversationPromise`, and each action maps to one of its steps or
  to none, the invariant saying why a turn never begins beside a tombstone.
- **SandboxOwnershipProofs**: `CapacityHolds`, `UsedContainersRun`,
  `DeletedStays`. `LInv` says which locks a call holds at which stage, and each
  theorem adds what has been found out under them: `Counted` (there is room while
  a container is being started), `Leased` and `Cleared` (an operation has a lease
  or the mark of having lost it; behind the gate of a user there are only marked
  ones), `Asked` and `Stores` (no tombstone while a container is being made or a
  workspace written; a tombstone before anything is deleted; no container without
  a volume, no workspace outside of one). `StageAfter` names the action that leads
  to each stage; `StoppedBy`, `MadeBy`, `MarkedBy` and `StoredBy` name the actions
  that stop a container, make one, save a tombstone or delete data, so that each
  step has to consider those only. `NoCircularWaitHolds` is about cycles of any
  length: the inner locks (a user's mutation lock, then the capacity lock) are
  released without waiting for a gate (`HeldOnly`, `LeaseOnly`); operations that have
  chosen a rival to evict come one after the other (`RivalsInTurn`), and the one
  that holds the gate the others need waits for nobody in the cycle.
- **ExperienceRecallProofs**, of QueryExperience: `ProjectionExact`, `PurposesPure`, `AdministrationFinal`.
  What a worker has read is the row or an older revision of it (`Loaded`), and
  Elasticsearch is never ahead of the row and agrees with it at its revision
  (`Versions`); so a late worker loses by its version, as long as the tombstone it
  has to lose against is kept (`Synced`, `Gone`). `Numbered` keeps ids apart, `Pure`
  follows the purposes through every place they pass.
- **ExperienceRecallProofs**, of SemanticRecall: `ShownAllowed`, `ContextsSound`,
  `CacheLasts`, `LocksInOrder` and `ResourcesKept` share one invariant, `RecallInv`. Neither
  of them is inductive alone: a context goes through many hands, and each of them
  relies on what the one before has left. So the lemmas about the operators
  come first: `Contexts` is the set of contexts that hang together, say what they
  lack, and name nothing outside of the catalogue, and a response of a search,
  what a policy leaves of a context, what merging two contexts gives (whichever
  of two snapshots of a column or a table stays) and what pruning leaves are members again.
  That a filter may not break a context is where the meaning of a policy enters:
  a column that is allowed has its table visible, and a value or a metric is shown
  only with all of its columns. `CallSound` says what a call has in its hands at each stage
  (a result is a context, shown or found under the policy that the call has read),
  `LocksHeld` that a lock is held by exactly the call that has taken it, one at a
  time and in order, and `MergesInto` that a recall with its lock still
  knows the context it read: nobody else writes it, so saving loses none of its
  columns, metrics and values.
  `LocksInOrder` is about any set of calls, not about two: of the queries that some
  call of the set waits for, the greatest is held by a call that waits for none,
  or else for a greater one. The assumption `RecallAssumption` gives the types of the
  constants, and that the queries of a Conversation have a last one; there is no
  bound on callers, policies, columns or requests in the theorems.
- **ValueIndexSyncProofs**: `OneRunAlways`, because a run owns the state row as long
  as it lives (`Owned`) and claims get stale only without one. `DocumentsFit` is
  proved under the assumption `Lag <= Lookback`: what a run has found or left out at
  each stage is late or in the index (`Reached`), given what it took over when it
  began (`Taken`, `Behind`), and a run that clears ends with nothing (`Reading`,
  `Emptied`). The values a clear run removed without committing (observation 3)
  are excepted in the property and in `Reached` until a full run commits.
- **CatalogSyncProofs**: `VectorsMatch`, because a document whose text stays is
  written without a new vector only if its vector is of the deployed model
  (`InPlaceFits`), and nothing else writes it between the plan and the write
  (`Locked`). `SettledAgrees` follows the traces of a change: whatever alters a row
  or removes documents leaves a task, an edit on its way to one, or an entry of
  `lost`, and somebody still has to look (`Behind`); once nobody has to, whoever
  holds the lock of the resource has planned from the row as it is (`Fits`), or has
  written it, or it is written and marked (`Followed`). A worker that finds the
  version changed when it comes to mark does not mark, and the later change's own
  trace brings somebody else; this is why no order of the tasks is needed.
- **AccessProofs**, of UserDeletion: `OneAdministrator` needs that an update under way leaves an
  administrator besides its user (`Others`), which the security lock keeps true.
  `DeadFamilies` needs that a family bears the number of a token that exists
  (`Founded`), so that a login never takes up an old one. `AccountAndTask` and
  `NothingRemains` say what several workers add up to: task and account go
  together (`Agreed`), a user without requests gets none once the account is
  closed (`Quieted`), and what a worker has removed stays away (`Emptied`).
  `TypeCorrect` adds the bounds (`Bounds`).
- **AccessProofs**, of SqlGuard: `ReadsAllowed`, `NothingHidden` and `Binding`. The
  invariant is short (`GuardInv`: the verdict is what the rules say of the two
  readings); the arguments are about the operators. For `ReadsAllowed`, a reference
  that is completed to a physical source names a column the narrowed catalogue
  knows, or a table it knows no column of (`ReadIsKnown`); the first is allowed by
  narrowing, and for the second the policy check asks for the whole table. For
  `NothingHidden`, the narrowed catalogue has everything a sound query reads, so
  that each reference means the same sources (`ResolvedSame`, `UsingSame`), each star and
  select item gives the same names (`ItemNamesSame`, `OutputsSame`), each join
  is judged alike (`JoinsSame`), and no check has anything left to find
  (`SoundAdmitted`). `Binding` is about conditions of any size: the least part that
  links and holds while no comparison of both sides is true would need
  a part that does so too (`LinksBind`, and `TermsBind` for the schema of the
  catalogue). That the recursive functions exist at all is `RecursionExists`.
  The theorems are about any metadata, policies and statements of the model, with
  any number of changes between the readings.
- **DorisRolesProofs**: `CurrentAllowed` holds for any number of administrators and does
  not use the lock: a commit either only adds to the privileges of a role, or
  gives it an epoch nobody has read yet, or takes its identity away (`CommitForward`),
  and what a query may use is read after the epoch it will be recorded under
  (`Numbered`, `Fitting`, `Recorded`). `TypeCorrect` is where the lock matters (`Locked`:
  one operation at a time is about to take the last epoch) and the kinds of
  statements a saga may hold (`Granting`, `Unfinished`). `OneAdministrator` is
  `StoresAgreeAtRest` and `FailureIsUndone` for one administrator at a time, which the
  code does not enforce; with two they are false (observation 13), because the undoing
  runs without the lock. What the proof uses of it is `Apart`, that no two operations on
  one role overlap. At every moment of an operation its undo list leads,
  statement by statement and each one accepted by Doris, back to what the role
  was (`Restores`), and what has been sent so far tells what the role has become
  (`Progress`), so that at a commit Doris is where the rows are going (`Settled`).

The inductive invariants were checked with TLC on small instances before they
were proved.

**Only model-checked.** All liveness properties: the prover handles neither
fairness of unbounded executions nor ENABLED. Every invariant and every action
property that a run checks is also a theorem, for every value of the constants
that its named assumptions admit.

## 6. Observations

Met while modelling: behaviour of the code that a reader may not expect, or that
a comment or docstring says otherwise. The models include it, unless said
otherwise, and the properties are stated for what remains true.

1. *A Run cancelled before its first step.* The cancel skips `_execute` and its
   `finally`; the ended Run stays registered, and its subscriber and later ones
   wait for ever on it, though `subscribe` says that an ended Run answers `done` at
   once (`A/services/conversation_run.py:113`). `StreamsAreAnswered` and `EveryStreamEnds` are restricted
   to Runs that were entered.
2. *Slots of capacity overlap.* The slots that `reserve_capacity` tries are counted
   from the number of Sessions listed, so those of two listings overlap, and
   one Session more than allowed can come to exist (`A/agents/session_store.py:168`).
3. *Switched off and on again.* A column that is switched on again while its index
   is being cleared loses its documents and keeps its cursor; the next
   incremental run misses the older values and succeeds (`M/services/index.py:486`,
   `663`), until a full run or a later clear run is carried out. `NothingMissed`
   excepts exactly these values, kept in the history variable `lost`.
4. *A refused deletion request.* It leaves the key in `_deleted_conversation_keys`,
   and the process answers every later turn that the Conversation has been
   deleted (`A/services/conversation_lifecycle.py:70`).
5. *Changes of a sandbox are not all serial.* `cleanup_idle` and the eviction do not
   take `user_mutation` (`S/ownership.py:52`, `runtime_pool.py:127`): a container goes
   while a workspace is written in it, or stops while one is removed.
6. *A first run that dies.* It leaves its state `syncing` with a run id and no
   generation. The dispatcher skips such a row
   (`M/repositories/postgres.py:281`) and every request is refused
   (`M/services/index.py:396`), until the state is removed by hand. `Released` is
   stated for columns that have been completed once.
7. *A change of the cursor column* drops the state while a run may be under way;
   a second run then starts beside it. Not in the model.
8. *An expired draft* is deleted without being marked: if its deletion fails half
   way, the tombstone is saved, the row is a draft, and a message of the user
   makes it an ordinary Conversation which no task goes on deleting.
9. *Nothing repairs the semantic index.* When queueing fails after the commit, or a
   task gives up, the change stays unindexed until somebody asks
   (`M/services/catalog.py:178`); a column that is deleted before its batch task
   runs fails the task and leaves the resources after it; documents are deleted
   before the row and without the lock of the index, so that a synchronisation in
   between leaves some without a row (`M/services/import_service.py:146`). An import
   counts versions on from the rows its session has read earlier, so that a
   version can be given twice.
10. *`auth_version` may be given twice.* `update_user` and the configuration of the
    first administrator read the account without a lock of its row and write the
    version they computed (`I/services/authorization.py:673`): beside a change of
    password one of the two increments is lost, and the access tokens of before
    the later change may be accepted until they expire.
11. *A logout beside a refresh.* With an earlier token of the family it works on a
    snapshot that lacks the new token, which stays alive, though the docstring
    has the whole family revoked (`I/services/auth.py:457`).
12. *Requests authenticated before an account was closed* can leave Conversations or
    a container after the deletion has completed; `CompletedLeavesNothing` is about
    deletions that began without such a request.
13. *Compensation is not under the security lock* (`I/services/doris_permission.py:201`):
    it can undo the operation of a second administrator on the same role, against what the
    comment at line 159 is after. `StoresAgreeAtRest` and
    `FailureIsUndone` hold for one administrator at a time only.
    After a crash, or a statement of unknown outcome, the stores stay apart.
14. *Recall contexts.* A failure to embed the terms is cleared by any later request of
    its type, for whatever terms, against two docstrings (`M/services/recall.py:166`, `184`); so
    `GapsAreKnown` speaks of each recorded scope on its own. A stored context of the same `meta_version` keeps keys and references
    that had been hidden after they are granted. `record()` writes back a list of
    experiences that was read before the lock, over what another call has saved
    meanwhile; `SavingKeepsResources` is about columns, metrics and values only.
15. *The guard.* Tables and columns are read in two statements, though the docstring
    promises a consistent snapshot. A negated join condition passes as linked and
    may be a product. A grant can make an admitted query ambiguous. `SELECT *`
    is refused when every column is granted but not the table.

## 7. What the models leave out

- **ConversationRun**: the content of events, the HTTP layer, keep-alives. The
  recovery of a Run after a crash does not exist in the code: Runs are lost.
- **QueryExperience**: ranking, embeddings, statistics, the versions of metadata.
  Elasticsearch is taken not to forget the version of a deleted document while a
  sync of it is under way.
- **SpecialistSessions**: a lost database connection in a living process; the
  status shown for a delegation of another process.
- **ValueIndexSync**: changes of the cursor column; documents of columns that an
  import removes.
- **ConversationLifecycle**: the LRU cache of runtimes, several Conversations in
  one batch of deletions (one that keeps failing holds up those behind it), the
  deletion of all agents of a user.
- **SandboxOwnership**: locks are taken to last as long as their holder lives. A
  renewal that fails is noticed at the end of the block only, so with lapsing
  locks neither the capacity nor the serial changes hold; a process suspended for
  longer than its lease loses it unnoticed. Rebuilding containers of an outdated
  specification, reconciliation at start-up, shutdown, the UID registry and file
  contents are left out.
- **CatalogSync**: the rows of tables, which have no documents; validation of what
  an import says of types and references beyond what is deleted and used.
- **Accounts, UserDeletion**: passwords, expiry and format of tokens, the windows of
  failed logins, and the parts of each store, which ConversationLifecycle and
  SandboxOwnership have.
- **DorisRoles**: names and passwords, workload groups, the default identity, the
  predicate of a row policy, the listing of privileges.
- **SemanticRecall**: scores and their fusion (any choice of hits is allowed), more
  than one search term in a request, so that the gap of observation 14 does not appear,
  versions of tables (either of two snapshots may stay), the tokens a context may take in a prompt.
- **SqlGuard**: set operations, references to an outer scope, the executor with its
  limits; sqlglot is modelled as far as the guard relies on it. A column of a USING
  that a source with known columns does not have is taken to be refused; of a source
  without known columns it is not.
- Agents and prompts (language models decide), configuration, logging and client
  wiring (nothing to go wrong in an order), web pages.

`src/app/shared/tasks/celery_app.py` gives the delivery assumptions: messages
are acknowledged late, lost workers reject them, the visibility timeout is longer
than any task may run, and beat sends the periodic tasks.

## 8. Plan

Next modules, the most consequential first:

1. `ShellJobs` (`A/agents/shell_jobs.py`): one terminal state per job, a
   cancellation that fails or races with the end, results consumed once,
   clean-up with a deadline; composed with the runtime cache of `A/agents/manager.py`.
2. `LoginLimit` (`I/services/rate_limit.py`): bounded windows of attempts.
3. `ChatHistory` (`A/services/message_projection.py`) against a reference grouping.
4. `WebSession` (`src/web/src/`): shared refresh of a token, reconnection of a stream,
   composed with Accounts and ConversationRun.

Abstract specifications to be implemented by the modules: a log of events with a
window and readers (ConversationRun), a set of values that follows its source
(ValueIndexSync), one store of roles (DorisRoles with one administrator).

Proofs to come: these refinements.
