# A verification project for the Agri-IoT trust backend

TLA+ models of `backend/app` (FastAPI, SQLAlchemy on PostgreSQL, Redis) and of
the dashboard in `src/frontend`: the audit blockchain and its reports, the
dual-write audit trail, device trust, keys and health, the attack simulations,
the security gateway and sensor ingestion, the rules of severity, models and
drift, users and tokens, and the pages that use all of this. TLC checks small
instances, TLAPS proves the safety properties for all instances. Paths
below are relative to `src/backend/app` unless they start with `src/`.

    tlc -workers 2 -config Chain.cfg MCChain      # one run of PROJECT.json
    tlapm ChainProofs.tla                         # one proof module

## 1. Inventory

Each request has its own `AsyncSession` (`database/session.py:33`, `get_db` :43)
and shares nothing in memory with other requests, so components interact through
tables and Redis keys only. Everything hard follows from that: a request reads,
awaits, and writes on what it read, and several commits make up one operation.

| Component | State | Operations | Interacts with | Hard behaviour | What makes it correct |
|---|---|---|---|---|---|
| Blockchain ledger (`blockchain/chain.py`, `block.py`) | `blockchain_blocks` | `initialize_chain`, `add_block`, `validate_chain`, reads | called by audit trail and API | SELECT latest and INSERT race; commit inside a callee | never forks or tears, append-only, each answer is the caller's own block |
| Audit trail (`blockchain/audit_trail.py`) | `audit_logs` | `record_event`, reads | calls the ledger with its own session | three commits for one event; the callee's commit commits the caller's flush | rows, blocks and back-links agree after every failure |
| Severity rules (`audit_trail.py:52-176`) | none | `classify_severity`, threshold | used by the audit trail | three rules in sequence | never lowers a severity, each rule holds in combination |
| Devices and keys (`services/device_service.py`, `api/v1/devices.py`) | `devices`, `device_keys` | create, patch, reset, register key | trust engine writes the same row | stale object in the identity map, partial UPDATE, unlocked rotation | lifecycle order, exactly one active key |
| Trust engine (`services/trust_service.py`) | `devices`, `trust_events` | `adjust_trust_score` | called by API and simulations | row lock against an already loaded object, clamping, thresholds | no lost penalty, frozen scores do not rise, history explains the score |
| Attack simulation (`services/attack_sim_service.py`) | rows of the others | six `simulate_*` | trust engine, audit trail, prediction | three transactions and one `except` | the report agrees with what was stored |
| Security gateway (`security/gateway.py`) | Redis counters and nonces | `verify_device_request` | devices, Redis | expiry, eviction, retries, INCR/EXPIRE in two commands | a reading passes once, the limit holds, nobody is locked out |
| Sensor ingestion (`services/sensor_service.py`) | `sensor_data`, cached reading | `ingest_data` | behind the gateway | commit, then cache | the cache shows stored, and the latest, readings |
| Device health (`services/device_health_service.py`) | `device_health` | record an authentication event, recompute the composite score | reads the trust score and the trust events | unlocked read-modify-write, get-or-create race, column-wise UPDATE, falsy 0.0 | no event counts twice; without a race the row is exact |
| Epoch report, Merkle root, listings (`api/v1/blockchain.py`, `block.py`, `validator.py`) | none | report over a range, listings, statistics, checks of blocks | ledger | two reads of a growing table; odd levels duplicate | a report is true of one moment; roots tell ranges apart; tampering shows |
| ML inference (`services/ml_service.py`) | `model_registry`, files | predict with all models, choose the best | simulations, dashboard | order and ties of a SELECT | the vote describes the majority, the recommendation is a best model |
| Drift monitoring (`services/drift_service.py`) | none | drift check over features | audit trail | a fold over features in any order | the report has the severity of the worst feature |
| Risk-based access (`services/risk_auth_service.py`) | none | access tier of a score | none: no endpoint calls it | thresholds repeated from the lifecycle | tiers and lifecycle agree |
| Users and tokens (`services/user_service.py`, `api/v1/auth.py`, `security/jwt.py`) | `users` | register, login, the caller and the role of a request | all endpoints | two registrations of one email; tokens that expire | an accepted password stays that of its account |
| Dashboard (`src/frontend/src/components/Dashboard.jsx`, `services/api.js`) | component state per tab, one `localStorage` | sign in, register, panels, simulations, sign out | the API | two tabs, answers out of order, lost or late; closures over old state | buttons, results and sessions tell the truth |
| Evaluation, benchmarks | none | constants and timings | - | none | - |
| Settings, logging, error formatting | none | - | all endpoints | none of its own | - |

`PROJECT.json` lists every component with its status, and every hazard at its
line with the properties that would catch it.

## 2. Modules

| Module | Models | Composed of |
|---|---|---|
| `Ledger` | abstract: an append-only log of contents with receipts | |
| `Chain` | `BlockchainManager`, one action per database round trip | refines `Ledger` |
| `Explorer` | the read side beside the writers: epoch report, Merkle root, listings, checks of single blocks | extends `Chain` |
| `Severity`, `SeverityContext` | the severity rules; a context that worsens | |
| `AuditTrail` | `record_event` | extends `Chain`, `Severity` |
| `AttackSim` | the six simulations | extends `AuditTrail` |
| `TrustScore` | abstract: a score that moves by recorded adjustments and resets; the adjustments of careless clients may start from a score the device once had | |
| `DeviceTrust` | one `devices` row with keys and trust events, every endpoint that writes it | refines `TrustScore` |
| `DeviceHealth` | one `device_health` row | environment: `TrustScore` |
| `Gateway` | the gateway and ingestion over Redis and time | |
| `ModelVote`, `DriftCheck` | the loops of `predict_all` and `run_drift_check`, one action per turn | |
| `MCRules` | severity, vote and drift for one run; they share no state | extends the three |
| `Accounts` | the `users` table, tokens, roles | |
| `Dashboard` | pages in several tabs, their requests, the server's answers | extends `Accounts` |
| other `MC*` | symmetry sets and input sets of the runs | |
| `*Proofs` | theorems | extend the modules above; `SimProofs` also instantiates `AuditProofs` on the log before relabelling |

### How state and actions correspond to the code

*Database.* A variable of a table is its committed contents. PostgreSQL runs
READ COMMITTED (nothing sets another level), so a SELECT sees the table as
committed at that moment and a COMMIT re-checks only unique constraints. Each
action is a round trip together with the local computation up to the next
`await`. Sessions interleave freely between them.

*ORM.* Three facts of the session configuration are part of `DeviceTrust`:
`seen` is the object in the identity map, which a later SELECT does not refresh
(not even `FOR UPDATE`; `expire_on_commit=False`); `Flushed` writes only the
columns that differ from the loaded ones; and authentication may have loaded
the device already, because `User.devices` is `selectin`
(`models/user.py:31`). `Registrant` is the set of requests for which it has; it
is arbitrary, and such requests run beside the others.
Every endpoint authenticates on the session it then uses (`api/deps.py:36`).
The database is PostgreSQL, as in `docker-compose.yml` and `.env.example`. The
default `database_url` names SQLite, where `FOR UPDATE` has no effect: nothing
here is said of that.

*Chain.* `pc` is the line a request waits at, `tip` its local `latest_block`,
`ret` the number of the row it inserted. `Canonical` is the string that
`compute_block_hash` makes of the contents of a row. It is lossy: the trust
snapshot has four decimals (`block.py:104`), missing metadata becomes `{}`, and
`created_at` is not part of it. Nothing is assumed of `Canonical`, in the runs
two contents share a string. A digest is represented by the numbers and strings
of its chain; this is collision freedom of SHA-256 and nothing about what was
formatted before. `CommitBlock` and
`CommitGenesis` include the primary-key conflict; `Abort` is a request that
dies, before or after its COMMIT.

*Audit trail.* `stage` is where `record_event` stands around the steps of
`Chain`. The row is flushed first, so `FlushedRow`, which is part of every
commit inside `add_block`, makes it visible without a link; the last COMMIT
adds the link. Callers pass no context, so `ClassifyPlain` is the severity.

*Trust.* Scores are counted in half points because the matrix has steps of 0.5
and 1.5. `Adjusted` is delta, clamp and lifecycle evaluation in the order of
the code; `LockDevice` is blocked while another adjustment holds the row. An
event carries the request that wrote it (`by`, which the table does not have),
so that the properties can tell a registrant's events from others'.
`CommitPatch` and `CommitReset` wait for that lock only if a column is dirty.
Suspension reasons and timestamps are left out: nothing reads them.

*Simulations.* `phase` strings together the trust transaction (one step that
commits or raises), `record_event` step by step, the relabelling transaction of
`simulate_ml_anomaly`, and the `except` that turns any failure into a report.
`report` is the set of claims in the answer.

*Reports.* A reader reads its range twice while `Chain` goes on. A Merkle node
is the pair of digests below it, a leaf the digest of a block, so that again a
digest determines what it was computed from. Duplication of the last digest of
an odd level (`NextLevel`) is in the model, and `RootsDistinguish` says that it
does no harm here: no chain holds a digest twice. The 999999 of the unbounded
reads is the constant `LastRead`; `QueriesAgree` holds up to it.

*Health.* `row` is the committed row, `held` the row a session loaded, and the
session computes with `held`; `Written` is the UPDATE, which names only the
columns that changed. `stale` is a history variable: some request has committed
over a row other than the one it had loaded. The trust engine appears as the
abstract `TrustScore`, which `DeviceTrust` implements. Rates are exact
fractions, scores are in hundredths of a point and rounded down where the code
rounds floats. `record_auth_event` has no caller yet; it is modelled as the
service offers it, on the session of a request.

*Vote and drift.* Each turn of the loop is an action and the order of the rows
or features is arbitrary. Written as state machines the loops have inductive
invariants, so what they compute is proved for any number of models and
features. Predictions, ROC AUC, PSI and p-values are inputs.

*Accounts.* A password stands for its hash, a token for its claims. A token is
named by the request that obtained it; `EarlierToken` may be in `localStorage`
from before. `InsertUser` is the INSERT that the unique email refuses. An email
stands for its normalised spelling: `EmailStr` (`schemas/user.py:13`) lowercases
the domain at registration, login looks up the string as typed
(`auth.py:29`), so another spelling of the domain finds no user and is among
the unknown emails. Role sets are those of the routers (`DeviceRoles`,
`AuditRoles`, ...), `require_role` (`api/deps.py:63`) compares with them, and
`Needs` is what `loadData` asks of them per panel.

*Dashboard.* A handler is one action up to its `await` and another from its
answer to its end, working on the state and the closure the code has at that
point: `api.js` takes the token when it sends, and `loadData` after a
simulation is that of the page that was clicked. Requests are numbered in the
order they are sent and used once; `reloads` marks the load that a simulation
sent. A request that no longer matters is `Settled`. A `Promise.all` is one
request that fails when either call does. `version` counts simulations on the
server and every answer carries the version it read, which is how "stale" is
defined. `Room` and `Owed` keep a number in reserve for what an answer makes
the page send, so that the bound never suppresses a step of a handler.

*Gateway.* The counter is a value with a ttl, a nonce key is its ttl. Time is
kept as ages (`age` of a timestamp, `admitted` and `spent` of a request), each
up to the age from which it no longer matters, so the state space stays finite
without bounding time. `Tick` ages everything at once. `Sent` is how old the
readings are when a behaviour starts; time only makes them older.
Redis runs with `allkeys-lru` (`src/backend/docker/docker-compose.yml:34`):
`Evict` may drop any key at any time, in every run and every proof. Two ghosts
remember what was lost with it: `unspent` the requests whose nonce was evicted,
`uncounted` those whose counter was, or whose counter ran out before they
reached EXPIRE, which then does nothing or gives its ttl to the key of another.
The device row is `DeviceTrust`'s and appears as an outcome of `FindDevice` and
`VerifySignature`. Two exceptions of the gateway are called with arguments that
do not fit their constructors (`DeviceLifecycleError`,
`RateLimitExceededError`): the answer is a 500 instead of a 403 or 429, and
still a rejection.

## 3. Runs

Twelve runs. Those that pass (distinct states in parentheses):

| Run | Instance | Shows |
|---|---|---|
| `chain` (201k) | 3 requests, 3 contents of which 2 share a canonical string, a reader of every range up to 2 | the inductive invariant, `validate_chain` finds nothing, append-only, contention never makes everyone fail, refinement of `Ledger`; a report is true of one moment; `validate_chain` notices exactly the edits that change a canonical string, and a removal, but for what concerns only the latest block; ranges have different roots; listings, length and statistics agree |
| `audit` (16k) | 4 requests, one event type below and one at the threshold | rows, blocks and links agree under races, conflicts and aborts; committed rows are immutable |
| `severity` (7.9k) | all events, counts past both thresholds, trust around 30; 3 models with 3 scores in every order; 3 features on both sides of every threshold or missing | the severity rules in combination, the vote, the recommendation and the drift report |
| `trust` (134k) | 3 requests of 8 calls, one of them of the user who registered the device, fair | lock freshness, a history with gaps only next to the registrant's events, frozen scores and restriction for everybody else's adjustments, agreement of risk access with the lifecycle, last key active, refinement of `TrustScore`, nobody waits for ever |
| `health` (487k) | 3 requests of 3 calls, every one of the registrant, trust at 0 and 40 points, 2 trust events | no event counts twice, a row no race has touched is exact |
| `sim` (615k) | 3 simulations, probabilities 59, 60, 95 | reports, log and chain agree where the event is recorded, and no simulation touches the audit row of another |
| `dashboard` (1.0M) | 2 tabs, the overview and the analytics, 4 requests of which 2 logins or registrations, the second may fail or get lost | buttons and results belong together, an overview is fresh unless loads overlapped, no session ends for another reason than its own end or a late answer, accounts belong to who registered |
| `gateway_nonces` (2.8M) | 3 requests, 2 readings, crashes and evictions | origin of nonce keys, a nonce passes once per lifetime unless it was evicted, cached readings are stored |
| `gateway_limit` (159k) | 4 requests, limit 2, window 3, evictions, fair | fewer than twice the limit in any window, of requests whose counter was kept; the counter always goes away when no request is cut off |

Runs that TLC refutes; each quotes a sentence of the repository that the code
does not keep (details under `findings` in `PROJECT.json`):

| Run | Sentence | What happens |
|---|---|---|
| `trust_recorded` | "Records every trust score change" (`models/trust_event.py:15`) | a registrant's adjustment computes from the row loaded at authentication; a penalty is lost |
| `trust_rotation` | "Only one active key per device" (`models/device_key.py:19`) | two rotations read the same keys; both new keys are active, and `get_active_key` raises from then on |
| `gateway_stuck` | "counter per minute" (`gateway.py:54`) | a request cut off between INCR and EXPIRE leaves a counter that never goes |

Every property of a passing run has a mutant: a changed definition (`Fault:` in
the modules: a dropped lock, an upsert, a missing NX) under which TLC finds
the property violated.

### Other disagreements between words and code

Visible in the models' actions, with no run of their own:

- `BlockchainManager` says "concurrent appends are serialized"
  (`chain.py:55`): both read the same tip and one fails on the primary key
  (`CommitBlock`). Nothing is torn, but the event of the loser has no block.
- The lifecycle of `core/enums.py:40` has no step from revoked to active: a
  `register_key` that loaded the row while it was registered makes one
  (`CommitKey` works on `seen`). No property is about it: `AdjustOnlyRestricts`
  speaks of adjustments.
- "auto-suspend if trust drops below 50" (`trust_service.py:5`): a device
  penalised while registered is activated whatever its score (`Evaluate`,
  `Activated`).
- "Tamper-evidence: any modification changes the hash." (`block.py:82`): not an
  edit of `created_at`, nor of the fifth decimal of the trust snapshot, nor of
  missing metadata to `{}`. `TamperEvident` says which edits `validate_chain`
  notices, and which not.
- "Return latest N blocks" (`api/v1/blockchain.py:56`): the unfiltered listing
  reads indices up to 999999; later blocks are never listed.
- "Trust score is frozen if device is suspended/revoked" (`trust_service.py:92`):
  a registrant's gain, computed from the row of its authentication, may be
  written over a score that others lowered and froze since. `FrozenNeverGains`
  speaks of everybody else.
- "Reset a device's trust score to 100.0" (`devices.py:101`): a score loaded as
  100.0 is clean and is not written, so a penalty committed in between stays
  (`Flushed`). A reset writes no trust event, which is why `EveryChangeRecorded`
  and `GapsAtRegistrants` are about devices nobody resets.
- "30% — Trust score (normalized)" (`device_health_service.py:112`): a score of
  0.0 is falsy and weighs as much as 100.0 (`TrustOrFull`).
- "HIGH severity -> anchored" (`attack_sim_service.py:105`): four simulations
  claim an anchor and never call `record_event` (`Records`, `KeepsAnchor`).
- "Caches latest reading in Redis" (`sensor_service.py:39`): two requests may
  cache in the opposite order of their commits (`CacheReading`).
- "all security-relevant events above a configurable threshold are immutably
  recorded" (`audit_trail.py:20`): the COMMIT inside `initialize_chain` commits
  the row of a severe event; when the request dies there, no block is ever
  written (`CommitGenesis`, then `Abort`).
- "Immutable security audit log entry." (`audit_log.py:15`): `simulate_ml_anomaly`
  rewrites severity and link of its row (`attack_sim_service.py:318`).
  `OthersRowsKept` is what holds.
- A simulation that fails in `record_event` answers a penalty of 0.0 although
  it is committed (`Penalise`, then `caught`). `RecordedClaimsHold` is about
  severity and anchor only.
- The two reads of an epoch report may differ: a block committed in between is
  in the root and not in the count (`ReportsHold` bounds this and allows it).
- A gateway that refuses a request after its nonce was spent cannot be asked
  again with that nonce (`VerifySignature`, `StoreReading`).
- The counters of `device_health_service.py:48` lose events that race, the
  columns of the row may come from different requests, a success does not end a
  streak that another request counts up meanwhile, and a rate may exceed 1
  (`Written`); `AccurateUnlessRaced` excepts rows that a race has touched.
- Nothing calls `record_auth_event` or `evaluate_access`.
- `predict_single` with the name of a model does not look at `is_active`, as
  `predict_all` does.
- `validator.py:180` uses `timezone` without importing it, in a branch for
  timestamps without a zone, which the column never returns.
- "Reload data to reflect changes" (`Dashboard.jsx:123`): the reload is the
  overview of the page that was clicked, so another panel selected meanwhile
  stays as it was, and a load sent before may overtake the reload
  (`ReceiveSimulation`, `FreshUnlessOverlapped`).
- The 401 of a request sent with an old token removes the token of a session
  that began since (`Dashboard.jsx:76`, `ReceiveLoad`); `SessionsLast` has this
  as its one exception. The analytics panel handles its errors itself
  (:68), and a 401 there does not sign out.
- Two registrations of one email at the same time: the second answers a 500
  instead of the 401 of a known email (`ServeRegister`).
- The reset button of the dashboard sends the logical `device_id`, and
  `DeviceService.get` turns its argument into a UUID: the call raises, and the
  dashboard never resets a device. This button is not in the model.
- The comment "e.g., 5 mins" (`gateway.py:67`) is 30 minutes in the settings,
  while a nonce is kept for 300 s: `NoncesApart` promises `NonceTTL` and no
  more. `timestamp_max_drift_seconds` (`config.py:61`) is unused.
- "sliding window" (`gateway.py:54`): a fixed window. `FewerThanTwoLimits`, not
  the limit, is what holds, and once the counter is evicted not even that for
  the requests it had counted.
- `DeviceKeyResponse` (`schemas/device.py:52`) asks for a `public_key_pem` that
  `DeviceKey` does not have: registering a key commits and then answers an
  error. The model ends the request as `done`; the table is what counts.

### Bounds, and why they are enough

Races in this code are between two requests; a third observes or intervenes
(creates the genesis block, resets the row). Each request makes one call. Two
contents of blocks with different strings tell own blocks from others', a third
that shares the string of one of them (`Alike`) is the edit nobody notices.
With `LastRead` 2 the chain stays within it, or outgrows it by one block.
`MixedCalls` has every kind of call, two keys that may collide, one gain and
two penalties; from 100.0 two of them suspend an active device and patches
suspend it at any score. `Probability` 59, 60, 95 are edges of the bands.
`MaxFailures` and `MaxAlerts` pass their thresholds by one. In `Gateway` time
goes on for ever; a lifetime of two ticks tells "just now", "in the same
window" and "a window ago" apart. `gateway_nonces` stamps its readings by a
clock that is ahead (`Ahead`): they stay acceptable for longest, two ticks,
which is as long as a nonce is kept, so a repetition meets the nonce at every
age, and expired. What happens beyond the timestamp check is no matter to the
counter: `gateway_limit` uses readings that are `TooOld`. With limit 2, three
requests may be admitted in a window that straddles two, and the fourth would
show if a counter went away too soon; a window of three ticks leaves room for
an eviction, a late EXPIRE and a new counter in it. In `DeviceHealth` two trust
events are what a slope needs, 0 is the falsy score, and three requests of
every kind let one create, one count and one recompute. In `Dashboard` four
requests are a login, the load it sends, a simulation or a second login, and
one more load; pages may be signed in already in the initial state, so the four
can all be spent on simulations and loads; any request may be answered late,
the second may fail. Two registrants of one email who type different passwords
are the race of `UserService.create`. No other counter is bounded: requests are
finite in number, ages saturate.

`CHECK_DEADLOCK FALSE` is set where every request ends, or requests are
bounded, and nothing else happens. In `Gateway` time always passes, and
deadlock is checked.

### Fairness

`FairSpec` of `DeviceTrust` and of `Gateway` asserts weak fairness of `Step(s)`
for every request and, in `Gateway`, of `Tick`. The event loop resumes a
coroutine once its round trip is answered and PostgreSQL grants a lock that is
free; a request that dies is `Abort` (or `Crash`), on which nothing is assumed.
`Step` is disabled while `LockDevice` waits, and enabled again whenever the
lock is free; weak fairness suffices although several may wait, because each
request takes the lock once and there are finitely many.

## 4. Proofs

For any number of requests and any constants satisfying the named assumptions:

| Theorem | Argument |
|---|---|
| `ChainInvariant`, `TypeCorrect`, `AnswersSafe`, `ChainAlwaysValidates`, `ChainAppendOnly`, `ChainRefinesLedger`, `ChainSomeoneWins` | `ChainInv`: numbers run from 0 without a gap (`Contiguous`), every row carries its own digest and its predecessor's (`Hashed`, `Linked`), and whoever is about to insert holds a committed row (`TipCommitted`). The last is what makes a stale tip harmless: its successor is taken, so the INSERT conflicts, or it is not stale. `ChainValidates` alone is not inductive. For `SomeRequestWins`: as long as there are blocks, somebody wrote one and has met no conflict since (`WinInv`) |
| `ExplorerInvariant`, `ExplorerImplementsChain`, `ReportsAlwaysHold` | readers leave every variable of `Chain` alone, so `Chain`'s theorems hold in the specification the run `chain` checks. `ReaderInv`: an answer is the root of the requested rows below some number up to which the table was complete, and that number only has to be found again in a later table, because rows are never changed (`ReportsOutlast`) |
| `TamperAlwaysEvident` | for any `Canonical`. `ErrorsFound` says what an empty `ErrorsIn` means for any table: it starts at 0 and every row passes alone and beside its predecessor. A change of the canonical string, or a removal, breaks one of these at a row that can be named; a change that keeps the string breaks none |
| `QueriesAlwaysAgree` | the place of a row in a listing is the number of rows below it (`RankAtMost`, `RankTaken`), so the listings of an interval are intervals (`LatestCounted`) |
| `RootsAlwaysDistinguish` | no level over distinct digests holds a node twice, so a list and the same list with its last digest repeated cannot both occur, and equal levels have equal levels below them (`LevelsBelowAgree`) and equal roots equal leaves (`TowersAgree`, `MerkleInjective`). `Hashed` and `Linked` make all digests of a chain distinct, whatever `Canonical` keeps; what it drops is dropped from roots as well |
| `AuditImplementsChain`, `AuditInvariant`, `AuditLinksResolve`, `AuditBlocksHaveRows`, `AuditAnswersRecorded`, `AuditRowsImmutable` | every step of `record_event` is a step or stutter of `Chain`, so its theorems carry over; `AuditInv` ties each stage to what is committed at it |
| `SimImplementsTrail`, `SimInvariant`, `SimTypes`, `SimBlocksHaveRows`, `SimRecordedClaims`, `SimOthersRowsKept` | `Unrelabelled`, the log with every row as `record_event` left it, runs through `AuditTrail` step by step (`Record` is one of its steps, everything else a stutter), so `AuditInv` holds of it; `SimAgree` says which rows differ from it, namely those of anomalies that reported, and how |
| `ContextTypes`, `RulesHold`, `NoDeescalation` | case analysis of the rules, unbounded counts (`MaxFailures`, `MaxAlerts` are arbitrary) |
| `VoteInvariant`, `ConsensusHolds`, `BestRecommended` | the votes counted are those of the models heard, and `highest` is the score of `best`, which no model heard exceeds; any registry, any order |
| `WorstHolds` | the same for the drift report: one more feature changes one of the two sets `WithSeverity` by one element |
| `TrustInvariant`, `TrustLastKeyActive` | unconditional; `LockedRowFresh` says that what a lock holder loaded is the committed row, unless it was loaded with the caller |
| `FrozenScores`, `AdjustmentsRestrict`, `AccessFollows` | no assumption on who registered the device: they are about every adjustment of a request whose caller did not, while others adjust too. Its row is the committed one (`LockedRowFresh`), whoever wrote that, so `Adjusted` starts from what is there. Nothing of the kind holds for a registrant, see section 3 |
| `ChangesRecorded` | the same fact gives each such event the score the row had, and the row has the score after the last event unless a registrant's partial UPDATE left another: a gap is next to a registrant's event |
| `RefinesTrustScore` | a registrant's adjustment is that of a careless client: it starts from a score the device has had (`ScoresHeld`), and as the UPDATE names only dirty columns it moves nothing when it ends where it started |
| `GatewayInvariant`, `CachedStored` | unconditional, with crashes and evictions |
| `NonceSpentOnce` | evictions of every key included. `SpentNoncesHeld`: for a request not in `unspent` the ttl of the key is the complement of the age of its acceptance; so whoever is accepted next finds only requests in `unspent` before it |
| `TwoWindowsAtMost` | evictions of every key included. `WindowInv`: the requests of a Window that are not in `uncounted` were admitted by the counter there is, or before it got its ttl (`Windows`). The former are fewer than the limit, because the creator is not among them: it is admitted as it sets the ttl and belongs to the latter. Those are at most the limit, a creator that waits for EXPIRE (`Pending`) included, and admitted at least as long ago as the counter has had its ttl, so they are out of the Window when it ends |
| `HealthInvariant`, `HealthSafe`, `CountersBounded`, `RowAccurate` | a row is `Sound` when its counts are covered by committed events; a session holds a sound row, events are never taken back, and one COMMIT adds at most its own event, whichever columns it writes. While `stale` is false a COMMIT writes over the row it loaded, so the row tells one story: the counts are exact, and rate, trend and health come from one computation. The trend is defined whatever the trust engine records because the variance of 0, 1, 2, ... is positive from two events on (a proof about `Total`) |
| `TrustMonotone` | for scores above 0.0, where `TrustOrFull` changes nothing: the trust part of the score grows with the trust and every other part ignores it; the clamp is monotone. At 0.0 it is false |
| `DashboardInvariant`, `AccountsKept`, `SessionsOutlast` | `RecordsOK`: what the record of a request says stays true, because accounts only grow: its token was issued, it was refused for an expired token, its form was accepted with the password of the account. A 401 for the stored token therefore means that the token has expired; any number of tabs, requests, users |
| `PagesInvariant`, `PagesHonest`, `ReloadsReflect` | `AllInv` adds the pages. `Numbered`: requests have the numbers 1, 2, ... in the order they were sent, and enough are left for what the answers on their way make a tab send. `PagesOK`: a tab waits for at most one simulation, the one its buttons are disabled for, and a result excludes such a wait. `Chained` is what `FreshUnlessOverlapped` needs: a reload was sent after its result came, and the server's version never decreases, so every load with a number from the reload's on is at least as recent as the result; what is shown instead of it has a smaller number, or is as recent |

`ChainInv`, `AuditInv`, `TrustInv` and `GatewayInv` are invariants of runs too;
the others were strengthened in the proof modules from invariants of runs.

The Merkle root and the sums behind the trend are recursive functions on
natural numbers. The induction theorems of the library take an operator, which
the provers here cannot instantiate; where a proof needs induction it takes the
set of numbers at which the claim fails and a least element of it
(`WellFoundedInduction`), or a set of numbers closed under successor
(`Counting` in `HealthProofs`).

Every invariant and every action property of a passing run is a theorem, and so
are the two refinements. Only model-checked are the two liveness properties
`RequestsEnd` and `CountersExpire`, because TLAPS cannot prove `ENABLED` or
fairness arguments here, and the counterexamples of the runs TLC refutes. The
only assumptions are those that give the constants their types (`...Assumption`
in the modules): who registered the device, what the canonical string leaves
out, what Redis evicts and who is cut off are arbitrary.

## 5. Not modelled

- *Pure reads* other than those of the ledger (trust history, analytics, health
  summary): they change nothing.
- *Cryptography, formatting, prediction*: outcomes that may succeed or fail.
- *Training, PSI and KS statistics, benchmarks*: floating-point computation;
  only what the code decides from the numbers is modelled.
- *Users*: update and delete have no caller; a refresh token is issued and
  never used.
- *`models/nonce_store.py`, `validator.mine_block`, `compute_block_diff`*:
  nothing calls them.
- *`key_version`*: the number of active keys read plus one, so it repeats;
  nothing reads it.
- *`SimulationVisualizer.jsx`*: one timer that shows a finished trace.
- *`main.py`, `core/exceptions.py`, `core/logging.py`, `config.py`*: wiring,
  error bodies, settings.
- *Seed and repair scripts*: run by hand on an otherwise idle database.
- *Notebooks* (13,212 of the 20,717 implementation lines): exploratory data
  analysis that the running system does not import. They have no state machine
  to be faithful to, which is why the mapped share of all lines stays low while
  the services and endpoints with state are covered.

## 6. What could follow

1. `Gateway` composed with `DeviceTrust`, so that the status and the key the
   gateway reads are the row's. Both are read once and used at once, and every
   outcome of the two reads is in `Gateway` already, so little is expected; it
   would state what is accepted of a device that is suspended meanwhile.
2. The nonce that is spent by a request which then fails, as a property of its
   own.
3. What a registrant's adjustment may do at worst, as properties of its own:
   the theorems speak of the other callers' and of gaps in the history.
