# Sovereign Shield: TLA+ models, checks and proofs

Sovereign Shield is a gateway for AI requests: a FastAPI application
(`backend/app.py`) authenticates users, scans and redacts prompts, asks policies
and a risk engine, routes to a model, and records what it did in a hash-chained
ledger. Long requests run as jobs of a durable queue. `Dockerfile.backend:43`
starts it as two uvicorn worker **processes** over one database and one data
directory; inside each, `def` handlers run in a thread pool and background work in
daemon threads. Most state therefore has several writers, some with a lock (one
per process), most without. These modules say what survives that.

## 1. Inventory

| Component | State | Operations | Interacts with | What is hard | What makes it correct |
|---|---|---|---|---|---|
| **Job queue** `job_queue.py` | rows of `async_jobs`; per process one worker thread, one executor, stop event, closed flag | enqueue, cancel, claim, execute, retry, terminal writes, start, shutdown | HTTP handlers enqueue, poll and cancel; handlers call chat and query; SQL database | SELECT and UPDATE in separate sessions; writes by id without a condition; handlers that outlive their timeout; killed processes | one execution of a row at a time; retry budget; a cancel is heeded; settled rows stay; every job settles |
| **Audit ledger** `audit/ledger.py`, `scripts/reseal_ledger.py` | a JSONL file, archives, caches per process, salt | log, verify_chain, get_entries, get_summary_stats, reseal | everything logs; dashboards and exports read; a script reseals | lock per process, file for all; torn lines; caches keyed by a stat taken outside the lock; archive and truncation are two steps | the chain links and verifies; readers answer the truth; evidence is kept |
| **Sessions** `app.py:188-1128`, `auth/jwt_handler.py` | users with a JSON `metadata_`, `user_sessions` rows, revoked token ids (Redis and per process) | login, refresh, logout, device revocation, disable, password reset and change, MFA | every request passes `enforce_active_user` | read-modify-write of one JSON column; refresh races; second-granular `iat` against microseconds | a token that was logged out, revoked or ended by an account event stays out; a former password opens nothing |
| **API keys, RBAC** `app.py:224-253, 1141-1213, 2638-2662`, `auth/rbac_engine.py` | key rows, a constant permission table | create, change, revoke, present; look-ups | proxy, every administrative route | a change read before a revocation and committed after it | a key withdrawn stays so; one withdrawn or expired opens nothing |
| **Accounts, database** `db/session.py`, `app.py:112-148, 789-815, 954-1023` | schema, user rows | start of a process, seeding, register, create, update | everything | processes that look before they create; administrators who change each other | a password handed out works; someone can administer |
| **License server, validation** `license_server.py`, `license_validator.py` | one JSONL file, clients' copies | issue, activate, validate, revoke | clients, offline too | whole-file rewrites without a lock; without a server's URL the copy decides | no lost update; seats are not oversold; a revocation reaches who asks |
| **Consent** `compliance/consent_manager.py` | a JSONL file | record, check, revoke | compliance reports | revocation rewrites the file | no consent lost, a revocation stays |
| **Incidents, compliance score** `compliance/dpdp_engine.py`, `reporting/compliance_scorer.py`, `app.py:3727-3743` | a JSONL file | report, score | ledger, policy engine | four readings at four moments; torn lines | no grade that was not earned |
| **Webhooks** `integrations/webhook_engine.py` | registry per process and file, queue file | register, deregister, dispatch, queue, retry | alerts and policy events | retry rewrites the queue from an old read; late answers | every delivery is confirmed or still owed |
| **API shield** `api_shield.py` | a bucket per caller and process | check | middleware | fixed windows | at most twice the maximum in any window's length |
| **Risk engine** `risk_engine.py` | event list per process, saved state | record, profile, save, load | query pipeline, dashboards | each process saves its own list over the shared one | who is over the threshold is put up for review, and nobody else |
| **Policy engine** `policy/policy_engine.py` | rules of YAML files in each process | reload, evaluate | query pipeline | reload empties before loading; four looks at two tables | a block rule is not skipped |
| **Scanner, redaction, proxy** `security_scanner.py`, `redaction_middleware.py`, `universal_proxy.py` | none | scan, redact, govern | query pipeline, gateway | overlapping spans | no detected span survives redaction |
| **Query pipeline, router, guardians** `app.py:1219-1298, 2665-2875, 3398-3423`, `gateway/*`, `llm_guardian.py`, `prompt_injection.py`, `semantic_dlp.py` | none of its own | scan, count, evaluate, refuse, route, fall back, record | all of the above, job queue | timeouts and retries beside handlers that go on; fallback between local and cloud models | hot prompts stay local, blocked ones unsent, sent ones on record |
| **Evidence, drills, chores** `app.py:1389-1413, 2474-2579, 2955-3701`, `audit/export_engine.py`, `reporting/evidence_report.py` | files named after the second, appended records | backup, report, export, anchor, versions, schedules, orders, drill | ledger | written in place, described afterwards | what is said of a file is true of it |
| **Caches** `app.py:1315-1445, 2975-3010` | four per process | look-up | dashboards | entries read and stored one by one | age at most the time to live |
| **Vault monitor** `sentinel_monitor.py`, `vault_crypto.py` | dates and names processed, drop zone and archive | sweep, ingest, alert, report | file system, e-mail | a thread per event; marked before moved; two reporters | a dropped file ends sealed; one report a cycle |
| **Shadow-AI detector** `shadow_ai/detector.py` | flag, loop threads, list, log | start, stop, scan | job queue | stop and start within one interval | one loop at a time |
| **Configuration, clients and infrastructure** | none | look-ups, rendering | | | not candidates |

`PROJECT.json` lists the same components with their files and status, and under
`hazards` every place that is hard to test, with the property that covers it or the
reason none does.

## 2. The modules

| Module | What it is |
|---|---|
| `JobQueue` | the queue: rows, worker threads, executors, HTTP threads, faults |
| `Custody` | the abstract specification of who may run a job |
| `JobQueueProofs` | proofs about `JobQueue`, among them that it implements `Custody` |
| `MCJobQueue` | instances for TLC (symmetry, handlers missing in one release) |
| `AuditLedger` | the ledger file, its writers, reseals, readers and caches, faults |
| `AuditLedgerProofs` | proofs about `AuditLedger` |
| `MCAuditLedger` | instances for TLC |
| `Redaction` | the loops that replace found spans in a text |
| `RedactionProofs` | proofs about `Redaction` |
| `MCRedaction` | an instance for TLC: three labels of two token families |
| `Sessions` | one account: password, metadata, device sessions, tokens, requests of several processes |
| `SessionsProofs` | proofs about `Sessions` |
| `MCSessions` | an instance for TLC (symmetry) |
| `Deployment` | the server processes, a constant the modules below share |
| `Policy` | rules on disk and in each process, reload beside evaluation |
| `Gateway` | governed requests, from the job to the ledger; extends `Policy` |
| `RiskEngine` | interceptions in two processes, Redis and a file |
| `ApiShield` | the checks of the middleware and its budgets |
| `LicenseRegister` | the license file, its callers, and clients' copies |
| `ConsentRegister` | the consent file |
| `Webhooks` | the registry, dispatch, the delivery queue |
| `VaultMonitor` | drop zone, ingest threads, state, mails |
| `ShadowDetector` | flag, loops, scan jobs, log |
| `Caches` | the four caches of a process |
| `Access` | roles, permissions, look-up |
| `AccessKeys` | the keys of the API; extends `Access` |
| `EvidenceDesk` | the routes that write, describe and read back files; extends `Access` |
| `Compliance` | incidents and the score |
| `Accounts` | schema, first administrator, creation and change of users |
| `Services` | the thirteen services above, one running at a time |
| `GatewayProofs` | proofs about `Policy` and `Gateway` |
| `RecordProofs` | proofs about `ApiShield`, `LicenseRegister`, `ConsentRegister`, `ShadowDetector`, `Caches` and `RiskEngine` |
| `FileProofs` | proofs about `Webhooks` and `VaultMonitor` |
| `ServicesProofs` | proofs about `AccessKeys`, `Accounts`, `EvidenceDesk` and `Compliance`, and that what is proved of each service holds in `Services` |
| `MCServices` | instances of them for TLC |

Operators commented "Faulty variant" are not part of a specification: they are
plausible bugs, used to see that a property notices them (`mutants` in
`PROJECT.json`).

### 2.1 JobQueue

Every `with Session()` block is one step. SQLAlchemy keeps no lock from one block
to the next, so between any two steps of a worker the others may commit whatever
they like, as in the code.

- `status, attempts, maxRetries, cancelRequested` are the columns of
  `async_jobs` that control flow reads. Payload, result and error text are data.
- `pc, cur, seen, goal` are a worker thread: where it is, its row, the `attempts`
  in its detached copy, and the status it has decided to write.
  `SelectCandidate` and `Claim` are the SELECT and UPDATE of `_claim_next_job`;
  `CheckBeforeRun` to `Settle` are `_execute` with its helpers.
- `live` are handler executions that run in the executor of a process. An execution
  whose worker gave up on it (`TimesOut`) stays there until `AbandonedEnds`: Python
  cannot stop a thread.
- `call` is `cancel()` between its read and its write, in an HTTP thread.
- `stopped, closing, closed` are the stop event, a `shutdown()` in progress and the
  closed flag. Start, enqueue (which calls start) and shutdown are as in the code,
  including that start does nothing while an old thread lives.
- `execs` and `late` are history variables: executions begun for a row, and those
  begun after `cancel_requested` was committed.

Faults are actions of their own and limited by `MaxFaults`: a database error at each
place where an exception takes another path (`StrandError`, `ClaimError`,
`FinishError`), a shutdown, a killed process. `FinishError` has both outcomes, write
committed or not.

Abstractions: a worker is a process of its own (the default is one worker thread per
process); the clock that times a handler out is a choice; ids and creation times are
one number.

### 2.2 Custody

Three variables: jobs known, jobs open, the job each worker holds. A worker takes an
open job nobody holds; only its holder opens it again. `JobQueue` maps to it with
`open` the queued rows and `held` the rows of workers between claim and final write.
The mapping makes it plain why conditional claims matter and why blind writes by
`_update_job` are harmless to exclusion: they are made by the holder.

### 2.3 AuditLedger

- `file` is the sequence of lines. A line records its hash, the hash it is linked to,
  the salt it was sealed with, whether it parses and whether it ended in a newline.
  A torn line swallows the next append (`AddLine`).
- A hash is the number of its entry, so two entries differ in hash (SHA-256 without
  collisions). The stat `(mtime_ns, size)` is the number of writes: two contents
  never share it. The coincidence the code accepts is listed as a hazard.
- `at` and `prev` are the thread that holds a process's `RLock`: `log` reads the last
  hash, then appends; `reseal_corrupted_chain` verifies, archives, truncates, reads,
  appends and verifies. Every file operation is a step, and other processes act in
  between: the lock is theirs only within a process.
- `entries` and `memo` are `_entries_cache`, `_verify_cache` and `_summary_cache`.
- `reader` is a thread in `verify_chain`, `get_entries` or `get_summary_stats`,
  in the steps at which it takes the stat or the lock: stat, look-up, second
  stat inside `_read_entries_chronological`, read, store. `could` is a
  history field: every answer that was true at some moment of the call.

Faults: an entry's content altered, a write cut off, a restart with another salt.

### 2.4 Redaction

- `found` is the list of findings the scanners return. Patterns are data, so it is
  any list of spans: they may overlap, nest, coincide, repeat, and come in any order.
- `mode` is the function that runs: `redact` for `redact_content` (answers, retrieved
  context, chat messages, dropped files), `govern` for the pseudonyms of
  `RedactionMiddleware.govern` (prompts), where `_dedupe_findings` has first removed
  equal findings and sorted the rest.
- `rest` are the findings the loop has yet to visit, and `IsNext` the one that
  `sorted(..., reverse=True)` puts next, ties included: Python's sort is stable, also
  in reverse. `Replace` and `Skip` are the two ways through the body of the loop.
- `text` is a sequence of cells, a character of the original or a token. Offsets are
  the code's: counted from 0, the end not included.
- `boundary` is `rightmost_boundary`, `vault` and `tokens` are the `mapping` and
  `tokens` that `pseudonymize_content` returns. A token is its family, the name a
  label is normalised to, and its number; how it is spelt is left out.

The loops run on local variables, so a call needs no other process to be modelled.
What is hard is the combination of spans, two sorts and two passes.

### 2.5 Sessions

One account and everything the auth endpoints keep about it.

- `password` numbers the passwords set. `meta` holds the keys of `users.metadata` that
  the endpoints decide by: `tokens_revoked_at`, `mfa_pending_secret`, `mfa_secret`. It is
  one JSON column, so whoever changes a key writes back all of them as it read them.
- `rows` are the `user_sessions` rows: device, `refresh_jti`, open or not.
- `bundles` are the pairs of tokens issued. Access and refresh token of a bundle have its
  number for a `jti`. `given` is when the client has them: after the row is written.
- `revoked` is `_REVOKED_JTIS` of each process and `keys` what is in Redis, if `redis`.
  A key set with the token's expiry lasts as long as the token; one set without (device
  and account revocation) lapses after a day (`Lapse`), its refresh token after a week.
- `req` are requests in flight. A request is cut where it has read and where it commits:
  `LoginBegin` or `RefreshBegin`, `Issue` (with the look-up of the device's row),
  `SessionWrite` (by primary key, whatever has become of the row); `PasswordCommit`,
  `SessionsRead` (fresh metadata, open rows, their ids revoked), `SessionsCommit`.
  `SessionsCommit` writes the mark only if a row was found open.
- `now` is in seconds, as `iat` is; `tokens_revoked_at` has microseconds and falls within
  its second, so the token is refused if `iat` is not a later second (`Served`).
- `history`, and `raced` of a bundle or request, are read by the properties only.

Left out: the expiry of tokens; a Redis that cannot be reached (a process that
never connected goes on with its own set, one that had connected fails the request); MFA codes (a secret is there or not);
roles (whoever may revoke a device session or reset a password does); the other keys of
the metadata. Registration is in `Accounts`, API keys are in `AccessKeys`.

### 2.6 Policy and Gateway

`Policy` keeps the rules of each process in the two tables of the engine. `reload` empties
one, then the other, then reads file by file and appends rule by rule (`EmptyDepartments`,
`EmptyGlobals`, `ReadFile`, `AddRule`, `EndReload`); `_get_rules_for` is four looks, and one
that finds both tables empty reloads by itself. A rule that does not parse drops the rest of
its file, as the `except` around the loop does. `Matched` and `Blocked` are `evaluate`: a
threshold of 0.0 counts as none there, and the model list only matters for rules that match.
Duplicates of rules are left out, since they do not change a decision.

`Gateway` carries requests through it. A request is a job (`Submit`, `Start`) with attempts;
an attempt is a thread that goes on although the queue gave it up (`TimeUp`), so `Runs`, not
the thread, decides whose result counts. `Scan` counts the interception and may refuse;
`LookUpRules` and `Decide` evaluate; `Route` gives the prompt to the adapter of `Target`,
`Fallback` to the local one; `RecordQuery` and `RecordChat` log. `NextCase` and `SeeCancel`
are the safety benchmark. A prompt is what the scanners find in it; scores are computed from
the code's weights, in hundredths. `sent` is what was given to which model, `trail` the
ledger. Results of the queue itself are the matter of `JobQueue`, chain and file of
`AuditLedger`: here a log call is one step.

### 2.7 Files rewritten as a whole

`LicenseRegister`, `ConsentRegister`, `RiskEngine`, `Webhooks` and the state of `VaultMonitor`
share a shape: read all, change, open for writing (which truncates), write. Each is two
or three steps, other callers act between them, and a kill leaves the truncated file. What
was promised (answers given) is a history variable, and the properties compare it to the
file. Their exceptions are history variables, too: `overran`, `clashed`, `clashes`,
`excusable`, `excused` are set by exactly the overlap or kill that the code has no answer
to. That is the result of these modules: *nothing but* those cases loses an update.

- `RiskEngine`: `Intercept` appends and prunes under the process's lock, then `SaveToRedis`,
  or `TruncateFile` and `WriteFile`. `Loaded` prefers Redis, as a start does.
- `LicenseRegister`: a call looks its record up, later loads all lines again, replaces that
  record, truncates and writes. A client has the record it activated with as its copy (that
  it stores it, with `save_local`, is up to its operator: nothing here calls it). `is_valid`
  asks the server where `LICENSE_SERVER_URL` is set (the machines of `Configured`) and the
  license is not an air-gapped one. By default the URL is empty: then the copy decides
  (`OfflineValid`), also of a cloud license.
- `ConsentRegister`: `LastDecides` walks a subject's decisions from the newest: a withdrawn
  or lapsed one decides, a refusal is passed over.
- `Webhooks`: a registry per process that is saved over the file; a dispatch is cut at each
  post, which may be answered late (`Post`); `retry_queue` posts a batch and writes
  `Remaining` over whatever the file has become.

### 2.8 VaultMonitor and ShadowDetector

A document is a file with a name; two may share one. `Load`, `Index`, `RecordName`,
`ChooseDest`, `Rename`, `TruncateArchive`, `WriteArchive` are `ingest_file`; any number of
threads run it, and the sweep does before the watchdog starts. `copying` is a user who still
writes. The dates of mails are looked at, the mail goes out, the date is stored: three
steps. The monitor takes two reporters, of its constructor and of the main program.

`ShadowDetector`: `start_monitoring` looks at the flag, sets it and starts a thread;
`WakeUp` is the loop's look at the flag after its sleep. Probing, listing and logging are
steps of a loop or of a scan job; `LogError` ends a thread under a flag that stays set.

### 2.9 ApiShield, Caches, Access, AccessKeys

`ApiShield`: the limiter has no lock. `check` awaits nothing and runs on the event loop of
its process (`dispatch` is a coroutine), so no other request comes in between and a check is
one step; the module is about its arithmetic over time. `served`, a history, has the requests and the cost let through before
each moment, so that what falls into a span is the difference of two of its values.
`Caches` reads and stores payload, expiry and stat in the order of each route. `AccessKeys`
follows SQLAlchemy: a commit writes the columns whose value differs from the one read, no
others (`Written`). A request with a key is looked up, stamped and served in three steps;
whether its key was spent when it was presented, by an answered withdrawal or by its term
(`Spent`), is remembered until it is served.

### 2.10 EvidenceDesk, Compliance, Accounts

`EvidenceDesk` gives each route as the list of its steps (open, read the trail, write,
digest, seal, log, ...), guarded by the permission it asks for; one action per kind of step
carries it out. A file has a name (kind and second), a state and what it holds of the
ledger. `Compliance` computes HIPAA, GDPR, ISO and DPDP scores as the scorer does, with the
composite in hundredths and Python's rounding; a call reads totals, chain, incidents and
rules in four steps. `Accounts` is the start of a process, table by table, the seed, and the
routes that create users or change them. `update_user` is three steps: the caller is admitted
(`BeginUpdate`: his account is active, and his token says SUPER_ADMIN, whatever his role is
by now; `badges` are the addresses that hold such a token), the row is read and the guard
against disabling oneself evaluated (`ReadUser`), and what differs of role and `is_active` is
committed (`CommitUpdate`). `overreached` is a history: a commit took a role or an access away
although its caller no longer administered, or took the caller's own role.

### 2.11 Services

The thirteen services share the process and the disk but no variable. Their steps commute,
so every property of one of them is one of the behaviours in which the others rest, and
`Services` checks those: `part` chooses who runs, the others stay in one initial state.
What they do share, the ledger and the queue, has its own modules.

## 3. What the runs check

| Run | Instance | Question | Result |
|---|---|---|---|
| `jobqueue_safety` | 1 row, 2 processes, 2 cancel calls, 2 faults of any kind, max_retries 0 or 1 | is a row ever run twice at once, over budget, after a cancel, after it settled? | holds |
| `jobqueue_live` | 2 rows, 2 processes, one lacks a handler; fairness, no faults | does every job settle although handlers may hang? | holds |
| `jobqueue_stale` | 1 row, 2 processes, no faults | is the handler begun at most max_retries + 1 times? | **violated** |
| `jobqueue_kill` | 1 row, 1 process, one kill; fairness | does every job settle? | **violated** |
| `ledger_single` | 1 process, a writer, 2 readers, reseals, 1 fault, 2 salts | links, verdicts, caches, evidence | holds |
| `ledger_fork` | 2 processes that only log | does the chain verify? | **violated** |
| `ledger_evidence` | API process and reseal script, one altered entry | does a reseal keep every line? | **violated** |
| `redaction_all` | every list of up to 3 findings in 4 characters, both loops | does a span come through, is other text lost, does the vault explain the text? | holds |
| `redaction_nested` | the same | is every character of every span gone from a governed prompt? | **violated** |
| `sessions_safety` | 2 requests at a time, 2 processes, 2 devices, 3 bundles, 2 passwords, 4 events, with and without Redis | do revoked tokens and former passwords stay out? | holds |
| `sessions_relogin` | 1 request at a time, 1 device | does a password change end the access tokens issued before? | **violated** |
| `services` | each of thirteen services on its own instance (see Bounds) | does each keep its promise but where its code has no answer? | holds |

Properties of the passing runs:

- `OneHolder`, `ImplementsCustody`: no two workers execute a row at the same time.
- `AttemptsAgree`: the worker's copy of `attempts` is that of its row while it holds
  it, and no row counts more than `max_retries + 1`.
- `CancelStopsExecution`: after a committed cancel at most one execution begins (a
  worker may already have made its check). The bound is tight.
- `NoRetryRunsOnce`: a job with `max_retries = 0` is executed at most once. For other
  budgets this is what fails in `jobqueue_stale`.
- `SettledIsFinal`: a settled row nobody works on never changes. The qualification
  is needed: `cancel` writes by id, so a call that read `queued` before a claim can
  turn a finished row into `cancelled`.
- `EveryJobSettles`: under fairness, without faults.
- `LinksIntact`: every readable line links to the line before it, whatever was torn,
  altered or resealed.
- `ChainVerifies`: if nothing but log and reseal happened, verification passes.
- `ReportsTrue`: an answer of a reader was true at some moment of its call. This is
  the property of the caches, whose keys are older than what is stored under them.
- `EvidenceKept`, `OnlyCorruptResealed`: a truncation leaves every line in an archive,
  and only strikes a ledger that fails verification.

- `NoSpanSurvives`: of every finding, also of a skipped one, a character is gone.
- `TextKept`: all text outside the findings is kept, in order; a splice never moves
  an offset that is still to be used.
- `VaultExplains`: pseudonyms are unique, returned in the order of the text, and each
  stands exactly where the finding stood that the vault names. Numbers are given from
  left to right to all findings, replacement runs from right to left over some of them.
- `RevokedStayOut`: a refresh token that was logged out, or whose row was closed, yields
  nothing in any process. The revoked ids do not ensure this: they are lost with a
  process or lapse. What does is that no open row ever names the token again, although
  requests in flight write rows without looking at them again.
- `RevocationHolds`: once a reset or change has closed a session and committed its mark,
  no access token issued up to that second is served again. The exception is in the
  code's shape: a request that overlapped the commit with its own copy of the metadata
  (`Holding`) may write the mark away.
- `OldPasswordOut`: with no reset or change under way, every refresh token that works
  goes back to a login with the present password. The exceptions are a login or refresh
  that raced the revocation (its row came after the query for open sessions) and a kill
  between the password's commit and the sessions'. In particular a refresh in flight
  while its device session is revoked opens a new row and goes on: `RevokedStayOut`
  speaks of tokens, not of what was refreshed from them in time.

Of the run `services`, each with the exceptions its comment names:

- `BlockedStaysUnsent`: a prompt that the rules block in every edition its process can have
  loaded is given to no model, unless a reload ran beside its look-up.
- `AskedHotStaysLocal`: a prompt of /ask that the scanners or the proxy score above 7, and
  the benchmark's, reach local models only, over failures, timeouts and retries. Chat is left
  out: it routes without a score (below).
- `SentIsRecorded`: an attempt that gave a prompt away and came to its end is in the ledger
  with a model that got it or with none, also when the queue had given it up.
- `ReviewsEarned`: nobody is put up for review on fewer than two prompts of his own,
  although retries count a prompt again.
- `ReviewsExact`: with one process, the heatmap's review users are exactly those over the
  threshold within the hour, over restarts, with Redis and without.
- `LimitsExact`: at most twice the limits in any window's length, and no refusal of a caller
  who did not reach them.
- `LicensesTrue`: the file holds every license issued, seat given and revocation, and no more
  seats than there are. No license runs on more machines than it has seats, whether server or
  copy decides; and where the server is asked, a revoked cloud license runs on none. Where the
  URL is empty nothing of that kind holds: the copy is `active` for good.
- `RevocationSticks`: a consent stands if and only if it was given, has neither lapsed nor been
  withdrawn, and no later decision of the subject, refusals included, was withdrawn or has
  lapsed.
- `DeliveriesKept`, `RegistryKept`: a delivery begun and not confirmed is at hand or queued,
  and a confirmed one is not posted again; the registry is what was registered and not
  deregistered since.
- `ArchiveSealed`, `NoneForgotten`, `MailsBounded`: what lies in the archive was scanned
  whole and is sealed; no document stays in the drop zone; one alert a day and one report a
  cycle.
- `LoopsBounded`: one loop per process; a set flag has a loop; a finding is logged or about
  to be.
- `CachesFresh`: an answer is younger than the time to live, and a digest is of the file as
  it was since the request began.
- `AccessHolds`: a withdrawn key stays withdrawn whatever change commits later
  (`WithdrawalsHold`), and no request is served on a key that was withdrawn or expired when it
  was presented (`KeysOpen`); a password handed out by the seed or by a route that creates
  accounts opens its account, and that account is the only one of its address
  (`PasswordsTold`; the routes that replace a password are in `Sessions`); a process that is
  up has the whole schema and an active administrator who was told his password, or will be
  (`AdministratorTold`), whoever is disabled or demoted meanwhile. The last has three
  exceptions: a kill before a password was told, an administrator who gives up his own role,
  and a change that is committed after its caller lost his role or his access, of which two
  administrators who disable each other at once are the plainest case.
- `EvidenceStands`: a file that an answer or the ledger describes holds what it says
  (`FilesStand`); a drill or reader that fails met a file being written or unsure
  (`DrillsEarned`); a score leaves out no incident reported before the call, and the best
  grade is given only where chain and rules deserved it at some moment (`GradesEarned`).

### Disagreements found

1. **Claims write a stale count** (`jobqueue_stale`, `job_queue.py:237`). `attempts`
   comes from the SELECT, the UPDATE is conditional on the status alone. Worker 1
   selects, worker 2 claims, fails and requeues, worker 1 claims and writes the old
   count: one execution is forgotten.
2. **A killed process strands its row** (`jobqueue_kill`, `job_queue.py:225`).
   Nothing looks for `running` rows, so the "durable" queue loses that job.
3. **Two worker processes fork the chain** (`ledger_fork`, `ledger.py:124`). The lock
   around last hash and append is per process, the image starts two.
4. **A reseal beside a running API loses an entry** (`ledger_evidence`,
   `ledger.py:279`). It falls between copy and truncation.
5. **An overlapped span is only broken** (`redaction_nested`,
   `security_scanner.py:220`). A span that reaches into one already replaced is skipped
   as a whole and its other characters stay: `mail brenda@corp.com now` is governed to
   `mail bre[LegalCompliance_1]@corp.com now`, since the classification pattern `NDA`
   matches inside the address. `NoSpanSurvives` is the part of the promise that holds.
6. **A password change may end nothing** (`sessions_relogin`, `app.py:661`). The endpoint
   answers "Re-login required.", but `tokens_revoked_at` is committed only if the account
   had an open device session. With the session closed before, older access tokens pass.

Noted while modelling, without a run of their own:

- A rule with `risk_threshold: 0.0` never matches by score (`policy_engine.py:158`, 0.0 is
  taken for none), so "Unapproved Model Block" of `presets/hospital.yaml:78-85` blocks nothing.
- `README.md:511` and `DOCS.md:314` recommend Redis for "distributed" risk state, but a process
  loads events only when it is constructed (`risk_engine.py:56`) and overwrites key and file
  with its own list: attempts spread over the two processes of `Dockerfile.backend:43` are
  counted apart. `ReviewsExact` is therefore about one process.
- The local proof reports air gap for a score `>= 7` (`app.py:2486`), the router forces it
  for `> 7.0` (`model_router.py:93`). Chat routes without a score (`app.py:1219-1258`).
- A refusal because of the model (`app.py:2795`) is the only one without a ledger entry. The
  simulation (`app.py:2885-2919`) leaves the guardian out. The department of a request is
  the client's word (`app.py:2745`).
- The entry names the model that answered; a cloud model whose adapter failed after it got
  the prompt is not named. The OpenRouter adapter tries another model on 400 and 404
  (`openrouter_adapter.py:44-46`), the requested one is recorded. Benchmark prompts are not
  recorded.
- A job refused with 403 is retried like one that failed, and counts its interception twice.
- `/policy/reload` reloads the process that serves it. A rule with a misspelt enforcement drops
  the rest of its file (`policy_engine.py:112`) with a log line. `presets/us_healthcare` and
  `eu_general` use fields no code reads.
- The inbound EMR hook scores the first half of its findings only (`webhook_engine.py:348`).
- A recorded refusal of consent leaves an older grant in force (`consent_manager.py:85-100`).
- A torn line of the incident log, or a torn policy version, makes the score or the listing
  fail until someone repairs the file. The certificate of the local proof names a previous
  hash read before its own log call.
- Two administrators may disable each other, and one may take his own role (`app.py:1004`
  asks about disabling oneself only); a demoted one goes on with the role of his token. These
  are the exceptions of `AdministratorTold`, and TLC finds it violated if `overreached` leaves
  one of them out. `seed_db` repairs none: it looks for a role, not for an access, and makes
  nobody if the first address is taken. Killed between commit and print (`session.py:73-74`), the first start leaves an
  administrator whose password nobody knows.
- Without `LICENSE_SERVER_URL`, the default (`license_validator.py:17`), a cloud license is
  judged by its copy (102): neither a revocation nor a lock to a machine reaches it.
- `/export-audit` gives a DEPARTMENT_HEAD the whole tenant's entries, `/audit/log` those of
  the department. `can_access_department`, `check_retention`, `report_incident_to_dpb` and
  `LicenseValidationMiddleware` have no caller in the application.
- `sentinel_monitor.py:227` uses `shutil` before it is imported; "no throttle there"
  (line 345) is contradicted by the throttle's return at line 307.

### Bounds

The hazards of the queue are about two parties over one row: two processes, or a
worker and a cancel call. Two faults let an error meet a shutdown or a kill, and
two cancel calls let one overwrite the other's result. Retries 0 and 1 are the
budgets on either side of the comparison in `_mark_retry_or_terminal`. Order between
rows and a worker that blocks others need two rows, which `jobqueue_live` has.
A second reader of the ledger matters since readers share the caches; two entries are
enough for a link, a torn line that swallows the next, and a reseal with its incident
entry; two seconds let archives collide or not; two salts let a restart rotate.
`MaxEntries` is a guard of the operations that begin a write.

Three findings in four characters are enough for spans that nest, chain, touch, start
or end together, and for a third whose fate depends on the other two being replaced or
skipped; two labels of one family are needed for a count by label to differ from one by
family. `MaxFindings` bounds the lists of `Init`, nothing else.

The hazards of sessions are races of two requests, each with a snapshot. Four events are
two logins or refreshes, a reset, and one more request or kill; three bundles let a
device be refreshed while another is there; two seconds put a token before, within or
after the second of a revocation. `MaxBundles`, `MaxPassword`, `MaxTime` and `MaxEvents`
are guards of the actions that count; when they are used up the model stops, which is
why its runs do not look for deadlocks.

`services` is the sum of thirteen instances (617,402 states in all), each cut so that the
hazards of its service happen:

- gateway: eight plans of two requests with two attempts each: a blocked prompt against a
  reload of edited rules, retries that count for another's prompt or for another of one's
  own, hot prompts with and without an air gap, chat, the benchmark with a cancel, two
  processes with rules of their own;
- risk: two interceptions, threshold 1, in one process with a fault or in two without;
  hour and week of one and two ticks, and two ticks pass, so an event may lapse from the
  first and not from the second;
- shield: a limit of two and three windows, enough for a burst around a boundary;
- license, consent: two calls, two keys or two decisions, expiry before and after the clock's
  only tick, and kills; one seat, so that the next is one too many; of the two machines one
  asks the server and one does not;
- webhooks: two processes that change the registry, one killed; two events and a retry; one
  event, two retries and a kill. A batch of one leaves a rest to be kept;
- monitor: two documents of one name and a kill; two names over two days; two reporters with
  a kill over three days, with a cycle of two; a document beside a report;
- detector: two starters, two loops, a job, one failing append;
- caches: two requests, three look-ups, two versions, a tick; a service per behaviour;
- keys: two administrators, three changes, an application; two ticks, so that a key of one
  day expires and one of the default, two, does not;
- desk: two calls of routes that meet in a file, and a kill; three backups and drills;
- compliance: two officers, an assessor, two incidents besides those of an earlier day, two
  turns of ledger or rules within a call;
- accounts: two processes on a new and on an older database, two addresses, two creators, two
  managers, three passwords; five starts, passwords and updates in all (`MaxAccountEvents`):
  two starts and three passwords, or a start, two passwords and the two updates by which two
  administrators disable each other.

`Max...` constants are guards of what begins something, and the plans of `HookBudgets`,
`MonitorPlans` and `DeskPlans` are likewise; when they are used up the model stops.

### Fairness

`FairSpec` assumes that a live worker thread takes steps (`WorkerStep`), that a wait
for a future ends (`TimesOut`: `future.result` has a timeout), that a process which is
down is started (`Start`: lifespan, or the next enqueue), that `shutdown` goes on after
its bounded join (`CloseExecutor`) and that a cancel call completes (`CancelWrite`).
It does not assume that a handler returns, that an executor thread takes up a job, or
anything of a fault. All of it is weak fairness. The other runs check safety only.

## 4. What is proved

TLAPS proves these for every value of the constants that satisfies the named assumptions of
the modules. Most of them state types: bounds are natural numbers, a plan or a license term is
a record of its kind, readers have a process. The others are these, and the code has them:
processes, requests, officers and clerks are finite in number (`DeploymentAssumption`,
`ThreadsAssumption`, `ComplianceAssumption`, `DeskAssumption`), a time to live, a window, a
batch, a pool and the monitor's cycle are not 0 (`CachesAssumption`, `ShieldAssumption`,
`BatchAssumption`, `PoolAssumption`, `MonitorAssumption`), there is a local model, and it is Ollama's (`ModelsAssumption`), the week of
the risk engine is not shorter than its hour (`WindowsAssumption`). `ScoresAssumption` says
that scores are natural numbers; they are sums over the scanners' weights, written with a fold
which the provers cannot type, and so TLC evaluates it. TLC evaluates all of them, on every run.

| Theorem | Statement | Inductive invariant |
|---|---|---|
| `TypeCorrect` (queue) | `TypeOK` | with `BusyHasRow`: a worker that is not idle has a row |
| `ClaimsAreExclusive` | `OneHolder` | `CustodyInv` |
| `AttemptsBounded` | `AttemptsAgree` | `BudgetInv`: copies agree, a queued row's count is within its budget |
| `NoRetryExecutesOnce` | `NoRetryRunsOnce` | `NoRetryInv`: a row without retries that was claimed is never queued again |
| `CancelIsHeeded` | `CancelStopsExecution` | `CancelInv`: only a worker past its check can begin a late execution, and none can follow |
| `OneProcessKeepsBudget` | with one worker, `ExecutionsWithinBudget` | `OneWorkerInv`: executions never exceed attempts |
| `SettledRowsAreFinal` | `SettledIsFinal` | step by step from the invariants above |
| `QueueImplementsCustody` | `ImplementsCustody` | refinement, from `CustodyInv` |
| `TypeCorrect` (ledger) | `TypeOK` | itself |
| `LinksAreIntact` | with one process, `LinksIntact` | `ChainInv`: links, and the hash a lock holder has read is still the last |
| `ChainAlwaysVerifies` | with one process, `ChainVerifies` | `SealInv`: without faults every line is sealed with the one salt |
| `EvidenceIsKept` | with one process, `EvidenceKept` | the archive made last equals the file until it is truncated |
| `ResealLeavesCleanChain` | with one process, `ResealStartsClean`: the chain a reseal leaves verifies | as above |
| `TypeCorrect` (redaction) | `TypeOK` | `LoopInv`: with `LeftUntouched` and `RestIsLeft` |
| `NothingComesThrough` | `NoSpanSurvives` | `VisitedBroken`: visited spans have lost a character, and the one at the boundary is gone |
| `RestIsKept` | `TextKept` | `Ordered` and `Untouched` |
| `VaultIsTrue` | `VaultExplains` | `VaultInv`: the vault holds the tokens standing in the text, each of a visited finding; the token at a place is as far into the list as there are tokens from there on; findings that are kept have different pseudonyms (`TokensApart`), as numbering is a total order |
| `TypeCorrect` (sessions) | `TypeOK` | with `UsageInv` |
| `OutForGood` | `RevokedStayOut` | `UsageInv`: rows and tokens in use |
| `EndedForGood` | `RevocationHolds` | `MarkInv`: the mark, and every copy of it in flight, is past every token ended |
| `FormerPasswordOut` | `OldPasswordOut` | `PasswordInv`: who of the requests will close a row of a former password |
| `ReportsAreTrue` | `ReportsTrue`, for any number of processes | `ReadsInv`: `CallsInv` of the readers, `CachesInv` of the caches |
| `CorruptOnlyIsResealed` | with one process, `OnlyCorruptResealed` | `CorruptInv`: past its verification a reseal has the lock and the ledger fails |
| `GatewayTypes` | `GatewayTypeOK` | `JobsOK`: a job that waits has an attempt left |
| `HotStaysLocal` | `AskedHotStaysLocal` | `SendingOK` (`LocalAt`) |
| `AnswersAreRecorded` | `SentIsRecorded` | `SendingOK` (`SentAt`, `RecordedAt`) |
| `ReviewsAreEarned` | `ReviewsEarned` | `CountsOK`: no more is counted than attempts were scanned |
| `BlockedStays` | `BlockedStaysUnsent` | `TablesOK`, `LoadersOK`, `ReadersOK` |
| `LimitsAreExact` | `LimitsExact` | `ShieldInv`: every budget is in step with its history (`Metered`) |
| `LicensesAreTrue` | `LicensesTrue` | `LicenseInv`: `RestOK` of a file nobody saves, `WriteOK` of one being saved; `CopiesOK`: as many machines have a copy of a license as seats of it were given, or fewer |
| `RevocationsStick` | `RevocationSticks` | `ConsentInv`: who rewrites is alone, and holds lines that tell the decisions |
| `LoopsAreBounded` | `LoopsBounded` | `DetectorInv`: starters are apart, a set flag has its loop |
| `CachesStayFresh` | `CachesFresh` | `CachesInv`: `CallsOK`, `EntriesOK`, `DigestOK` |
| `ReviewsAreExact` | `ReviewsExact` | `RiskInv`: list, Redis and file agree with what was recorded |
| `RegistryIsKept` | `RegistryKept` | `HookInv`: the file lists what is registered, or the one call that writes it does |
| `DeliveriesAreKept` | `DeliveriesKept` | `DeliveryInv`: `NoneLost`, where a delivery can be; `OnceInv`, that it is in one place |
| `MonitorInvariant` | `MonitorInv` itself | `MonitorTypeOK`, `ArchiveInv` and `MailsInv` |
| `ArchiveIsSealed`, `NoneIsForgotten` | `ArchiveSealed`, `NoneForgotten` | `ArchiveInv`: `SealsOK` of what is archived, `DropOK` of what waits |
| `MailsAreBounded` | `MailsBounded` | `MailsInv`: the dates in memory are those of the last mails, and who is about to send is alone and later |
| `WithdrawalsStay`, `SpentKeysOpenNothing` | `WithdrawalsHold`, `KeysOpen` | `KeysInv`: a change writes back no column it did not change |
| `PasswordsOpen`, `SomeoneAdministers` | `PasswordsTold`, `AdministratorTold` | `AccountsInv`: with `ManagersOK`, that a call about to disable somebody disables another than its caller |
| `AccessIsHeld` | `AccessHolds` of `Services` | each of the four before, and the `...Runs` lemmas |
| `FilesAreHeld`, `DrillsAreEarned` | `FilesStand`, `DrillsEarned` | `DeskInv` |
| `GradesAreEarned` | `GradesEarned` | `ComplianceInv`: the file has what was told, a call what it met |
| `EvidenceIsHeld` | `EvidenceStands` of `Services` | each of the three before, and the `...Runs` lemmas |
| `ServicesAreTyped` | `ServicesTypeOK` of `Services` | the invariants of all thirteen, and the `...Runs` lemmas |
| `ServicesHold` | every safety property of the run `services`, of `Services` | the theorems before, and the `...Runs` lemmas |

`OneHolder` is not inductive: nothing in it says that a held row is not also queued.
`CustodyInv` adds that (`HeldNotFree`), that a candidate exists (`PickedExists`), that
a cancel call only writes `cancelled` or `cancelling` (`CallInv`) and that a worker
requeues only from its last step (`GoalInv`). The assumption `OneProcess` of the
ledger is what the code's lock gives; run `ledger_fork` shows the theorem false
without it, as `jobqueue_stale` does for `OneProcessKeepsBudget`.

For the loops the point is that left of `boundary` the text is still the original and
every finding not yet visited starts there (`LoopInv`), so the offsets of the original
address the right characters. A skipped span reaches beyond `boundary` and starts at or
before it, hence it contains the first character of the span replaced last, which is
gone: that is `VisitedBroken`.

For sessions, `UsageInv` says that no two rows name the same token, that a bundle about
to be recorded has no client yet and no second recorder, and that a logout knows the only
row its token can be in. Hence closing a row puts its token out, and no write in flight
brings it back. `PasswordInv` follows a row of a former password through a reset: first
some request is at `sessions`, then one at `closing` has the row among those it has seen,
then the row is closed.

For the ledger's caches, `CachesInv` says that an entry stored under the present stat holds
the present lines, and one under an older stat never matches again, since stats only grow;
`CallsInv` that a reader between its steps has seen no stat later than the file's, and that
what it holds was true within its call (`could`). A reader that took its stat before another
one stored is why the entries of two readers are compared (`LaterKnowsLess`).

For governed requests, `SendingOK` follows one attempt: what it has decided by now of its
prompt is what the prompt's scores demand, what it was let to send went to a local model if it
is hot, and an attempt past its log call is in the ledger. `CountsOK` counts attempts, of which
a job has two at most (`JobsOK`), so a count of three takes two requests. `BlockedStays` is the
deep one. A reload empties two tables and fills them file by file, and others may run beside
it; `TablesOK` says that for every file a process either has a whole edition of its rules or
some reload of the process is still to read it (`Provided`), and `ReadersOK` that a reader no
reload has begun beside has met, in the looks it has taken, every blocking rule or will.

The license and the consent file, and the list of the risk engine, are rewritten as a whole.
Their invariants speak of a file at rest and of one that is being written: the file is true of
what was promised, or whoever is writing it is alone and what he writes will be. Everything
else has set the history variable that the property excepts, and the proofs show that this
list of exceptions is complete. With Redis, three copies of the list may differ; what
`SavedOK` asks is that the one a start would load is the one saved last.

`Metered` of the limiter says that what was let through since a budget began is what it
counts, and that no window's length holds more than twice the limit: a span meets at most two
budgets. An entry of a cache that two lookups wrote is mixed; any other is being written by
one lookup at most, with the payload, the expiry and the stat of one moment.

For the hooks, `NoneLost` says where a delivery can be that is neither confirmed nor excused:
in the queue or in a dispatch's hands while nobody rewrites the queue; behind each retry that
runs, in what it has read or kept, or in hand; and when the emptied file has got entries before
it is written, in hand. `OnceInv` says it is in one of these places only, until two retries
overlap or two registrations of a hook put it into a list twice; so none that is confirmed is
still to be posted. It needs the registry's invariant: a list without duplicates gives a
dispatch without duplicates, and a hook about to be appended to a list that is walked is in no
dispatch's hands yet (`AppendFresh`). `SiftedIs` says what a recursive function
returns; it is shown by the least length at which it would fail.

For the vault monitor, `DropOK` says of a document in the drop zone who will read it: the
next start, whose state file does not have its name; the sweep, whose list does; or the one
thread at work on its name, which is yet to read it or has read the whole of it (`Carries`).
Nothing but the name ties a thread to a file, so the thread that renames moves whatever has
the name by then; that this is the document it read is what the second half of `Carries`
keeps. `SealsOK` says of a document in the archive that it was indexed, and is sealed or in
the hands of one thread with all of its text. A kill leaves only the names recorded in
memory, of which the file has no more (`StateOK`): each document that is not sealed and has
such a name is excused, and any other one the next sweep finds. For the mails, `MailsOK`
says that dates in memory are never before a day mailed for; who has decided to mail has
looked at that date, and is the only one until it is stored, else mails have crossed. The
proofs use no more of the file's writing than that a whole file has some state that memory
had (`WrittenState`), so they hold however the unlocked saves of its threads meet.

That someone administers rests on the one who acts: a commit that takes a role or an access
away leaves its caller as he was, since it is another's (`ManagersOK`) or no excuse is left,
and the caller administers, or `overreached` is set. The rest of `AccountsInv` sees to it that
his password was, or is about to be, told.

For the evidence routes, `HandBefore` tells from a call's errand and step whether its file is
open, written or neither, and `StepsAreFit` goes through all 25 lists of steps once: what is
written was opened, what is digested was written, a list ends with its log, note or answer and
with nothing half written. After that no proof looks at a list again. `DeskInv` adds that a
name two calls have in hand is unsure, that a file of a sure name is absent, whole or open in
the hands of a call, and that what is noted or was said of it still holds; a schedule, which
has one name for all, may be in a call's hands again. For the score, `LogOK` says that a file
without a garbled line has exactly the pending incidents that were told, and `CallOK` that a
call has met whatever is so now. `CardBounds` is the arithmetic: with an incident open, a broken
chain or no rule the composite stays below eighty-nine and a half.

In `Services` a behaviour lets one service run. The lemmas `ShieldRuns`, `DeskRuns` and so on
say that whichever it is, each service's own variables follow its own specification, resting
included; the theorems about the services carry over by them.

Each inductive invariant was an invariant of a run of TLC before it was proved.

Only model-checked are:

- `EveryJobSettles`: liveness is beyond the prover.
- the six runs that expect a violation: a counterexample needs no proof.

## 5. Plan

Every safety and action property of the passing runs is a theorem. What comes next are
abstract specifications of two more components, and the theorems that they are implemented:

1. the queue of the hooks: a set of deliveries owed, each confirmed once or still owed;
2. the archive of the monitor: documents that are outside, waiting, sealed or replaced.

## 6. Not modelled, and why

Left out for good: text and layout of prompts, reports and exports; cryptography (a hash
or a signature is an identity that cannot be forged); external model APIs; the front end,
SDK, browser extension and deployment descriptions, which keep no state the back end relies
on. In the queue and the sessions: an execution's result is whether it succeeded; row
payloads; the worker's back-off and poll interval, which only affect timing; SQL isolation
beyond "each session is atomic".

Of the components listed as *partly*: the patterns of scanners and guardians, which are data;
`url_safety`, `rule_compiler` and `hash_chain`, which keep no state and have no caller on the
paths modelled or decide by patterns alone; the inbound EMR hook and the Slack alert, which
scan or post once and log; the update check and file rotation of the monitor; the log of data
principals' requests, which nothing reads; the license middleware, which is not installed;
dashboards, which read and format. Expiry of tokens, an unreachable Redis in `Sessions`, a
locked or a PostgreSQL database at a start are not covered. Configuration and host checks
(`config.py`, `sentinel_check.py`, `tray_manager.py`, `gunicorn_conf.py`) look up and print.
