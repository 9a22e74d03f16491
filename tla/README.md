# Verification of html2xtc

html2xtc turns web pages, PDF, text and EPUB files into XTC files for an e-reader,
keeps them in an account's library, delivers them to paired devices over OPDS and
offers a searchable copy of the Aozora Bunko catalog. It runs as a Cloudflare
Worker: request handlers and long-running Workflows share D1 databases and R2
buckets, without transactions that span two calls. What is hard to get right is
therefore hardly ever inside one function: it is what happens *between* two awaited
calls. The same holds for the two other places where the system runs things side by side:
the converter container and the browser tabs that follow a job. This directory holds TLA+ models of those parts, TLC configurations that
check them on small instances, and TLAPS proofs for every size. `PROJECT.json` lists
runs, theorems, findings, hazards, and the source lines of each definition.

Contents: [inventory](#1-the-system) · [how the models are built](#2-how-the-models-are-built)
· [modules](#3-the-modules) · [runs](#4-the-runs) · [where code and promise part](#5-where-the-code-and-its-promises-part)
· [proofs](#6-proofs) · [limits](#7-what-is-not-shown) · [plan](#8-plan) · [running](#9-running-it)

## 1. The system

Paths are relative to `src/src/` unless they begin with another directory.

### Components with state of their own

| Component | State it keeps | Operations | Interacts with | What is hard | What makes it correct | Module |
|---|---|---|---|---|---|---|
| Aozora catalog sync (`catalog-workflow.ts`, `catalog-db.ts`) | the state row (active generation, hash, count, lock), rows by generation, run history, ZIP and chunks in R2 | acquire, begin, fetch, parse, load, validate, activate, finalise, delete old generations, clean up, mark failed | cron or manual start; the upstream server; `GET /api/books` reads the `*_active` views | steps run at least once, a lock that expires, a run that is killed, an unlocked tail | searches see whole catalogs, in order; the lock fences a late run; the run history is true; every run ends and the lock recovers | CatalogSync, CatalogPublish |
| Device delivery lists (`devices/service.ts`, `devices/repository.ts`) | `devices.status`, `library_version`, `device_library_items` | GET and PUT of a list, auto-delivery after a save, removal of a deleted item, revocation | library deletion and saving; OPDS reads the lists | the version guard and the row batch are two calls; version and items are read by two calls | one accepted PUT per version, only accepted lists land, no edit overwrites one it has not seen | DeviceLibrary |
| Library (`library/service.ts`, `library/repository.ts`, `library/storage.ts`) | `library_items` rows, objects under `library/` | save a job's output, delete, rename, list, download | job outputs in R2; device lists; account deletion | two stores without a common transaction, failing R2 deletes, racing saves of one job, quotas counted first | a listed item can be downloaded; racing saves converge; quotas are exceeded by overlap only | Library |
| Account deletion (`auth/account-deletion.ts`, `db/orphaned-r2.ts`) | orphan records | delete objects, record failures, delete the account | cascades over all of the account's rows; races saves and deletes | works on the list it read first | it leaves only objects it was never shown, devices and sessions go with it | Library, Pairing, Auth |
| Conversion jobs (`workflow.ts`, `index.ts`, `jobs.ts`, `epub-job.ts`, `pipeline.ts`) | the Workflow instance, R2 objects of the job | create, extract, prepare, render, convert, delete intermediates, poll, download | uploads, the fallback, the converter container, R2 lifecycle, a polling client | retries after partial writes, a status put together from separate reads, `create()` that throws although it worked | no step starves another; a completed job has its file; statuses do not go back; jobs end; uploads are removed | ConvertJob, JobStatus, JobsApi |
| Uploads (`pdf-upload.ts`, `text-upload.ts`, `epub-upload.ts`) | the uploaded object | store, verify the size, roll back | the job's POST handler | a put that is short or fails half-way | as above | ConvertJob |
| Aozora timeout fallback (`aozora-fallback/`) | manifest, pieces, part PDFs | split, render each piece, merge | steps of the job | partial puts before a retry | as above | ConvertJob |
| Device pairing (`devices/pairings.ts`, `devices/credentials.ts`) | `device_pairings`, the devices it inserts | start, poll, approve, reject, complete, manual devices, daily cleanup | revocation, account deletion, the reader | approve, reject and expiry race; the quota is counted before the insert; a device row that no pairing names | a pairing is decided once and becomes one device; the reader's token belongs to it; losers leave nothing; a polling reader learns the outcome | Pairing, PairingPromise |
| Sessions (`auth/sessions.ts`) | `sessions` | create, revoke, expire | login, registration | count, find the oldest, revoke it, insert: four calls | one session for one answer; the quota is exceeded by overlap only | Auth |
| Registration, login, passkeys (`auth/webauthn.ts`, `auth/challenges.ts`, `auth/repository.ts`) | challenges, accounts, passkeys, invites | begin and finish of three kinds of registration and of login; delete a passkey, the account | sessions, caps, deployments that change the mode | a challenge used once, an invite used once with an undo, caps and counters checked outside the write | an invite admits one account; an account keeps a passkey; a refusal is final; a counter that has settled holds | Auth |
| Converter (`container.ts`, `converter/app.py`, `converter/pdf_upload.py`) | two semaphores, budgets, the drain | convert, wait for a slot, time out, SIGTERM | the step `convert-xtc` with its timeout and retries | an abandoned request still queues and converts; two clocks run against each other | slots come back; the container gives up before the Worker; a drain outlasts the conversions it finds | Converter |
| Browser (`frontend/src/lib/convert.svelte.ts`, `jobs.svelte.ts`) | pollers, entries shown, the history in localStorage | submit, poll, hide, show, load, close, clear | jobs API; automatic save to the library | a poller replaced while its fetch or its body is pending; several tabs on one history | no job in flight loses its poller; it is saved once; the user learns the outcome | JobPolling |

### Components without concurrent state

Not modelled, because they are pure text or layout transformations or stateless checks:
CSV parsing (`catalog.ts`), PDF and HTML rendering (`pdf.ts`, `extract.ts`, …), the text
pipeline and preview, the EPUB reader, CSRF and Turnstile, encryption, headers and
error types, configuration, routing. Not modelled, because what they do to shared
state is covered elsewhere or trivial: the rate limiter (one counter per Durable Object,
which runs one `take` at a time; where it fails open or closed only selects an answer),
the OPDS server (only reads), OPDS integrations (one D1 batch per change; its imports end
in ConvertJob's `Create`), the synchronous `POST /convert`, device authentication and
last-seen, the operation scripts. Of the daily cleanup, Pairing has the DELETE that takes
rows somebody still polls; the other four take rows no reader accepts any more.
`PROJECT.json` gives each its reason. These components are also most of the repository's
lines (styles, markup, translations, parsers), which is why the mapped lines are a small
share of all lines.

### How the parts meet

```
 cron/manual ──> CatalogSync ──(active pointer)──> GET /api/books
 browser (JobPolling) ──POST, polls──> ConvertJob ──(step convert-xtc)──> Converter
                                          │ output.xtc
                                          v
                                       Library ──(item)──> DeviceLibrary ──> OPDS
                                          │ delete ───────────┘ (rows, versions)
 reader ──> Pairing <──(session)── Auth ──> account deletion: rows, objects, devices
```

The parts meet in few places: a save copies a finished job's output; a save triggers
the auto-delivery; deleting an item removes it from every list; the account deletion
works on all of an account's rows. The first is one R2 copy that succeeds or finds nothing
(`Library!Copy`), the second and third are inside DeviceLibrary (`Save` … `AutoItems`,
`Delete` … `HardDelete`). Handlers that touch several parts are in several modules, each
with the statements that its state can tell apart: `deleteLibrary` in DeviceLibrary (lists,
versions) and Library (rows, objects); `deleteAccountCompletely` in Library (objects),
Pairing (devices) and Auth (the account's row). A conversion is one step of ConvertJob
that fails or succeeds, and in Converter what that step and the container do meanwhile. A
job's status is what ConvertJob serves and JobPolling is told: JobsApi is the contract between
the two, which ConvertJob implements and which is all that JobPolling's server knows.

## 2. How the models are built

* **One action is what runs between two points where something else may run.** In the
  Worker that is one awaited call: a D1 statement or batch, an R2 call, for a job's
  delete step one object's deletion. In the browser it is what happens between two
  suspensions of `poll`, in the converter a thread's way to the next place where it waits
  or is timed. Actions of concurrent requests interleave in every order. Local computation
  belongs to the call before it. A request may vanish between any two calls (`Stop`,
  `StopSave`, `StopDelete`, `StopClosing`, `Kill`, `Crash`, `Close`).
* **A D1 statement is atomic** and so is a batch; foreign keys, `ON DELETE CASCADE`
  and unique indices act within the statement. D1 and R2 share no transaction.
* **Workflow steps run at least once**: an attempt may fail before, between or after
  its calls; after the last one this means that the effect is there and the result
  is lost. The engine then starts the step from its first call, up to the retry limit,
  and throws. A step that has ended is never run again. Two attempts of one step do
  not overlap (a timed-out attempt that goes on unseen is not modelled).
* **Data is reduced to what the properties tell apart**: catalog rows are 200-row
  chunks, a catalog version is a model value, files are members of a set of objects,
  and an item is named by the save request that would create it.
* **Time** is the fact that something has passed (an expiry, a lifecycle rule), except in
  Converter, where two budgets run against each other and `Tick` is one unit of time.
* **History variables**, which each module lists, record what happened for the properties;
  no guard reads them. The exception is a bound: ConvertJob's `expired` and `kept` are
  counted by `MaxMishaps`.

Definitions called *Mutant* in a comment are plausible wrong versions of the
definition that follows them: each property is seen to fail with one of them in place.

## 3. The modules

### CatalogSync

`AozoraCatalogSyncWorkflow.run`, for any number of concurrent instances `Run`.
`pc[r]` names the next statement and `StepStart` the step it belongs to, so a failed
attempt (`AttemptFails`) goes back to the first statement of the step, or throws to
the catch block (`markFailed`) at its retry limit. `NonRetryableError` throws at once.

| State | Code |
|---|---|
| `activeGeneration`, `sourceSha`, `activeBookCount`, `lockOwner`, `lockExpires` | the `aozora_catalog_state` row |
| `books[g]`, `contribs[g]` | rows of a generation in the two tables |
| `status[r]` | the run's row of `aozora_catalog_sync_runs` |
| `zip[r]`, `chunks[r]` | its R2 objects, as the version they hold |
| `upstream` | what the Aozora server serves (changes at any moment) |
| `snap[r]`, `got[r]`, `bookCount[r]`, `contributorCount[r]` | results that later steps use |

`Acquire` is the conditional UPDATE with its four grants (free, no expiry, expired, own).
`LockExpires` is the passing of `LOCK_TTL_MINUTES`. `ActivateGeneration` switches the
pointer and clears the lock in one UPDATE; `ConfirmActive` is the check after it changed
no row. `DeleteContributors` and `DeleteBooks` are the deletion of old generations *after*
the lock was cleared, with the cascade. `CleanupR2` is best-effort.

**CatalogPublish** is what `GET /api/books` is promised: nothing, then one whole
version after another, of growing edition, each keeping 80 % of the books before it.
`ImplementsPublish` maps `view` to the rows the `*_active` views return and
`edition` to the lock acquisition of the active run.

`TailExclusive` is an assumption about the environment: no run acquires while another
is between its activation and its end. The daily cron provides it as long as a sync
takes less than 24 hours; a manual trigger (`docs/operations.md:127`) does not.

### DeviceLibrary

A `Client` is one caller: an editor (`Open`, `GetDevice`, `ShowItems`, `Submit`, then
the PUT), the auto-delivery (`Save`, `AutoDevices`, then read and PUT), or a deletion.
The PUT is `CheckDevice`, `CountOwned`, `Increment` (the conditional UPDATE that is
the guard), `Replace` (the batch; fails on the foreign key if an item was removed) and
`Reload`, after which the editor holds `expectedVersion + 1` and may submit again.
`Delete` … `HardDelete` is `deleteLibrary`: soft delete, remove the rows everywhere,
bump the versions of the devices it touched, R2, hard delete. `Revoke` is
`revokeDevice`, which none of the others looks for after its first check.

A list is a set of `<<item, position>>` rows; `Lists` are those a request may carry and
`Prepend` is the renumbering of the auto-delivery.

The lock is optimistic only as long as nobody reads or wins a device's version while a PUT
is between its `Increment` and its `Replace`. **The code does not enforce that.** The
history variable `raced` notes the devices where it happened, and the three properties
that are lost with it say so: they hold of every device that is not in `raced`.

### Library

Saves (`StartSave`, `Find`, `Count`, `Copy`, `Sum`, `Discard`, `Insert`, `Undo`,
`FindAgain`, `Read`), delete requests (`SoftDelete`, `DeleteObject`, `HardDelete`) and the
account deletion (`StartClosing`, `CloseObject`, `CloseAccount`), which may stop and be
repeated. `MayInsert` is the foreign key on the account and the unique index on live
items of a job. R2 deletes may fail: in a save the failure is swallowed, in a
deletion it leaves the soft-deleted row, in the account deletion it becomes an orphan
record.

`crowded` and `listed` are history: whether two saves were between count and insert at
once, and what the account deletion listed. The quotas and the leftovers of an account
deletion are stated relative to them.

Two parameters say what D1 may do: `InsertFails` (an INSERT that breaks no constraint
fails) and `LostInsert` (an INSERT commits and reports an error). Both are FALSE in the runs;
the theorems hold for both values and name the one they need.

### ConvertJob

One job of a `kind`: a URL job without (`full`) or with (`extract`) extraction, an
uploaded `pdf`, or an uploaded `document` (TXT and EPUB, which differ in key names). `Save`, `Create` and `Undo` are the POST
handlers: upload, `WORKFLOW.create`, rollback of the upload. `Begin` … `Convert` are the
steps; each is one action whose outcomes are: the input is missing, it fails before its
writes, it writes and the result is lost, it succeeds. `Split` may leave any prefix of
its pieces. `ThrowTarget` is where the code's `try` block begins, which differs between
URL jobs and uploads. `Delete` and `DeleteStepEnds` are the step of the `finally` block,
key by key. `Expire` is the lifecycle rule of the bucket.

The client asks for the status (`ReadStatus`, then for a running instance the `Probe`s,
served in any order, and `Phase`) or downloads (`GetOutput`, then the status if there is
no file, and `MissingDownload`). All of these interleave with the Workflow.

`article.html` and `fonts.css` are one object; `progress.json`, which nothing reads, is left out.

**JobStatus** has the states of a job as the other side of `GET /jobs/:id` can tell them apart,
what a state may become (`Becomes`) and what may be answered in it (`Replies`: the state, an
error, or 404 when the instance cannot be read). **JobsApi** is the contract over them: an
accepted job ends once and in one way, is gone after its retention, and is never said to be
what it was not at the moment the instance's status was read; and it does end (`JobsEnd`).
`ImplementsApi` maps `state` to the job (`JobState`) and `said` to the client's last answer
(`LastSaid`). JobPolling's server moves by `Becomes` and answers by `Replies`, for each job.

**Ranks** is the lexicographic order on four natural numbers in which two of the proofs
measure how far a job and a sync run are from their ends.

### Pairing and PairingPromise

A pairing `p` is one start attempt of one reader, a client `c` one request of a browser
with a session. The token in a row is the device it was made for.

| Code | Actions |
|---|---|
| `startPairing`, with its loop over collisions | `Start`, `InsertFails`, `InsertPairing` |
| `pollPairing`, `completePairingByDevice` | `PollPairing`, `CompleteRead`, `CompletePairingRow` |
| `approvePairingForAccount` | `Approve`, `ApproveCount`, `ApproveInsert`, `ApprovePairingRow`, `HardDeleteDevice` |
| `rejectPairingForAccount` | `Reject`, `RejectPairingRow` |
| manual device, revocation | `CreateManual`, `ManualCount`, `ManualInsert`, `RevokeDevice` |
| `deleteAccountCompletely` (devices) | `DeleteAccount`, `RevokeNext`, `DeleteAccountRow` |
| `expires_at`, `cleanupAppDb` | `Expire`, `CleanupPairings` |

`approved_at` is read once, before the device is inserted (`fresh`), and the conditional
UPDATE compares `expires_at` with it, not with the time of the UPDATE. A foreign key to a
deleted account refuses the insert and the update; deleting a device sets
`device_pairings.device_id` to NULL (`Unlink`).

**PairingPromise** is what `docs/pairing-protocol.md` promises as far as the code keeps
it: an open pairing is refused or becomes one device that no other pairing became, and what
the reader is handed is that device's credential. `ImplementsPromise` maps it to the
history of answers, so the cleanup and a deleted account do not undo a promise.

### Auth

A ceremony `ch` is one WebAuthn exchange: the challenge row with its purpose (`invite`,
`open`, `add`, `login`) and the answer the authenticator gives to it. An account and a
session are named by the ceremony that made them; 0 is the account that exists initially.
`StartInvite`, `StartOpen`, `StartAdd` and `StartLogin` are the options handlers. The
verify handlers begin with `Present` (the SELECT of `consumeChallenge`) and `Claim` (its
conditional UPDATE, then the check of the mode), and go on with `Commit` and `Undo` (the
batches of a new account; the loser of an invite removes the account it has committed),
`CheckCap`, `FindAccount` and `StoreKey`, or `FindCredential`, `FindOwner` and
`BumpCounter`. `CountSessions` … `InsertSession` are `createSession`.
`LoggingIn` are the logins between their verification and `BumpCounter`, whose UPDATE is
unconditional; the history variable `settled` keeps, for each passkey, the highest counter that a
login wrote while no other was there.
`DeleteKey` is the conditional DELETE of a passkey, `CloseAccount` the DELETE of the account
with its cascade, `Deploy` a deployment with another `REGISTRATION_MODE`: requests under way keep theirs.

### Converter

A request is one attempt of one job's step `convert-xtc`. `Fetch`, `FetchRefused`,
`FetchTimesOut`, `FetchBreaks` and `Respond` are the Worker's side; when a fetch ends, the
container does not notice, and the thread goes on. A thread enters the tracker (`Enter`),
reads its body and queues for a slot (`ReadBody`, `GetSlot`), or, for an uploaded PDF, asks
for a slot that it does not wait for (`TryUploadSlot`, `Received`), opens the PDF, detects
chapters, converts, and ends by itself (`Finish`) or with its budget (`TimeOut`). `Tick` does
not pass an expired timer. The budgets are small integers in the order of the code's: the
fetch's, less a margin, under the ceiling of the endpoint.

The process is `up`; `draining` from `Sigterm` until `wait_idle` returns (`Drained`: nobody is
counted, or `DrainWindow` is over); `closing` until `server_close` and `main` have ended
(`MainReturns`), which ends every thread; then `down`. A draining or closing process accepts no
connection, but a request may still come on one that was kept alive, and be counted in the gap
between `Drained` and `MainReturns`. `Crash` may come at any time, `Restart` is a new instance. The history
variable `underway` has the requests that were converting at `Sigterm` and still are. The drain
knows nothing of their budgets: that `CONVERT_TIMEOUT_SECONDS + 10` (610 s) is enough depends on
what the Worker asks for (600 s), since the converter itself would give an upload up to 900 s.
`WindowAssumption` says just that.

### JobPolling

Per page and job: the current poller (`poller`, 0 for none), its counts of failures and of
404s, the phase of every run of `poll` (`at`: waiting for the fetch, for the body, for the
timer) and the answer it holds (`got`), the job object all pollers share, the entry shown,
and the marks of this session. `history` is localStorage, which all pages share. `BeginPolls` is
`beginPoll` together with `poll` up to its first fetch. `Load` polls what the history has in
flight, `Show` replaces every poller of a job in flight, `Hide` clears the timers, `Close` ends
all. A run of a replaced poller finds out when its fetch ends or its timer fires
(`GivesUp`), but not when its body arrives (`BodyRead`). `Unstored` is a round in which
localStorage refuses the entry (`setItem` throws, full or forbidden): the job object has changed,
the entry shown has not, and the error is counted like one of `fetch`. `adrift` collects the jobs whose
entry shown has parted from its poller in either way.

## 4. The runs

`CHECK_DEADLOCK FALSE` is set in all of them, since each system does come to rest: runs
end, jobs end, versions reach their bound.

| Run | Specification | Instance | Distinct states | Shows |
|---|---|---|---|---|
| `catalog_overlap` | CatalogSync `Spec` | 2 runs, catalogs of 1 and 2 chunks, 1 retry, runs overlap freely | 2.1 M | `FencedActivation`, `SwitchRetainsBooks`, `RunHistoryIsTrue`, `GenerationNamesItsSource` |
| `catalog_spaced` | `FairSpec`, `TailExclusive` | the same, no retries, no symmetry | 183 k | `ImplementsPublish`: searches see whole catalogs, in order; `RunTerminates`; `LockRecovers`: after a run that ended without a release, any other run comes to find the lock grantable |
| `catalog_half_loaded` | `Spec` | as `catalog_overlap` | – | violation of `ActiveGenerationComplete` |
| `devlib_overlap` | DeviceLibrary `Spec` | 2 clients, 1 device, 2 items, versions to 3 | 3.2 M | `OnlyWinnersLand`, `RowsLandInOrderUnlessRaced`, `EditsBuildOnSeenList`, `DeletionsStaleTheEditor` |
| `library_overlap` | Library `Spec` | 3 saves (2 of one job), 1 delete request, account deletion; 2 items, 2 bytes | 1.9 M | `LiveRowHasObject`, `AnsweredItemStands`, `FailedSaveHasCause`, `QuotaUnlessCrowded`, `UnrecordedObjectHasCause` |
| `convert_jobs` | ConvertJob `FairSpec` | one job of each kind, 2 pieces, 1 mishap | 699 k | `MissingMeansExpired`, `UploadsAreDeleted`, `CompletedCanBeDownloaded`, `PollsNeverGoBack`, `ImplementsApi` |
| `pairing_race` | Pairing `FairSpec` | 1 reader, 2 requests, 3 device ids, 1 account with room for 1 device, 2 attempts to start | 841 k | `AnswersAgree`, `OrphanHasCause`, `HandedTokenWorks`, `QuotaBound`, `ImplementsPromise`, `PollingEnds` |
| `auth_accounts` | Auth `Spec` | 2 ceremonies, 2 requests, 3 passkeys, 1 invite; 2 accounts, 2 passkeys, 1 session allowed; 1 stop | 1.1 M | `InviteAdmitsOne`, `EveryAccountHasAPasskey`, `OneSessionPerCeremony`, `RefusedStaysRefused`, `QuotasHold`, `SettledCountersHold` |
| `auth_cap_race` | `Spec` | the same | – | violation of `AccountCapHolds` |
| `converter_slots` | Converter `FairSpec` | a rendered PDF and an upload, 2 attempts each, 1 slot of each kind, fetch budget 2, margin 1, ceilings 1 and 2, drain 2, 1 stop | 728 k | `NoSlotLeak`, `OverrunHasCause`, `DrainSparesConversions`, `SlotsComeBack` |
| `converter_timeout` | `Spec` | the same | – | violation of `TimeoutIsFinal` |
| `polling_tabs` | JobPolling `FairSpec` | 1 tab opened twice, 1 job, 3 pollers, 2 failures | 668 k | `Watched`, `SavedOnce`, `OutcomeShown` |

The type invariants (`TypeOK`) are not among the runs' invariants: TLAPS proves each of them for
every size (section 6).

Why these bounds are enough for the cases of interest:

* *Catalog.* Two runs suffice for a lock to pass on, for a late run to meet its
  successor, and for each to delete the other's rows. Catalogs of 1 and 2 chunks make a
  half-loaded generation, an unchanged one, and a switch that would lose more than a
  fifth of the books. One retry lets a lost response of every statement be repeated; a run
  without retries still fails at every statement, which is what its liveness is about.
  More runs and other retry limits are covered by the proofs, of `ImplementsPublish` too.
* *Device lists.* Versions to 3 allow two wins after the first read; two clients are
  the editor that stalls and the one that overtakes it; two items tell orders apart. Several
  devices, which one deletion touches together, are covered by the proofs.
* *Library.* Two saves of one job race while the third competes for the quota; `MaxBytes` 2
  makes the byte check refuse the larger job after a save.
* *Jobs.* Two pieces have a first and a last (the code has four, one
  after the other). Retry limits are 1, 2 and 5 in the code; one for each step, none for
  `split` and `merge`, already has both the retry and the exhaustion. `MaxMishaps` 1 lets any one
  object expire, or any one deletion fail, at any time.
* *Pairing.* Two requests are two approvals, an approval against a rejection, a manual
  device or an account deletion; with room for one device the quota decides between them.
  Three ids are two devices of a race and one more. Two pairings that race for one
  account differ from a pairing and a manual device only in the promise, which is proved
  for any number of pairings.
* *Auth.* Two ceremonies are two registrations for one invite or for the last place, two
  logins with one passkey, two additions, or one of each against the deletion of a passkey or
  of the account. One answer can be presented by both requests. Quotas of one and two are met and passed.
* *Converter.* With one slot of each kind and two attempts an abandoned attempt competes
  with its own successor. A fetch budget of 2 with a margin of 1 distinguishes a conversion that began in
  time from a late one; one stop is a crash or a drain at any moment. The drain waits for 2, one
more than a conversion asks for and no more than an upload's ceiling, so it is the Worker's
request that keeps an upload inside the drain, as in the code.
* *Browser.* Three pollers are one that was replaced twice, with all three runs pending. Two
  failures are one that is forgiven and one that is not. Loading twice brings the job back
  from the history. More tabs and jobs are covered by the proofs of `Watched` and `SavedOnce`.

Symmetry reduction over runs, clients, passkeys, items and devices is used only where no
liveness property is checked.

**Fairness.** CatalogSync: weak fairness of each run's `RunStep` — the Workflows engine
resumes an instance that has not ended — and of `LockExpires`, since time passes. There
is none for `Start`, `Kill` or `SourceChanges`. A fair run need not succeed: each attempt
may fail. ConvertJob: weak fairness of `Work`, the same engine; none for handlers, client
or lifecycle. Pairing: a reader that polls goes on polling, and time passes; nobody has to
approve, and the cleanup need not run. Converter: threads that wait for nothing but the
processor run, time passes and timers fire; a free slot may go to any waiter, a conversion need not end
before its budget, and no job has to be tried again. JobPolling: fetches and bodies end (well or
badly), timers fire, the server finishes its jobs, which is JobsApi's `JobsEnd`, a part of `ImplementsApi`; nothing
obliges the user. DeviceLibrary, Library and Auth have no liveness property: a request may always stop.

## 5. Where the code and its promises part

Three disagreements are runs with a counterexample.

1. **The active generation can be half loaded** (`catalog_half_loaded`,
   `catalog-db.ts:530`). The activation clears the lock, and the run then deletes every
   generation but its own, unlocked. A run that starts meanwhile loads rows, has them
   deleted, also after it validated them, and activates the rest. The migration promises
   that searches never see a half-loaded generation. It takes two overlapping runs, hence a
   manual trigger.
2. **The total account cap is not firm** (`auth_cap_race`, `auth/webauthn.ts:445`). Two open
   registrations repeat their count before either inserts its account. The comment at
   `webauthn.ts:440-444` says the second count closes that race; it narrows it. How far it can go is
   `AccountBound`, which is proved.
3. **A document that is too large is converted three times** (`converter_timeout`,
   `workflow.ts:769`). The comment at `workflow.ts:749-751` says that a conversion that used
   up its budget must not be retried. The container is given 30 s less than the fetch, so it
   answers 500 before the fetch times out, and `convert-xtc` retries every status but 413.
   The step for uploads (`workflow.ts:1194`) has the check that is missing here.

Others showed while modelling. They have no run of their own: the property that meets
them says in its antecedent what they need.

*Several requests*
* A stalled PUT writes its rows over those of a newer version (`devices/service.ts:440`): the
  version bump and the batch are two calls. A list whose version and items are read around
  another PUT's batch shows an old list under a new version (`service.ts:334`, `:464`).
  `raced` excuses both, and nothing else.
* A PUT that is past its check edits the list of a device revoked meanwhile
  (`devices/service.ts:405`).
* Overlapping saves exceed both library quotas, overlapping logins the session quota,
  overlapping additions the passkey quota, overlapping approvals the device quota; each needs
  requests that overlap, and `SessionBound` and `QuotaBound` say by how much.
* Two logins with one passkey overlap between verification and write (`auth/webauthn.ts:581`): the
  slower puts the stored counter back, and an assertion older than the newest one accepted passes
  the check again. The comment at `auth/repository.ts:213` says that "replay-attack detection relies on
  the stored counter only ever increasing"; the UPDATE below it does not see to that.
  `SettledCountersHold` is what holds instead, for counters written without overlap.
* A pairing can be approved after it has expired (`devices/pairings.ts:399`, `:423`), since
  the approval compares the expiry with a time it took before; `docs/pairing-protocol.md:128`
  says expired pairings cannot be approved.
* A download is told "expired" for a file that is there (`index.ts:759`): the artifact is
  looked for before the status is read, and the job completes in between.
* The comment at `library/repository.ts:124-131` says that no constraint forbids two items of one
  job and that a race leaves a second, harmless one. Migration 0002 has added the constraint since;
  `RacingSavesConverge` and `AnsweredItemStands` are about what it does.

*Partial failures*
* Account deletion leaves objects nothing names: of an item saved after its list was read,
  or soft-deleted earlier with an R2 delete that failed.
* A soft-deleted item whose R2 delete failed is never collected (`library/service.ts:306`):
  the comment at `:278` names a cleanup that does not exist. A save that stops between copy and insert
  leaves an object without a record (`service.ts:170`), and after a lost INSERT response the
  rollback removes the object of a listed item (`service.ts:205`).
* Intermediates of a failed URL job survive when two early steps fail, which precede the
  `try` block; the bucket's lifecycle takes them.
* A cleanup step that exhausts its attempts marks a completed sync failed, although a comment
  says it must not (`catalog-workflow.ts:273`, `:276`). A delete step that exhausts its
  attempts reports failed a job whose file is there (`jobs.ts:317`, `workflow.ts:787`).

* "Drain in-flight conversions before the process exits" (`converter/app.py:1221`) holds of
  conversions, under `WindowAssumption`. A request that is still queued, being read, or in chapter
  detection at SIGTERM may outlast the drain and ends with the process, and so does one that comes on a
  kept-alive connection after `wait_idle` has returned; for each the Worker's step is retried.

*In the browser*
* A run of `poll` that awaits its body is not asked again whether its poller was replaced
  (`frontend/src/lib/convert.svelte.ts:424-446`), against the comments at `:76-79` and
  `:470-473`. It can write the status of an older answer over a terminal one, and that entry
  is then followed by nobody. `adrift` collects such entries.
* If localStorage refuses an entry (`convert.svelte.ts:440`), the job object is already
  completed or failed while the entry shown stays in flight; hiding and showing the page then drops its
  poller. As the counts were reset at line 432, a refusal that lasts is never the third failure in a
  row: the page polls for ever. `adrift` excuses these jobs too.
* A `load()` or `saveFromJob` of `library.svelte.ts` that is in flight when the account
  changes fills the list of the next account, although `reset()` has emptied it.

## 6. Proofs

TLAPS proves every safety property that the passing runs check, and each module's type invariant, for every value of the constants that satisfies the named ASSUMEs: NULL
values are not members of their sets, bounds and sizes are natural numbers, flags are Boolean,
and what is counted is finite (`Item` in DeviceLibrary; `Device` and `Client` in Pairing;
`Ceremony`, `Passkey` and `Client`, of which there is one, in Auth; `Job` in Converter; `Tab` and
`Job` in JobPolling). The one assumption about sizes is Converter's
`WindowAssumption`: the Worker asks for less time than the drain waits. Three theorems name a parameter they
need: `SearchesSeeWholeCatalogs` and `ActiveCatalogIsWhole` hold under `TailExclusive`,
`ListedItemsCanBeDownloaded` without `LostInsert`.

| Module | Theorems, besides `TypeCorrectness` |
|---|---|
| CatalogSyncProofs | `HistoryIsTrue`, `NoLockIsLeaked`, `GenerationsAreNamedRight`, `ActivationIsFenced`, `SwitchesRetainBooks`, `SearchesSeeWholeCatalogs` (refinement), `ActiveCatalogIsWhole`, `RunsRunOut` |
| DeviceLibraryProofs | `EachVersionIsWonOnce`, `OnlyWinnersRowsLand`, `BatchesLandInOrder`, `AcceptedEditsWereSeen`, `DeletionsRefuseTheEditor` |
| LibraryProofs | `ListedItemsCanBeDownloaded`, `NoUnrecordedLeftover`, `RacingSavesConverge`, `AnswersHold`, `ErrorsHaveCauses`, `LeftoversWereNotListed`, `QuotasHold` |
| ConvertJobProofs | `CompletionImpliesOutput`, `NothingStarves`, `NoUploadIsForgotten`, `CompletedJobsHandOutTheFile`, `StatusesNeverGoBack`, `JobsKeepTheContract` (refinement), `JobsRunOut` |
| PairingProofs | `AnswersNeverContradict`, `HandedTokensLast`, `OrphansHaveCauses`, `QuotaIsBounded`, `PromiseIsKept` (refinement) |
| AuthProofs | `NobodyIsLockedOut`, `RefusalsAreFinal`, `InvitesAdmitOne`, `OneSessionForOneAnswer`, `CountersSettle`, `QuotasAreBounded`, `RacesForPlacesAreBounded` |
| ConverterProofs | `SlotsNeverLeak`, `OverrunsAreLate`, `DrainsOutlastConversions`, `ThreadsRunOut`, `WaitersHaveHolders` |
| JobPollingProofs | `VisiblePagesPoll`, `JobsAreSavedOnce`, `OutcomesAreTrue` |

Each argument is an inductive invariant, proved action by action. Why it is more than
the property:

* **CatalogSyncProofs.** `ActivationIsFenced`: the property needs that the lock's owner made the
  latest acquisition, later than the active run's (`Fence`). `SwitchesRetainBooks`: the check
  uses a snapshot that may be hours old; it is right because a run that still *holds* the lock
  has a current snapshot (`SnapshotCurrent`), as every switch takes the lock away.
  `HistoryIsTrue` needs that a run past its activation finds itself or a later holder active
  (`Recorded`); `NoLockIsLeaked` that a run in its tail holds no lock (`Released`), also when the
  release or the activation is repeated; `GenerationsAreNamedRight` that ZIP and hash agree
  when the parser starts (`Source`). `SearchesSeeWholeCatalogs` adds that nobody holds the lock
  while a run publishes and only the active run deletes (`Quiet`), that a run loads rows of its
  version only (`Loaded`), and that what the holder of the lock has counted is still there
  (`CountedRows`); so the generation it activates is whole (`Published`), which is also
  `ActiveCatalogIsWhole`: what `catalog_half_loaded` refutes for runs that overlap.
* **DeviceLibraryProofs.** `EachVersionIsWonOnce`: a won version lies below the present one (`Past`).
  `OnlyWinnersRowsLand`: a client at its batch carries a list that won the version it
  holds (`Entitled`), and an item past its soft delete never comes back (`Deleting`).
  `BatchesLandInOrder`: unless raced, a client at its batch is the only one there, and
  nobody knows the version it won (`Alone`). `AcceptedEditsWereSeen`: a client that holds
  the present version was shown the rows in force (`Seen`). `DeletionsRefuseTheEditor`: of an
  item on such a list, the deletion still has to remove the row or bump the version
  (`Pending`), and it is the item's only deletion (`Sole`).
* **LibraryProofs.** `NoUnrecordedLeftover`: a deletion removes a row only after its object
  (`Deleting`). `ListedItemsCanBeDownloaded`: a save that inserts has its object, one that
  undoes has no row (`Saving`, which is where `~LostInsert` enters). `RacingSavesConverge`,
  `AnswersHold` and `ErrorsHaveCauses` rest on the history of rows (`Recorded`, `Raced`).
  `LeftoversWereNotListed`: what the account deletion was shown it has still to
  delete, has deleted or has recorded (`Closing`). `QuotasHold`: unless crowded, one save
  at most is between its count and its insert, there is room for it among the items (`Room`)
  and, once it has copied its object and read the sum, among the bytes (`Afford`). A row more or less
  in a sum over the rows is the lemma behind it. It is a sum over a set, so it is proved over
  sets instead of numbers: of the subsets for which it would fail, finitely many, one is
  minimal, and it cannot be.
* **ConvertJobProofs.** `NothingStarves`: each step's inputs (`Reads`) are in R2 when the
  step is reached and no attempt removes them (`Supplied`). `CompletionImpliesOutput`
  follows from `Stored`, `NoUploadIsForgotten` from `Removed`: on every route an
  upload's job passes the delete step, whose key list has the upload.
  `CompletedJobsHandOutTheFile` needs that a download that goes on to the status after
  "completed" has looked for the file and not found it (`Told`). `StatusesNeverGoBack`:
  the instance goes one way (`Onwards`), and the objects a status was derived from stay
  until the delete step, also for a request that has looked for some of them already
  (`Requests`, `Witnessed`). `JobsKeepTheContract` rests on the
  same invariants: an answer is settled when the instance status is read (`LastSaid`), and of
  a job found running then, whatever happens before its objects are looked for, nothing but
  "in flight" is said.
* **PairingProofs.** What a request made, nobody else made and no pairing became (`Apart`); a row,
  its history and its reader agree (`Decided`); a device does not go before its account once
  it was decided on (`Kept`). `QuotaIsBounded`: an account's active devices and the
  requests that have counted and not inserted are together at most `MaxDevices - 1` more than there are
  clients (`Bounded`). `PromiseIsKept` maps each step to one of PairingPromise or a stutter.
* **AuthProofs.** A ceremony is claimed by one request (`Claimed`), a registration works for an account
  that does not exist before its commit (`Purposeful`). `RefusalsAreFinal` adds that a
  refused ceremony has no request that could still create the account (`Refused`);
  `OneSessionForOneAnswer` that the sessions in force are distinct and none is still to
  be opened (`Distinct`); `CountersSettle` needs the second half of the property for
  the first: a login past its verification carries a counter above the settled one, since what has
  settled later was written while it was not there, also when the passkey's row went and came
  again. `QuotasAreBounded` has one counting argument for each of the three quotas
  (`Roomy`, `CapKept`, `KeysKept`): what is there plus what has passed its check.
  `RacesForPlacesAreBounded` says how far the race of `auth_cap_race` can go: past the cap by one
  account less than there are requests.
* **ConverterProofs.** `SlotsNeverLeak`: a semaphore and its holders add up (`Agree`); every step takes a
  slot for one thread, returns it, or leaves both alone, and each kind of thread
  uses the semaphore of its kind (`Kinds`). `OverrunsAreLate`: of a conversion whose fetch is
  open the budget is the shorter one unless it began late (`BudgetInv`). `DrainsOutlastConversions`:
  what is left of the drain is more than what is left of any conversion under way (`DrainInv`), until one
  of the two has ended. `WaitersHaveHolders`:
  a queue before a semaphore at zero has a holder, as `Slots` is not zero.
* **JobPollingProofs.** An entry shown as in flight has a current poller with a run under way, or its
  page is hidden (`Followers`), which needs that a poller in use has failures left
  (`Patience`) and that a closed page runs nothing (`Closed`). `JobsAreSavedOnce`: one page at most
  waits to save a job (`Sessions`) and believes only answers that are true (`Truthful`, `Grounded`).
  `OutcomesAreTrue` (no run checks it; its invariant is `Heard` with `Told`): everything a page shows or
  the history keeps comes from an answer some run held, from a submission, or is "expired",
  which is left open because a transient error is answered with 404 too.

**Running out.** Three theorems prove what liveness rests on besides fairness: that nothing
goes round for ever. `RunsRunOut` gives each sync run a measure of four numbers: the steps still ahead of
it, the chunks its loop has still to write, the attempts left of its step, the statements left
of its attempt. Every statement, failure and kill of the run lowers it, no step of another run
or of the environment touches it, and it cannot fall for ever (`NoInfiniteDescent`, from the
library's theorem on lexicographic orders). `JobsRunOut` does the same for a job, with pieces and
deletions. `ThreadsRunOut` gives a converter thread one number, of at most `Ceiling + 7`, that its
own steps and, while it converts, the clock lower. What is missing from them to
`RunTerminates`, `JobsEnd` and `SlotsComeBack` is only that the engine, the threads and the
clock go on.

**Model-checked only.** Liveness (`RunTerminates`, `LockRecovers`, the `JobsEnd` in
`ImplementsApi`, `PollingEnds`, `SlotsComeBack`, `OutcomeShown`), which is beyond the prover
under fairness. Every safety property of the passing runs is stated by a theorem.

## 7. What is not shown

* An attempt of a step that timed out and goes on beside its successor
  (`workflow.ts:1450`; it is modelled only in Converter, where the container does not notice). Attempts of a
  job write equivalent contents to the same keys; one that outlives the delete step can leave
  an object behind.
* How long a step takes, outside Converter: time is "expired or not". Nor are the contents
  of files, feeds and pages modelled, or the pure functions that produce them: they are
  single calls that succeed or fail. Most lines of the repository are of this kind.
* `LIBRARY_WRITE_MODE`, renaming of items and devices, and token rotation: they change nothing
  that a property of these modules mentions.
* A submission that localStorage refuses to store: the request is made, and the page neither shows nor
  follows the job.
* The browser's bounds of 50 entries in the history and 10 in the view: the models keep all.
* Liveness with several browser tabs: `polling_tabs` has one, opened twice. With more, each
  page that is open polls for itself; the safety theorems are for any number.
* That D1, R2, Workflows and Durable Objects do what section 2 says of them.

## 8. Plan

The modules were written in this order, the most consequential first: CatalogSync and
CatalogPublish, DeviceLibrary, Library, ConvertJob, Pairing and PairingPromise, Auth,
Converter, JobPolling, JobStatus and JobsApi, each followed by its proofs. What remains worthwhile:

1. A composition of DeviceLibrary and Library around `deleteLibrary`, and of Library, Pairing
   and Auth around `deleteAccountCompletely`: today each module has the statements that
   its own state can tell apart.
2. Overlapping attempts of a timed-out step in ConvertJob and CatalogSync.
3. An abstract library (a listed item is there with its file, at most one per job) that Library
   implements, and a measure like those of section 6 for the rounds of a poller.
4. `decideFixedWindow` (`ratelimit.ts:167`) as a function, against a count of the takes.

## 9. Running it

From this directory, for any row of section 4:

    tlasany CatalogSync.tla
    tlc -workers 2 -config CatalogSync_overlap.cfg MCCatalogSync
    tlapm CatalogSyncProofs.tla

The longest runs take two to three minutes. The eight proof modules together have about
14 100 obligations.
