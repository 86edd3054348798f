# TLA+ models of storetheindex

This directory holds TLA+ models of the parts of storetheindex whose code is in
`src/`. It also holds TLC configurations that check them on small instances, and
TLAPS proofs of their main invariants. `PROJECT.json` lists the following:

- every component;
- every run;
- the mutant that each checked property must catch;
- the source lines behind every definition (`map`);
- the findings;
- the hazards.

## The system and its parts

The indexer daemon (`src/command/daemon.go`) creates the following, one
after another, returning at the first error:

- a datastore, a registry and a value store;
- an ingester, which fetches advertisements and their entry chunks into the
  datastore;
- the find, ingest and admin HTTP servers;
- optionally, a libp2p peering service.

It then runs one goroutine, the main loop. The loop waits for:

- ctrl-c;
- a server failing to start;
- SIGHUP;
- a reload request on `reloadErrsChan`;
- a config-check tick.

When the loop ends, it closes everything in order under an optional shutdown
timer.

The car writer (`src/carwriter/carwriter.go`) archives staged advertisements.
`WriteExisting` lists the advertisements left in the datastore. For each one,
`Write` stores a CAR file holding the advertisement and its entry chunks, then
deletes those blocks from the datastore.

The finder handler (`src/internal/handler/finder_handler.go`) answers find
requests from the value store and the registry.

| Module | Models | Source |
|---|---|---|
| `CarWriter` | `WriteExisting`, `Write`, `removeAdData`, `deleteCids`, `findAds`, and crashes of the daemon between store operations | `carwriter.go` |
| `Daemon` | start-up, the select loop, the reload (`reloadConfig`, `reloadPeering`), the shutdown sequence and its timer | `daemon.go` 80–519, 643–731 |
| `FinderHandler` | `MakeFindResponse`, as its two nested loops | `finder_handler.go` 30–69 |
| `FindResponse` | what a find request promises: the answer in one step | `finder_handler.go` 30–69 |
| `MC*` | instances for TLC; `MCFinderHandler` maps the handler onto `FindResponse` | |
| `CarWriterProofs`, `DaemonProofs`, `FinderHandlerProofs` | TLAPS proofs | |

### CarWriter

The datastore is a set of CIDs: advertisements, and the entry chunks of each
advertisement's chain. The CAR store is a set of archived advertisements. Each
has the entries it was written with.

- `Init` is any state `findAds` can list. For each advertisement, any prefix of
  its chain has been fetched.
- Every outcome of `Write` is its own action:
  - the `Head` hit, with `removeAdData`. When the first entry block is
    missing, `isHAMT(nil)` panics (`RemoveAdDataPanics`). The deferred
    `deleteCids` then deletes the roots while the panic unwinds, and the
    daemon dies after it (`PanicUnwound`);
  - a `Head` error of any kind. The code treats it as a missing file, so
    every outcome below is possible for an archived advertisement too;
  - an `OpenReadWrite` failure;
  - a `WriteError`;
  - an entry-chunk load failure;
  - success.
- `deleteCids` removes one CID per step, from the last back to the
  advertisement, so that a crash can fall between any two deletes.
- `Crash` restarts `WriteExisting` from the datastore and the CAR store that
  are left.
- `DeleteCidFails` is a `Delete` that returns an error. `deleteCids` only logs
  it and goes on with the CID before. It is part of `FaultySpec` only, so that
  `Spec` keeps the reliable-delete model that the proofs are about.

### Daemon

Start-up is `StartSteps`, the sequence of what `daemonAction` creates, and
three actions:

- `StartStep` succeeds at one step and adds what it creates (`Creates`) to
  `opened`. Steps under a p2p address are skipped without a host.
- `StartFails` returns an error from the current step. Only the deferred
  `dstore.Close` and `bootstrapper.Close` run (`Deferred`).
- `StartDone` enters the loop.

Variables follow the locals of `daemonAction`:

- `cfg`, together with `cfgNil` when `cfg` was set to nil;
- `tickerIv`;
- `shutdownTimeout`;
- `peering`;
- `rq`, the contents of `reloadErrsChan`;
- `stage` and `finalErr` during shutdown.

`orphans` counts peering services still running that nothing refers to.

There is one action per select case: `LoopCanceled`, `LoopServerError`,
`LoopSighup`, `LoopReload` and `LoopTick`.

- `LoopReload` is the whole reload case, including the dead ticker check at
  lines 399–402 written as the code writes it. `prevCfgChk` is read from the
  same `cfg` it is compared with, so `tickerIv` is never reset and a reloaded
  `ConfigCheckInterval` never takes effect. This shows on the first reload
  that changes the interval, so no run is spent on it.
- Start-up leaves the value store, registry and servers open when a later
  step fails, and the libp2p host is never closed. The process exits after
  that, so no property is stated about it.
- `reloadConfig` is modelled by the step at which it rejects the file
  (`fileFault`: `loadConfig`, `SetPolicy`, `SetRateLimit` or
  `setLoggingConfig`). `policyOf` and `rateOf` record the config whose policy
  and rate limit are in force. `PolicySet` and `RateSet` say which of them the
  call applied before it returned.
- `reloadPeering` is modelled by its result, `PeeringResult`, under any
  outcome of `Stop` and `Start`.
- The loop's own `reloadErrsChan <- nil` (`SendNil`) goes into the buffer when
  the buffer has room. When it is full, the loop stays in `sendNil` forever,
  since nothing else receives on that channel.

The environment acts on its own:

- SIGHUPs, and ticks, which are dropped when their channel is full;
- config-file edits, each with the step of `reloadConfig` that will reject it,
  or none. `edits` is also the file's modification count, which `LoopTick`
  compares with the last one it saw;
- ctrl-c;
- a server start error;
- admin reload requests (`AdminReload`).

`AdminReload` is modelled from the spec: the admin handler that sends on
`reloadErrsChan` is in `server/admin/http`, which is not in `src`. The
`src/server/admin/server.go` in the tree has no reload route.

Shutdown closes the components in the order of `Closers`, one step each. A
closer of a component that was never created does nothing.

- a failure of a checked closer sets `ErrDaemonStop`;
- the errors of `peeringService.Stop` and `dstore.Close` are dropped;
- `ShutdownTimer` is `os.Exit(-1)` when a timeout is configured.

### FinderHandler

The request, the index contents, the set of multihashes found, the registry and
the failing Gets are chosen in `Init` and then stay fixed. Values are
abstracted to their provider IDs.

Each branch of the loop body is one action: `GetFails`, `GetNotFound`,
`GetFound`, `ProviderSeenBefore`, `ProviderFirstSeen` and `ScanDone`.
`Respond` returns the response.

`FindResponse` is the abstract specification. The request, the index and the
failing Gets are chosen as above, and one `Answer` step gives the whole
response. It is an error if any requested multihash's lookup fails. Otherwise
it holds the found multihashes in request order with their values, and the
registered providers of those values, once each, in first-seen order.
`MCFinderHandler` maps the handler onto it. The response is "pending" until
`status` is done or error, and the results and providers are visible only
when it is done. `ImplementsFindResponse` is `FR!Spec` checked as a property.
Every step of the handler is then a stutter of `FindResponse`, except the
return, which must be its `Answer`.

## Runs

| Run | Expect | Shows |
|---|---|---|
| `carwriter_safety` | pass | No entry block is orphaned (`NoOrphanEntries`). Every CAR is complete or entry-less (`ArchivesAllOrNothing`). No advertisement disappears unarchived (`NoSilentLoss`). This covers any fetched prefix, `Head` errors and up to two crashes. |
| `carwriter_liveness` | pass | With up to two crashes and the `removeAdData` panic, the last `WriteExisting` ends. What is left staged is exactly the advertisements whose `Write` failed without deleting (`LeftoversHandled`). The panic happens at most once per advertisement, because the deferred `deleteCids` removes it; the mutant without the deferred call loops. |
| `carwriter_head_error` | violation | A crash after the entries of an archived advertisement were deleted, then a `Head` error on restart, makes `Write` overwrite the complete CAR file with one that holds only the advertisement (`ArchiveNeverRewritten`). The comment at line 139 says an existing file is not rewritten. |
| `daemon_events` | pass | This covers start-up failures, reload faults and all loop events. `reloadErrsChan` never exceeds its single slot (`TypeOK`). An admin request taken by the loop is always answered (`NoForgottenRequest`). |
| `daemon_liveness` | pass | Without SIGHUP or watch-config, admin requests are answered unless the daemon stops (`AdminAnswered`), and ctrl-c ends the process (`CancelHonoured`). |
| `daemon_self_send_deadlock` | violation | With one SIGHUP and the config watcher on, the loop's own send on a changed file (line 444) fills `reloadErrsChan`, the SIGHUP's send (line 394) then blocks the loop on its own channel, and ctrl-c is never served. |
| `daemon_nil_config` | violation | A bad config reload followed by any reload panics on a nil `cfg`. |
| `daemon_peering_leak` | violation | A bad peer list drops a running peering service without stopping it, and a later reload starts a second one. |
| `daemon_exit_status` | violation | A `dstore.Close` failure exits 0, against the spec's "non-zero on stop failure". |
| `daemon_reload_atomic` | violation | A reload that fails at `SetRateLimit` or logging keeps the policy, or rate limit, it already applied while reporting failure (`ReloadAtomic`). |
| `carwriter_delete_failure` | violation | Under `FaultySpec`, a failed chunk `Delete` followed by the `Delete` of its advertisement orphans the chunk (`NoOrphanEntries`). |
| `finder_response` | pass | `MakeFindResponse` refines `FindResponse` (`ImplementsFindResponse`): it returns, and returns exactly the specified answer. No provider is listed twice (`ProvidersDistinct`). |

Each property of a passing run has a mutant in `PROJECT.json`: a plausible bug
in the mapped code that TLC must catch. Examples are a dropped reply to the
admin, a send that ignores the buffer, a shutdown that stops one step short, a
dropped `found` check, and a provider not recorded as seen.

### Bounds

- CarWriter uses three advertisements: a two-chunk chain, a HAMT root and one
  with no entries. This is enough for a crash between any two deletes and for a
  partial prefix, and two crashes allow a crash during recovery.
- Daemon uses one or two admin requests, at most two SIGHUPs or ticks and at
  most two edits, over configs that cover both intervals, both timeout
  settings and all three kinds of peer list. Each violation needs at most two
  events of a kind. The passing runs let every ordering of
  SIGHUP/tick/edit/reload/cancel/start-failure happen.
- `daemon_events` lets an edit carry a load or a logging fault. Those are the
  first and the last step of `reloadConfig`, so a failing reload happens both
  before and after settings were applied. `daemon_reload_atomic` needs only the
  rate and logging faults.
- FinderHandler uses requests of up to three multihashes over two, so there are
  repeats, and up to two values per multihash over three providers, so
  providers are shared between multihashes. With three providers, first-seen
  order and registry filtering can disagree with any other order.

### Fairness

- The archiver is one goroutine that is never starved: `WF` of the archiver.
- The daemon's main loop is one goroutine. Go's `select` chooses at random among
  ready cases. Every environment event is bounded, so weak fairness of the
  loop's steps (`WF_vars(MainLoop)`) is what the code justifies.
- Nothing is assumed of the environment: signals, edits, requests and failures
  may never come.
- `FindResponse` says the request is eventually answered
  (`<>(response # Pending)`). The handler is one call with no waits, so `WF`
  of its steps is what the code gives.
- `CHECK_DEADLOCK FALSE` is set only where the system really stops: the daemon
  exits, panics or is killed, and `MakeFindResponse` returns.

## Proofs (TLAPS)

- `CarWriterProofs!TypeCorrect`: `Spec => []TypeOK`.
- `CarWriterProofs!NoOrphanInvariant`: `Spec => []NoOrphanEntries`, for every
  set of advertisements and chains and any number of crashes.
  - `NoOrphanEntries` alone is not inductive. A crash in the middle of
    `deleteCids` is safe only because of two facts: the staged chunks of an
    advertisement form a prefix of its chain (`PrefixClosed`), and the pending
    delete list covers them from the last chunk back to the advertisement
    (`DeleteShape`).
  - The inductive invariant is `IInv == TypeOK /\ PrefixClosed /\
    NoOrphanEntries /\ DeleteShape`.
  - The lemmas `DelShapeOfPrefix` and `DelCidsShape` give the shape of the list
    that `Write` builds.
- `FinderHandlerProofs!ProvidersDistinctInvariant`: `Spec =>
  []ProvidersDistinct` for every request, index and registry. The inductive
  invariant adds `ResultsSeen`: every listed provider is already in
  `providerSeen`. Appending an unseen provider therefore cannot repeat one
  (lemma `AppendUnseen`).
- `CarWriterProofs!NoSilentLossInvariant`: `Spec => []NoSilentLoss`.
  - `NoSilentLoss` alone is not inductive: a `Delete` of `deleteCids` must
    not remove an advertisement whose CAR file is missing.
  - The inductive invariant `LossInv` adds `IInv` and `DelOwner`: while
    `deleteCids` runs, the head of the list is an advertisement that is
    stored or dropped. `DeleteShape` makes every other CID an entry block, so
    the advertisement is deleted only when it is the last CID left
    (`LossDeleteCid`). `DelCidsHead` shows both delete lists start with the
    advertisement.
- `CarWriterProofs!AllOrNothingInvariant`: `Spec => []ArchivesAllOrNothing`.
  Only `CarStored` changes the file store (`ArchiveStep`), also for an
  archived advertisement after a `Head` error. When no chunk load failed, the walk stopped
  at the start or at the end of the chain (`CarContentAllOrNothing`). The
  invariant is inductive together with `TypeOK`.
- `FinderHandlerProofs!RefinementInit` and `FinderHandlerProofs!AnswerStatus`:
  the part of the refinement `ImplementsFindResponse` that can be proved.
  - `RefinementInit`: the handler's initial states map to `FR!Init`.
  - `AnswerStatus`: `Spec => [][ResponseStep]_vars`. Every step leaves the
    mapped response unchanged, or turns a pending response into one whose
    status is `Verdict`, the status `FR!Answer` gives: an error exactly when
    a requested multihash fails its Get.
  - The inductive invariant `PInv` adds `Progress`: every multihash before
    `i` was looked up without error, an error stops at a failing one, and
    done means none failed.

- `DaemonProofs!TypeCorrect`: `Spec => []TypeOK` for every set of admins and
  configs and every bound. In particular the one-slot `reloadErrsChan` never
  holds two requests. There is one lemma per action. TypeOK is split into its
  Boolean flags (`TypeBool`), proved by Zenon, and the rest (`TypeRest`),
  proved by SMT.
- `DaemonProofs!NoForgottenRequestInvariant`: `Spec => []NoForgottenRequest`.
  - The invariant alone is not inductive: `StartDone` enters the loop.
  - The inductive invariant adds `StartIdle`: no admin is waiting before the
    loop runs.
  - The lemmas show that the loop's own send only fills an empty channel, on
    which no admin can be waiting (`NFRSendNil`), and that `LoopReload`
    answers the errChan it took on every path but the panic (`NFRReload`).

These are checked by TLC only:

- every liveness property (`LeftoversHandled`, `AdminAnswered`,
  `CancelHonoured`): TLAPS does not handle fairness and ENABLED;
- the rest of the refinement `ImplementsFindResponse`: that a done response
  carries `RefResults` and `RefProviders`, and that the answer comes. Both
  are defined with `SelectSeq` and recursive functions over sequences.
  Relating them to the handler's loop needs an induction over the request,
  and the induction and recursion theorems take an operator parameter that
  the installed provers cannot instantiate. The answer coming is liveness;
- the daemon's action property `ReloadAtomic` and its other invariants, whose
  runs are violations.

## Not modelled

- What the start-up helpers (`createValueStore`, `createDatastore`,
  `loadConfig`) do inside: only their success or failure is modelled.
- The code outside `src`: the registry and policy, the ingester, the value
  store, the assigner, and the admin HTTP handlers. They appear only through
  the calls the daemon makes to them.
- The finder test helpers.
- The contents of CAR files, the wording of errors, and logging.

## Plan

- Prove the data part of the refinement `FindResponse` once an unfolding of
  `SelectSeq` can be cited.
- Model the config file's stat errors in `LoopTick`.
- Model the concurrent ingester `Write` if its code is added to `src`.
