# Verification of the OpenAI subscription monitor

A Sub2API plugin (Go, `internal/monitor`) that lists the host's OpenAI OAuth
accounts, asks OpenAI for their subscription and usage in the background,
reports the result as a status snapshot, keeps a copy of it in the host's KV
store, and forwards HTTP requests for the host; a settings page; and two tools
that package and check a release.  This directory holds TLA+ models of them, the
TLC runs that check these on small instances, and proofs, checked by TLAPS, of
what holds for every value of the constants.

Run, in this directory: `tlc -workers 2 -config MCMonitorCrash.cfg MCMonitor.tla`
(and so on, see *Runs*), `tlapm MonitorProofs.tla`, and the same for the other
modules named `*Proofs`.

## Inventory of the system

| Part (source) | State | Operations | Talks to | What makes it hard | What makes it correct |
|---|---|---|---|---|---|
| Plugin core (`plugin.go`) | `config`, `host`/`hostConn`, `status` under `p.mu`; `refreshMu`; `runCancel` | `ApplyConfig`, `TestConfig`, `InitHostServices`, `restartLoop`, `refresh`, `saveSnapshot`, `loadSnapshot`, `Health` | the host: accounts, KV store | calls overlap; a refresh lasts minutes and uses what it read at its start; cancellation; death of the process; late KV writes | one refresh at a time; one live loop with the interval in force; masking that was turned on is not undone for long; a snapshot spoilt by a cancellation is replaced |
| The status as memory (`plugin.go`) | a struct copied under `p.mu`; the slice its copies share; a Go encoder that reads it outside the lock | the same | the same | a slice masked or filled while another goroutine encodes it; an old snapshot installed over a new one | nobody writes what another reads; what goes out is one status |
| Refresh worker pool (`refresh`) | semaphore channel, WaitGroup, results slice | one goroutine per account | `checkAccount` | cancellation races the semaphore; counters on every way out | limit kept; nobody waits for ever; what is published is final |
| Account check (`checkAccount`, `http.go`) | a local result | six calls under one deadline | host, OpenAI | a deadline shared by all; partial answers | a failed query leaves its fields unknown; masking covers every identity field |
| Forwarding (`forward.go`) | none between calls; per call a pipe, a channel, a goroutine | `Forward` | host stream, net/http, upstream | four parties that wait for one another; every one may stop | the frames tell the truth; everything ends when the call does |
| Account selection, masking, parsing (`http.go`, `reset_credits.go`, `daily_usage.go`, `config.go`) | none (pure) | operators | - | map iteration order, optional fields, boundaries, masking what is masked | reference definitions; masking hides and is idempotent |
| Settings page (`ui/assets/app.js`) | pending requests, `pendingRefreshAt`, the status shown | save, refresh, poll | host page | late, missing and reordered answers; a save carried out after its timeout | the buttons come back; in the end it shows the accounts under the configuration in force |
| Packager, `build.ps1` (`cmd/packager`) | binary, key file, archive, public key | build, create or use the key, write the archive, write the key | files | stops between any two writes; leftovers of earlier runs | success means that the published key verifies the package |
| Runtime check (`cmd/runtimecheck`) | a temporary directory, a plugin process, a deadline | verify, launch, the calls in order, the stream | package, plugin process | a plugin that never answers; a binary of another version | verified means one whole work; the check comes to a verdict |
| Plugin process, runtime glue (`cmd/plugin`, `runtime.go`) | broker, version | serve | both sides | - | it runs with the version the build put in |
| Protocol stubs (`*.pb.go`) | - (generated) | - | - | - | - |
| Markup and style | - | - | - | - | - |

How they interact: the host calls the plugin over go-plugin/gRPC; each call runs
on a goroutine of its own, so any two may overlap.  The plugin calls the host
back (accounts, identities, KV) over a second connection that
`InitHostServices` opens.  The loop goroutine is started by `restartLoop` and
shares `refresh`, `refreshMu` and `p.mu` with the calls.  `Forward` shares
nothing with the monitor.  The settings page reaches the plugin only through the
host's page, one request and one answer at a time for each flow, any number of
flows at once.  The runtime check is a host of its own for one process.

## Modules

**`Monitor`** - the plugin core.  A process is a loop goroutine (`Loops`) or a
call of the host in progress (`Handlers`).  A step is what the code does between
two points where others can run: a critical section of `p.mu` or one call to the
host.  `pc` and `frame` are a process's program counter and the locals that
outlive a step, so a refresh carries the host client and mask setting it read in
`BeginRefresh` to `Publish` and its save, as `plugin.go:259-298` does.  `host`
numbers the connections: `InitHostServices` replaces and closes the old one, and
a process whose `frame.host` is not `host` has lost its connection.  A snapshot
is abstracted to how it shows identities (`ident`) and whether some account in
it was spoilt by a lost context or connection (`partial`); `Outcomes` says what
`checkAccount` may make of them.  `saveSnapshot` has its three outcomes (done,
failed or too large, timed out with the write still to come: `late`).  A crash
loses all but `kv` and `late`.

| Code | Action |
|---|---|
| `ApplyConfig` `p.mu` section, save, restart | `ApplyConfig`, `SaveSnapshot*`, `RestartLoop` |
| `TestConfig` | `TestConfig`, then the refresh actions |
| `InitHostServices`, `loadSnapshot` | `InitHostServices`, `LoadSnapshot(Fails)`, `InstallSnapshot`, `RestartLoop` |
| `refresh` | `BeginRefresh`/`RefreshWithoutHost`, `ListAccounts(Fails)`, `Publish`, `SaveSnapshot*` |
| loop goroutine | `Tick`, `LoopExit` (its first refresh: `FirstStep`) |
| call cancelled by the host | `CallCancelled` |

**`IdentityView`** - what `Monitor` promises about identities, with no locks or
goroutines: once masking is turned on, full identities are hidden in the same
step, and can come back only from the one refresh that had read the old setting,
once.  `Monitor!View` and `StatusStore!View` are the refinement mappings: the two
models of the same critical sections keep one promise, each at its own level.

**`StatusStore`** - the same critical sections as memory, where `Monitor` has a
snapshot for one value.  `status.accounts` is an address in `heap`; a process's
`local` is its copy of the struct, with the address it shares and the JSON it
has encoded so far, one account per step (`Marshal`), outside `p.mu` in `Health`
and `saveSnapshot` and under `RLock` in `statusJSON`.  A refresh fills a slice of
its own (`CheckAccount`), `ApplyConfig` masks a copy (`SliceCopy`) while it keeps
`p.mu`, `loadSnapshot` masks what it has decoded.  It also has `Running` and
`Message`, and starts from documents, parsed by **`Configuration`**
(`parseConfig`: fields, defaults, ranges), and identities, masked by
**`Masking`** (`maskEmail` and `maskID`: what of a string they look at, and how
many characters they take out).  `Shown` is the status as `IdentityView` sees
it: while `ApplyConfig` masks the slice it keeps `p.mu`, so nobody can see half
of it.  When the loop refreshes is `Monitor`'s business;
here any process may at any time.

**`RefreshPool`** - what `Monitor` takes as one step, between `ListAccounts` and
`Publish`: a goroutine per account, `sem`, `wg`, the select between place and
cancellation, the deferred releases in their order.  **`RefreshOutcome`** is the
step: one publication, spoilt only if context or connection was lost.

**`AccountCheck`** - one `checkAccount`, which `RefreshPool` has as its step
`Check`.  `pc` is the call under way, `elapsed` the time since `requestCtx` was
made, and a query may take its client's timeout or what is left of `requestCtx`
(`Allowed`).  A query is answered or fails (`Answers`, `Fails`: no connection, no
time, no 2xx, no JSON).  A value in `result` is represented by the query it came
from, and an ID or e-mail also by whether it went through the mask, so the
merging of the answers (`CheckAnswer`, `Subscription`, `UsageAnswer`,
`MergeResetCredits`) keeps its order and its conditions and loses the values.
The identity comes from a header in any of its spellings or from the claims of
the token (`HeaderValue`, `ParseJWTClaims`).
**`AccountSelection`** - `selectAccount`, with the iteration order of the map as
a parameter and `RightChoice` as the reference it is compared with.  Its last loop
is a recursive function of the number of turns (`Turns`).  (maskID
leaves an ID of up to eight characters as it is; "masked" means here that it was
asked to mask.)
**`DailyUsage`** - the days a check asks for and the summaries `sort.Slice`, which
is not stable, may make of those it gets; `AccountCheck` has of this only that it
was answered.

**`Forward`** - one call of `Forward`.  The handler's program counter follows
`forward.go`; the goroutine, `responseCh` and the two ends of the `io.Pipe` have
variables of their own; the host (any legal stream, plus an unexpected frame, a
half-close, a cancellation), the transfer of the body by net/http and the
upstream (may answer at any time, or fail) are external.  Chunks are counted,
since frames, pipe and body keep their order.

**`SettingsPage`** - `app.js`.  A flow is an event handler (submit, click) or a
poll; it awaits one request at a time (`at`), whose answer (`reply`) carries the
status of the moment the host gave it and is delivered, refused or timed out
later, in any order with those of other flows.  A save the page has given up
stays with the host (`orphans`).  Of the plugin it has the configuration and the
refreshes, each with the configuration it began under.  Time is counted in saves,
which is all `Fresh` (`renderStatus`'s comparison of times) looks at; the clocks
of browser and plugin are taken to agree to the second the page allows for.

**`Packaging`** - `build.ps1` and the packager.  A file is what it was written
from, or `torn` between the truncation and the end of `os.WriteFile`, or between
`os.Create` and `Close`; every write has its failing or stopped twin (`Stops`,
`AddFails`), and runs follow one another over what earlier ones left.  A
signature verifies with the key it was made with and no other.
**`RuntimeCheck`** composes it with `cmd/runtimecheck`, the plugin process it
starts: one action for each call, each with its failure and its wait under a
deadline, and `fatal`, which runs none of the deferred calls.  After the verdict
(`Verified`) come the deferred ones, of which `server.Close` and `client.Kill`
wait for the plugin without a deadline (`ServerClosed`, `Killed`).

**`MonitorProofs`**, **`StatusStoreProofs`**, **`StatusViewProofs`**,
**`RefreshPoolProofs`**, **`ForwardProofs`**, **`AccountSelectionProofs`**,
**`AccountCheckProofs`**, **`RuntimeCheckProofs`** - theorems.  **`MCMonitor`**,
**`MCMonitorKv`** (a history variable for one claim), **`MCStatusStore`**,
**`MCRefreshPool`**, **`MCForward`**, **`MCAccountCheck`**,
**`MCSettingsPage`**, **`MCRuntimeCheck`** - instances for TLC.

Operators whose comment says *mutant* are plausible bugs; each is put in place
of the definition after it to see that a property fails.

## Runs

| Run | Shows | Bounds and why they suffice |
|---|---|---|
| `MCMonitorCrash` | `TypeOK`, `RefreshMuInv`, `LiveLoopFollowsConfig`, `SuccessorPending`, `ImplementsView`, with a crash, late writes and a second connection | one call and two goroutines: a restart while an old loop is inside a refresh.  One crash, one late write: what they leave behind is a KV entry of either kind, which one of each already gives.  Two overlapping calls are beyond TLC together with these (over 14 million states); all five properties are proved for every number of calls |
| `MCMonitorLive` | `CallsReturn`, `CancelledLoopsExit`, `KeepsRefreshing`, `PartialSnapshotHeals`, `MaskReachesStatus` | one call at a time and two goroutines: a restart with an old loop still in a refresh.  Two connections: the second is opened, and closes the first, under a running refresh, whose accounts are then marked as failed, and loads what was saved over the first |
| `MCMonitorMaskingKv` | `MaskReachesKv` with a write that lands late | one late write at a time, any number in a behaviour |
| `MCMonitorMaskingClaim` (on `MCMonitorKv`) | counterexample, see *Findings* | |
| `MCStatusStore` | `TypeOK`, `NoRace`, `WholeAnswers`, `RunsForGood`, `ImplementsView` | two processes, since a race has two sides; three slices: the published one and one for each; two accounts, so that a slice can be half masked or half encoded; two refreshes, for an older and a newer one; documents at the edges of what `parseConfig` takes.  All five are proved for all sizes |
| `MCRefreshPool` | all properties of the pool, and that it implements `RefreshOutcome` | three accounts for two places: one waits.  Safety is proved for all sizes |
| `MCForward` | `TypeOK`, `FrameOrder`, `EndMeansWhole`, `NotSentMeansUntouched`, `NoAnswerToUnfinished`, `CancelEnds`, `ForwardReturns` | two chunks each way: a first, a last, and a cut in between; a length declared or not.  The five invariants are proved for all lengths |
| `MCForwardBodyClaim` | counterexample, see *Findings* | |
| `MCAccountCheck` | `TypeOK`, `BudgetCoversQueries`, `MaskCoversIdentity`, `FailureIsNotData`, `NothingIsForgotten`, `SelectionRight`; `DailyUsage` against a reference (`SummaryRight`) | up to three accounts of five kinds in every order: one preferred, one default, one free already compete.  Two units of time for a timeout: a query may be cut short in part.  All six are proved for all sizes.  Up to three days of two dates: two of one date, and one out of order |
| `MCAccountCheckClaim` | counterexample, see *Findings* | |
| `MCSettingsPage` | `ButtonsReturn`, `SavedTakesEffect` | submit, click and a poll at once; two saves, one of which may be given up and carried out after the other.  A second poll only repeats the answers a click can bring out of order |
| `MCRuntimeCheck` | `SuccessVerifies`, `VerifiedIsSound`, `VerdictReached` | two versions, for a binary of another than the manifest's; four keys, for key file, public key, package and a new one to be all different.  The two safety properties are proved for all sizes |

`CHECK_DEADLOCK FALSE` where one call or one refresh is modelled: it ends.  In
the others something can always happen, and deadlock is checked.

### Fairness

`Monitor`: every step inside a refresh, a save or a load is bounded by a timeout
in the code (20 s for ListAccounts, five request timeouts for a check, 5 s for a
KV call), hence weak fairness of `Proceed`; the ticker fires again (`Tick`).
Strong fairness where a process may be passed over but not for ever:
`refreshMu` (a `sync.Mutex` hands itself to a waiter that has waited for 1 ms),
`LoopExit` (select picks at random among ready cases) and `RestartLoop` (in the
model a new loop takes a slot of `Loops`; in Go there is always room).  Nothing
is assumed of the host but that its calls end: that it answers is a premise of
the properties that need it (`HostAnswers`, `KvAnswers`).

`RefreshPool`: goroutines run, and the channel serves waiting senders in turn
(strong fairness of `Acquire`).  That a check returns is a premise of
`Publishes` and is not needed for `CancelFreesWaiters`.

`Forward`: handler and goroutine run, and net/http notices a done context.
`CancelEnds` needs nothing else.  `Forward` has no timeout of its own
(`forward.go:27`), so `ForwardReturns` has host and upstream doing their part as
its premise.

`SettingsPage`: the browser's timers run out (`Timeout`) and its interval fires
(`Poll`); `ButtonsReturn` needs nothing else, so it holds of a host that never
answers.  For `SavedTakesEffect` the loop begins its refreshes and not every one
fails (`EndRefresh`), and a poll is answered now and then, before its timer runs
out, with a status that is one: what no page could do without.

`RuntimeCheck`: the deadlines run out (`StartTimeout`, then `ctx`; both are set
in the code) and the tool itself goes on.  That `StartTimeout` bounds all of
`client.Client` is go-plugin's part.  Nothing is assumed of the plugin it starts,
so nothing of `ServerClosed` and `Killed`, which wait for it after the verdict
with no deadline; `VerdictReached` speaks of what comes before them.

## Proofs

`MonitorProofs`, from `MonitorAssumption` (what the constants are), for every
number of goroutines, calls, configurations, connections, crashes and late
writes:

- `TypeCorrect`: `Spec => []TypeOK`.
- `Safety`: `Spec => [](RefreshMuInv /\ LiveLoopFollowsConfig /\ SuccessorPending)`.
  The three support one another in `IInv`: that a cancelled loop in the middle
  of its checks still has a successor waiting for the lock needs that only the
  holder of `refreshMu` is inside refresh, so the successor cannot have passed
  it; and that `runCancel` is the one loop not told to stop needs that an ended
  goroutine leaves no context behind.
- `Refinement`: `Spec => ImplementsView`.  Needs `RefreshMuInv`: with one refresh
  at a time the stale one is unique (`StaleRefreshIs`), and publishing ends it.

`StatusStoreProofs`, from `StoreAssumption` (accounts have identities, documents
give configurations), for every number of processes, slices, accounts and
refreshes:

- `SlicesDoNotRace`: `Spec => []NoRace`, from `Holding`: a process that writes a
  slice is the only one that has its address (`Alone`), a slice being filled or
  decoded is not the published one (`Unpublished`), and masking goes on under
  `p.mu` alone (`Locked`).  `NoRace` by itself is not inductive: it says nothing
  of a process that does not read yet but copies the status in the next step.
- `AnswersAreWhole`: `Spec => []WholeAnswers`, from `Holding` and `Content`: the
  published slice is masked throughout or not at all (`Consistent`) but while
  `ApplyConfig` masks it (`Mixed`), and what a reader has encoded is part of it
  (`PartOf`).  Here the masks' idempotence is needed (`MaskIdempotent`): an entry
  stored masked is masked again when it is loaded.
- `RunningStays`: `Spec => RunsForGood`.
- `StoreTypeCorrect`: `Spec => []TypeOK`, the bounds of the configuration
  included, from `parseConfig`'s own checks.
- `MaskingHides`: of every identity long enough to hide something, something is
  hidden.

`RefreshPoolProofs`, from `PoolAssumption` (finitely many accounts, at least one
place; `StatusStore`'s `TypeOK` is why there is), by tying the counters to the
sets they count:

- `PoolSafety`: type correctness, `BoundedConcurrency`, `PublishedIsFinal`.
- `PoolRefinement`: `Spec => ImplementsOutcome`.

`ForwardProofs`, from `ForwardAssumption` (the bounds are natural numbers), for
every length of request and answer: `TypeCorrect`, `FramesInOrder`,
`EndIsWhole`, `NotSentIsUntouched` and `AnswersAfterRequest`, each
`Spec => []P` for the property of its name.  One invariant carries them:
`Counts` (a chunk is with the upstream, in the pipe or in the inbox: what the
bound on `upGot` needs), `Frames` (what has been sent at each place of the
handler), `Untouched` (an error's `RequestSent` says whether the goroutine was
started), `Finished` (the handler gets past the request only over a `body_end`,
after which the host takes no step).

`StatusViewProofs`, from the same assumption as `StatusStoreProofs`:

- `StoreRefinement`: `Spec => ImplementsView`.  Needs three invariants: `Holding`
  (a slice a process fills is not the one that is shown, so that a step shows
  something new only where it installs a slice or releases `p.mu`), `Content`
  (a slice about to be published is masked exactly as the refresh that fills it
  has read the switch, one about to be installed throughout or not at all) and
  `Exclusive` (one process at a time is inside the checks, so the
  stale refresh is unique and its publication ends it).

`AccountSelectionProofs`, with no assumption but that the map is finite and its
order names each of its keys:

- `AnyOrderIsRight`: `SelectAccount` gives a `RightChoice` for every map, every
  preferred ID and every order.  Induction over the turns of the loop cannot go
  through the library's theorem, which takes an operator; it goes by the least
  turn at which the claim fails (`UpTo`, from `LeastNumber`: the order of the
  numbers is well-founded), whose predecessor contradicts it.

`AccountCheckProofs`, from `CheckAssumption` (a timeout is positive) and
`AnswersAssumption` (what an answer can be once it is decoded: an optional field
has at most one value, a listing is a finite map), for every timeout, identity,
directory and answer:

- `DeadlineIsEnough`: `Spec => []BudgetCoversQueries`.  `Pace` counts the queries:
  after n of them at most n timeouts have gone by besides the lookup.
- `MaskingCovers`: `Spec => []MaskCoversIdentity`, from one lemma for each way a
  field of the result is written (`Discreet`).
- `Inductive`: `Spec => []IInv`.  `IInv` is `Pace` with what the queries still to
  come start from: who the account is (`Identified`), that the account gone on
  with was the right one when the listing was there (`Chosen`), and what each
  field owes to which answer, with what is still unwritten before each query
  (`Supplied`).  None of the four properties below is inductive without that:
  `FailureIsNotData` says nothing of a field a later query may still write.
- `TypeCorrect`, `FailuresAreNoData` and `SelectionIsRight`: `Spec => []P` for
  `TypeOK`, `FailureIsNotData` and `SelectionRight`; the last through
  `AnyOrderIsRight`.
- `NothingForgotten`: `Spec => NothingIsForgotten`, the action property, from one
  lemma for each step that merges an answer (`Extended`, and for the list of reset
  cards `Carried`).

`RuntimeCheckProofs`, from `KeysAssumption`:

- `SuccessIsSigned`: `Spec => []SuccessVerifies`.  `Progress` says which files are
  already those of the run at each step of the packager.
- `VerifiedIsOneWork`: `Spec => VerifiedIsSound`.  `Found` says what each step of
  the check has established, and that it still holds while no packager runs.

So every invariant, action property and refinement that a passing run checks is
proved, but those of `SettingsPage`, which are liveness.  Model-checked only:
liveness, out of the prover's reach as is ENABLED (`CallsReturn`,
`CancelledLoopsExit`, `KeepsRefreshing`, `PartialSnapshotHeals`,
`MaskReachesStatus`, `MaskReachesKv`, `ButtonsReturn`, `SavedTakesEffect`,
`VerdictReached`, `Publishes`, `CancelFreesWaiters`, `CancelEnds`, `ForwardReturns`).

## Findings

1. *Masking is undone by a refresh under way* (`MCMonitorMaskingClaim`).
   `README.md:32,34` of the repository say that turning masking on hides the
   snapshot at once.  It does, but a refresh that had read the old setting
   publishes full identities afterwards (`plugin.go:295`).  `ImplementsView` and
   `MaskReachesStatus` show the extent: once, until the next refresh.
2. *The same in the KV store, with no write failing* (the same run; its last
   state has both in full).  `README.md:34` allows for clear text in the store
   only if a write failed; the save of that refresh (`plugin.go:298`) lands after
   the masked one.
3. *A body that is broken off looks complete to the upstream*
   (`MCForwardBodyClaim`).  An unexpected frame or io.EOF closes the pipe as if
   the body had ended (`forward.go:94,106`); without a declared length the
   upstream takes the part for the whole.  `README.md:38` calls the forwarding
   transparent.  `NoAnswerToUnfinished` holds all the same: the host is told of
   an error and never gets the answer to such a request.
4. *A renewal state that is not provided is shown as "not renewed"*
   (`MCAccountCheckClaim`).  `will_renew` is a plain bool (`plugin.go:109,335`);
   `README.md:10` says that fields not provided are shown as unknown, and
   `app.js:65` has a text for it.

Met while modelling, contradicted by no text of the repository:

- An upstream that answers before it has read the body makes the Write fail, and
  the host gets `REQUEST_BODY_ERROR` in place of the answer (`forward.go:44`).
- The packager announces a package whose `Close` failed (`packager/main.go:193-195`);
  `SuccessVerifies` has it as its exception, and the runtime check refuses it.
- `build.ps1` goes on after a `go build` that failed, so an old binary can be
  signed under a new version; the runtime check refuses that too.
- A private key that cannot be read, for whatever reason, is replaced
  (`packager/main.go:167`).
- The page does not reset `pendingRefreshAt` on submit, so the text of a refused
  second save can be replaced by that of the first one taking effect
  (`app.js:40-42`), and form edits made while `config.load` is awaited are
  overwritten (`app.js:153-160`).
- A runtime check that fails leaves its process and its directory behind
  (`runtimecheck/main.go:224`: `os.Exit` runs nothing deferred).  One that succeeds
  may never end: the deferred `server.Close` (96) waits for a request the plugin
  holds, `client.Kill` (67) for its answer to Shutdown, and the deadline of `ctx`
  (77) reaches neither.

## Not modelled

- The generated `plugin.pb.go` and `plugin_grpc.pb.go`: getters, reflection tables,
  and stubs and handlers that hand a request on.  The modules have the calls as
  actions and their messages as records.
- The counts and `NextRefreshAt` of the status: arithmetic that no step looks at again.  The loop's tickers have no
  clock, so an announced time has nothing to be compared with.
- Which headers a request carries, proxies, redirects, the connection pools of
  net/http; the wording of messages; cryptography.
- Of the page the form, the detail view, escaping, markup and style.

## Plan

1. Done: `Monitor` with `IdentityView`, `RefreshPool` with `RefreshOutcome`,
   `Forward`, `AccountCheck` with `AccountSelection`, `StatusStore` with
   `Configuration` and `Masking`, `SettingsPage`, `Packaging` with
   `RuntimeCheck`; the proofs above.
2. Done since: `AccountSelection` in a form that can be proved about; the
   remaining safety properties of `AccountCheck`; `StatusStore` tied to `Monitor`
   through `IdentityView`, which both implement.
3. Left: a direct mapping of `StatusStore` on `Monitor`, which would need the loop
   of the one in the other; the safety the liveness properties rest on (no
   process waits for a lock that nobody holds) as invariants with proofs.
