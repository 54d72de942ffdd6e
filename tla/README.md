# A verification project for provable-sdk

provable-sdk is a Go library for the Aleo network. It reads the chain through a
node's REST API, builds authorizations with snarkVM (Rust, behind cgo), and has
them proved and broadcast by a delegated proving service (DPS). This directory
holds TLA+ models of its stateful parts, the TLC configurations that check them,
and theorems that TLAPS checks. `PROJECT.json` lists the runs, the source lines of
every definition, the findings, the hazards and the theorems.

## 1. The system

| Component | Source | State | Operations | Interacts with |
|---|---|---|---|---|
| Proving client | `provable_client.go` | JWT, its expiry, `jwtMu`, `proverBase` | `GetJWT`, `GetPublicKey`, `Prove`, `ProveWithJWT`, `SubmitProvingRequest`, `...Safe`, `SetProverURI` | JWT service, prover, FFI (bytes, sealed box) |
| Node client | `network_client.go` | limiter; options fixed at construction | getters over `get`, `SubmitTransaction`, `GetStatePaths`, `WaitForTransaction` | node, `golang.org/x/time/rate` |
| Block iterator | `network_client.go:511` | `cur`, `end`, `buf`, `bufIdx`, `err` | `Next`, `Block`, `Err` | node client |
| Import resolution | `authorization.go`, `authorize.rs` | source cache (`sync.Map`), visited set, result | `BuildAuthorization`, `...WithCache`, `GetProgramImports`, `aleo_authorize` | node client, FFI |
| Program manager | `program_manager.go` | account, program cache, the clients | `Execute`, `ExecuteAndWait`, `ExecuteBatch`, `ExecuteViaDPS`, transfers, staking, `SetAccount` | all of the above |
| Account | `account.go` | key slices | accessors, `Sign`, `Zeroize`, encryption, finalizer | FFI |
| FFI and Rust bridge | `internal/ffi`, `rust-bridge` | strings owned by either side; the lazily loaded process | one C function for each operation | snarkVM |
| Client facade | `aleo.go` | none of its own | constructors | node client |
| Cryptographic wrappers | `security.go`, `crypto.go`, `record.go`, `program.go` | none | hashes, sealed boxes, decryption | FFI |

The library starts goroutines only in `ExecuteBatch`, but its clients are meant to
be shared by goroutines (README.md:251-254 of the repository), so the interleavings
are those of its users' calls. What is hard in it:

- shared state under one mutex held across an HTTP exchange (JWT), under none
  (`proverBase`, `account`) or in a `sync.Map` filled by several calls (sources);
- two retry loops with different rules: a lost answer is retried by a GET and must
  not be by a proving request or a broadcast, which may have been executed;
- tokens that expire while a call waits; backoff, `Retry-After`, limiter and poll
  timers, every one of them also ended by the context;
- unsigned arithmetic at the boundaries of batches;
- a graph walk, with cycles and shared imports, over a graph that may change;
- strings of two allocators that cross a language border, panics that must not, and
  one lazily loaded process behind all calls;
- secrets that are overwritten in place, by their owner or by a finalizer, while
  other goroutines copy them.

`PROJECT.json` "hazards" has each of these at its line with the property that
watches it, or the reason why none does.

## 2. The modules

    RetriedCall      <- RetriedCall_proofs        what a call with retries promises
      ^ refined by ProvableClient, and three times by NetworkClient
    BoundedBatch                                  what ExecuteBatch promises
      ^ refined by ProgramManager

    ProvableClient   <- MCProvableClient, ProvableClient_proofs
    NetworkClient    <- MCNetworkClient, NetworkClient_proofs
    BlockIterator    <- MCBlockIterator, BlockIterator_proofs
    ImportResolver   <- MCImportResolver, ImportResolver_proofs, ImportAuthorization_proofs
    ProgramManager   <- ProgramManager_proofs
    Bridge           <- Account, Account_proofs

An MC module only adds the sets a `.cfg` cannot write down and the symmetry;
ProgramManager and Account need none.  Account extends Bridge: the account's calls
are calls of the bridge, and both are checked together.
Definitions whose comment begins with "Mutant" are plausible bugs: they stand next
to the definition they would replace, and no specification uses them.

### RetriedCall

The abstract specification: `phase` (idle, busy, flying, over), `log` (the outcomes
of the call's requests) and `verdict`. A call has one request in flight, sends again
only after `Transient` outcomes and no more than `MaxRetries` times, and reports
success exactly when the last outcome is `Good`. It knows nothing of tokens, keys,
timers, limiters or locks.

### BoundedBatch

The abstract specification of `ExecuteBatch`: `batch` (idle, running, returned),
`working` (the requests being executed), `outcome` (what an execution ended with) and
`results`. A request is taken up once, when fewer than `Bound` are at work; its outcome is
written once, at its own index; the batch returns once, when all results are there. It
knows nothing of slots, goroutines or the steps of an execution. ProgramManager implements it, with `working` the executions that
have a slot and have not written their outcome.

### ProvableClient

Several goroutines share one client. The labels of `pc` are the points where the
code waits or may be overtaken:

| `pc` | In the code | Actions that leave it |
|---|---|---|
| `lock` | `jwtMu.Lock`, the cache check under it | `JWTHit`, `FetchJWT`, `FetchRefused` |
| `fetch` | the token exchange, with the mutex held | `JWTArrives`, `ExchangeFails` |
| `send` | head of the loop body | `SendPubkey`, `Post`, `EncodingFails`, `SendRefused` |
| `pubkey` | the key exchange of a private request | `PubkeyArrives`, `ExchangeFails` |
| `seal` | encryption with the key | `Post`, `EncodingFails`, `SendRefused` |
| `post` | the proving request | `PostRetried`, `PostConcluded`, `PostLost` |
| `backoff` | the `select` on timer and context | `BackoffOver`, `BackoffCancelled` |

`jwt` keeps two numbers: what is left of the token and what the client believes is
left (`exp` of the claim, or an hour for an opaque token). `bearer` is what is left
of the copy a call carries. `proverBase` is a two-word string written without a lock,
so `SetProverURI` takes two steps and a read between them gives `Torn`, a value that
is no base URL.

### NetworkClient

`get` from the head of its loop through backoff, limiter, request and `Retry-After`;
`submitTransaction` and `GetStatePaths`, POSTs which have none of these and differ in
the statuses they take for a success; and `WaitForTransaction`, which calls `get` anew
after every wait. The getters differ only in whether they return the body or decode it
("raw" and "decoded"). The limiter is modelled from the documented behaviour of
`rate.Limiter.Wait` with one token: a call takes a token or a promise of one, waits,
and gives a promise back only if none was made after it; it fails at once, and takes
no token, if its wait would outlast the context's deadline (`DeadlineTooNear`). A request
that `http.NewRequestWithContext` refuses, for its URL, is not sent (`Malformed`): the URL
of a call is the same in every attempt, so this happens in the first. `MaxPromised` bounds
the tokens that are promised at a time; the code has no such bound, and the model needs it
to be finite. A date in `Retry-After` is no
number to `strconv.Atoi` and so counts as no header. `sent[i]` counts the GETs of
the last `i` units of time, for the property on the limiter only.

### BlockIterator

One action per way through `Next`. A block is its height; heights are numbers modulo
`W` (2^64 in the code). `short` records that the node once gave fewer blocks than
asked for.

### ImportResolver

The recursion of `collectImports` is a stack of frames. `authorize` calls go through
the cache or not, and hand the ordered sources to `aleo_authorize`, which adds them
one by one; `Process::add_program` is external and refuses a program that is there
already or whose imports are not. `imports` calls are `GetProgramImports`, which is given
a source by its caller, any of `Given`, not only what the node has. The node's
programs may be upgraded between two reads. A fetch that fails in the middle drops what
it had read. `during` keeps the sources a program has had on the node while a call runs,
for the property on their freshness only.

### ProgramManager

Batches (`ExecuteBatch`), and goroutines that make one call of their own: to execute,
to execute and wait, to submit a proving request, or to build an authorization, with
`SetAccount` and `Zeroize` at any time. The labels of `pc`:

| `pc` | In the code | Actions that leave it |
|---|---|---|
| `queued` | the goroutine sends to the semaphore | `AcquireSlot` |
| `begin` | options, first read of `pm.account` | `BuildAuthorization` |
| `account` | second read, copy of the key | `ReadKey`, `Crash` |
| `authorize` | imports and `aleo_authorize`, one step here | `AuthorizationBuilt`, `SubmitProvingRequest`, `AuthorizationFails` |
| `prove` | the proving client's loop | `ProverAnswers`, `ProvingRetries`, `ProvingFails` |
| `proved` | the proof returned as it is, or the checks of the broadcast and the ID | `ProofReturned`, `ExecuteViaDPSReturns` |
| `record`, `release` | write to `results`, the deferred calls | `Record`, `ReleaseSlot` |
| `poll` | `WaitForTransaction` | `TransactionFound`, `PollCancelled` |

`prove` keeps of RetriedCall, which ProvableClient is shown to implement, the number
of the submission; each may be broadcast by the prover (external), and the chain takes
at most one of them. The prover may say nothing about the broadcast, and what it says
is true. The ID that is returned is that of the submission that was answered
(`Answered`). `secret` says whether an account's key is whole, being zeroized or gone.
`Crash` is a panic: the code reads `pm.account` twice without a lock, and what it reads the
second time (`ReadAgain`) is the account whose key it copies. A copy of a key that is being
zeroized is cut at the zero and does not parse (`Parsed`). The transfer and
staking calls are `ExecuteViaDPS` with fixed inputs and a default for one option. A
manager may have no proving client (`configured`), and then only authorizes.
`SubmitProvingRequestSafe` differs from `SubmitProvingRequest` in how a refusal is
written down, which here is an error in both.

### Bridge

One C function called by one goroutine: `Lend` (a `C.CString` for each argument),
what Rust makes of it, and `BackInGo` (the deferred frees of both sides, and
`resultOrError`). `Strings` has the number of strings each function is lent, which is
all that tells most of them apart here.

| `pc` | In the code | Actions that leave it |
|---|---|---|
| `rust` | the body of `ffi_catch` | `Compute`, or `Parse` if it needs the process |
| `process` | `get_or_init_process` | `BeginLoad`, `GetOrInitProcess` |
| `load` | the closure of `LazyLock` | `EndLoad` |
| `execute` | work with the process or a clone of it | `AddProgram`, `VerifyWithProcess` |
| `back` | the call has returned to Go | `BackInGo` |

`PROCESS` is the static: a failed load is kept as an error, a panic in it poisons it
(external: `std::sync::LazyLock`). A caller that finds it loading waits. That the clone
shares nothing with the original is snarkVM's promise (external); that a clone is taken
is the code's, and `base` would show if it were not.

The string that Rust gives back is modelled by what `resultOrError` looks at: whether it
begins with `{"error":"` and is longer than that, which characters it has that JSON does not
take as they are, and what it holds. `error_result` escapes its message (`Escaped`),
`to_c_string` makes an empty string of one with a NUL in it, and `resultOrError` (`ResultOrError`) takes
for an error what has the prefix, unmarshals and has a message; all else is handed on, so
that an error with an empty message comes back as the string it is ("other"). What an error
says (`Words`) depends on where it comes from: a panic's message is fixed, one that quotes
what it is about may have quotes in it, one about JSON a NUL, and an error that snarkVM words alone may
be empty. Assumed of snarkVM: it has words for a private key that does not parse, and no
value begins as an error does or has a NUL in it; and of Rust, that it never gives back a null
pointer (`CString::into_raw`), so that the first branch of `resultOrError` is never taken. The
numbers of `aleo_verify_signature` have a `switch` of their own (`VerifySignature`), and
`VerifyExecution` compares the string with "true". A hash algorithm that `Hash` does not
know is refused in Go (`Finish`).

An argument is good or bad: Rust
cannot parse a bad one.

### Account

An account is made in one of three ways (`generate` and then `create`, or `create` from
a key or a payload), and is then shared by the goroutines in `refs`, those that may use
it again. The key is two bytes, enough for a copy to have one of them: the labels `copy`
and `check` are a read of the slice byte by byte, and the password derivation of
`EncryptPrivateKey` between its check of the key and its use. `LoadHeader` is where a
use becomes the last one: once the header of the slice is loaded, nothing but the copy
itself refers to the bytes, and the caller may or may not use the account again. When
`refs` is empty the collector may run the finalizer (`Finalize`), which is `Zeroize`,
byte by byte (`ZeroByte`). `Zeroize` by an owner is one step, and not while others copy:
account.go promises goroutine safety for reads only. What `aleo_derive_all_keys` did not
derive does not unmarshal into keys, and makes no account (`CallReturns`). A key with a zero in it is cut by
`C.CString`, and no part of a key parses (snarkVM checks its length).

## 3. What is checked

| Run | Question | Bounds |
|---|---|---|
| `client_calls` | tokens, keys, refusals, the promise of RetriedCall, does every call return | 2 goroutines contending for the mutex, a prover base that is rewritten, 1 retry, an honest token with a claim and an opaque one |
| `client_http_error` | finding | 1 goroutine |
| `iterator_ranges` | order and completeness, short batches, errors | all ranges with W = 14, batches of 3, that end before the wrap |
| `iterator_wraps` | finding | the last 3 heights |
| `resolver_graphs` | completeness, acceptance (and so the order that it needs), less to do with every step, termination | 1 call, all graphs of 3 programs with up to 2 imports each |
| `resolver_shared` | order, requests and the age of sources with a shared cache | 2 calls, 3 programs, 1 upgrade; at first C imports nothing and B not itself |
| `resolver_no_inputs` | finding | 1 call, 2 programs |
| `network_promise` | the promises of GETs and of both POSTs, `Retry-After` | 1 goroutine, 2 retries, 7 kinds of answers |
| `network_limiter` | limiter, termination, cancellation | 2 goroutines, 1 retry, 2 requests a second |
| `manager_batch` | the promise of BoundedBatch (slots, results), broadcasts, keys, termination | a batch of 2 with 1 slot, 1 call of any kind, 2 accounts of which 1 is zeroized, 1 key given by a caller, 1 retry |
| `account_bridge` | errors and strings across the bridge, the process, the key against its finalizer | 2 goroutines, both owners, a key of 2 bytes, 1 program, the functions that need no process, a number or a string |
| `account_payload` | finding | 1 goroutine that never zeroizes |

Why these bounds are enough. Everything but the mutex, the cached token and the
limiter belongs to one call, so two goroutines show every interleaving of a pair. One
retry lets the loop be entered, left early and exhausted; `network_promise` has two,
so that a third request would show. Three programs are the fewest with a shared import
below two others and with a cycle that does not contain the root; `resolver_shared`,
with two calls, starts from the graphs in which C imports nothing and B not itself, and
the upgrade leads to others, cycles among them. In `iterator_ranges`
W leaves room for four batches and a partial one. Lifetimes in `client_calls` are of
the size of the waits, so a token expires at every place it can; its one prover is
enough because a base that is being rewritten is another one, and what a second prover
could change is proved for any number of them (section 4). In `manager_batch` one slot
is enough for one request to wait for another, and one retry for a transaction of an
earlier submission to be on the chain. Two accounts replace each other and are removed at any
time; that one of them is zeroized tells a torn key from another one's. In the resolver's
runs `Given` has sources of which the node has some and some not.
In `account_bridge` two goroutines are a loader and one that waits for it, or a last
user and one that dropped the account. Of the functions it calls, `verify_signature`
answers with a number, `authorize` clones the process and `verify_execution` does not;
`sign_message`, `derive_all_keys` and `private_key_new` are called with the account.
The others are lent other numbers of strings and are `Compute` or `AddProgram` too.

**Fairness.** `client_calls` and `network_limiter` assume that a goroutine which
can run does (weak fairness), that `sync.Mutex` is starvation free (strong fairness
of `Acquire`; a waiter of more than 1 ms gets the mutex), and that time passes (strong
fairness of `Tick`, which waits only for steps that take no time). Nothing obliges a
service to answer: an exchange ends because the default clients have a `Timeout`. With
a custom `http.Client` that has none, calls may hang with the mutex held, and the
property does not hold; that is the meaning of `Timeout` being finite in the model.
`resolver_graphs` assumes only that the walk goes on. `manager_batch` assumes that
goroutines run on, that the authorization and the proving call end (what
ImportResolver and ProvableClient promise), that a waiting goroutine gets a free slot
(strong fairness: Go queues blocked senders in order), that the node, asked again
and again, once answers for a transaction that is on the chain, and, for `WaitEnds`, that
the network confirms one of the transactions of an execution that were broadcast (weak
fairness of `Confirm`; external, and about the chain rather than the code). `account_bridge`
assumes that goroutines run on and that snarkVM's functions end.
Deadlock is checked in every run but the resolver's, where the end of all calls is
the end of the system, and the manager's, which a panic stops.

The limiter's queue is bounded by `MaxPromised` = 2 in the network runs: two callers that
wait fill it, and a third promise would need one that was cancelled and not given back, with
a caller that comes again; the theorems hold for every bound. What `WaitEnds` and `CancelReturns` ask differs: the
one is about the transaction that is waited for, the other about the context.

**Findings**, each the violation of one property:

- `client_http_error`: an HTTP failure of the token or key service is a Go error of
  `SubmitProvingRequestSafe`, whose comment promises none for HTTP failures.
- `iterator_wraps`: `cur + batchSize - 1` and `batchEnd + 1` wrap for a range that
  ends near the largest `uint64`, and the iterator starts again at 0.
- `resolver_no_inputs`: nil inputs are marshalled to `null`, which `aleo_authorize`
  cannot parse as an array; `ClaimUnbonded` passes none.
- `account_payload`: `EncryptPrivateKey` as the last use of an account may be overtaken
  by the finalizer while it seals the key (no `runtime.KeepAlive` after it), and returns
  a payload that decrypts to no key. The same race in `Sign` is an error
  (`SignsWithItsKey`), because the torn key does not parse; that a payload is lost is
  found out only when it is needed.

Met while modelling, and not made into runs: the status of a refusal after retries is
always 503, whatever the prover answered; a retry sends the token of the first
attempt, which may have expired during the backoff (hence `FirstBearerAlive` says
"first"); an empty batch makes `Next` return false without an error, even in the
middle of a range; a second that starts with a full bucket lets out nearly twice
`reqPerSec` (`GetsLimited` states the bound that holds); `ExecuteAndWait` polls until its
context ends when nothing was broadcast, or when the chain took the transaction of an
earlier submission (`WaitEnds` rules out every other way to poll for ever); an error of
Rust with an empty message would be handed to the caller as the value `{"error":""}`;
`SetAccount(nil)` between the two reads of `pm.account` is a panic, in a type that the
repository's README does not list as safe for concurrent use; with a negative
`maxRetries`, which `WithRetry` does not refuse, `get` sends nothing and returns neither
a body nor an error; a Go string with a zero byte is cut by `C.CString`, so Rust reads
another argument; `VerifyExecution` reports a proof that does not verify as an error and
never returns false without one; a process that failed to load once stays failed until
the program is restarted; `PrivateKey()` in the last use of an account may return a key
that is partly zero.

## 4. What is proved

For every value of the constants, by TLAPS:

`ProvableClient_proofs`, from the assumptions named in `ProvableClient` alone unless
said otherwise:

- `TypeCorrect`: `TypeOK` is inductive by itself.
- `FetchIsNeeded`: `NoNeedlessFetch` is inductive on top of `TypeOK`. While a caller
  holds the mutex nobody else refills the cache, and time only makes it staler.
- `KeyCorrect`: needs `SealedWithOwnKey`, which extends the property to the label
  `seal`, where the key waits to be used.
- `FirstBearer` assumes `Honest`: tokens live as long as believed and longer than the
  buffer, and an exchange takes no longer than the buffer. The invariant
  `TokenLastsLongEnough` says that a first attempt has lost no more of the buffer than
  the key exchange has used of its timer.
- `RefusalsAreEarned`: needs `CallHistory`, which ties the log of a call to its loop
  counter: all earlier answers were transient, and there are as many as retries.
- `ClientKeepsPromise`: the refinement of RetriedCall. Initial states map to initial
  states, and under `TypeOK` and `CallHistory` each action maps to a step or stutters.
- `LastAnswerDecides`: from the refinement and `RetriedCall_proofs`. Every call makes at
  most `MaxRetries + 1` submissions, all but the last one transient, and one that is over
  succeeded exactly when its last submission was answered with a proof.
- `CallsAreShort`: the safety half of `CallsReturn`. A clock `age`, which nothing reads,
  starts when a call has the mutex. If no backoff is longer than `longest`, the call is
  over within `3 * Timeout + MaxRetries * (longest + 2 * Timeout)`, and a mutex that is
  taken is held by a caller in its token exchange, for `Timeout` at most. `TimeLeft` bounds
  what a call may still wait at each label, `Held` says who holds the mutex. That no
  exchange exceeds `Timeout` is the guard of `Tick`, the `Timeout` of the default clients.

`RetriedCall_proofs`:

- `PromiseBounds`: what the abstract specification promises of a call's log, for every
  set of outcomes: its length, that only the last outcome may be other than transient, and
  that the verdict is that of the last one. Through the refinements it holds for each call
  of the two clients, without a word about their timers, tokens or limiters.

`BlockIterator_proofs`:

- `IteratorTypeOK`: also for ranges that wrap.
- `IteratorInOrder` assumes `NoWrap` (every range ends a batch before `W`). The
  invariant `Reading` puts what was shown before the rest of the buffer, and both
  before `cur`.
- `IteratorComplete` assumes `NoWrap`; its invariant adds `Gapless` for as long as no
  batch was short: shown and buffered blocks together are those from `start` to `cur`.

`ImportResolver_proofs`:

- Each step of a call is one of a few kinds (`Kinds`: it starts, enters a program, skips
  or visits an import, finishes one, or does nothing of the sort), and the proofs have a
  case for each kind in place of one for each action.
- `ImportsResolvedOnce`: needs `Walk`. What is marked as visited is exactly what is
  resolved, being walked or being fetched (`Marked`), these are disjoint (`Once`), every
  import line is visited or still ahead (`Looked`), and each program on the stack is
  imported by the one below it (`Chain`).
- `LeavesFirst`: needs `Ordered`, which says the same of every state of the walk. When
  a program is finished, its imports are visited; one that is not resolved is on the
  stack, and then the programs from it to the top import each other
  (`CycleOnTheStack`), which the property excludes.
- `AskedOnce`: needs `Asked`. What a call with the cache has requested is in the cache,
  or is the one program it waits for; the cache never loses an entry (`CacheGrows`).
- `NoOtherSources`: needs `Timely`. What a call holds of a program, an answer under way
  included, was on the node during that call; what the cache holds was there during some
  call that uses the cache.

`ImportAuthorization_proofs`, on top of these:

- `AllThatIsNeeded`: needs `Needed`, that what is visited is in every set of programs
  which is closed under the imports read so far, and `Ending`, which says with what the
  walk and `aleo_authorize` end.
- `SoundCallsPass` assumes that no caller passes nil inputs (the finding of
  `resolver_no_inputs`). An import is refused only if it is out of order. The root is
  refused only if it was resolved as an import of itself, and then the programs from
  which it can be reached import each other (`RootIsNotResolved`).
- `CallsGoDown` assumes that there are finitely many programs. Each step of a call lowers
  a tuple of four natural numbers in the lexicographic order: the programs not visited,
  the stages of the call ahead, the height of the stack, and the imports left at its top
  (or the sources left to add). This is the safety half of `CallsEnd`; the other half is
  that the walk goes on, which is fairness.

`NetworkClient_proofs`:

- `TypeCorrect`: needs `Counted`, the range of the loop counter where it is used.
- `WaitsAsTold`: needs `Placed`: the wait that a 429 asked for is over when the timer of
  the backoff is, and it is over at every label from which a request goes out.
- `GetsKeepPromise` and `PostsAreSentOnce`: the three refinements of RetriedCall. The
  invariant `Histories` ties the log of a call to its loop counter, as in
  ProvableClient; `Moves` says which steps of RetriedCall a step of the caller can be,
  and `Frame` that the other callers stutter. The theorem on GETs assumes that
  `MaxRetries` is not negative (section 3 says what happens otherwise).
- `RequestsAreBounded`: from these refinements and `RetriedCall_proofs`. A GET that is
  under way has had at most `MaxRetries` requests before, all of them in vain; a
  transaction that is under way was not submitted before.
- `LimiterHolds`: for every rate and any number of callers. `Spread` says that no two
  callers wait for the same tick and none longer than for all that is promised; `Budget`
  that what was sent in the last `i` units of time, the callers whose token is there
  (`Due`, finitely many) and the tokens at hand are together at most `Rate + (i - 1)`.
  When time passes, `Spread` lets at most one more caller become due, and only if no
  token comes to the bucket.
- `GetsAreShort`: the same of a GET, with a clock `spent` that stands still in the queue
  of the limiter. If no backoff is longer than `longest` and no `Retry-After` than `asked`,
  it is over within `Timeout + asked + MaxRetries * (longest + Timeout + asked)`
  (`SpentInv`); so the waits of the loop do not add up to more than its parts. It assumes,
  as `GetsKeepPromise`, that `MaxRetries` is not negative. The queue is left out because the
  model bounds it (`MaxPromised`) and the code does not.

`ProgramManager_proofs`:

- `TypeCorrect`: `TypeOK` is not inductive. That the count of slots stays a number below
  its bound needs `Slots`, which ties the semaphore to those who hold a slot.
- `ConcurrencyIsBounded`: from `Slots`, as holders are counted. Of the batch it
  says what the guard of BoundedBatch says, so no run checks it beside
  `BatchKeepsPromise`.
- `SuccessesWereBroadcast`: needs `Reported`, for what a call has been told by the
  prover and has not returned yet.
- `ResultsArePlaced`: needs `Placed`, for outcomes that are recorded or about to be. It
  too is a part of what `BatchKeepsPromise` says.
- `KeysAreRight`: needs `Keyed`: what was copied is the key that the caller gave, a torn
  one, or the key of an account that the manager had between the call and the copy; a torn
  one is not submitted with, as it does not parse.
- `ManagerKeepsPromise`: the refinement of BoundedBatch, from `Slots`, `Placed` and
  `Unrecorded`: a request has no outcome until its execution ends, and none in the results
  until it is recorded; only a batch that runs has executions in hand.
- `BatchesAreFinite`: the safety half of `BatchEnds`. Every execution takes at most
  `MaxRetries + 9` steps (`work` counts them and nothing reads it), and as long as the
  batch runs and is not done, one execution that has a slot can be worked on, or one waits
  for a slot and there is one. `Counted` bounds the steps left at each label.

`Account_proofs`, about the composition of Bridge and Account:

- `TypeCorrect`: `TypeOK` is inductive by itself.
- `ErrorsAreErrors`: an error or a panic with a message is an error in Go, whatever the
  message quotes, and nothing else is; one with an empty message is no error, which is
  what the code does, but neither it nor any other failure is taken for a value or a
  verdict. It rests on the string's way through `ErrorResult`, `ToCString` and
  `ResultOrError`: an unescaped quote or a NUL would break it. `NothingIsLeaked` is about
  the strings themselves. Both need `Shapes`, which ties the function of a call, the
  strings lent to it, the message and the result to its label and its outcome.
- `ProcessLoadedOnce`: inductive on top of `TypeOK`, and left alone by the steps of an
  account that are not in the bridge (`ElsewhereLoaded`).
- `CallsIsolated`: needs `Untouched`: nothing is ever added to the original process, so
  every clone is taken of an empty one.
- `ReadersSafe`: needs `Lifecycle` (one goroutine makes the account, a live account has
  its key, only one that is not finalized is in use), `Unread` (who has no copy) and
  `CopiesAreWhole`: who may use a live account again has read whole bytes only.
- `SignsWhole`: needs `Signing`, that a signing call carries the whole key or a text
  that Rust refuses, also when its caller was the last user.
- `KeepAliveSuffices`: of an account that nobody zeroizes. It is about the finding
  `account_payload`, and says where the fault is: in a behaviour whose callers hold the
  account until the key is sealed (`KeepsAlive`, an assumption on behaviours that the
  code does not meet), every payload decrypts. Needs `Sealing`.
- `CallsAreFinite`: the safety half of `CallsReturn`. A call takes seven steps at most
  until it is over (`turns` counts them), also when it loads the process or finds it failed
  or poisoned. A call that waits for a process which is loading waits for another one that
  loads it (`Attended`), so none waits in vain. `Counted` bounds the steps left at each
  label: they never grow, because the process is never unset again (`Processed`).

Every safety invariant and action property that a passing run checks is stated by a
theorem. Only model-checked: liveness under fairness (`CallsReturn`, `CallsEnd`,
`BatchEnds`, `WaitEnds`, `CancelReturns`), which is beyond the prover, and what the
finding runs say. Of `CallsReturn`, `CallsEnd` and `BatchEnds` the safety half is proved
(`CallsAreShort`, `GetsAreShort`, `CallsAreFinite`, `CallsGoDown`, `BatchesAreFinite`):
what is left takes a bounded number of steps, or a bounded time, and a caller that waits
for another one (for the mutex, a slot, the process) waits for one that is at work. That
the next step is then taken is the fairness that TLC's runs assume. The clocks and
counts of these theorems are history variables: they are declared with the proof, take
their value from the step and constrain none (`TimedSpec`, `CountedSpec`).

## 5. What is not modelled, and why

- The contents of tokens, keys, proofs, programs and transactions: no property depends
  on them. The JWT's parsing is reduced to the claim it finds, or none.
- Overflow of `baseDelay * 2^(k-1)`: the waits before it take centuries.
- What hashes, sealed boxes, signatures, records and password encryption compute: pure
  functions of cryptographic libraries. Their calls through the bridge are modelled.
- `zeroize_secret.go`: behind a build tag, and nothing calls it.
- The four key slices of an account one by one: they are zeroized in a fixed order and
  read independently, so each behaves as the one in the model.
- `credits.aleo` as the target program: snarkVM treats adding it as nothing to do, and
  it has no imports.
- The calls of the manager that only forward to the node client.
- `KeyCache` is stored and never used by the code.
- Build files, CI, the installer.

## 6. Plan

Done, in this order: RetriedCall and ProvableClient (the core: concurrency, retries,
expiry), BlockIterator, ImportResolver, NetworkClient, ProgramManager, Bridge, Account.
Every part of the code with a state of its own has its module.

Proofs: all the safety properties that the passing runs check, the refinements of
RetriedCall and BoundedBatch, what follows from RetriedCall for its implementations, and
bounds on the time or the steps of every call, GET and batch. Liveness itself is out of the
prover's reach.

Runs are few on purpose: new modules get one or two, and a run that a stronger one
subsumes goes.
