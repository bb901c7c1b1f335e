# Formal models of the Kuira Midnight FFI

`kuira-crypto-ffi` is the native library of an Android wallet. It wraps the
Midnight ledger crates behind C functions, which a JNI layer in C calls from
Kotlin. This directory holds TLA+ models of its stateful parts, TLC
configurations that check them on small instances, and TLAPS proofs that hold
for every size.

Line numbers are those of the files under `src/src/` unless a path is given.

## 1. Inventory

| Part | State it keeps | Operations | What makes it hard |
| --- | --- | --- | --- |
| Contract state pool, `contract_ffi.rs` | `STATE_POOL` (map of handle to `ContractState`, one process-wide mutex), `NEXT_HANDLE` (atomic) | `contract_state_create`, `_create_with_nulls`, `_clone`, `_serialize`, `_read_fields`, `_set_operation`, `_free`, `contract_query`, `contract_assemble_call_tx`, `contract_assemble_deploy_tx` | calls lock more than once and work on a snapshot in between; the mutex is not re-entrant; handles outlive their entries |
| Circuit execution, `contract_ffi.rs` and its callers | two handles per circuit: the initial state and its working clone | clone, a sequence of queries, assemble | the transcript must replay on the initial state as it ran on the clone |
| Call assembly, offers, proving, balancing: `contract_ffi.rs`, `prove_ffi.rs`, `balance_ffi.rs` | none beyond the pool; rayon's global pool; key files | `assemble_call_tx_impl`, `zkir_prove_transaction_local`, `sign_proven_offer_impl`, `balance_proven_transaction`, `seal_proven_transaction` | everything is promised from parameters fetched at the start and checked by the node later; a signature made before proving is void; two clocks |
| Dust wallet, `dust_ffi.rs`, `balance_ffi.rs`, `serialize.rs`, `zswap_ffi.rs` | `DustLocalState` behind a raw pointer, a checkpoint of it, the caller's skip set | create, replay, serialize, deserialize, three ways to spend, list nullifiers | a coin must be spent once although the event of its spend comes late or never and marks are lost |
| Event replay, `dust_ffi.rs`, `zswap_ffi.rs` | a clone of the state, a chunk of events | replay from memory and from a file, for dust and zswap | chunks of 500 events against one pass, failure in the middle |
| Shielded wallet, `zswap_ffi.rs` | `ZswapLocalState` behind a raw pointer | create, replay, serialize, select, spend, outputs, offers, merge, build | each operation answers with a new state: overlapping ones overwrite each other |
| Unshielded signing and serialization, `serialize.rs`, `transaction_ffi.rs` | none | `get_signing_message_for_input`, `sign_data`, `serialize_unshielded_transaction[_with_dust]` | what is signed must be what is submitted: order, binding randomness, TTL |
| Dust registration, `serialize.rs` | none | `dust_filter_unregistered_night`, `build_dust_registration_transaction` | the registration pays its own fee from dust the UTXO may not have generated yet; the filter reads a lagging state |
| Keys, `transaction_ffi.rs`, `lib.rs` | keys behind raw pointers | create, sign, verify, free, derive | ownership across the language border |
| JNI glue, `jni/kuira_crypto_jni.c` | none | one wrapper per function | every error path must release and zero what it acquired |

They interact as follows. A contract call runs on the pool (clone, query,
assemble), its unproven transaction goes through the prover, an unshielded offer
in it is signed, and `balance_proven_transaction` adds a dust spend, proves it,
seals both and merges them. An unshielded payment is signed input by input and
serialized with a dust spend in one call, and a shielded one is built from an
offer with dust spends of its own. All three share the dust state, and with it
the question which coins are still unspent. Both wallet states follow the chain
by the same kind of replay. Registration makes the NIGHT generate the dust the
others spend.

What makes each part correct:

* *Pool*: handles are fresh and never shared by accident; a removed entry stays
  removed; no update is lost; no call waits for itself; every call returns. In
  one sentence: it behaves as if each call happened at once.
* *Circuit*: the transcript leads from the data of the initial state to the data
  of its working clone, so the replay refuses an honest one only for a read of the
  context.
* *Call*: one the library supports, sent in time, is accepted by the node.
* *Dust wallet*: no two transactions that spend the same coin are ever out, and
  none that spends a coin the node has seen spent (error 115); a nullifier
  leaves the skip set only when its spend is confirmed; a spend once replayed
  and saved stays replayed.
* *Replay*: chunks and streaming do what one pass over all events does, or
  refuse and leave the caller's state alone.
* *Shielded wallet*: no coin is in two offers; neither a sync nor a transfer
  takes back what the other did; what the wallet shows can be selected.
* *Signing*: the signature at each position verifies against the input there.
* *Registration*: no UTXO twice, no transaction that cannot pay, and an end.
* *Glue*: everything acquired is released once, secrets are zeroed on every path.

## 2. What is modelled

| Module | Models |
| --- | --- |
| `AtomicStatePool` | what callers of the pool are promised: a map on which each call is one step |
| `ContractStatePool` | the pool, one action per critical section; implements the former |
| `CircuitRuntime` | a runtime per thread, composed with the pool |
| `CallPipeline` | a call from assembly to the node's verdict, time and fees, the thread pool |
| `SpendOnce` | what a wallet owes the node: a coin is in one transaction at a time and in none once spent |
| `DustWallet` | dust coins, marks, checkpoint, skip set, three ways to spend, the chain; implements the former |
| `SinglePassReplay` | what callers of a replay are promised: one `replay_events` or a refusal |
| `EventReplay` | the four replay functions, line by line and chunk by chunk; implements the former |
| `ReplayPass` | what both take from the ledger: the result of one `replay_events` |
| `ShieldedWallet` | shielded coins, transfers and syncs that overlap, checkpoint, the chain; implements `SpendOnce` |
| `UnshieldedTransfer` | signing requests, signatures, serialized transactions, the node's checks |
| `DustRegistration` | the loop of filter, build, wait, against a chain and a dust state that lag |

`...Proofs` hold the theorems about a module, `MC...` the instance TLC checks.

### `ContractStatePool` and `AtomicStatePool`

`ContractStatePool` has one action per critical section. A call that locks once
is one action. `contract_query` is split into `QueryRead` (clone the state out,
release) and `QueryWrite` (run, lock, insert); `contract_state_clone` into
`CloneRead`, `CloneTake` (the `fetch_add`) and `Insert`; create into
`CreateTake` and `Insert`. `contract_assemble_call_tx` holds the mutex while the
transcript is replayed: `AssembleLock`, `AssembleUnlock`. `call[t]` holds the
locals of the call thread `t` is in, `given` the handles returned to each
thread, `gone` the handles ever removed. Contract data is abstract: the
constants `Traps`, `Effect` and `Result` say what running a program does.
`contract_query` inserts before it encodes its answer, so `QueryWrite` may end
in an error although it has written; deploy removes its entry before it decodes
the verifier keys, so `Deploy` may too. A panic is not modelled: `lock_state_pool`
recovers a poisoned mutex, and the state it guards is never left half written.
`contract_state_pool_len` (241), which only counts the entries, is left out.

`Shared` says whether a thread may use handles that another was given. The
library has no rule and no test shares a handle between threads. The tests that run a
circuit end to end (2845-2856) clone a handle of their own for it, which is
`Shared = FALSE`; `Shared = TRUE` is everything else the signatures allow.

### `CircuitRuntime`

Composes a runtime per thread with the pool (`EXTENDS ContractStatePool`): clone
the handle of the state (`Begin`), query the clone (`Op`), assemble with the two as
initial and working state (`Assemble`). The roles of the handles are those of the
tests' `params_with_local_handles` (2845-2856). The runtime is not in the
repository; that it makes one `contract_query` per ledger operation is what the
comment at 2958-2965 says of it, and `Op` and `OpDone` are marked external. The
transcript is the sequence of programs and results; `Replays` says that it is
accepted on the initial data in the replay's context. `ReplayResult` is what a
program reads there; it differs from `Result` for a program that reads its context,
because the two contexts differ (286-302 against 1357-1371). The run has such a
program (`clock`), and transcripts with it are refused; `HonestCallAssembles` is
about all the others (`ReadsNoContext`), whatever ran before or beside them. Other
calls of the threads run between the steps.

### `CallPipeline`

One call at a time: `Fetch` (parameters, price, tip), `Assemble`, `Prove`,
`SignProvenOffer`, `Balance` and `BalanceDone` (or `BalanceFree`, or `Seal`),
`Submit`; each library call also with its failure, which leaves the caller the
transaction it had. `Tick` moves the chain's time and price at any point in
between. A transaction is its stage, its TTL, its offer, the signature of the
offer and the dust intent. A signature is the data it was made over, and
`DataToSign` says what of the transaction that is; proving turns the preimage in
it into the proof.

`Window`, `MergedTotal` and `DustTtl` are the arithmetic of `balance_ffi.rs`,
`OfferOf` and `Supported` the choices of `assemble_call_tx_impl` (funding before
withdrawal; a circuit that moves value needs some offer, which is not looked
into). `Accepts` is the node: TTLs within `global_ttl` (182), fee and offer in
balance (138), signature (175), as the comments of the source report them. The
ledger's fees are constants with the assumption the code relies on: they grow
with the price, and a merge costs no more than its parts.

A caller's clock may be ahead of the chain (`lead`). A caller may also leave out
the TTL, the tip, or supply the wrong offer: `Jobs` holds every mix, and
`TimelyCallAccepted` says which of them the node is sure to take.

`rayon` is the process-wide pool, which `JNI_OnLoad` caps before anything else
can use it; `init_proving_thread_pool` afterwards finds it sized.

### `DustWallet`

The chain is a count of dust events with, per coin, the event that created it
(`born`) and the one that spent it (`gone`). A `DustLocalState` is a position in
that stream and a set of marked coins: `Tracked(p)` are the coins a state at `p`
has, `Selectable` those `utxos()` lists, since marked ones are left out. `disk`
is the last checkpoint, `skip` the caller's durable set of nullifiers, `spent`
the node's nullifier set, `built[c]` the transactions out that spend `c`.

`Balance` is `balance_proven_transaction` up to its return: selection and
write-back. `ret` holds the result until the caller records it (`Record`); a
crash in between loses both. A call that fails anywhere changes nothing, and so
does one on a network without fees; both are stuttering steps.
`SerializeWithDust` marks and ignores the skip set. `BuildShielded` is
`zswap_build_shielded_transaction_with_dust`: it spends the coins at the places it is
told, knows of no skip set, and drops the states after its spends, so that nothing
marks its coins. What protects them is `SendShielded`, its caller, who chooses a
coin that is not in the skip set and records it; it is not in the repository and is
marked external.
`create_dust_spend` is left out: it changes no state (the comment at
`dust_ffi.rs:793` asks the caller to save one it is never given), and what it
returns cannot enter a transaction here. The constants say who uses the library
and how:

* `Paths`: which of the three ways to spend are used;
* `PruneWhen`: what the caller waits for before it prunes: a state without
  marks, a saved state, a state at the tip of the stream;
* `Forgets`: how marks get lost: a crash (back to the checkpoint), a lapse
  (`pending_until` has passed);
* `Lossy`: whether the event of an own spend may never come.

`Spending` maps this to `SpendOnce`: a coin with `built[c] > 0` is a transaction
of its own that is out, and the node's set is `spent`.

Values and times are left out: which coin can pay is a free choice. So are the
Merkle trees, and the re-keying of old checkpoints. Calls on one state pointer
are taken to be serialised by the caller, as the `&*ptr` in the code demands.
The ledger crate is not part of the repository: that a replay keeps the marks of
coins it does not remove, and that marks lapse, are assumptions about it.

### `EventReplay`, `SinglePassReplay`, `ReplayPass`

A call reads lines (`ReadLine`, `RefuseLine`, `FailToRead`), replays batches
(`ReplayBatch`, `RefuseBatch`) and answers (`Finish`). `route` says which of the
four functions it is, and they differ: the dust file is replayed while it is
read, the zswap file in chunks after it was read, the strings in memory at once;
only the zswap file trims its lines; only the strings are split at the event
tag, so an event that holds the tag replays from a file and is refused from
memory. `Apply` is what the ledger makes of an event; `ReplayPass` chains it.
`SinglePassReplay` is the promise of the doc comments (`dust_ffi.rs:616-619`):
`EventReplay` implements it with `base` and `answer` mapped to themselves.

### `ShieldedWallet`

States as in `DustWallet`: a position and `pending_spends`. A spend answers with
a new state, so a transfer carries a chain of them (`view`) and installs the last
one with `MakeOffer`; a sync carries the state it was given (`sync`) until it
installs its answer. `Serialised` is the rule that only one of these works on
the state at a time, `SaveFirst` the rule that a transaction leaves after its
spends were saved. The library enforces neither; both are necessary, and with
either one off TLC finds a coin in two transactions. `Selections` is the greedy
loop of `zswap_select_coins` as the set of answers it can give, ties included.
Outputs are left out: they touch no state. `Spending` maps to `SpendOnce`: what is
out are the coins of each transfer whose stage is `out`, and spent are the coins gone
from the chain. A transfer without inputs is nothing to `SpendOnce`.

### `UnshieldedTransfer`

The caller asks for a message per input, with the inputs listed in any order at
each call, has it signed, and serializes with or without dust. `GetMessage`
draws the binding randomness if the caller has none. An intent is what is signed
of it: sorted inputs, TTL in whole seconds, binding. A transaction maps segments
to intents, so that a dust intent merges only into a free segment. `WellFormed`
is the node's check.

### `DustRegistration`

`live`, `age`, `generating` are the chain's side, `seen` and `marked` what the
wallet's dust state lists. `Filter` names `live` minus what `utxos()` lists;
`Build` takes the best of the list by `Generated` (the ledger's
`generationless_fee_availability`, capped) and passes or fails the maturity gate;
`Accept` is the node with a fee that has moved since. `Guards` are what the
caller waits for before it filters: its last registration settled, its state
synced, no marks; without any one of them TLC finds a UTXO registered twice. A
`Sync` brings every event but not the end of every mark: those of balances still in
flight stay (`kept`). The builder spends one UTXO and makes one of the same value,
which is why a purse keeps its name and loses its age.

## 3. Runs

| Run | Question | Bounds |
| --- | --- | --- |
| `pool_shared` | if handles are shared: does every call return, and what can bring a removed entry back? | 2 threads, 2 handles, 1 data value |
| `pool_shared_freed` (violated) | does a freed handle stay gone if handles are shared? | 2 threads, 2 handles, 2 data values |
| `circuit` | are transcripts right and accepted, and is the pool atomic below them? | 2 threads, 3 handles, 2 data values, 2 queries per circuit, 3 programs (one may trap, one reads its context), 1 operation name |
| `call` | is a proper, timely call accepted? does a signature stay valid? is a core left? | time 0-5, price 0-3 (margin one rise), `global_ttl` 1, 2, 3, 8 around a margin of 2, clock lead up to 2, every mix of offers |
| `dust_durable` | is a coin spent once, with crashes, lapses and lost events, on the two paths that heed the skip set? does a settled spend stay settled? does the node see each coin pay once? | 3 coins |
| `dust_session` | do the marks alone suffice for balance and serialize if none is lost? | 3 coins |
| `dust_prune` (violated) | is what `dust_current_nullifiers` does not list confirmed? | 3 coins |
| `replay` | does every route do what one pass does, on good and bad input? | 4 events, chunks of 2, all inputs of up to 3 lines of 9 kinds, in-order files of up to 5 lines |
| `shielded` | is a coin spent once, also as the node sees it, is nothing lost, can the balance be selected? | 3 coins of values 1, 2, 2; 2 transfers; amounts 1 and 3 |
| `unshielded` | does a serialized transfer verify? | 4 UTXOs of 2 owners, 2 TTLs in the same or another second, 2 segments, 3 random values |
| `unshielded_owners` (violated) | and if several owners sign in any order? | the same |
| `registration` | no UTXO twice, accepted once matured, refused only if none can pay, and an end | 3 purses of values 1-3, fee 1-3 with margin 1, ages up to 3, 1 transfer |

Why they are enough. Two threads suffice for the pool's races, each of which
needs one call in flight and one that overtakes it; three handles let one be
freed and another be created while the first is still in use. A double spend
needs one coin, two users and a loss in between; the second and third coin give
the wallet an alternative and let change come back. The window of the TTL has
three cases (far above the margin, above it, within it) and a degenerate one, and
`Ceilings` has one of each. Replays need a full chunk, a partial one, an empty
one and a failure in the second: two chunks of two have them all. The purses are
one that can never pay the highest fee, one that can when it is full and one that
can earlier.

Bounds on counters: `HandleLeft` refuses to begin a call that would exceed
`MaxHandle`; `MaxBuilt` bounds transactions per coin and is never reached where
`NeverDoubleSpent` holds; `MaxTime`, `MaxPrice`, `MaxSkew`, `MaxRandom`, `MaxAge`,
`MaxFee` and `MaxMoves` do what they say. In `DustRegistration` a UTXO generates no more after
`MaxAge`, where the code's cap lies for all but the smallest fees. The handle
counter wraps after 2^64 calls in the code, which no process reaches.

Every property has at least one slip: an operator (`CloneReadKeepsLock`,
`EveryCandidate`, ...) that changes one definition the way a plausible mistake in
the code would, kept just before that definition or in the section of slips of
its module. With the slip in place of the definition, the run finds the property
violated. No slip is part of a specification.

### Fairness

Safety runs assume none.

* `pool_shared` uses strong fairness of `Continue(t)`, the steps of a call that
  has begun: a native thread is scheduled, and it is not passed over for ever
  when the mutex is let go. Weak fairness would not do, as other threads can hold
  the mutex again each time it looks. That is an assumption about the platform: Rust's
  `Mutex` makes no promise of its own. Nothing forces a thread to begin a call.
* `replay` uses weak fairness of `Step`: a call waits for nobody.
* `registration` uses weak fairness of time, building and what ends an attempt,
  which are the caller's polling loop and the node's answer, and of `Sync({})`: now and
  then a sync finds no balance in flight, since each is accepted or its mark lapses
  (`pending_until`). Syncs that keep marks are free to come between. Filtering
  and acceptance need strong fairness, as other balances mark coins and fees move
  in between: a caller that may filter again and again does so once, and a
  registration that would be taken again and again is taken once.
* The wallets have no liveness property: what drives their syncs, saves and
  prunes is Kotlin code outside the repository.

### What the violated runs show

* `pool_shared_freed`: `contract_query` writes its snapshot back without looking
  whether the handle is still there. A handle freed meanwhile comes back.
* `dust_prune`: the comment of `dust_current_nullifiers` takes "not listed" for
  "confirmed spent". A coin just marked is not listed either, so a caller that
  prunes right after a balance drops the nullifier it has just recorded, and
  keeps only the mark. `dust_durable` shows what is enough instead: prune when
  the state is synced, saved and without marks.
* `unshielded_owners`: serialization sorts the inputs and leaves the signatures in
  the order they were passed. Inputs of one owner do not notice, since all sign
  the same data; inputs of several verify only when listed in the ledger's order.

Some properties hold under a hypothesis that callers must meet, and fail without
it: `SerializeWithDust` together with a lost mark (it takes no skip set), a
transcript that reads its context, a call without TTL or tip, a shielded wallet that
is not saved before sending, a registration filtered before the last one settled.
The hypothesis is a constant of the module or a conjunct of the property.

## 4. Proofs

`tlapm` checks every step of the eight proof modules. They hold for any number
of threads, handles, programs, coins, transfers, UTXOs, events and purses, and any
chunk size, fee, margin and TTL ceiling.

### The pool and its runtimes

`ContractStatePoolProofs`. `PoolInv` is the type invariant with what `TypeOK`
leaves out: fetched handles lie below `next` and are pairwise different, entries
and given handles too, and the holder of the mutex is in `assemble`. Freshness is
not inductive without it, for it must be known of handles that are fetched but
not yet inserted. From it: `TypeCorrect`, `HandlesAreFresh`, `HandlesAreDisjoint`,
`NoSelfDeadlock`. With `~Shared`, `OwnInv` adds that a call in flight works on a
handle its own thread was given, hence nobody else's steps reach its entry; this
gives `FreedStaysGoneWhenOwned`, `SnapshotCurrentWhenOwned` and the refinement
`PoolIsAtomicWhenOwned`.

Three theorems hold however handles are shared. `RevivedByWriteBack`: an entry that
was removed comes back only when a query that had read it before writes back, so
line 308 is all there is to `pool_shared_freed`; `pool_shared` checks the same
(`OnlyWriteBacksRevive`). `CallsOnlyAdvance`: each step of a
call brings it nearer its end (`StepsLeft`), at most two steps of its own away, and
nobody else's step moves it. `CallsMayGoOn`: what a call waits for is the mutex and
nothing else, and then another thread is inside the replay of an assemble; in
particular the bound on handles never stops a call that has begun (`EnoughHandles`).
The last two are what of `CallsReturn` can be said without fairness.

`CircuitRuntimeProofs`. `CircInv` ties the transcript so far to the data of the
two handles. `RunAppend` is its lemma: a run extended by one query. From it
`TranscriptsMatchThePool` and `HonestCallsAssemble`. That a runtime takes no step the pool does
not have needs less, only that its calls name handles it was given (`UsesInv`), and
holds of shared handles too: `CircuitTypeCorrect` and `RuntimesUseThePool`, which
carries `FreshHandles`, `DisjointHandles` and `NeverWaitsHoldingLock` over from the
pool, on which `pool_shared` checks them, to the composition; `RuntimesUseAtomicPool` does
so for those that need `~Shared`.

### Coins

`DustWalletProofs`. `DustTypeCorrect` and `SettledCoinsStaySpent` need only that
a coin is gone only when spent. `SkipInv`: every coin that may have been spent is
in the skip set, or hidden by the state and, if there are crashes, by the checkpoint
a crash falls back to, which is never ahead of the state (`BornInv`). A coin is hidden
when it is gone or, as long as marks do not lapse, marked. What a caller must wait for
before it prunes depends on how marks are lost, and `Careful` asks for no more:

* marks are never lost: nothing, whatever the stream leaves out;
* they lapse: a state without marks, as the list leaves out a coin whose mark will go;
* a crash takes them: a saved state, which the crash comes back to, and a synced one,
  for a state from before a coin's creation does not list it either;
* both: all three.

From it `SkipSetPreventsDoubleSpends`, for the two paths that heed the skip set. With
a guard dropped, TLC finds a double spend in each case. `PruneDropsConfirmedSpends`
is about any wallet and needs other guards (`ListsEveryCoin`): no marks and, with
crashes, synced; the rest of the state may be unsaved. `MarkInv`: every such coin is
marked or gone from the state; it gives `MarksPreventDoubleSpends` for one session of
the two paths that mark.

`CarefulWalletSpendsOnce` and `OneSessionSpendsOnce` are the refinements of `SpendOnce`
under the same hypotheses. One lemma (`SpendingStep`) serves both: a wallet that
never double-spends maps each of its steps to one of `SpendOnce` or to none.

`ShieldedWalletProofs`. `WalletInv`: no state is ahead of the chain, and its pending
coins were born on it. `SerialInv`, under `Serialised`: whoever works on the state
started from the current one and has only added to it; with it comes
`SerialisedUsersLoseNothing`. `HeldInv`, under `SaveFirst` as well: what an offer or
a transaction holds is unspent and pending in the wallet's state, in the saved one too
once it has left, and what is being selected is neither. Two offers cannot be shown
disjoint without the last part. From it `SavedSpendsAreUnique` and the refinement
`SavedWalletSpendsOnce`.

`BalanceCanBeSelected` needs a theory of sums. `Total` folds over a set, which comes
down to a recursion over the finite sets of coins. That the recursion has a value for
each of them, that taking a coin out takes its value away, and that more coins are
worth no less is shown by a least set for which it fails, as the subset order is
well-founded (`LeastSubset`). The greedy loop then stops at a least set of the
smallest coins that covers the amount (`SelectionExists`), and there is one
if and only if all coins together do (`SelectionsCover`).

### Replays

`EventReplayProofs`. `ReplayInv`: the types, that the copy is what one pass over
the events replayed so far makes of the caller's state (`Caught`), and that no
call has left anything behind for the next (`Fresh`). Its lemma, `PassesCompose`, is that two passes in a
row are one over the concatenation. From it the types, the refinement `ChunksAreOnePass`,
and `StreamingHoldsOneChunk`. `ChunksRefuseNothingGood` needs the converse too
(`PassesSplit`): a pass over the whole goes through every place where a chunk ended.
It follows because events leave no choice, and a first place where two passes differ
cannot exist; well-founded order stands in for induction. For the same reason
(`PassesEndAlike`) there is one state the events lead to, and no route, chunk size or
boundary can answer another: `AnswersAreDetermined`. `ReplayWorksOff` is what of
`CallsFinish` can be said without fairness: each step takes something off `Work`, which
a call begins with and nothing adds to.

### Calls, transfers, registrations

`CallPipelineProofs`. `CallInv`: what a transaction promises (TTLs, fee, offer)
is computed from the parameters the caller fetched. `WindowFits` is the lemma on the
window for every ceiling, those within the margin included; `FeeCovers` that the fee
covers every price up to the margin; `ProperIsBalanced` that a proper call has the
offer it needs. Together they give `TimelyCallsAreAccepted`. A signature stays valid
because none is put on a transaction before it is proved (`Unsigned`).

`UnshieldedTransferProofs`. `SortedSorts`: each finite set of UTXOs has an ascending
listing, found by taking its last element away; the subset order is well-founded.
`SignInv`: signatures are over one intent; `SentInv`: what was sent is the transfer that
was signed, whatever dust intent was merged into it. `InPlaceVerifies`: of such a
transaction the node's check comes down to whether each signature stands where an
input of its owner does. Hence `OnlyTheOrderCounts`, by which the finding of
`unshielded_owners` has no other cause, and `SerializedTransfersVerify`.

`DustRegistrationProofs`. `ListInv`, under `Patient` (all three guards): no listed
UTXO generates. `GateInv`: what passed the gate has generated enough for the fee it was
built with and the margin, and time only adds to it. `HasBest`: a list that is not empty has a best
UTXO, again by the subset order, so a refusal speaks for all of them.

### What they rest on

Assumptions on constants are the `ASSUME`s of the modules, which TLC evaluates on
every run, and the hypotheses named in the theorems: `~Shared`,
`Careful`, `ListsEveryCoin`, `OneSession`, `Serialised`, `SaveFirst`, `Patient`. The
run of each property meets the hypotheses of its theorem.

Only model-checked: the liveness properties (`CallsReturn`, `CallsFinish`,
`LoopEnds`), as fairness is out of the prover's reach, and the violated ones. Every
other property of a run is stated by a theorem. Theorems that state a property of no run
(`CallsOnlyAdvance`, `CallsMayGoOn`, `AnswersAreDetermined`, `ReplayWorksOff`,
`OnlyTheOrderCounts`) were put to TLC on the same instances before they were proved; they sharpen what the runs show.

## 5. Not modelled, and the plan

* The value codecs of `contract_ffi.rs` (commitments, big integers, aligned
  values) and key derivation: conversions without state, held by unit tests
  against reference values.
* Cryptography, SCALE encoding and the ledger crates: assumed where a constant or
  a comment above says so.
* `calculate_transaction_fee`: changes no state and quotes a form of transaction no
  function here produces. The transaction that `assemble_deploy_tx_impl` builds:
  only its effect on the pool is modelled.
* The JNI glue: straight-line code per method (acquire, call, zero, release);
  it keeps no state between calls. One slip is known: a log line
  reads a native string after its release (`kuira_crypto_jni.c:722`).
* Ownership of pointers (double free, use after free, two threads on one state):
  the library keeps no table of them that a property could speak of.
* `zswap_build_shielded_transaction` with a `dust_tx_hex`: both put an intent at
  segment 1 (`zswap_ffi.rs:1305`), which is visible without a model.
* Build files and fixtures.

Next, in order of value: the splitting of a transcript into a guaranteed and a
fallible part (`assemble_call_tx_impl` leaves it to the ledger's
`partition_transcripts`), once the node's behaviour between the two is in a model; a
composition of `CallPipeline` with `DustWallet`, in which a refused call leaves its
coin in the skip set; and a caller that drives syncs and saves, with liveness for the wallets,
when the Kotlin side is at hand.
