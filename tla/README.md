# A model of electric-router

electric-router finds the route that turns an amount of one token into the most
of another over Curve-style pools, and executes it. This directory holds TLA+
modules for the parts of it where order, partial failure, stale state and
integer rounding decide whether the answer is right, TLC configurations that
check them on small instances, and TLAPS proofs of what the contracts, the
encoding between them, the quoter and its exact models, the session, the routing
pipeline, the realization of a flow as legs, the local EVM, the model gate and
the transport promise whoever relies on them.

`PROJECT.json` is the index: components, runs, one deliberate fault ("mutant")
for every checked property, the source lines of every definition, findings,
hazards and theorems. An operator whose comment starts with `Slip:` is the body
of such a fault; nothing in a model uses it.

## 1. The system

### How the parts interact

    RPC node ──(batches)── transport ── LocalEvm ── Session ── pipeline
                                          │ revm       │          │
                                          │            │      solver, split search
                     RouteQuoter (code) ──┘            │          │
                          ▲                            │       realize
                     QuoterClient ─────────────────────┘          │ legs, slots
                                                              routecall
                                                                  │ words, bounds
      user ───────────────────── transaction ──────────── ElectricRouter ── pools
      fork tests ─────────────── execute_route ────────── RouteExecutor ─── pools

A session warms a local EVM with the state the pools need, prepares a pair,
quotes an amount (solver, realization, verification by the quoter contract run
locally) and plans a call: re-read the accounts the route touches, re-price its
legs, encode. The call is sent to `ElectricRouter`, on chain. `RouteExecutor` is
the contract fork tests use to measure what a route really pays.

### Inventory

| Component | Source | State | Operations | What is hard, and what makes it correct |
|---|---|---|---|---|
| ElectricRouter | `contracts/ElectricRouter.vy` | its token balances and allowances | `execute`, ether received | amounts are balances measured at run time; pulls that round, two spellings of one call, skipped legs, leftovers of other calls, reverts. It keeps nothing, answers what its legs earned, pays the receiver, never writes over a standing approval. |
| Route encoding | `core/routecall.py` | none | `fractions`, `tolerances`, `min_rates`, `walk_bounds`, `encode_route`, `calldata` | integer rounding at every step, arguments left to the contract to derive or default. The call means the route; the bounds add up to the promise; a bound does not trip on the route's own rounding. |
| RouteExecutor | `contracts/RouteExecutor.vy` | its balances and allowances | `execute_route`, ether received | second implementation of the quoting walk, over real balances. It executes the walk that was quoted and hands everything back. |
| Quoting walk | `contracts/RouteQuoter.vy`, `core/walk.py` | none between calls | `quote_routes`, `probe_batch`, `raw_batch` | groups of legs out of one slot, shares of what a group opened on. |
| Quoter client and exact quoter | `core/quoter.py`, `chain/exact_probe.py` | none between calls; the models | `quote_routes`, `probe`, `raw` | batches that fail as a whole are halved, and routes walked over models come back between routes quoted on chain. Each answer in its place and unaffected by its neighbours; a pool entered twice is priced as the first entry left it; the loop ends. |
| Local EVM | `chain/localevm.py`, `rust/evm/src/db.rs` | accounts, slots, block hashes; misses; stats | `fill`, `_fetch`, `repin`, sweeps | what is not held reads as zero. No result rests on a zero that was never read without being counted. |
| Session | `chain/session.py` | block, pair, preparation, gas price, local EVM | `warm`, `refresh`, `set_pair`, `quote`, `plan_call`, gas estimate | coroutines that interleave at their awaits over one EVM; state read before an await and used after it; a failure halfway. A preparation belongs to the block the session stands at. |
| Realization | `core/realize.py` | none | `realize` and helpers | order of nodes, cycles, dust, which leg of a group takes the remainder. What comes out is a route of legs that all trade, and everything arrives. |
| Slippage | `core/slippage.py` | none | `divide`, `widen` | branches merge and legs run backwards; no path spends more than the budget. |
| Node map | `core/nodes.py`, `chain/wrappers.py` | token to node | lookups | aliases and wrappers that are one node. |
| Pipeline | `core/pipeline.py`, `candidates.py`, `verify.py`, `refit.py` | a preparation | `prepare`, `route`, `price_legs` | passes that write into routes the ranking still holds. The published figure is the chain's for the published weights, within every limit. |
| Solver, split search | `core/solve.py`, `split.py`, `multiport.py`, ... | none | numeric search | convergence and accuracy. |
| Exact pool models | `core/stableswap.py`, `cryptoswap.py`, ..., `chain/*_params.py`, `exact_cache.py` | parameters at a block, the verdict file | the gate, quotes | verdicts outlive what they were met under, and an outage looks like a refusal. What is computed agrees with its pool; what agrees is computed. |
| Chain caches | `chain/statecache.py`, ... | files | load, save | what is remembered across blocks. |
| RPC transport | `dev/rpc.py`, `core/transport.py`, `codec.py` | the batch ceiling, in memory and on disk | batches | chunks on threads, retries, halving, a measured ceiling. Every call gets its own answer; the endpoint is not asked twice for what it refused. |
| Tools, rendering, Rust port | `dev/`, `core/render*.py`, `rust/` | – | – | – |

The hazards, each at its line and with the properties that cover it, are listed
in `PROJECT.json`.

## 2. The modules

| Module | What it is |
|---|---|
| `TokenLedger` | who holds what, and what a transfer moves: tokens that credit less than was sent (`FeeOnTransfer`) or debit one unit less (`RoundsDown`) |
| `RouterWords` | the packed words of an `ElectricRouter` call and how the contract reads them back |
| `ElectricRouter` | `execute`, one action per step |
| `RouteCall` | `core/routecall.py` as operators |
| `Slippage` | `core/slippage.py` as operators over `RouteCall`'s routes |
| `RoutedTrade` | `ElectricRouter` running the calls `RouteCall` makes, against the walk their bounds were computed on |
| `RouteWalk` | the accumulator walk as an abstract state machine |
| `RouteExecutor` | `execute_route`, one action per step; implements `RouteWalk` |
| `QuoterClient` | batching, halving and giving up; uses `RouteWalk`'s operators for what the contract answers |
| `ExactQuoter` | the walk over the models, composed with `QuoterClient` for what they cannot price |
| `ExactGate` | which pools are computed: the gate, its verdict file, outages and crashes |
| `LocalEvm` | misses, `fill` and `_fetch` |
| `RouterSession` | refresh, set_pair, quote, plan and gas estimate as coroutines |
| `RoutePipeline` | one quote, from the solved flow to the published route |
| `Realize` | a solved flow as an ordered list of legs |
| `Transport` | batches over threads, retries, halving and the remembered ceiling |
| `MC*` | small instances of the above |
| `*_proofs` | theorems and their proofs: `RoutedTrade_proofs` those of `ElectricRouter`, `RouteCall` and `Slippage` too, `RoutePipeline_proofs` those of `Realize` too |

### ElectricRouter

A transaction is one run of the machine from `pc = "idle"` back to it. `Execute`
is the opening: the asserts, the unpacking of all words, the pull, the opening
balance (`.vy` 490–536). Each leg is `SkipLeg` (a share that rounds to nothing),
or `StartLeg`, as many `Allow` as the standing allowance needs, the exchange
(`FourArgExchange` for the first spelling of a crypto swap, which may go on to
`retry`; `RunLeg` for everything else) and `SettleLeg`, the asserts on what
arrived. `Finish` takes the answer, `SweepOne` pays out one entry of `seen`,
`Return` ends. `Revert` restores `snapshot` wherever an external call or an
assert can fail. `Donate` is anyone sending the contract tokens or ether.
Pools are the environment: a pool takes what its token's `transferFrom` takes and
pays anything from 0 to `MaxPay`. `@nonreentrant` makes a nested `execute`
revert, so one transaction is in flight at a time. `donated`, `earned` and `txs`
are history variables; no guard but the bound on `txs` and on donations reads them.

Integer width: balances and products in the contract are checked 256-bit
integers that revert on overflow; a revert is possible at every external call
already, so the model's integers are unbounded. The share and the rate of a word
are 60 and 128 bits wide; `MAX_RATE` is checked by the encoding.

### RouteCall, Slippage and RoutedTrade

`Fractions`, `MinRates`, `WalkBounds`, `EncodeRoute` and `Received` are the
functions of the same names; a route is a record of legs, already realized.
Floating-point tolerances are parts of `SHARE_ONE` (the code's own `1e9`).
`NamedGrants` is what `min_rates` grants out of a budget the caller names:
`Divide` with its backstops, `Longest` path, `Blend` and the bisection, then
`Widen`. What the network solve says each leg drops is any vector of integers,
or NaN: the division promises its result whatever the solve returned.
`RoutedTrade` gives every call the walk its bounds imply and asks what the
contract makes good of it while pools pay anything. `WalkAssumption` says the
walk given with a call is the one its words take; TLC evaluates it on every
call of `MCRoutedTrade`, whose calls come out of `EncodeRoute`.

What a route has to be for all this is in `RouteCall` too. `Executable` says that every token
has a slot of its own, that legs run between the tokens of their slots, through pools
that list them and whose getters answer with them or not at all, from slot 0 to the slot the
output is read from; `InTopologicalOrder`, that nothing is paid into a slot behind the last leg
that spends it, which is the order `realize` emits legs in. `MCRoutedTrade` has TLC evaluate both on its
routes, and `EndsOnItsOutput` on its calls. That the encoding of such a route takes the walk it
promised on, and that its last leg out of every token takes the rest of it (`TakesTheRest`), is
proved (section 4); the run's mutant of `fractions` takes the latter away, and
`NothingStranded` goes with it. Tokens that `realize` puts into one slot because they are two addresses of one
balance (`realize.py:393`) share it and are outside `Executable`.

### RouteWalk and RouteExecutor

`RouteWalk` is the walk `RouteQuoter._walk` and `core/walk.py` both run, with the
pool's answer left open: the accumulator, the open group, the balance it opened
on. `RouteExecutor` does the same over real balances. The refinement
(`ExecutesTheWalk`) maps the abstract accumulator, while legs run, to what the
contract's balance of each slot's token has *grown by* since the call began, and
not to the contract's own `bal`: that its books and the chain agree is part of what
is shown. Pull, answer, and sweep map to `Start`, stuttering and `Answer`; a
revert to `Die`.

### QuoterClient and ExactQuoter

`chunks` is the stack of ranges the recursion still has to send. `Answered`,
`Failed` (then `Halve` or `GiveUp`) and `Garbled` (an answer of the wrong length)
are what one call can come to. A call fails when it exceeds the contract's
limits or the node's gas (`GasLegs`), when a route in it reads a slot off the
accumulator, and, up to `MaxFaults` times, for no reason the client can see.

`ExactQuoter` is `ExactQuoterClient.quote_routes` over it. A route whose legs all
have models is walked a leg a step (`SkipLeg`, `PriceLeg`, `WalkEnds`); one that
cannot be, or whose size an invariant refuses, is a hole for the chain, unless
it enters a pool twice and so is dropped. `SendHoles` asks for the holes in one
go, `Client` is any step of `QuoterClient`, `FillHoles` puts the answers in
their places. The pools of a walk are carried from leg to leg where the code
carries them.

### ExactGate

`build_exact_pools` over `exact_cache`, a pool a step in list order: a trusted
verdict (`Trusted`), a standing refusal (`Passed`), or the gate itself
(`Gated`), with reads and quotes lost singly (`Misses`) or all at once
(`Outage`); then the rate reader's `Rescue`, the mass-refusal rule and `Serve`.
`Exit` may come anywhere, `TornSave` in the middle of the write; `Edit` and `Move`
are new maths and new balances between runs. `Agrees` says at which sizes a
variant gives what the pool gives.

### LocalEvm

An item is an account (code and ether), a slot or a block hash, and the EVM holds
nothing of it, the truth, or a zero put there as if it were the truth. A call is
the sequence of items it reads; it ends early at absent code and at a zero it
cannot stand (`Fatal`), so reading more uncovers more. `Run` runs a stage and
collects misses, `Fetch` and `Raise` are a round of requests of which any part
comes back. `Insert` keeps what the node left out as it was.

### RouterSession

State is told apart by the block it was read at: `slots`, `ether`, `header`,
`model`, `prepared` hold block numbers. A call of `refresh`, `set_pair` or
`plan_call` is a task; each of its actions runs from one await to the next, and
while one task waits any other may run, as on one event loop. `Quote` awaits nothing
and is one action. Each await may raise (`Raise`) but those the code catches (the gas price, and the access
list itself; not the reads of what it lists, `session.py:648`), a sweep may leave any cells
out, and a node may lag `Lag` blocks. `FillMisses`/`FillLands` are `LocalEvm`'s
`fill` reduced to what it leaves: slots read, or still missing and counted. The
gas estimate is the `Granted` mark a plan puts on the allowance cell and
`PlanRestore`, which may fail to take it back. `alone`, `settled`, `refused` and
`asked` are history, and so is `kept`: the refresh found its models said to be of its
block, left them, and one of them was not.

### RoutePipeline

A candidate is a name, its shape (legs, slots, width, risk, whether it splits, whether
it uses a pool twice, what its legs are charged at each value) is chosen at the start, and the chain's answer for it is
chosen when it is asked, once per set of weights. Actions are the stages in the
order of the code: `RealizeBase`, `VerifyBallot`, `VerifyDirect`, `ChooseWinner`
or `NoWinner`, the refit, the scout, the split search, `PriceLegs`. The scout and
the search write weights into a route the ranking still holds, as the code does.

Amounts are integers, and `Float` is what is left of one after the code has had it in a double:
`int(float(x))`, any monotone idempotent map that keeps zero. Scores are of doubles, the scout compares and
publishes them (`pipeline.py:1461`, 1483, 1492), and so does the split search where its quoter is local
(`split.py:800`, 811), while what a batch answered it publishes as it came. So what a published figure owes
the chain differs by the pass that set it (`Carried`), and above 2^53 wei an adopted scout publishes the
nearest double of the chain's answer, not that answer (below, disagreements). `cost` is `shape_cost` as a function of the value,
gas or a proportional premium, of which only that more value is never worth less after it is assumed. `Tolerance` is one
stable leg's gas (`LEG_GAS`) or a part of the best score (`TIE_PARTS` for `TIE_FLOOR`), and has nothing to do with it.
The floor is over `Plain`, swaps and chains of two alike, for both are of kind `direct` (`pipeline.py:1616`, 1775).
Left exact: the rounding of the differences themselves (a score is a double less a double), and a risk that
is a number per route and not a factor on its value.

### Realize

`phase` goes from `cancel` over `prune`, `emit` and `walk` to `done`. `Cancel` peels one
cycle, whichever the search comes upon, and `Acyclic` ends that; `Prune` is one round of
dust, and `Pruned` the check that a route is left, without which the flow it was handed stands.
`Emit(n)` is a whole node, in any topological order (`Due`): what arrives in several tokens is folded to a hub token or left as
spokes, the node's arcs draw shares of it, capped ones first, and the last that has no cap takes
what is left; of equals, one that re-enters a pool by a leg it cannot be advanced past is last (`Reenters`). Shares
round half to even, as `round` does. `EmitTail` is the conversion at the destination. `Walk` is
`_forward_simulate`, a leg a step. Amounts are integers; `Unit` scales a solved
unit of value so that shares in `BPS` are exact where the code's are floats.

Two assumptions on what is handed in are TLC's to evaluate and the proofs' to use.
`FlowAssumption`: at every node but the source and the destination, as much leaves as enters, and what leaves
the source arrives (`Conserves`). The pipeline refuses a flow that breaks Kirchhoff's law
(`pipeline.py:874-902`, `_kcl_detail` at 2209), up to the solver's tolerance; in whole units the model takes it
exactly. `UnitAssumption`: a unit of value is at least one unit of every token, without
which a whole flow could round to nothing.

### Transport

A thread takes a chunk from the queue and posts it: it is answered in any order with
any entries missing (`Answered`), goes unanswered and is retried or given up
(`Stalls`), or is refused and halved (`Refuses`), a refusal that names a
limit lowering the ceiling. A call refused alone was refused by a status code, which `_answer` tells as
`MISSING`, or by an error in the endpoint's words, which it tells as `REVERTED`. The ceiling is remembered, served, or found by stepping down
a ladder. `Restart` is the next run of the program, on the same disk and perhaps another
cap.

## 3. Runs

Passing runs:

| Run | Question | Instance |
|---|---|---|
| `router` | Does the router keep nothing, answer what its legs earned, pay the receiver, and never write over an approval, over several transactions with leftovers between them? | two users, two transactions, three pools and a wrapper that rounds down; direct, split, skipping, round-trip and ether routes, and one call for each opening assert; one donation per token |
| `trade` | Do the bounds of an encoded route add up to its promise, leg by leg, whatever the pools pay? | a diamond, a diamond with a bridge, two visits to one pair, a chain, a leg too small to survive a unit's loss; input of 4–6 units, rates in thousandths |
| `encoding` | Is a bound clear of its quote and as tight as its figures allow; are fractions the split; does the contract read back what was meant; is a named budget spent once on every path? | every quote and input to 40 at eight tolerances; three-way splits of up to 95, three times the scale; every pair of legs of every kind × naming × receiver × bound; four networks (a merge, parallel legs into a shared one, a Wheatstone bridge, a leg out of a slot nothing reaches) with every vector of five drops, of either sign, or none, at three budgets |
| `executor` | Is every execution a walk of the quoter's, and is the caller paid by it slot for slot? | two transactions: a split that is joined again, a group without a sweeper, into ether, out of ether, a leg off the slot map |
| `quoting` | Is a route quoted for what it would pay if run, in its own place, alone or among others; is a split worth the same in any order; is every request answered? | lists of up to three of six routes, and some of five; a chain longer than the contract takes; pools entered twice as swap, deposit and withdrawal; models on, off, or any of them missing; limits of 3 routes and 4 legs, two lost calls, one size refused: 260,357 states |
| `gate` | Does every computed pool agree with its pool, and is every pool that agrees computed, through crashes, torn files, outages, edited maths and moved balances? | four pools (one that two variants fit at the small size and one at both; one that edited maths get right by its other variant; one that needs its rates read; one only the rate reader can reproduce, and which quotes nothing at dust), any number of runs, two faults, one change |
| `localevm` | Is a result handed back under a clean count one that was run on real state, and is only what the node refused counted? | two fills of three stages over three accounts and four slots; a node that answers any subset, or raises |
| `session` | Is a quote of the block the session is pinned to; does a refresh say what it could not read; is a plan's dry run of the state its bounds were priced on; does a borrowed approval ever make a later plan agree? | one task of each kind, two blocks, nodes up to one block behind, one modelled and one live pool, an oracle that begins a round, four calls, one failed request: 966,486 states |
| `realize` | Is what a flow is realized as a route that delivers what the flow delivers, whose legs run in the order they come in, each of which trades, and which strands nothing? | three nodes, six tokens (a vault share worth two, a second address, a native token), nine arcs, two of them one pool's; flows of one path of weight 1 or 20, a second one or none, and both circulations or none; the same with a path of weight 9 and no circulation; one flow whose shares round up to the whole; towards either token of the last node; two arcs capped or none: 23,214 states |
| `transport` | Does every call get its own answer or its own refusal; is the endpoint spared; was the ceiling that is remembered measured; does every sweep end? | five calls, two threads, two sweeps in each of two runs, three caps, a poisoned call or none, two lost answers, two attempts |
| `pipeline` | Is the published figure the chain's for the published weights, within every limit, never below a plain route; does tuning ever cost? | five candidates (two solved, a swap, a chain of two, the refit), answers of 0, 9 and 11 that are 8 and 12 as doubles, legs charged one each or a sixth of the value: 1,316,918 states |

One run shows a disagreement between the code and what the repository says of it:
`stall_reverted`, where a read the endpoint never answered is told as a revert
(`DroppedReadsMissing`; the finding quotes both lines).

### Disagreements stated but not run

The following are definitions of the modules, each with the line that states it,
which the code does not keep. Adding one to the cfg named reproduces a
counterexample; none has a run of its own.

| Property | Add to | What happens |
|---|---|---|
| `PriorHoldingsLeftForTheSweep` | `MCElectricRouter.cfg` | a leg spends a fraction of all the router holds (`ElectricRouter.vy:541`), so what was there before is routed, not left for the sweep as 503 says |
| `NeverBoundAtItsQuote` | `MCRouteCall.cfg` | a leg whose input is large beside its scale has a rate too coarse to carry its grant outside the branch that keeps a unit back (`routecall.py:419`); `tests/test_routecall.py:401` says no leg is ever bound at its quote |
| `UnfilledSlotRefused` | `MCRouteCall.cfg`, `SPECIFICATION UnfilledSpec` | the refusal at `routecall.py:233` cannot be reached: the branch at 230 takes the same case first |
| `BooksAreMeasured` | `MCRouteExecutor.cfg`, `FeeOnTransfer = {A}` | slot 0 opens on what was asked for, not on what arrived (`RouteExecutor.vy:404`; the header at 31 says measured) |
| `CallerIsPaidInFull` | `MCRouteExecutor.cfg`, `Calls <- StrayCalls` | ether sent with a route that starts in a token stays on the contract (`RouteExecutor.vy:393`) |
| `CompleteMeansRead` | `MCLocalEvm.cfg`, `Cached = {other, pool}` | an account whose code comes from the cache is put in with no ether, and no count says so (`localevm.py:262`) |
| `CompleteMeansRead` | `MCLocalEvm.cfg`, `Blocks = {hash}`, `Stages <- HashedStages` | missed block hashes are not in `short` |
| `OnlyTheRefusedAreUnreadable` | `MCLocalEvm.cfg`, `FILL_ROUNDS = 4` | the last round's fetch is counted as missing although it came back; at the code's 64 it takes a call that deep |
| `ModelsAreOfTheirBlock` | `MCRouterSession.cfg` | a quote while a refresh sweeps finds the pin moved and freezes the models on storage not yet re-read; the refresh's own rebuild then finds them at its block already and leaves them (`session.py:367`, `exact_probe.py:367`, against 333) |
| `RouteIsReread` | `MCRouterSession.cfg` | a plan re-reads the slots of its route's accounts, not their ether |
| `CertificateIsThePublished` | `MCRoutePipeline.cfg` | the certificate is lowered for the first winner only, and the refit and the scout replace the winner after it (`pipeline.py:1057`) |
| `TieGoesToTheShortest` | `MCRoutePipeline.cfg` | the floor is over all of kind `direct`, chains of two included, so one may be moved past a shorter swap that is near the best (`verify.py:262`, `pipeline.py:1775`, against `verify.py:253`, "one leg, so it wins any tie") |
| `PublishedIsTheChains` | `MCRoutePipeline.cfg` | the scout publishes `int(float(quote))`, which above 2^53 wei is the nearest double (`pipeline.py:1461`, 1492, against `session.py:489`, "what the chain says the route pays") |
| `OnlyStrictImprovements` | `MCRoutePipeline.cfg` (as a PROPERTY) | where the search's quoter is local, a double above the last answer is adopted although the answer is not (`split.py:800`, 811, against `pipeline.py:1088`, "only accepts a strict improvement") |
| `ReusedNeverStatic` | `MCExactQuoter.cfg` | a re-entrant route whose size an invariant refuses goes to the chain, which prices its pools as untouched (`exact_probe.py:736-741`, against 722) |
| `GuaranteeKept` | `MCRoutedTrade.cfg`, `RoundsDown = {A}` | bounds start from the amount asked for; a token that delivers a unit less leaves the route under its promise |

Four more need a change of the model. In `Realize`, leaving `Squeezed` out of `NoLegIsWasted` shows a sweeper that
takes nothing, because the shares of the others round up to the whole (`realize.py:592`: 4999.5, 4999.5 and 1 of
10000; 7, 11 and 2 of 20 in the run's tenths), though a sweeper on an empty slot is "a leg that can never do anything" (617). `TakesForNothing = {q}` in
`MCElectricRouter.cfg` lets a crypto pool take the input under the first
spelling and pay nothing: the router goes on to the second, since only the output
balance is compared. In `ExactGate`, leaving `thin` out of `ModelsReproduce` shows a
model admitted on the one size that was heard while the others were lost
(`stable_params.py:32` says one point is not enough; 338 drops the points without an answer). In `RouterSession`, `MaxFaults = 2` and `AgreedMeansApproved` without its premise `faults <= 1` shows two losses together: an estimate whose restoring read is lost,
followed by a plan whose own re-read of that slot is lost, agrees on the estimate's
own approval.

What a refresh does not see is stated as the exception of `RefreshTells` and of
`settled`, and not as a number of losses. Models frozen on what one refresh left old, by a fault or by a
quote that came while it was sweeping, are not rebuilt by a refresh that stands at the block they are said to
be of (`exact_probe.py:367`), and it counts none of them: that is `kept`. It takes no more than one
refresh cut short and the next at the same block. Ether is outside the count as well: a balance
the node does not answer stays as it was, and nothing says so (`session.py:885-897`); `RefreshTells` is about
slots and models.

### Bounds, and why they are enough

- *Amounts* of 2–6 units with `ONE` of 4 (`router`) or 1000 (`trade`): shares and
  rates then round in both directions, a share rounds to nothing, and a leg
  loses its last unit, which is all that the arithmetic distinguishes. The sums
  are proved for every value.
- *Two transactions* (`MaxTxs`): what one call leaves to the next is balances and
  allowances; both are arbitrary after one call, and the second one meets them.
- *`MaxPay`, `MaxGift`*: pools that pay nothing, less than the bound, the
  bound and more; a donation of one unit is distinguishable from none.
- *`BISECTIONS`* of 6 for the code's 60: the scale is one of 64, which is finer than
  the instance's drops and budgets can tell apart.
- *`quoting`*: one lost call halves a batch, the second hits a half; three routes
  are the least that make a half of a half; one refused size is enough to
  bring in every branch after it.
- *`gate`*: four pools are the least at which an outage is told from single
  refusals by `MASS_REFUSAL_FLOOR` (2 for the code's 10) and `MASS_REFUSAL_SHARE` (40% for 15%). Faults are two so that an outage may follow a
  loss. The number of runs and rebuilds is not bounded.
- *`localevm`*: a second stage meets what the first left half fetched.
  `FILL_ROUNDS` of 8 is above what any stage of the instance needs, as 64 is in
  the code.
- *`session`*: two blocks tell new from old, and a third would only be another new
  one; three tasks are one of each kind, all of whose interleavings are reached;
  four calls let one of them come again after the others. Three of the properties are
  proved for any number of calls, blocks and failed requests; one failed request brings every
  branch of the model in, and is the most the fourth is claimed for (above).
- *`realize`*: with three nodes there are direct, two-step and circular flows, and every way a
  node can be entered and left in several tokens is at the middle one. `BPS` and `DUST_SHARE` are
  10 and belong together, as the code's dust (1e-4) is one of its `BPS`: 1 against 20 is dust, 1 against 9 is the
  least share and 9 against 1 the largest, and a group whose only taker is capped meets the clamp at the whole less one. The second visit to a pool is by a leg
  it cannot be advanced past.
- *`transport`*: five calls in batches of up to four make unequal chunks and unequal halves; two threads interleave; two runs are what a remembered
  ceiling needs, two sweeps what a lowered one does.
- *`pipeline`*: the answers are a revert and two that no double holds (doubles have three significant bits in the
  instance), one rounded down and one up, so a figure and its answer differ either way and two figures may differ more than their
  answers. The tolerance is one throughout (a leg's gas, and a sixth of any score there is), which a swap of 7 net
  and a chain of 8 net are within;
  a route that splits and one that does not; leg limits that bind and that do not.
- `CHECK_DEADLOCK FALSE` everywhere: a chain with no transaction left to send, an
  answered request, a published quote and an idle EVM have nothing left to do.

### Fairness

Three specifications state it. `Realize` assumes `WF_realizeVars(RealizeNext)`: it is a
function on one thread that waits for nothing. `ExactQuoter` assumes weak fairness of
its next step: a loop on one thread that waits only for the call in hand, and a call
that does not come back raises. `Transport` assumes it of `Main` and of each
thread's `Step`: every post has a timeout, and a runnable thread is run. All other
specifications are safety only: nobody is bound to send a transaction, to refresh
or to ask for a quote.

## 4. Proofs

`tlapm` checks every proof below. Assumptions on constants are named in the
modules that declare them (`MarketAssumption`, `ConstantAssumption`,
`WalkAssumption`, `ScaleAssumption`, `CallAssumption`, `ItemAssumption`,
`GateAssumption`, `TransportAssumption`, `PipelineAssumption`, `SessionAssumption`,
`RequestAssumption`, `ModelAssumption`, `RealizeAssumption`, `FlowAssumption`, `UnitAssumption`, `BisectionAssumption`); TLC evaluates each of them on a run's
instance. They say that constants have their types and their order, and a few things
the code's own data guarantee: the batch ladder comes down strictly
(`rpc.py:443`), a pool is offered at least one variant to be gated by, a route's legs stay within the slots
the contract has, and every pool that pays is a pool.
What a theorem needs beyond that is in its statement.

| Module | Theorem | Says, for every value of the constants |
|---|---|---|
| `RoutedTrade_proofs` | `TypeCorrect` | types of the router; no balance goes below zero |
| | `KeepsNothing` | `RouterKeepsNothing` |
| | `AnswerIsEarned` | `AnswerIsWhatTheLegsEarned` |
| | `NeverOverwritten` | `NoAllowanceOverwritten` |
| | `ReceiverPaid` | `ReceiverIsPaid` |
| | `Guaranteed` | `GuaranteeKept`, if routes end on an output they never spend, inputs arrive whole and no pool charges for nothing |
| | `EveryFloorEnforced` | `FloorsEnforced`, likewise |
| | `NothingIsStranded` | `NothingStranded`, if routes are `Orderly` (`LastTakesAll`) |
| | `QuoteClears` | a leg paid its own quote clears its bound |
| | `CoarseLegKeepsAUnit` | a leg too coarse for its tolerance is left a whole unit, by the tightest rate that does |
| | `ClearsItsBound` | `QuoteClearsItsBound`, for all positive quotes and inputs and any tolerance up to the whole |
| | `NoLooser` | `NoLooserThanGranted`, likewise |
| | `EncodedWalk` | the walk `walk_bounds` takes over the slots of a route is by tokens the walk of the call made of it, ends at `guaranteed_out`, and the last leg out of a token takes the rest of it, for `Executable` routes of any length |
| | `PromiseIsKept` | such a route, encoded, sent and not reverted, answers at least the `guaranteed_out` of its encoding, under the three assumptions of `Guaranteed` |
| | `EncodedStrandsNothing` | `NothingStranded`, if every call is the encoding of an `Executable` route `InTopologicalOrder` (`AllEncoded`) |
| | `MeansTheRoute` | `CallMeansTheRoute`, in markets of that shape (`OfThisMarket`) |
| | `FractionsSplit` | `FractionsAreTheSplit`, for all amounts and scales |
| | `BudgetIsOnce` | what `BudgetIsSpentOnce` says of its inputs (`SpentOnce`), of a route of any shape, any total and whatever the network solve returned |
| | `BudgetSpentOnce` | `BudgetIsSpentOnce`, for all budgets and drops |
| `RouteExecutor_proofs` | `Executes` | `RouteExecutor` implements `RouteWalk` (`ExecutesTheWalk`), for `Tidy` calls |
| | `CallerPaid` | `CallerIsPaidInFull`, for `Tidy` calls |
| `ExactQuoter_proofs` | `EachAlone` | `QuotedAlone` |
| | `PaysAsQuoted` | `QuotedAsItPays` |
| | `OrderFree` | `SplitIsOrderFree` |
| `RouterSession_proofs` | `SessionInvariant` | the inductive invariant the next four follow from |
| | `Quoted` | `QuotedAtThePin` |
| | `Told` | `RefreshTells` |
| | `Planned` | `PlanIsWhatRan` |
| | `Approved` | `AgreedMeansApproved`, which is about one lost request |
| `RoutePipeline_proofs` | `Published` | `PublishedIsWhatWasQuoted` |
| | `Fitting` | `PublishedFits` |
| | `NotBelowDirect` | `NeverBelowDirect` |
| | `TuningIsFree` | `TuningNeverCosts` |
| | `RankingRules` | `WinnerIsTheRankings` |
| | `TypeCorrect` | types and the ranks' range |
| | `RouteStays` | `FlowStaysARoute`, whichever cycles are peeled and in whatever order nodes come |
| | `LegsInOrder` | `LegsAreInOrder`, likewise |
| | `AllArrives` | `EverythingArrives`, for any rates and roundings |
| | `CapsLeaveRemainders` | `CapsTakeNoRemainder` |
| `LocalEvm_proofs` | `CompleteIsRead` | `CompleteMeansRead`, if no block hash is read, no funded account's code is cached and a slot is reached through its account |
| | `OnlyRefusedCounted` | `OnlyTheRefusedAreUnreadable`, in behaviours that never use up `FILL_ROUNDS` |
| `ExactGate_proofs` | `ModelsAgree` | `ModelsReproduce` |
| | `AgreeingModelled` | `WhatReproducesIsModelled` |
| `Transport_proofs` | `EachItsOwn` | `AnsweredForItself` |
| | `WhatIsRemembered` | `RememberedWasMeasured` |
| | `Spared` | `EndpointIsSpared` |

*Types* of the router need `InFlight`: the leg at hand exists because the call was accepted and
its steps are the unpacking of its words; without that `leg` is not a step and
nothing about its tokens is known.

*Keeping nothing* is not inductive: a revert restores `snapshot`, so the snapshot has
to be clean too, tokens no leg touches have to be where they were, and the
sweep's progress has to be remembered. `Keeps` adds those three. That the sweep reaches
every token touched is `SeenAll`, about the order of `seen`.

*The answer*: `Counts` says `earned` is the growth of the last output since
`opening`, at every point of every leg.

*The receiver*: `Pays` says that up to the last output's turn in the sweep the
receiver is where it was and the router holds at least the answer, and from then on
that it has been paid. The output may come up several times over; the later
times pay out nothing or more.

*The guarantee* is a monotonicity argument. `Ahead` says that before each leg the
router holds, of every token, at least what the walk of the bounds had there, and of
the last output that much on top of what it opened with. A leg that spends a
fraction of more spends no less (`ScaledMonotone`) and leaves no less
(`RestMonotone`: the floor of a fraction never grows faster than what it is taken of),
and what it is paid is at least its rate times what it spent. The order of legs,
the shape of the route and what was there before do not enter. A skipped leg was
owed nothing, for the same reason. The three assumptions are needed: an input that
arrives short starts the walk behind (section 3), a pool that is paid twice for one
leg spends more than the walk allowed for, and a route that spends its own output
again also spends what was lying there of it. The destination of a flow has no
outgoing arc when `realize` gets it, so routes end on their output; the other two
are properties of tokens and pools.

*Nothing stranded* is the opposite of a lower bound: `Drained` says that of a token
that no leg to come spends the router holds nothing, once the last leg that spends it
has settled. The last leg spends a fraction of `ONE`, which is everything, and no later one pays any
of it; in between, a crypto swap that is tried by both spellings holds all or none.
Tokens that debit a unit less are left out, as the property leaves them out.

*The bound of a leg* is two divisions by the same input: the rate is rounded down,
and a floor at that rate is rounded down again, so a leg that is paid its quote clears it.
That the bound is no looser than was granted is the converse, a unit either
way, which the branch for a coarse leg keeps (`CoarseLegKeepsAUnit`).

*The encoding* is taken for routes of any length. `Modelled`, `WalkBounds` and `Tokens` are recursive functions over
the legs, and what they keep is shown by the least leg at which it would fail (`OneIsLeast`, `UpTo`,
`Iteration`), not by induction over data. `LegsRead` says that what the contract unpacks of a word is the leg it
was made of, because a token that is named is found in the list the call carries (`Covered`), and one that is not is read off the pool. The
slots' walk then is the tokens' (`ByToken`), as no two slots hold one token, and a walk is determined by
the words (`IsWalk`), so `WalkAssumption`'s walk is that of `walk_bounds` and `Guaranteed` becomes `PromiseIsKept`.
`TakesTheRest` is the first branch of `Slice`, read back from the words. What a split loses to its shares is at most a unit for
each `ONE` units of the input and one more, times the legs that shared the slot: the
slack of a single unit that the property stated before is that of amounts below `ONE`, and the proof asked for the rest.

*A named budget* is the lemmas on `Longest`: leg by leg no slot falls back, and a leg's end is
level with its start and what the leg spends (`Relaxed`). So where a path has come to is never ahead of
the longest (`NoPathLonger`), by the legs it has taken so far; and a slot that is reached
is reached by a path of that length (`SomePathIs`), because a leg that
raises its end carries on a path that ends at its start (`CarriesOn`). What compares leg by leg compares
in sum (`SumsCompare`), so shares scaled by the longest give no path more than the total, and give the
dearest all of it but for a unit a leg (`FullIs`). With floors to keep, the bisection's scale is one at which
the longest fits (`SettledIs`); at zero the floors are left, which fit, so there is one.
Nothing is assumed of `raw` but that it is a number for each leg or missing.
The proof asked for one change of the statement: where no path leads from the input to the destination, none is
granted the budget.

*The executor*: `Measured` says that while legs run every slot's book is what the
contract's holding of its token has grown by since the call began. Each leg moves
the holdings of two slots by what it books, because the two tokens differ, the
kinds that send ether send it from the slot it is in, and tokens move what they are told
to. That is `Tidy`; without any one of these the books run away from the chain (section 3, `BooksAreMeasured`).
With it the refinement is the identity on the books. `Settled` then follows the sweep: a slot is as the
legs left it before its turn, paid out after it, and the destination's turn comes last.

*The quoter*: the chunks still to be sent `Tiles` the requests after the last that was answered, whatever is
halved or given up, so an answer is put in its own place; and the groups of a walk belong to a
route, so the contract's one pass over the legs of a batch answers each route what it would
answer it alone (`Own`). A batch that fails is cut until it holds one route, and
a route that fails alone is what `OnItsOwn` calls failed.

*The exact walk*: `AsRun` says that a walk over the models is where running the route would be: the same
books, and the same state of every pool that is entered again, for as long as one of its legs is
ahead. The code stops carrying a pool's state after its last leg, which is why the
invariant is about the legs ahead and needs the count of those still to see. `Figuring` takes it to what is
answered. Where no pool is entered twice, the static quote is the run (`StaticIsRun`). `RunTo` and the
others are recursive functions, over a route's legs; what they keep is shown without induction over data,
by taking the least leg at which it would fail (`OneIsLeast`, `UpTo`).
The proof of `QuotedAsItPays` found the property misstated: an `\/` under a quantifier took in the alternative
after it, so a route too long for the contract was excused only where some answer was lost,
and the run did not notice, because its long route paid nothing anyway. Both are mended.

*A split in any order*: the shares of a group come to no more than the whole, so no
leg is refused what it asks (`TakenFits`) and every leg takes its share of what the group opened
on, whatever was taken before. What a split pays is then a sum of terms that do not depend on
their order, and the same split is a permutation of them (`Rearranged`: move
the first into its place, and go on with the rest).

*The session*: whoever found the session to itself has nobody beside it (`ByItself`). Then a plan's header
and what it re-read are of its block, and the bounds it set are of that storage (`Planning`); a refresh
has counted every slot and every model of another block (`Refreshing`), which holds at each await because a
raised or a short read adds to `unread` at least what it leaves old; and a settled session is of its pin
throughout, with no task past the point where it could change that (`AtRest`). `Borrowed` follows the one
slot an estimate writes. The proof showed that two of the properties had been stated with the wrong
premise, that one request at most is lost: the four calls of the run are too few to
refute that, and five refute it. They now name what a refresh does not see (section 3).

*The pipeline*: `Kept` and `Weights` say what the chain was asked for each candidate, at which weights it now stands and
in which form its figure is, `Ruled` what a verdict means, `FloorFirst` that the plain
routes are in before the winner is chosen. `Ranked` is the ranking as a total order of
what is usable, which the induction needs because a rank given in one
pass is read in a later one; its head is told in terms of the figures alone (`FirstOf`), not of the
sort and the floor that made it. Of doubles only that they are monotone, idempotent and keep zero is
used, and of charges only that what is left after them grows with the value (`NetGrows`).

*Realization* has three parts. Cancelling takes the same off what enters and what leaves
every node of a cycle, so net delivery stands (`FlowInv`). With no cycle left, every live arc can be
followed back to the source and on to the destination: what a node passes on has come to it, and a set of arcs that
can always be followed inside itself holds a simple cycle (`Simple`). So pruning comes to a route or gives back the one it was handed
(`IsRoute`), and among the nodes not yet emitted one is due, as following what each of them waits for would
come round otherwise. `EmitInv` is about the legs so far: they spend from no node
still to come, they run in the order they come in (`InTurn`), and what each pays is taken whole by a later leg or
rests where it may (`Swept`, `Rests`): at a node to come, at the end, or in a hub all of whose takers are capped. It is kept a
node at a time, `Block` being one node's legs: its folds, the group on its hub, and the group of each filled slot.
`Moving` takes it through the replay: what is left anywhere is swept by a leg still to run or may rest. `Sorted` picks the
n-th of a set by counting those before it; that there is one, and that the last has all others before
it, is `InOrderHolds`. Two premises came out of the proofs: that flows conserve, and that a
unit of value is no less than a unit of any token. The run's flows had both, and nothing said so.

*The local EVM*: `Recorded` says what is held is nothing or the truth, which is why code
out of the cache and block hashes have to be assumed away, and that a result that
misled left a count behind. The argument is that a run with no miss touched only what
is held, and what is held is the truth.

*The gate*: a verdict on disk was earned under the maths it names (`Remembered`), and
what is built holds only variants that agreed, were trusted under the current maths, or were
heard at fewer sizes (`Running`). Nothing is held while the program is down. The other direction is `Complete`: a
refusal, in the file, recalled from it or learned in this run, is of a pool that was not heard or that nothing
reproduced at the balances and the maths it names, and a pool the build is past is computed, refused or
skipped. An outage is told from refusals by their number alone, so `calm` has to be remembered.

*The transport*: `Covered` says every call without an outcome is in exactly the chunks not yet
posted; `OwnWords` that an outcome is of the call it stands at. That the endpoint is spared is a sum: the posts made, `ATTEMPTS`
for each chunk in the queue and what is left to those in hand come to no more than the sweep began with,
as long as what is in flight fits (`Paced`). Once a refusal names the cap, chunks cut before may still
meet it, and only in that sweep (`MetOnce`). What is remembered is the first rung that
passed (`Measuring`), which takes a ladder that comes down.

Model-checked only: `NoLegIsWasted`, which is not true of every value of the constants, as a share of a small amount can round to nothing; and liveness:
`EveryFigureStands`, `EveryFlowRealizes` and `EverySweepEnds`. Out of the prover's reach are liveness under
fairness and `ENABLED`, and induction over data. What a recursive function keeps can be shown all the
same where its value at one leg follows from the one before, as for the quoter, the encoder and `Longest`. The type
invariants of the router and of the pipeline are proved; those of the other
modules are part of the inductive invariants in `*_proofs`.

## 5. What is not modelled

- Re-entry. `ElectricRouter` refuses it; a pool that calls back into
  `RouteExecutor`, which has no lock, is left out.
- The pools' own arithmetic and the quote functions of the leg kinds: pools
  answer anything (contracts), a fixed price (client) or agree at given sizes (gate). The Newton
  iterations on 256-bit integers are held to deployed pools by the repository's
  differential tests.
- The solver, the split search, multi-port elements, the slippage network's solve, the generation of
  candidates, gas and risk scores: floating-point optimisation, where what could be
  wrong is accuracy. Their answers are open in the models that use them.
- `warm` and the discovery of the universe, the state and token caches, the command line, deployment and fork
  tools, rendering: single passes over lists, I/O and presentation. They are a
  large part of the repository's lines, with the numeric core above, so the models cover a minor share
  of it: they are of the parts with state and order in them.
- The Rust and browser port: held to the Python by differential tests; `db.rs` is
  the one part modelled.

Left out inside modelled parts, and exposed to hazards no property covers: a total
over legs in several tokens (`realize.py:511`) and the loss figures (`realize.py:850`); chained merges of nodes
(`nodes.py:125`); `AsyncTransport`, a second copy of the sweep (`rpc.py:600`); byte limits of a batch;
partial answers of the rate reader; `refresh_at` of the models raising; the
session's own throwaway verdict caches (the gate is modelled as the command line runs it); the twocrypto and tricrypto gates, which write to the file the
stable gate writes; `probe` and `raw`, which run the same halving over single probes.

## 6. What is left

1. The quoter contract's quote functions per leg kind, with their fee corrections, against
   `core/walk.py`'s, and `probe_batch` and `raw_batch`.
2. The other two gates on one verdict file, and the node map (chained merges) under `Realize`.
3. `RoutedTrade` over `Realize`'s own routes in place of the five stated ones, which would
   discharge `EndsOnItsOutput`, and `Slippage`'s grants in its bounds.
4. Proofs: `LegsInOrder` is `InTopologicalOrder` for the legs of `Realize`; a module that hands them to the
   encoder would make the hypotheses of `EncodedStrandsNothing` theorems.
