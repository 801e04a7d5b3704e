# Tikka raffles in TLA+

A verification project for the raffle contracts (`contracts/`) and their
off-chain oracle (`oracle/`). It consists of TLA+ modules, TLC
configurations, TLAPS proofs, and `PROJECT.json`, which lists for every
definition the source lines it stands for, the runs, the mutants that show each
property can fail, the hazards of the code and the findings.

    tlc -workers 2 -config RaffleExternal.cfg MCRaffleInstance
    tlapm RaffleInstanceProofs.tla

## 1. The system

| part | code | state | operations |
|---|---|---|---|
| raffle instance | `contracts/raffle-instance` | status, tickets, counts, refund markers, commitments, winners, lock and request keys, quorum seeds, fee counter, pauses, token balance, lifetimes of the entries | init, deposit, buy, gift, commit, finalize, answer (single, quorum), fallback, claim, sweep, refund (prize, ticket, batch), cancel (creator, timelocked admin), fee and oracle settings, withdraw, rescue, dust, wipe, emergency exit, extend_ttl |
| shared types | `contracts/raffle-shared` | none | status table, configuration validation, errors, constants |
| factory | `contracts/raffle-factory` | registry of raffles, admin, pending changes, pauses, recurring raffles, volume, participants, leaderboard, checkpoints | create, recurring rounds, timelocked change of configuration, pause, admin transfer, statistics callbacks |
| oracle | `oracle/src` | ledger checkpoint, dedup store, queue, dead letters, failure counters, keys | poll events, queue and process jobs, prove, submit with retries, alert, drain on shutdown |
| docs, tests, fuzz targets, scripts | `docs`, `*/tests`, `fuzz`, `scripts` | none | reference for the statements the runs `doc_*` examine |

**How the parts meet.** A factory deploys an instance and keeps its address;
the instance calls back with volume, participants and leaderboard entries and
asks the factory whether everything is paused. An instance emits
`RandomnessRequested`; the oracle's listener polls for it, a job computes a VRF
proof and submits `provide_randomness` or `provide_quorum_randomness`. Tokens
move between buyers, contract, treasury, winners and creator by synchronous
calls of the token contract. A Soroban call is atomic: an `Err` undoes all of
it. Concurrency is therefore the order of calls by the creator, buyers, winners,
admin, oracles and the clock.

**What is hard.** The draw can be begun from two places and ended from three;
status, lock, request and winners are separate keys that every entrypoint
consults in its own combination. Answers and seeds arrive late, twice, or after
a cancellation. Five entrypoints pay out and each decides by its own marker.
Three different sums are used to decide what is surplus. An admin cancellation
takes effect long after it was scheduled. Storage entries expire one by one while
nobody calls. The selection of winners is arithmetic that wraps around, with a
deck that exists only as a log of swaps. In the oracle, work is remembered in
memory, in the checkpoint, in the dedup store and in the file of dead letters, and
a crash or shutdown falls between them.

**What makes it correct.**

* Sales: never more tickets than the supply, caps bind the recipient, and the
  allowance shown to a buyer agrees with what a purchase is held to.
* Draw: keys agree with the status; nothing changes what is drawn over once the
  draw began; winners are distinct tickets, and distinct addresses where asked;
  the outcome is final; a requested draw ends. The selector takes tickets without
  replacement and without bias, and the order of quorum answers has no influence.
* Settlement: each ticket, tier and prize is paid at most once and the raffle is
  settled one way, by claims or by refunds; everybody is made whole after a
  cancellation.
* Money: what is owed stays covered whatever administrators withdraw.
* Storage: no entry a later call needs expires under an operator who follows the
  documented plan.
* Factory: a change is executed once, after its delay, as proposed; each raffle
  is registered once; totals and boards agree with what happened, and a listing
  is complete.
* Oracle: each request is worked on once, at most one answer is included, no job
  fails unless something outside it did, and every copy of a job that fails is kept
  somewhere. Requests can be lost; the ways are known (section 5).

## 2. Modules and how they correspond to the code

| module | content |
|---|---|
| `RaffleInstance` | one deployed raffle: state, one action per entrypoint, properties |
| `MCRaffleInstance` | tiers and symmetry for TLC |
| `RaffleInstanceProofs` | arithmetic, sums over the tiers, types, the draw and what follows from its invariant |
| `RafflePaymentProofs` | markers and payments, the outcome, unique winners, the escrowed prize, what is owed and the balance, the allowance |
| `WinnerSelection` | the quorum's seed and the selector, from a word to the winning tickets |
| `DrawWithoutReplacement` | what a selection promises, an abstract specification that `WinnerSelection` implements |
| `WinnerSelectionProofs` | the swap log, the accepted words, the sort, the refinement, and the pairs of winners |
| `TicketTtl` | lifetimes of a raffle's entries: the rolling window and `extend_ttl` |
| `TicketTtlProofs` | no entry expires, the window is complete |
| `OraclePipeline` | the listener, the jobs, the submitter, crash and shutdown |
| `OraclePipelineProofs` | types, one job and one transaction for a request, no failure that nothing provoked |
| `RequestQueue` | the queue's failure handling, the dead letters and the alerts |
| `RequestQueueProofs` | types, every copy of a job in one place, the health check |
| `RaffleFactory` | the factory: admin, timelocked changes, creation, recurring raffles, indexes |
| `Timelock` | what a timelock promises, an abstract specification that `RaffleFactory` implements |
| `RaffleFactoryProofs` | types, the offer of the role, the rate limit, fees, the timelock and the registry |
| `FactoryStats` | the factory's totals, leaderboards, list of partners and paginated views |
| `FactoryStatsProofs` | the totals, the exchange sort and the boards, the pages of a listing |
| `MC...` | constants, tiers, results and symmetries for TLC, one per module |

`RaffleInstance` follows the storage keys: a variable is a field of `Raffle` or
a `DataKey`, with the three history variables `ticketPaid`, `tierPaid` and
`prizePaid` recording who was really paid. Actions carry the names of the
entrypoints. A guard is the conjunction of the checks that return `Err`, in the
code's order where it matters; everything an entrypoint stores or transfers
happens in one action. `PROJECT.json` has the lines.

Data is abstracted to what the properties tell apart:

* a seed becomes the choice of winning tickets: `Draws` allows every injective
  choice followed by the probing of `resolve_unique_winner`. A real seed selects
  a member of this set, so safety carries over;
* one token, because `init` stores the payment token as the prize token;
* one tick of `now` is one ledger, and the delays are counted in ledgers;
* the caller's authorisation is the choice of the actor in `Next`;
* the global pause of the factory is the variable `globalPaused`, which every
  purchase asks for;
* bundle prices, NFT and swap fields, metadata, events other than
  `RandomnessRequested` (the variable `asked`), and the reentrancy guard (calls
  are atomic) are left out. Callbacks to the factory are taken to succeed here;
  `FactoryStats` has them, and `TicketTtl` has the extension of lifetimes, which
  no other part of the state depends on.

Bounds are constants: `MaxTime` for the clock, `MaxBalance` for plain transfers
to the contract, `Amounts` for what administrators ask for.

`RaffleFactory` follows the factory's keys in the same way. The address of a raffle
is the pair of creator and description that its deployment salt hashes; of its
configuration only the fee is kept. `registry` is `RaffleById` and `NextRaffleId`,
`checkpoints` are numbered by their position. `offered` and `feesProposed` are
history. The counters that no other call reads are left out (section 7). The
refinement `TL` maps the configuration to the setting of `Timelock`, and a pending
operation to an announcement made `TimelockDelay` before it is due.

`WinnerSelection` runs the code's loops step by step. `SubmitSeed`, `SortStep` and
`AggregateQuorumSeeds` are the aggregation: an insertion sort by the oracles' XDR
bytes, then a hash, which is external: the constant `Digest`, of which only the type
is assumed. `RejectWord` and `TakeCard` are one turn of
the two loops of `OracleSeedWinnerSelection`; `deal` holds its local variables. A
word has `Words` values instead of 2^64, and the multiplier and the increment are
those of the code modulo `Words`. `SelectWinnerIndices` is the same computation as
one function, for statements about all seeds. The refinement `Urn` maps the indices
taken so far to the draws of `DrawWithoutReplacement`; since it admits only
injective choices, it justifies the operator `Draws` of `RaffleInstance`.

`TicketTtl` keeps for every entry the last month in which it exists. `BuyTickets`
and `Finalize` end with `BumpRaffleTtl`, the window of `bump_raffle_ttl`;
`ByAnybody` and `ByOperator` are calls of `extend_ttl`. The operator follows
docs/STORAGE.md: once a month, page by page; a month does not end before it is
through. `cycle` and `missed` are history.

`RequestQueue` has one action per method, since each is synchronous. `notify` is
called without `await`; it is modelled up to its first `await`: the rate limit, the
refusal of texts that look like a key (`Presentable`) and the time stamp. What it
throws is an unhandled rejection and ends the process (`doomed`,
`UnhandledRejection`). A failing write of the letters is logged only (`Save`).
`enqueue` takes any job: the listener saves its checkpoint only after enqueuing, so a
restart can bring a job again that is already a letter or in work (`MaxCopies` bounds
how often). `arrived`, `worked`, `replayed` and `lost` are history, counts per job of
its copies; `torn` are the jobs of which a letter could not be written. `put` is when
an entry joined or was last tried. Alerts are taken to be enabled.

`FactoryStats` has the calls that a raffle makes back, each within the sale or the
draw that makes it (`Sale`, `Gift`, `RecordLeaderboardEntry` with the exchange sort
and the cut), `SetWhitelistStatus` with the list beside the flags, and a client
that asks for one page after the other (`StartListing`, `ReadPage`). A raffle
reports its terms, and `Report` computes the metrics from them as the raffle does.

**Reading of the sources.** At this commit several files carry the residue of an
unfinished merge (lines such as `fix/security-checks-effects-763` and `master`,
functions defined more than once) and do not compile. They are read as the text
common to both sides plus the side of the fix branch. Where a function occurs
more than once the one that agrees with its callers and with the documented
types counts:

* `calculate_buy_quote` is the version at helpers.rs 398-445, which returns the
  `BuyQuote` that raffle-shared documents (`net_to_pay` is gross minus discount);
* `calculate_tier_prize` returns its trailing expression, the rounded-down share
  of every tier; the block for the last tier is an expression without effect;
* `batch_refund_tickets` is the version with a `caller`, claim.rs 266-299;
* a ticket bought by `buy_tickets_for` has the buyer as its payer;
* the second transfer in `buy_tickets` (352-384) belongs to the other side;
* `init`, `get_remaining_ticket_allowance` and `provide_quorum_randomness` are the
  bodies of the exported entrypoints in raffle-instance lib.rs (319-554, 899-913,
  615-718); their namesakes at init.rs:96, views.rs:170 and draw.rs:342 have no caller.
  In the last one `caller` stands for the parameter `oracle`;
* the block on partner statistics in `trigger_next_round`, which reads variables
  that only `create_raffle` has, belongs to the latter;
* the list of all raffles is paged as in views.rs, since the second version in
  lib.rs does not type-check;
* `OracleSeedWinnerSelection` is the selector that the draw calls; nothing calls
  `PrngWinnerSelection`.

## 3. Runs

TLC checks deadlock in the raffle, oracle and factory runs. `selection`,
`factory_stats` and `ticket_ttl` have no fixed end: there the system stops when
the selection is over or the bound on calls, months or tickets is used up.

| run | instance | what it shows |
|---|---|---|
| `raffle_external` | External, 2 buyers, 2 tickets, 2 tiers, 2 oracles, no fees, three pause switches, plain transfers, 4 ledgers | types and supply; the keys of the draw agree with the status; markers agree with payments; nothing paid twice; one way of settling; refunds and claims always covered |
| `raffle_fees` | CommitReveal, 3 tickets, fees 5% and 20%, early bird, cap 2, sweep pages of 1 | prize in escrow; a purchase is accepted exactly when it fits in the reported allowance and the supply; nobody moves after the draw began; outcome final |
| `raffle_live` | 2-of-3 Quorum, 4 tickets, unique winners, with fairness | a requested draw ends; refunds or claims are completed; only oracles can finish a draw; distinct winners where possible; terminal statuses are final |
| `selection` | words of 6 bits, up to 6 tickets and tiers, a quorum of 3 oracles | implements `DrawWithoutReplacement` with its liveness; accepted words are unbiased; submissions commute; every first pair is possible |
| `ticket_ttl` | 5 tickets, windows and pages of 2, 12 months | nothing expires; the window passes over no ticket |
| `oracle` | 2 requests, pages of 1 event, 4 ledgers, 2 failing calls, 1 crash or shutdown, with fairness | worked on once; one transaction included; no job fails unprovoked; every request answered or lost for a named cause, see section 5 |
| `oracle_queue` | 2 jobs that arrive up to twice, 2 attempts, depth limit 2, 1 crash or failing write | each copy of a job in one place; a health check restores health |
| `factory` | 1 creator, 2 descriptions, 2 proposals, 1 recurring raffle, 2 times | the configuration implements `Timelock`; fees were announced before they apply; indexes and checkpoints agree with what was created; the rate limit holds; a withdrawn offer of the admin role is never accepted |
| `factory_stats` | 3 raffles of 2 creators, boards of 2, pages of 1 and 2, 3 sales or changes of the whitelist | totals agree with the sales; boards hold the best; a listing is complete and without repetition |
| `doc_draw_finishes` | External, 2 oracles of which one replaces the other during the draw, with fairness | a stuck draw is not ended by what the documents offer for it, see section 6 |
| other `doc_*` | the smallest instance | statements of the documents that the code does not keep, see section 6 |

*Why the bounds are enough.* Two buyers give owner, payer and somebody else's
ticket. A supply of four lets a Quorum raffle be drawn with three tickets of two
owners (a sold-out one is never drawn), so that distinct tickets do not make
distinct winners. Two tiers make the last claim
differ from the first, and two or three tickets make selling out, the cap, the
minimum and a partial refund all happen. The clock runs past the deadline by
more than the lockup, the expiry, the minimum delay, the timelock and the
emergency delay, each of which is one or two ledgers, so that each can come due
before and after the others. Amounts are real: prices start at the contract's
minimum of 10000, so that basis points round as they do in the code.

For the factory two proposals can be for the same key and be executed in either
order or cancelled, all delays and the interval are one tick, and two raffles are
a full checkpoint interval; a creator makes them alone, as a partner or as a
round. The cap on fees is met by a proposal above it.

For the selection, all 64 seeds meet all pairs of tickets and tiers up to 6, so that
decks have refused words, also those of 2 and 4 whose size divides the number of
words, and common divisors. Up to four copies of two jobs exceed a depth limit of
two, one can be over age behind another, and a copy can arrive while the first is a
letter, in work or being replayed. Three raffles exceed
boards of two, and one counter reaches its limit (`MaxAmount`) with the third sale.
Twelve months are two lifetimes of a refreshed entry and three of a fresh one; five
tickets are two and a half windows, so that purchases overtake the window and the
pages.

*Symmetry.* Buyers, jobs, creators and partners are interchanged in runs without
liveness properties only.

*Fairness of the raffle runs.* `OracleFairness`: ledgers close, and an oracle that a request event
named submits its answer when the contract would take it; that is what the
listener and the submitter are for. `RescueFairness` adds that the creator calls
`finalize_raffle` and, after the timeout, `trigger_randomness_fallback` whenever the
contract would take the call; it is used by `doc_draw_finishes` only, so that the
statement examined there fails by the code and not by anybody's silence.
`CollectFairness` says that
the creator, every payer and every winner collect what is due: the contract pays
only on request, so completeness of a settlement is a statement about those who
ask. No fairness is assumed of administrators or of purchases. In `WinnerSelection`
the loop is weakly fair, because it runs inside one call; no seed has to come.

## 4. Proofs

Each theorem holds for every value of the constants that satisfies the named
assumptions: configurations that `init` accepts, a non-empty set of
oracles, delays and intervals of the factory, words of any width that hold the square
of the number of tickets (a u64 and a u32), any digest, any limits of the queue, any
cap of a board and any page size. The bounds of section 3 (clock, faults, calls) are
constants too, so the theorems hold for every length of a run.

*Induction.* The library's induction theorems take an operator as a parameter, which
no installed prover instantiates. Where a loop of the code is a recursive function, the
proofs use its well-foundedness theorem instead: `LeastOf` takes a least
counterexample, and `UpTo` is induction for a property given as a *set* of numbers.
That a recursive function exists and satisfies its equation is `RecursionExists`, which
extends a solution one step at a time, or an explicit solution.

**The raffle.** One chain of invariants, each inductive together with the ones
before it: `TypeInv`, `DrawInv`, `PayInv`.

* `TypeCorrect`: `Spec => [](TypeOK /\ TicketsStored)`. `TicketsStored` is needed
  because a draw reads the record of every ticket it picks. The arithmetic rests on
  the lemmas about shares in basis points: a fee is at most the amount, so no payout
  makes the balance negative.
* `DrawKeysAgree`: `DrawStateAgrees`. The transition table gives the statuses from
  which a step starts; each action then either leaves the five keys alone
  (`DrawFrame`), begins a draw or ends one. `OnlyOraclesFinishDraws` is a corollary: a
  raffle in Drawing holds the lock, which `finalize_raffle` and the fallback refuse.
  `NoLastLookHolds` and `TerminalForeverHolds` follow with
  two lemmas on who writes tickets and winners.
* `MarkersTellPayments`, `NothingPaidTwice`, `SettledOneWay`: `PayInv` adds that the
  markers and the payments agree *and* that each was paid at most once; neither is
  inductive alone, since a payment is kept from being repeated by its marker, and the
  marker is trusted only because it tells the payment. With the statuses of `DrawInv`
  they give one way of settling.
* `OutcomeIsFixed`: winners are written by a step that leaves Drawing, and only there.
* `WinnersUniqueWhenPossible`: one lemma says of `resolve_unique_winner` that a ring
  with an owner not yet drawn holds a ticket of such an owner; fewer winners than
  owners leave one, by counting. Claims keep addresses.
* `PrizeStaysEscrowed`: `rescue_tokens` and `sweep_dust` leave `TokenEntitlement`, which
  contains the prize of an undrawn raffle.
* `RefundsAreCovered`, for `ListPrice /\ FeesStay`: no early-bird discount, and no fee
  leaves for a treasury. Each sale adds the list price of its tickets, each refund
  takes it out of balance and debt alike, and what administrators may take is computed
  from markers that overstate the debt. Both hypotheses are needed: the refund of a
  discounted ticket is `doc_refund_discount`, and a fee sent away is missing when all
  are refunded.
* `ClaimsAreCovered`, for `NoFees`: after the draw the unclaimed tiers are the unpaid
  ones, and their sum is at most the prize. With a fee it fails (section 6).
* `AllowanceIsHonest`: the count stored for an address is the number of its tickets,
  by counting the set a sale adds; so the reported allowance and the tickets held make
  up the cap, and a purchase is accepted exactly when it fits in both the allowance and
  the supply. Without a cap the report is `MaxU32`, which no purchase exceeds.

What `TypeCorrect` and `ClaimsAreCovered` need of the sum of the tier prizes is the
lemma `TierTotals`: a sum splits into the tier that is paid and the others, and the shares, each rounded down,
add up to at most the prize. It is an induction over the tiers of the loop `TierSum`,
with `init`'s check that the shares add up to the whole as the only
hypothesis.

**The selection.** `SelectionInv` is `QuorumInv /\ DealInv`. `DealInv` says that the
swap log is a deck (`IsDeck`): the cards at the remaining positions are distinct,
none is among the indices returned, and together they are all tickets. Taking a
card moves the last one to its position, so it stays a deck; a refused word leaves
it alone. From it:

* `SelectionTypeCorrect`, and `SelectionRefinesDraw`: every step is a step of
  `DrawWithoutReplacement` or stutters. That the loop ends is liveness of the LCG and
  is checked by TLC.
* `AcceptedWordsUnbiased`: `s - r + q` maps the accepted words on position `r` one to
  one onto those on `q`, because they lie below a multiple of the deck's size.
* `SeedIsOrderIndependent`: `QuorumInv` is the loop invariant of the insertion sort,
  entries up to `i` are in order but for the one at `j` that is carried down, and the
  entries are those submitted. `SeedIsReproducible` adds that there is one such order:
  it is onto by counting, and two of them have no first place at which they differ.
* `PairsAreOpen`: the function that computes all indices is unfolded for one and two
  winners. A word has remainders by the sizes `n` and `n - 1` that are free of each
  other, since `n = 1` modulo `n - 1`: the word is built from the two positions, lies
  below `n * (n - 1)` and is therefore accepted by both draws. `PairsAssumption` says
  that words reach so far.

**The factory.**

* `FactoryTypeCorrect`; `OfferIsAccepted` from `OfferStands` (the history variable is
  the pending admin); `CreationIsLimited` from `StampsKept` (the stamp of a creator is
  not older than any of its limited raffles).
* `FeesWereAnnounced`: a fee in the configuration or pending was announced
  (`FeesTracked`), and a raffle copies the one in force.
* `FactoryKeepsTimelock`: the refinement, step by step. Open operations have distinct
  numbers up to the counter; a proposal is an announcement, an execution takes effect
  with the value announced, a cancellation removes it, all else stutters.
* `RegistryIsConsistent`: registering appends to the registry and to the indexes of the
  raffle's creator and category; `Rank`, the place of a raffle in an index, grows by
  one exactly for those. The checkpoints need the division lemmas (`DivStep`): the
  quotient by the interval grows exactly when the interval is full.

**The factory's statistics.** Three independent invariants of `FactoryStats`.

* `TotalsAlwaysAgree`, from `SalesInv`: a volume is the sum of the charges of that
  token (`TotalOfAppend`: a sale adds its charge to one sum and zero to the others;
  registering a raffle changes no charge, because sales are of registered raffles), and
  the count of participants is the size of their set.
* `BoardsAlwaysHoldTheBest`, from `BoardsInv`: each board is the `BestOf` all reports,
  which says more than the property: an entry is a report, no raffle has two, the order is
  by metric, and a report that is missing is not better than the last entry of a full
  board. The loops of the exchange sort have the invariants `Rearranged` (the same
  entries), `Leading` (the places filled hold the largest metrics, in order) and `Ahead`
  (the place being filled is not worse than those behind it that were compared). `BestAfter` is
  the cut: it drops the last of one entry too many, which nothing later can
  bring back.
* `ListingsAreComplete`, from `PagesInv`: a client that no removal disturbed has read
  exactly the part of the list before its offset (`InProgress`); lists only grow at the
  end, and the last page reaches the end.

**The oracle.** `OracleTypeCorrect`; `RequestsWorkedOnce`, from `Deduplicated`: a request
was taken exactly if it is in `seen`, which survives a crash; `IncludedOnce`, from
`FlightInv`: a transaction in flight was built for an emitted request with a sequence
number not above the account's, and once a request has been answered every other
transaction for it has a used number. `OnlyProvokedFailures`, from `CalmInv`: until a
call fails, the process is stopped or a raffle is withdrawn, only the loop works, the
cached sequence number is the account's, and the transaction waited for is the next
one, of a request still open; so it is confirmed, and the confirmation advances both
numbers alike.

**The queue.** `QueueTypes` and `NoJobVanishes`, from `KeptInv`. `JobsKept` is a
conservation law: the copies of a job in the queue, in the letters, with the worker,
with an operator and lost are as many as arrived. It rests on lemmas about `Count`
(what appending, removing an entry and cutting off a prefix do to it) and on one more
fact: while a process lives, memory and file hold the same number of letters of a
job, but for torn ones; otherwise a restart would make copies appear or vanish.
`LiveKeeps` reduces every step of a live process to the balance of these counts.
`CheckHealthKeeps` needs that the evacuated jobs are a prefix of the queue
(`EvacuatedMeets`: the loop stops at the least number that satisfies its condition).
`HealthIsRestored` adds `Ordered`: the queue is ordered by when its entries joined or
were last tried, so that a loop which looks only at the first one leaves nothing that
has waited beyond the age limit since.

**Lifetimes.** `NoEntryExpires` and `WindowIsComplete`, for `MonthlyPlan`: threshold and
minimum lifetime are at least a month (the code has three, and about four). What the
operator has refreshed this month lives for another (`Lives`); the window of the
current round is `1..lastBumped` (`Swept`). With a threshold of zero `extend_ttl` would
not extend an entry in its last month, so the hypothesis is needed.

**Only model-checked.** `DrawAnswered`, `SettlementCompletes` and `Accounted`, and of
`DrawsWithoutReplacement` that the loop ends: liveness under fairness is out of the
prover's reach. Every other property of a passing run is stated by a theorem.

## 5. The oracle

`OraclePipeline` models the process of `oracle/src`. Its state is what survives a
crash (`checkpoint`, `seen`), what does not (the poll under way, the queue, the
batch and the current job of each worker, the cached sequence number), and the
part of the chain it can observe. The code is single threaded, so a step is what
happens between two awaits:

* `PollStart`, `PollResponse`, `PollFails`, `SaveCheckpoint`: one turn of
  `startListening`. The stop flag is looked at only before a poll, so a poll in
  flight at a signal still enqueues and saves.
* `ProcessQueue`, `ProcessJob`: the job loop. The drain of a shutdown is a second
  worker beside it, with the same `processJob`.
* `SubmitOnce`, `Confirm`, `Timeout`, `CallFails`, `Retry`: the submitter. A
  transaction that is no longer waited for is an orphan and may be included
  later. Getting the account, simulating and sending are one step; the single
  and the quorum answer differ only in the minimum delay (`MinDelay` is 0 for a
  quorum seed).
* `Crash`, `Shutdown`, `ReloadCheckpoint`, `Exit`, `ForceExit`, `Start`: the ends
  of the process and its restart.

The queue is a set, and `enqueue` and `drain` are the only operations the
pipeline calls: failure counts, evacuation and dead letters have no caller there and
are the subject of `RequestQueue`. Disk writes succeed. The chain is external: ledgers close with
requests, raffles accept one answer after the delay or are cancelled,
transactions use up sequence numbers. Init starts with no checkpoint or with one
just before the first ledger. Requests are assumed to reach the listener.
(Observation: `index.ts:50` subscribes to the factory's address while instances
emit the event, and both event names stand in one topic filter.)

*Fairness.* Every await ends, polls succeed again and again (strong fairness of
`PollResponse`: a poll that fails is repeated), and the process is started again.
No fairness of failures, ledgers or cancellations.

*Bounds.* Two requests are what two workers, a shared sequence number and a
stale cache need. Four ledgers put a request before and after a checkpoint and let
the two be answered one after the other. One stop is either a crash or a shutdown at
every point, and two faults exhaust the two attempts. A page holds one event, so that
two requests of one ledger fill it and the rest is left out.

*Results.* `WorkedOnce`: a request passes the duplicate check once, also when a
poll is repeated after a crash or the drain runs beside the loop. `OneInclusion`:
two transactions for a request in flight share a sequence number, and a later one
fails in the simulation, so at most one is ever included. `FailuresProvoked`: a job
fails for good only after a failing call, a stop or a withdrawal, or because its
request had been answered; in particular no sequence number is ever used twice by a
process left alone. `Accounted`: an emitted request is answered, or was lost for one of
five causes, each recorded where it happens: `page`, it was left out of a full page and
the next poll starts after the latest ledger; `early`, the answer was tried before the
minimum delay, which is fatal; `failed`, the job used up its attempts or met a fatal
error; `ended`, it was in the memory of a process that ended (begun, or behind the
checkpoint); `older`, it precedes the first start without a checkpoint. The property
says that there is no sixth; the five are real, and two of them contradict the
documents: section 6.

`RequestQueue` adds what the queue promises to a worker that reports failures.
`JobsKept`: no copy of a job disappears or is doubled. Each is in exactly one of the
queue, the letters, the hands of the worker and those of an operator who replays it;
copies that only the memory held are counted as lost when a process ends, and a job with
a letter that could not be written is excepted. The law is about copies, because a
restarted listener may enqueue a job that is already a letter or in work: the queue
does not recognise it. `HealthRestored`: a health check leaves the depth within its
limit, and every job left joined the queue, or was last tried, no longer ago than the
age limit. That is the bound on what a job that was tried, and keeps its age, escapes.

## 6. Findings

Each `doc_*` run refutes one statement of the repository with a behaviour of the
code; `PROJECT.json` quotes it.

* `doc_refund_discount`: discounted tickets are refunded at list price.
* `doc_draw_finishes`: a stuck draw cannot be ended by the calls that the documents
  offer. `trigger_randomness_fallback` (draw.rs:264) and `finalize_raffle` (draw.rs:24)
  refuse while `DrawingLock` is set, and every raffle in Drawing has it set
  (`OnlyOraclesFinishDraws`, proved). The run replaces the oracle during the draw; the
  new one is not named by any event, and the raffle stays in Drawing although the
  creator calls both. The documents:
  RANDOMNESS.md:184 "External | Oracle silent | After 200 ledgers: refund cancel **or**
  Internal fallback" (also 141 and 149-156), SECURITY.md:76 "Fallback mechanism if
  oracle doesn't respond within 200 ledgers", ARCHITECTURE.md:47 "Drawing -->
  Cancelled: cancel_raffle / fallback(refund)" and 109, where `finalize_raffle` is
  "Allowed (if Drawing)", STORAGE.md:75 "cleared on complete/fallback/cancel",
  CHANGELOG.md:85 "`do_refund=false` path finalizes via internal PRNG" and 137 "removed
  the redundant top-level `DrawingLock` guard". The tests at tests/draw.rs:77-92 and
  test.rs:123-132 and 1999-2055 expect the fallback to work. A sold-out Internal or
  CommitReveal raffle is stuck the same way, without any oracle: its last purchase
  takes the lock, and nothing then draws. Such raffles can only be cancelled or left
  by the emergency exit.
* `doc_selection`: a word that was accepted for one draw is used again for the next,
  so with four tickets and three tiers half of the orders of winners have no seed.
  With one or two tiers every order has one (`EveryPairPossible`), because two
  successive sizes of the deck have no common divisor.

Four more disagreements are visible in properties that hold of the code and would not
hold of what is written.

* `DrawStateAgrees` has to admit the lock and the request in a cancelled raffle:
  `cancel_raffle` (admin.rs:163-213), `execute_admin_cancel` and `emergency_withdraw`
  leave both. STORAGE.md:75 says the lock is "cleared on complete/fallback/cancel", and
  the tests `drawing_lock_cleared_after_cancel_in_drawing_state` (test.rs:2058,
  tests/draw.rs:435) expect it. `TerminalForever` shows that the stale lock and a late
  answer revive nothing.
* `NoLastLook` holds because `submit_commit` takes commitments in Active only
  (tickets.rs:705-708), as COMMIT_REVEAL.md:48-54 has it. The comments at
  tickets.rs:673 ("Commits may be submitted while the raffle is `Active` **or**
  `Drawing`") and 692 and the tests (tests/draw.rs:129-161 and 211-236,
  test.rs:1683-1685 and 1765) say Drawing too; with that window, which is the
  property's mutant, it fails.
* `AllowanceHonest` has to name the supply besides the allowance: the exported
  `get_remaining_ticket_allowance` (lib.rs:899-913) returns `u32::MAX` without a cap and
  the cap minus the tickets held otherwise. The unused views.rs:164-169 says "The result
  never exceeds the raffle-wide remaining capacity", and tests/tickets.rs:600-608
  expects 0 when the raffle is sold out.
* `Accounted` has to name the causes `page` and `ended`. RUNBOOK.md:130 says "The ledger
  checkpoint ensures we don't skip events silently" and graceful-shutdown.ts:45-46 "no
  missed events, no duplicated deliveries"; only the loss at a crash is admitted
  (RUNBOOK.md:118).

Met while reading or modelling, without a run of their own.

*Raffle.* Fees sent to the treasury stay in the fee counter and can be withdrawn a
second time, out of the prizes: with a treasury and a fee `ClaimsCovered` fails.
`cancel_raffle` is refused in PendingPrize and Failed, which ARCHITECTURE.md:112
lists as allowed. The refund of a gift goes to its owner, the FAQ (221-223) says to
the payer. Unique winners repeat when there are fewer owners than tiers.
`rescue_tokens` leaves recorded fees out after the draw. The emergency delay counts
from ledger 0 when there was no request. A tier whose share rounds to zero can be
neither claimed nor swept, so such a raffle never becomes Claimed. `get_stats`
computes gross revenue without discounts.

*Lifetimes.* STORAGE.md:236 says that a purchase refreshes "the tickets it just
minted"; `bump_touched_tickets`, which would do that, is never called, and a fresh
ticket lives until the window or a page reaches it. Entries per address are
refreshed by nobody. Without the monthly operator, tickets expire under an instance
that its purchases keep alive.

*Oracle.* A request is marked as seen before its answer is accepted, against
RUNBOOK.md:124 and 128: an answer that comes too early fails as fatal and is never
repeated. A clean shutdown can leave a poll in flight or a batch taken from the queue
behind a checkpoint that says they are done. A transaction that fails on chain leaves
its used sequence number in the cache (tx-submitter.service.ts:200), and later
submissions fail, because the error is not recognised as a sequence collision. A job
that was retried keeps its age and goes to the end of the queue, where
`evacuateUnhealthy`, which looks at the first one, does not see it
(request-queue.ts:150), so that its age is bounded only by the time since its last try
(`HealthRestored`). After a restart the listener may enqueue a job again that is
already a letter or in work, and the queue keeps both. `recordFailure` of a job that
was drained answers
`dead_lettered` although no letter is written. The alerter takes the hash of a
transaction for a secret, and the rejection, which nobody handles, ends the process.

*Factory.* `create_raffle` does not look at the global pause, although the comment at
lib.rs:133-139 says it is blocked; `trigger_next_round` ignores the creation pause,
the rate limit, the cap on Internal prizes and the factory's fee and treasury (it
takes those of `base_config`, lib.rs:116 speaks of "every new raffle instance"). The
second round of a recurring raffle has the address of the first and cannot be
deployed; the tests use generated addresses and miss it. `predict_raffle_address`
hashes a nonce that the deployment does not use. `clean_old_raffle` reads a key nobody
stores and never succeeds. `sync_admin` needs the signatures of the factory's admin
and of the raffle's old one. The volume of a leaderboard is computed from the terms
of a raffle and differs from the money taken when a gift is charged at list price or a
bundle at its own. The recipient of a gift has to authorise it, because
`track_participant` asks for its signature. The removal of a partner moves the later
ones to smaller offsets of `get_all_partners`. `raffles_created` of a profile is
always 0.

## 7. Not modelled

* Keys, signatures, VRF proofs and hashing: stateless cryptography. The hash of a
  quorum is an external function in `WinnerSelection`.
* Health, metrics, logging and process configuration; fuzz targets and scripts.
* Event payloads and attestations; queries that return one stored value.
* Of the raffle: `assert_solvent`, compiled for tests only; `set_admin`,
  `set_swap_deadline` and `update_metadata_hash`, which set fields no other call
  combines with anything; bundle prices, which change the amount of a purchase.
* Of the factory: partner statistics and creator profiles (records of independent
  fields); `sync_admin`, `pause_instance`, `unpause_instance`, `rescue_tokens` and
  `upgrade`, which forward to another contract or the host.

## 8. Plan

1. Done: `RaffleInstance`, `OraclePipeline`, `RaffleFactory` with `Timelock`,
   `WinnerSelection` with `DrawWithoutReplacement`, `RequestQueue`, `FactoryStats`,
   `TicketTtl`; the proofs of section 4, which state every safety property of the
   passing runs.
2. Left: the composition of `RaffleInstance` with `OraclePipeline`, in which the fairness
   assumed of the oracle becomes a property of its pipeline, and the liveness
   properties for all constants, which need a prover with fairness rules.
