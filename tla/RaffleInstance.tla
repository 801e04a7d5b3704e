--------------------------- MODULE RaffleInstance ---------------------------
(***************************************************************************)
(* One deployed raffle contract (contracts/raffle-instance).               *)
(*                                                                         *)
(* Every entrypoint is one atomic action: a Soroban call that returns Err  *)
(* leaves no trace, so an error path is a guard.  The contract keeps one   *)
(* token (init stores prize_token := payment_token).  Seeds and proofs are *)
(* abstracted to the choice of winning tickets they induce; authorisation  *)
(* is the identity of the caller.  One tick of "now" is one ledger.        *)
(***************************************************************************)
EXTENDS Integers, Sequences, FiniteSets, FiniteSetsExt, Functions

CONSTANTS
    Buyers,          \* addresses that buy or receive tickets
    Oracles,         \* oracle addresses: the quorum list, or candidates for oracle_address
    Source,          \* RandomnessSource of the raffle
    QuorumK,         \* threshold k of a Quorum source
    MaxTickets, MinTickets, MaxPerTx,
    MaxPerAddress,   \* max_tickets_per_address, 0 = no cap; allow_multiple = false is a cap of 1
    MaxU32,          \* u32::MAX
    TicketPrice, PrizeAmount,
    Prizes,          \* basis points of each prize tier, tier 0 of the code is tier 1 here
    InitialFeeBp,    \* protocol_fee_bp of the configuration
    FeeSettings,     \* values an admin passes to set_protocol_fee_bp
    MaxProtocolFeeBp,
    HasTreasury,     \* treasury_address is Some
    EarlyBirdPct, EarlyBirdBp,
    UniqueWinners, NoDeadline, EndTime,
    ClaimLockup, ClaimExpiry, MaxSweep,
    MinDelay,        \* RANDOMNESS_MIN_DELAY_LEDGERS
    OracleTimeout,   \* ORACLE_TIMEOUT_LEDGERS
    EmergencyDelay,  \* EMERGENCY_WITHDRAW_DELAY_SECONDS, in ledgers
    TimelockDelay,   \* TIMELOCK_DELAY_SECONDS, in ledgers
    StartLedger,     \* ledger sequence at time 0
    PauseSwitches,   \* which of "contract", "sales", "global" are used
    Amounts,         \* amounts of withdraw_fees, rescue_tokens and plain transfers
    MaxBalance,      \* bound: plain transfers to the contract stop above it
    MaxTime          \* bound on the clock

Sources == {"Internal", "External", "CommitReveal", "Quorum"}

Tiers == 1..Len(Prizes)

\* The loop that adds up what the tiers in S are given by v.
TierSum(v, S) ==
    LET sum[t \in 0..Len(Prizes)] ==
            IF t = 0 THEN 0 ELSE sum[t - 1] + (IF t \in S THEN v[t] ELSE 0)
    IN  sum[Len(Prizes)]

\* A whole, in basis points.
Whole == 10000

ASSUME SourceAssumption ==
    /\ Source \in Sources
    /\ Oracles # {}
    /\ QuorumK \in Nat

ASSUME TicketAssumption ==
    /\ MaxTickets \in Nat \ {0}
    /\ MinTickets \in 0..MaxTickets
    /\ MaxPerTx \in 1..MaxTickets
    /\ MaxPerAddress \in Nat
    /\ MaxU32 \in Nat /\ MaxTickets <= MaxU32

ASSUME MoneyAssumption ==
    /\ TicketPrice \in Nat \ {0}
    /\ PrizeAmount \in Nat \ {0}
    /\ Prizes \in Seq(0..Whole)
    /\ Len(Prizes) > 0
    /\ InitialFeeBp \in 0..Whole
    /\ FeeSettings \subseteq Nat
    /\ MaxProtocolFeeBp \in 0..Whole
    /\ EarlyBirdPct \in Nat
    /\ EarlyBirdBp \in Nat
    /\ Amounts \subseteq Nat
    /\ MaxBalance \in Nat

ASSUME FlagAssumption ==
    {HasTreasury, UniqueWinners, NoDeadline} \subseteq BOOLEAN

\* What init accepts, up to the fixed ceilings on amounts, list lengths and durations.
\* The fee of a configuration is capped at the whole only.
ValidConfig ==
    /\ IF NoDeadline THEN EndTime = 0 ELSE EndTime > 0
    /\ MaxTickets > 0 /\ MinTickets <= MaxTickets
    /\ MaxPerTx \in 1..MaxTickets
    /\ MaxPerAddress <= MaxTickets
    /\ PrizeAmount >= TicketPrice
    /\ Len(Prizes) \in 1..MaxTickets
    /\ TierSum(Prizes, Tiers) = Whole
    /\ InitialFeeBp <= Whole
    /\ InitialFeeBp > 0 => HasTreasury
    /\ Source = "External" => Oracles # {}
    /\ Source = "Quorum" => QuorumK \in 1..Cardinality(Oracles)
    /\ ClaimExpiry > ClaimLockup
    /\ EarlyBirdPct <= 100
    /\ EarlyBirdPct > 0 => EarlyBirdBp <= Whole

ASSUME ConfigAssumption == ValidConfig

ASSUME TimeAssumption ==
    {EndTime, ClaimLockup, ClaimExpiry, MaxSweep, MinDelay, OracleTimeout,
     EmergencyDelay, TimelockDelay, StartLedger, MaxTime} \subseteq Nat

VARIABLES
    status,             \* raffle.status
    prizeDeposited,     \* raffle.prize_deposited
    ticketsSold,        \* raffle.tickets_sold
    tickets,            \* DataKey::Ticket(id): owner and payer by id
    ticketCount,        \* DataKey::TicketCount(address)
    refunded,           \* ids with a DataKey::TicketRefunded marker
    commits,            \* ids with a DataKey::CommitEntry
    winners,            \* raffle.winners, with the ticket from FairnessMetadata
    finalizedAt,        \* raffle.finalized_at
    drawingLock,        \* DataKey::DrawingLock
    request,            \* DataKey::RandomnessRequestLedger; the three request keys move together
    asked,              \* oracles named in RandomnessRequested events
    oracle,             \* raffle.oracle_address
    quorumSubmitted,    \* DataKey::QuorumSubmittedOracles
    accumulatedFees,    \* DataKey::AccumulatedFees
    feeBp,              \* raffle.protocol_fee_bp
    pendingAdminCancel, \* DataKey::PendingAdminCancel
    paused,             \* DataKey::Paused
    salesPaused,        \* raffle.ticket_sales_paused
    globalPaused,       \* is_global_paused of the factory
    balance,            \* token balance of the contract
    now,                \* ledger clock
    ticketPaid,         \* history: recipients of each ticket's refund
    tierPaid,           \* history: payouts of each prize tier
    prizePaid           \* history: returns of the whole prize to the creator

saleVars   == <<tickets, ticketCount, ticketsSold>>
drawVars   == <<drawingLock, request, asked, quorumSubmitted>>
resultVars == <<winners, finalizedAt>>
pauseVars  == <<paused, salesPaused, globalPaused>>
moneyVars  == <<balance, accumulatedFees>>
paidVars   == <<ticketPaid, tierPaid, prizePaid>>

vars == <<status, prizeDeposited, ticketsSold, tickets, ticketCount, refunded,
          commits, winners, finalizedAt, drawingLock, request, asked, oracle,
          quorumSubmitted, accumulatedFees, feeBp, pendingAdminCancel, paused,
          salesPaused, globalPaused, balance, now, ticketPaid, tierPaid,
          prizePaid>>

-----------------------------------------------------------------------------
(* The lifecycle of raffle-shared: RaffleStatus and its transition table.   *)

Statuses == {"PendingPrize", "Active", "Drawing", "Finalized", "Claimed",
             "Cancelled", "Failed"}

AllowedTransitions ==
    ({"PendingPrize"} \X {"Active"})
    \cup ({"Active"} \X {"Drawing", "Failed", "Cancelled"})
    \cup ({"Drawing"} \X {"Finalized", "Cancelled"})
    \cup ({"Finalized"} \X {"Claimed"})

\* Mutant: a status is written without consulting the table.
CanTransitionAlways(from, to) == TRUE

CanTransition(from, to) == <<from, to>> \in AllowedTransitions

\* Mutant: refunds are open after a cancellation only.
RefundableIfCancelled == status = "Cancelled"

Refundable == status \in {"Cancelled", "Failed"}

None == -1

NoOracle == "NoOracle"

Ledger == StartLedger + now

-----------------------------------------------------------------------------
(* Money                                                                    *)

\* A share in basis points, rounded down and rounded up.
Share(amount, bp)   == (amount * bp) \div Whole
ShareUp(amount, bp) == (amount * bp + (Whole - 1)) \div Whole

ProtocolFee(amount) == Share(amount, feeBp)

\* claim_prize rounds its fee up.
ClaimFee(amount) == ShareUp(amount, feeBp)

\* A fee leaves for the treasury when there is one, and is recorded either way.
ToTreasury(fee) == IF HasTreasury THEN fee ELSE 0

\* The discount of calculate_buy_quote looks at tickets_sold before the purchase.
Discount(q) ==
    IF /\ EarlyBirdBp > 0
       /\ EarlyBirdPct > 0
       /\ ticketsSold < (MaxTickets * EarlyBirdPct) \div 100
    THEN Share(TicketPrice * q, EarlyBirdBp)
    ELSE 0

NetToPay(q) == TicketPrice * q - Discount(q)

TierPrize(t) == Share(PrizeAmount, Prizes[t])

TierTotal(S) == TierSum([t \in Tiers |-> TierPrize(t)], S)

Unclaimed == {t \in DOMAIN winners : ~winners[t].claimed}

Unrefunded == (1..ticketsSold) \ refunded

OutstandingTicketRefunds == TicketPrice * Cardinality(Unrefunded)

\* Mutant: a drawn raffle is taken to owe nothing.
OutstandingPrizeBeforeDraw ==
    IF prizeDeposited /\ status # "Finalized" THEN PrizeAmount ELSE 0

OutstandingPrize ==
    IF ~prizeDeposited THEN 0
    ELSE IF status # "Finalized" THEN PrizeAmount ELSE TierTotal(Unclaimed)

\* Mutant: the ticket payments are taken to be surplus.
TokenEntitlementPrizeOnly == OutstandingPrize

\* Mutant: the prize is taken to be surplus.
TokenEntitlementPaymentsOnly == OutstandingTicketRefunds + accumulatedFees

TokenEntitlement ==
    (IF status \in {"Finalized", "Claimed"}
     THEN 0
     ELSE OutstandingTicketRefunds + accumulatedFees) + OutstandingPrize

-----------------------------------------------------------------------------
(* init stores the validated configuration; oracle_address is set only for  *)
(* an External source.                                                       *)

Init ==
    /\ status = "PendingPrize"
    /\ prizeDeposited = FALSE
    /\ ticketsSold = 0
    /\ tickets = << >>
    /\ ticketCount = [b \in Buyers |-> 0]
    /\ refunded = {}
    /\ commits = {}
    /\ winners = << >>
    /\ finalizedAt = None
    /\ drawingLock = FALSE
    /\ request = None
    /\ asked = {}
    /\ oracle \in (IF Source = "External" THEN Oracles ELSE {NoOracle})
    /\ quorumSubmitted = {}
    /\ accumulatedFees = 0
    /\ feeBp = InitialFeeBp
    /\ pendingAdminCancel = None
    /\ paused = FALSE
    /\ salesPaused = FALSE
    /\ globalPaused = FALSE
    /\ balance = 0
    /\ now = 0
    /\ ticketPaid = [i \in 1..MaxTickets |-> << >>]
    /\ tierPaid = [t \in Tiers |-> 0]
    /\ prizePaid = 0

RequireNotPaused == ~paused

\* is_global_paused is asked of the factory at every call.
RequireGlobalNotPaused == ~globalPaused

DepositPrize ==
    /\ RequireNotPaused
    /\ ~prizeDeposited
    /\ CanTransition(status, "Active")
    /\ prizeDeposited' = TRUE
    /\ status' = "Active"
    /\ balance' = balance + PrizeAmount
    /\ UNCHANGED <<saleVars, refunded, commits, resultVars, drawVars, oracle,
                   accumulatedFees, feeBp, pendingAdminCancel, pauseVars, now,
                   paidVars>>

-----------------------------------------------------------------------------
(* Ticket sales                                                             *)

\* Mutant: the draw starts without taking the lock.
TransitionToDrawingUnlocked ==
    /\ CanTransition(status, "Drawing")
    /\ status' = "Drawing"
    /\ UNCHANGED drawingLock

TransitionToDrawing ==
    /\ ~drawingLock
    /\ status # "Drawing"
    /\ CanTransition(status, "Drawing")
    /\ status' = "Drawing"
    /\ drawingLock' = TRUE

\* Mutant: the request reaches only one of the oracles it is meant for.
RequestRandomnessOfOne(os) ==
    /\ request = None
    /\ request' = Ledger
    /\ asked' = asked \cup {CHOOSE o \in os : TRUE}

RequestRandomness(os) ==
    /\ request = None
    /\ request' = Ledger
    /\ asked' = asked \cup os

\* Mutant: the supply is checked before the quantity is added.
CanBuyPastSupply(owner, q) ==
    /\ q \in 1..MaxPerTx
    /\ status = "Active"
    /\ ticketsSold < MaxTickets

\* The preconditions, the supply and the per-address cap of both purchases.
CanBuy(owner, q) ==
    /\ ~drawingLock
    /\ q \in 1..MaxPerTx
    /\ RequireNotPaused
    /\ RequireGlobalNotPaused
    /\ status = "Active"
    /\ ~salesPaused
    /\ prizeDeposited
    /\ NoDeadline \/ now < EndTime
    /\ ticketsSold + q <= MaxTickets
    /\ MaxPerAddress > 0 => ticketCount[owner] + q <= MaxPerAddress

\* Mutant: selling the last ticket does not ask the oracle.
AfterSaleUnasked(sold) ==
    /\ IF sold >= MaxTickets THEN TransitionToDrawing ELSE UNCHANGED <<status, drawingLock>>
    /\ UNCHANGED <<request, asked>>

\* Selling the last ticket starts the draw, and asks the oracle of an External
\* source at once.
AfterSale(sold) ==
    IF sold >= MaxTickets
    THEN /\ TransitionToDrawing
         /\ IF Source = "External"
            THEN RequestRandomness({oracle})
            ELSE UNCHANGED <<request, asked>>
    ELSE UNCHANGED <<status, drawingLock, request, asked>>

\* Mutant: a gift counts against the payer.
CreditPayer(payer, owner, q) == ticketCount' = [ticketCount EXCEPT ![payer] = @ + q]

Credit(payer, owner, q) == ticketCount' = [ticketCount EXCEPT ![owner] = @ + q]

\* The token refuses a negative amount.
Sell(payer, owner, q, price) ==
    /\ CanBuy(owner, q)
    /\ price >= 0
    /\ balance' = balance + price - ToTreasury(ProtocolFee(price))
    /\ accumulatedFees' = accumulatedFees + ProtocolFee(price)
    /\ tickets' = tickets \o [i \in 1..q |-> [owner |-> owner, payer |-> payer]]
    /\ Credit(payer, owner, q)
    /\ ticketsSold' = ticketsSold + q
    /\ AfterSale(ticketsSold + q)
    /\ UNCHANGED <<prizeDeposited, refunded, commits, resultVars, oracle,
                   quorumSubmitted, feeBp, pendingAdminCancel, pauseVars, now,
                   paidVars>>

BuyTickets(buyer, q) == Sell(buyer, buyer, q, NetToPay(q))

\* A gift is charged the list price, without the early-bird discount.
BuyTicketsFor(buyer, recipient, q) == Sell(buyer, recipient, q, TicketPrice * q)

\* Mutant: the window the comment on submit_commit describes.
CommitWindowAsCommented == status \in {"Active", "Drawing"}

CommitWindow == status = "Active"

SubmitCommit(i) ==
    /\ Source = "CommitReveal"
    /\ CommitWindow
    /\ RequireNotPaused
    /\ RequireGlobalNotPaused
    /\ i \in DOMAIN tickets
    /\ i \notin commits
    /\ commits' = commits \cup {i}
    /\ UNCHANGED <<status, prizeDeposited, saleVars, refunded, resultVars,
                   drawVars, oracle, moneyVars, feeBp, pendingAdminCancel,
                   pauseVars, now, paidVars>>

-----------------------------------------------------------------------------
(* What a buyer can ask beforehand                                          *)

\* get_remaining_ticket_allowance: u32::MAX without a cap, and otherwise what the cap
\* leaves, stopping at zero.  What is left of the supply does not enter.
RemainingTicketAllowance(owner) ==
    IF MaxPerAddress = 0 THEN MaxU32 ELSE Max({MaxPerAddress - ticketCount[owner], 0})

-----------------------------------------------------------------------------
(* The draw                                                                 *)

\* Mutant: no probing.
ResolveNothing(taken, candidate) == candidate

\* resolve_unique_winner: probe forward from the candidate to the first ticket
\* whose owner has not won yet; the candidate itself when there is none.
ResolveUniqueWinner(taken, candidate) ==
    LET probe(k) == ((candidate - 1 + k) % ticketsSold) + 1
        free == {k \in 0..(ticketsSold - 1) : tickets[probe(k)].owner \notin taken}
    IN  IF free = {} THEN candidate ELSE probe(Min(free))

\* The winning tickets some seed leads to: distinct indices, then the probing.
Draws ==
    {win \in [Tiers -> 1..ticketsSold] :
        IF UniqueWinners
        THEN \E idx \in Injection(Tiers, 1..ticketsSold) : \A t \in Tiers :
                win[t] = ResolveUniqueWinner(
                            {tickets[win[s]].owner : s \in 1..(t - 1)}, idx[t])
        ELSE IsInjective(win)}

ClearRequest ==
    /\ request' = None
    /\ quorumSubmitted' = {}
    /\ drawingLock' = FALSE

\* do_finalize_with_seed, called with the status the raffle has by then.
DoFinalize(from) ==
    /\ ticketsSold > 0
    /\ Len(Prizes) <= ticketsSold
    /\ CanTransition(from, "Finalized")
    /\ \E win \in Draws :
          winners' = [t \in Tiers |-> [address |-> tickets[win[t]].owner,
                                       ticket  |-> win[t],
                                       claimed |-> FALSE]]
    /\ finalizedAt' = now
    /\ status' = "Finalized"
    /\ ClearRequest

FinalizeReady ==
    /\ ~drawingLock
    /\ status \in {"Active", "Drawing"}
    /\ status = "Active" => \/ ~NoDeadline /\ now >= EndTime
                            \/ ticketsSold >= MaxTickets

TooFewTickets == ticketsSold = 0 \/ ticketsSold < MinTickets

FinalizeFailed ==
    /\ FinalizeReady
    /\ TooFewTickets
    /\ CanTransition(status, "Failed")
    /\ status' = "Failed"
    /\ UNCHANGED <<prizeDeposited, saleVars, refunded, commits, resultVars,
                   drawVars, oracle, moneyVars, feeBp, pendingAdminCancel,
                   pauseVars, now, paidVars>>

\* External and Quorum sources: the draw waits for the oracles.
FinalizeRequest ==
    /\ FinalizeReady
    /\ ~TooFewTickets
    /\ TransitionToDrawing
    /\ \/ /\ Source = "External"
          /\ RequestRandomness({oracle})
          /\ UNCHANGED quorumSubmitted
       \/ /\ Source = "Quorum"
          /\ RequestRandomness(Oracles)
          /\ quorumSubmitted' = {}
    /\ UNCHANGED <<prizeDeposited, saleVars, refunded, commits, resultVars,
                   oracle, moneyVars, feeBp, pendingAdminCancel, pauseVars,
                   now, paidVars>>

\* Internal and CommitReveal sources: drawn in the same call.
FinalizeDraw ==
    /\ FinalizeReady
    /\ ~TooFewTickets
    /\ Source \in {"Internal", "CommitReveal"}
    /\ status # "Drawing"
    /\ CanTransition(status, "Drawing")
    /\ DoFinalize("Drawing")
    /\ UNCHANGED <<prizeDeposited, saleVars, refunded, commits, asked, oracle,
                   moneyVars, feeBp, pendingAdminCancel, pauseVars, now,
                   paidVars>>

FinalizeRaffle == FinalizeFailed \/ FinalizeRequest \/ FinalizeDraw

\* The answer of the single oracle.  The oracle_address that counts is the
\* current one, whichever oracle the request named.
ProvideRandomness(o) ==
    /\ drawingLock
    /\ Source # "Quorum"
    /\ o = oracle
    /\ status = "Drawing"
    /\ request # None
    /\ Ledger >= request + MinDelay
    /\ DoFinalize(status)
    /\ UNCHANGED <<prizeDeposited, saleVars, refunded, commits, asked, oracle,
                   moneyVars, feeBp, pendingAdminCancel, pauseVars, now,
                   paidVars>>

\* The threshold, counting the seed being submitted.
QuorumReached == Cardinality(quorumSubmitted) + 1 >= QuorumK

\* A quorum oracle's seed.  The entrypoint does not look at the status: only
\* the seed that completes the quorum runs into the transition check.
ProvideQuorumRandomness(o) ==
    /\ drawingLock
    /\ request # None
    /\ Source = "Quorum"
    /\ o \in Oracles
    /\ o \notin quorumSubmitted
    /\ IF QuorumReached
       THEN DoFinalize(status)
       ELSE /\ quorumSubmitted' = quorumSubmitted \cup {o}
            /\ UNCHANGED <<status, resultVars, drawingLock, request>>
    /\ UNCHANGED <<prizeDeposited, saleVars, refunded, commits, asked, oracle,
                   moneyVars, feeBp, pendingAdminCancel, pauseVars, now,
                   paidVars>>

\* What trigger_randomness_fallback checks before it acts.
FallbackGuard ==
    /\ ~drawingLock
    /\ status = "Drawing"
    /\ request # None
    /\ Ledger >= request + OracleTimeout

\* trigger_randomness_fallback by creator or admin: a cancellation, or a draw from an
\* internal seed.  No reachable state satisfies its guard (OnlyOraclesFinish), so Next
\* leaves it out; NextWithFallback has it.
TriggerRandomnessFallback(refund) ==
    /\ FallbackGuard
    /\ IF refund
       THEN /\ CanTransition(status, "Cancelled")
            /\ status' = "Cancelled"
            /\ request' = None
            /\ drawingLock' = FALSE
            /\ UNCHANGED <<resultVars, quorumSubmitted>>
       ELSE DoFinalize(status)
    /\ UNCHANGED <<prizeDeposited, saleVars, refunded, commits, asked, oracle,
                   moneyVars, feeBp, pendingAdminCancel, pauseVars, now,
                   paidVars>>

-----------------------------------------------------------------------------
(* Settlement                                                               *)

\* Mutant: the winner list is rebuilt with fresh claim flags.
ClaimedAfresh(S) ==
    [t \in DOMAIN winners |-> [winners[t] EXCEPT !.claimed = (t \in S)]]

Claimed(S) ==
    [t \in DOMAIN winners |->
        IF t \in S THEN [winners[t] EXCEPT !.claimed = TRUE] ELSE winners[t]]

\* claim_prize and sweep_unclaimed: the last claim settles the raffle.
MarkClaimed(S) ==
    /\ winners' = Claimed(S)
    /\ tierPaid' = [t \in Tiers |-> IF t \in S THEN tierPaid[t] + 1 ELSE tierPaid[t]]
    /\ IF Unclaimed \subseteq S
       THEN CanTransition(status, "Claimed") /\ status' = "Claimed"
       ELSE UNCHANGED status

\* claim_prize by the address of the tier's winner.
ClaimPrize(t) ==
    /\ status = "Finalized"
    /\ now >= finalizedAt + ClaimLockup
    /\ t \in Unclaimed
    /\ TierPrize(t) > 0
    /\ balance >= TierPrize(t)
    /\ MarkClaimed({t})
    /\ LET fee == ClaimFee(TierPrize(t)) IN
          /\ balance' = balance - (TierPrize(t) - fee) - ToTreasury(fee)
          /\ accumulatedFees' = accumulatedFees + fee
    /\ UNCHANGED <<prizeDeposited, saleVars, refunded, commits, finalizedAt,
                   drawVars, oracle, feeBp, pendingAdminCancel, pauseVars, now,
                   ticketPaid, prizePaid>>

\* The tiers one page of sweep_unclaimed pays out; limit 0 is a full page.
SweepPage(start, limit) ==
    LET size == IF limit = 0 \/ limit > MaxSweep THEN MaxSweep ELSE limit
    IN  {t \in Unclaimed : t > start /\ t <= start + size /\ TierPrize(t) > 0}

\* A page with nothing to pay leaves everything as it is.
SweepUnclaimed(start, limit) ==
    /\ status = "Finalized"
    /\ ClaimExpiry # 0
    /\ now >= finalizedAt + ClaimExpiry
    /\ HasTreasury
    /\ LET page == SweepPage(start, limit) IN
          /\ page # {}
          /\ balance >= TierTotal(page)
          /\ MarkClaimed(page)
          /\ balance' = balance - TierTotal(page)
    /\ UNCHANGED <<prizeDeposited, saleVars, refunded, commits, finalizedAt,
                   drawVars, oracle, accumulatedFees, feeBp,
                   pendingAdminCancel, pauseVars, now, ticketPaid, prizePaid>>

\* Mutant: the prize is sent and stays on the books.
ReturnPrizeUnmarked ==
    /\ balance >= PrizeAmount
    /\ balance' = balance - PrizeAmount
    /\ prizePaid' = prizePaid + 1
    /\ UNCHANGED prizeDeposited

ReturnPrize ==
    /\ balance >= PrizeAmount
    /\ balance' = balance - PrizeAmount
    /\ prizePaid' = prizePaid + 1
    /\ prizeDeposited' = FALSE

RefundPrize ==
    /\ Refundable
    /\ prizeDeposited
    /\ ReturnPrize
    /\ UNCHANGED <<status, saleVars, refunded, commits, resultVars, drawVars,
                   oracle, accumulatedFees, feeBp, pendingAdminCancel,
                   pauseVars, now, ticketPaid, tierPaid>>

\* Pay the list price of every ticket of S to the address "to" names.
PayRefunds(S, to) ==
    /\ balance >= TicketPrice * Cardinality(S)
    /\ refunded' = refunded \cup S
    /\ balance' = balance - TicketPrice * Cardinality(S)
    /\ ticketPaid' = [i \in 1..MaxTickets |->
                         IF i \in S THEN Append(ticketPaid[i], to[i])
                                    ELSE ticketPaid[i]]
    /\ UNCHANGED <<status, prizeDeposited, saleVars, commits, resultVars,
                   drawVars, oracle, accumulatedFees, feeBp,
                   pendingAdminCancel, pauseVars, now, tierPaid, prizePaid>>

\* Mutant: the refund marker is not looked at.
RefundTicketAgain(i) ==
    /\ Refundable
    /\ i \in DOMAIN tickets
    /\ PayRefunds({i}, [j \in {i} |-> tickets[j].owner])

\* refund_ticket: authorised by the payer, paid to the owner.
RefundTicket(i) ==
    /\ Refundable
    /\ i \in DOMAIN tickets
    /\ i \notin refunded
    /\ PayRefunds({i}, [j \in {i} |-> tickets[j].owner])

\* batch_refund_tickets: by payer or owner of every ticket listed; those
\* already refunded are skipped, the others are paid to their payers.
BatchRefundTickets(caller, ids) ==
    /\ Refundable
    /\ ids \subseteq DOMAIN tickets
    /\ \A i \in ids : caller \in {tickets[i].payer, tickets[i].owner}
    /\ ids \ refunded # {}
    /\ PayRefunds(ids \ refunded, [j \in ids |-> tickets[j].payer])

-----------------------------------------------------------------------------
(* Administration                                                           *)

\* Mutant: a drawn raffle can still be cancelled.
CancelFromDrawn(s) == s \notin {"Cancelled", "Claimed", "PendingPrize"}

CancelFrom(s) == s \notin {"Finalized", "Cancelled", "Claimed"} /\ CanTransition(s, "Cancelled")

\* cancel_raffle by the creator.  Lock and request are left as they are.
CancelRaffle ==
    /\ CancelFrom(status)
    /\ status' = "Cancelled"
    /\ UNCHANGED <<prizeDeposited, saleVars, refunded, commits, resultVars,
                   drawVars, oracle, moneyVars, feeBp, pendingAdminCancel,
                   pauseVars, now, paidVars>>

\* cancel_raffle with AdminCancelled, in any status.
ScheduleAdminCancel ==
    /\ pendingAdminCancel' = now + TimelockDelay
    /\ UNCHANGED <<status, prizeDeposited, saleVars, refunded, commits,
                   resultVars, drawVars, oracle, moneyVars, feeBp, pauseVars,
                   now, paidVars>>

ExecuteAdminCancel ==
    /\ pendingAdminCancel # None
    /\ now >= pendingAdminCancel
    /\ CancelFrom(status)
    /\ status' = "Cancelled"
    /\ pendingAdminCancel' = None
    /\ UNCHANGED <<prizeDeposited, saleVars, refunded, commits, resultVars,
                   drawVars, oracle, moneyVars, feeBp, pauseVars, now,
                   paidVars>>

\* pause and unpause (factory), pause_ticket_sales and resume_ticket_sales
\* (creator or admin), emergency_pause_all and its inverse (factory storage).
SetPaused(on) ==
    /\ "contract" \in PauseSwitches
    /\ paused' = on
    /\ UNCHANGED <<salesPaused, globalPaused>>

SetSalesPaused(on) ==
    /\ "sales" \in PauseSwitches
    /\ status = "Active"
    /\ salesPaused' = on
    /\ UNCHANGED <<paused, globalPaused>>

\* emergency_pause_all and emergency_unpause_all of the factory.
SetGlobalPaused(on) ==
    /\ "global" \in PauseSwitches
    /\ globalPaused' = on
    /\ UNCHANGED <<paused, salesPaused>>

PauseSwitch(on) ==
    /\ SetPaused(on) \/ SetSalesPaused(on) \/ SetGlobalPaused(on)
    /\ UNCHANGED <<status, prizeDeposited, saleVars, refunded, commits,
                   resultVars, drawVars, oracle, moneyVars, feeBp,
                   pendingAdminCancel, now, paidVars>>

SetProtocolFeeBp(f) ==
    /\ f <= MaxProtocolFeeBp
    /\ ticketsSold = 0
    /\ feeBp' = f
    /\ UNCHANGED <<status, prizeDeposited, saleVars, refunded, commits,
                   resultVars, drawVars, oracle, moneyVars,
                   pendingAdminCancel, pauseVars, now, paidVars>>

UpdateOracleAddress(o) ==
    /\ Source = "External"
    /\ status \notin {"Finalized", "Claimed", "Cancelled"}
    /\ oracle' = o
    /\ UNCHANGED <<status, prizeDeposited, saleVars, refunded, commits,
                   resultVars, drawVars, moneyVars, feeBp, pendingAdminCancel,
                   pauseVars, now, paidVars>>

WithdrawFees(amount) ==
    /\ status \in {"Finalized", "Claimed"}
    /\ amount > 0
    /\ amount <= accumulatedFees
    /\ amount <= balance
    /\ balance' = balance - amount
    /\ accumulatedFees' = accumulatedFees - amount
    /\ UNCHANGED <<status, prizeDeposited, saleVars, refunded, commits,
                   resultVars, drawVars, oracle, feeBp, pendingAdminCancel,
                   pauseVars, now, paidVars>>

\* Take "amount" of the contract's token, leaving the books as they are.
TakeOut(amount) ==
    /\ balance' = balance - amount
    /\ UNCHANGED <<status, prizeDeposited, saleVars, refunded, commits,
                   resultVars, drawVars, oracle, accumulatedFees, feeBp,
                   pendingAdminCancel, pauseVars, now, paidVars>>

\* rescue_tokens of the configured token: only what exceeds the entitlement.
RescueTokens(amount) ==
    /\ amount > 0
    /\ TokenEntitlement <= balance
    /\ amount <= balance - TokenEntitlement
    /\ TakeOut(amount)

FullyRefunded == ~prizeDeposited /\ Unrefunded = {}

SweepDust ==
    /\ status \in {"Claimed", "Cancelled"}
    /\ status = "Cancelled" => FullyRefunded
    /\ HasTreasury
    /\ balance > TokenEntitlement
    /\ TakeOut(balance - TokenEntitlement)

\* A transfer to the contract's address outside any entrypoint.
Donate(amount) ==
    /\ amount > 0
    /\ balance + amount <= MaxBalance
    /\ TakeOut(-amount)

\* wipe_storage removes the settled records and the transient keys; the quorum
\* seeds, looked up in the wrong storage, stay.
WipeStorage ==
    /\ status \in {"Cancelled", "Claimed", "Failed"}
    /\ status \in {"Cancelled", "Failed"} => FullyRefunded
    /\ balance = 0
    /\ tickets' = << >>
    /\ ticketCount' = [b \in Buyers |-> 0]
    /\ refunded' = {}
    /\ commits' = {}
    /\ paused' = FALSE
    /\ accumulatedFees' = 0
    /\ request' = None
    /\ drawingLock' = FALSE
    /\ pendingAdminCancel' = None
    /\ UNCHANGED <<status, prizeDeposited, ticketsSold, resultVars, asked,
                   oracle, quorumSubmitted, feeBp, salesPaused, globalPaused,
                   balance, now, paidVars>>

\* The delay runs from end_time, or from the request ledger (0 when there is no
\* request) for a raffle without a deadline.
EmergencyDue ==
    IF NoDeadline
    THEN Ledger - (IF request = None THEN 0 ELSE request) >= EmergencyDelay
    ELSE now >= EndTime + EmergencyDelay

EmergencyWithdraw ==
    /\ prizeDeposited
    /\ status = "Drawing"
    /\ EmergencyDue
    /\ balance >= TokenEntitlement
    /\ CanTransition(status, "Cancelled")
    /\ status' = "Cancelled"
    /\ ReturnPrize
    /\ UNCHANGED <<saleVars, refunded, commits, resultVars, drawVars, oracle,
                   accumulatedFees, feeBp, pendingAdminCancel, pauseVars, now,
                   ticketPaid, tierPaid>>

Tick ==
    /\ now < MaxTime
    /\ now' = now + 1
    /\ UNCHANGED <<status, prizeDeposited, saleVars, refunded, commits,
                   resultVars, drawVars, oracle, moneyVars, feeBp,
                   pendingAdminCancel, pauseVars, paidVars>>

-----------------------------------------------------------------------------
Purchase ==
    \E b \in Buyers, q \in 1..MaxPerTx :
       \/ BuyTickets(b, q)
       \/ \E r \in Buyers \ {b} : BuyTicketsFor(b, r, q)

Answer == \E o \in Oracles : ProvideRandomness(o) \/ ProvideQuorumRandomness(o)

Settle ==
    \/ \E t \in Tiers : ClaimPrize(t)
    \/ \E start \in 0..(Len(Prizes) - 1), limit \in 0..Len(Prizes) :
          SweepUnclaimed(start, limit)
    \/ RefundPrize
    \/ \E i \in 1..MaxTickets : RefundTicket(i)
    \/ \E b \in Buyers, ids \in SUBSET (1..MaxTickets) : BatchRefundTickets(b, ids)

Administer ==
    \/ CancelRaffle
    \/ ScheduleAdminCancel
    \/ ExecuteAdminCancel
    \/ \E on \in BOOLEAN : PauseSwitch(on)
    \/ \E f \in FeeSettings : SetProtocolFeeBp(f)
    \/ \E o \in Oracles : UpdateOracleAddress(o)
    \/ \E a \in Amounts : WithdrawFees(a) \/ RescueTokens(a) \/ Donate(a)
    \/ SweepDust
    \/ WipeStorage
    \/ EmergencyWithdraw

Next ==
    \/ DepositPrize
    \/ Purchase
    \/ \E i \in 1..MaxTickets : SubmitCommit(i)
    \/ FinalizeRaffle
    \/ Answer
    \/ Settle
    \/ Administer
    \/ Tick

Spec == Init /\ [][Next]_vars

\* Fairness.  Ledgers keep closing; an oracle that was named in a request event
\* and is accepted by the contract submits its answer.
OracleFairness ==
    /\ WF_vars(Tick)
    /\ \A o \in Oracles :
          /\ WF_vars(o \in asked /\ ProvideRandomness(o))
          /\ WF_vars(o \in asked /\ ProvideQuorumRandomness(o))

\* The creator finalizes what can be finalized and calls for the fallback when the
\* oracle has not answered in time.
Fallback == \E refund \in BOOLEAN : TriggerRandomnessFallback(refund)

NextWithFallback == Next \/ Fallback

RescueFairness == WF_vars(FinalizeRaffle) /\ WF_vars(Fallback)

\* The creator, every payer and every winner collect what is due to them.
CollectFairness ==
    /\ WF_vars(RefundPrize)
    /\ \A i \in 1..MaxTickets : WF_vars(RefundTicket(i))
    /\ \A t \in Tiers : WF_vars(ClaimPrize(t))

FairSpec   == Spec /\ OracleFairness /\ CollectFairness
RescueSpec == Init /\ [][NextWithFallback]_vars /\ OracleFairness /\ RescueFairness

-----------------------------------------------------------------------------
(* Properties                                                               *)

Ticket == [owner : Buyers, payer : Buyers]
Winner == [address : Buyers, ticket : 1..MaxTickets, claimed : BOOLEAN]

SaleType ==
    /\ ticketsSold \in 0..MaxTickets
    /\ tickets \in Seq(Ticket)
    /\ Len(tickets) <= ticketsSold
    /\ ticketCount \in [Buyers -> Nat]
    /\ refunded \subseteq 1..ticketsSold
    /\ commits \subseteq 1..ticketsSold

DrawType ==
    /\ status \in Statuses
    /\ winners = << >> \/ winners \in [Tiers -> Winner]
    /\ finalizedAt \in Nat \cup {None}
    /\ request \in Nat \cup {None}
    /\ asked \subseteq Oracles \cup {NoOracle}
    /\ oracle \in Oracles \cup {NoOracle}
    /\ quorumSubmitted \subseteq Oracles

MoneyType ==
    /\ balance \in Nat
    /\ accumulatedFees \in Nat
    /\ feeBp \in 0..Whole

FlagType ==
    /\ prizeDeposited \in BOOLEAN
    /\ drawingLock \in BOOLEAN
    /\ paused \in BOOLEAN
    /\ salesPaused \in BOOLEAN
    /\ globalPaused \in BOOLEAN

ClockType ==
    /\ now \in 0..MaxTime
    /\ pendingAdminCancel \in Nat \cup {None}

PaidType ==
    /\ ticketPaid \in [1..MaxTickets -> Seq(Buyers)]
    /\ tierPaid \in [Tiers -> Nat]
    /\ prizePaid \in Nat

\* Every variable holds a value its storage key can have; no more tickets exist
\* than the supply allows, whatever the purchases were.
TypeOK ==
    SaleType /\ DrawType /\ MoneyType /\ FlagType /\ ClockType /\ PaidType

\* The keys the draw entrypoints consult one by one agree with the status: a
\* raffle being drawn is locked and, with a single oracle, has asked it; the lock
\* and a request exist nowhere else but in a raffle cancelled during its draw
\* (cancel_raffle and emergency_withdraw do not remove them, although
\* docs/STORAGE.md and two tests expect it); and winners exist exactly after a draw.
DrawStateAgrees ==
    /\ status = "Drawing" => drawingLock
    /\ status = "Drawing" /\ Source = "External" => request # None
    /\ drawingLock => status \in {"Drawing", "Cancelled"}
    /\ request # None => drawingLock /\ request <= Ledger
    /\ (winners # << >>) <=> (status \in {"Finalized", "Claimed"})
    /\ (finalizedAt # None) <=> (winners # << >>)

\* A draw in progress is in the hands of the oracles: in no reachable state with
\* status Drawing do finalize_raffle or trigger_randomness_fallback get past their
\* checks, however the draw began and however long it waits, because both refuse the
\* lock that every draw holds.  DrawFinishes states what the documents say instead.
OnlyOraclesFinish == status = "Drawing" => ~FinalizeReady /\ ~FallbackGuard

\* Ticket records are dense and complete until a settled raffle is wiped.
TicketsStored ==
    status \notin {"Cancelled", "Claimed", "Failed"} => Len(tickets) = ticketsSold

\* The markers the contract decides by (claimed, TicketRefunded, prize_deposited)
\* say exactly what was paid out, and nothing is paid back before the raffle is
\* cancelled or failed.
MarkersAgree ==
    /\ \A t \in Tiers : tierPaid[t] = IF winners # << >> /\ winners[t].claimed THEN 1 ELSE 0
    /\ \A i \in DOMAIN tickets : Len(ticketPaid[i]) = IF i \in refunded THEN 1 ELSE 0
    /\ prizePaid = IF status # "PendingPrize" /\ ~prizeDeposited THEN 1 ELSE 0
    /\ ~Refundable => prizePaid = 0 /\ \A i \in 1..MaxTickets : ticketPaid[i] = << >>

\* However claims, sweeps, refunds, batches and the emergency exit interleave,
\* no tier, no ticket and no prize is paid out twice.
PaidOnce ==
    /\ \A t \in Tiers : tierPaid[t] <= 1
    /\ \A i \in 1..MaxTickets : Len(ticketPaid[i]) <= 1
    /\ prizePaid <= 1

\* A raffle is settled one way: once a winner was paid, no ticket and no prize
\* is ever refunded, and the other way round.
OneSettlement ==
    (\E t \in Tiers : tierPaid[t] > 0) =>
        prizePaid = 0 /\ \A i \in 1..MaxTickets : ticketPaid[i] = << >>

\* While tickets are sold or drawn the whole prize is in the contract, with any
\* fee, discount, rescue of tokens or pause in between.
PrizeEscrowed ==
    status \in {"Active", "Drawing"} => prizeDeposited /\ balance >= PrizeAmount

\* What an open, cancelled or failed raffle still owes, judged by what was paid
\* and not by the contract's own markers.
Unpaid == {i \in 1..ticketsSold : ticketPaid[i] = << >>}

PrizeOwed == IF status # "PendingPrize" /\ prizePaid = 0 THEN PrizeAmount ELSE 0

\* Until winners are drawn the contract can pay back every ticket at its list
\* price and the prize, in any order (refund_ticket, refund_prize).
RefundsCovered ==
    status \notin {"Finalized", "Claimed"} =>
        balance >= TicketPrice * Cardinality(Unpaid) + PrizeOwed

\* After the draw the contract can pay every tier nobody was paid for, whatever
\* the admin withdrew, rescued or swept (claim_prize).
ClaimsCovered ==
    status = "Finalized" => balance >= TierTotal({t \in Tiers : tierPaid[t] = 0})

\* The allowance the contract reports is right, whoever paid: with a cap, it and the
\* tickets recorded for an address make up the cap; and as long as sales are open a
\* purchase is accepted exactly when it fits in the allowance and in the supply
\* (get_remaining_ticket_allowance, buy_tickets, buy_tickets_for).
AllowanceHonest ==
    \A b \in Buyers :
        LET held == Cardinality({i \in DOMAIN tickets : tickets[i].owner = b})
            left == RemainingTicketAllowance(b)
        IN  /\ MaxPerAddress > 0 => held + left = MaxPerAddress
            /\ /\ status = "Active"
               /\ NoDeadline \/ now < EndTime
               /\ ~paused /\ ~salesPaused /\ ~globalPaused
               => \A q \in 1..MaxPerTx :
                     CanBuy(b, q) <=> q <= left /\ ticketsSold + q <= MaxTickets

\* With unique_winners, as long as there are as many ticket owners as tiers,
\* the probing finds a different address for every tier.
UniqueWhenPossible ==
    LET owners == {tickets[i].owner : i \in DOMAIN tickets}
    IN  UniqueWinners /\ winners # << >> /\ Cardinality(owners) >= Len(Prizes) =>
            \A s, t \in Tiers : winners[s].address = winners[t].address => s = t

\* Winners, once drawn, keep their tier and their ticket for ever, and a tier
\* once claimed stays claimed.
OutcomeFixed ==
    [][winners # << >> =>
          /\ finalizedAt' = finalizedAt
          /\ DOMAIN winners' = DOMAIN winners
          /\ \A t \in DOMAIN winners :
                /\ winners'[t].address = winners[t].address
                /\ winners'[t].ticket = winners[t].ticket
                /\ winners[t].claimed => winners'[t].claimed]_vars

\* No last look: from the moment the draw begins, and in the call that draws,
\* neither the tickets nor the commitments the seed depends on can change.
NoLastLook ==
    [][status = "Drawing" \/ status' = "Finalized" =>
          UNCHANGED <<tickets, ticketsSold, ticketCount, commits>>]_vars

\* A settled or abandoned raffle stays so: an oracle's late answer neither
\* revives it nor draws winners.
TerminalForever ==
    [][(status \in {"Cancelled", "Failed", "Claimed"}) =>
          status' = status /\ (winners = << >> => winners' = << >>)]_vars

\* A draw that asked its oracles is completed or cancelled.  The premise leaves
\* out requests so late that the minimum delay ends after the modelled time.
RequestInTime == request # None /\ request + MinDelay <= StartLedger + MaxTime

DrawAnswered ==
    (status = "Drawing" /\ RequestInTime) ~> (status # "Drawing")

\* A draw, however it was started, leaves Drawing when the oracles that were asked
\* answer and the creator does what the documents offer for a stuck draw:
\* finalize_raffle, listed as allowed in Drawing, and after the timeout the fallback.
\* The premise leaves out draws too late for the modelled time.
DrawFinishes ==
    (status = "Drawing" /\ now + OracleTimeout <= MaxTime) ~> (status # "Drawing")

\* A raffle does not get stuck on the way out.  After a cancellation or a failure
\* every ticket and the prize are paid back; after a draw every tier is paid, by
\* claim or sweep in any order, and the last one settles the raffle.  A tier whose
\* share rounds to zero can be neither claimed nor swept, hence the premise; the
\* other one leaves out draws too late for the lockup to end in the modelled time.
SettlementCompletes ==
    /\ (status \in {"Cancelled", "Failed"}) ~> (Unpaid = {} /\ prizePaid = 1)
    /\ (/\ status = "Finalized"
        /\ finalizedAt + ClaimLockup <= MaxTime
        /\ \A t \in Tiers : TierPrize(t) > 0)
       ~> (status = "Claimed" /\ \A t \in Tiers : tierPaid[t] = 1)

=============================================================================
