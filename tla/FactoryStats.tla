---------------------------- MODULE FactoryStats ----------------------------
(***************************************************************************)
(* What the factory counts and shows: the calls the raffles it deployed    *)
(* make back into it (record_volume, track_participant,                    *)
(* record_leaderboard_entry), the list of partners, and a client that      *)
(* reads one of its lists page by page while all of that goes on.          *)
(*                                                                         *)
(* A raffle is known by its position in the registry, one more than its    *)
(* stable id; RaffleFactory models how it gets there.  A sale or a draw is *)
(* one transaction: when the call back into the factory fails, the sale    *)
(* fails with it.  The view by category has the body of the view by        *)
(* creator.                                                                *)
(***************************************************************************)
EXTENDS Integers, Sequences, FiniteSets, FiniteSetsExt, SequencesExt, Functions

CONSTANTS
    Creators,
    Buyers,
    Assets,             \* payment tokens
    Amounts,            \* what a sale is charged
    MaxAmount,          \* the largest value of the volume counter, i128::MAX
    Results,            \* finished raffles: [tickets, prize, price, maxTickets, ebPct, ebBp]
    LeaderboardCap,
    Partners,           \* addresses that are put on the whitelist
    Limits,             \* limits a client asks for
    DefaultPageLimit,
    MaxPageLimit,
    MaxRaffles,         \* bound: raffles
    MaxCalls            \* bound: sales and changes of the whitelist together

Metrics == {"tickets", "prize", "volume"}

ASSUME StatsAssumption ==
    /\ Amounts \subseteq Nat /\ Limits \subseteq Nat
    /\ {MaxAmount, MaxRaffles, MaxCalls} \subseteq Nat
    /\ {LeaderboardCap, DefaultPageLimit, MaxPageLimit} \subseteq Nat \ {0}
    /\ Results \subseteq [tickets : Nat, prize : Nat, price : Nat, maxTickets : Nat,
                          ebPct : 0..100, ebBp : 0..10000]
    /\ "all" \notin Creators /\ "partners" \notin Creators

\* No listing has begun.
Idle == [view |-> "none", limit |-> 0, offset |-> 0, seen |-> << >>, more |-> FALSE,
         owed |-> {}, shifted |-> FALSE]

VARIABLES
    registry,         \* RaffleById: [creator, asset] of each raffle
    creatorRaffles,
    totalVolume,      \* TotalVolumePerAsset
    participants,     \* UniqueParticipant
    participantCount, \* TotalUniqueParticipants
    boards,           \* TopByTickets, TopByPrize, TopByVolume
    recorded,         \* what each finished raffle reported
    partners,         \* WhitelistedPartner
    partnersList,
    client,           \* the listing in progress
    \* history
    sales,            \* every sale that went through: [raffle, owner, amount]
    listings          \* changes of the whitelist so far

registryVars == <<registry, creatorRaffles>>
salesVars    == <<totalVolume, participants, participantCount, sales>>
boardVars    == <<boards, recorded>>
partnerVars  == <<partners, partnersList, listings>>
vars == <<registryVars, salesVars, boardVars, partnerVars, client>>

Init ==
    /\ registry = << >>
    /\ creatorRaffles = [c \in Creators |-> << >>]
    /\ totalVolume = [a \in Assets |-> 0]
    /\ participants = {}
    /\ participantCount = 0
    /\ boards = [m \in Metrics |-> << >>]
    /\ recorded = << >>
    /\ partners = {}
    /\ partnersList = << >>
    /\ client = Idle
    /\ sales = << >>
    /\ listings = 0

\* create_raffle_internal, as far as the views read it.
RegisterRaffle(c, a) ==
    /\ Len(registry) < MaxRaffles
    /\ registry' = Append(registry, [creator |-> c, asset |-> a])
    /\ creatorRaffles' = [creatorRaffles EXCEPT ![c] = Append(@, Len(registry) + 1)]
    /\ UNCHANGED <<salesVars, boardVars, partnerVars, client>>

-----------------------------------------------------------------------------
(* Sales                                                                    *)

\* An address with no raffle behind it, here a position not yet taken, is refused.
RequireFactoryRaffle(r) == r \in DOMAIN registry

\* checked_add: a sum beyond the type fails the call, and the sale.
RecordVolume(r, a, amount) ==
    /\ RequireFactoryRaffle(r)
    /\ totalVolume[a] + amount <= MaxAmount
    /\ totalVolume' = [totalVolume EXCEPT ![a] = @ + amount]

\* Mutant: a participant is counted once more in every raffle.
TrackParticipantPerSale(r, p) ==
    /\ RequireFactoryRaffle(r)
    /\ participants' = participants \cup {p}
    /\ participantCount' = participantCount + 1

TrackParticipant(r, p) ==
    /\ RequireFactoryRaffle(r)
    /\ participants' = participants \cup {p}
    /\ participantCount' = participantCount + (IF p \in participants THEN 0 ELSE 1)

\* buy_tickets ends with these calls.
Sale(r, owner, a, amount) ==
    /\ Len(sales) + listings < MaxCalls
    /\ r \in DOMAIN registry => a = registry[r].asset
    /\ RecordVolume(r, a, amount)
    /\ TrackParticipant(r, owner)
    /\ sales' = Append(sales, [raffle |-> r, owner |-> owner, amount |-> amount])
    /\ UNCHANGED <<registryVars, boardVars, partnerVars, client>>

\* buy_tickets_for ends with the same calls: the participant is the recipient,
\* who has to authorise the gift, and not the payer.
Gift(r, payer, recipient, a, amount) ==
    /\ payer # recipient
    /\ Sale(r, recipient, a, amount)

-----------------------------------------------------------------------------
(* Leaderboards                                                             *)

\* Tickets counted at the early-bird price: the first ones, gifts included.
EarlyBirdTickets(d) == Min({d.tickets, (d.maxTickets * d.ebPct) \div 100})

\* record_leaderboard of the raffle: the volume is not what the buyers paid but
\* computed again from the terms of the raffle.
Report(d) ==
    LET eb         == EarlyBirdTickets(d)
        discounted == (d.price * (10000 - d.ebBp)) \div 10000
    IN  [tickets |-> d.tickets, prize |-> d.prize,
         volume  |-> eb * discounted + (d.tickets - eb) * d.price]

\* One comparison of the sort: the larger metric moves forward.
Exchanged(board, i, j) ==
    IF board[j].metric > board[i].metric
    THEN [board EXCEPT ![i] = board[j], ![j] = board[i]]
    ELSE board

\* The inner loop of the exchange sort: entry i against every later one.
Swept(board, i) ==
    LET b[k \in 0..(Len(board) - i)] ==
            IF k = 0 THEN board ELSE Exchanged(b[k - 1], i, i + k)
    IN  b[Len(board) - i]

\* The outer loop: every i in turn.
Sorted(board) ==
    LET b[i \in 0..Len(board)] == IF i = 0 THEN board ELSE Swept(b[i - 1], i)
    IN  b[Len(board)]

\* The loop that copies the entries of the other raffles.
Others(board, r) ==
    LET next[i \in 0..Len(board)] ==
            IF i = 0 THEN << >>
            ELSE IF board[i].raffle # r THEN Append(next[i - 1], board[i]) ELSE next[i - 1]
    IN  next[Len(board)]

Trimmed(board) == SubSeq(board, 1, Min({LeaderboardCap, Len(board)}))

\* Mutant: the board is cut before it is sorted.
UpsertLeaderboardCutFirst(board, r, metric) ==
    Sorted(Trimmed(Append(Others(board, r), [raffle |-> r, metric |-> metric])))

\* Replace the raffle's entry, sort, cut.
UpsertLeaderboard(board, r, metric) ==
    Trimmed(Sorted(Append(Others(board, r), [raffle |-> r, metric |-> metric])))

\* The draw of a raffle ends with this call, and a raffle is drawn once.  A
\* registered raffle is a ValidRaffle: both keys are written together.
RecordLeaderboardEntry(r, d) ==
    /\ r \notin DOMAIN recorded
    /\ RequireFactoryRaffle(r)
    /\ boards' = [m \in Metrics |-> UpsertLeaderboard(boards[m], r, Report(d)[m])]
    /\ recorded' = [x \in DOMAIN recorded \cup {r} |->
                       IF x = r THEN Report(d) ELSE recorded[x]]
    /\ UNCHANGED <<registryVars, salesVars, partnerVars, client>>

-----------------------------------------------------------------------------
(* Partners                                                                 *)

\* The first place of a partner in the list.
Existing(p) == Min({i \in DOMAIN partnersList : partnersList[i] = p})

\* set_whitelist_status keeps PartnersList beside the flags: a partner is added
\* at the end once, and a removal moves the ones behind it up.
SetWhitelistStatus(p, on) ==
    /\ Len(sales) + listings < MaxCalls
    /\ listings' = listings + 1
    /\ partners' = IF on THEN partners \cup {p} ELSE partners \ {p}
    /\ partnersList' =
          IF p \notin Range(partnersList)
          THEN IF on THEN Append(partnersList, p) ELSE partnersList
          ELSE IF on THEN partnersList ELSE RemoveAt(partnersList, Existing(p))
    /\ client' = IF client.view = "partners" /\ p \in Range(partnersList) /\ ~on
                 THEN [client EXCEPT !.shifted = TRUE] ELSE client
    /\ UNCHANGED <<registryVars, salesVars, boardVars>>

-----------------------------------------------------------------------------
(* Views                                                                    *)

EffectiveLimit(requested) ==
    IF requested = 0 THEN DefaultPageLimit ELSE Min({requested, MaxPageLimit})

\* The slots of RaffleById, from 0 to NextRaffleId; no call empties one.
RaffleSlots == [i \in DOMAIN registry |-> i]

\* What a view pages through: stable ids, the index of a creator, the partners.
Listed(view) ==
    CASE view = "all"      -> RaffleSlots
      [] view = "partners" -> partnersList
      [] OTHER             -> creatorRaffles[view]

\* Mutant: the last entry counts as the one after the page.
EndAtLast(view, offset, limit) ==
    Min({offset + EffectiveLimit(limit), Len(Listed(view)) - 1})

PageEnd(view, offset, limit) ==
    Min({offset + EffectiveLimit(limit), Len(Listed(view))})

PageItems(view, offset, limit) ==
    SubSeq(Listed(view), offset + 1, PageEnd(view, offset, limit))

\* get_all_partners does not say whether there is more: its client goes on until
\* a page is empty.
HasMore(view, offset, limit) ==
    IF view = "partners" THEN PageItems(view, offset, limit) # << >>
    ELSE PageEnd(view, offset, limit) < Len(Listed(view))

\* The members a view should show now, by the records and not by its list.
Members(view) ==
    CASE view = "all"      -> DOMAIN registry
      [] view = "partners" -> partners
      [] OTHER             -> {i \in DOMAIN registry : registry[i].creator = view}

StartListing(view, limit) ==
    /\ client = Idle
    /\ client' = [Idle EXCEPT !.view = view, !.limit = limit, !.more = TRUE,
                              !.owed = Members(view)]
    /\ UNCHANGED <<registryVars, salesVars, boardVars, partnerVars>>

\* A client asks for the page behind the entries it was given.
ReadPage ==
    /\ client.more
    /\ LET page == PageItems(client.view, client.offset, client.limit) IN
       client' = [client EXCEPT
          !.seen = @ \o page,
          !.offset = @ + Len(page),
          !.more = HasMore(client.view, client.offset, client.limit)]
    /\ UNCHANGED <<registryVars, salesVars, boardVars, partnerVars>>

-----------------------------------------------------------------------------
Next ==
    \/ \E c \in Creators, a \in Assets : RegisterRaffle(c, a)
    \/ \E r \in 1..MaxRaffles, b \in Buyers, a \in Assets, n \in Amounts : Sale(r, b, a, n)
    \/ \E r \in 1..MaxRaffles, b, p \in Buyers, a \in Assets, n \in Amounts :
          Gift(r, b, p, a, n)
    \/ \E r \in 1..MaxRaffles, d \in Results : RecordLeaderboardEntry(r, d)
    \/ \E p \in Partners, on \in BOOLEAN : SetWhitelistStatus(p, on)
    \/ \E v \in Creators \cup {"all", "partners"}, l \in Limits : StartListing(v, l)
    \/ ReadPage

Spec == Init /\ [][Next]_vars

-----------------------------------------------------------------------------
(* Properties                                                               *)

\* What each sale was charged in the token a.
Charges(a) ==
    [i \in DOMAIN sales |->
        IF registry[sales[i].raffle].asset = a THEN sales[i].amount ELSE 0]

Total(amounts) ==
    LET sum[n \in 0..Len(amounts)] == IF n = 0 THEN 0 ELSE sum[n - 1] + amounts[n]
    IN  sum[Len(amounts)]

\* The factory's totals are those of its own raffles: the volume of a token is
\* what the sales of registered raffles in that token were charged, and an
\* address that took part in several sales or raffles counts once (record_volume,
\* track_participant).
TotalsAgree ==
    /\ \A a \in Assets : totalVolume[a] = Total(Charges(a))
    /\ participantCount = Cardinality({sales[i].owner : i \in DOMAIN sales})

\* Each board holds the best results ever reported by that metric, best first and
\* each raffle once: what was cut off stays at or below the last entry, in
\* whatever order raffles finish and however results tie (upsert_leaderboard).
BoardsHoldTheBest ==
    \A m \in Metrics :
        LET board == boards[m]
            shown == {board[i].raffle : i \in DOMAIN board}
        IN  /\ Len(board) = Min({LeaderboardCap, Cardinality(DOMAIN recorded)})
            /\ Cardinality(shown) = Len(board)
            /\ \A i \in DOMAIN board : board[i].metric = recorded[board[i].raffle][m]
            /\ \A i, j \in DOMAIN board : i < j => board[i].metric >= board[j].metric
            /\ \A r \in DOMAIN recorded \ shown :
                  recorded[r][m] <= board[Len(board)].metric

\* A client that pages to the end has been shown everything that was there when
\* it began, once, whatever limit it asked for and although raffles are created
\* and partners added meanwhile (get_raffles_page, paginate_raffles,
\* get_all_partners).  A partner removed meanwhile moves the later ones to
\* smaller offsets, behind the client's back: such listings are excepted.
PagesComplete ==
    ~client.shifted =>
        /\ IsInjective(client.seen)
        /\ ~client.more => client.owed \subseteq Range(client.seen)

=============================================================================
