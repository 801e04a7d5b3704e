----------------------------- MODULE TicketTtl -----------------------------
(***************************************************************************)
(* How a raffle keeps its storage entries from expiring.  The instance     *)
(* entry and every Ticket(id) have a lifetime of their own.  A purchase    *)
(* and the draw refresh the instance and a window of tickets that moves on *)
(* from call to call (bump_raffle_ttl); extend_ttl, open to everybody,     *)
(* refreshes a page of tickets.                                            *)
(*                                                                         *)
(* Time passes in months, the unit docs/STORAGE.md plans in, and an        *)
(* operator follows that plan: it calls extend_ttl page by page once a     *)
(* month.  An entry past its lifetime is missing for the contract.         *)
(* bump_touched_tickets is left out: nothing calls it.                     *)
(***************************************************************************)
EXTENDS Integers, Sequences, FiniteSetsExt

CONSTANTS
    MaxTickets,
    MaxPerTx,
    Window,             \* TTL_BUMP_WINDOW
    Threshold,          \* PERSISTENT_ and INSTANCE_TTL_THRESHOLD_LEDGERS
    BumpTo,             \* PERSISTENT_ and INSTANCE_TTL_BUMP_LEDGERS
    MinTtl,             \* the lifetime the network gives to a new entry
    PageSize,           \* limit of the operator's calls
    OtherPages,         \* calls of extend_ttl by anybody: <<start_ticket_id, limit>>
    MaxTime             \* bound: months

ASSUME TtlAssumption ==
    /\ {MaxTickets, MaxPerTx, Window, PageSize, BumpTo} \subseteq Nat \ {0}
    /\ {Threshold, MinTtl, MaxTime} \subseteq Nat
    /\ OtherPages \subseteq Nat \X Nat

VARIABLES
    status,             \* "Active" or "Finalized"
    ticketUntil,        \* Ticket(id): the last month of the entry of each ticket sold
    instanceUntil,
    lastBumped,         \* LastBumpedIndex
    page,               \* the operator's next start_ticket_id, 0 when it is done
    now,
    \* history
    cycle,              \* tickets the window has refreshed since it last began
    missed              \* tickets it did not refresh in a cycle that ended

vars == <<status, ticketUntil, instanceUntil, lastBumped, page, now, cycle, missed>>

Sold == Len(ticketUntil)

Init ==
    /\ status = "Active"
    /\ ticketUntil = << >>
    /\ instanceUntil = MinTtl
    /\ lastBumped = 0
    /\ page = 1
    /\ now = 0
    /\ cycle = {}
    /\ missed = {}

-----------------------------------------------------------------------------
(* Lifetimes                                                                *)

\* extend_ttl of the storage: an entry that has fewer than Threshold left gets
\* BumpTo.
Extended(until) == IF until - now < Threshold THEN now + BumpTo ELSE until

Present(until, i) == i \in DOMAIN until /\ until[i] >= now

\* Mutant: the first ticket of a page is left out.
RefreshedAfterStart(until, start, limit) ==
    {i \in (start + 1)..(start + limit - 1) : \A j \in start..i : Present(until, j)}

\* The tickets extend_ticket_ttls refreshes: it stops at the first missing one.
Refreshed(until, start, limit) ==
    {i \in start..(start + limit - 1) : \A j \in start..i : Present(until, j)}

ExtendTicketTtls(until, start, limit) ==
    [i \in DOMAIN until |-> IF i \in Refreshed(until, start, limit)
                            THEN Extended(until[i]) ELSE until[i]]

\* No entrypoint runs once the instance entry is gone.
InstanceLive == instanceUntil >= now

ExtendInstance == instanceUntil' = Extended(instanceUntil)

-----------------------------------------------------------------------------
(* The rolling window                                                       *)

\* Mutant: the next window begins one ticket late.
NextIndexSkipping(end, total) == IF end >= total THEN 0 ELSE end + 1

NextIndex(end, total) == IF end >= total THEN 0 ELSE end

\* bump_raffle_ttl; no window moves while no ticket is sold.
BumpRaffleTtl(until) ==
    LET total == Len(until)
        start == Min({lastBumped, total})
        end   == Min({start + Window, total})
        seen  == cycle \cup Refreshed(until, start + 1, end - start)
    IN  /\ ExtendInstance
        /\ IF total = 0
           THEN UNCHANGED <<lastBumped, cycle, missed>> /\ ticketUntil' = until
           ELSE /\ ticketUntil' = ExtendTicketTtls(until, start + 1, end - start)
                /\ lastBumped' = NextIndex(end, total)
                /\ cycle' = IF end >= total THEN {} ELSE seen
                /\ missed' = IF end >= total THEN missed \cup ((1..total) \ seen)
                             ELSE missed

\* buy_tickets and buy_tickets_for, as far as lifetimes go.
BuyTickets(q) ==
    /\ InstanceLive
    /\ status = "Active"
    /\ Sold + q <= MaxTickets
    /\ BumpRaffleTtl(ticketUntil \o [i \in 1..q |-> now + MinTtl])
    /\ UNCHANGED <<status, page, now>>

\* do_finalize_with_seed, which reads the tickets that won.
Finalize(winners) ==
    /\ InstanceLive
    /\ status = "Active"
    /\ winners # {}
    /\ \A i \in winners : Present(ticketUntil, i)
    /\ status' = "Finalized"
    /\ BumpRaffleTtl(ticketUntil)
    /\ UNCHANGED <<page, now>>

-----------------------------------------------------------------------------
(* Operators                                                                *)

\* extend_ttl of the raffle.
ExtendTtl(start, limit) ==
    /\ InstanceLive
    /\ ExtendInstance
    /\ ticketUntil' = ExtendTicketTtls(ticketUntil, start, limit)
    /\ UNCHANGED <<status, lastBumped, now, cycle, missed>>

ByAnybody(start, limit) ==
    /\ ExtendTtl(start, limit)
    /\ UNCHANGED page

\* The operator goes on until its page reaches the last ticket sold.
ByOperator ==
    /\ page # 0
    /\ ExtendTtl(page, PageSize)
    /\ page' = IF page + PageSize > Sold THEN 0 ELSE page + PageSize

\* A month ends when the operator has been through the tickets.
Month ==
    /\ now < MaxTime
    /\ page = 0
    /\ now' = now + 1
    /\ page' = 1
    /\ UNCHANGED <<status, ticketUntil, instanceUntil, lastBumped, cycle, missed>>

-----------------------------------------------------------------------------
Next ==
    \/ \E q \in 1..MaxPerTx : BuyTickets(q)
    \/ \E W \in SUBSET (1..Sold) : Finalize(W)
    \/ \E p \in OtherPages : ByAnybody(p[1], p[2])
    \/ ByOperator
    \/ Month

Spec == Init /\ [][Next]_vars

-----------------------------------------------------------------------------
(* Properties                                                               *)

\* With an operator that pages through the tickets once a month no entry is lost:
\* the raffle stays callable and every ticket sold can be read, so a draw, a claim
\* or a refund never fails for a missing ticket, whatever is bought between two
\* pages and however far the window lags behind (extend_ttl, bump_raffle_ttl).
NothingExpires ==
    /\ InstanceLive
    /\ \A i \in 1..Sold : Present(ticketUntil, i)

\* The rolling window skips no ticket: when it returns to the start it has been at
\* every ticket sold by then, although tickets are sold while it is under way
\* (bump_raffle_ttl).
WindowSkipsNothing == missed = {}

=============================================================================
