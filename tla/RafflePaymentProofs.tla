------------------------- MODULE RafflePaymentProofs -------------------------
(***************************************************************************)
(* Proofs about the money of RaffleInstance: nothing is paid twice, the    *)
(* markers say what was paid, a raffle is settled one way, the outcome of  *)
(* a draw is final, the prize stays in escrow and what is owed stays       *)
(* covered.                                                                *)
(***************************************************************************)
EXTENDS RaffleInstanceProofs

-----------------------------------------------------------------------------
(* What was paid, and what the storage remembers of it.                     *)

\* Every refund marker stands for a payment; the converse, which a wiped raffle
\* loses, is the part of MarkersAgree about stored tickets.
RefundMarks == \A i \in refunded : ticketPaid[i] # << >>

Payments == MarkersAgree /\ PaidOnce /\ RefundMarks

PayInv == DrawInv /\ Payments

\* Nothing has been refunded while a raffle is neither cancelled nor failed.
LEMMA NothingRefunded ==
    ASSUME PayInv, ~Refundable
    PROVE  /\ refunded = {}
           /\ prizePaid = 0
           /\ \A i \in 1..MaxTickets : ticketPaid[i] = << >>
<1>1. prizePaid = 0 /\ \A i \in 1..MaxTickets : ticketPaid[i] = << >>
  BY DEF PayInv, Payments, MarkersAgree
<1>2. refunded \subseteq 1..MaxTickets
  BY TicketAssumption DEF PayInv, DrawInv, TypeInv, TypeOK, SaleType
<1> QED BY <1>1, <1>2 DEF PayInv, Payments, RefundMarks

\* No tier is paid before the draw.
LEMMA NothingClaimed ==
    ASSUME PayInv, winners = << >>
    PROVE  \A t \in Tiers : tierPaid[t] = 0
  BY DEF PayInv, Payments, MarkersAgree

LEMMA DrawnWinners ==
    ASSUME PayInv, status = "Finalized"
    PROVE  winners \in [Tiers -> Winner]
  BY DEF PayInv, DrawInv, DrawStateAgrees, TypeInv, TypeOK, DrawType

\* Steps that pay nothing and forget nothing.
LEMMA PayFrame ==
    ASSUME PayInv,
           UNCHANGED <<winners, tickets, refunded, prizeDeposited, paidVars>>,
           \/ status' = status
           \/ /\ status \in {"Active", "Drawing"}
              /\ status' \in {"Drawing", "Failed", "Cancelled"}
    PROVE  Payments'
<1> USE DEF paidVars
<1>1. (\A t \in Tiers : tierPaid[t] = IF winners # << >> /\ winners[t].claimed THEN 1 ELSE 0)'
  BY DEF PayInv, Payments, MarkersAgree
<1>2. (\A i \in DOMAIN tickets : Len(ticketPaid[i]) = IF i \in refunded THEN 1 ELSE 0)'
  BY DEF PayInv, Payments, MarkersAgree
<1>3. (prizePaid = IF status # "PendingPrize" /\ ~prizeDeposited THEN 1 ELSE 0)'
  BY DEF PayInv, Payments, MarkersAgree
<1>4. (~Refundable => prizePaid = 0 /\ \A i \in 1..MaxTickets : ticketPaid[i] = << >>)'
  BY DEF PayInv, Payments, MarkersAgree, Refundable
<1>5. PaidOnce' /\ RefundMarks'
  BY DEF PayInv, Payments, PaidOnce, RefundMarks
<1> QED BY <1>1, <1>2, <1>3, <1>4, <1>5 DEF Payments, MarkersAgree

LEMMA PayDeposit ==
    ASSUME PayInv, DepositPrize
    PROVE  Payments'
<1> USE DEF DepositPrize, resultVars, paidVars, saleVars
<1>0. status = "PendingPrize" /\ ~Refundable
  BY TransitionTable DEF Refundable
<1>1. prizePaid = 0 /\ \A i \in 1..MaxTickets : ticketPaid[i] = << >>
  BY <1>0, NothingRefunded
<1>2. (prizePaid = IF status # "PendingPrize" /\ ~prizeDeposited THEN 1 ELSE 0)'
  BY <1>1
<1>3. (~Refundable => prizePaid = 0 /\ \A i \in 1..MaxTickets : ticketPaid[i] = << >>)'
  BY <1>1
<1>4. PaidOnce' /\ RefundMarks'
  BY DEF PayInv, Payments, PaidOnce, RefundMarks
<1>5. (\A t \in Tiers : tierPaid[t] = IF winners # << >> /\ winners[t].claimed THEN 1 ELSE 0)'
  BY DEF PayInv, Payments, MarkersAgree
<1>6. (\A i \in DOMAIN tickets : Len(ticketPaid[i]) = IF i \in refunded THEN 1 ELSE 0)'
  BY DEF PayInv, Payments, MarkersAgree
<1> QED BY <1>2, <1>3, <1>4, <1>5, <1>6 DEF Payments, MarkersAgree

\* New tickets come with no marker and no payment.
LEMMA PaySell ==
    ASSUME PayInv, TypeInv', NEW payer, NEW owner, NEW q, NEW price,
           Sell(payer, owner, q, price)
    PROVE  Payments'
<1> USE DEF resultVars, paidVars
<1>0. status = "Active" /\ status' \in {"Active", "Drawing"} /\ ~Refundable
  BY DEF Sell, CanBuy, AfterSale, TransitionToDrawing, Refundable
<1>1. /\ refunded = {} /\ prizePaid = 0
      /\ \A i \in 1..MaxTickets : ticketPaid[i] = << >>
  BY <1>0, NothingRefunded
<1>2. UNCHANGED <<winners, refunded, prizeDeposited, ticketPaid, tierPaid, prizePaid>>
  BY DEF Sell
<1>3. DOMAIN tickets' \subseteq 1..MaxTickets
  <2>1. tickets' \in Seq(Ticket) /\ Len(tickets') <= ticketsSold' /\ ticketsSold' \in 0..MaxTickets
    BY DEF TypeInv, TypeOK, SaleType
  <2> QED BY <2>1, LenProperties, TicketAssumption
<1>4. (\A i \in DOMAIN tickets : Len(ticketPaid[i]) = IF i \in refunded THEN 1 ELSE 0)'
  BY <1>1, <1>2, <1>3
<1>5. (\A t \in Tiers : tierPaid[t] = IF winners # << >> /\ winners[t].claimed THEN 1 ELSE 0)'
  BY <1>2 DEF PayInv, Payments, MarkersAgree
<1>6. (prizePaid = IF status # "PendingPrize" /\ ~prizeDeposited THEN 1 ELSE 0)'
  BY <1>0, <1>2 DEF PayInv, Payments, MarkersAgree
<1>7. (~Refundable => prizePaid = 0 /\ \A i \in 1..MaxTickets : ticketPaid[i] = << >>)'
  BY <1>1, <1>2
<1>8. PaidOnce' /\ RefundMarks'
  BY <1>2 DEF PayInv, Payments, PaidOnce, RefundMarks
<1> QED BY <1>4, <1>5, <1>6, <1>7, <1>8 DEF Payments, MarkersAgree

\* A draw starts with every tier open.
LEMMA PayDraw ==
    ASSUME PayInv, NEW from, DoFinalize(from), status \in {"Active", "Drawing"},
           UNCHANGED <<tickets, refunded, prizeDeposited, paidVars>>
    PROVE  Payments'
<1> USE DEF paidVars
<1>0. winners = << >> /\ ~Refundable
  BY DEF PayInv, DrawInv, DrawStateAgrees, Refundable
<1>1. /\ refunded = {} /\ prizePaid = 0
      /\ \A i \in 1..MaxTickets : ticketPaid[i] = << >>
      /\ \A t \in Tiers : tierPaid[t] = 0
  BY <1>0, NothingRefunded, NothingClaimed
<1>2. status' = "Finalized" /\ \A t \in Tiers : winners'[t].claimed = FALSE
  BY DEF DoFinalize
<1>3. (\A t \in Tiers : tierPaid[t] = IF winners # << >> /\ winners[t].claimed THEN 1 ELSE 0)'
  BY <1>1, <1>2
<1>4. (\A i \in DOMAIN tickets : Len(ticketPaid[i]) = IF i \in refunded THEN 1 ELSE 0)'
  BY DEF PayInv, Payments, MarkersAgree
<1>5. (prizePaid = IF status # "PendingPrize" /\ ~prizeDeposited THEN 1 ELSE 0)'
  BY <1>2 DEF PayInv, Payments, MarkersAgree
<1>6. (~Refundable => prizePaid = 0 /\ \A i \in 1..MaxTickets : ticketPaid[i] = << >>)'
  BY <1>1
<1>7. PaidOnce' /\ RefundMarks'
  BY DEF PayInv, Payments, PaidOnce, RefundMarks
<1> QED BY <1>3, <1>4, <1>5, <1>6, <1>7 DEF Payments, MarkersAgree

\* claim_prize and sweep_unclaimed pay tiers whose flag is still down.
LEMMA PayClaim ==
    ASSUME PayInv, NEW S \in SUBSET Unclaimed, status = "Finalized", MarkClaimed(S),
           UNCHANGED <<tickets, refunded, prizeDeposited, ticketPaid, prizePaid>>
    PROVE  Payments'
<1>w. winners \in [Tiers -> Winner] /\ winners # << >>
  BY DrawnWinners DEF PayInv, DrawInv, DrawStateAgrees
<1>s. status' \in {"Finalized", "Claimed"} /\ ~Refundable
  BY DEF MarkClaimed, Refundable
<1>0. /\ prizePaid = 0
      /\ \A i \in 1..MaxTickets : ticketPaid[i] = << >>
  BY <1>s, NothingRefunded
<1>1. \A t \in Tiers : winners'[t].claimed = (winners[t].claimed \/ t \in S)
  BY <1>w DEF MarkClaimed, Claimed, Winner
<1>2. \A t \in Tiers : tierPaid'[t] = IF t \in S THEN tierPaid[t] + 1 ELSE tierPaid[t]
  BY DEF MarkClaimed
<1>3. \A t \in Tiers : tierPaid[t] = IF winners[t].claimed THEN 1 ELSE 0
  BY <1>w DEF PayInv, Payments, MarkersAgree
<1>4. \A t \in S : ~winners[t].claimed
  BY DEF Unclaimed
<1>5. winners' # << >>
  <2>1. DOMAIN winners' = Tiers
    BY <1>w DEF MarkClaimed, Claimed
  <2> QED BY <2>1, TiersNonEmpty
<1>6. \A t \in Tiers : tierPaid'[t] = IF winners'[t].claimed THEN 1 ELSE 0
  <2> TAKE t \in Tiers
  <2>1. CASE t \in S
    <3>1. winners'[t].claimed
      BY <1>1, <2>1
    <3>2. tierPaid[t] = 0
      BY <1>3, <1>4, <2>1
    <3> QED BY <1>2, <2>1, <3>1, <3>2
  <2>2. CASE t \notin S
    <3>1. winners'[t].claimed <=> winners[t].claimed
      BY <1>1, <2>2
    <3> QED BY <1>2, <1>3, <2>2, <3>1
  <2> QED BY <2>1, <2>2
<1>7. (\A t \in Tiers : tierPaid[t] = IF winners # << >> /\ winners[t].claimed THEN 1 ELSE 0)'
  BY <1>5, <1>6
<1>8. (\A i \in DOMAIN tickets : Len(ticketPaid[i]) = IF i \in refunded THEN 1 ELSE 0)'
  BY DEF PayInv, Payments, MarkersAgree
<1>9. (prizePaid = IF status # "PendingPrize" /\ ~prizeDeposited THEN 1 ELSE 0)'
  BY <1>s DEF PayInv, Payments, MarkersAgree
<1>10. (~Refundable => prizePaid = 0 /\ \A i \in 1..MaxTickets : ticketPaid[i] = << >>)'
  BY <1>0
<1>11. PaidOnce'
  BY <1>6 DEF PayInv, Payments, PaidOnce
<1>12. RefundMarks'
  BY DEF PayInv, Payments, RefundMarks
<1> QED BY <1>7, <1>8, <1>9, <1>10, <1>11, <1>12 DEF Payments, MarkersAgree

\* refund_prize and emergency_withdraw send the prize while it is on the books.
LEMMA PayPrize ==
    ASSUME PayInv, prizeDeposited, ReturnPrize, Refundable',
           status \in {"Drawing", "Cancelled", "Failed"},
           UNCHANGED <<winners, tickets, refunded, ticketPaid, tierPaid>>
    PROVE  Payments'
<1>1. prizePaid = 0 /\ prizePaid' = 1
  BY DEF PayInv, Payments, MarkersAgree, ReturnPrize
<1>2. (prizePaid = IF status # "PendingPrize" /\ ~prizeDeposited THEN 1 ELSE 0)'
  BY <1>1 DEF ReturnPrize, Refundable
<1>3. (\A t \in Tiers : tierPaid[t] = IF winners # << >> /\ winners[t].claimed THEN 1 ELSE 0)'
  BY DEF PayInv, Payments, MarkersAgree
<1>4. (\A i \in DOMAIN tickets : Len(ticketPaid[i]) = IF i \in refunded THEN 1 ELSE 0)'
  BY DEF PayInv, Payments, MarkersAgree
<1>5. PaidOnce' /\ RefundMarks'
  BY <1>1 DEF PayInv, Payments, PaidOnce, RefundMarks
<1> QED BY <1>2, <1>3, <1>4, <1>5 DEF Payments, MarkersAgree

\* refund_ticket and batch_refund_tickets pay stored tickets without a marker.
LEMMA PayTickets ==
    ASSUME PayInv, Refundable, NEW S \in SUBSET (DOMAIN tickets \ refunded), NEW to,
           PayRefunds(S, to)
    PROVE  Payments'
<1> USE DEF PayRefunds, saleVars, resultVars
<1>0. tickets \in Seq(Ticket) /\ DOMAIN tickets \subseteq 1..MaxTickets
      /\ refunded \subseteq 1..MaxTickets
  <2>1. tickets \in Seq(Ticket) /\ Len(tickets) <= ticketsSold
        /\ ticketsSold \in 0..MaxTickets /\ refunded \subseteq 1..ticketsSold
    BY DEF PayInv, DrawInv, TypeInv, TypeOK, SaleType
  <2> QED BY <2>1, LenProperties, TicketAssumption
<1>1. \A i \in 1..MaxTickets : ticketPaid[i] \in Seq(Buyers)
  BY DEF PayInv, DrawInv, TypeInv, TypeOK, PaidType
<1>2. \A i \in S : Len(ticketPaid[i]) = 0
  BY DEF PayInv, Payments, MarkersAgree
<1>3. \A i \in S : ticketPaid[i] = << >>
  BY <1>0, <1>1, <1>2, EmptySeq
<1>4. \A i \in 1..MaxTickets :
         /\ i \in S => Len(ticketPaid'[i]) = 1 /\ ticketPaid'[i] # << >>
         /\ i \notin S => ticketPaid'[i] = ticketPaid[i]
  <2> TAKE i \in 1..MaxTickets
  <2>1. CASE i \in S
    <3>1. ticketPaid'[i] = Append(<< >>, to[i])
      BY <1>3, <2>1
    <3>2. << >> \in Seq({to[i]}) /\ to[i] \in {to[i]} /\ Len(<< >>) = 0
      OBVIOUS
    <3>3. Append(<< >>, to[i]) # << >> /\ Len(Append(<< >>, to[i])) = 1
      BY <3>2, AppendProperties
    <3> QED BY <2>1, <3>1, <3>3
  <2>2. CASE i \notin S
    BY <2>2
  <2> QED BY <2>1, <2>2
<1>5. (\A i \in DOMAIN tickets : Len(ticketPaid[i]) = IF i \in refunded THEN 1 ELSE 0)'
  <2> SUFFICES ASSUME NEW i \in DOMAIN tickets
               PROVE  Len(ticketPaid'[i]) = IF i \in refunded \cup S THEN 1 ELSE 0
    OBVIOUS
  <2>1. CASE i \in S
    BY <1>0, <1>4, <2>1
  <2>2. CASE i \notin S
    BY <1>0, <1>4, <2>2 DEF PayInv, Payments, MarkersAgree
  <2> QED BY <2>1, <2>2
<1>6. (\A t \in Tiers : tierPaid[t] = IF winners # << >> /\ winners[t].claimed THEN 1 ELSE 0)'
  BY DEF PayInv, Payments, MarkersAgree
<1>7. (prizePaid = IF status # "PendingPrize" /\ ~prizeDeposited THEN 1 ELSE 0)'
  BY DEF PayInv, Payments, MarkersAgree
<1>8. Refundable'
  BY DEF Refundable
<1>9. PaidOnce'
  <2>1. \A i \in 1..MaxTickets : Len(ticketPaid'[i]) <= 1
    BY <1>4 DEF PayInv, Payments, PaidOnce
  <2> QED BY <2>1 DEF PayInv, Payments, PaidOnce
<1>10. RefundMarks'
  BY <1>0, <1>4 DEF PayInv, Payments, RefundMarks
<1> QED BY <1>5, <1>6, <1>7, <1>8, <1>9, <1>10 DEF Payments, MarkersAgree

\* wipe_storage forgets the markers together with the tickets they mark.
LEMMA PayWipe ==
    ASSUME PayInv, WipeStorage
    PROVE  Payments'
<1> USE DEF WipeStorage, resultVars, paidVars
<1>1. (\A t \in Tiers : tierPaid[t] = IF winners # << >> /\ winners[t].claimed THEN 1 ELSE 0)'
  BY DEF PayInv, Payments, MarkersAgree
<1>2. (\A i \in DOMAIN tickets : Len(ticketPaid[i]) = IF i \in refunded THEN 1 ELSE 0)'
  OBVIOUS
<1>3. (prizePaid = IF status # "PendingPrize" /\ ~prizeDeposited THEN 1 ELSE 0)'
  BY DEF PayInv, Payments, MarkersAgree
<1>4. (~Refundable => prizePaid = 0 /\ \A i \in 1..MaxTickets : ticketPaid[i] = << >>)'
  BY DEF PayInv, Payments, MarkersAgree, Refundable
<1>5. PaidOnce' /\ RefundMarks'
  BY DEF PayInv, Payments, PaidOnce, RefundMarks
<1> QED BY <1>1, <1>2, <1>3, <1>4, <1>5 DEF Payments, MarkersAgree

LEMMA PaySettle ==
    ASSUME PayInv, Settle
    PROVE  Payments'
<1>1. ASSUME NEW t \in Tiers, ClaimPrize(t)
      PROVE  Payments'
  <2>1. {t} \in SUBSET Unclaimed /\ status = "Finalized" /\ MarkClaimed({t})
        /\ UNCHANGED <<tickets, refunded, prizeDeposited, ticketPaid, prizePaid>>
    BY <1>1 DEF ClaimPrize, saleVars
  <2> QED BY <2>1, PayClaim
<1>2. ASSUME NEW start, NEW limit, SweepUnclaimed(start, limit)
      PROVE  Payments'
  <2>1. SweepPage(start, limit) \in SUBSET Unclaimed
    BY DEF SweepPage
  <2>2. MarkClaimed(SweepPage(start, limit)) /\ status = "Finalized"
        /\ UNCHANGED <<tickets, refunded, prizeDeposited, ticketPaid, prizePaid>>
    BY <1>2 DEF SweepUnclaimed, saleVars
  <2> QED BY <2>1, <2>2, PayClaim
<1>3. CASE RefundPrize
  <2>1. UNCHANGED <<winners, tickets, refunded, ticketPaid, tierPaid>> /\ Refundable'
    BY <1>3 DEF RefundPrize, saleVars, resultVars, Refundable
  <2> QED BY <1>3, <2>1, PayPrize DEF RefundPrize, Refundable
<1>4. ASSUME NEW i, RefundTicket(i)
      PROVE  Payments'
  <2>1. {i} \in SUBSET (DOMAIN tickets \ refunded)
    BY <1>4 DEF RefundTicket
  <2> QED BY <1>4, <2>1, PayTickets DEF RefundTicket
<1>5. ASSUME NEW b, NEW ids, BatchRefundTickets(b, ids)
      PROVE  Payments'
  <2>1. ids \ refunded \in SUBSET (DOMAIN tickets \ refunded)
    BY <1>5 DEF BatchRefundTickets
  <2> QED BY <1>5, <2>1, PayTickets DEF BatchRefundTickets
<1> QED BY <1>1, <1>2, <1>3, <1>4, <1>5 DEF Settle

LEMMA PayAdminister ==
    ASSUME PayInv, Administer
    PROVE  Payments'
<1> USE DEF saleVars, resultVars, drawVars
<1>1. CASE CancelRaffle \/ ExecuteAdminCancel
  <2>1. status \in {"Active", "Drawing"} /\ status' = "Cancelled"
    BY <1>1, TransitionTable DEF CancelRaffle, ExecuteAdminCancel, CancelFrom
  <2>2. UNCHANGED <<winners, tickets, refunded, prizeDeposited, paidVars>>
    BY <1>1 DEF CancelRaffle, ExecuteAdminCancel
  <2> QED BY <2>1, <2>2, PayFrame
<1>2. CASE \/ ScheduleAdminCancel
           \/ \E on \in BOOLEAN : PauseSwitch(on)
           \/ \E f \in FeeSettings : SetProtocolFeeBp(f)
           \/ \E o \in Oracles : UpdateOracleAddress(o)
  <2>1. UNCHANGED <<status, winners, tickets, refunded, prizeDeposited, paidVars>>
    BY <1>2 DEF ScheduleAdminCancel, PauseSwitch, SetProtocolFeeBp, UpdateOracleAddress
  <2> QED BY <2>1, PayFrame
<1>3. CASE \/ \E a \in Amounts : WithdrawFees(a) \/ RescueTokens(a) \/ Donate(a)
           \/ SweepDust
  <2>1. UNCHANGED <<status, winners, tickets, refunded, prizeDeposited, paidVars>>
    BY <1>3 DEF WithdrawFees, RescueTokens, Donate, SweepDust, TakeOut
  <2> QED BY <2>1, PayFrame
<1>4. CASE WipeStorage
  BY <1>4, PayWipe
<1>5. CASE EmergencyWithdraw
  <2>1. /\ prizeDeposited /\ ReturnPrize /\ Refundable' /\ status = "Drawing"
        /\ UNCHANGED <<winners, tickets, refunded, ticketPaid, tierPaid>>
    BY <1>5 DEF EmergencyWithdraw, Refundable
  <2> QED BY <2>1, PayPrize
<1> QED BY <1>1, <1>2, <1>3, <1>4, <1>5 DEF Administer

LEMMA PayFinalize ==
    ASSUME PayInv, FinalizeRaffle
    PROVE  Payments'
<1> USE DEF saleVars, resultVars
<1>1. CASE FinalizeFailed
  <2>1. status = "Active" /\ status' = "Failed"
        /\ UNCHANGED <<winners, tickets, refunded, prizeDeposited, paidVars>>
    BY <1>1, TransitionTable DEF FinalizeFailed
  <2> QED BY <2>1, PayFrame
<1>2. CASE FinalizeRequest
  <2>1. status = "Active" /\ status' = "Drawing"
        /\ UNCHANGED <<winners, tickets, refunded, prizeDeposited, paidVars>>
    BY <1>2, TransitionTable DEF FinalizeRequest, TransitionToDrawing
  <2> QED BY <2>1, PayFrame
<1>3. CASE FinalizeDraw
  <2>1. status = "Active" /\ DoFinalize("Drawing")
        /\ UNCHANGED <<tickets, refunded, prizeDeposited, paidVars>>
    BY <1>3, TransitionTable DEF FinalizeDraw
  <2> QED BY <2>1, PayDraw
<1> QED BY <1>1, <1>2, <1>3 DEF FinalizeRaffle

LEMMA PayAnswer ==
    ASSUME PayInv, Answer
    PROVE  Payments'
<1> USE DEF saleVars, resultVars
<1>1. UNCHANGED <<tickets, refunded, prizeDeposited, paidVars>>
  BY DEF Answer, ProvideRandomness, ProvideQuorumRandomness
<1>2. CASE DoFinalize(status)
  <2>1. status = "Drawing"
    BY <1>2, TransitionTable DEF DoFinalize
  <2> QED BY <1>1, <1>2, <2>1, PayDraw
<1>3. CASE UNCHANGED <<status, winners>>
  BY <1>1, <1>3, PayFrame
<1> QED BY <1>2, <1>3 DEF Answer, ProvideRandomness, ProvideQuorumRandomness

LEMMA PayNext == PayInv /\ [Next]_vars => PayInv'
<1> SUFFICES ASSUME PayInv, [Next]_vars PROVE PayInv'
  OBVIOUS
<1>0. DrawInv' /\ TypeInv'
  BY DrawNext DEF PayInv, DrawInv
<1> SUFFICES Payments'
  BY <1>0 DEF PayInv
<1>1. CASE DepositPrize
  BY <1>1, PayDeposit
<1>2. CASE Purchase
  BY <1>0, <1>2, PaySell DEF Purchase, BuyTickets, BuyTicketsFor
<1>3. CASE (\E i \in 1..MaxTickets : SubmitCommit(i)) \/ Tick \/ UNCHANGED vars
  <2>1. UNCHANGED <<status, winners, tickets, refunded, prizeDeposited, paidVars>>
    BY <1>3 DEF SubmitCommit, Tick, vars, saleVars, resultVars, paidVars
  <2> QED BY <2>1, PayFrame
<1>4. CASE FinalizeRaffle
  BY <1>4, PayFinalize
<1>5. CASE Answer
  BY <1>5, PayAnswer
<1>6. CASE Settle
  BY <1>6, PaySettle
<1>7. CASE Administer
  BY <1>7, PayAdminister
<1> QED BY <1>1, <1>2, <1>3, <1>4, <1>5, <1>6, <1>7 DEF Next

LEMMA PayInit == Init => PayInv
<1> SUFFICES ASSUME Init PROVE PayInv
  OBVIOUS
<1>1. MarkersAgree
  BY DEF Init, MarkersAgree
<1>2. PaidOnce /\ RefundMarks
  BY DEF Init, PaidOnce, RefundMarks
<1> QED BY <1>1, <1>2, DrawInit DEF PayInv, Payments

LEMMA PayAlways == Spec => []PayInv
  BY PayInit, PayNext, PTL DEF Spec

\* The claimed flags, the TicketRefunded markers and prize_deposited say exactly
\* what left the contract, for any number of tiers, tickets and buyers; a raffle
\* that is neither cancelled nor failed has paid nothing back.
THEOREM MarkersTellPayments == Spec => []MarkersAgree
<1>1. PayInv => MarkersAgree
  BY DEF PayInv, Payments
<1> QED BY <1>1, PayAlways, PTL

\* claim_prize, sweep_unclaimed, refund_ticket, batch_refund_tickets,
\* refund_prize, emergency_withdraw and wipe_storage, in any order and any number
\* of times, pay no tier, no ticket and no prize twice.
THEOREM NothingPaidTwice == Spec => []PaidOnce
<1>1. PayInv => PaidOnce
  BY DEF PayInv, Payments
<1> QED BY <1>1, PayAlways, PTL

\* Once one winner was paid, nobody is ever refunded: a tier is paid only from a
\* drawn raffle, and a drawn raffle cannot become cancelled or failed.
THEOREM SettledOneWay == Spec => []OneSettlement
<1>1. ASSUME PayInv PROVE OneSettlement
  <2> SUFFICES ASSUME NEW t \in Tiers, tierPaid[t] > 0
               PROVE  prizePaid = 0 /\ \A i \in 1..MaxTickets : ticketPaid[i] = << >>
    BY DEF OneSettlement
  <2>1. winners # << >>
    BY <1>1, NothingClaimed
  <2>2. ~Refundable
    BY <1>1, <2>1 DEF PayInv, DrawInv, DrawStateAgrees, Refundable
  <2> QED BY <1>1, <2>2, NothingRefunded
<1> QED BY <1>1, PayAlways, PTL

-----------------------------------------------------------------------------
(* The outcome of a draw.                                                   *)

\* Once there are winners, only claims and sweeps write the winner list.
LEMMA WinnersOnlyClaimed ==
    ASSUME DrawInv, [Next]_vars, winners # << >>
    PROVE  /\ UNCHANGED finalizedAt
           /\ winners' = winners \/ \E S : winners' = Claimed(S)
<1> USE DEF resultVars
<1>s. status \in {"Finalized", "Claimed"}
  BY DEF DrawInv, DrawStateAgrees
<1>d. ASSUME DoFinalize(status)
      PROVE  FALSE
  BY <1>s, <1>d, TransitionTable DEF DoFinalize
<1>1. CASE DepositPrize
  BY <1>1 DEF DepositPrize
<1>2. CASE Purchase
  BY <1>2 DEF Purchase, BuyTickets, BuyTicketsFor, Sell
<1>3. CASE (\E i \in 1..MaxTickets : SubmitCommit(i)) \/ Tick \/ UNCHANGED vars
  BY <1>3 DEF SubmitCommit, Tick, vars
<1>4. CASE FinalizeRaffle
  BY <1>4, <1>s DEF FinalizeRaffle, FinalizeFailed, FinalizeRequest, FinalizeDraw,
                    FinalizeReady
<1>5. CASE Answer
  BY <1>5, <1>d DEF Answer, ProvideRandomness, ProvideQuorumRandomness
<1>6. CASE Settle
  <2>1. ASSUME NEW t \in Tiers, ClaimPrize(t)
        PROVE  winners' = Claimed({t}) /\ UNCHANGED finalizedAt
    BY <2>1 DEF ClaimPrize, MarkClaimed
  <2>2. ASSUME NEW start, NEW limit, SweepUnclaimed(start, limit)
        PROVE  winners' = Claimed(SweepPage(start, limit)) /\ UNCHANGED finalizedAt
    BY <2>2 DEF SweepUnclaimed, MarkClaimed
  <2>3. CASE RefundPrize
    BY <2>3 DEF RefundPrize
  <2>4. ASSUME NEW i, RefundTicket(i)
        PROVE  UNCHANGED <<winners, finalizedAt>>
    BY <2>4 DEF RefundTicket, PayRefunds
  <2>5. ASSUME NEW b, NEW ids, BatchRefundTickets(b, ids)
        PROVE  UNCHANGED <<winners, finalizedAt>>
    BY <2>5 DEF BatchRefundTickets, PayRefunds
  <2> QED BY <1>6, <2>1, <2>2, <2>3, <2>4, <2>5 DEF Settle
<1>7. CASE Administer
  BY <1>7 DEF Administer, CancelRaffle, ExecuteAdminCancel, EmergencyWithdraw,
        ScheduleAdminCancel, PauseSwitch, SetProtocolFeeBp, UpdateOracleAddress,
        WithdrawFees, RescueTokens, Donate, SweepDust, TakeOut, WipeStorage
<1> QED BY <1>1, <1>2, <1>3, <1>4, <1>5, <1>6, <1>7 DEF Next

\* The winners, their tickets and the finalization time are final: claim_prize and
\* sweep_unclaimed only raise claimed flags, and no late answer, second
\* finalization or wipe rewrites the list.
THEOREM OutcomeIsFixed == Spec => OutcomeFixed
<1>1. ASSUME DrawInv, [Next]_vars
      PROVE  [winners # << >> =>
                /\ finalizedAt' = finalizedAt
                /\ DOMAIN winners' = DOMAIN winners
                /\ \A t \in DOMAIN winners :
                      /\ winners'[t].address = winners[t].address
                      /\ winners'[t].ticket = winners[t].ticket
                      /\ winners[t].claimed => winners'[t].claimed]_vars
  <2> SUFFICES ASSUME winners # << >>
               PROVE  /\ finalizedAt' = finalizedAt
                      /\ DOMAIN winners' = DOMAIN winners
                      /\ \A t \in DOMAIN winners :
                            /\ winners'[t].address = winners[t].address
                            /\ winners'[t].ticket = winners[t].ticket
                            /\ winners[t].claimed => winners'[t].claimed
    OBVIOUS
  <2>1. finalizedAt' = finalizedAt /\ (winners' = winners \/ \E S : winners' = Claimed(S))
    BY <1>1, WinnersOnlyClaimed
  <2>2. winners \in [Tiers -> Winner]
    BY <1>1 DEF DrawInv, TypeInv, TypeOK, DrawType
  <2>3. ASSUME NEW S, winners' = Claimed(S)
        PROVE  /\ DOMAIN winners' = DOMAIN winners
               /\ \A t \in DOMAIN winners :
                     /\ winners'[t].address = winners[t].address
                     /\ winners'[t].ticket = winners[t].ticket
                     /\ winners[t].claimed => winners'[t].claimed
    BY <2>2, <2>3 DEF Claimed, Winner
  <2> QED BY <2>1, <2>3
<1> QED BY <1>1, DrawInit, DrawNext, PTL DEF Spec, OutcomeFixed

-----------------------------------------------------------------------------
(* Unique winners: the probing of resolve_unique_winner.                    *)

\* A non-empty set of natural numbers has a least element.
LEMMA LeastElement ==
    ASSUME NEW T \in SUBSET Nat, T # {}
    PROVE  Min(T) \in T /\ \A y \in T : Min(T) <= y
<1>1. PICK x \in T : \A y \in T : ~ (<<y, x>> \in OpToRel(<, Nat))
  BY NatLessThanWellFounded, WFMin
<1>2. \A y \in T : ~(y < x)
  BY <1>1 DEF OpToRel
<1>3. \A y \in T : x <= y
  BY <1>2
<1> QED BY <1>3 DEF Min

LEMMA ModSmall ==
    ASSUME NEW n \in Nat \ {0}, NEW x \in 0..(n - 1)
    PROVE  x % n = x /\ (x + n) % n = x
  OBVIOUS

\* Probing forward from any candidate comes across every ticket.
LEMMA ProbeReaches ==
    ASSUME NEW n \in Nat \ {0}, NEW c \in 1..n, NEW j \in 1..n
    PROVE  \E k \in 0..(n - 1) : ((c - 1 + k) % n) + 1 = j
<1>0. j - 1 \in 0..(n - 1)
  OBVIOUS
<1>m. (j - 1) % n = j - 1 /\ (j - 1 + n) % n = j - 1
  BY <1>0, ModSmall
<1>1. CASE c <= j
  <2> DEFINE k == j - c
  <2>1. k \in 0..(n - 1) /\ c - 1 + k = j - 1
    BY <1>1
  <2>2. ((c - 1 + k) % n) + 1 = j
    BY <1>m, <2>1
  <2> QED BY <2>1, <2>2
<1>2. CASE c > j
  <2> DEFINE k == j - c + n
  <2>1. k \in 0..(n - 1) /\ c - 1 + k = j - 1 + n
    BY <1>2
  <2> HIDE DEF k
  <2>2. (c - 1 + k) % n = j - 1
    BY <1>m, <2>1
  <2>3. ((c - 1 + k) % n) + 1 = j
    BY <2>2
  <2> QED BY <2>1, <2>3
<1> QED BY <1>1, <1>2

\* The ticket found belongs to an address that has not won, if there is one.
LEMMA ResolveFindsFree ==
    ASSUME NEW taken, NEW candidate \in 1..ticketsSold, ticketsSold \in Nat \ {0},
           NEW j \in 1..ticketsSold, tickets[j].owner \notin taken
    PROVE  tickets[ResolveUniqueWinner(taken, candidate)].owner \notin taken
<1> DEFINE probe(k) == ((candidate - 1 + k) % ticketsSold) + 1
           free == {k \in 0..(ticketsSold - 1) : tickets[probe(k)].owner \notin taken}
<1>1. PICK k \in 0..(ticketsSold - 1) : probe(k) = j
  BY ProbeReaches
<1>2. free # {} /\ free \in SUBSET Nat
  <2>1. tickets[probe(k)].owner \notin taken
    BY <1>1
  <2>2. k \in free
    BY <2>1
  <2>3. free \in SUBSET Nat
    OBVIOUS
  <2> QED BY <2>2, <2>3
<1>3. Min(free) \in free
  <2> HIDE DEF free
  <2> QED BY <1>2, LeastElement
<1>4. ResolveUniqueWinner(taken, candidate) = probe(Min(free))
  BY <1>2 DEF ResolveUniqueWinner
<1> QED BY <1>3, <1>4

\* The owners of fewer tickets than there are owners leave one out.
LEMMA OwnerLeft ==
    ASSUME NEW m \in Nat, NEW f, NEW owners, IsFiniteSet(owners),
           Cardinality(owners) > m
    PROVE  \E o \in owners : o \notin {f[s] : s \in 1..m}
<1> DEFINE T == {f[s] : s \in 1..m}
           g == [s \in 1..m |-> f[s]]
<1>1. g \in Surjection(1..m, T)
  BY DEF Surjection
<1>2. IsFiniteSet(1..m) /\ Cardinality(1..m) = m
  <2>1. m \in Int /\ 1 \in Int
    OBVIOUS
  <2>2. IsFiniteSet(1..m) /\ Cardinality(1..m) = IF 1 > m THEN 0 ELSE m - 1 + 1
    BY <2>1, FS_Interval
  <2> QED BY <2>2
<1>3. IsFiniteSet(T) /\ Cardinality(T) <= m
  <2> HIDE DEF T, g
  <2> QED BY <1>1, <1>2, FS_Surjection
<1>4. Cardinality(T) \in Nat /\ Cardinality(owners) \in Nat
  BY <1>3, FS_CardinalityType
<1> SUFFICES ASSUME owners \in SUBSET T
             PROVE  FALSE
  OBVIOUS
<1>5. Cardinality(owners) <= Cardinality(T)
  <2> HIDE DEF T
  <2> QED BY <1>3, FS_Subset
<1> QED BY <1>3, <1>4, <1>5

Owners == {tickets[i].owner : i \in DOMAIN tickets}

LEMMA OwnersFinite ==
    ASSUME TypeInv
    PROVE  IsFiniteSet(Owners)
<1> DEFINE n == Len(tickets)
           g == [i \in 1..n |-> tickets[i].owner]
<1>1. tickets \in Seq(Ticket)
  BY DEF TypeInv, TypeOK, SaleType
<1>2. DOMAIN tickets = 1..n /\ n \in Int
  BY <1>1, LenProperties
<1>3. g \in Surjection(1..n, Owners)
  BY <1>2 DEF Owners, Surjection
<1>4. IsFiniteSet(1..n)
  <2> HIDE DEF n
  <2>1. 1 \in Int
    OBVIOUS
  <2> QED BY <1>2, <2>1, FS_Interval
<1> HIDE DEF g, n
<1> QED BY <1>3, <1>4, FS_Surjection

\* A completed draw with enough owners gives every tier its own address.
LEMMA UniqueDraw ==
    ASSUME TypeInv, UniqueWinners, NEW from, DoFinalize(from),
           status \notin {"Cancelled", "Claimed", "Failed"},
           Cardinality(Owners) >= Len(Prizes)
    PROVE  \A s, t \in Tiers : winners'[s].address = winners'[t].address => s = t
<1>0. /\ ticketsSold \in Nat \ {0} /\ DOMAIN tickets = 1..ticketsSold
      /\ Len(Prizes) \in Nat
  <2>1. tickets \in Seq(Ticket) /\ Len(tickets) = ticketsSold /\ ticketsSold \in 0..MaxTickets
    BY DEF TypeInv, TypeOK, SaleType, TicketsStored
  <2> QED BY <2>1, LenProperties, TicketAssumption, MoneyAssumption DEF DoFinalize
<1>1. PICK win \in Draws :
         winners' = [t \in Tiers |-> [address |-> tickets[win[t]].owner,
                                      ticket  |-> win[t],
                                      claimed |-> FALSE]]
  BY DEF DoFinalize
<1>2. PICK idx \in Injection(Tiers, 1..ticketsSold) : \A t \in Tiers :
         win[t] = ResolveUniqueWinner({tickets[win[s]].owner : s \in 1..(t - 1)}, idx[t])
  BY DEF Draws
<1> DEFINE own == [t \in Tiers |-> tickets[win[t]].owner]
           taken(t) == {own[s] : s \in 1..(t - 1)}
<1>3. ASSUME NEW t \in Tiers
      PROVE  own[t] \notin taken(t)
  <2>1. t \in Nat /\ t - 1 \in Nat /\ t <= Len(Prizes) /\ 1..(t - 1) \subseteq Tiers
    BY <1>0 DEF Tiers
  <2>2. taken(t) = {tickets[win[s]].owner : s \in 1..(t - 1)}
    BY <2>1
  <2>3. IsFiniteSet(Owners)
    BY OwnersFinite
  <2>4. Cardinality(Owners) > t - 1
    <3>1. Cardinality(Owners) \in Nat
      BY <2>3, FS_CardinalityType
    <3> QED BY <1>0, <2>1, <3>1
  <2>5. PICK o \in Owners : o \notin taken(t)
    <3> DEFINE m == t - 1
    <3>1. m \in Nat /\ Cardinality(Owners) > m
      BY <2>1, <2>4
    <3> HIDE DEF own, m
    <3>2. \E o \in Owners : o \notin {own[s] : s \in 1..m}
      BY <2>3, <3>1, OwnerLeft
    <3> QED BY <3>2 DEF m
  <2>6. PICK j \in 1..ticketsSold : tickets[j].owner = o
    BY <1>0 DEF Owners
  <2>7. idx[t] \in 1..ticketsSold
    BY DEF Injection
  <2>8. win[t] = ResolveUniqueWinner(taken(t), idx[t])
    BY <1>2, <2>2
  <2> HIDE DEF taken
  <2>9. tickets[ResolveUniqueWinner(taken(t), idx[t])].owner \notin taken(t)
    BY <1>0, <2>5, <2>6, <2>7, ResolveFindsFree
  <2> QED BY <2>8, <2>9
<1>4. ASSUME NEW s \in Tiers, NEW t \in Tiers, s < t
      PROVE  own[s] # own[t]
  <2>1. s \in 1..(t - 1)
    BY <1>0, <1>4 DEF Tiers
  <2>2. own[s] \in taken(t)
    BY <2>1
  <2> HIDE DEF own, taken
  <2> QED BY <1>3, <2>2
<1>5. \A t \in Tiers : winners'[t].address = own[t]
  BY <1>1
<1> SUFFICES ASSUME NEW s \in Tiers, NEW t \in Tiers, own[s] = own[t]
             PROVE  s = t
  BY <1>5
<1> HIDE DEF own
<1>6. s \in Int /\ t \in Int
  BY DEF Tiers
<1> QED BY <1>4, <1>6

\* After a draw the tickets stay or are wiped.
LEMMA TicketsAfterDraw ==
    ASSUME [Next]_vars, status \in {"Finalized", "Claimed"}
    PROVE  tickets' = tickets \/ tickets' = << >>
<1> USE DEF saleVars
<1>1. CASE Purchase
  BY <1>1 DEF Purchase, BuyTickets, BuyTicketsFor, Sell, CanBuy
<1>2. CASE DepositPrize \/ Tick \/ (\E i \in 1..MaxTickets : SubmitCommit(i))
  BY <1>2 DEF DepositPrize, Tick, SubmitCommit
<1>3. CASE FinalizeRaffle \/ Answer
  BY <1>3 DEF FinalizeRaffle, FinalizeFailed, FinalizeRequest, FinalizeDraw, Answer,
              ProvideRandomness, ProvideQuorumRandomness
<1>4. CASE Settle
  BY <1>4 DEF Settle, ClaimPrize, SweepUnclaimed, RefundPrize, RefundTicket,
              BatchRefundTickets, PayRefunds
<1>5. CASE Administer
  BY <1>5 DEF Administer, CancelRaffle, ExecuteAdminCancel, EmergencyWithdraw,
        ScheduleAdminCancel, PauseSwitch, SetProtocolFeeBp, UpdateOracleAddress,
        WithdrawFees, RescueTokens, Donate, SweepDust, TakeOut, WipeStorage
<1>6. CASE UNCHANGED vars
  BY <1>6 DEF vars
<1> QED BY <1>1, <1>2, <1>3, <1>4, <1>5, <1>6 DEF Next

\* Only a completed draw writes a winner list where there was none.
LEMMA WinnersFromDraw ==
    ASSUME DrawInv, [Next]_vars, winners = << >>, winners' # << >>
    PROVE  \E from : /\ DoFinalize(from)
                     /\ status \in {"Active", "Drawing"}
                     /\ tickets' = tickets
<1> USE DEF saleVars, resultVars
<1>s. status # "Finalized"
  BY DEF DrawInv, DrawStateAgrees
<1>1. CASE Purchase \/ DepositPrize \/ Tick \/ (\E i \in 1..MaxTickets : SubmitCommit(i))
  BY <1>1 DEF Purchase, BuyTickets, BuyTicketsFor, Sell, DepositPrize, Tick, SubmitCommit
<1>2. CASE FinalizeRaffle
  <2>1. FinalizeDraw
    BY <1>2 DEF FinalizeRaffle, FinalizeFailed, FinalizeRequest
  <2> QED BY <2>1 DEF FinalizeDraw, FinalizeReady
<1>3. CASE Answer
  <2>1. DoFinalize(status) /\ tickets' = tickets
    BY <1>3 DEF Answer, ProvideRandomness, ProvideQuorumRandomness
  <2>2. status = "Drawing"
    BY <2>1, TransitionTable DEF DoFinalize
  <2> QED BY <2>1, <2>2
<1>4. CASE Settle
  BY <1>4, <1>s DEF Settle, ClaimPrize, SweepUnclaimed, RefundPrize, RefundTicket,
                    BatchRefundTickets, PayRefunds
<1>5. CASE Administer
  BY <1>5 DEF Administer, CancelRaffle, ExecuteAdminCancel, EmergencyWithdraw,
        ScheduleAdminCancel, PauseSwitch, SetProtocolFeeBp, UpdateOracleAddress,
        WithdrawFees, RescueTokens, Donate, SweepDust, TakeOut, WipeStorage
<1>6. CASE UNCHANGED vars
  BY <1>6 DEF vars
<1> QED BY <1>1, <1>2, <1>3, <1>4, <1>5, <1>6 DEF Next

LEMMA UniqueNext == DrawInv /\ UniqueWhenPossible /\ [Next]_vars => UniqueWhenPossible'
<1> SUFFICES ASSUME DrawInv, UniqueWhenPossible, [Next]_vars,
                    UniqueWinners, winners' # << >>,
                    Cardinality(Owners') >= Len(Prizes)
             PROVE  \A s, t \in Tiers : winners'[s].address = winners'[t].address => s = t
  BY DEF UniqueWhenPossible, Owners
<1>t. TypeInv
  BY DEF DrawInv
<1>1. CASE winners # << >>
  <2>1. status \in {"Finalized", "Claimed"}
    BY <1>1 DEF DrawInv, DrawStateAgrees
  <2>2. tickets' = tickets
    <3>1. ASSUME tickets' = << >>
          PROVE  FALSE
      <4>1. Owners' = {}
        BY <3>1 DEF Owners
      <4> QED BY <4>1, FS_EmptySet, MoneyAssumption
    <3>2. tickets' = tickets \/ tickets' = << >>
      BY <2>1, TicketsAfterDraw
    <3> QED BY <3>1, <3>2
  <2>3. winners \in [Tiers -> Winner]
    BY <1>t, <1>1 DEF TypeInv, TypeOK, DrawType
  <2>4. \A t \in Tiers : winners'[t].address = winners[t].address
    <3>1. winners' = winners \/ \E S : winners' = Claimed(S)
      BY <1>1, WinnersOnlyClaimed
    <3> QED BY <2>3, <3>1 DEF Claimed, Winner
  <2>5. \A s, t \in Tiers : winners[s].address = winners[t].address => s = t
    BY <1>1, <2>2 DEF UniqueWhenPossible, Owners
  <2> QED BY <2>4, <2>5
<1>2. CASE winners = << >>
  <2>1. PICK from : DoFinalize(from)
        /\ status \in {"Active", "Drawing"} /\ tickets' = tickets
    BY <1>2, WinnersFromDraw
  <2>2. Owners' = Owners
    BY <2>1 DEF Owners
  <2> QED BY <1>t, <2>1, <2>2, UniqueDraw
<1> QED BY <1>1, <1>2

\* With unique_winners the probing of resolve_unique_winner gives every tier a
\* different address whenever there are at least as many ticket owners as tiers,
\* for every seed, supply and distribution of tickets, and claims keep it so.
THEOREM WinnersUniqueWhenPossible == Spec => []UniqueWhenPossible
<1>1. Init => UniqueWhenPossible
  BY DEF Init, UniqueWhenPossible
<1> QED BY <1>1, UniqueNext, DrawInit, DrawNext, PTL DEF Spec

-----------------------------------------------------------------------------
(* The escrowed prize.                                                      *)

EscrowInv == PayInv /\ PrizeEscrowed

\* A ticket sale adds the price less what goes to the treasury, never less than
\* nothing.
LEMMA SellAdds ==
    ASSUME TypeInv, NEW payer, NEW owner, NEW q, NEW price \in Int,
           Sell(payer, owner, q, price)
    PROVE  balance' >= balance
<1>1. price \in Nat
  BY DEF Sell
<1>2. ToTreasury(ProtocolFee(price)) \in 0..price
  <2>1. ProtocolFee(price) \in Nat /\ ProtocolFee(price) <= price
    BY <1>1, FeeBound DEF TypeInv, TypeOK, MoneyType
  <2> QED BY <1>1, <2>1, TreasuryBound
<1> QED BY <1>1, <1>2 DEF Sell, TypeInv, TypeOK, MoneyType

\* What the books count as owed includes the prize of an undrawn raffle.
LEMMA EntitlementHoldsPrize ==
    ASSUME TypeInv, prizeDeposited, status \in {"Active", "Drawing"}
    PROVE  TokenEntitlement >= PrizeAmount
<1>1. Unrefunded \in SUBSET (1..MaxTickets)
  BY TicketAssumption DEF Unrefunded, TypeInv, TypeOK, SaleType
<1>2. OutstandingTicketRefunds \in Nat
  BY <1>1, RefundAmount DEF OutstandingTicketRefunds
<1>3. accumulatedFees \in Nat /\ PrizeAmount \in Nat
  BY MoneyAssumption DEF TypeInv, TypeOK, MoneyType
<1>4. TokenEntitlement = OutstandingTicketRefunds + accumulatedFees + PrizeAmount
  BY DEF TokenEntitlement, OutstandingPrize
<1> QED BY <1>2, <1>3, <1>4

\* A rescue, a sweep of dust or a gift leaves at least the entitlement or more
\* than before.
LEMMA TakeOutLeaves ==
    ASSUME TypeInv,
           \/ \E a \in Amounts : RescueTokens(a) \/ Donate(a)
           \/ SweepDust
    PROVE  balance' >= TokenEntitlement \/ balance' >= balance
<1> USE DEF TypeInv, TypeOK, MoneyType
<1>0. TokenEntitlement \in Nat /\ balance \in Nat
  BY EntitlementType
<1>1. ASSUME NEW a \in Amounts, RescueTokens(a)
      PROVE  balance' >= TokenEntitlement
  <2>1. a \in Nat
    BY MoneyAssumption
  <2> QED BY <1>0, <1>1, <2>1 DEF RescueTokens, TakeOut
<1>2. ASSUME NEW a \in Amounts, Donate(a)
      PROVE  balance' >= balance
  <2>1. a \in Nat
    BY MoneyAssumption
  <2> QED BY <1>0, <1>2, <2>1 DEF Donate, TakeOut
<1>3. CASE SweepDust
  BY <1>0, <1>3 DEF SweepDust, TakeOut
<1> QED BY <1>1, <1>2, <1>3

LEMMA EscrowNext == EscrowInv /\ [Next]_vars => EscrowInv'
<1> SUFFICES ASSUME EscrowInv, [Next]_vars PROVE EscrowInv'
  OBVIOUS
<1>0. PayInv' /\ TypeInv' /\ TypeInv
  BY PayNext DEF EscrowInv, PayInv, DrawInv
<1>b. balance \in Int /\ balance' \in Int /\ PrizeAmount \in Nat
  BY <1>0, MoneyAssumption DEF TypeInv, TypeOK, MoneyType
<1> SUFFICES PrizeEscrowed'
  BY <1>0 DEF EscrowInv
<1>f. ASSUME UNCHANGED <<prizeDeposited, balance>>,
             status' = status \/ status \in {"Active", "Drawing"}
      PROVE  PrizeEscrowed'
  BY <1>f DEF EscrowInv, PrizeEscrowed
<1>o. ASSUME status' \notin {"Active", "Drawing"}
      PROVE  PrizeEscrowed'
  BY <1>o DEF PrizeEscrowed
<1> USE DEF moneyVars
<1>1. CASE DepositPrize
  <2>1. balance \in Nat
    BY <1>0 DEF TypeInv, TypeOK, MoneyType
  <2> QED BY <1>b, <1>1, <2>1 DEF DepositPrize, PrizeEscrowed
<1>2. CASE Purchase
  <2>1. PICK payer \in Buyers, owner \in Buyers, q \in 1..MaxPerTx, price \in Int :
           Sell(payer, owner, q, price)
    <3>1. \A q \in 1..MaxPerTx : TicketPrice * q \in Int /\ NetToPay(q) \in Int
      BY <1>0, PriceType, TicketAssumption DEF TypeInv, TypeOK, SaleType
    <3> QED BY <1>2, <3>1 DEF Purchase, BuyTickets, BuyTicketsFor
  <2>2. balance' >= balance
    BY <1>0, <2>1, SellAdds
  <2>3. status = "Active" /\ prizeDeposited'
    BY <2>1 DEF Sell, CanBuy
  <2> QED BY <1>b, <2>2, <2>3 DEF EscrowInv, PrizeEscrowed
<1>3. CASE (\E i \in 1..MaxTickets : SubmitCommit(i)) \/ Tick \/ UNCHANGED vars
  <2>1. UNCHANGED <<status, prizeDeposited, balance>>
    BY <1>3 DEF SubmitCommit, Tick, vars
  <2> QED BY <2>1, <1>f
<1>4. CASE FinalizeRaffle
  <2>1. UNCHANGED <<prizeDeposited, balance>> /\ status \in {"Active", "Drawing"}
    BY <1>4 DEF FinalizeRaffle, FinalizeFailed, FinalizeRequest, FinalizeDraw,
                FinalizeReady
  <2> QED BY <2>1, <1>f
<1>5. CASE Answer
  <2>1. UNCHANGED <<prizeDeposited, balance>> /\ (status' = status \/ status' = "Finalized")
    BY <1>5 DEF Answer, ProvideRandomness, ProvideQuorumRandomness, DoFinalize
  <2> QED BY <2>1, <1>f, <1>o
<1>6. CASE Settle
  <2>1. status' \in {"Finalized", "Claimed", "Cancelled", "Failed"}
    BY <1>6 DEF Settle, ClaimPrize, SweepUnclaimed, MarkClaimed, RefundPrize,
                RefundTicket, BatchRefundTickets, PayRefunds, Refundable
  <2> QED BY <2>1, <1>o
<1>7. CASE Administer
  <2>1. CASE CancelRaffle \/ ExecuteAdminCancel \/ EmergencyWithdraw
    BY <1>o, <2>1 DEF CancelRaffle, ExecuteAdminCancel, EmergencyWithdraw
  <2>2. CASE \/ ScheduleAdminCancel
             \/ \E on \in BOOLEAN : PauseSwitch(on)
             \/ \E f \in FeeSettings : SetProtocolFeeBp(f)
             \/ \E o \in Oracles : UpdateOracleAddress(o)
    BY <1>f, <2>2 DEF ScheduleAdminCancel, PauseSwitch, SetProtocolFeeBp,
                      UpdateOracleAddress
  <2>3. CASE (\E a \in Amounts : WithdrawFees(a)) \/ WipeStorage
    BY <1>o, <2>3 DEF WithdrawFees, WipeStorage
  <2>4. CASE \/ \E a \in Amounts : RescueTokens(a) \/ Donate(a)
             \/ SweepDust
    <3>1. UNCHANGED <<status, prizeDeposited>>
      BY <2>4 DEF RescueTokens, Donate, SweepDust, TakeOut
    <3>2. CASE status \in {"Active", "Drawing"}
      <4>1. prizeDeposited /\ balance >= PrizeAmount
        BY <3>2 DEF EscrowInv, PrizeEscrowed
      <4>2. TokenEntitlement >= PrizeAmount /\ TokenEntitlement \in Nat
        BY <1>0, <3>2, <4>1, EntitlementHoldsPrize, EntitlementType
      <4>3. balance' >= TokenEntitlement \/ balance' >= balance
        BY <1>0, <2>4, TakeOutLeaves
      <4>4. balance' >= PrizeAmount
        BY <1>b, <4>1, <4>2, <4>3
      <4> QED BY <3>1, <4>1, <4>4 DEF PrizeEscrowed
    <3> QED BY <1>o, <3>1, <3>2
  <2> QED BY <1>7, <2>1, <2>2, <2>3, <2>4 DEF Administer
<1> QED BY <1>1, <1>2, <1>3, <1>4, <1>5, <1>6, <1>7 DEF Next

\* From the deposit to the draw the whole prize is in the contract, for every
\* fee, discount, treasury and pause setting, and whatever tokens the admin
\* rescues: rescue_tokens leaves the prize, and only emergency_withdraw, which
\* ends the draw, pays it out.
THEOREM PrizeStaysEscrowed == Spec => []PrizeEscrowed
<1>1. Init => EscrowInv
  BY PayInit DEF EscrowInv, PrizeEscrowed, Init
<1>2. EscrowInv => PrizeEscrowed
  BY DEF EscrowInv
<1> QED BY <1>1, <1>2, EscrowNext, PTL DEF Spec

-----------------------------------------------------------------------------
(* Configurations in which ticket payments stay whole.                      *)

\* No early-bird discount: get_buy_quote returns the list price.
ListPrice == EarlyBirdBp = 0 \/ EarlyBirdPct = 0

\* No fee is configured and none can be set.
NoFees == InitialFeeBp = 0 /\ FeeSettings \subseteq {0}

\* No fee leaves the contract.
FeesStay == ~HasTreasury \/ NoFees

FeeFree == NoFees => feeBp = 0 /\ accumulatedFees = 0

LEMMA ZeroShare ==
    ASSUME NEW a \in Nat
    PROVE  Share(a, 0) = 0 /\ ShareUp(a, 0) = 0
  BY DEF Share, ShareUp, Whole

\* A fee of zero stays zero.
LEMMA FeeFreeNext == TypeInv /\ FeeFree /\ [Next]_vars => FeeFree'
<1> SUFFICES ASSUME TypeInv, FeeFree, [Next]_vars, NoFees
             PROVE  feeBp' = 0 /\ accumulatedFees' = 0
  BY DEF FeeFree
<1>0. feeBp = 0 /\ accumulatedFees = 0
  BY DEF FeeFree
<1> USE DEF moneyVars
<1>1. CASE DepositPrize
  BY <1>0, <1>1 DEF DepositPrize
<1>2. CASE Purchase
  <2>1. PICK payer \in Buyers, owner \in Buyers, q \in 1..MaxPerTx, price \in Int :
           Sell(payer, owner, q, price)
    <3>1. \A q \in 1..MaxPerTx : TicketPrice * q \in Int /\ NetToPay(q) \in Int
      BY PriceType, TicketAssumption DEF TypeInv, TypeOK, SaleType
    <3> QED BY <1>2, <3>1 DEF Purchase, BuyTickets, BuyTicketsFor
  <2>2. price \in Nat
    BY <2>1 DEF Sell
  <2>3. ProtocolFee(price) = 0
    BY <1>0, <2>2, ZeroShare DEF ProtocolFee
  <2> QED BY <1>0, <2>1, <2>3 DEF Sell
<1>3. CASE (\E i \in 1..MaxTickets : SubmitCommit(i)) \/ Tick \/ UNCHANGED vars
  BY <1>0, <1>3 DEF SubmitCommit, Tick, vars
<1>4. CASE FinalizeRaffle
  BY <1>0, <1>4 DEF FinalizeRaffle, FinalizeFailed, FinalizeRequest, FinalizeDraw
<1>5. CASE Answer
  BY <1>0, <1>5 DEF Answer, ProvideRandomness, ProvideQuorumRandomness
<1>6. CASE Settle
  <2>1. ASSUME NEW t \in Tiers, ClaimPrize(t)
        PROVE  feeBp' = 0 /\ accumulatedFees' = 0
    <3>1. ClaimFee(TierPrize(t)) = 0
      BY <1>0, TierPrizeType, ZeroShare DEF ClaimFee
    <3> QED BY <1>0, <2>1, <3>1 DEF ClaimPrize
  <2>2. ASSUME NEW start, NEW limit, SweepUnclaimed(start, limit)
        PROVE  feeBp' = 0 /\ accumulatedFees' = 0
    BY <1>0, <2>2 DEF SweepUnclaimed
  <2>3. CASE RefundPrize
    BY <1>0, <2>3 DEF RefundPrize
  <2>4. ASSUME NEW i, RefundTicket(i)
        PROVE  feeBp' = 0 /\ accumulatedFees' = 0
    BY <1>0, <2>4 DEF RefundTicket, PayRefunds
  <2>5. ASSUME NEW b, NEW ids, BatchRefundTickets(b, ids)
        PROVE  feeBp' = 0 /\ accumulatedFees' = 0
    BY <1>0, <2>5 DEF BatchRefundTickets, PayRefunds
  <2> QED BY <1>6, <2>1, <2>2, <2>3, <2>4, <2>5 DEF Settle
<1>7. CASE Administer
  <2>1. ASSUME NEW f \in FeeSettings, SetProtocolFeeBp(f)
        PROVE  feeBp' = 0 /\ accumulatedFees' = 0
    BY <1>0, <2>1 DEF SetProtocolFeeBp, NoFees
  <2>2. ASSUME NEW a \in Amounts, WithdrawFees(a)
        PROVE  FALSE
    <3>1. a \in Nat
      BY MoneyAssumption
    <3> QED BY <1>0, <2>2, <3>1 DEF WithdrawFees
  <2>3. CASE \/ CancelRaffle \/ ScheduleAdminCancel \/ ExecuteAdminCancel
             \/ \E on \in BOOLEAN : PauseSwitch(on)
             \/ \E o \in Oracles : UpdateOracleAddress(o)
    BY <1>0, <2>3 DEF CancelRaffle, ScheduleAdminCancel, ExecuteAdminCancel,
                      PauseSwitch, UpdateOracleAddress
  <2>4. CASE \/ \E a \in Amounts : RescueTokens(a) \/ Donate(a)
             \/ SweepDust \/ WipeStorage \/ EmergencyWithdraw
    BY <1>0, <2>4 DEF RescueTokens, Donate, SweepDust, TakeOut, WipeStorage,
                      EmergencyWithdraw
  <2> QED BY <1>7, <2>1, <2>2, <2>3, <2>4 DEF Administer
<1> QED BY <1>1, <1>2, <1>3, <1>4, <1>5, <1>6, <1>7 DEF Next

LEMMA FeeFreeInit == Init => FeeFree
  BY DEF Init, FeeFree, NoFees

-----------------------------------------------------------------------------
(* What an undrawn raffle owes.                                             *)

Owed == TicketPrice * Cardinality(Unpaid) + PrizeOwed

LEMMA Distribute ==
    ASSUME NEW p \in Nat, NEW a \in Nat, NEW b \in Nat
    PROVE  p * (a + b) = p * a + p * b
  OBVIOUS

\* Taking tickets out of a set takes their price out of its price.
LEMMA PriceSplit ==
    ASSUME NEW U \in SUBSET (1..MaxTickets), NEW S \in SUBSET U
    PROVE  TicketPrice * Cardinality(U) =
              TicketPrice * Cardinality(S) + TicketPrice * Cardinality(U \ S)
<1>1. S \in SUBSET (1..MaxTickets) /\ U \ S \in SUBSET (1..MaxTickets)
  OBVIOUS
<1>2. /\ IsFiniteSet(U) /\ IsFiniteSet(S) /\ IsFiniteSet(U \ S)
      /\ Cardinality(U) \in Nat /\ Cardinality(S) \in Nat /\ Cardinality(U \ S) \in Nat
  BY <1>1, RefundAmount
<1>3. Cardinality(U \ S) = Cardinality(U) - Cardinality(U \cap S)
  BY <1>2, FS_Difference
<1>4. U \cap S = S
  OBVIOUS
<1>5. Cardinality(U) = Cardinality(S) + Cardinality(U \ S)
  BY <1>2, <1>3, <1>4
<1> QED BY <1>2, <1>5, Distribute, MoneyAssumption

LEMMA OwedType ==
    ASSUME TypeInv
    PROVE  /\ Unpaid \in SUBSET (1..MaxTickets)
           /\ TicketPrice * Cardinality(Unpaid) \in Nat
           /\ PrizeOwed \in Nat
           /\ Owed \in Nat
<1>1. Unpaid \in SUBSET (1..MaxTickets)
  BY TicketAssumption DEF Unpaid, TypeInv, TypeOK, SaleType
<1>2. TicketPrice * Cardinality(Unpaid) \in Nat
  BY <1>1, RefundAmount
<1>3. PrizeOwed \in Nat
  BY MoneyAssumption DEF PrizeOwed
<1> QED BY <1>1, <1>2, <1>3 DEF Owed

\* The markers overstate what is owed, if at all: what rescue_tokens and
\* sweep_dust leave behind covers it.
LEMMA EntitlementCoversOwed ==
    ASSUME PayInv, status \notin {"Finalized", "Claimed"}
    PROVE  TokenEntitlement >= Owed
<1>t. TypeInv
  BY DEF PayInv, DrawInv
<1>1. Unrefunded \in SUBSET (1..MaxTickets)
  BY <1>t, TicketAssumption DEF Unrefunded, TypeInv, TypeOK, SaleType
<1>2. Unpaid \in SUBSET Unrefunded
  BY DEF Unpaid, Unrefunded, PayInv, Payments, RefundMarks
<1>3. Unrefunded \ Unpaid \in SUBSET (1..MaxTickets)
  BY <1>1
<1>4. /\ OutstandingTicketRefunds \in Nat
      /\ TicketPrice * Cardinality(Unrefunded \ Unpaid) \in Nat
      /\ OutstandingTicketRefunds = TicketPrice * Cardinality(Unpaid)
            + TicketPrice * Cardinality(Unrefunded \ Unpaid)
  BY <1>1, <1>2, <1>3, RefundAmount, PriceSplit DEF OutstandingTicketRefunds
<1>5. PrizeOwed \in Nat /\ OutstandingPrize \in Nat /\ PrizeOwed <= OutstandingPrize
  <2>1. prizePaid = 0 /\ status # "PendingPrize" => prizeDeposited
    BY DEF PayInv, Payments, MarkersAgree
  <2> QED BY <2>1, MoneyAssumption DEF PrizeOwed, OutstandingPrize
<1>6. accumulatedFees \in Nat
  BY <1>t DEF TypeInv, TypeOK, MoneyType
<1>7. TokenEntitlement = OutstandingTicketRefunds + accumulatedFees + OutstandingPrize
  BY DEF TokenEntitlement
<1>8. TicketPrice * Cardinality(Unpaid) \in Nat
  BY <1>t, OwedType
<1> QED BY <1>4, <1>5, <1>6, <1>7, <1>8 DEF Owed

RefundInv == ListPrice /\ FeesStay => RefundsCovered

\* A sale brings in the list price of every ticket it adds.
LEMMA RefundSell ==
    ASSUME PayInv, FeeFree, ListPrice, FeesStay, RefundsCovered,
           NEW payer, NEW owner, NEW q \in 1..MaxPerTx,
           Sell(payer, owner, q, TicketPrice * q)
    PROVE  balance' >= Owed'
<1>t. TypeInv
  BY DEF PayInv, DrawInv
<1>s. status = "Active" /\ ~Refundable /\ status' \in {"Active", "Drawing"}
  BY DEF Sell, CanBuy, AfterSale, TransitionToDrawing, Refundable
<1>n. ticketsSold \in Nat /\ q \in Nat /\ MaxTickets \in Nat /\ TicketPrice \in Nat
      /\ ticketsSold + q <= MaxTickets /\ ticketsSold' = ticketsSold + q
  BY <1>t, TicketAssumption, MoneyAssumption DEF TypeInv, TypeOK, SaleType, Sell, CanBuy
<1>p. \A i \in 1..MaxTickets : ticketPaid[i] = << >>
  BY <1>s, NothingRefunded
<1>1. Unpaid = 1..ticketsSold
  BY <1>n, <1>p DEF Unpaid
<1>2. Unpaid' = 1..(ticketsSold + q)
  BY <1>n, <1>p DEF Unpaid, Sell, paidVars
<1>3. Cardinality(Unpaid) = ticketsSold /\ Cardinality(Unpaid') = ticketsSold + q
  BY <1>1, <1>2, <1>n, FS_Interval
<1>4. PrizeOwed' = PrizeOwed
  BY <1>s DEF PrizeOwed, Sell, paidVars
<1>5. ToTreasury(ProtocolFee(TicketPrice * q)) = 0
  <2>1. TicketPrice * q \in Nat
    BY <1>n
  <2>2. CASE ~HasTreasury
    BY <2>2 DEF ToTreasury
  <2>3. CASE NoFees
    BY <2>1, <2>3, ZeroShare DEF FeeFree, ProtocolFee, ToTreasury
  <2> QED BY <2>2, <2>3 DEF FeesStay
<1>6. balance' = balance + TicketPrice * q
  BY <1>t, <1>n, <1>5 DEF Sell, TypeInv, TypeOK, MoneyType
<1>7. balance >= TicketPrice * ticketsSold + PrizeOwed
  BY <1>s, <1>3 DEF RefundsCovered
<1>8. TicketPrice * (ticketsSold + q) = TicketPrice * ticketsSold + TicketPrice * q
  BY <1>n, Distribute
<1>9. PrizeOwed \in Nat /\ balance \in Nat
  BY <1>t, OwedType DEF TypeInv, TypeOK, MoneyType
<1>10. Owed' = TicketPrice * (ticketsSold + q) + PrizeOwed
  BY <1>3, <1>4 DEF Owed
<1> DEFINE x == TicketPrice * ticketsSold
           y == TicketPrice * q
<1>11. x \in Nat /\ y \in Nat
  BY <1>n
<1>12. balance' = balance + y /\ balance >= x + PrizeOwed /\ Owed' = x + y + PrizeOwed
  BY <1>6, <1>7, <1>8, <1>10
<1> HIDE DEF x, y
<1> QED BY <1>9, <1>11, <1>12

\* A refund takes the list price of the tickets it pays off the debt.
LEMMA RefundPays ==
    ASSUME PayInv, RefundsCovered, Refundable,
           NEW S \in SUBSET (DOMAIN tickets \ refunded), NEW to, PayRefunds(S, to)
    PROVE  balance' >= Owed'
<1>t. TypeInv
  BY DEF PayInv, DrawInv
<1>0. DOMAIN tickets \subseteq 1..ticketsSold /\ 1..ticketsSold \subseteq 1..MaxTickets
  <2>1. tickets \in Seq(Ticket) /\ Len(tickets) <= ticketsSold
        /\ ticketsSold \in 0..MaxTickets
    BY <1>t DEF TypeInv, TypeOK, SaleType
  <2> QED BY <2>1, LenProperties, TicketAssumption
<1>1. \A i \in S : ticketPaid[i] = << >>
  <2>1. \A i \in S : Len(ticketPaid[i]) = 0
    BY DEF PayInv, Payments, MarkersAgree
  <2>2. \A i \in S : ticketPaid[i] \in Seq(Buyers)
    BY <1>t, <1>0 DEF TypeInv, TypeOK, PaidType
  <2> QED BY <2>1, <2>2, EmptySeq
<1>2. S \in SUBSET Unpaid
  BY <1>0, <1>1 DEF Unpaid
<1>3. \A i \in 1..ticketsSold : (ticketPaid'[i] = << >>) <=> (i \in Unpaid \ S)
  <2> TAKE i \in 1..ticketsSold
  <2>1. CASE i \in S
    <3>1. ticketPaid'[i] = Append(<< >>, to[i])
      BY <1>0, <1>1, <2>1 DEF PayRefunds
    <3>2. << >> \in Seq({to[i]}) /\ to[i] \in {to[i]}
      OBVIOUS
    <3>3. Append(<< >>, to[i]) # << >>
      BY <3>2, AppendProperties
    <3> QED BY <2>1, <3>1, <3>3
  <2>2. CASE i \notin S
    BY <1>0, <2>2 DEF PayRefunds, Unpaid
  <2> QED BY <2>1, <2>2
<1>4. Unpaid' = Unpaid \ S
  BY <1>3 DEF Unpaid, PayRefunds, saleVars
<1>5. PrizeOwed' = PrizeOwed
  BY DEF PrizeOwed, PayRefunds
<1>6. Unpaid \in SUBSET (1..MaxTickets) /\ PrizeOwed \in Nat /\ balance \in Nat
  BY <1>t, OwedType DEF TypeInv, TypeOK, MoneyType
<1> DEFINE u == TicketPrice * Cardinality(Unpaid)
           p == TicketPrice * Cardinality(S)
           r == TicketPrice * Cardinality(Unpaid \ S)
<1>7. u = p + r
  BY <1>2, <1>6, PriceSplit
<1>8. u \in Nat /\ p \in Nat /\ r \in Nat
  <2>1. S \in SUBSET (1..MaxTickets) /\ Unpaid \ S \in SUBSET (1..MaxTickets)
    BY <1>2, <1>6
  <2> QED BY <1>6, <2>1, RefundAmount
<1>9. balance' = balance - p
  BY DEF PayRefunds
<1>10. balance >= u + PrizeOwed
  BY DEF RefundsCovered, Refundable
<1>11. Owed' = r + PrizeOwed
  BY <1>4, <1>5 DEF Owed
<1> HIDE DEF u, p, r
<1> QED BY <1>6, <1>7, <1>8, <1>9, <1>10, <1>11

\* refund_prize and emergency_withdraw pay the prize and no longer owe it.
LEMMA RefundPrizePays ==
    ASSUME PayInv, RefundsCovered, ReturnPrize, prizeDeposited,
           status \in {"Drawing", "Cancelled", "Failed"},
           UNCHANGED <<ticketsSold, ticketPaid>>
    PROVE  balance' >= Owed'
<1>t. TypeInv
  BY DEF PayInv, DrawInv
<1>1. Unpaid' = Unpaid
  BY DEF Unpaid
<1>2. prizePaid = 0
  BY DEF PayInv, Payments, MarkersAgree
<1>3. PrizeOwed = PrizeAmount /\ PrizeOwed' = 0
  BY <1>2 DEF PrizeOwed, ReturnPrize
<1> DEFINE u == TicketPrice * Cardinality(Unpaid)
<1>4. u \in Nat /\ PrizeAmount \in Nat /\ balance \in Nat
  BY <1>t, OwedType, MoneyAssumption DEF TypeInv, TypeOK, MoneyType
<1>5. balance >= u + PrizeAmount
  BY <1>3 DEF RefundsCovered
<1>6. balance' = balance - PrizeAmount
  BY DEF ReturnPrize
<1>7. Owed' = u
  BY <1>1, <1>3, <1>4 DEF Owed
<1> HIDE DEF u
<1> QED BY <1>4, <1>5, <1>6, <1>7

LEMMA RefundNext ==
    ASSUME PayInv, FeeFree, RefundInv, [Next]_vars
    PROVE  RefundInv'
<1> SUFFICES ASSUME ListPrice, FeesStay,
                    status' \notin {"Finalized", "Claimed"}
             PROVE  balance' >= Owed'
  BY DEF RefundInv, RefundsCovered, Owed
<1>t. TypeInv
  BY DEF PayInv, DrawInv
<1>c. RefundsCovered
  BY DEF RefundInv
<1>b. balance \in Nat /\ Owed \in Nat
  BY <1>t, OwedType DEF TypeInv, TypeOK, MoneyType
<1>f. ASSUME UNCHANGED <<ticketsSold, balance, paidVars>>,
             status \notin {"Finalized", "Claimed"},
             status' = status \/ status # "PendingPrize"
      PROVE  balance' >= Owed'
  <2>1. Unpaid' = Unpaid /\ (PrizeOwed' = PrizeOwed \/ PrizeOwed' = 0)
    BY <1>f DEF Unpaid, PrizeOwed, paidVars
  <2>2. balance >= TicketPrice * Cardinality(Unpaid) + PrizeOwed
    BY <1>c, <1>f DEF RefundsCovered
  <2>3. TicketPrice * Cardinality(Unpaid) \in Nat /\ PrizeOwed \in Nat
    BY <1>t, OwedType
  <2> DEFINE u == TicketPrice * Cardinality(Unpaid)
  <2>4. Owed' = u + PrizeOwed' /\ balance >= u + PrizeOwed /\ u \in Nat
    BY <2>1, <2>2, <2>3 DEF Owed
  <2> HIDE DEF u
  <2> QED BY <1>b, <1>f, <2>1, <2>3, <2>4
<1> USE DEF moneyVars, saleVars
<1>1. CASE DepositPrize
  <2>1. status = "PendingPrize"
    BY <1>1, TransitionTable DEF DepositPrize
  <2> DEFINE u == TicketPrice * Cardinality(Unpaid)
  <2>2. u \in Nat /\ balance >= u /\ PrizeAmount \in Nat
    <3>1. u \in Nat /\ PrizeOwed = 0
      BY <1>t, <2>1, OwedType DEF PrizeOwed
    <3>2. balance >= u + PrizeOwed
      BY <1>c, <2>1 DEF RefundsCovered
    <3> QED BY <3>1, <3>2, MoneyAssumption
  <2>3. Unpaid' = Unpaid /\ PrizeOwed' \in {0, PrizeAmount}
    BY <1>1 DEF DepositPrize, Unpaid, PrizeOwed, paidVars
  <2>4. Owed' = u + PrizeOwed' /\ balance' = balance + PrizeAmount
    BY <1>1, <2>3 DEF Owed, DepositPrize
  <2>5. PrizeOwed' \in Nat /\ PrizeOwed' <= PrizeAmount
    BY <2>2, <2>3
  <2>6. u \in Nat /\ balance >= u
    BY <2>2
  <2> DEFINE r == PrizeOwed'
  <2>7. r \in Nat /\ r <= PrizeAmount /\ Owed' = u + r
    BY <2>4, <2>5
  <2> HIDE DEF u, r
  <2>8. balance + PrizeAmount >= u + r
    BY <1>b, <2>2, <2>6, <2>7
  <2> QED BY <2>4, <2>7, <2>8
<1>2. CASE Purchase
  <2>1. PICK payer \in Buyers, owner \in Buyers, q \in 1..MaxPerTx :
           Sell(payer, owner, q, TicketPrice * q)
    <3>1. \A q \in 1..MaxPerTx : NetToPay(q) = TicketPrice * q
      <4> TAKE q \in 1..MaxPerTx
      <4>1. TicketPrice * q \in Nat
        BY MoneyAssumption, TicketAssumption
      <4>2. Discount(q) = 0
        BY MoneyAssumption DEF ListPrice, Discount
      <4> QED BY <4>1, <4>2 DEF NetToPay
    <3> QED BY <1>2, <3>1 DEF Purchase, BuyTickets, BuyTicketsFor
  <2> QED BY <1>c, <2>1, RefundSell
<1>3. CASE (\E i \in 1..MaxTickets : SubmitCommit(i)) \/ Tick \/ UNCHANGED vars
  <2>1. UNCHANGED <<status, ticketsSold, balance, paidVars>>
    BY <1>3 DEF SubmitCommit, Tick, vars, paidVars
  <2> QED BY <1>f, <2>1
<1>4. CASE FinalizeRaffle
  <2>1. UNCHANGED <<ticketsSold, balance, paidVars>> /\ status \in {"Active", "Drawing"}
    BY <1>4 DEF FinalizeRaffle, FinalizeFailed, FinalizeRequest, FinalizeDraw,
                FinalizeReady
  <2> QED BY <1>f, <2>1
<1>5. CASE Answer
  <2>1. UNCHANGED <<ticketsSold, balance, paidVars>> /\ status' = status
    BY <1>5 DEF Answer, ProvideRandomness, ProvideQuorumRandomness, DoFinalize
  <2> QED BY <1>f, <2>1
<1>6. CASE Settle
  <2>1. ASSUME NEW t \in Tiers, ClaimPrize(t)
        PROVE  FALSE
    BY <2>1 DEF ClaimPrize, MarkClaimed
  <2>2. ASSUME NEW start, NEW limit, SweepUnclaimed(start, limit)
        PROVE  FALSE
    BY <2>2 DEF SweepUnclaimed, MarkClaimed
  <2>3. CASE RefundPrize
    BY <1>c, <2>3, RefundPrizePays DEF RefundPrize, Refundable
  <2>4. ASSUME NEW i, RefundTicket(i)
        PROVE  balance' >= Owed'
    <3>1. {i} \in SUBSET (DOMAIN tickets \ refunded)
      BY <2>4 DEF RefundTicket
    <3> QED BY <1>c, <2>4, <3>1, RefundPays DEF RefundTicket
  <2>5. ASSUME NEW b, NEW ids, BatchRefundTickets(b, ids)
        PROVE  balance' >= Owed'
    <3>1. ids \ refunded \in SUBSET (DOMAIN tickets \ refunded)
      BY <2>5 DEF BatchRefundTickets
    <3> QED BY <1>c, <2>5, <3>1, RefundPays DEF BatchRefundTickets
  <2> QED BY <1>6, <2>1, <2>2, <2>3, <2>4, <2>5 DEF Settle
<1>7. CASE Administer
  <2>1. CASE CancelRaffle \/ ExecuteAdminCancel
    <3>1. status \in {"Active", "Drawing"} /\ UNCHANGED <<ticketsSold, balance, paidVars>>
      BY <2>1, TransitionTable DEF CancelRaffle, ExecuteAdminCancel, CancelFrom
    <3> QED BY <1>f, <3>1
  <2>2. CASE \/ ScheduleAdminCancel
             \/ \E on \in BOOLEAN : PauseSwitch(on)
             \/ \E f \in FeeSettings : SetProtocolFeeBp(f)
             \/ \E o \in Oracles : UpdateOracleAddress(o)
             \/ WipeStorage
    <3>1. UNCHANGED <<status, ticketsSold, balance, paidVars>>
      BY <2>2 DEF ScheduleAdminCancel, PauseSwitch, SetProtocolFeeBp,
                  UpdateOracleAddress, WipeStorage
    <3> QED BY <1>f, <3>1
  <2>3. ASSUME NEW a \in Amounts, WithdrawFees(a)
        PROVE  FALSE
    BY <2>3 DEF WithdrawFees
  <2>4. CASE \/ \E a \in Amounts : RescueTokens(a) \/ Donate(a)
             \/ SweepDust
    <3>1. UNCHANGED <<status, ticketsSold, paidVars>>
      BY <2>4 DEF RescueTokens, Donate, SweepDust, TakeOut
    <3>2. Owed' = Owed
      BY <3>1 DEF Owed, Unpaid, PrizeOwed, paidVars
    <3>3. balance >= Owed /\ TokenEntitlement >= Owed
      BY <1>c, <3>1, EntitlementCoversOwed DEF RefundsCovered, Owed
    <3>4. balance' >= TokenEntitlement \/ balance' >= balance
      BY <1>t, <2>4, TakeOutLeaves
    <3>5. balance' \in Int /\ TokenEntitlement \in Nat
      <4>1. TypeInv'
        BY <1>t, TypeNext
      <4> QED BY <1>t, <4>1, EntitlementType DEF TypeInv, TypeOK, MoneyType
    <3> QED BY <1>b, <3>2, <3>3, <3>4, <3>5
  <2>5. CASE EmergencyWithdraw
    BY <1>c, <2>5, RefundPrizePays DEF EmergencyWithdraw
  <2> QED BY <1>7, <2>1, <2>2, <2>3, <2>4, <2>5 DEF Administer
<1> QED BY <1>1, <1>2, <1>3, <1>4, <1>5, <1>6, <1>7 DEF Next

LEMMA RefundInit == Init => RefundInv
<1> SUFFICES ASSUME Init PROVE RefundsCovered
  BY DEF RefundInv
<1>1. Unpaid = {} /\ PrizeOwed = 0 /\ balance = 0
  BY DEF Init, Unpaid, PrizeOwed
<1>2. TicketPrice * Cardinality({}) = 0
  BY FS_EmptySet, MoneyAssumption
<1> QED BY <1>1, <1>2 DEF RefundsCovered

\* Where tickets sell at their list price and no fee leaves for the treasury, the
\* contract can at every moment before a draw pay back every unpaid ticket and the
\* prize, in any order and whatever was rescued.  The runs show the hypothesis is
\* needed: with an early-bird discount (DocRefundDiscount) it fails.
THEOREM RefundsAreCovered == Spec => [](ListPrice /\ FeesStay => RefundsCovered)
<1> DEFINE Inv == PayInv /\ FeeFree /\ RefundInv
<1>1. Init => Inv
  BY PayInit, FeeFreeInit, RefundInit
<1>2. Inv /\ [Next]_vars => Inv'
  <2> SUFFICES ASSUME Inv, [Next]_vars PROVE Inv'
    OBVIOUS
  <2>1. TypeInv
    BY DEF PayInv, DrawInv
  <2> QED BY <2>1, PayNext, FeeFreeNext, RefundNext
<1>3. Inv => (ListPrice /\ FeesStay => RefundsCovered)
  BY DEF RefundInv
<1> HIDE DEF Inv
<1> QED BY <1>1, <1>2, <1>3, PTL DEF Spec

-----------------------------------------------------------------------------
(* What a drawn raffle owes its winners.                                    *)

Unsettled == {t \in Tiers : tierPaid[t] = 0}

ClaimInv == NoFees => ClaimsCovered

\* After the draw the claimed flags say who is still to be paid.
LEMMA UnsettledUnclaimed ==
    ASSUME PayInv, status = "Finalized"
    PROVE  Unsettled = Unclaimed
<1>1. winners \in [Tiers -> Winner] /\ winners # << >>
  BY DrawnWinners DEF PayInv, DrawInv, DrawStateAgrees
<1>2. \A t \in Tiers : tierPaid[t] = IF winners[t].claimed THEN 1 ELSE 0
  BY <1>1 DEF PayInv, Payments, MarkersAgree
<1> QED BY <1>1, <1>2 DEF Unsettled, Unclaimed

LEMMA UnsettledTotal ==
    ASSUME NEW S \in SUBSET Unsettled
    PROVE  /\ TierTotal(Unsettled) \in Nat
           /\ TierTotal(S) \in Nat
           /\ TierTotal(Unsettled \ S) \in Nat
           /\ TierTotal(Unsettled) = TierTotal(S) + TierTotal(Unsettled \ S)
<1>1. Unsettled \in SUBSET Tiers /\ S \in SUBSET Tiers /\ Unsettled \ S \in SUBSET Tiers
  BY DEF Unsettled
<1> QED BY <1>1, TierTotals

\* A payment of the tiers in S, no more than they are worth.
LEMMA ClaimPays ==
    ASSUME PayInv, ClaimsCovered, status = "Finalized", NEW S \in SUBSET Unclaimed,
           MarkClaimed(S), balance' = balance - TierTotal(S)
    PROVE  balance' >= TierTotal(Unsettled')
<1>1. Unsettled = Unclaimed
  BY UnsettledUnclaimed
<1>2. Unsettled' = Unsettled \ S
  <2>1. \A t \in Tiers : tierPaid'[t] = IF t \in S THEN tierPaid[t] + 1 ELSE tierPaid[t]
    BY DEF MarkClaimed
  <2>2. \A t \in S : t \in Tiers /\ tierPaid[t] = 0
    BY <1>1 DEF Unsettled
  <2> QED BY <2>1, <2>2 DEF Unsettled
<1>3. balance >= TierTotal(Unsettled)
  BY DEF ClaimsCovered, Unsettled
<1>4. balance \in Nat
  BY DEF PayInv, DrawInv, TypeInv, TypeOK, MoneyType
<1>5. /\ TierTotal(Unsettled) \in Nat /\ TierTotal(S) \in Nat
      /\ TierTotal(Unsettled \ S) \in Nat
      /\ TierTotal(Unsettled) = TierTotal(S) + TierTotal(Unsettled \ S)
  BY <1>1, UnsettledTotal
<1> QED BY <1>2, <1>3, <1>4, <1>5

\* A draw starts with the whole prize in escrow, which covers all tiers.
LEMMA ClaimDraw ==
    ASSUME EscrowInv, NEW from, DoFinalize(from), status \in {"Active", "Drawing"},
           UNCHANGED <<balance, tierPaid>>
    PROVE  balance' >= TierTotal(Unsettled')
<1>1. winners = << >>
  BY DEF EscrowInv, PayInv, DrawInv, DrawStateAgrees
<1>2. Unsettled' = Tiers
  BY <1>1, NothingClaimed DEF EscrowInv, Unsettled
<1>3. balance >= PrizeAmount /\ balance \in Nat
  BY DEF EscrowInv, PrizeEscrowed, PayInv, DrawInv, TypeInv, TypeOK, MoneyType
<1>4. TierTotal(Tiers) \in Nat /\ TierTotal(Tiers) <= PrizeAmount
  BY TierTotals
<1> QED BY <1>2, <1>3, <1>4, MoneyAssumption

LEMMA ClaimNext ==
    ASSUME EscrowInv, FeeFree, ClaimInv, [Next]_vars
    PROVE  ClaimInv'
<1> SUFFICES ASSUME NoFees, status' = "Finalized"
             PROVE  balance' >= TierTotal(Unsettled')
  BY DEF ClaimInv, ClaimsCovered, Unsettled
<1>p. PayInv /\ TypeInv
  BY DEF EscrowInv, PayInv, DrawInv
<1>c. ClaimsCovered
  BY DEF ClaimInv
<1>0. feeBp = 0 /\ accumulatedFees = 0
  BY DEF FeeFree
<1>b. balance \in Nat
  BY <1>p DEF TypeInv, TypeOK, MoneyType
<1>f. ASSUME UNCHANGED <<status, balance, tierPaid>>
      PROVE  balance' >= TierTotal(Unsettled')
  BY <1>c, <1>f DEF ClaimsCovered, Unsettled
<1> USE DEF moneyVars, paidVars
<1>1. CASE DepositPrize \/ Purchase
  BY <1>1 DEF DepositPrize, Purchase, BuyTickets, BuyTicketsFor, Sell, CanBuy,
              AfterSale, TransitionToDrawing
<1>2. CASE (\E i \in 1..MaxTickets : SubmitCommit(i)) \/ Tick \/ UNCHANGED vars
  <2>1. UNCHANGED <<status, balance, tierPaid>>
    BY <1>2 DEF SubmitCommit, Tick, vars
  <2> QED BY <1>f, <2>1
<1>3. CASE FinalizeRaffle
  <2>1. DoFinalize("Drawing") /\ status = "Active" /\ UNCHANGED <<balance, tierPaid>>
    BY <1>3, TransitionTable
       DEF FinalizeRaffle, FinalizeFailed, FinalizeRequest, FinalizeDraw, TransitionToDrawing
  <2> QED BY <2>1, ClaimDraw
<1>4. CASE Answer
  <2>0. UNCHANGED <<balance, tierPaid>>
    BY <1>4 DEF Answer, ProvideRandomness, ProvideQuorumRandomness
  <2>1. CASE DoFinalize(status)
    <3>1. status = "Drawing"
      BY <2>1, TransitionTable DEF DoFinalize
    <3> QED BY <2>0, <2>1, <3>1, ClaimDraw
  <2>2. CASE UNCHANGED status
    BY <1>f, <2>0, <2>2
  <2> QED BY <1>4, <2>1, <2>2 DEF Answer, ProvideRandomness, ProvideQuorumRandomness
<1>5. CASE Settle
  <2>1. ASSUME NEW t \in Tiers, ClaimPrize(t)
        PROVE  balance' >= TierTotal(Unsettled')
    <3>1. TierPrize(t) \in Nat /\ ClaimFee(TierPrize(t)) = 0
      BY <1>0, TierPrizeType, ZeroShare DEF ClaimFee
    <3>2. balance' = balance - TierTotal({t})
      <4>1. TierTotal({t}) = TierPrize(t)
        BY TierTotals
      <4>2. ToTreasury(0) = 0
        BY DEF ToTreasury
      <4>3. balance' = balance - (TierPrize(t) - 0) - 0
        BY <2>1, <3>1, <4>2 DEF ClaimPrize
      <4> QED BY <1>b, <3>1, <4>1, <4>3
    <3>3. {t} \in SUBSET Unclaimed /\ status = "Finalized" /\ MarkClaimed({t})
      BY <2>1 DEF ClaimPrize
    <3> QED BY <1>p, <1>c, <3>2, <3>3, ClaimPays
  <2>2. ASSUME NEW start, NEW limit, SweepUnclaimed(start, limit)
        PROVE  balance' >= TierTotal(Unsettled')
    <3>1. SweepPage(start, limit) \in SUBSET Unclaimed
      BY DEF SweepPage
    <3>2. status = "Finalized" /\ MarkClaimed(SweepPage(start, limit))
          /\ balance' = balance - TierTotal(SweepPage(start, limit))
      BY <2>2 DEF SweepUnclaimed
    <3> QED BY <1>p, <1>c, <3>1, <3>2, ClaimPays
  <2>3. CASE RefundPrize
    BY <2>3 DEF RefundPrize, Refundable
  <2>4. ASSUME NEW i, RefundTicket(i)
        PROVE  FALSE
    BY <2>4 DEF RefundTicket, PayRefunds, Refundable
  <2>5. ASSUME NEW b, NEW ids, BatchRefundTickets(b, ids)
        PROVE  FALSE
    BY <2>5 DEF BatchRefundTickets, PayRefunds, Refundable
  <2> QED BY <1>5, <2>1, <2>2, <2>3, <2>4, <2>5 DEF Settle
<1>6. CASE Administer
  <2>1. CASE CancelRaffle \/ ExecuteAdminCancel \/ EmergencyWithdraw
    BY <2>1 DEF CancelRaffle, ExecuteAdminCancel, EmergencyWithdraw
  <2>2. CASE \/ ScheduleAdminCancel
             \/ \E on \in BOOLEAN : PauseSwitch(on)
             \/ \E f \in FeeSettings : SetProtocolFeeBp(f)
             \/ \E o \in Oracles : UpdateOracleAddress(o)
             \/ WipeStorage
    <3>1. UNCHANGED <<status, balance, tierPaid>>
      BY <2>2 DEF ScheduleAdminCancel, PauseSwitch, SetProtocolFeeBp,
                  UpdateOracleAddress, WipeStorage
    <3> QED BY <1>f, <3>1
  <2>3. ASSUME NEW a \in Amounts, WithdrawFees(a)
        PROVE  FALSE
    <3>1. a \in Nat
      BY MoneyAssumption
    <3> QED BY <1>0, <2>3, <3>1 DEF WithdrawFees
  <2>4. CASE \/ \E a \in Amounts : RescueTokens(a) \/ Donate(a)
             \/ SweepDust
    <3>1. UNCHANGED <<status, tierPaid>> /\ status = "Finalized"
      BY <2>4 DEF RescueTokens, Donate, SweepDust, TakeOut
    <3>2. Unsettled' = Unsettled /\ Unsettled = Unclaimed
      BY <1>p, <3>1, UnsettledUnclaimed DEF Unsettled
    <3>3. TierTotal(Unsettled) \in Nat /\ balance >= TierTotal(Unsettled)
      BY <1>c, <3>1, UnsettledTotal DEF ClaimsCovered, Unsettled
    <3>4. prizeDeposited
      <4>1. prizePaid = 0
        BY <1>p, <3>1, NothingRefunded DEF Refundable
      <4> QED BY <1>p, <3>1, <4>1 DEF PayInv, Payments, MarkersAgree
    <3>5. TokenEntitlement = TierTotal(Unsettled)
      <4>1. OutstandingPrize = TierTotal(Unsettled)
        BY <3>1, <3>2, <3>4 DEF OutstandingPrize
      <4> QED BY <3>1, <3>3, <4>1 DEF TokenEntitlement
    <3>6. balance' >= TokenEntitlement \/ balance' >= balance
      BY <1>p, <2>4, TakeOutLeaves
    <3>7. balance' \in Int
      <4>1. TypeInv'
        BY <1>p, TypeNext
      <4> QED BY <4>1 DEF TypeInv, TypeOK, MoneyType
    <3> QED BY <1>b, <3>2, <3>3, <3>5, <3>6, <3>7
  <2> QED BY <1>6, <2>1, <2>2, <2>3, <2>4 DEF Administer
<1> QED BY <1>1, <1>2, <1>3, <1>4, <1>5, <1>6 DEF Next

\* Where no fee is ever charged, a drawn raffle can at every moment pay every tier
\* that nobody was paid for, whatever was claimed, swept or rescued before.  Fees
\* need the hypothesis: after the draw rescue_tokens no longer sets the
\* accumulated fees aside, and withdraw_fees can then take them from the prize.
THEOREM ClaimsAreCovered == Spec => [](NoFees => ClaimsCovered)
<1> DEFINE Inv == EscrowInv /\ FeeFree /\ ClaimInv
<1>1. Init => Inv
  BY PayInit, FeeFreeInit DEF EscrowInv, PrizeEscrowed, ClaimInv, ClaimsCovered, Init
<1>2. Inv /\ [Next]_vars => Inv'
  <2> SUFFICES ASSUME Inv, [Next]_vars PROVE Inv'
    OBVIOUS
  <2>1. TypeInv
    BY DEF EscrowInv, PayInv, DrawInv
  <2> QED BY <2>1, EscrowNext, FeeFreeNext, ClaimNext
<1>3. Inv => (NoFees => ClaimsCovered)
  BY DEF ClaimInv
<1> HIDE DEF Inv
<1> QED BY <1>1, <1>2, <1>3, PTL DEF Spec

-----------------------------------------------------------------------------
(* What an address holds and may still buy.                                 *)

Held(b) == {i \in DOMAIN tickets : tickets[i].owner = b}

\* The stored counter of an address counts its stored tickets, within its cap.
CountsAgree ==
    \A b \in Buyers :
        /\ ticketCount[b] = Cardinality(Held(b))
        /\ MaxPerAddress > 0 => ticketCount[b] <= MaxPerAddress

LEMMA MaxOfTwo ==
    ASSUME NEW a \in Int, NEW b \in Int
    PROVE  Max({a, b}) = IF a >= b THEN a ELSE b
<1> DEFINE m == IF a >= b THEN a ELSE b
<1>1. m \in {a, b} /\ \A y \in {a, b} : m >= y
  OBVIOUS
<1>2. \A x \in {a, b} : (\A y \in {a, b} : x >= y) => x = m
  OBVIOUS
<1> HIDE DEF m
<1>3. Max({a, b}) = m
  BY <1>1, <1>2 DEF Max
<1> QED BY <1>3 DEF m

\* An address holds at most the tickets there are.
LEMMA HeldBound ==
    ASSUME TypeInv, NEW b
    PROVE  /\ Held(b) \subseteq 1..Len(tickets)
           /\ IsFiniteSet(Held(b))
           /\ Cardinality(Held(b)) \in Nat
           /\ Cardinality(Held(b)) <= Len(tickets)
           /\ Len(tickets) \in Nat
<1>1. tickets \in Seq(Ticket)
  BY DEF TypeInv, TypeOK, SaleType
<1>2. DOMAIN tickets = 1..Len(tickets) /\ Len(tickets) \in Nat
  BY <1>1, LenProperties
<1>3. IsFiniteSet(1..Len(tickets)) /\ Cardinality(1..Len(tickets)) = Len(tickets)
  <2> DEFINE m == Len(tickets)
  <2>1. m \in Nat /\ m \in Int /\ 1 \in Int
    BY <1>2
  <2> HIDE DEF m
  <2>2. IsFiniteSet(1..m) /\ Cardinality(1..m) = m
    BY <2>1, FS_Interval
  <2> QED BY <2>2 DEF m
<1>4. Held(b) \in SUBSET (1..Len(tickets))
  BY <1>2 DEF Held
<1>5. IsFiniteSet(Held(b)) /\ Cardinality(Held(b)) <= Len(tickets)
  BY <1>3, <1>4, FS_Subset
<1> QED BY <1>2, <1>4, <1>5, FS_CardinalityType

LEMMA CountsFrame ==
    ASSUME CountsAgree, UNCHANGED <<tickets, ticketCount>>
    PROVE  CountsAgree'
  BY DEF CountsAgree, Held

\* A sale adds q tickets to what the owner holds and q to the owner's counter.
LEMMA CountsSell ==
    ASSUME TypeInv, CountsAgree, NEW payer \in Buyers, NEW owner \in Buyers,
           NEW q \in 1..MaxPerTx, NEW price, Sell(payer, owner, q, price)
    PROVE  CountsAgree'
<1> DEFINE n == Len(tickets)
           new == [i \in 1..q |-> [owner |-> owner, payer |-> payer]]
<1>q. q \in Nat /\ MaxPerAddress \in Nat
  BY TicketAssumption
<1>t. tickets \in Seq(Ticket) /\ n \in Nat /\ DOMAIN tickets = 1..n
  <2>1. tickets \in Seq(Ticket)
    BY DEF TypeInv, TypeOK, SaleType
  <2> QED BY <2>1, LenProperties
<1>1. tickets' = tickets \o new
  BY DEF Sell
<1>2. new \in Seq(Ticket) /\ Len(new) = q /\ \A i \in 1..q : new[i].owner = owner
  BY <1>q DEF Ticket
<1>3. /\ DOMAIN tickets' = 1..(n + q)
      /\ \A i \in 1..n : tickets'[i] = tickets[i]
      /\ \A i \in (n + 1)..(n + q) : tickets'[i].owner = owner
  <2> HIDE DEF new
  <2>1. /\ tickets \o new \in Seq(Ticket)
        /\ Len(tickets \o new) = n + q
        /\ \A i \in 1..(n + q) : (tickets \o new)[i] =
               IF i <= n THEN tickets[i] ELSE new[i - n]
    BY <1>t, <1>2, ConcatProperties
  <2>2. DOMAIN tickets' = 1..(n + q)
    BY <1>1, <2>1, LenProperties
  <2>3. \A i \in 1..n : tickets'[i] = tickets[i]
    BY <1>1, <1>t, <1>q, <2>1
  <2>4. \A i \in (n + 1)..(n + q) : tickets'[i] = new[i - n] /\ i - n \in 1..q
    BY <1>1, <1>t, <1>q, <2>1
  <2> QED BY <1>2, <2>2, <2>3, <2>4
<1> HIDE DEF new, n
<1>4. ticketCount' = [ticketCount EXCEPT ![owner] = @ + q]
  BY DEF Sell, Credit
<1>5. ticketCount \in [Buyers -> Nat]
  BY DEF TypeInv, TypeOK, SaleType
<1>6. ASSUME NEW b \in Buyers, b # owner
      PROVE  ticketCount'[b] = ticketCount[b] /\ Held(b)' = Held(b)
  <2>1. Held(b)' = Held(b)
    BY <1>t, <1>q, <1>3, <1>6 DEF Held
  <2> QED BY <1>4, <1>5, <1>6, <2>1
<1>7. Cardinality(Held(owner)') = Cardinality(Held(owner)) + q
  <2> DEFINE N == (n + 1)..(n + q)
  <2>1. Held(owner)' = Held(owner) \cup N
    BY <1>t, <1>q, <1>3 DEF Held
  <2>2. Held(owner) \cap N = {}
    BY <1>t DEF Held
  <2>3. IsFiniteSet(N) /\ Cardinality(N) = q
    <3>1. n + 1 \in Int /\ n + q \in Int /\ q >= 1
      BY <1>t, <1>q
    <3> QED BY <1>t, <1>q, <3>1, FS_Interval
  <2>4. IsFiniteSet(Held(owner)) /\ Cardinality(Held(owner)) \in Nat
    BY HeldBound
  <2> HIDE DEF N
  <2>5. Cardinality(Held(owner) \cup N) =
           Cardinality(Held(owner)) + Cardinality(N) - Cardinality(Held(owner) \cap N)
    BY <2>3, <2>4, FS_Union
  <2>6. Cardinality(Held(owner) \cap N) = 0
    BY <2>2, FS_EmptySet
  <2>7. Cardinality(Held(owner) \cup N) = Cardinality(Held(owner)) + q
    <3> DEFINE c == Cardinality(Held(owner))
               u == Cardinality(Held(owner) \cup N)
    <3>1. u = c + q - 0 /\ c \in Nat
      BY <2>3, <2>4, <2>5, <2>6
    <3> HIDE DEF c, u
    <3>2. u = c + q
      BY <1>q, <3>1
    <3> QED BY <3>2 DEF c, u
  <2> QED BY <2>1, <2>7
<1>8. ticketCount'[owner] = ticketCount[owner] + q
  BY <1>4, <1>5
<1>9. MaxPerAddress > 0 => ticketCount[owner] + q <= MaxPerAddress
  BY DEF Sell, CanBuy
<1> SUFFICES ASSUME NEW b \in Buyers
             PROVE  /\ ticketCount'[b] = Cardinality(Held(b)')
                    /\ MaxPerAddress > 0 => ticketCount'[b] <= MaxPerAddress
  BY DEF CountsAgree
<1>10. CASE b = owner
  BY <1>7, <1>8, <1>9, <1>10 DEF CountsAgree
<1>11. CASE b # owner
  BY <1>6, <1>11 DEF CountsAgree
<1> QED BY <1>10, <1>11

LEMMA CountsNext == TypeInv /\ CountsAgree /\ [Next]_vars => CountsAgree'
<1> SUFFICES ASSUME TypeInv, CountsAgree, [Next]_vars PROVE CountsAgree'
  OBVIOUS
<1> USE DEF saleVars
<1>1. CASE Purchase
  BY <1>1, CountsSell DEF Purchase, BuyTickets, BuyTicketsFor
<1>2. CASE WipeStorage
  <2>1. \A b \in Buyers : Held(b)' = {} /\ ticketCount'[b] = 0
    BY <1>2 DEF WipeStorage, Held
  <2> QED BY <2>1, FS_EmptySet, TicketAssumption DEF CountsAgree
<1>3. CASE DepositPrize \/ Tick \/ (\E i \in 1..MaxTickets : SubmitCommit(i))
  BY <1>3, CountsFrame DEF DepositPrize, Tick, SubmitCommit
<1>4. CASE FinalizeRaffle \/ Answer
  <2>1. UNCHANGED <<tickets, ticketCount>>
    BY <1>4 DEF FinalizeRaffle, FinalizeFailed, FinalizeRequest, FinalizeDraw, Answer,
                ProvideRandomness, ProvideQuorumRandomness
  <2> QED BY <2>1, CountsFrame
<1>5. CASE Settle
  <2>1. UNCHANGED <<tickets, ticketCount>>
    BY <1>5 DEF Settle, ClaimPrize, SweepUnclaimed, RefundPrize, RefundTicket,
                BatchRefundTickets, PayRefunds
  <2> QED BY <2>1, CountsFrame
<1>6. CASE Administer /\ ~WipeStorage
  <2>1. UNCHANGED <<tickets, ticketCount>>
    BY <1>6 DEF Administer, CancelRaffle, ExecuteAdminCancel, EmergencyWithdraw,
          ScheduleAdminCancel, PauseSwitch, SetProtocolFeeBp, UpdateOracleAddress,
          WithdrawFees, RescueTokens, Donate, SweepDust, TakeOut
  <2> QED BY <2>1, CountsFrame
<1>7. CASE UNCHANGED vars
  BY <1>7, CountsFrame DEF vars
<1> QED BY <1>1, <1>2, <1>3, <1>4, <1>5, <1>6, <1>7 DEF Next

LEMMA CountsInit == Init => CountsAgree
<1> SUFFICES ASSUME Init PROVE CountsAgree
  OBVIOUS
<1>1. \A b \in Buyers : Held(b) = {} /\ ticketCount[b] = 0
  BY DEF Init, Held
<1> QED BY <1>1, FS_EmptySet, TicketAssumption DEF CountsAgree

\* get_remaining_ticket_allowance tells every address the truth, for any supply
\* and any cap: the tickets on record and the allowance make up the cap through
\* purchases, gifts and the wiping of storage, and an open sale accepts exactly the
\* quantities that fit in the allowance and in the supply.
THEOREM AllowanceIsHonest == Spec => []AllowanceHonest
<1> DEFINE Inv == PayInv /\ CountsAgree
<1>1. Init => Inv
  BY PayInit, CountsInit
<1>2. Inv /\ [Next]_vars => Inv'
  <2> SUFFICES ASSUME Inv, [Next]_vars PROVE Inv'
    OBVIOUS
  <2>1. TypeInv
    BY DEF PayInv, DrawInv
  <2> QED BY <2>1, PayNext, CountsNext
<1>3. ASSUME Inv PROVE AllowanceHonest
  <2>t. TypeInv
    BY <1>3 DEF PayInv, DrawInv
  <2> SUFFICES ASSUME NEW b \in Buyers
               PROVE  LET held == Cardinality({i \in DOMAIN tickets : tickets[i].owner = b})
                          left == RemainingTicketAllowance(b)
                      IN  /\ MaxPerAddress > 0 => held + left = MaxPerAddress
                          /\ /\ status = "Active"
                             /\ NoDeadline \/ now < EndTime
                             /\ ~paused /\ ~salesPaused /\ ~globalPaused
                             => \A q \in 1..MaxPerTx :
                                   CanBuy(b, q) <=> q <= left /\ ticketsSold + q <= MaxTickets
    BY DEF AllowanceHonest
  <2> DEFINE held == Cardinality(Held(b))
             left == RemainingTicketAllowance(b)
             count == ticketCount[b]
             room == MaxPerAddress - count
  <2>1. /\ ticketsSold \in Nat /\ MaxTickets \in Nat /\ MaxPerAddress \in Nat
        /\ MaxU32 \in Nat /\ MaxTickets <= MaxU32
    BY <2>t, TicketAssumption DEF TypeInv, TypeOK, SaleType
  <2>2. /\ held = count /\ count \in Nat
        /\ MaxPerAddress > 0 => count <= MaxPerAddress
    BY <1>3, <2>t, HeldBound DEF CountsAgree
  <2>3. ASSUME MaxPerAddress > 0
        PROVE  left = MaxPerAddress - count
    <3>1. room \in Nat
      BY <2>1, <2>2, <2>3
    <3>2. left = Max({room, 0})
      BY <2>1, <2>3 DEF RemainingTicketAllowance
    <3> HIDE DEF room, left
    <3>3. Max({room, 0}) = room
      BY <3>1, MaxOfTwo
    <3> QED BY <3>2, <3>3 DEF room
  <2>4. ASSUME ~(MaxPerAddress > 0)
        PROVE  left = MaxU32
    BY <2>1, <2>4 DEF RemainingTicketAllowance
  <2> HIDE DEF left, room
  <2>5. MaxPerAddress > 0 => held + left = MaxPerAddress
    <3> HIDE DEF held, count
    <3> QED BY <2>1, <2>2, <2>3
  <2>6. ASSUME status = "Active", NoDeadline \/ now < EndTime,
               ~paused /\ ~salesPaused /\ ~globalPaused, NEW q \in 1..MaxPerTx
        PROVE  CanBuy(b, q) <=> q <= left /\ ticketsSold + q <= MaxTickets
    <3>1. ~drawingLock
      BY <1>3, <2>6 DEF PayInv, DrawInv, DrawStateAgrees
    <3>2. prizeDeposited
      <4>1. prizePaid = 0
        BY <1>3, <2>6, NothingRefunded DEF Refundable
      <4> QED BY <1>3, <2>6, <4>1 DEF PayInv, Payments, MarkersAgree
    <3>3. CanBuy(b, q) <=> /\ ticketsSold + q <= MaxTickets
                           /\ MaxPerAddress > 0 => count + q <= MaxPerAddress
      BY <2>6, <3>1, <3>2 DEF CanBuy, RequireNotPaused, RequireGlobalNotPaused
    <3>4. q \in Nat /\ q <= MaxU32
      BY <2>1, TicketAssumption
    <3> HIDE DEF count
    <3>5. CASE MaxPerAddress > 0
      BY <2>1, <2>2, <2>3, <3>3, <3>4, <3>5
    <3>6. CASE ~(MaxPerAddress > 0)
      BY <2>1, <2>4, <3>3, <3>4, <3>6
    <3> QED BY <3>5, <3>6
  <2> QED BY <2>5, <2>6 DEF Held, left
<1> HIDE DEF Inv
<1> QED BY <1>1, <1>2, <1>3, PTL DEF Spec

=============================================================================
