--------------------------- MODULE MCTradingGraph ---------------------------
(***************************************************************************)
(* The engine on a small instance: one ticker typed in two ways, one trade *)
(* date, and three shapes of the graph, two of them alike but in rounds.   *)
(***************************************************************************)
EXTENDS TradingGraph

MCTickers == {"nvda", "NVDA"}
MCCanonical == [t \in MCTickers |-> "NVDA"]
MCDates == {1}

Shape(a, d, r) == [analysts |-> <<a>>, debate |-> d, risk |-> r, asset |-> "stock"]

OpeningOnly == Shape("social", 0, 1)
FullDebate == Shape("social", 1, 0)
WithTools == Shape("market", 0, 0)
MCConfs == {OpeningOnly, FullDebate, WithTools}

Booking(t, c, k) == [ticker |-> t, date |-> 1, conf |-> c, checkpoint |-> k]

MCBookings ==
    {Booking("nvda", OpeningOnly, TRUE), Booking("NVDA", FullDebate, TRUE),
     Booking("nvda", WithTools, FALSE)}
=============================================================================
