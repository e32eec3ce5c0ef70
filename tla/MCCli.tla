-------------------------------- MODULE MCCli -------------------------------
(***************************************************************************)
(* The command line on a small instance: every provider of the menu, a     *)
(* stock and a coin, two panels of analysts whose answers may be empty.    *)
(***************************************************************************)
EXTENDS Cli

MCTickers == {"nvda", "btc-usd"}
MCCanonical == [t \in MCTickers |-> t]
MCDates == {1}

Shape(as, d, r, x) == [analysts |-> as, debate |-> d, risk |-> r, asset |-> x]

MCConfs ==
    {Shape(<<"market", "social", "news">>, 1, 1, "stock"),
     Shape(<<"news", "fundamentals">>, 2, 0, "stock"), Shape(<<"market">>, 1, 2, "crypto")}

MCBookings ==
    {[ticker |-> "nvda", date |-> 1, conf |-> Shape(<<"news", "fundamentals">>, 2, 0, "stock"),
      checkpoint |-> FALSE]}

MCEnvRounds == {Unset, 0, 2}
=============================================================================
