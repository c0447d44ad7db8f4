----------------------------- MODULE MCPaperTrading -----------------------------
(* A limit order to buy, which leaves too little cash for another one, and *)
(* a stop-loss order to sell, in two accounts.  The second price update    *)
(* fills both, the first one only the sale.                                *)
EXTENDS PaperTrading
CONSTANTS a1, a2, buy, sell, d1
MCTicket ==
    [o \in Orders |-> IF o = buy
     THEN [account |-> a1, side |-> "BUY", kind |-> "LIMIT", quantity |-> 2, price |-> 100,
           trigger |-> NoPrice]
     ELSE [account |-> a2, side |-> "SELL", kind |-> "STOP_LOSS_LIMIT", quantity |-> 1,
           price |-> 95, trigger |-> 110]]
MCTicks == {[stamp |-> 1, price |-> 120, low |-> 105, high |-> 120],
            [stamp |-> 2, price |-> 90, low |-> 90, high |-> 96]}
MCOwner == [d \in Deployments |-> a1]
================================================================================
