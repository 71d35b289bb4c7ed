---------------------------- MODULE OrderLifecycle ----------------------------
(***************************************************************************)
(* What the order path promises, seen from the account: at most one order  *)
(* is outstanding; every client order id is issued once; the balances move *)
(* only by the trades of the outstanding order; and settling it takes over *)
(* exactly those trades into the position.                                 *)
(***************************************************************************)
EXTENDS Integers

CONSTANTS Markets, Ids, None, Lot, HeldVolumes

VARIABLES
    account,   \* units held at the exchange, per market
    position,  \* units the trader believes it holds when nothing is pending
    order,     \* the outstanding order and what it traded, or Nothing
    spent      \* ids ever issued

abstractVars == <<account, position, order, spent>>

Nothing == [id |-> None, side |-> None, market |-> None, traded |-> 0]

LInit ==
    /\ position \in HeldVolumes
    /\ \E m \in Markets : account = [n \in Markets |-> IF n = m THEN position ELSE 0]
    /\ order = Nothing
    /\ spent = {}

Issue ==
    /\ order = Nothing
    /\ \E i \in Ids \ spent, m \in Markets :
         /\ order' = [id |-> i, side |-> IF position = 0 THEN "bid" ELSE "ask",
                      market |-> m, traded |-> 0]
         /\ spent' = spent \cup {i}
    /\ UNCHANGED <<account, position>>

Trade ==
    /\ order # Nothing
    /\ order' = [order EXCEPT !.traded = @ + 1]
    /\ account' = [account EXCEPT ![order.market] =
         IF order.side = "bid" THEN @ + 1 ELSE @ - 1]
    /\ account'[order.market] \in 0..Lot
    /\ UNCHANGED <<position, spent>>

Settle ==
    /\ order # Nothing
    /\ position' = IF order.side = "bid" THEN position + order.traded
                                         ELSE position - order.traded
    /\ position' \in 0..Lot
    /\ order' = Nothing
    /\ UNCHANGED <<account, spent>>

LNext == Issue \/ Trade \/ Settle

LSpec == LInit /\ [][LNext]_abstractVars
=============================================================================
