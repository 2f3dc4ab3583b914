----------------------------- MODULE Purchases -----------------------------
(***************************************************************************)
(* What buyers, the ledger and the toll booth make together, with no       *)
(* processes, wallets, clocks, retries or failures.                        *)
(*                                                                         *)
(* A buyer orders with a transaction that carries exactly what an offer    *)
(* asks.  Only ordered transactions settle, once and as what was ordered   *)
(* or as a failure.  An order is redeemed with its own transaction, and a  *)
(* transaction is redeemed for one order.  A buyer is answered on the      *)
(* redeemed order it made.  Checkout is shown to implement this module.    *)
(***************************************************************************)
CONSTANTS Challenge,      \* identifiers of offers
          Tx,             \* transaction hashes
          Terms,          \* what an offer may ask for
          Carries(_, _),  \* Carries(tx, terms): tx was built for such terms
          Outcomes(_),    \* Outcomes(tx): the payments tx can settle as
          Pays(_, _),     \* Pays(payment, terms): it pays exactly that
          None

VARIABLES offers,         \* offers[c]: the terms offered under c, or None
          orders,         \* what was signed: a set of [challenge, tx]
          settled,        \* settled[t]: the payment of transaction t, or None
          book,           \* the orders redeemed
          bought          \* the orders answered

vars == <<offers, orders, settled, book, bought>>

Pair(c, t) == [challenge |-> c, tx |-> t]

Init == /\ offers = [c \in Challenge |-> None]
        /\ orders = {}
        /\ settled = [t \in Tx |-> None]
        /\ book = {}
        /\ bought = {}

Offer(c) == /\ offers[c] = None
            /\ offers'[c] \in Terms
            /\ offers' = [offers EXCEPT ![c] = offers'[c]]
            /\ UNCHANGED <<orders, settled, book, bought>>

Order(c, t) == /\ offers[c] # None
               /\ Carries(t, offers[c])
               /\ orders' = orders \union {Pair(c, t)}
               /\ UNCHANGED <<offers, settled, book, bought>>

Settle(t) == /\ \E order \in orders : order.tx = t
             /\ settled[t] = None
             /\ settled'[t] \in Outcomes(t)
             /\ settled' = [settled EXCEPT ![t] = settled'[t]]
             /\ UNCHANGED <<offers, orders, book, bought>>

Redeem(c, t) == /\ Pair(c, t) \in orders
                /\ settled[t] # None
                /\ Pays(settled[t], offers[c])
                /\ \A other \in book : other.challenge # c /\ other.tx # t
                /\ book' = book \union {Pair(c, t)}
                /\ UNCHANGED <<offers, orders, settled, bought>>

Answer(c, t) == /\ Pair(c, t) \in book
                /\ bought' = bought \union {Pair(c, t)}
                /\ UNCHANGED <<offers, orders, settled, book>>

Next == \/ \E c \in Challenge : Offer(c)
        \/ \E t \in Tx : Settle(t)
        \/ \E c \in Challenge, t \in Tx : Order(c, t) \/ Redeem(c, t) \/ Answer(c, t)

Spec == Init /\ [][Next]_vars
=============================================================================
