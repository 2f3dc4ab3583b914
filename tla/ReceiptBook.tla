---------------------------- MODULE ReceiptBook ----------------------------
(***************************************************************************)
(* What the toll booth promises, with no processes, caches, clocks or      *)
(* failures: a book of offers, payments and receipts.                      *)
(*                                                                         *)
(* An offer is published once and never changes.  A payment settles once   *)
(* on the ledger.  A receipt pairs one offer with one settled payment that *)
(* pays exactly what the offer asked; an offer and a payment each appear   *)
(* in at most one receipt.  Access is given only for a payment that has a  *)
(* receipt.  PaymentGateway is shown to implement this module.             *)
(***************************************************************************)
CONSTANTS Challenge,      \* identifiers of offers
          Tx,             \* transaction hashes
          Terms,          \* what an offer may ask for
          Payments,       \* the payments that may settle
          Pays(_, _),     \* Pays(payment, terms): it pays exactly that
          None

VARIABLES offers,         \* offers[c]: the terms offered under c, or None
          settled,        \* settled[t]: the payment in transaction t, or None
          book,           \* the receipts: a set of [challenge, tx]
          served          \* the transactions access was given for

vars == <<offers, settled, book, served>>

Init == /\ offers = [c \in Challenge |-> None]
        /\ settled = [t \in Tx |-> None]
        /\ book = {}
        /\ served = {}

Offer(c) == /\ offers[c] = None
            /\ offers'[c] \in Terms
            /\ offers' = [offers EXCEPT ![c] = offers'[c]]
            /\ UNCHANGED <<settled, book, served>>

Settle(t) == /\ settled[t] = None
             /\ settled'[t] \in Payments
             /\ settled' = [settled EXCEPT ![t] = settled'[t]]
             /\ UNCHANGED <<offers, book, served>>

Redeem(c, t) == /\ offers[c] # None
                /\ settled[t] # None
                /\ Pays(settled[t], offers[c])
                /\ \A entry \in book : entry.challenge # c /\ entry.tx # t
                /\ book' = book \union {[challenge |-> c, tx |-> t]}
                /\ UNCHANGED <<offers, settled, served>>

Admit(t) == /\ \E entry \in book : entry.tx = t
            /\ served' = served \union {t}
            /\ UNCHANGED <<offers, settled, book>>

Next == \/ \E c \in Challenge : Offer(c)
        \/ \E t \in Tx : Settle(t)
        \/ \E c \in Challenge, t \in Tx : Redeem(c, t)
        \/ \E t \in Tx : Admit(t)

Spec == Init /\ [][Next]_vars
=============================================================================
