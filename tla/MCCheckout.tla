----------------------------- MODULE MCCheckout -----------------------------
(* A small instance of Checkout for TLC. *)
EXTENDS Checkout

CONSTANTS p1, f1, f2, c1, c2, text, page, public, testnet, treasury, xlm, alice

\* One product at one price, which has a whole part and a fraction.
Offer == {[active |-> TRUE, approved |-> TRUE,
           plans |-> {[asset |-> xlm, amount |-> 3]}]}

\* The transactions of a flow that reads the clock and the account in range.
Contents == [t \in 0..3 |-> [payer |-> alice, seq |-> 1 + (t % 2), to |-> treasury,
                             amount |-> [whole |-> 1, fraction |-> 1],
                             until |-> 1 + (t \div 2)]]

Settling == [network : {public}, successful : BOOLEAN, asset : {xlm},
             recipient : {treasury}, amount : 2..3]

\* The gateway is on the network of the build or on the other one.
Either == {[network |-> n, recipient |-> treasury] : n \in {public, testnet}}
=============================================================================
