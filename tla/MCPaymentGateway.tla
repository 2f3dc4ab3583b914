-------------------------- MODULE MCPaymentGateway --------------------------
(* Small instances of PaymentGateway for TLC. *)
EXTENDS PaymentGateway, TLC

CONSTANTS p1, p2, r1, r2, c1, c2, t1, t2, text, docs, h1, h2,
          public, testnet, treasury, other, xlm, usdc

\* One product at one price, on one network: the interleavings are the case.
OnePlan == [asset |-> xlm, amount |-> 3]
OneListing == {[active |-> TRUE, approved |-> TRUE, plans |-> {OnePlan}]}
OnePayment == {[network |-> public, successful |-> TRUE, asset |-> xlm,
                recipient |-> treasury, amount |-> 3]}
OneConfig == {[network |-> public, recipient |-> treasury]}

\* A product that is repriced, suspended, or lists a plan below zero.
Repriced == {[active |-> TRUE, approved |-> TRUE, plans |-> {OnePlan}],
             [active |-> TRUE, approved |-> TRUE,
              plans |-> {[asset |-> xlm, amount |-> -1],
                         [asset |-> usdc, amount |-> 4]}],
             [active |-> FALSE, approved |-> TRUE, plans |-> {OnePlan}]}
\* A product that is suspended and reinstated.
Suspended == {[active |-> open, approved |-> TRUE, plans |-> {OnePlan}] :
                open \in BOOLEAN}
ManyPayments == [network : {public}, successful : {TRUE}, asset : {xlm},
                 recipient : {treasury}, amount : {3, 4}]
                \union
                {[network |-> testnet, successful |-> TRUE, asset |-> usdc,
                  recipient |-> other, amount |-> 4],
                 [network |-> public, successful |-> FALSE, asset |-> xlm,
                  recipient |-> treasury, amount |-> 3]}
TwoConfigs == {[network |-> public, recipient |-> treasury],
               [network |-> testnet, recipient |-> other]}

Symmetry == Permutations({p1, p2}) \union Permutations({r1, r2})
            \union Permutations({c1, c2}) \union Permutations({t1, t2})
=============================================================================
