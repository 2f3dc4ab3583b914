---------------------------- MODULE MCStorefront ----------------------------
(* A small instance of Storefront for TLC. *)
EXTENDS Storefront

CONSTANTS text, rental, other, request, credit, labs, guest, xlm, usdc,
          mainHost, testHost, stray

Seeds == <<[slug |-> text, amount |-> 9], [slug |-> rental, amount |-> 30]>>

Hosts == [n \in Network |-> IF n = "PUBLIC" THEN mainHost ELSE testHost]

Plans(first, second) == [n \in {request, credit} |-> IF n = request THEN first ELSE second]

\* A product with two plans whose order as text is not their order as numbers,
\* and a suspended one with a free plan and a plan below zero, which is not sold.
Written == {[provider |-> guest, active |-> TRUE,
             plans |-> Plans([asset |-> xlm, amount |-> 120], [asset |-> usdc, amount |-> 30])],
            [provider |-> labs, active |-> FALSE,
             plans |-> Plans([asset |-> xlm, amount |-> -5], [asset |-> usdc, amount |-> 0])]}

\* No receipts, or more of one network than are shown and one of the other.
Past == {{}, {[network |-> "PUBLIC", at |-> 1], [network |-> "TESTNET", at |-> 2],
              [network |-> "PUBLIC", at |-> 4]}}
=============================================================================
