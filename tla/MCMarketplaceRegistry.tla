----------------------- MODULE MCMarketplaceRegistry -----------------------
(* Small instances of MarketplaceRegistry for TLC. *)
EXTENDS MarketplaceRegistry, TLC

CONSTANTS a1, a2, a3, i1, i2, h1, h2, xlm, usdc

Symmetry == Permutations({a1, a2}) \union Permutations({h1, h2})

\* The bounds of validate_price, and one step on either side.
EdgePrices == {0, 1, MaxPrice, MaxPrice + 1}
=============================================================================
