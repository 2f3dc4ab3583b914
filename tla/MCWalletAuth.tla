---------------------------- MODULE MCWalletAuth ----------------------------
(* Small instances of WalletAuth for TLC. *)
EXTENDS WalletAuth, TLC

CONSTANTS p1, p2, r1, r2, c1, c2, w1, w2, site, elsewhere, public, testnet

Symmetry == Permutations({p1, p2}) \union Permutations({r1, r2})
            \union Permutations({c1, c2}) \union Permutations({w1, w2})
=============================================================================
