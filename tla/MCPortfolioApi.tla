---------------------------- MODULE MCPortfolioApi ----------------------------
(* Small instances of PortfolioApi. *)
EXTENDS PortfolioApi, TLC

CONSTANTS r1, r2, r3, scrape, nobody

Two == {r1, r2}
OneBad == {r1, r3}
Nobody == {}
Bad == {r3}
Sym == Permutations({r1, r2})
=============================================================================
