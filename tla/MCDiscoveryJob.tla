--------------------------- MODULE MCDiscoveryJob ---------------------------
(* A small instance of DiscoveryJob for TLC: one run that is crawled and one  *)
(* that is rejected for its hostname.                                         *)
EXTENDS DiscoveryJob

CONSTANTS crawl, stray

TwoRuns == {crawl, stray}
=============================================================================
