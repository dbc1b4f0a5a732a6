---------------------------- MODULE MCWatchlist ----------------------------
(* Watchlist with two requests, two ISINs and a listing thread.            *)
EXTENDS Watchlist
=============================================================================
