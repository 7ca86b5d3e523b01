------------------------- MODULE MCTvInputSession -------------------------
(* TLC instance of TvInputSession; the .cfg file gives the values.           *)
EXTENDS TvInputSession
===========================================================================
