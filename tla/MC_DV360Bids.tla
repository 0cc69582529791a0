---------------------------- MODULE MC_DV360Bids ----------------------------
(***************************************************************************)
(* Model-checking instance of DV360Bids: every response with up to two    *)
(* seats of up to two bids priced 0 or 1, with every status.              *)
(***************************************************************************)
EXTENDS DV360Bids

MCPrices == {0, 1}

=============================================================================
