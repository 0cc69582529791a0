-------------------------- MODULE MC_DV360Requests --------------------------
(***************************************************************************)
(* Model-checking instance of DV360Requests: every bid request of up to   *)
(* two impressions, with rewards 0, 1 and 2 (only 1 means rewarded) and   *)
(* a region that is and one that is not in SupportedRegions.              *)
(***************************************************************************)
EXTENDS DV360Requests

CONSTANTS defaultURI, useastURI

MCRegions == {"us_east", "eu"}
MCRewards == {0, 1, 2}

=============================================================================
