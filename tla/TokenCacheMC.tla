---------------------------- MODULE TokenCacheMC ----------------------------
(* Calls for TLC: two each of verifications of any token and sign-ins, an  *)
(* update and a refresh.                                                   *)
EXTENDS TokenCache

CONSTANTS v1, v2, up1, re1, in1, in2, none
=============================================================================
