---------------------------- MODULE MCDeployment ----------------------------
(***************************************************************************)
(* One relay, one contributor and three runs of keygen for TLC: a pair,    *)
(* the next one half in place, and the one after that.                     *)
(***************************************************************************)
EXTENDS Deployment

CONSTANTS s1, c1

=============================================================================
