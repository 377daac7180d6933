-------------------------------- MODULE MCApi --------------------------------
(* An instance of Api for TLC: two names, words of the paths. *)
EXTENDS Api
=============================================================================
