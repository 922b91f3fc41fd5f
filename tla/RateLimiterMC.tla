---------------------------- MODULE RateLimiterMC ----------------------------
(***************************************************************************)
(* Instances of RateLimiter for TLC.  The requests of a client are         *)
(* interchangeable.                                                        *)
(***************************************************************************)
EXTENDS RateLimiter, TLC

ThreadSymmetry == Permutations(Threads)

=============================================================================
