---------------------------- MODULE MCRateLimiter ----------------------------
(* A small instance of RateLimiter, and of the addresses it counts by.       *)
EXTENDS ClientAddress
=============================================================================
