---------------------------- MODULE MCRateLimiter ----------------------------
(* Values for the constants of RateLimiter that a .cfg cannot write.       *)
EXTENDS RateLimiter, TLC

CONSTANTS narrow, wide

(* admin-service allows 300 requests, post-service 1000: here 1 and 2.     *)
MCLimit == narrow :> 1 @@ wide :> 2

Interchangeable == Permutations(Requests)
==============================================================================
