--------------------------- MODULE MCFollowService ---------------------------
(* Two users and three concurrent calls: enough for two calls to race on   *)
(* one pair while a third one undoes what either of them did.              *)
EXTENDS FollowService
==============================================================================
