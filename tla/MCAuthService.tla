---------------------------- MODULE MCAuthService ----------------------------
(* Two calls on at most two accounts race with the admin service.                *)
EXTENDS AuthService, TLC

MCSymmetry == Permutations(Ids) \cup Permutations(Emails) \cup Permutations(Passwords)
                \cup Permutations(Calls)
==============================================================================
