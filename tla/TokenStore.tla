----------------------------- MODULE TokenStore -----------------------------
(***************************************************************************)
(* JWTMiddleware: token pairs, the refresh token a user may exchange next, *)
(* and the blacklist of revoked tokens.  Both are Redis keys with an       *)
(* expiry.  The commands of one call are separate, so calls interleave     *)
(* between them, and the clock moves.  A token carries its time of issue   *)
(* in whole seconds: two pairs signed for a user in one second are equal.  *)
(***************************************************************************)
EXTENDS Integers, FiniteSets

CONSTANTS
    Users,
    Calls,        \* calls of GenerateTokenPair and RefreshToken
    Second,       \* clock ticks in a second
    AccessTTL,    \* seconds
    RefreshTTL,   \* seconds
    MaxTime       \* bound: ticks the clock counts

ASSUME TokenAssumption ==
    /\ Second \in Nat \ {0} /\ MaxTime \in Nat
    /\ AccessTTL \in Nat \ {0} /\ RefreshTTL \in Nat \ {0}

VARIABLES
    now,          \* clock, in ticks
    refresh,      \* keys refresh:<user>
    blacklist,    \* tokens that have a key blacklist:<token>; it expires with the token
    doomed,       \* keys the running cleanup has found expired
    call,         \* the calls
    issued,       \* history: unexpired tokens returned to a caller
    revoked,      \* history: unexpired tokens whose blacklisting was confirmed, and
                  \* whose TTL no cleanup failed to read
    spent,        \* history: unexpired refresh tokens whose successor was stored
    session       \* history of each user, see Sessions

vars == <<now, refresh, blacklist, doomed, call, issued, revoked, spent, session>>
history == <<issued, revoked, spent, session>>

Seconds == 0 .. MaxTime \div Second
None == -1
Tokens == [user : Users, type : {"access", "refresh"}, iat : Seconds]
Token(u, type, iat) == [user |-> u, type |-> type, iat |-> iat]
TTL(t) == IF t.type = "access" THEN AccessTTL ELSE RefreshTTL
Exp(t) == (t.iat + TTL(t)) * Second
Expired(t) == now >= Exp(t)

(* A token parses and validates as one of the wanted type.                 *)
Validates(t, type) == t \in issued /\ t.type = type /\ ~Expired(t)

NoKey == [iat |-> None, until |-> 0]
Stored(u) == refresh[u].iat

Idle == [pc |-> "idle", user |-> None, old |-> None, iat |-> None]
Busy(u) == {c \in Calls : call[c].user = u}

(* "out": signed out by a RevokeRefreshToken that overlapped with no call, *)
(* and no pair was asked for since; "torn": calls of the user overlapped;  *)
(* last: second of the last pair whose refresh token was stored.           *)
Sessions == [out : BOOLEAN, torn : BOOLEAN, last : Seconds \cup {None}]

Init ==
    /\ now = 0
    /\ refresh = [u \in Users |-> NoKey]
    /\ blacklist = {} /\ doomed = {}
    /\ call = [c \in Calls |-> Idle]
    /\ issued = {} /\ revoked = {} /\ spent = {}
    /\ session = [u \in Users |-> [out |-> FALSE, torn |-> FALSE, last |-> None]]

-----------------------------------------------------------------------------
(* GenerateTokenPair, called after a login.                                *)
GenerateTokenPair(c, u) ==
    /\ call[c].pc = "idle"
    /\ call' = [call EXCEPT ![c] = [Idle EXCEPT !.pc = "sign", !.user = u]]
    /\ session' = [session EXCEPT ![u].out = FALSE, ![u].torn = @ \/ Busy(u) # {}]
    /\ UNCHANGED <<now, refresh, blacklist, doomed, issued, revoked, spent>>

(* Mutated: a missing key is treated like the failed GET that is logged.   *)
RefreshWithoutKey(c, t) ==
    /\ call[c].pc = "idle"
    /\ Validates(t, "refresh")
    /\ Stored(t.user) \in {t.iat, None}
    /\ call' = [call EXCEPT ![c] = [Idle EXCEPT !.pc = "sign", !.user = t.user, !.old = t.iat]]
    /\ session' = [session EXCEPT ![t.user].torn = @ \/ Busy(t.user) # {}]
    /\ UNCHANGED <<now, refresh, blacklist, doomed, issued, revoked, spent>>

(* RefreshToken: parse, GET, compare.  An expired token, no key, another   *)
(* token and a failed GET all end the call without a change.               *)
RefreshToken(c, t) ==
    /\ call[c].pc = "idle"
    /\ Validates(t, "refresh")
    /\ Stored(t.user) = t.iat
    /\ call' = [call EXCEPT ![c] = [Idle EXCEPT !.pc = "sign", !.user = t.user, !.old = t.iat]]
    /\ session' = [session EXCEPT ![t.user].torn = @ \/ Busy(t.user) # {}]
    /\ UNCHANGED <<now, refresh, blacklist, doomed, issued, revoked, spent>>

(* Both tokens are signed with the second the clock shows ...              *)
Sign(c) ==
    /\ call[c].pc = "sign"
    /\ call' = [call EXCEPT ![c].pc = "store", ![c].iat = now \div Second]
    /\ UNCHANGED <<now, refresh, blacklist, doomed, history>>

Return(c) ==
    /\ call' = [call EXCEPT ![c] = Idle]
    /\ issued' = issued \cup {Token(call[c].user, type, call[c].iat) : type \in {"access", "refresh"}}

Settle(c) ==
    /\ session' = [session EXCEPT ![call[c].user].last = call[c].iat]
    /\ spent' = spent \cup IF call[c].old \in {None, call[c].iat} THEN {}
                           ELSE {Token(call[c].user, "refresh", call[c].old)}

(* Mutated: the key gets the lifetime of the access token. *)
StoreBriefly(c) ==
    /\ call[c].pc = "store"
    /\ refresh' = [refresh EXCEPT ![call[c].user] =
                     [iat |-> call[c].iat, until |-> now + AccessTTL * Second]]
    /\ Return(c) /\ Settle(c)
    /\ UNCHANGED <<now, blacklist, doomed, revoked>>

(* Mutated: SETNX. *)
StoreIfAbsent(c) ==
    /\ call[c].pc = "store"
    /\ refresh' = [refresh EXCEPT ![call[c].user] =
                     IF @ # NoKey THEN @ ELSE [iat |-> call[c].iat, until |-> now + RefreshTTL * Second]]
    /\ Return(c) /\ Settle(c)
    /\ UNCHANGED <<now, blacklist, doomed, revoked>>

(* ... and the SET replaces the token of the user.                         *)
Store(c) ==
    /\ call[c].pc = "store"
    /\ refresh' = [refresh EXCEPT ![call[c].user] =
                     [iat |-> call[c].iat, until |-> now + RefreshTTL * Second]]
    /\ Return(c) /\ Settle(c)
    /\ UNCHANGED <<now, blacklist, doomed, revoked>>

(* A failed SET is only logged: the pair is returned, and its refresh      *)
(* token is of no use while the key holds the old one.                     *)
StoreFails(c) ==
    /\ call[c].pc = "store"
    /\ Return(c)
    /\ session' = [session EXCEPT ![call[c].user].last = None]
    /\ UNCHANGED <<now, refresh, blacklist, doomed, revoked, spent>>

RevokeRefreshToken(u) ==
    /\ refresh' = [refresh EXCEPT ![u] = NoKey]
    /\ session' = [session EXCEPT ![u].out = @ \/ Busy(u) = {}, ![u].last = None]
    /\ UNCHANGED <<now, blacklist, doomed, call, issued, revoked, spent>>

(* BlacklistToken: SET with what is left of the token's life as expiry.    *)
BlacklistToken(t) ==
    /\ t \in issued /\ ~Expired(t)
    /\ blacklist' = blacklist \cup {t}
    /\ revoked' = revoked \cup ({t} \ doomed)
    /\ UNCHANGED <<now, refresh, doomed, call, issued, spent, session>>

(* CleanupExpiredTokens asks the TTL of each key, which Redis rounds to    *)
(* seconds; a failed TTL reads as 0.  One DEL removes what was collected.  *)
RoundedTTL(t) == (2 * (Exp(t) - now) + Second) \div (2 * Second)

(* Mutated: an entry in its last second counts as expired. *)
ExpiresWithinASecond(t) ==
    t \in blacklist /\ RoundedTTL(t) <= 1

FoundExpired(t) ==
    t \in blacklist /\ RoundedTTL(t) <= 0

CleanupFinds(t) ==
    /\ t \notin doomed
    /\ FoundExpired(t)
    /\ doomed' = doomed \cup {t}
    /\ UNCHANGED <<now, refresh, blacklist, call, history>>

CleanupTTLFails(t) ==
    /\ t \in blacklist \ doomed
    /\ doomed' = doomed \cup {t}
    /\ revoked' = revoked \ {t}
    /\ UNCHANGED <<now, refresh, blacklist, call, issued, spent, session>>

(* A failed SCAN or DEL ends the cleanup without deleting.                 *)
CleanupEnds ==
    /\ doomed # {}
    /\ doomed' = {}
    /\ \/ blacklist' = blacklist \ doomed
       \/ UNCHANGED blacklist
    /\ UNCHANGED <<now, refresh, call, history>>

(* Time passes, and Redis drops the keys that have expired; so do the      *)
(* histories, and the cleanup, for which they no longer make a difference. *)
Tick ==
    /\ now < MaxTime
    /\ now' = now + 1
    /\ refresh' = [u \in Users |-> IF refresh[u].until <= now' THEN NoKey ELSE refresh[u]]
    /\ LET Live(S) == {t \in S : Exp(t) > now'}
       IN  /\ blacklist' = Live(blacklist) /\ doomed' = Live(doomed)
           /\ issued' = Live(issued) /\ revoked' = Live(revoked) /\ spent' = Live(spent)
    /\ UNCHANGED <<call, session>>

Next ==
    \/ Tick
    \/ CleanupEnds
    \/ \E c \in Calls, u \in Users : GenerateTokenPair(c, u)
    \/ \E c \in Calls, t \in issued : RefreshToken(c, t)
    \/ \E c \in Calls : Sign(c) \/ Store(c) \/ StoreFails(c)
    \/ \E u \in Users : RevokeRefreshToken(u)
    \/ \E t \in issued : BlacklistToken(t) \/ CleanupFinds(t) \/ CleanupTTLFails(t)

Spec == Init /\ [][Next]_vars

-----------------------------------------------------------------------------
(* Mutated: a failed GET lets the token pass. *)
IsBlacklistedForSure(t, failed) == ~failed /\ t \in blacklist

(* IsTokenBlacklisted: any answer but Nil counts, a failed GET included.   *)
IsTokenBlacklisted(t, failed) == failed \/ t \in blacklist

(* AuthMiddleware lets the request with this token through.                *)
Accepted(t, failed) ==
    /\ Validates(t, "access")
    /\ ~IsTokenBlacklisted(t, failed)

TypeOK ==
    /\ now \in 0 .. MaxTime
    /\ refresh \in [Users -> [iat : Seconds, until : Nat] \cup {NoKey}]
    /\ UNION {blacklist, doomed, issued, revoked, spent} \subseteq Tokens
    /\ call \in [Calls -> [pc : {"idle", "sign", "store"}, user : Users \cup {None},
                           old : Seconds \cup {None}, iat : Seconds \cup {None}]]
    /\ session \in [Users -> Sessions]

(* A blacklisted token is refused for the rest of its life, whether Redis  *)
(* answers or not.  The exceptions the cleanup makes: it forgets a token   *)
(* whose TTL it could not read, and one with half a second or less left.   *)
RevokedTokensStayRefused ==
    \A t \in revoked, failed \in BOOLEAN :
        Accepted(t, failed) => 2 * (Exp(t) - now) <= Second

(* Once a user is signed out while none of the user's calls was running,   *)
(* no refresh token of the user is exchanged until the next login.         *)
SignedOutUsersStayOut ==
    [][\A c \in Calls :
         call[c].old = None /\ call'[c].old # None => ~session[call'[c].user].out]_vars

(* A refresh token whose successor was stored is not exchanged a second    *)
(* time, unless calls of the user overlapped between GET and SET.          *)
SpentTokensStaySpent ==
    \A u \in Users : ~session[u].torn => Token(u, "refresh", Stored(u)) \notin spent

(* The refresh token stored last can be exchanged until it expires: its    *)
(* key does not go before it.                                              *)
LastTokenLives ==
    \A u \in Users :
        LET last == session[u].last
        IN  last # None /\ ~Expired(Token(u, "refresh", last)) => Stored(u) = last
==============================================================================
