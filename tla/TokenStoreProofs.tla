--------------------------- MODULE TokenStoreProofs ---------------------------
(***************************************************************************)
(* Tokens and their keys in Redis, for any users, any number of calls that *)
(* overlap, any lifetimes and any clock.                                   *)
(***************************************************************************)
EXTENDS TokenStore, TLAPS

Running(c) == call[c].pc # "idle"
ThisSecond == now \div Second
LateBy(t) == 2 * (Exp(t) - now) <= Second

(* Nothing carries a second that is yet to come, and a call that exchanges *)
(* a token signs in the second of the old one or later.                    *)
TimesInv ==
    /\ \A u \in Users : Stored(u) <= ThisSecond
    /\ \A c \in Calls :
        /\ Running(c) => call[c].user \in Users
        /\ call[c].pc = "sign" => call[c].old <= ThisSecond
        /\ call[c].pc = "store" => /\ call[c].iat \in Seconds /\ call[c].iat <= ThisSecond
                                   /\ call[c].old <= call[c].iat

(* A revoked token is on the blacklist, unless it is in its last half      *)
(* second; of those the running cleanup will delete all are.               *)
RevokedInv ==
    \A t \in revoked :
        /\ t \in blacklist \/ LateBy(t)
        /\ t \in doomed => LateBy(t)

(* A user who is out has no key, and no call that could store one. *)
OutInv ==
    \A u \in Users : session[u].out =>
        Stored(u) = None /\ \A c \in Calls : Running(c) => call[c].user # u

(* While calls of a user never overlapped, everything spent is of an       *)
(* earlier second than the key, than the running call's tokens, and than   *)
(* what is still to be signed.                                             *)
SpentInv ==
    /\ \A t \in spent : t.type = "refresh"
    /\ \A u \in Users : ~session[u].torn =>
        /\ \A c, d \in Calls : Running(c) /\ Running(d) /\ call[c].user = u /\ call[d].user = u
                               => c = d
        /\ \A t \in spent : t.user = u =>
            /\ t.iat < ThisSecond
            /\ Stored(u) # None => t.iat < Stored(u)
            /\ \A c \in Calls : call[c].pc = "store" /\ call[c].user = u => t.iat < call[c].iat

(* The key of the token stored last is there until that token expires. *)
Ends(i) == (i + RefreshTTL) * Second
Kept(u, i) == now >= Ends(i) \/ (Stored(u) = i /\ refresh[u].until >= Ends(i))
LastInv == \A u \in Users : session[u].last # None => Kept(u, session[u].last)

Inv == TypeOK /\ TimesInv /\ RevokedInv /\ OutInv /\ SpentInv /\ LastInv

-----------------------------------------------------------------------------
(* Seconds and ticks. *)
LEMMA DivFacts ==
    ASSUME NEW n \in Int, NEW d \in Nat \ {0}
    PROVE  n \div d \in Int /\ d * (n \div d) \in Int /\ n - d * (n \div d) \in 0 .. d - 1
OBVIOUS

LEMMA TimesMono ==
    ASSUME NEW d \in Nat \ {0}, NEW a \in Int, NEW b \in Int, a < b
    PROVE  d * a + d <= d * b
<1>1. b - a - 1 \in Nat
    OBVIOUS
<1>2. d * (b - a - 1) \in Nat
    BY <1>1
<1>3. d * (b - a - 1) = d * b - d * a - d
    OBVIOUS
<1> QED
    BY <1>2, <1>3

LEMMA DivMono ==
    ASSUME NEW d \in Nat \ {0}, NEW a \in Int, NEW b \in Int, a <= b
    PROVE  a \div d <= b \div d
<1>1. CASE b \div d < a \div d
  <2>1. d * (b \div d) + d <= d * (a \div d)
      BY <1>1, DivFacts, TimesMono
  <2> DEFINE x == d * (a \div d)
             y == d * (b \div d)
  <2>2. a - x \in 0 .. d - 1 /\ b - y \in 0 .. d - 1
      BY DivFacts
  <2>3. x \in Int /\ y \in Int /\ y + d <= x
      BY <2>1, DivFacts
  <2> HIDE DEF x, y
  <2> QED
      BY <2>2, <2>3
<1> QED
    BY <1>1, DivFacts

LEMMA DivNat ==
    ASSUME NEW d \in Nat \ {0}, NEW a \in Nat
    PROVE  a \div d \in Nat
<1>1. 0 \div d = 0
    OBVIOUS
<1> QED
    BY <1>1, DivMono, DivFacts

LEMMA DivAtMostZero ==
    ASSUME NEW d \in Nat \ {0}, NEW a \in Int, a \div d <= 0
    PROVE  a < d
<1>1. CASE d <= a
  <2>1. d \div d = 1
      OBVIOUS
  <2> QED
      BY <1>1, <2>1, DivMono, DivFacts
<1> QED
    BY <1>1

(* A second that the clock has reached has begun. *)
LEMMA SecondBegan ==
    ASSUME NEW d \in Nat \ {0}, NEW n \in Nat, NEW i \in Nat, i <= n \div d
    PROVE  i * d <= n
<1> DEFINE q == n \div d
<1>1. q \in Nat /\ n - d * q \in Nat
    BY DivFacts, DivNat
<1> HIDE DEF q
<1>2. d * i <= d * q
  <2>1. CASE i = q
      BY <2>1, <1>1
  <2>2. CASE i < q
    <3>1. d * i + d <= d * q
        BY <2>2, <1>1, TimesMono
    <3>2. d * i \in Int /\ d * q \in Int
        BY <1>1
    <3> QED
        BY <3>1, <3>2
  <2> QED
      BY <2>1, <2>2, <1>1 DEF q
<1>3. i * d = d * i /\ d * i \in Int /\ d * q \in Int
    BY <1>1
<1> QED
    BY <1>1, <1>2, <1>3

LEMMA TokenTypes ==
    /\ Second \in Nat \ {0} /\ MaxTime \in Nat
    /\ Seconds \subseteq Nat /\ None \notin Seconds /\ None \in Int /\ None < 0
    /\ \A t \in Tokens : /\ t.user \in Users /\ t.iat \in Seconds /\ Exp(t) \in Nat
                         /\ t.type \in {"access", "refresh"}
    /\ \A u \in Users, k \in {"access", "refresh"}, i \in Seconds : Token(u, k, i) \in Tokens
<1>1. Second \in Nat \ {0} /\ MaxTime \in Nat /\ AccessTTL \in Nat /\ RefreshTTL \in Nat
    BY TokenAssumption
<1>2. Seconds \subseteq Nat
    BY DEF Seconds
<1>3. ASSUME NEW t \in Tokens PROVE Exp(t) \in Nat
  <2>1. t.iat \in Nat /\ TTL(t) \in Nat
      BY <1>1, <1>2 DEF Tokens, TTL
  <2>2. t.iat + TTL(t) \in Nat
      BY <2>1
  <2> QED
      BY <1>1, <2>2 DEF Exp
<1> QED
    BY <1>1, <1>2, <1>3 DEF Tokens, Token, None

-----------------------------------------------------------------------------
(* What the steps do to the calls and to the histories of users.           *)
CallStates == [pc : {"idle", "sign", "store"}, user : Users \cup {None},
               old : Seconds \cup {None}, iat : Seconds \cup {None}]

CallsTyped == call \in [Calls -> CallStates]
OthersRest(c) == \A d \in Calls : d # c => call'[d] = call[d]

LEMMA Typed ==
    ASSUME TypeOK
    PROVE  /\ now \in 0 .. MaxTime /\ now \in Nat /\ CallsTyped
           /\ session \in [Users -> Sessions]
           /\ refresh \in [Users -> [iat : Seconds, until : Nat] \cup {NoKey}]
           /\ blacklist \subseteq Tokens /\ doomed \subseteq Tokens /\ issued \subseteq Tokens
           /\ revoked \subseteq Tokens /\ spent \subseteq Tokens
           /\ \A u \in Users : Stored(u) \in Seconds \cup {None} /\ refresh[u].until \in Nat
           /\ ThisSecond \in Nat /\ ThisSecond \in Seconds
<1>1. now \in 0 .. MaxTime /\ now \in Nat /\ Second \in Nat \ {0} /\ MaxTime \in Nat
    BY TokenTypes DEF TypeOK
<1>2. ThisSecond \in Nat /\ ThisSecond \in Seconds
  <2>1. ThisSecond \in Nat /\ MaxTime \div Second \in Nat
      BY <1>1, DivNat DEF ThisSecond
  <2>2. ThisSecond <= MaxTime \div Second
      BY <1>1, DivMono DEF ThisSecond
  <2> QED
      BY <2>1, <2>2 DEF Seconds
<1>3. \A u \in Users : Stored(u) \in Seconds \cup {None} /\ refresh[u].until \in Nat
    BY DEF TypeOK, Stored, NoKey
<1>4. /\ blacklist \subseteq Tokens /\ doomed \subseteq Tokens /\ issued \subseteq Tokens
      /\ revoked \subseteq Tokens /\ spent \subseteq Tokens
    BY DEF TypeOK
<1> QED
    BY <1>1, <1>2, <1>3, <1>4 DEF TypeOK, CallsTyped, CallStates

LEMMA CallFields ==
    ASSUME TypeOK, NEW c \in Calls
    PROVE  /\ call[c] \in CallStates /\ call[c].pc \in {"idle", "sign", "store"}
           /\ call[c].user \in Users \cup {None}
           /\ call[c].old \in Seconds \cup {None} /\ call[c].iat \in Seconds \cup {None}
BY Typed DEF CallsTyped, CallStates

LEMMA IdleTyped == Idle \in CallStates /\ Idle.old = None
BY DEF Idle, CallStates

LEMMA GenerateStep ==
    ASSUME TypeOK, NEW c \in Calls, NEW u \in Users, GenerateTokenPair(c, u)
    PROVE  /\ CallsTyped' /\ OthersRest(c)
           /\ call[c].pc = "idle" /\ call'[c].pc = "sign" /\ call'[c].user = u
           /\ call'[c].old = None
<1> DEFINE k1 == [Idle EXCEPT !.pc = "sign"]
           k == [k1 EXCEPT !.user = u]
<1>1. call' = [call EXCEPT ![c] = k]
    BY DEF GenerateTokenPair
<1>2. k1 \in CallStates /\ k1.pc = "sign" /\ k1.old = None
    BY IdleTyped DEF CallStates
<1> HIDE DEF k1
<1>3. k \in CallStates /\ k.pc = "sign" /\ k.user = u /\ k.old = None
    BY <1>2 DEF CallStates
<1> HIDE DEF k
<1> QED
    BY <1>1, <1>3, Typed DEF CallsTyped, OthersRest, GenerateTokenPair

LEMMA RefreshStep ==
    ASSUME TypeOK, NEW c \in Calls, NEW t \in issued, RefreshToken(c, t)
    PROVE  /\ CallsTyped' /\ OthersRest(c) /\ t \in Tokens /\ t.type = "refresh"
           /\ call[c].pc = "idle" /\ call'[c].pc = "sign" /\ call'[c].user = t.user
           /\ call'[c].old = t.iat /\ Stored(t.user) = t.iat
<1> DEFINE k1 == [Idle EXCEPT !.pc = "sign"]
           k2 == [k1 EXCEPT !.user = t.user]
           k == [k2 EXCEPT !.old = t.iat]
<1>1. t \in Tokens /\ t.user \in Users /\ t.iat \in Seconds
    BY Typed, TokenTypes
<1>2. call' = [call EXCEPT ![c] = k]
    BY DEF RefreshToken
<1>3. k1 \in CallStates /\ k1.pc = "sign"
    BY IdleTyped DEF CallStates
<1> HIDE DEF k1
<1>4. k2 \in CallStates /\ k2.pc = "sign" /\ k2.user = t.user
    BY <1>1, <1>3 DEF CallStates
<1> HIDE DEF k2
<1>5. k \in CallStates /\ k.pc = "sign" /\ k.user = t.user /\ k.old = t.iat
    BY <1>1, <1>4 DEF CallStates
<1> HIDE DEF k
<1> QED
    BY <1>1, <1>2, <1>5, Typed DEF CallsTyped, OthersRest, RefreshToken, Validates

LEMMA SignStep ==
    ASSUME TypeOK, NEW c \in Calls, Sign(c)
    PROVE  /\ CallsTyped' /\ OthersRest(c)
           /\ call[c].pc = "sign" /\ call'[c].pc = "store" /\ call'[c].user = call[c].user
           /\ call'[c].old = call[c].old /\ call'[c].iat = ThisSecond
<1> DEFINE k1 == [call[c] EXCEPT !.pc = "store"]
           k == [k1 EXCEPT !.iat = ThisSecond]
<1>1. c \in DOMAIN call
    BY Typed DEF CallsTyped
<1>2. call' = [call EXCEPT ![c] = k]
    BY <1>1 DEF Sign, ThisSecond
<1>3. k1 \in CallStates /\ k1.pc = "store" /\ k1.user = call[c].user /\ k1.old = call[c].old
    BY CallFields DEF CallStates
<1> HIDE DEF k1
<1>4. /\ k \in CallStates /\ k.pc = "store" /\ k.user = call[c].user /\ k.old = call[c].old
      /\ k.iat = ThisSecond
    BY <1>3, Typed DEF CallStates
<1> HIDE DEF k
<1> QED
    BY <1>2, <1>4, Typed DEF CallsTyped, OthersRest, Sign

LEMMA ReturnStep ==
    ASSUME TypeOK, NEW c \in Calls, Return(c)
    PROVE  CallsTyped' /\ OthersRest(c) /\ call'[c].pc = "idle" /\ call'[c].old = None
<1> QED
    BY IdleTyped, Typed DEF CallsTyped, OthersRest, Return, Idle

(* The histories of the users: all but u's stay, and u's becomes h. *)
Recorded(u, h) ==
    /\ session' \in [Users -> Sessions] /\ session'[u] = h
    /\ \A v \in Users : v # u => session'[v] = session[v]

LEMMA RecordedStep ==
    ASSUME TypeOK, NEW u \in Users, NEW h \in Sessions, session' = [session EXCEPT ![u] = h]
    PROVE  Recorded(u, h)
BY Typed DEF Recorded

LEMMA SessionFields ==
    ASSUME TypeOK, NEW u \in Users
    PROVE  /\ session[u] \in Sessions /\ session[u].out \in BOOLEAN /\ session[u].torn \in BOOLEAN
           /\ session[u].last \in Seconds \cup {None}
BY Typed DEF Sessions

LEMMA GenerateSession ==
    ASSUME TypeOK, NEW c \in Calls, NEW u \in Users, GenerateTokenPair(c, u)
    PROVE  \E h \in Sessions : /\ Recorded(u, h) /\ ~h.out /\ h.last = session[u].last
                               /\ ~h.torn => ~session[u].torn /\ Busy(u) = {}
<1> DEFINE b == Busy(u) # {}
           h1 == [session[u] EXCEPT !.out = FALSE]
           h == [h1 EXCEPT !.torn = h1.torn \/ b]
<1>1. u \in DOMAIN session
    BY Typed
<1>2. session' = [session EXCEPT ![u].out = FALSE, ![u].torn = @ \/ b]
    BY DEF GenerateTokenPair
<1>3. b \in BOOLEAN
    OBVIOUS
<1> HIDE DEF b
<1>4. session' = [session EXCEPT ![u] = h]
    BY <1>1, <1>2, ZenonT(60)
<1>5. h1 \in Sessions /\ ~h1.out /\ h1.torn = session[u].torn /\ h1.last = session[u].last
    BY SessionFields DEF Sessions
<1> HIDE DEF h1
<1>6. h \in Sessions /\ ~h.out /\ h.last = session[u].last /\ h.torn = (h1.torn \/ b)
    BY <1>3, <1>5 DEF Sessions
<1> HIDE DEF h
<1>7. Recorded(u, h)
    BY <1>4, <1>6, RecordedStep
<1>8. ~h.torn => ~session[u].torn /\ ~b
    BY <1>5, <1>6
<1> QED
    BY <1>6, <1>7, <1>8 DEF b

LEMMA RefreshSession ==
    ASSUME TypeOK, NEW c \in Calls, NEW t \in issued, RefreshToken(c, t)
    PROVE  \E h \in Sessions : /\ Recorded(t.user, h) /\ h.out = session[t.user].out
                               /\ h.last = session[t.user].last
                               /\ ~h.torn => ~session[t.user].torn /\ Busy(t.user) = {}
<1> DEFINE u == t.user
           b == Busy(u) # {}
           h == [session[u] EXCEPT !.torn = @ \/ b]
<1>1. u \in Users /\ u \in DOMAIN session
    BY Typed, TokenTypes
<1>2. session' = [session EXCEPT ![u].torn = @ \/ b]
    BY DEF RefreshToken
<1>3. b \in BOOLEAN
    OBVIOUS
<1> HIDE DEF b
<1>4. session' = [session EXCEPT ![u] = h]
    BY <1>1, <1>2
<1>5. /\ h \in Sessions /\ h.out = session[u].out /\ h.last = session[u].last
      /\ h.torn = (session[u].torn \/ b)
    BY <1>1, <1>3, SessionFields DEF Sessions
<1> HIDE DEF h
<1>6. Recorded(u, h)
    BY <1>1, <1>4, <1>5, RecordedStep
<1>7. ~h.torn => ~session[u].torn /\ ~b
    BY <1>5
<1> QED
    BY <1>5, <1>6, <1>7 DEF b

LEMMA RevokeSession ==
    ASSUME TypeOK, NEW u \in Users, RevokeRefreshToken(u)
    PROVE  \E h \in Sessions : /\ Recorded(u, h) /\ h.last = None /\ h.torn = session[u].torn
                               /\ h.out => session[u].out \/ Busy(u) = {}
<1> DEFINE b == Busy(u) = {}
           h1 == [session[u] EXCEPT !.out = @ \/ b]
           h == [h1 EXCEPT !.last = None]
<1>1. u \in DOMAIN session
    BY Typed
<1>2. session' = [session EXCEPT ![u].out = @ \/ b, ![u].last = None]
    BY DEF RevokeRefreshToken
<1>3. b \in BOOLEAN
    OBVIOUS
<1> HIDE DEF b
<1>4. session' = [session EXCEPT ![u] = h]
    BY <1>1, <1>2, ZenonT(60)
<1>5. h1 \in Sessions /\ h1.torn = session[u].torn /\ h1.out = (session[u].out \/ b)
    BY <1>3, SessionFields DEF Sessions
<1> HIDE DEF h1
<1>6. h \in Sessions /\ h.last = None /\ h.torn = h1.torn /\ h.out = h1.out
    BY <1>5 DEF Sessions
<1> HIDE DEF h
<1>7. Recorded(u, h)
    BY <1>4, <1>6, RecordedStep
<1>8. h.out => session[u].out \/ b
    BY <1>5, <1>6
<1> QED
    BY <1>5, <1>6, <1>7, <1>8 DEF b

LEMMA LastSession ==
    ASSUME TypeOK, NEW u \in Users, NEW i \in Seconds \cup {None},
           session' = [session EXCEPT ![u].last = i]
    PROVE  \E h \in Sessions : /\ Recorded(u, h) /\ h.last = i
                               /\ h.torn = session[u].torn /\ h.out = session[u].out
<1> DEFINE h == [session[u] EXCEPT !.last = i]
<1>1. session' = [session EXCEPT ![u] = h]
    BY Typed
<1>2. h \in Sessions /\ h.last = i /\ h.torn = session[u].torn /\ h.out = session[u].out
    BY SessionFields DEF Sessions
<1> HIDE DEF h
<1> QED
    BY <1>1, <1>2, RecordedStep

-----------------------------------------------------------------------------
(* The steps, as far as a proof by cases needs to tell them apart.         *)
Moves ==
    \/ \E c \in Calls, u \in Users : GenerateTokenPair(c, u)
    \/ \E c \in Calls, t \in issued : RefreshToken(c, t)
    \/ \E c \in Calls : Sign(c) \/ Store(c) \/ StoreFails(c)
    \/ \E u \in Users : RevokeRefreshToken(u)

(* Steps that leave the calls, the keys of refresh tokens and the sessions *)
(* alone.                                                                  *)
Quiet ==
    \/ CleanupEnds
    \/ \E t \in issued : BlacklistToken(t) \/ CleanupFinds(t) \/ CleanupTTLFails(t)
    \/ UNCHANGED vars

LEMMA Steps == [Next]_vars => Moves \/ Quiet \/ Tick
BY DEF Next, Moves, Quiet

LEMMA QuietFrame == Quiet => UNCHANGED <<now, refresh, call, issued, spent, session>>
BY DEF Quiet, CleanupEnds, BlacklistToken, CleanupFinds, CleanupTTLFails, vars, history

LEMMA TickFrame ==
    ASSUME TypeOK, Tick
    PROVE  /\ UNCHANGED <<call, session>> /\ now' = now + 1 /\ now' \in 0 .. MaxTime
           /\ refresh' = [u \in Users |-> IF refresh[u].until <= now' THEN NoKey ELSE refresh[u]]
           /\ blacklist' = {t \in blacklist : Exp(t) > now'}
           /\ doomed' = {t \in doomed : Exp(t) > now'}
           /\ issued' = {t \in issued : Exp(t) > now'}
           /\ revoked' = {t \in revoked : Exp(t) > now'}
           /\ spent' = {t \in spent : Exp(t) > now'}
           /\ ThisSecond \in Nat /\ ThisSecond' \in Nat /\ ThisSecond <= ThisSecond'
<1>1. now \in Nat /\ now' = now + 1 /\ now < MaxTime /\ MaxTime \in Nat /\ Second \in Nat \ {0}
    BY Typed, TokenTypes DEF Tick
<1>2. ThisSecond \in Nat /\ ThisSecond' \in Nat
    BY <1>1, DivNat DEF ThisSecond
<1>3. ThisSecond <= ThisSecond'
    BY <1>1, DivMono DEF ThisSecond
<1> QED
    BY <1>1, <1>2, <1>3 DEF Tick

(* What the commands of a call leave alone. *)
LEMMA StoreFrame ==
    ASSUME TypeOK, NEW c \in Calls, Store(c), call[c].iat \in Seconds, call[c].user \in Users
    PROVE  /\ UNCHANGED <<now, blacklist, doomed, revoked>> /\ call[c].pc = "store"
           /\ refresh' \in [Users -> [iat : Seconds, until : Nat] \cup {NoKey}]
           /\ refresh'[call[c].user] = [iat |-> call[c].iat, until |-> now + RefreshTTL * Second]
           /\ \A v \in Users : v # call[c].user => refresh'[v] = refresh[v]
           /\ call[c].old \in {None, call[c].iat} => spent' = spent
           /\ call[c].old \notin {None, call[c].iat} =>
                spent' = spent \cup {Token(call[c].user, "refresh", call[c].old)}
<1>1. now + RefreshTTL * Second \in Nat
    BY Typed, TokenAssumption
<1>2. [iat |-> call[c].iat, until |-> now + RefreshTTL * Second] \in [iat : Seconds, until : Nat]
    BY <1>1
<1>3. refresh' = [refresh EXCEPT ![call[c].user] =
                    [iat |-> call[c].iat, until |-> now + RefreshTTL * Second]]
    BY DEF Store
<1> HIDE DEF NoKey
<1> QED
    BY <1>2, <1>3, Typed DEF Store, Settle

-----------------------------------------------------------------------------
LEMMA InitInv == Init => Inv
<1> SUFFICES ASSUME Init PROVE Inv
    OBVIOUS
<1>1. MaxTime \in Nat /\ Second \in Nat \ {0}
    BY TokenTypes
<1>2. call \in [Calls -> CallStates] /\ \A c \in Calls : call[c].pc = "idle"
    BY IdleTyped DEF Init, Idle
<1>3. session \in [Users -> Sessions]
    BY DEF Init, Sessions
<1>4. TypeOK
  <2>1. now \in 0 .. MaxTime
      BY <1>1 DEF Init
  <2>2. refresh \in [Users -> [iat : Seconds, until : Nat] \cup {NoKey}]
      BY DEF Init
  <2>3. UNION {blacklist, doomed, issued, revoked, spent} \subseteq Tokens
      BY DEF Init
  <2> QED
      BY <1>2, <1>3, <2>1, <2>2, <2>3 DEF TypeOK, CallStates
<1>5. TimesInv
  <2>1. ThisSecond \in Nat
      BY <1>4, Typed
  <2> QED
      BY <1>2, <2>1 DEF Init, TimesInv, Running, Stored, NoKey, None
<1>6. RevokedInv /\ OutInv /\ LastInv
    BY <1>2 DEF Init, RevokedInv, OutInv, LastInv, Running
<1>7. SpentInv
    BY <1>2 DEF Init, SpentInv, Running
<1> QED
    BY <1>4, <1>5, <1>6, <1>7 DEF Inv

LEMMA NextTypeOK == TypeOK /\ TimesInv /\ [Next]_vars => TypeOK'
<1> SUFFICES ASSUME TypeOK, TimesInv, [Next]_vars PROVE TypeOK'
    OBVIOUS
<1> USE Typed
<1>1. ASSUME now' \in 0 .. MaxTime, CallsTyped', session' \in [Users -> Sessions],
             refresh' \in [Users -> [iat : Seconds, until : Nat] \cup {NoKey}],
             blacklist' \subseteq Tokens, doomed' \subseteq Tokens, issued' \subseteq Tokens,
             revoked' \subseteq Tokens, spent' \subseteq Tokens
      PROVE  TypeOK'
    BY <1>1 DEF TypeOK, CallsTyped, CallStates
<1>2. ASSUME NEW c \in Calls, NEW u \in Users, GenerateTokenPair(c, u) PROVE TypeOK'
  <2>1. session' \in [Users -> Sessions] /\ CallsTyped'
      BY <1>2, GenerateStep, GenerateSession DEF Recorded
  <2> QED
      BY <1>1, <1>2, <2>1 DEF GenerateTokenPair
<1>3. ASSUME NEW c \in Calls, NEW t \in issued, RefreshToken(c, t) PROVE TypeOK'
  <2>1. session' \in [Users -> Sessions] /\ CallsTyped'
      BY <1>3, RefreshStep, RefreshSession DEF Recorded
  <2> QED
      BY <1>1, <1>3, <2>1 DEF RefreshToken
<1>4. ASSUME NEW c \in Calls, Sign(c) PROVE TypeOK'
    BY <1>1, <1>4, SignStep DEF Sign, history
<1>5. ASSUME NEW c \in Calls, Store(c) \/ StoreFails(c) PROVE TypeOK'
  <2>1. call[c].iat \in Seconds /\ call[c].user \in Users /\ call[c].old \in Seconds \cup {None}
      BY <1>5, CallFields DEF Store, StoreFails, TimesInv, Running
  <2>2. issued' \subseteq Tokens
    <3>1. \A k \in {"access", "refresh"} : Token(call[c].user, k, call[c].iat) \in Tokens
        BY <2>1, TokenTypes
    <3>2. issued' = issued \cup {Token(call[c].user, k, call[c].iat) : k \in {"access", "refresh"}}
        BY <1>5 DEF Store, StoreFails, Return
    <3> HIDE DEF Token
    <3> QED
        BY <3>1, <3>2
  <2>3. CallsTyped'
      BY <1>5, ReturnStep DEF Store, StoreFails
  <2>4. spent' \subseteq Tokens
    <3>1. call[c].old # None => Token(call[c].user, "refresh", call[c].old) \in Tokens
        BY <2>1, TokenTypes
    <3> QED
        BY <1>5, <3>1 DEF Store, StoreFails, Settle
  <2>5. session' \in [Users -> Sessions]
    <3>1. \E i \in Seconds \cup {None} : session' = [session EXCEPT ![call[c].user].last = i]
        BY <1>5, <2>1 DEF Store, StoreFails, Settle
    <3> QED
        BY <2>1, <3>1, LastSession DEF Recorded
  <2>6. refresh' \in [Users -> [iat : Seconds, until : Nat] \cup {NoKey}]
    <3>1. CASE Store(c)
        BY <2>1, <3>1, StoreFrame
    <3>2. CASE StoreFails(c)
        BY <3>2 DEF StoreFails
    <3> QED
        BY <1>5, <3>1, <3>2
  <2> QED
      BY <1>1, <1>5, <2>2, <2>3, <2>4, <2>5, <2>6 DEF Store, StoreFails
<1>6. ASSUME NEW u \in Users, RevokeRefreshToken(u) PROVE TypeOK'
  <2>1. session' \in [Users -> Sessions]
      BY <1>6, RevokeSession DEF Recorded
  <2>2. CallsTyped'
      BY <1>6 DEF RevokeRefreshToken, CallsTyped, CallStates
  <2> QED
      BY <1>1, <1>6, <2>1, <2>2 DEF RevokeRefreshToken
<1>7. CASE Quiet
  <2>1. CallsTyped'
      BY <1>7, QuietFrame DEF CallsTyped, CallStates
  <2>2. blacklist' \subseteq Tokens /\ doomed' \subseteq Tokens /\ revoked' \subseteq Tokens
      BY <1>7 DEF Quiet, CleanupEnds, BlacklistToken, CleanupFinds, CleanupTTLFails, vars, history
  <2> QED
      BY <1>1, <1>7, <2>1, <2>2, QuietFrame
<1>8. CASE Tick
  <2>1. CallsTyped'
      BY <1>8, TickFrame DEF CallsTyped, CallStates
  <2>2. refresh' \in [Users -> [iat : Seconds, until : Nat] \cup {NoKey}]
      BY <1>8, TickFrame
  <2> QED
      BY <1>1, <1>8, <2>1, <2>2, TickFrame
<1> QED
    BY <1>2, <1>3, <1>4, <1>5, <1>6, <1>7, <1>8, Steps DEF Moves

-----------------------------------------------------------------------------
(* TimesInv is kept: one part for the keys, one for the calls. *)
LEMMA NextTimesInv == TypeOK /\ TypeOK' /\ TimesInv /\ [Next]_vars => TimesInv'
<1> SUFFICES ASSUME TypeOK, TypeOK', TimesInv, [Next]_vars PROVE TimesInv'
    OBVIOUS
<1> DEFINE KeyFine(u) == Stored(u) <= ThisSecond
           CallFine(c) ==
               /\ Running(c) => call[c].user \in Users
               /\ call[c].pc = "sign" => call[c].old <= ThisSecond
               /\ call[c].pc = "store" => /\ call[c].iat \in Seconds /\ call[c].iat <= ThisSecond
                                          /\ call[c].old <= call[c].iat
<1>1. (\A u \in Users : KeyFine(u)') /\ (\A c \in Calls : CallFine(c)') => TimesInv'
    BY DEF TimesInv
<1>2. (\A u \in Users : KeyFine(u)) /\ (\A c \in Calls : CallFine(c))
    BY DEF TimesInv
<1>3. /\ ThisSecond \in Nat /\ ThisSecond \in Seconds /\ Seconds \subseteq Nat
      /\ None \in Int /\ None < 0 /\ \A i \in Seconds \cup {None} : i \in Int
    BY Typed, TokenTypes
<1>4. ASSUME now' = now, refresh' = refresh PROVE \A u \in Users : KeyFine(u)'
    BY <1>2, <1>4 DEF Stored, ThisSecond
<1>5. ASSUME now' = now, NEW c \in Calls, OthersRest(c)
      PROVE  \A d \in Calls \ {c} : CallFine(d)'
    BY <1>2, <1>5 DEF OthersRest, Running, ThisSecond
<1>6. ASSUME NEW c \in Calls, NEW u \in Users, GenerateTokenPair(c, u) PROVE TimesInv'
  <2>1. now' = now /\ refresh' = refresh
      BY <1>6 DEF GenerateTokenPair
  <2>2. CallFine(c)'
      BY <1>3, <1>6, <2>1, GenerateStep DEF Running, ThisSecond, None
  <2> QED
      BY <1>1, <1>4, <1>5, <1>6, <2>1, <2>2, GenerateStep
<1>7. ASSUME NEW c \in Calls, NEW t \in issued, RefreshToken(c, t) PROVE TimesInv'
  <2>1. now' = now /\ refresh' = refresh
      BY <1>7 DEF RefreshToken
  <2>2. t.user \in Users /\ t.iat <= ThisSecond
      BY <1>2, <1>7, RefreshStep, TokenTypes
  <2>3. CallFine(c)'
      BY <1>7, <2>1, <2>2, RefreshStep DEF Running, ThisSecond
  <2> QED
      BY <1>1, <1>4, <1>5, <1>7, <2>1, <2>3, RefreshStep
<1>8. ASSUME NEW c \in Calls, Sign(c) PROVE TimesInv'
  <2>1. now' = now /\ refresh' = refresh
      BY <1>8 DEF Sign
  <2>2. ThisSecond' = ThisSecond
      BY <2>1 DEF ThisSecond
  <2>3. CallFine(c)'
      BY <1>2, <1>3, <1>8, <2>2, SignStep DEF Running
  <2> QED
      BY <1>1, <1>4, <1>5, <1>8, <2>1, <2>3, SignStep
<1>9. ASSUME NEW c \in Calls, Store(c) \/ StoreFails(c) PROVE TimesInv'
  <2>1. now' = now /\ ThisSecond' = ThisSecond /\ Return(c) /\ call[c].pc = "store"
      BY <1>9 DEF Store, StoreFails, ThisSecond
  <2>2. call[c].user \in Users /\ call[c].iat \in Seconds /\ call[c].iat <= ThisSecond
      BY <1>2, <2>1 DEF Running
  <2>3. CallFine(c)'
      BY <2>1, ReturnStep DEF Running
  <2>4. \A u \in Users : KeyFine(u)'
    <3>1. CASE Store(c)
      <4>1. refresh'[call[c].user] =
              [iat |-> call[c].iat, until |-> now + RefreshTTL * Second]
          BY <2>2, <3>1, StoreFrame
      <4>2. \A u \in Users : u # call[c].user => Stored(u)' = Stored(u)
          BY <2>2, <3>1, StoreFrame DEF Stored
      <4> QED
          BY <1>2, <2>1, <2>2, <4>1, <4>2 DEF Stored
    <3>2. CASE StoreFails(c)
        BY <1>4, <2>1, <3>2 DEF StoreFails
    <3> QED
        BY <1>9, <3>1, <3>2
  <2> QED
      BY <1>1, <1>5, <2>1, <2>3, <2>4, ReturnStep
<1>10. ASSUME NEW u \in Users, RevokeRefreshToken(u) PROVE TimesInv'
  <2>1. now' = now /\ call' = call /\ ThisSecond' = ThisSecond
      BY <1>10 DEF RevokeRefreshToken, ThisSecond
  <2>2. \A v \in Users : Stored(v)' \in {Stored(v), None}
      BY <1>10, Typed DEF RevokeRefreshToken, Stored, NoKey
  <2>3. \A v \in Users : KeyFine(v)'
      BY <1>2, <1>3, <2>1, <2>2
  <2> QED
      BY <1>1, <1>2, <2>1, <2>3 DEF Running
<1>11. CASE Quiet
  <2>1. now' = now /\ refresh' = refresh /\ call' = call /\ ThisSecond' = ThisSecond
      BY <1>11, QuietFrame DEF ThisSecond
  <2> QED
      BY <1>1, <1>2, <1>4, <2>1 DEF Running
<1>12. CASE Tick
  <2>1. /\ call' = call /\ ThisSecond' \in Nat /\ ThisSecond <= ThisSecond'
        /\ refresh' = [u \in Users |-> IF refresh[u].until <= now' THEN NoKey ELSE refresh[u]]
      BY <1>12, TickFrame
  <2>2. \A u \in Users : Stored(u)' \in {Stored(u), None}
      BY <2>1 DEF Stored, NoKey
  <2>3. \A u \in Users : KeyFine(u)'
    <3> TAKE u \in Users
    <3>1. Stored(u) \in Seconds \cup {None} /\ Stored(u) <= ThisSecond
        BY <1>2, Typed
    <3>2. Stored(u) \in Int
        BY <1>3, <3>1
    <3>3. Stored(u)' <= ThisSecond'
        BY <1>3, <2>1, <2>2, <3>1, <3>2
    <3> QED
        BY <3>3
  <2>4. \A c \in Calls : CallFine(c)'
    <3> TAKE c \in Calls
    <3>1. call[c].old \in Seconds \cup {None} /\ call[c].iat \in Seconds \cup {None}
        BY CallFields
    <3>2. call[c].old \in Int /\ call[c].iat \in Int
        BY <1>3, <3>1
    <3>3. CallFine(c)
        BY <1>2
    <3>4. \A i \in Int : i <= ThisSecond => i <= ThisSecond'
        BY <1>3, <2>1
    <3> QED
        BY <2>1, <3>2, <3>3, <3>4 DEF Running
  <2> QED
      BY <1>1, <2>3, <2>4
<1> QED
    BY <1>6, <1>7, <1>8, <1>9, <1>10, <1>11, <1>12, Steps DEF Moves

LEMMA NextRevokedInv == TypeOK /\ TypeOK' /\ RevokedInv /\ [Next]_vars => RevokedInv'
<1> SUFFICES ASSUME TypeOK, TypeOK', RevokedInv, [Next]_vars PROVE RevokedInv'
    OBVIOUS
<1>1. now \in Nat /\ Second \in Nat \ {0} /\ revoked \subseteq Tokens
    BY Typed, TokenTypes
<1>2. ASSUME now' = now, NEW t PROVE LateBy(t)' = LateBy(t)
    BY <1>2 DEF LateBy, Exp, TTL
<1>3. ASSUME UNCHANGED <<now, blacklist, doomed, revoked>> PROVE RevokedInv'
    BY <1>2, <1>3 DEF RevokedInv
<1>4. CASE Moves
    BY <1>3, <1>4 DEF Moves, GenerateTokenPair, RefreshToken, Sign, Store, StoreFails,
                      RevokeRefreshToken, history
<1>5. CASE CleanupEnds
    BY <1>2, <1>5 DEF CleanupEnds, RevokedInv, history
<1>6. ASSUME NEW t \in issued, BlacklistToken(t) PROVE RevokedInv'
    BY <1>2, <1>6 DEF BlacklistToken, RevokedInv
<1>7. ASSUME NEW t \in issued, CleanupFinds(t) PROVE RevokedInv'
  <2>1. Exp(t) \in Nat
      BY Typed, TokenTypes
  <2>2. LateBy(t)
    <3> DEFINE e == Exp(t)
    <3>1. e \in Nat /\ 2 * Second \in Nat \ {0}
        BY <1>1, <2>1
    <3>2. (2 * (e - now) + Second) \div (2 * Second) <= 0
        BY <1>7 DEF CleanupFinds, FoundExpired, RoundedTTL
    <3> HIDE DEF e
    <3>3. 2 * (e - now) + Second \in Int
        BY <1>1, <3>1
    <3>4. 2 * (e - now) + Second < 2 * Second
        BY <3>1, <3>2, <3>3, DivAtMostZero
    <3>5. 2 * (e - now) <= Second
        BY <1>1, <3>1, <3>4
    <3> QED
        BY <3>5 DEF e, LateBy
  <2> QED
      BY <1>2, <1>7, <2>2 DEF CleanupFinds, RevokedInv, history
<1>8. ASSUME NEW t \in issued, CleanupTTLFails(t) PROVE RevokedInv'
    BY <1>2, <1>8 DEF CleanupTTLFails, RevokedInv
<1>9. CASE Tick
  <2>1. \A t \in revoked : LateBy(t) => LateBy(t)'
    <3> TAKE t \in revoked
    <3>1. Exp(t) \in Nat /\ Exp(t)' = Exp(t)
        BY <1>1, TokenTypes DEF Exp, TTL
    <3> QED
        BY <1>1, <1>9, <3>1, TickFrame DEF LateBy
  <2> QED
      BY <1>9, <2>1, TickFrame DEF RevokedInv
<1> QED
    BY <1>3, <1>4, <1>5, <1>6, <1>7, <1>8, <1>9, Steps DEF Quiet, vars

LEMMA NextOutInv == TypeOK /\ TypeOK' /\ TimesInv /\ OutInv /\ [Next]_vars => OutInv'
<1> SUFFICES ASSUME TypeOK, TypeOK', TimesInv, OutInv, [Next]_vars,
                    NEW u \in Users, session'[u].out
             PROVE  Stored(u)' = None /\ \A c \in Calls : Running(c)' => call'[c].user # u
    BY DEF OutInv
<1> DEFINE Away == Stored(u)' = None /\ \A c \in Calls : Running(c)' => call'[c].user # u
<1>1. session[u].out => Stored(u) = None /\ \A c \in Calls : Running(c) => call[c].user # u
    BY DEF OutInv
<1>2. ASSUME NEW c \in Calls, NEW v \in Users, GenerateTokenPair(c, v) PROVE Away
  <2>1. v # u /\ session[u].out
      BY <1>2, GenerateSession DEF Recorded
  <2>2. Stored(u)' = Stored(u)
      BY <1>2 DEF GenerateTokenPair, Stored
  <2> QED
      BY <1>1, <1>2, <2>1, <2>2, GenerateStep DEF OthersRest, Running
<1>3. ASSUME NEW c \in Calls, NEW t \in issued, RefreshToken(c, t) PROVE Away
  <2>1. session[u].out /\ t.user \in Users
      BY <1>3, RefreshStep, RefreshSession, TokenTypes DEF Recorded
  <2>2. t.user # u
      BY <1>1, <1>3, <2>1, RefreshStep, TokenTypes
  <2>3. Stored(u)' = Stored(u)
      BY <1>3 DEF RefreshToken, Stored
  <2> QED
      BY <1>1, <1>3, <2>1, <2>2, <2>3, RefreshStep DEF OthersRest, Running
<1>4. ASSUME NEW c \in Calls, Sign(c) PROVE Away
  <2>1. session' = session /\ Stored(u)' = Stored(u)
      BY <1>4 DEF Sign, history, Stored
  <2> QED
      BY <1>1, <1>4, <2>1, SignStep DEF OthersRest, Running
<1>5. ASSUME NEW c \in Calls, Store(c) \/ StoreFails(c) PROVE Away
  <2>1. call[c].pc = "store" /\ Return(c)
      BY <1>5 DEF Store, StoreFails
  <2>2. call[c].user \in Users /\ call[c].iat \in Seconds
      BY <2>1 DEF TimesInv, Running
  <2>3. \E i \in Seconds \cup {None} : session' = [session EXCEPT ![call[c].user].last = i]
      BY <1>5, <2>2 DEF Store, StoreFails, Settle
  <2>4. session[u].out
      BY <2>2, <2>3, LastSession DEF Recorded
  <2>5. call[c].user # u
      BY <1>1, <2>1, <2>4 DEF Running
  <2>6. Stored(u)' = Stored(u)
    <3>1. CASE Store(c)
        BY <2>2, <2>5, <3>1, StoreFrame DEF Stored
    <3>2. CASE StoreFails(c)
        BY <3>2 DEF StoreFails, Stored
    <3> QED
        BY <1>5, <3>1, <3>2
  <2> QED
      BY <1>1, <2>1, <2>4, <2>6, ReturnStep DEF OthersRest, Running
<1>6. ASSUME NEW v \in Users, RevokeRefreshToken(v) PROVE Away
  <2>1. call' = call /\ refresh' = [refresh EXCEPT ![v] = NoKey]
      BY <1>6 DEF RevokeRefreshToken
  <2>2. CASE v = u
    <3>1. Stored(u)' = None
        BY <2>1, <2>2, Typed DEF Stored, NoKey
    <3>2. session[u].out \/ Busy(u) = {}
        BY <1>6, <2>2, RevokeSession DEF Recorded
    <3>3. \A c \in Calls : Running(c) => call[c].user # u
        BY <1>1, <3>2 DEF Busy
    <3> QED
        BY <2>1, <3>1, <3>3 DEF Running
  <2>3. CASE v # u
    <3>1. session[u].out
        BY <1>6, <2>3, RevokeSession DEF Recorded
    <3>2. Stored(u)' = Stored(u)
        BY <2>1, <2>3, Typed DEF Stored
    <3> QED
        BY <1>1, <2>1, <3>1, <3>2 DEF Running
  <2> QED
      BY <2>2, <2>3
<1>7. CASE Quiet
    BY <1>1, <1>7, QuietFrame DEF Stored, Running
<1>8. CASE Tick
    BY <1>1, <1>8, TickFrame DEF Stored, Running, NoKey
<1> QED
    BY <1>2, <1>3, <1>4, <1>5, <1>6, <1>7, <1>8, Steps DEF Moves

LEMMA NextSpentInv ==
    TypeOK /\ TypeOK' /\ TimesInv /\ SpentInv /\ [Next]_vars => SpentInv'
<1> SUFFICES ASSUME TypeOK, TypeOK', TimesInv, SpentInv, [Next]_vars PROVE SpentInv'
    OBVIOUS
<1> DEFINE Alone(u) == \A c, d \in Calls : Running(c) /\ Running(d)
                            /\ call[c].user = u /\ call[d].user = u => c = d
           Earlier(t, u) ==
               /\ t.iat < ThisSecond
               /\ Stored(u) # None => t.iat < Stored(u)
               /\ \A c \in Calls : call[c].pc = "store" /\ call[c].user = u => t.iat < call[c].iat
           Fine(u) == Alone(u) /\ \A t \in spent : t.user = u => Earlier(t, u)
<1>1. /\ \A t \in spent : t.type = "refresh"
      /\ \A u \in Users : ~session[u].torn => Fine(u)
    BY DEF SpentInv
<1>2. (\A t \in spent' : t.type = "refresh")
      /\ (\A u \in Users : ~session'[u].torn => Fine(u)') => SpentInv'
    BY DEF SpentInv
<1>3. /\ spent \subseteq Tokens /\ Seconds \subseteq Nat /\ None \in Int /\ None < 0
      /\ ThisSecond \in Nat /\ \A j \in Seconds \cup {None} : j \in Int
      /\ \A t \in spent : t.iat \in Nat
  <2>1. spent \subseteq Tokens /\ ThisSecond \in Nat
      BY Typed
  <2>2. \A t \in spent : t.iat \in Seconds
      BY <2>1, TokenTypes
  <2>3. Seconds \subseteq Nat /\ None \in Int /\ None < 0
      BY TokenTypes
  <2>4. \A j \in Seconds \cup {None} : j \in Int
      BY <2>3
  <2>5. \A t \in spent : t.iat \in Nat
      BY <2>2, <2>3
  <2> QED
      BY <2>1, <2>3, <2>4, <2>5
<1>4. ASSUME NEW c \in Calls, NEW v \in Users, Busy(v) = {},
             UNCHANGED <<now, refresh, spent>>, OthersRest(c),
             call[c].pc = "idle", call'[c].pc = "sign", call'[c].user = v,
             NEW u \in Users, ~session[u].torn
      PROVE  Fine(u)'
  <2>1. \A d \in Calls : d # c => call'[d] = call[d]
      BY <1>4 DEF OthersRest
  <2>2. Fine(u)
      BY <1>1, <1>4
  <2>3. \A d \in Calls : d # c => Running(d)' = Running(d)
      BY <2>1 DEF Running
  <2>4. Alone(u)'
      BY <1>4, <2>1, <2>2, <2>3 DEF Busy, Running
  <2>5. ThisSecond' = ThisSecond /\ Stored(u)' = Stored(u)
      BY <1>4 DEF ThisSecond, Stored
  <2>6. \A d \in Calls : call'[d].pc = "store" => call'[d] = call[d]
      BY <1>4, <2>1
  <2> QED
      BY <1>4, <2>2, <2>4, <2>5, <2>6
<1>5. ASSUME NEW c \in Calls, NEW v \in Users, GenerateTokenPair(c, v) PROVE SpentInv'
  <2>1. UNCHANGED <<now, refresh, spent>>
      BY <1>5 DEF GenerateTokenPair
  <2>2. PICK h \in Sessions : Recorded(v, h) /\ (~h.torn => ~session[v].torn /\ Busy(v) = {})
      BY <1>5, GenerateSession
  <2>3. ASSUME NEW u \in Users, ~session'[u].torn PROVE Fine(u)'
    <3>1. ~session[u].torn
        BY <2>2, <2>3 DEF Recorded
    <3>2. CASE u = v
        BY <1>4, <1>5, <2>1, <2>2, <2>3, <3>1, <3>2, GenerateStep DEF Recorded
    <3>3. CASE u # v
      <4>1. \A d \in Calls : call'[d].user = u /\ d # c => call'[d] = call[d]
          BY <1>5, GenerateStep DEF OthersRest
      <4>2. call'[c].user # u
          BY <1>5, <3>3, GenerateStep
      <4>3. \A d \in Calls : call'[d].user = u => call'[d] = call[d]
          BY <4>1, <4>2
      <4> QED
          BY <1>1, <2>1, <3>1, <4>3 DEF Running, Stored, ThisSecond
    <3> QED
        BY <3>2, <3>3
  <2> QED
      BY <1>1, <1>2, <2>1, <2>3
<1>6. ASSUME NEW c \in Calls, NEW t \in issued, RefreshToken(c, t) PROVE SpentInv'
  <2> DEFINE v == t.user
  <2>1. UNCHANGED <<now, refresh, spent>> /\ v \in Users
      BY <1>6, RefreshStep, TokenTypes DEF RefreshToken
  <2>2. PICK h \in Sessions : Recorded(v, h) /\ (~h.torn => ~session[v].torn /\ Busy(v) = {})
      BY <1>6, RefreshSession
  <2>3. /\ OthersRest(c) /\ call[c].pc = "idle" /\ call'[c].pc = "sign"
        /\ call'[c].user = v
      BY <1>6, RefreshStep
  <2> HIDE DEF v
  <2>4. ASSUME NEW u \in Users, ~session'[u].torn PROVE Fine(u)'
    <3>1. ~session[u].torn
        BY <2>2, <2>4 DEF Recorded
    <3>2. CASE u = v
        BY <1>4, <2>1, <2>2, <2>3, <2>4, <3>1, <3>2 DEF Recorded
    <3>3. CASE u # v
      <4>1. \A d \in Calls : call'[d].user = u => call'[d] = call[d]
          BY <2>3, <3>3 DEF OthersRest
      <4> QED
          BY <1>1, <2>1, <3>1, <4>1 DEF Running, Stored, ThisSecond
    <3> QED
        BY <3>2, <3>3
  <2> QED
      BY <1>1, <1>2, <2>1, <2>4
<1>7. ASSUME NEW c \in Calls, Sign(c) PROVE SpentInv'
  <2>1. UNCHANGED <<now, refresh, spent, session>>
      BY <1>7 DEF Sign, history
  <2>2. ThisSecond' = ThisSecond /\ \A u \in Users : Stored(u)' = Stored(u)
      BY <2>1 DEF ThisSecond, Stored
  <2>3. \A d \in Calls : d # c => call'[d] = call[d]
      BY <1>7, SignStep DEF OthersRest
  <2>4. \A d \in Calls : Running(d)' = Running(d) /\ call'[d].user = call[d].user
      BY <1>7, <2>3, SignStep DEF Running
  <2>5. call'[c].iat = ThisSecond
      BY <1>7, SignStep
  <2>6. ASSUME NEW u \in Users, ~session'[u].torn PROVE Fine(u)'
    <3>1. Fine(u)
        BY <1>1, <2>1, <2>6
    <3>2. Alone(u)'
        BY <2>4, <3>1
    <3>3. ASSUME NEW s \in spent, s.user = u PROVE Earlier(s, u)'
      <4>1. Earlier(s, u)
          BY <3>1, <3>3
      <4>2. \A d \in Calls : call'[d].pc = "store" /\ call'[d].user = u => s.iat < call'[d].iat
          BY <2>3, <2>5, <4>1
      <4> QED
          BY <2>2, <4>1, <4>2
    <3> QED
        BY <2>1, <3>2, <3>3
  <2> QED
      BY <1>1, <1>2, <2>1, <2>6
<1>8. ASSUME NEW c \in Calls, Store(c) \/ StoreFails(c) PROVE SpentInv'
  <2> DEFINE v == call[c].user
             i == call[c].iat
             o == Token(v, "refresh", call[c].old)
  <2>1. call[c].pc = "store" /\ Return(c) /\ now' = now /\ ThisSecond' = ThisSecond
      BY <1>8 DEF Store, StoreFails, ThisSecond
  <2>2. /\ v \in Users /\ i \in Seconds /\ i <= ThisSecond /\ call[c].old <= i
        /\ call[c].old \in Seconds \cup {None}
      BY <2>1, CallFields DEF TimesInv, Running
  <2>3. \E j \in Seconds \cup {None} : session' = [session EXCEPT ![v].last = j]
      BY <1>8, <2>2 DEF Store, StoreFails, Settle
  <2>4. \A u \in Users : session'[u].torn = session[u].torn
      BY <2>2, <2>3, LastSession DEF Recorded
  <2>5. call'[c].pc = "idle" /\ \A d \in Calls : d # c => call'[d] = call[d]
      BY <2>1, ReturnStep DEF OthersRest
  <2>6. \A u \in Users : Alone(u) => Alone(u)'
      BY <2>5 DEF Running
  <2>7. CASE StoreFails(c)
    <3>1. refresh' = refresh /\ spent' = spent
        BY <2>7 DEF StoreFails
    <3>2. ASSUME NEW u \in Users, ~session'[u].torn PROVE Fine(u)'
      <4>1. Fine(u)
          BY <1>1, <2>4, <3>2
      <4>2. \A d \in Calls : call'[d].pc = "store" => call'[d] = call[d]
          BY <2>5
      <4> QED
          BY <2>1, <2>6, <3>1, <4>1, <4>2 DEF Stored
    <3> QED
        BY <1>1, <1>2, <3>1, <3>2
  <2>8. CASE Store(c)
    <3>1. /\ refresh'[v] = [iat |-> i, until |-> now + RefreshTTL * Second]
          /\ \A u \in Users : u # v => refresh'[u] = refresh[u]
          /\ call[c].old \in {None, i} => spent' = spent
          /\ call[c].old \notin {None, i} => spent' = spent \cup {o}
        BY <2>2, <2>8, StoreFrame
    <3>2. o.type = "refresh" /\ o.user = v /\ o.iat = call[c].old
        BY DEF Token
    <3>3. call[c].old \notin {None, i} => o.iat < i
      <4>1. call[c].old \in Int /\ i \in Int
          BY <1>3, <2>2
      <4>2. call[c].old <= i
          BY <2>2
      <4> HIDE DEF i, o
      <4> QED
          BY <3>2, <4>1, <4>2
    <3>4. refresh'[v].iat = i
        BY <3>1
    <3> HIDE DEF v, i, o
    <3>5. spent' = spent \/ (spent' = spent \cup {o} /\ o.iat < i)
        BY <3>1, <3>3
    <3>6. \A t \in spent' : t.type = "refresh"
        BY <1>1, <3>2, <3>5
    <3>7. ASSUME NEW u \in Users, ~session'[u].torn PROVE Fine(u)'
      <4>1. Fine(u)
          BY <1>1, <2>4, <3>7
      <4>2. CASE u # v
        <5>1. \A t \in spent' : t.user = u => t \in spent
            BY <3>2, <3>5, <4>2
        <5>2. Stored(u)' = Stored(u)
            BY <3>1, <4>2 DEF Stored
        <5>3. \A d \in Calls : call'[d].pc = "store" => call'[d] = call[d]
            BY <2>5
        <5> QED
            BY <2>1, <2>6, <4>1, <5>1, <5>2, <5>3
      <4>3. CASE u = v
        <5>1. \A d \in Calls : call'[d].pc = "store" => call'[d].user # v
          <6>1. Running(c) /\ call[c].user = v
              BY <2>1 DEF Running, v
          <6> QED
              BY <2>5, <4>1, <4>3, <6>1 DEF Running
        <5>2. Stored(u)' = i
            BY <3>4, <4>3 DEF Stored
        <5>3. ASSUME NEW t \in spent', t.user = u PROVE t.iat < i /\ t.iat < ThisSecond
          <6>1. CASE t \in spent
              BY <2>1, <4>1, <4>3, <5>3, <6>1 DEF v, i
          <6>2. CASE t = o /\ o.iat < i
            <7>1. o.iat \in Int /\ i \in Int
                BY <1>3, <2>2, <3>2 DEF i
            <7>2. i <= ThisSecond
                BY <2>2 DEF i
            <7> QED
                BY <1>3, <6>2, <7>1, <7>2
          <6> QED
              BY <3>5, <6>1, <6>2
        <5> QED
            BY <2>1, <2>6, <4>1, <4>3, <5>1, <5>2, <5>3
      <4> QED
          BY <4>2, <4>3
    <3> QED
        BY <1>2, <3>6, <3>7
  <2> QED
      BY <1>8, <2>7, <2>8
<1>9. ASSUME NEW v \in Users, RevokeRefreshToken(v) PROVE SpentInv'
  <2>1. UNCHANGED <<now, call, spent>> /\ ThisSecond' = ThisSecond
      BY <1>9 DEF RevokeRefreshToken, ThisSecond
  <2>2. \A u \in Users : session'[u].torn = session[u].torn
      BY <1>9, RevokeSession DEF Recorded
  <2>3. \A u \in Users : Stored(u)' \in {Stored(u), None}
      BY <1>9, Typed DEF RevokeRefreshToken, Stored, NoKey
  <2>4. ASSUME NEW u \in Users, ~session'[u].torn PROVE Fine(u)'
    <3>1. Fine(u)
        BY <1>1, <2>2, <2>4
    <3> QED
        BY <2>1, <2>3, <3>1 DEF Running
  <2> QED
      BY <1>1, <1>2, <2>1, <2>4
<1>10. CASE Quiet
    BY <1>10, QuietFrame DEF SpentInv, Stored, Running, ThisSecond
<1>11. CASE Tick
  <2>1. UNCHANGED <<call, session>> /\ ThisSecond' \in Nat /\ ThisSecond <= ThisSecond'
      BY <1>11, TickFrame
  <2>2. spent' \subseteq spent
      BY <1>11, TickFrame
  <2>3. \A u \in Users : Stored(u)' \in {Stored(u), None}
      BY <1>11, TickFrame DEF Stored, NoKey
  <2>4. \A t \in spent : t.iat < ThisSecond => t.iat < ThisSecond'
      BY <1>3, <2>1
  <2>5. ASSUME NEW u \in Users, ~session'[u].torn PROVE Fine(u)'
    <3>1. Fine(u)
        BY <1>1, <2>1, <2>5
    <3>2. Alone(u)'
        BY <2>1, <3>1 DEF Running
    <3>3. ASSUME NEW t \in spent', t.user = u PROVE Earlier(t, u)'
      <4>1. Earlier(t, u)
          BY <2>2, <3>1, <3>3
      <4> QED
          BY <2>1, <2>2, <2>3, <2>4, <4>1
    <3> QED
        BY <3>2, <3>3
  <2> QED
      BY <1>1, <1>2, <2>2, <2>5
<1> QED
    BY <1>5, <1>6, <1>7, <1>8, <1>9, <1>10, <1>11, Steps DEF Moves

LEMMA NextLastInv ==
    TypeOK /\ TypeOK' /\ TimesInv /\ LastInv /\ [Next]_vars => LastInv'
<1> SUFFICES ASSUME TypeOK, TypeOK', TimesInv, LastInv, [Next]_vars PROVE LastInv'
    OBVIOUS
<1> SUFFICES ASSUME NEW u \in Users, session'[u].last # None
             PROVE  \/ now' >= Ends(session'[u].last)
                    \/ /\ refresh'[u].iat = session'[u].last
                       /\ refresh'[u].until >= Ends(session'[u].last)
    BY DEF LastInv, Kept, Stored
<1> DEFINE last == session[u].last
           StillKept == \/ now' >= Ends(session'[u].last)
                        \/ /\ refresh'[u].iat = session'[u].last
                           /\ refresh'[u].until >= Ends(session'[u].last)
<1>2. last # None => now >= Ends(last) \/ (refresh[u].iat = last /\ refresh[u].until >= Ends(last))
    BY DEF LastInv, Kept, Stored
<1>4. ASSUME now' = now, refresh'[u] = refresh[u], session'[u].last = last PROVE StillKept
    BY <1>2, <1>4
<1>5. ASSUME NEW c \in Calls, NEW v \in Users, GenerateTokenPair(c, v) PROVE StillKept
  <2>1. now' = now /\ refresh' = refresh
      BY <1>5 DEF GenerateTokenPair
  <2>2. session'[u].last = last
      BY <1>5, GenerateSession DEF Recorded
  <2> QED
      BY <1>4, <2>1, <2>2
<1>6. ASSUME NEW c \in Calls, NEW t \in issued, RefreshToken(c, t) PROVE StillKept
  <2>1. now' = now /\ refresh' = refresh
      BY <1>6 DEF RefreshToken
  <2>2. t.user \in Users
      BY Typed, TokenTypes
  <2>3. session'[u].last = last
      BY <1>6, <2>2, RefreshSession DEF Recorded
  <2> QED
      BY <1>4, <2>1, <2>3
<1>7. ASSUME NEW c \in Calls, Sign(c) PROVE StillKept
    BY <1>4, <1>7 DEF Sign, history
<1>8. ASSUME NEW c \in Calls, Store(c) \/ StoreFails(c) PROVE StillKept
  <2> DEFINE v == call[c].user
             i == call[c].iat
  <2>1. now' = now /\ call[c].pc = "store"
      BY <1>8 DEF Store, StoreFails
  <2>2. v \in Users /\ i \in Seconds /\ i <= ThisSecond
      BY <2>1 DEF TimesInv, Running
  <2>3. PICK j \in Seconds \cup {None} :
           /\ session' = [session EXCEPT ![v].last = j]
           /\ (Store(c) /\ j = i) \/ (StoreFails(c) /\ j = None)
      BY <1>8, <2>2 DEF Store, StoreFails, Settle
  <2>4. session'[v].last = j /\ (u # v => session'[u].last = last)
    <3>1. PICK h \in Sessions : Recorded(v, h) /\ h.last = j
        BY <2>2, <2>3, LastSession
    <3> QED
        BY <3>1 DEF Recorded
  <2>5. u # v => refresh'[u] = refresh[u]
      BY <2>2, <2>3, StoreFrame DEF StoreFails
  <2>6. CASE u # v
      BY <1>4, <2>1, <2>4, <2>5, <2>6
  <2>7. CASE u = v
    <3>1. Store(c) /\ session'[u].last = i
        BY <2>3, <2>4, <2>7
    <3>2. refresh'[u] = [iat |-> i, until |-> now + RefreshTTL * Second]
        BY <2>2, <2>7, <3>1, StoreFrame
    <3>3. now \in Nat /\ i \in Nat /\ Second \in Nat \ {0} /\ RefreshTTL \in Nat
        BY <2>2, Typed, TokenTypes, TokenAssumption
    <3> HIDE DEF i, v, last
    <3>4. i * Second <= now
        BY <2>2, <3>3, SecondBegan DEF ThisSecond
    <3>5. Ends(i) = i * Second + RefreshTTL * Second
        BY <3>3 DEF Ends
    <3>6. i * Second \in Nat /\ RefreshTTL * Second \in Nat
        BY <3>3
    <3>7. now + RefreshTTL * Second >= Ends(i)
        BY <3>3, <3>4, <3>5, <3>6
    <3>8. refresh'[u].iat = i /\ refresh'[u].until = now + RefreshTTL * Second
        BY <3>2
    <3> QED
        BY <3>1, <3>7, <3>8
  <2> QED
      BY <2>6, <2>7
<1>9. ASSUME NEW v \in Users, RevokeRefreshToken(v) PROVE StillKept
  <2>1. u # v /\ session'[u].last = last
      BY <1>9, RevokeSession DEF Recorded
  <2>2. now' = now /\ refresh'[u] = refresh[u]
      BY <1>9, <2>1, Typed DEF RevokeRefreshToken
  <2> QED
      BY <1>4, <2>1, <2>2
<1>10. CASE Quiet
    BY <1>4, <1>10, QuietFrame
<1>11. CASE Tick
  <2>1. /\ session' = session /\ now' = now + 1 /\ now \in Nat
        /\ refresh'[u] = IF refresh[u].until <= now' THEN NoKey ELSE refresh[u]
      BY <1>11, TickFrame, Typed
  <2>2. Ends(last) \in Nat /\ refresh[u].until \in Nat
    <3>1. last \in Seconds
        BY <2>1, SessionFields
    <3>2. last \in Nat /\ RefreshTTL \in Nat /\ Second \in Nat
        BY <3>1, TokenTypes, TokenAssumption
    <3> QED
        BY <3>2, Typed DEF Ends
  <2> DEFINE e == Ends(last)
  <2>3. e \in Nat /\ (now >= e \/ (refresh[u].iat = last /\ refresh[u].until >= e))
      BY <1>2, <2>1, <2>2
  <2>4. now' >= e \/ (refresh'[u].iat = last /\ refresh'[u].until >= e)
    <3> HIDE DEF e, last
    <3>1. CASE now >= e
        BY <2>1, <2>3, <3>1
    <3>2. CASE refresh[u].until <= now' /\ refresh[u].until >= e
        BY <2>1, <2>2, <2>3, <3>2
    <3>3. CASE ~(refresh[u].until <= now') /\ refresh[u].iat = last /\ refresh[u].until >= e
        BY <2>1, <3>3
    <3> QED
        BY <2>3, <3>1, <3>2, <3>3
  <2> QED
      BY <2>1, <2>4
<1> QED
    BY <1>5, <1>6, <1>7, <1>8, <1>9, <1>10, <1>11, Steps DEF Moves

-----------------------------------------------------------------------------
LEMMA InvAlways == Spec => []Inv
<1>1. Inv /\ [Next]_vars => Inv'
  <2>1. TypeOK /\ TimesInv /\ [Next]_vars => TypeOK'
      BY NextTypeOK
  <2> QED
      BY <2>1, NextTimesInv, NextRevokedInv, NextOutInv, NextSpentInv, NextLastInv DEF Inv
<1> QED
    BY InitInv, <1>1, PTL DEF Spec

(* Every clock, key, token, call and session is of the kind it should be.  *)
THEOREM TypeCorrect == Spec => []TypeOK
<1>1. Inv => TypeOK
    BY DEF Inv
<1> QED
    BY InvAlways, <1>1, PTL

(* A token whose blacklisting was confirmed is refused by AuthMiddleware   *)
(* until its last half second, unless a cleanup could not read its TTL,    *)
(* however the commands of the cleanup and of BlacklistToken interleave.   *)
THEOREM RevocationHolds == Spec => []RevokedTokensStayRefused
<1>1. Inv => RevokedTokensStayRefused
  <2> SUFFICES ASSUME Inv, NEW t \in revoked, NEW failed \in BOOLEAN, Accepted(t, failed)
               PROVE  LateBy(t)
      BY DEF RevokedTokensStayRefused, LateBy
  <2> QED
      BY DEF Inv, RevokedInv, Accepted, IsTokenBlacklisted
<1> QED
    BY InvAlways, <1>1, PTL

(* A refresh token whose successor was stored is never again the one       *)
(* RefreshToken compares with, unless calls of its user overlapped.        *)
THEOREM SuccessorsReplace == Spec => []SpentTokensStaySpent
<1>1. Inv => SpentTokensStaySpent
  <2> SUFFICES ASSUME Inv, NEW u \in Users, ~session[u].torn,
                      Token(u, "refresh", Stored(u)) \in spent
               PROVE  FALSE
      BY DEF SpentTokensStaySpent
  <2> DEFINE t == Token(u, "refresh", Stored(u))
  <2>1. t.user = u /\ t.iat = Stored(u) /\ t \in Tokens
      BY Typed DEF Inv, Token
  <2>2. Stored(u) # None /\ Stored(u) \in Nat
      BY <2>1, TokenTypes
  <2>3. Stored(u) < Stored(u)
      BY <2>1, <2>2 DEF Inv, SpentInv
  <2> QED
      BY <2>2, <2>3
<1> QED
    BY InvAlways, <1>1, PTL

(* The key of the refresh token stored last does not go before the token   *)
(* expires: the SET comes no earlier than the second the token carries.    *)
THEOREM LastTokenUsable == Spec => []LastTokenLives
<1>1. Inv => LastTokenLives
    BY DEF Inv, LastInv, Kept, Ends, LastTokenLives, Expired, Exp, TTL, Token
<1> QED
    BY InvAlways, <1>1, PTL

(* No step exchanges a refresh token of a user whom RevokeRefreshToken     *)
(* signed out while no call of the user was running.                       *)
THEOREM SignOutHolds == Spec => SignedOutUsersStayOut
<1>1. Inv /\ [Next]_vars =>
        [\A c \in Calls : call[c].old = None /\ call'[c].old # None
                          => ~session[call'[c].user].out]_vars
  <2> SUFFICES ASSUME Inv, [Next]_vars, NEW d \in Calls, call[d].old = None, call'[d].old # None
               PROVE  ~session[call'[d].user].out
      OBVIOUS
  <2>1. TypeOK /\ OutInv
      BY DEF Inv
  <2>2. ASSUME NEW c \in Calls, NEW u \in Users, GenerateTokenPair(c, u) PROVE FALSE
      BY <2>1, <2>2, GenerateStep DEF OthersRest
  <2>3. ASSUME NEW c \in Calls, NEW t \in issued, RefreshToken(c, t)
        PROVE  ~session[call'[d].user].out
    <3>1. c = d
        BY <2>1, <2>3, RefreshStep DEF OthersRest
    <3>2. call'[d].user = t.user /\ t.user \in Users /\ Stored(t.user) # None
        BY <2>1, <2>3, <3>1, RefreshStep, TokenTypes
    <3> QED
        BY <2>1, <3>2 DEF OutInv
  <2>4. ASSUME NEW c \in Calls, Sign(c) PROVE FALSE
      BY <2>1, <2>4, SignStep DEF OthersRest
  <2>5. ASSUME NEW c \in Calls, Store(c) \/ StoreFails(c) PROVE FALSE
    <3>1. Return(c)
        BY <2>5 DEF Store, StoreFails
    <3> QED
        BY <2>1, <3>1, ReturnStep DEF OthersRest
  <2>6. ASSUME NEW u \in Users, RevokeRefreshToken(u) PROVE FALSE
      BY <2>6 DEF RevokeRefreshToken
  <2>7. CASE Quiet \/ Tick
      BY <2>1, <2>7, QuietFrame, TickFrame
  <2> QED
      BY <2>2, <2>3, <2>4, <2>5, <2>6, <2>7, Steps DEF Moves
<1> QED
    BY InvAlways, <1>1, PTL DEF Spec, SignedOutUsersStayOut
==============================================================================
