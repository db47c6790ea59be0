----------------------------- MODULE RateLimiter -----------------------------
(***************************************************************************)
(* shared/middleware: GlobalRateLimit, the sliding window that post-,      *)
(* follow-, timeline-, admin- and notification-service put before their    *)
(* handlers.  All of them keep it in one sorted set under the same key,    *)
(* "global_rate_limit", whose members are the requests and whose scores    *)
(* are the times they came in, and each compares it with a limit of its    *)
(* own.                                                                    *)
(*                                                                         *)
(* A request trims, counts and extends the sorted set and renews its       *)
(* expiry in one pipeline, which is no transaction: the commands of other  *)
(* requests run between its own.  A request that is refused stays in the   *)
(* sorted set like one that is admitted; one whose pipeline fails is let   *)
(* through.                                                                *)
(***************************************************************************)
EXTENDS Naturals, FiniteSets

CONSTANTS
    Services,
    Limit,       \* Limit[s]: MaxRequests + Burst of service s
    Requests,
    Window,      \* length of the window (one minute)
    Grace,       \* how long the key outlives it (one minute)
    Timeout,     \* how long a pipeline may take (two seconds)
    MaxTime,     \* bound: the last moment
    MaxFaults    \* bound: pipelines that break

(* A pipeline ends sooner than the key outlives the window: two seconds,   *)
(* against a minute.                                                       *)
ASSUME RateAssumption ==
    /\ Services # {} /\ Limit \in [Services -> Nat]
    /\ IsFiniteSet(Requests)
    /\ Window \in Nat \ {0} /\ Grace \in Nat /\ Timeout \in 0 .. Grace
    /\ MaxTime \in Nat /\ MaxFaults \in Nat

VARIABLES
    now,       \* the time; it starts beyond the first window
    entries,   \* scores in the sorted set, 0 for what is not a member
    deadline,  \* when the key expires, 0 if it has no expiry
    call,      \* the requests
    faults,    \* broken pipelines so far
    answered,  \* history: answered[r]: who had been answered when r came in
    admitted   \* history: admitted[r]: who of r's window had been admitted when r counted

history == <<answered, admitted>>
vars == <<now, entries, deadline, call, faults, history>>

Idle == [pc |-> "idle", service |-> CHOOSE s \in Services : TRUE, stamp |-> 0, count |-> 0]
Pipeline == {"trim", "count", "add", "expire", "exec"}
Answers == {"admitted", "refused", "unchecked"}
Calls == [pc : {"idle"} \cup Pipeline \cup Answers,
          service : Services, stamp : Nat, count : Nat]

At(r, label) == call[r].pc = label
Goto(r, label) == call' = [call EXCEPT ![r].pc = label]

Members == {r \in Requests : entries[r] # 0}
Nothing == [r \in Requests |-> 0]

Init ==
    /\ now = Window + 1
    /\ entries = Nothing
    /\ deadline = 0
    /\ call = [r \in Requests |-> Idle]
    /\ faults = 0
    /\ answered = [r \in Requests |-> {}]
    /\ admitted = [r \in Requests |-> {}]

-----------------------------------------------------------------------------
(* checkRateLimit reads the clock once, before the pipeline. *)
Arrive(r, s) ==
    /\ At(r, "idle")
    /\ call' = [call EXCEPT ![r].pc = "trim", ![r].service = s, ![r].stamp = now]
    /\ answered' = [answered EXCEPT ![r] = {q \in Requests : call[q].pc \in Answers}]
    /\ UNCHANGED <<now, entries, deadline, faults, admitted>>

(* Mutated: the bound is exclusive. *)
OutsideExclusive(score, stamp) == score + Window < stamp

(* The scores from 0 to the start of the window, inclusive. *)
Outside(score, stamp) == score + Window <= stamp

(* ZREMRANGEBYSCORE; a sorted set that becomes empty is deleted, expiry    *)
(* and all.                                                                *)
Trim(r) ==
    /\ At(r, "trim")
    /\ entries' = [q \in Requests |-> IF Outside(entries[q], call[r].stamp)
                                      THEN 0 ELSE entries[q]]
    /\ deadline' = IF entries' = Nothing THEN 0 ELSE deadline
    /\ Goto(r, "count")
    /\ UNCHANGED <<now, faults, history>>

(* ZCARD *)
Count(r) ==
    /\ At(r, "count")
    /\ call' = [call EXCEPT ![r].pc = "add", ![r].count = Cardinality(Members)]
    /\ admitted' = [admitted EXCEPT ![r] =
                      {q \in Requests : At(q, "admitted") /\ call[q].stamp + Window > now}]
    /\ UNCHANGED <<now, entries, deadline, faults, answered>>

(* ZADD *)
Add(r) ==
    /\ At(r, "add")
    /\ entries' = [entries EXCEPT ![r] = call[r].stamp]
    /\ Goto(r, "expire")
    /\ UNCHANGED <<now, deadline, faults, history>>

(* Mutated: the expiry is set only when the key is new. *)
ExpireOnce(r) ==
    /\ At(r, "expire")
    /\ deadline' = IF Members = {} THEN 0
                   ELSE IF deadline = 0 THEN now + Window + Grace ELSE deadline
    /\ Goto(r, "exec")
    /\ UNCHANGED <<now, entries, faults, history>>

(* Mutated: the key lives for the window, without the minute beyond it. *)
ExpireWithWindow(r) ==
    /\ At(r, "expire")
    /\ deadline' = IF Members = {} THEN 0 ELSE now + Window
    /\ Goto(r, "exec")
    /\ UNCHANGED <<now, entries, faults, history>>

(* EXPIRE, which has no effect on a key that is gone. *)
Expire(r) ==
    /\ At(r, "expire")
    /\ deadline' = IF Members = {} THEN 0 ELSE now + Window + Grace
    /\ Goto(r, "exec")
    /\ UNCHANGED <<now, entries, faults, history>>

(* The replies have come. *)
Decide(r) ==
    /\ At(r, "exec")
    /\ Goto(r, IF call[r].count < Limit[call[r].service] THEN "admitted" ELSE "refused")
    /\ UNCHANGED <<now, entries, deadline, faults, history>>

Break(r) ==
    /\ call[r].pc \in Pipeline
    /\ faults < MaxFaults /\ faults' = faults + 1
    /\ UNCHANGED <<now, entries, deadline, history>>

(* The pipeline fails for good: the request is passed on unchecked ...     *)
Fail(r) == Break(r) /\ Goto(r, "unchecked")

(* ... or it is sent again, with the same commands (MaxRetries).           *)
Retry(r) == Break(r) /\ Goto(r, "trim")

(* Time passes, but not beyond the timeout of a pipeline, which must have  *)
(* failed by then; a key is gone from the moment of its expiry on.         *)
Tick ==
    /\ now < MaxTime
    /\ \A r \in Requests : call[r].pc \in Pipeline => now < call[r].stamp + Timeout
    /\ now' = now + 1
    /\ IF deadline # 0 /\ deadline <= now'
       THEN entries' = Nothing /\ deadline' = 0
       ELSE UNCHANGED <<entries, deadline>>
    /\ UNCHANGED <<call, faults, history>>

Step(r) ==
    \/ Trim(r)
    \/ Count(r)
    \/ Add(r)
    \/ Expire(r)
    \/ Decide(r)
    \/ Fail(r)
    \/ Retry(r)

Next ==
    \/ \E r \in Requests : Step(r) \/ (\E s \in Services : Arrive(r, s))
    \/ Tick

Spec == Init /\ [][Next]_vars

-----------------------------------------------------------------------------
TypeOK ==
    /\ now \in Nat /\ deadline \in Nat /\ faults \in Nat
    /\ entries \in [Requests -> Nat]
    /\ call \in [Requests -> Calls]
    /\ answered \in [Requests -> SUBSET Requests]
    /\ admitted \in [Requests -> SUBSET Requests]

(* A service admits a request only if fewer than its limit had been        *)
(* admitted, by whatever service, in the window that ends when it counts:  *)
(* no entry that still matters is lost to the trim of a request that came  *)
(* in earlier or later, or to the expiry of the key.  Requests that are in *)
(* flight together may all be admitted.  A pipeline that breaks off before *)
(* its EXPIRE leaves the key an old deadline, which can take with it what  *)
(* is added just before.                                                   *)
AdmittedUnderLimit ==
    \A r \in Requests :
        At(r, "admitted") /\ faults = 0
        => Cardinality(admitted[r]) < Limit[call[r].service]

(* A request, admitted or refused, is forgotten only when its window is    *)
(* over, whoever trims the sorted set: a request whose time was read        *)
(* earlier or later, or one of a service with another limit.  Only the     *)
(* expiry of the key can take what still counts, and only after a pipeline *)
(* has broken before its EXPIRE; while none has, a key whose deadline is   *)
(* close is renewed in time by whoever has added to it.                    *)
ForgottenOnlyWhenDue ==
    [][\A r \in Requests :
         entries[r] # 0 /\ entries'[r] = 0
         => entries[r] + Window <= now' \/ (faults > 0 /\ now' # now)]_vars

(* A service refuses a request only if at least its limit of others came   *)
(* in during the window before it, or were being checked when it came in;  *)
(* a request that was sent again counts itself.  A window of silence is    *)
(* enough to be admitted again.                                            *)
Rivals(r) ==
    {q \in Requests : /\ q # r \/ faults > 0
                      /\ ~At(q, "idle")
                      /\ call[q].stamp + Window > call[r].stamp \/ q \notin answered[r]}

RefusedWithCause ==
    \A r \in Requests :
        At(r, "refused") => Cardinality(Rivals(r)) >= Limit[call[r].service]
==============================================================================
