-------------------------- MODULE RateLimiterProofs --------------------------
(***************************************************************************)
(* The sliding window of module RateLimiter, for any number of requests,   *)
(* services with any limits, and any window.                               *)
(***************************************************************************)
EXTENDS RateLimiter, FiniteSetTheorems, TLAPS

(* A request that is or was in the sorted set, as far as the request knows.*)
Added == {"expire", "exec", "admitted", "refused"}
Counted == {"add", "expire", "exec"}

(* Scores are the times of requests, and whoever renewed the expiry of the *)
(* key left it a deadline a window and a grace beyond its own time.        *)
EntriesInv ==
    /\ now > 0
    /\ \A q \in Requests :
        /\ ~At(q, "idle") => 0 < call[q].stamp /\ call[q].stamp <= now
        /\ entries[q] # 0 => ~At(q, "idle") /\ entries[q] = call[q].stamp
        /\ call[q].pc \in {"exec", "admitted", "refused"} /\ deadline # 0 =>
             deadline >= call[q].stamp + Window + Grace

(* Who had been answered when r came in adds nothing any more, so that     *)
(* what r's trim leaves is of r's window, or added since r came in.        *)
Relevant(q, r) == call[q].stamp + Window > call[r].stamp \/ q \notin answered[r]

AnsweredInv ==
    /\ \A r \in Requests : \A q \in answered[r] : call[q].pc \in Answers
    /\ \A r, q \in Requests : At(r, "count") /\ entries[q] # 0 => Relevant(q, r)

(* The deadline that a request in the middle of its pipeline has found is  *)
(* beyond its own timeout, or beyond that of another request, which has    *)
(* yet to send its EXPIRE: the key cannot go before.                       *)
Covered(q) ==
    \/ deadline = 0
    \/ deadline > call[q].stamp + Grace
    \/ \E x \in Requests : At(x, "expire") /\ deadline > call[x].stamp + Grace

CalmInv ==
    \A q \in Requests :
        /\ entries[q] # 0 => call[q].pc \in Added
        /\ call[q].pc \in Added /\ call[q].stamp + Window > now => entries[q] # 0
        /\ call[q].pc \in {"count", "add", "expire"} => Covered(q)

(* What a request counted bounds who was admitted, from above while no     *)
(* pipeline has broken, and who is a rival, from below.                    *)
AdmittedInv ==
    \A r \in Requests :
        /\ call[r].pc \in Counted => Cardinality(admitted[r]) <= call[r].count
        /\ At(r, "admitted") => Cardinality(admitted[r]) < Limit[call[r].service]

RivalsInv ==
    \A r \in Requests :
        /\ call[r].pc \in Counted => call[r].count <= Cardinality(Rivals(r))
        /\ At(r, "refused") => Limit[call[r].service] <= Cardinality(Rivals(r))

Inv ==
    /\ TypeOK /\ EntriesInv /\ AnsweredInv /\ RivalsInv
    /\ faults = 0 => CalmInv /\ AdmittedInv

-----------------------------------------------------------------------------
(* The forms of a step of one request.                                     *)
Others(r) == \A q \in Requests : q # r => call'[q] = call[q]

LEMMA CallFields ==
    ASSUME TypeOK, NEW r \in Requests
    PROVE  /\ call[r] \in Calls /\ call[r].pc \in {"idle"} \cup Pipeline \cup Answers
           /\ call[r].service \in Services /\ call[r].stamp \in Nat /\ call[r].count \in Nat
           /\ entries[r] \in Nat /\ answered[r] \subseteq Requests /\ admitted[r] \subseteq Requests
BY DEF TypeOK, Calls

LEMMA GotoStep ==
    ASSUME TypeOK, NEW r \in Requests, NEW label \in Pipeline \cup Answers, Goto(r, label)
    PROVE  /\ call' \in [Requests -> Calls] /\ call'[r].pc = label
           /\ call'[r].service = call[r].service /\ call'[r].stamp = call[r].stamp
           /\ call'[r].count = call[r].count
           /\ Others(r)
<1>1. call'[r] = [call[r] EXCEPT !.pc = label]
    BY DEF Goto, TypeOK
<1>2. call'[r] \in Calls
    BY <1>1 DEF Calls, TypeOK
<1> QED
    BY <1>1, <1>2 DEF Goto, TypeOK, Others, Calls

LEMMA ArriveStep ==
    ASSUME TypeOK, NEW r \in Requests, NEW s \in Services, Arrive(r, s)
    PROVE  /\ call' \in [Requests -> Calls] /\ call'[r].pc = "trim"
           /\ call'[r].service = s /\ call'[r].stamp = now /\ call'[r].count = call[r].count
           /\ Others(r)
<1> DEFINE k1 == [call[r] EXCEPT !.pc = "trim"]
           k2 == [k1 EXCEPT !.service = s]
           k == [k2 EXCEPT !.stamp = now]
<1>1. call' = [call EXCEPT ![r] = k]
    BY DEF Arrive, TypeOK
<1>2. k1 \in Calls /\ k1.pc = "trim" /\ k1.count = call[r].count
    BY DEF TypeOK, Calls, Pipeline
<1> HIDE DEF k1
<1>3. k2 \in Calls /\ k2.pc = "trim" /\ k2.service = s /\ k2.count = call[r].count
    BY <1>2 DEF Calls
<1> HIDE DEF k2
<1>4. /\ k \in Calls /\ k.pc = "trim" /\ k.service = s /\ k.stamp = now
      /\ k.count = call[r].count
    BY <1>3 DEF TypeOK, Calls
<1> HIDE DEF k
<1> QED
    BY <1>1, <1>4 DEF TypeOK, Others

LEMMA CountStep ==
    ASSUME TypeOK, NEW r \in Requests, Count(r)
    PROVE  /\ call' \in [Requests -> Calls] /\ call'[r].pc = "add"
           /\ call'[r].service = call[r].service /\ call'[r].stamp = call[r].stamp
           /\ call'[r].count = Cardinality(Members)
           /\ Others(r)
<1> DEFINE n == Cardinality(Members)
           k1 == [call[r] EXCEPT !.pc = "add"]
           k == [k1 EXCEPT !.count = n]
<1>1. call' = [call EXCEPT ![r] = k]
    BY DEF Count, TypeOK
<1>2. n \in Nat
  <2>1. Members \subseteq Requests
      BY DEF Members
  <2> QED
      BY <2>1, RateAssumption, FS_Subset, FS_CardinalityType
<1> HIDE DEF n
<1>3. k1 \in Calls /\ k1.pc = "add" /\ k1.service = call[r].service /\ k1.stamp = call[r].stamp
    BY DEF TypeOK, Calls, Pipeline
<1> HIDE DEF k1
<1>4. /\ k \in Calls /\ k.pc = "add" /\ k.service = call[r].service
      /\ k.stamp = call[r].stamp /\ k.count = n
    BY <1>2, <1>3 DEF Calls
<1> HIDE DEF k
<1> QED
    BY <1>1, <1>4 DEF TypeOK, Others, n

-----------------------------------------------------------------------------
LEMMA InitInv == Init => Inv
<1> SUFFICES ASSUME Init PROVE Inv
    OBVIOUS
<1>1. Idle \in Calls /\ Idle.pc = "idle"
    BY RateAssumption DEF Idle, Calls
<1> HIDE DEF Idle
<1>2. TypeOK
    BY <1>1, RateAssumption DEF Init, TypeOK, Nothing
<1>3. EntriesInv /\ AnsweredInv /\ RivalsInv /\ CalmInv /\ AdmittedInv
    BY <1>1, RateAssumption
       DEF Init, Nothing, EntriesInv, AnsweredInv, RivalsInv, CalmInv, AdmittedInv, At,
           Added, Counted
<1> QED
    BY <1>2, <1>3 DEF Inv

-----------------------------------------------------------------------------
(* What every step of a request in its pipeline has in common.             *)
LEMMA StepFrame ==
    ASSUME TypeOK, NEW r \in Requests, Step(r)
    PROVE  /\ now' = now /\ answered' = answered /\ faults' \in {faults, faults + 1}
           /\ call' \in [Requests -> Calls] /\ Others(r)
           /\ call'[r].service = call[r].service /\ call'[r].stamp = call[r].stamp
           /\ call[r].pc \in Pipeline /\ call'[r].pc \in Pipeline \cup Answers
<1>1. CASE Trim(r)
    BY <1>1, GotoStep DEF Trim, At, Pipeline, history
<1>2. CASE Count(r)
    BY <1>2, CountStep DEF Count, At, Pipeline
<1>3. CASE Add(r)
    BY <1>3, GotoStep DEF Add, At, Pipeline, history
<1>4. CASE Expire(r)
    BY <1>4, GotoStep DEF Expire, At, Pipeline, history
<1>5. CASE Decide(r)
  <2>1. PICK label \in {"admitted", "refused"} : Goto(r, label)
      BY <1>5 DEF Decide
  <2> QED
      BY <1>5, <2>1, GotoStep DEF Decide, At, Pipeline, Answers, history
<1>6. CASE Fail(r)
    BY <1>6, GotoStep DEF Fail, Break, Answers, history
<1>7. CASE Retry(r)
    BY <1>7, GotoStep DEF Retry, Break, Pipeline, history
<1> QED
    BY <1>1, <1>2, <1>3, <1>4, <1>5, <1>6, <1>7 DEF Step

LEMMA NextTypeOK == TypeOK /\ [Next]_vars => TypeOK'
<1> SUFFICES ASSUME TypeOK, [Next]_vars PROVE TypeOK'
    OBVIOUS
<1>1. ASSUME NEW r \in Requests, Step(r) PROVE TypeOK'
  <2>1. /\ now' \in Nat /\ faults' \in Nat /\ call' \in [Requests -> Calls]
        /\ answered' \in [Requests -> SUBSET Requests]
      BY <1>1, StepFrame DEF TypeOK
  <2>2. entries' \in [Requests -> Nat] /\ deadline' \in Nat
        /\ admitted' \in [Requests -> SUBSET Requests]
    <3>1. CASE Trim(r)
        BY <3>1 DEF Trim, TypeOK, history
    <3>2. CASE Count(r)
        BY <3>2 DEF Count, TypeOK
    <3>3. CASE Add(r)
        BY <3>3, CallFields DEF Add, TypeOK, history
    <3>4. CASE Expire(r)
        BY <3>4, RateAssumption DEF Expire, TypeOK, history
    <3>5. CASE Decide(r)
        BY <3>5 DEF Decide, TypeOK, history
    <3>6. CASE Fail(r) \/ Retry(r)
        BY <3>6 DEF Fail, Retry, Break, TypeOK, history
    <3> QED
        BY <1>1, <3>1, <3>2, <3>3, <3>4, <3>5, <3>6 DEF Step
  <2> QED
      BY <2>1, <2>2 DEF TypeOK
<1>2. ASSUME NEW r \in Requests, NEW s \in Services, Arrive(r, s) PROVE TypeOK'
  <2>1. call' \in [Requests -> Calls]
      BY <1>2, ArriveStep
  <2> QED
      BY <1>2, <2>1 DEF Arrive, TypeOK
<1>3. CASE Tick
    BY <1>3 DEF Tick, TypeOK, history, Nothing
<1>4. CASE UNCHANGED vars
    BY <1>4 DEF TypeOK, vars, history
<1> QED
    BY <1>1, <1>2, <1>3, <1>4 DEF Next

-----------------------------------------------------------------------------
LEMMA StepEntriesInv ==
    ASSUME TypeOK, EntriesInv, NEW r \in Requests, Step(r)
    PROVE  EntriesInv'
<1>1. /\ now' = now /\ Others(r) /\ call'[r].stamp = call[r].stamp
      /\ call[r].pc \in Pipeline /\ call'[r].pc \in Pipeline \cup Answers
    BY StepFrame
<1>2. now \in Nat /\ deadline \in Nat
    BY DEF TypeOK
<1>3. /\ now' > 0
      /\ \A q \in Requests : ~At(q, "idle")' => 0 < call'[q].stamp /\ call'[q].stamp <= now'
    BY <1>1 DEF EntriesInv, Others, At, Pipeline, Answers
<1>4. \A q \in Requests : entries'[q] # 0 => ~At(q, "idle")' /\ entries'[q] = call'[q].stamp
  <2>1. CASE Add(r)
    <3>1. entries' = [entries EXCEPT ![r] = call[r].stamp]
        BY <2>1 DEF Add
    <3> QED
        BY <1>1, <3>1 DEF EntriesInv, Others, At, Pipeline, Answers, TypeOK
  <2>2. CASE \A q \in Requests : entries'[q] \in {0, entries[q]}
      BY <1>1, <2>2 DEF EntriesInv, Others, At, Pipeline, Answers
  <2>3. Add(r) \/ \A q \in Requests : entries'[q] \in {0, entries[q]}
      BY DEF Step, Trim, Count, Expire, Decide, Fail, Retry, Break
  <2> QED
      BY <2>1, <2>2, <2>3
<1>5. \A q \in Requests :
        call'[q].pc \in {"exec", "admitted", "refused"} /\ deadline' # 0 =>
            deadline' >= call'[q].stamp + Window + Grace
  <2>1. CASE Expire(r)
    <3>1. deadline' = 0 \/ deadline' = now + Window + Grace
        BY <2>1 DEF Expire
    <3>2. \A q \in Requests : call'[q].pc \in {"exec", "admitted", "refused"} =>
                                  call'[q].stamp <= now /\ call'[q].stamp \in Nat
        BY <1>1, <1>3, StepFrame DEF At, Calls
    <3> QED
        BY <1>2, <3>1, <3>2, RateAssumption
  <2>2. CASE deadline' \in {0, deadline} /\ (call'[r].pc \in {"exec", "admitted", "refused"}
                                             => call[r].pc = "exec")
      BY <1>1, <2>2 DEF EntriesInv, Others
  <2>3. CASE ~Expire(r)
    <3>1. CASE Trim(r)
        BY <3>1, <2>2, GotoStep DEF Trim, Pipeline
    <3>2. CASE Count(r)
        BY <3>2, <2>2, CountStep DEF Count
    <3>3. CASE Add(r)
        BY <3>3, <2>2, GotoStep DEF Add, Pipeline
    <3>4. CASE Decide(r)
        BY <3>4, <2>2 DEF Decide, At
    <3>5. CASE Fail(r)
        BY <3>5, <2>2, GotoStep DEF Fail, Break, Answers
    <3>6. CASE Retry(r)
        BY <3>6, <2>2, GotoStep DEF Retry, Break, Pipeline
    <3> QED
        BY <2>3, <3>1, <3>2, <3>3, <3>4, <3>5, <3>6 DEF Step
  <2> QED
      BY <2>1, <2>3
<1> QED
    BY <1>3, <1>4, <1>5 DEF EntriesInv

LEMMA NextEntriesInv == TypeOK /\ EntriesInv /\ [Next]_vars => EntriesInv'
<1> SUFFICES ASSUME TypeOK, EntriesInv, [Next]_vars PROVE EntriesInv'
    OBVIOUS
<1>1. ASSUME NEW r \in Requests, Step(r) PROVE EntriesInv'
    BY <1>1, StepEntriesInv
<1>2. ASSUME NEW r \in Requests, NEW s \in Services, Arrive(r, s) PROVE EntriesInv'
  <2>1. call'[r].pc = "trim" /\ call'[r].stamp = now /\ Others(r) /\ entries[r] = 0
      BY <1>2, ArriveStep DEF Arrive, EntriesInv
  <2>2. UNCHANGED <<now, entries, deadline>> /\ now \in Nat
      BY <1>2 DEF Arrive, TypeOK
  <2> QED
      BY <2>1, <2>2 DEF EntriesInv, Others, At
<1>3. CASE Tick
  <2>1. now' = now + 1 /\ call' = call /\ now \in Nat
      BY <1>3 DEF Tick, TypeOK
  <2>2. \/ \A q \in Requests : entries'[q] = 0 /\ deadline' = 0
        \/ UNCHANGED <<entries, deadline>>
      BY <1>3 DEF Tick, Nothing
  <2>3. \A q \in Requests : call[q].stamp \in Nat
      BY CallFields
  <2> QED
      BY <2>1, <2>2, <2>3 DEF EntriesInv, At
<1>4. CASE UNCHANGED vars
    BY <1>4 DEF EntriesInv, At, vars
<1> QED
    BY <1>1, <1>2, <1>3, <1>4 DEF Next
-----------------------------------------------------------------------------
LEMMA StepAnsweredInv ==
    ASSUME TypeOK, EntriesInv, AnsweredInv, NEW x \in Requests, Step(x)
    PROVE  AnsweredInv'
<1>1. /\ answered' = answered /\ Others(x) /\ call'[x].stamp = call[x].stamp
      /\ call[x].pc \in Pipeline
    BY StepFrame
<1>2. \A r, q \in Requests : q \in answered[r] => q # x
    BY <1>1 DEF AnsweredInv, Pipeline, Answers
<1>3. \A r \in Requests : \A q \in answered'[r] : call'[q].pc \in Answers
    BY <1>1, <1>2, CallFields DEF AnsweredInv, Others
<1>4. \A r, q \in Requests : Relevant(q, r) => Relevant(q, r)'
    BY <1>1 DEF Relevant, Others
<1>5. \A r, q \in Requests : At(r, "count")' /\ entries'[q] # 0 => Relevant(q, r)'
  <2>1. CASE Trim(x)
    <3>1. \A q \in Requests : entries'[q] # 0 =>
             entries[q] # 0 /\ ~Outside(entries[q], call[x].stamp)
        BY <2>1 DEF Trim
    <3>2. \A q \in Requests : entries'[q] # 0 => Relevant(q, x)
        BY <3>1, CallFields, RateAssumption DEF EntriesInv, Relevant, Outside
    <3> QED
        BY <1>1, <1>4, <3>1, <3>2 DEF AnsweredInv, Others, At
  <2>2. CASE Add(x)
    <3>1. call'[x].pc = "expire" /\ entries' = [entries EXCEPT ![x] = call[x].stamp]
        BY <2>2, GotoStep DEF Add, Pipeline
    <3>2. \A r \in Requests : Relevant(x, r)'
        BY <1>1, <1>2 DEF Relevant
    <3> QED
        BY <1>1, <1>4, <3>1, <3>2 DEF AnsweredInv, Others, At, TypeOK
  <2>3. CASE entries' = entries /\ call'[x].pc # "count"
      BY <1>1, <1>4, <2>3 DEF AnsweredInv, Others, At
  <2>4. CASE Count(x)
      BY <2>3, <2>4, CountStep DEF Count
  <2>5. CASE Expire(x)
      BY <2>3, <2>5, GotoStep DEF Expire, Pipeline
  <2>6. CASE Decide(x)
    <3>1. PICK label \in {"admitted", "refused"} : Goto(x, label)
        BY <2>6 DEF Decide
    <3> QED
        BY <2>3, <2>6, <3>1, GotoStep DEF Decide, Answers
  <2>7. CASE Fail(x) \/ Retry(x)
    <3>1. PICK label \in {"unchecked", "trim"} : Goto(x, label)
        BY <2>7 DEF Fail, Retry
    <3> QED
        BY <2>3, <2>7, <3>1, GotoStep DEF Fail, Retry, Break, Answers, Pipeline
  <2> QED
      BY <2>1, <2>2, <2>4, <2>5, <2>6, <2>7 DEF Step
<1> QED
    BY <1>3, <1>5 DEF AnsweredInv

LEMMA NextAnsweredInv == TypeOK /\ EntriesInv /\ AnsweredInv /\ [Next]_vars => AnsweredInv'
<1> SUFFICES ASSUME TypeOK, EntriesInv, AnsweredInv, [Next]_vars PROVE AnsweredInv'
    OBVIOUS
<1>1. ASSUME NEW r \in Requests, Step(r) PROVE AnsweredInv'
    BY <1>1, StepAnsweredInv
<1>2. ASSUME NEW x \in Requests, NEW s \in Services, Arrive(x, s) PROVE AnsweredInv'
  <2>1. call'[x].pc = "trim" /\ Others(x) /\ entries' = entries /\ At(x, "idle")
      BY <1>2, ArriveStep DEF Arrive
  <2>2. answered' = [answered EXCEPT ![x] = {q \in Requests : call[q].pc \in Answers}]
      BY <1>2 DEF Arrive
  <2>3. \A q \in Requests : call[q].pc \in Answers => q # x
      BY <2>1 DEF At, Answers
  <2>4. \A r \in Requests : \A q \in answered'[r] : call'[q].pc \in Answers
      BY <2>1, <2>2, <2>3, CallFields DEF AnsweredInv, Others, TypeOK
  <2>5. \A r, q \in Requests : At(r, "count")' /\ entries'[q] # 0 => Relevant(q, r)'
      BY <2>1, <2>2 DEF AnsweredInv, EntriesInv, Relevant, Others, At, TypeOK
  <2> QED
      BY <2>4, <2>5 DEF AnsweredInv
<1>3. CASE Tick
  <2>1. \A q \in Requests : entries'[q] \in {0, entries[q]}
      BY <1>3 DEF Tick, Nothing
  <2> QED
      BY <1>3, <2>1 DEF Tick, history, AnsweredInv, Relevant, At
<1>4. CASE UNCHANGED vars
    BY <1>4 DEF AnsweredInv, Relevant, At, vars, history
<1> QED
    BY <1>1, <1>2, <1>3, <1>4 DEF Next

-----------------------------------------------------------------------------
(* A rival stays one, and there is no other way for r's count to be        *)
(* explained.                                                              *)
LEMMA RivalsFinite ==
    ASSUME NEW r
    PROVE  IsFiniteSet(Rivals(r)) /\ Cardinality(Rivals(r)) \in Nat
<1>1. Rivals(r) \subseteq Requests
    BY DEF Rivals
<1> QED
    BY <1>1, RateAssumption, FS_Subset, FS_CardinalityType

LEMMA RivalsFinitePrimed ==
    ASSUME NEW r
    PROVE  IsFiniteSet(Rivals(r)') /\ Cardinality(Rivals(r)') \in Nat
<1>1. Rivals(r)' \subseteq Requests
    BY DEF Rivals
<1> QED
    BY <1>1, RateAssumption, FS_Subset, FS_CardinalityType

(* What a rival of r is rests on.                                          *)
Fixed(r) ==
    /\ faults # 0 => faults' # 0
    /\ answered'[r] = answered[r]
    /\ \A q \in Requests : ~At(q, "idle") =>
            ~At(q, "idle")' /\ call'[q].stamp = call[q].stamp

LEMMA RivalsStay ==
    ASSUME TypeOK, NEW r \in Requests, ~At(r, "idle"), [Next]_vars
    PROVE  Cardinality(Rivals(r)) <= Cardinality(Rivals(r)')
<1>1. Fixed(r)
  <2>1. ASSUME NEW x \in Requests, Step(x) PROVE Fixed(r)
      BY <2>1, StepFrame DEF Fixed, Others, At, Pipeline, Answers, TypeOK
  <2>2. ASSUME NEW x \in Requests, NEW s \in Services, Arrive(x, s) PROVE Fixed(r)
    <3>1. Others(x) /\ x # r /\ At(x, "idle")
        BY <2>2, ArriveStep DEF Arrive
    <3> QED
        BY <2>2, <3>1 DEF Fixed, Arrive, Others, At, TypeOK
  <2>3. CASE Tick \/ UNCHANGED vars
      BY <2>3 DEF Fixed, Tick, vars, history, At
  <2> QED
      BY <2>1, <2>2, <2>3 DEF Next
<1>2. ASSUME NEW q \in Rivals(r) PROVE q \in Rivals(r)'
  <2>1. q \in Requests /\ ~At(q, "idle") /\ (q # r \/ faults > 0)
      BY DEF Rivals
  <2>2. call[q].stamp + Window > call[r].stamp \/ q \notin answered[r]
      BY DEF Rivals
  <2>3. ~At(q, "idle")' /\ call'[q].stamp = call[q].stamp /\ call'[r].stamp = call[r].stamp
      BY <1>1, <2>1 DEF Fixed
  <2>4. q # r \/ faults' > 0
      BY <1>1, <2>1, NextTypeOK DEF Fixed, TypeOK
  <2> QED
      BY <1>1, <2>1, <2>2, <2>3, <2>4 DEF Fixed, Rivals
<1> QED
    BY <1>2, RivalsFinitePrimed, FS_Subset
LEMMA MembersAreRivals ==
    ASSUME Inv, NEW r \in Requests, At(r, "count")
    PROVE  /\ IsFiniteSet(Members) /\ Cardinality(Members) \in Nat
           /\ Cardinality(Members) <= Cardinality(Rivals(r))
<1>1. IsFiniteSet(Members) /\ Cardinality(Members) \in Nat
  <2>1. Members \subseteq Requests
      BY DEF Members
  <2> QED
      BY <2>1, RateAssumption, FS_Subset, FS_CardinalityType
<1>2. ASSUME NEW q \in Members PROVE q \in Rivals(r)
  <2>1. q \in Requests /\ entries[q] # 0 /\ ~At(q, "idle")
      BY DEF Members, Inv, EntriesInv
  <2>2. Relevant(q, r)
      BY <2>1 DEF Inv, AnsweredInv
  <2>3. q # r \/ faults > 0
      BY <2>1 DEF Inv, CalmInv, Added, At, TypeOK
  <2> QED
      BY <2>1, <2>2, <2>3 DEF Rivals, Relevant
<1>3. Members \subseteq Rivals(r)
    BY <1>2
<1> QED
    BY <1>1, <1>3, RivalsFinite, FS_Subset

LEMMA NextRivalsInv == Inv /\ [Next]_vars => RivalsInv'
<1> SUFFICES ASSUME Inv, [Next]_vars, NEW r \in Requests
             PROVE  /\ call'[r].pc \in Counted => call'[r].count <= Cardinality(Rivals(r)')
                    /\ call'[r].pc = "refused" =>
                         Limit[call'[r].service] <= Cardinality(Rivals(r)')
    BY DEF RivalsInv, At
<1>1. /\ TypeOK /\ call[r].count \in Nat /\ Limit[call[r].service] \in Nat
      /\ Cardinality(Rivals(r)) \in Nat /\ Cardinality(Rivals(r)') \in Nat
    BY CallFields, RivalsFinite, RivalsFinitePrimed, RateAssumption DEF Inv
<1>2. ~At(r, "idle") => Cardinality(Rivals(r)) <= Cardinality(Rivals(r)')
    BY <1>1, RivalsStay
<1>3. CASE /\ call'[r].count = call[r].count /\ call'[r].service = call[r].service
           /\ call'[r].pc \in Counted => call[r].pc \in Counted
           /\ call'[r].pc = "refused" =>
                \/ call[r].pc = "refused"
                \/ call[r].pc = "exec" /\ Limit[call[r].service] <= call[r].count
    BY <1>1, <1>2, <1>3 DEF Inv, RivalsInv, Counted, At
<1>4. CASE call'[r].pc \notin Counted \cup {"refused"}
    BY <1>4
<1>5. ASSUME NEW x \in Requests, Step(x), x # r PROVE call'[r] = call[r]
    BY <1>1, <1>5, StepFrame DEF Others
<1>6. CASE Step(r)
  <2>1. CASE Trim(r)
      BY <1>1, <1>4, <2>1, GotoStep DEF Trim, Pipeline, Counted
  <2>2. CASE Count(r)
    <3>1. Cardinality(Members) \in Nat /\ Cardinality(Members) <= Cardinality(Rivals(r))
        BY <2>2, MembersAreRivals DEF Count
    <3>2. call'[r].count = Cardinality(Members) /\ call'[r].pc = "add" /\ ~At(r, "idle")
        BY <1>1, <2>2, CountStep DEF Count, At
    <3> QED
        BY <1>1, <1>2, <3>1, <3>2
  <2>3. CASE Add(r)
      BY <1>1, <1>3, <2>3, GotoStep DEF Add, At, Pipeline, Counted
  <2>4. CASE Expire(r)
      BY <1>1, <1>3, <2>4, GotoStep DEF Expire, At, Pipeline, Counted
  <2>5. CASE Decide(r)
    <3>1. CASE call[r].count < Limit[call[r].service]
      <4>1. Goto(r, "admitted")
          BY <2>5, <3>1 DEF Decide
      <4> QED
          BY <1>1, <1>4, <4>1, GotoStep DEF Answers, Counted
    <3>2. CASE ~(call[r].count < Limit[call[r].service])
      <4>1. Goto(r, "refused")
          BY <2>5, <3>2 DEF Decide
      <4>2. call'[r].pc = "refused" /\ call'[r].count = call[r].count
            /\ call'[r].service = call[r].service
          BY <1>1, <4>1, GotoStep DEF Answers
      <4>3. call[r].pc = "exec" /\ Limit[call[r].service] <= call[r].count
          BY <1>1, <2>5, <3>2 DEF Decide, At
      <4> QED
          BY <1>3, <4>2, <4>3 DEF Counted
    <3> QED
        BY <3>1, <3>2
  <2>6. CASE Fail(r) \/ Retry(r)
    <3>1. PICK label \in {"unchecked", "trim"} : Goto(r, label)
        BY <2>6 DEF Fail, Retry
    <3> QED
        BY <1>1, <1>4, <3>1, GotoStep DEF Answers, Pipeline, Counted
  <2> QED
      BY <1>6, <2>1, <2>2, <2>3, <2>4, <2>5, <2>6 DEF Step
<1>7. ASSUME NEW x \in Requests, NEW s \in Services, Arrive(x, s)
      PROVE  call'[r] = call[r] \/ call'[r].pc = "trim"
    BY <1>1, <1>7, ArriveStep DEF Others
<1>8. CASE call'[r] = call[r]
    BY <1>3, <1>8
<1>9. CASE Tick \/ UNCHANGED vars
    BY <1>8, <1>9 DEF Tick, vars
<1> QED
    BY <1>4, <1>5, <1>6, <1>7, <1>8, <1>9 DEF Next, Counted

-----------------------------------------------------------------------------
(* While no pipeline breaks.                                               *)
LEMMA StepCalmInv ==
    ASSUME Inv, faults = 0, NEW r \in Requests, Step(r), faults' = 0
    PROVE  CalmInv'
<1>1. /\ now' = now /\ Others(r) /\ call'[r].stamp = call[r].stamp /\ TypeOK /\ CalmInv
      /\ EntriesInv
    BY StepFrame DEF Inv
<1>2. \A q \in Requests : call[q].stamp \in Nat /\ call'[q].stamp = call[q].stamp
    BY <1>1, CallFields DEF Others
<1>3. now \in Nat /\ deadline \in Nat
    BY <1>1 DEF TypeOK
<1>4. CASE Trim(r)
  <2>1. call'[r].pc = "count" /\ call[r].pc = "trim"
      BY <1>1, <1>4, GotoStep DEF Trim, Pipeline, At
  <2>2. \A q \in Requests :
          entries'[q] = IF entries[q] + Window <= call[r].stamp THEN 0 ELSE entries[q]
      BY <1>4 DEF Trim, Outside
  <2>3. call[r].stamp <= now
      BY <1>1, <2>1 DEF EntriesInv, At
  <2>4. deadline' \in {0, deadline}
      BY <1>4 DEF Trim
  <2>5. \A q \in Requests : q # r /\ Covered(q) => Covered(q)'
      BY <1>1, <1>2, <2>1, <2>4 DEF Covered, At, Others
  <2>6. Covered(r)'
    <3>1. CASE entries' = Nothing
        BY <1>4, <3>1 DEF Trim, Covered
    <3>2. ASSUME NEW x \in Requests, entries'[x] # 0 PROVE Covered(r)'
      <4>1. /\ entries[x] # 0 /\ call[x].pc \in Added /\ entries[x] = call[x].stamp
            /\ call[x].stamp + Window > call[r].stamp /\ x # r
          BY <1>1, <1>2, <2>1, <2>2, <3>2, RateAssumption DEF CalmInv, EntriesInv, Added
      <4>2. CASE At(x, "expire")
        <5>1. \/ deadline = 0
              \/ \E y \in Requests : At(y, "expire") /\ deadline > call[y].stamp + Grace
            BY <1>1, <4>2 DEF CalmInv, Covered, At
        <5> QED
            BY <1>1, <1>2, <2>1, <2>4, <5>1 DEF Covered, At, Others
      <4>3. CASE call[x].pc \in {"exec", "admitted", "refused"}
        <5>1. deadline # 0 => deadline >= call[x].stamp + Window + Grace
            BY <1>1, <4>3 DEF EntriesInv
        <5>2. deadline # 0 => deadline > call[r].stamp + Grace
            BY <1>2, <1>3, <4>1, <5>1, RateAssumption
        <5> QED
            BY <1>2, <2>4, <5>2 DEF Covered
      <4> QED
          BY <4>1, <4>2, <4>3 DEF Added, At
    <3>3. entries' \in [Requests -> Nat]
        BY <1>1, NextTypeOK DEF Next, TypeOK
    <3> QED
        BY <3>1, <3>2, <3>3 DEF Nothing
  <2>7. \A q \in Requests : entries'[q] # 0 => entries[q] # 0
      BY <2>2
  <2>8. \A q \in Requests : entries[q] # 0 /\ call[q].stamp + Window > now => entries'[q] # 0
      BY <1>1, <1>2, <1>3, <2>2, <2>3, RateAssumption DEF EntriesInv
  <2>9. \A q \in Requests : q # r => call'[q].pc = call[q].pc
      BY <1>1 DEF Others
  <2> QED
      BY <1>1, <1>2, <2>1, <2>5, <2>6, <2>7, <2>8, <2>9 DEF CalmInv, Added
<1>5. CASE Count(r)
  <2>1. call'[r].pc = "add" /\ call[r].pc = "count" /\ UNCHANGED <<entries, deadline>>
      BY <1>1, <1>5, CountStep DEF Count, At
  <2>2. \A q \in Requests : Covered(q) => Covered(q)'
      BY <1>1, <1>2, <2>1 DEF Covered, At, Others
  <2> QED
      BY <1>1, <1>2, <2>1, <2>2 DEF CalmInv, Added, Others
<1>6. CASE Add(r)
  <2>1. /\ call'[r].pc = "expire" /\ call[r].pc = "add" /\ deadline' = deadline
        /\ entries' = [entries EXCEPT ![r] = call[r].stamp]
      BY <1>1, <1>6, GotoStep DEF Add, Pipeline, At
  <2>2. call[r].stamp # 0
      BY <1>1, <2>1 DEF EntriesInv, At
  <2>3. \A q \in Requests : Covered(q) => Covered(q)'
      BY <1>1, <1>2, <2>1 DEF Covered, At, Others
  <2> QED
      BY <1>1, <1>2, <2>1, <2>2, <2>3 DEF CalmInv, Added, Others, TypeOK
<1>7. CASE Expire(r)
  <2>1. call'[r].pc = "exec" /\ call[r].pc = "expire" /\ entries' = entries
      BY <1>1, <1>7, GotoStep DEF Expire, Pipeline, At
  <2>2. deadline' = 0 \/ deadline' = now + Window + Grace
      BY <1>7 DEF Expire
  <2>3. \A q \in Requests : call[q].pc \in {"count", "add", "expire"} => call[q].stamp <= now
      BY <1>1 DEF EntriesInv, At
  <2>4. \A q \in Requests : call[q].pc \in {"count", "add", "expire"} => Covered(q)'
      BY <1>2, <1>3, <2>2, <2>3, RateAssumption DEF Covered
  <2> QED
      BY <1>1, <1>2, <2>1, <2>4 DEF CalmInv, Added, Others
<1>8. CASE Decide(r)
  <2>1. /\ call'[r].pc \in {"admitted", "refused"} /\ call[r].pc = "exec"
        /\ UNCHANGED <<entries, deadline>>
    <3>1. PICK label \in {"admitted", "refused"} : Goto(r, label)
        BY <1>8 DEF Decide
    <3> QED
        BY <1>1, <1>8, <3>1, GotoStep DEF Decide, Answers, At
  <2>2. \A q \in Requests : Covered(q) => Covered(q)'
      BY <1>1, <1>2, <2>1 DEF Covered, At, Others
  <2> QED
      BY <1>1, <1>2, <2>1, <2>2 DEF CalmInv, Added, Others
<1>9. ~Fail(r) /\ ~Retry(r)
    BY DEF Fail, Retry, Break
<1> QED
    BY <1>4, <1>5, <1>6, <1>7, <1>8, <1>9 DEF Step
LEMMA NextCalmInv == Inv /\ faults = 0 /\ [Next]_vars /\ faults' = 0 => CalmInv'
<1> SUFFICES ASSUME Inv, faults = 0, [Next]_vars, faults' = 0 PROVE CalmInv'
    OBVIOUS
<1>1. TypeOK /\ CalmInv /\ EntriesInv
    BY DEF Inv
<1>2. ASSUME NEW r \in Requests, Step(r) PROVE CalmInv'
    BY <1>2, StepCalmInv
<1>3. ASSUME NEW r \in Requests, NEW s \in Services, Arrive(r, s) PROVE CalmInv'
  <2>1. call'[r].pc = "trim" /\ Others(r) /\ At(r, "idle")
      BY <1>1, <1>3, ArriveStep DEF Arrive
  <2>2. UNCHANGED <<now, entries, deadline>>
      BY <1>3 DEF Arrive
  <2>3. \A q \in Requests : q # r /\ Covered(q) => Covered(q)'
      BY <2>1, <2>2 DEF Covered, Others, At
  <2>4. entries[r] = 0
      BY <1>1, <2>1 DEF EntriesInv
  <2> QED
      BY <1>1, <2>1, <2>2, <2>3, <2>4 DEF CalmInv, Added, Others, At
<1>4. CASE Tick
  <2>1. now' = now + 1 /\ call' = call /\ now \in Nat /\ deadline \in Nat
      BY <1>1, <1>4 DEF Tick, TypeOK
  <2>2. \A q \in Requests : call[q].stamp \in Nat
      BY <1>1, CallFields
  <2>3. CASE deadline # 0 /\ deadline <= now'
    <3>1. entries' = Nothing /\ deadline' = 0
        BY <1>4, <2>3 DEF Tick
    <3>2. ASSUME NEW q \in Requests, At(q, "expire") PROVE deadline <= call[q].stamp + Grace
      <4>1. now < call[q].stamp + Timeout
          BY <1>4, <3>2 DEF Tick, At, Pipeline
      <4> QED
          BY <2>1, <2>2, <2>3, <4>1, RateAssumption
    <3>3. ASSUME NEW q \in Requests, call[q].pc \in Added PROVE ~(call[q].stamp + Window > now')
      <4>1. CASE At(q, "expire")
        <5>1. Covered(q)
            BY <1>1, <4>1 DEF CalmInv, At
        <5> QED
            BY <2>1, <2>2, <2>3, <3>2, <4>1, <5>1, RateAssumption DEF Covered
      <4>2. CASE call[q].pc \in {"exec", "admitted", "refused"}
        <5>1. deadline >= call[q].stamp + Window + Grace
            BY <1>1, <2>3, <4>2 DEF EntriesInv
        <5> QED
            BY <2>1, <2>2, <2>3, <5>1, RateAssumption
      <4> QED
          BY <3>3, <4>1, <4>2 DEF Added, At
    <3> QED
        BY <2>1, <3>1, <3>3 DEF CalmInv, Covered, Nothing
  <2>4. CASE UNCHANGED <<entries, deadline>>
    <3>1. \A q \in Requests : Covered(q) => Covered(q)'
        BY <2>1, <2>4 DEF Covered, At
    <3>2. \A q \in Requests : call[q].stamp + Window > now' => call[q].stamp + Window > now
        BY <2>1, <2>2, RateAssumption
    <3> QED
        BY <1>1, <2>1, <2>4, <3>1, <3>2 DEF CalmInv
  <2> QED
      BY <1>4, <2>3, <2>4 DEF Tick
<1>5. CASE UNCHANGED vars
    BY <1>1, <1>5 DEF CalmInv, Covered, At, vars
<1> QED
    BY <1>2, <1>3, <1>4, <1>5 DEF Next

(* Whoever was admitted within r's window is in the sorted set when r      *)
(* counts it.                                                              *)
LEMMA CountAdmitted ==
    ASSUME Inv, faults = 0, NEW r \in Requests, Count(r)
    PROVE  Cardinality(admitted'[r]) <= Cardinality(Members)
<1> DEFINE S == {q \in Requests : At(q, "admitted") /\ call[q].stamp + Window > now}
<1>1. admitted'[r] = S
    BY DEF Count, Inv, TypeOK
<1>2. S \subseteq Members
    BY DEF Inv, CalmInv, Added, At, Members
<1>3. Members \subseteq Requests
    BY DEF Members
<1> QED
    BY <1>1, <1>2, <1>3, RateAssumption, FS_Subset

LEMMA NextAdmittedInv == Inv /\ faults = 0 /\ [Next]_vars /\ faults' = 0 => AdmittedInv'
<1> SUFFICES ASSUME Inv, faults = 0, [Next]_vars, faults' = 0, NEW r \in Requests
             PROVE  /\ call'[r].pc \in Counted => Cardinality(admitted'[r]) <= call'[r].count
                    /\ call'[r].pc = "admitted" =>
                         Cardinality(admitted'[r]) < Limit[call'[r].service]
    BY DEF AdmittedInv, At
<1>1. /\ TypeOK /\ AdmittedInv /\ call[r].count \in Nat /\ Limit[call[r].service] \in Nat
      /\ Cardinality(admitted[r]) \in Nat
  <2>1. IsFiniteSet(admitted[r])
      BY CallFields, RateAssumption, FS_Subset DEF Inv
  <2> QED
      BY <2>1, CallFields, RateAssumption, FS_CardinalityType DEF Inv
<1>2. CASE /\ call'[r].count = call[r].count /\ call'[r].service = call[r].service
           /\ admitted'[r] = admitted[r]
           /\ call'[r].pc \in Counted => call[r].pc \in Counted
           /\ call'[r].pc = "admitted" =>
                \/ call[r].pc = "admitted"
                \/ call[r].pc = "exec" /\ call[r].count < Limit[call[r].service]
    BY <1>1, <1>2 DEF AdmittedInv, Counted, At
<1>3. CASE call'[r].pc \notin Counted \cup {"admitted"}
    BY <1>3
<1>4. CASE call'[r] = call[r] /\ admitted'[r] = admitted[r]
    BY <1>2, <1>4
<1>5. ASSUME NEW x \in Requests, Step(x), x # r
      PROVE  call'[r] = call[r] /\ admitted'[r] = admitted[r]
  <2>1. call'[r] = call[r]
      BY <1>1, <1>5, StepFrame DEF Others
  <2>2. admitted'[r] = admitted[r]
      BY <1>1, <1>5 DEF TypeOK, Step, Trim, Count, Add, Expire, Decide, Fail, Retry, Break, history
  <2> QED
      BY <2>1, <2>2
<1>6. CASE Step(r)
  <2>1. CASE Trim(r)
      BY <1>1, <1>3, <2>1, GotoStep DEF Trim, Pipeline, Counted
  <2>2. CASE Count(r)
    <3>1. call'[r].count = Cardinality(Members) /\ call'[r].pc = "add"
        BY <1>1, <2>2, CountStep
    <3> QED
        BY <2>2, <3>1, CountAdmitted
  <2>3. CASE Add(r)
      BY <1>1, <1>2, <2>3, GotoStep DEF Add, At, Pipeline, Counted, history
  <2>4. CASE Expire(r)
      BY <1>1, <1>2, <2>4, GotoStep DEF Expire, At, Pipeline, Counted, history
  <2>5. CASE Decide(r)
    <3>1. CASE call[r].count < Limit[call[r].service]
      <4>1. Goto(r, "admitted") /\ call[r].pc = "exec" /\ admitted' = admitted
          BY <2>5, <3>1 DEF Decide, At, history
      <4> QED
          BY <1>1, <1>2, <3>1, <4>1, GotoStep DEF Answers, Counted
    <3>2. CASE ~(call[r].count < Limit[call[r].service])
      <4>1. Goto(r, "refused")
          BY <2>5, <3>2 DEF Decide
      <4> QED
          BY <1>1, <1>3, <4>1, GotoStep DEF Answers, Counted
    <3> QED
        BY <3>1, <3>2
  <2>6. CASE Fail(r) \/ Retry(r)
      BY <1>1, <2>6 DEF Fail, Retry, Break
  <2> QED
      BY <1>6, <2>1, <2>2, <2>3, <2>4, <2>5, <2>6 DEF Step
<1>7. ASSUME NEW x \in Requests, NEW s \in Services, Arrive(x, s)
      PROVE  \/ call'[r] = call[r] /\ admitted'[r] = admitted[r]
             \/ call'[r].pc = "trim"
    BY <1>1, <1>7, ArriveStep DEF Others, Arrive
<1>8. CASE Tick \/ UNCHANGED vars
    BY <1>4, <1>8 DEF Tick, vars, history
<1> QED
    BY <1>3, <1>4, <1>5, <1>6, <1>7, <1>8 DEF Next, Counted

-----------------------------------------------------------------------------
(* Pipelines that have broken stay counted.                                *)
LEMMA FaultsStay == TypeOK /\ [Next]_vars /\ faults' = 0 => faults = 0
<1> SUFFICES ASSUME TypeOK, [Next]_vars, faults' = 0 PROVE faults = 0
    OBVIOUS
<1>1. ASSUME NEW r \in Requests, Step(r) PROVE faults = 0
    BY <1>1, StepFrame DEF TypeOK
<1> QED
    BY <1>1 DEF Next, Arrive, Tick, vars

LEMMA InvAlways == Spec => []Inv
<1>1. Inv /\ [Next]_vars => Inv'
    BY NextTypeOK, NextEntriesInv, NextAnsweredInv, NextRivalsInv, NextCalmInv, NextAdmittedInv,
       FaultsStay DEF Inv
<1> QED
    BY <1>1, InitInv, PTL DEF Spec

(* Every variable of the limiter keeps its type.                           *)
THEOREM TypeCorrect == Spec => []TypeOK
<1>1. Inv => TypeOK
    BY DEF Inv
<1> QED
    BY <1>1, InvAlways, PTL

(* For every limit and any number of concurrent requests: while no         *)
(* pipeline breaks, a request is admitted only if fewer than the limit of  *)
(* its service had been admitted in the window before it counted.          *)
THEOREM FewerThanTheLimit == Spec => []AdmittedUnderLimit
<1>1. Inv => AdmittedUnderLimit
    BY DEF Inv, AdmittedInv, AdmittedUnderLimit
<1> QED
    BY <1>1, InvAlways, PTL

(* What a step removes from the sorted set is beyond its window by the     *)
(* clock: a trim measures it against a time already past, and the key      *)
(* expires with it only after a pipeline has broken, since until then      *)
(* CalmInv keeps who still counts in the sorted set after every tick.      *)
LEMMA StepForgetsInTime ==
    ASSUME Inv, Inv', Next, NEW r \in Requests, entries[r] # 0, entries'[r] = 0
    PROVE  entries[r] + Window <= now' \/ (faults > 0 /\ now' # now)
<1>1. /\ TypeOK /\ EntriesInv /\ now \in Nat /\ faults \in Nat
      /\ entries[r] = call[r].stamp /\ entries[r] \in Nat /\ Window \in Nat
    BY RateAssumption DEF Inv, TypeOK, EntriesInv
<1>2. ASSUME NEW x \in Requests, Step(x)
      PROVE  entries[r] + Window <= now'
  <2>1. Trim(x)
    <3>1. entries'[r] = entries[r] \/ entries' = [entries EXCEPT ![x] = call[x].stamp] \/ Trim(x)
        BY <1>2 DEF Step, Count, Add, Expire, Decide, Fail, Retry, Break
    <3>2. 0 < call[x].stamp
        BY <1>1, <1>2, StepFrame DEF EntriesInv, At, Pipeline
    <3>3. x = r => entries' # [entries EXCEPT ![x] = call[x].stamp]
        BY <1>1, <3>2 DEF TypeOK
    <3>4. x # r => entries' # [entries EXCEPT ![x] = call[x].stamp]
        BY <1>1 DEF TypeOK
    <3> QED
        BY <3>1, <3>3, <3>4
  <2>2. Outside(entries[r], call[x].stamp)
      BY <2>1 DEF Trim
  <2>3. call[x].stamp <= now /\ call[x].stamp \in Nat /\ now' = now
      BY <1>1, <1>2, StepFrame, CallFields DEF EntriesInv, At, Pipeline
  <2> QED
      BY <1>1, <2>2, <2>3 DEF Outside
<1>3. CASE Tick
  <2>1. /\ now' = now + 1 /\ now' \in Nat /\ now' # now
        /\ call' = call /\ faults' = faults
      BY <1>1, <1>3 DEF Tick
  <2>2. CASE faults = 0
    <3>1. call'[r].pc \in Added /\ ~(call'[r].stamp + Window > now')
        BY <2>1, <2>2 DEF Inv, CalmInv
    <3> QED
        BY <1>1, <2>1, <3>1
  <2> QED
      BY <1>1, <2>1, <2>2
<1>4. ~\E x \in Requests, s \in Services : Arrive(x, s)
    BY DEF Arrive
<1> QED
    BY <1>2, <1>3, <1>4 DEF Next

(* No request is forgotten by the window before its time, whoever trims    *)
(* it, unless the key goes after a pipeline has broken.                    *)
THEOREM NobodyForgottenEarly == Spec => ForgottenOnlyWhenDue
<1> DEFINE A == \A r \in Requests :
                  entries[r] # 0 /\ entries'[r] = 0
                  => entries[r] + Window <= now' \/ (faults > 0 /\ now' # now)
<1>1. Inv /\ Inv' /\ [Next]_vars => [A]_vars
    BY StepForgetsInTime
<1> QED
    BY <1>1, InvAlways, PTL DEF Spec, ForgottenOnlyWhenDue

(* Whatever breaks, a request is refused only if at least the limit of its *)
(* service of others came in within its window or while it was checked.    *)
THEOREM RefusalsHaveACause == Spec => []RefusedWithCause
<1>1. Inv => RefusedWithCause
  <2> SUFFICES ASSUME Inv, NEW r \in Requests, At(r, "refused")
               PROVE  Cardinality(Rivals(r)) >= Limit[call[r].service]
      BY DEF RefusedWithCause
  <2>1. Limit[call[r].service] <= Cardinality(Rivals(r))
      BY DEF Inv, RivalsInv
  <2>2. Limit[call[r].service] \in Nat /\ Cardinality(Rivals(r)) \in Nat
      BY CallFields, RivalsFinite, RateAssumption DEF Inv
  <2> QED
      BY <2>1, <2>2
<1> QED
    BY <1>1, InvAlways, PTL
==============================================================================
