------------------------- MODULE RateLimiterProofs -------------------------
(***************************************************************************)
(* What the limiter promises holds for every number of requests and        *)
(* addresses, every burst and every refill rate.                           *)
(*                                                                         *)
(* The bound itself is not inductive: it does not say what the bucket has  *)
(* left.  Bounded and Exact do: for the limiter of an address, the tokens  *)
(* spent since an instant and those left are never more than a full bucket *)
(* and the refill since then, and just that much since some instant.       *)
(***************************************************************************)
EXTENDS RateLimiter, TLAPS

Served == {"got", "allowed", "denied"}
Born(i) == visitors[i] # NoRequest
Spent(i, t) == Tick * (passed[i] - passedAt[i][t])

Attached ==
  \A k \in Requests :
    /\ lim[k] # "none" => ip[k] \in Addresses
    /\ lim[k] \in Served => Born(ip[k]) /\ limiter[k] = visitors[ip[k]]
    /\ lim[k] \notin Served => bucket[k] = Full

\* Two addresses never share a limiter
OwnAddress ==
  \A i \in Addresses : Born(i) =>
    lim[visitors[i]] \in Served /\ ip[visitors[i]] = i

Unborn ==
  \A i \in Addresses : ~ Born(i) =>
    passed[i] = 0 /\ \A t \in 0 .. MaxNow : passedAt[i][t] = 0

Bounded ==
  \A i \in Addresses : Born(i) =>
    \A t \in 0 .. now : Spent(i, t) + bucket[visitors[i]] <= Full + (now - t)

Exact ==
  \A i \in Addresses : Born(i) =>
    \E t \in 0 .. now : Spent(i, t) + bucket[visitors[i]] = Full + (now - t)

LimInv == TypeOK /\ Attached /\ OwnAddress /\ Unborn /\ Bounded /\ Exact

----------------------------------------------------------------------------
\* A full bucket is a whole number of ticks.
LEMMA FullType == Full \in Nat /\ Full > 0
  BY LimiterAssumption DEF Full

\* One request more costs one token more.
LEMMA OneMore ==
  ASSUME NEW d \in Int
  PROVE  Tick * (d + 1) = Tick * d + Tick /\ Tick * d \in Int
  BY LimiterAssumption

\* Nothing spent is nothing.
LEMMA NoneSpent == Tick * 0 = 0
  BY LimiterAssumption

\* The invariant holds before the first request.
LEMMA LimInitially == Init => LimInv
  <1> SUFFICES ASSUME Init PROVE LimInv
    OBVIOUS
  <1> USE LimiterAssumption, FullType
  <1>1. TypeOK
    BY DEF Init, TypeOK
  <1>2. Attached /\ OwnAddress /\ Unborn
    BY DEF Init, Attached, OwnAddress, Unborn, Born, Served
  <1>3. Bounded /\ Exact
    BY DEF Init, Bounded, Exact, Born
  <1> QED
    BY <1>1, <1>2, <1>3 DEF LimInv

\* A request arrives: the tables stay as they are.
LEMMA ArrivalKeeps ==
  ASSUME LimInv, NEW k \in Requests, NEW i \in Addresses,
         RateLimitMiddleware(k, i)
  PROVE  LimInv'
  <1> USE DEF RateLimitMiddleware, At, LimInv
  <1>1. TypeOK'
    BY DEF TypeOK
  <1>2. Attached' /\ OwnAddress'
    BY LimiterAssumption DEF TypeOK, Attached, OwnAddress, Born, Served, Full
  <1>3. Unborn' /\ Bounded' /\ Exact'
    BY DEF Unborn, Bounded, Exact, Born, Spent, Full
  <1> QED
    BY <1>1, <1>2, <1>3

\* A request is given the limiter of its address, or makes it.
LEMMA LimiterKeeps ==
  ASSUME LimInv, NEW k \in Requests, GetLimiter(k)
  PROVE  LimInv'
  <1> DEFINE a == ip[k]
             mine == IF visitors[a] = NoRequest THEN k ELSE visitors[a]
  <1>0. a \in Addresses /\ mine \in Requests /\ mine # NoRequest
    BY LimiterAssumption DEF LimInv, TypeOK, Attached, GetLimiter
  <1>a. /\ lim[k] = "arrived"
        /\ visitors' = [visitors EXCEPT ![a] = mine]
        /\ limiter' = [limiter EXCEPT ![k] = mine]
        /\ lim' = [lim EXCEPT ![k] = "got"]
        /\ UNCHANGED <<bucket, ip, now, passed, passedAt>>
    BY DEF GetLimiter, At
  <1>1. TypeOK'
    BY <1>0, <1>a DEF LimInv, TypeOK, Full
  <1>2. \A i \in Addresses : Born(i) => visitors'[i] = visitors[i]
    BY <1>0, <1>a DEF LimInv, TypeOK, Born
  <1>3. Attached'
    BY <1>0, <1>a, <1>2 DEF LimInv, TypeOK, Attached, Born, Served, Full
  <1>4. OwnAddress'
    BY <1>0, <1>a, <1>2 DEF LimInv, TypeOK, Attached, OwnAddress, Born, Served
  <1>5. Unborn'
    BY <1>0, <1>a, <1>2 DEF LimInv, TypeOK, Unborn, Born
  <1>6. ASSUME NEW i \in Addresses, Born(i)'
        PROVE  /\ \A t \in 0 .. now :
                    Spent(i, t) + bucket[visitors'[i]] <= Full + (now - t)
               /\ \E t \in 0 .. now :
                    Spent(i, t) + bucket[visitors'[i]] = Full + (now - t)
    <2>1. CASE Born(i)
      BY <2>1, <1>2 DEF LimInv, Bounded, Exact
    <2>2. CASE ~ Born(i)
      <3>1. i = a /\ visitors'[i] = k
        BY <1>6, <2>2, <1>0, <1>a DEF Born, LimInv, TypeOK
      <3>2. bucket[k] = Full
        BY <1>a DEF LimInv, Attached, Served
      <3>3. ASSUME NEW t \in 0 .. now PROVE Spent(i, t) = 0
        <4>1. t \in 0 .. MaxNow
          BY LimiterAssumption DEF LimInv, TypeOK
        <4>2. passed[i] = 0 /\ passedAt[i][t] = 0
          BY <4>1, <2>2 DEF LimInv, Unborn
        <4> QED
          BY <4>2, NoneSpent DEF Spent
      <3>4. now \in 0 .. now
        BY LimiterAssumption DEF LimInv, TypeOK
      <3> QED
        BY <3>1, <3>2, <3>3, <3>4, FullType, LimiterAssumption
          DEF LimInv, TypeOK
    <2> QED
      BY <2>1, <2>2
  <1>7. Bounded' /\ Exact'
    BY <1>6, <1>a DEF Bounded, Exact, Spent, Full, Born
  <1> QED
    BY <1>1, <1>3, <1>4, <1>5, <1>7 DEF LimInv

\* A token is taken: what is spent grows by what the bucket loses.
LEMMA AllowKeeps ==
  ASSUME LimInv, NEW k \in Requests, Allow(k)
  PROVE  LimInv'
  <1> DEFINE a == ip[k]
             l == limiter[k]
  <1>0. a \in Addresses /\ l \in Requests /\ Born(a) /\ l = visitors[a]
    BY LimiterAssumption DEF LimInv, TypeOK, Attached, Allow, Served, Born
  <1>a. /\ lim[k] = "got" /\ bucket[l] >= Tick
        /\ bucket' = [bucket EXCEPT ![l] = @ - Tick]
        /\ passed' = [passed EXCEPT ![a] = @ + 1]
        /\ lim' = [lim EXCEPT ![k] = "allowed"]
        /\ UNCHANGED <<visitors, ip, limiter, now, passedAt>>
    BY DEF Allow, At
  <1>1. TypeOK'
    <2>1. bucket[l] - Tick \in 0 .. Full
      BY <1>0, <1>a, FullType, LimiterAssumption DEF LimInv, TypeOK
    <2>2. passed[a] + 1 \in Nat
      BY <1>0 DEF LimInv, TypeOK
    <2> QED
      BY <2>1, <2>2, <1>0, <1>a DEF LimInv, TypeOK, Full
  <1>2. lim[l] \in Served
    BY <1>0 DEF LimInv, OwnAddress
  <1>3. Attached' /\ OwnAddress' /\ Unborn'
    BY <1>0, <1>a, <1>2
    DEF LimInv, TypeOK, Attached, OwnAddress, Unborn, Born, Served, Full
  <1>4. ASSUME NEW i \in Addresses, Born(i), NEW t \in 0 .. now
        PROVE  Spent(i, t)' + bucket'[visitors[i]]
                 = Spent(i, t) + bucket[visitors[i]]
    <2>0. /\ t \in 0 .. MaxNow /\ passed[i] \in Nat /\ passedAt[i][t] \in Nat
          /\ visitors[i] \in Requests
      BY <1>4, LimiterAssumption DEF LimInv, TypeOK, Born
    <2>1. CASE i = a
      <3>1. passed'[i] - passedAt[i][t] = (passed[i] - passedAt[i][t]) + 1
        <4>1. passed'[i] = passed[i] + 1
          BY <2>1, <1>0, <1>a DEF LimInv, TypeOK
        <4> QED
          BY <4>1, <2>0
      <3>2. Spent(i, t)' = Spent(i, t) + Tick /\ Spent(i, t) \in Int
        BY <3>1, <2>0, OneMore, <1>a DEF Spent
      <3>3. bucket'[visitors[i]] = bucket[visitors[i]] - Tick
        BY <2>1, <1>0, <1>a DEF LimInv, TypeOK
      <3> QED
        BY <3>2, <3>3, <2>0, FullType, LimiterAssumption DEF LimInv, TypeOK
    <2>2. CASE i # a
      <3>1. visitors[i] # l
        BY <2>2, <1>0, <1>4 DEF LimInv, OwnAddress
      <3> QED
        BY <3>1, <2>2, <2>0, <1>a DEF LimInv, TypeOK, Spent
    <2> QED
      BY <2>1, <2>2
  <1>5. Bounded' /\ Exact'
    BY <1>4, <1>a DEF LimInv, Bounded, Exact, Born, Full
  <1> QED
    BY <1>1, <1>3, <1>5 DEF LimInv

\* A refusal changes nothing but the request.
LEMMA RefusalKeeps ==
  ASSUME LimInv, NEW k \in Requests, TooManyRequests(k)
  PROVE  LimInv'
  <1> USE DEF TooManyRequests, At, LimInv
  <1>1. TypeOK'
    BY DEF TypeOK
  <1>2. Attached' /\ OwnAddress'
    BY DEF TypeOK, Attached, OwnAddress, Born, Served, Full
  <1>3. Unborn' /\ Bounded' /\ Exact'
    BY DEF Unborn, Bounded, Exact, Born, Spent, Full
  <1> QED
    BY <1>1, <1>2, <1>3

\* A tick: the right side grows by one and the bucket by one at most.
LEMMA TickKeeps ==
  ASSUME LimInv, ClockTicks
  PROVE  LimInv'
  <1>a. /\ now < MaxNow /\ now' = now + 1
        /\ bucket' = [k \in Requests |-> IF bucket[k] < Full THEN bucket[k] + 1
                                         ELSE Full]
        /\ passedAt' = [i \in Addresses |->
                          [passedAt[i] EXCEPT ![now + 1] = passed[i]]]
        /\ UNCHANGED <<visitors, lim, ip, limiter, passed>>
    BY DEF ClockTicks
  <1>0. now \in Nat /\ now + 1 \in 0 .. MaxNow
    BY <1>a, LimiterAssumption DEF LimInv, TypeOK
  <1>1. TypeOK'
    BY <1>0, <1>a, FullType, LimiterAssumption DEF LimInv, TypeOK, Full
  <1>2. Attached' /\ OwnAddress'
    BY <1>a, FullType
      DEF LimInv, TypeOK, Attached, OwnAddress, Born, Served, Full
  <1>3. Unborn'
    BY <1>0, <1>a DEF LimInv, TypeOK, Unborn, Born
  <1>4. ASSUME NEW i \in Addresses, Born(i), NEW t \in 0 .. now
        PROVE  Spent(i, t)' = Spent(i, t) /\ Spent(i, t) \in Int
    <2>1. passedAt'[i][t] = passedAt[i][t] /\ passed[i] - passedAt[i][t] \in Int
      BY <1>0, <1>a, LimiterAssumption DEF LimInv, TypeOK
    <2> QED
      BY <2>1, <1>a, OneMore DEF Spent
  <1>5. ASSUME NEW i \in Addresses, NEW t \in 0 .. MaxNow, t = now + 1
        PROVE  Spent(i, t)' = 0
    <2>1. passedAt'[i][t] = passed[i] /\ passed'[i] = passed[i]
      BY <1>0, <1>5, <1>a DEF LimInv, TypeOK
    <2>2. passed[i] \in Nat
      BY DEF LimInv, TypeOK
    <2>3. passed'[i] - passedAt'[i][t] = 0
      BY <2>1, <2>2
    <2> QED
      BY <2>3, <1>a, NoneSpent DEF Spent
  <1>6. ASSUME NEW i \in Addresses, Born(i), NEW t \in 0 .. now'
        PROVE  Spent(i, t)' + bucket'[visitors[i]] <= Full + (now' - t)
    <2>0. visitors[i] \in Requests
      BY <1>6 DEF LimInv, TypeOK, Born
    <2>1. CASE t = now + 1
      <3>1. Spent(i, t)' = 0
        BY <1>5, <2>1, <1>0
      <3>2. bucket'[visitors[i]] \in 0 .. Full
        BY <2>0, <1>1 DEF TypeOK, Full
      <3> QED
        BY <3>1, <3>2, <2>1, <1>0, <1>a, FullType
    <2>2. CASE t # now + 1
      <3>1. t \in 0 .. now
        BY <2>2, <1>0, <1>a
      <3>2. Spent(i, t) + bucket[visitors[i]] <= Full + (now - t)
        BY <3>1, <1>6 DEF LimInv, Bounded
      <3>3. bucket'[visitors[i]] <= bucket[visitors[i]] + 1
        BY <2>0, <1>a, FullType DEF LimInv, TypeOK
      <3>4. bucket'[visitors[i]] \in Int /\ bucket[visitors[i]] \in Int
        BY <2>0, <1>1, FullType DEF LimInv, TypeOK, Full
      <3> QED
        BY <3>1, <3>2, <3>3, <3>4, <1>4, <1>6, <1>0, <1>a, FullType
    <2> QED
      BY <2>1, <2>2
  <1>7. Bounded'
    BY <1>6, <1>a DEF Bounded, Born, Full
  <1>8. ASSUME NEW i \in Addresses, Born(i)
        PROVE  \E t \in 0 .. now' :
                 Spent(i, t)' + bucket'[visitors[i]] = Full + (now' - t)
    <2>0. visitors[i] \in Requests /\ bucket[visitors[i]] \in 0 .. Full
      BY <1>8 DEF LimInv, TypeOK, Born
    <2>1. CASE bucket[visitors[i]] < Full
      <3>1. PICK t \in 0 .. now :
              Spent(i, t) + bucket[visitors[i]] = Full + (now - t)
        BY <1>8 DEF LimInv, Exact
      <3>2. bucket'[visitors[i]] = bucket[visitors[i]] + 1
        BY <2>0, <2>1, <1>a
      <3>3. Spent(i, t)' = Spent(i, t) /\ Spent(i, t) \in Int
        BY <1>4, <1>8
      <3>4. t \in 0 .. now'
        BY <1>0, <1>a
      <3>5. Spent(i, t)' + bucket'[visitors[i]] = Full + (now' - t)
        BY <3>1, <3>2, <3>3, <2>0, <1>0, <1>a, FullType
      <3> QED
        BY <3>4, <3>5
    <2>2. CASE ~ bucket[visitors[i]] < Full
      <3>1. bucket'[visitors[i]] = Full
        BY <2>0, <2>2, <1>a
      <3>2. PICK t \in 0 .. MaxNow : t = now + 1
        BY <1>0
      <3>3. t \in 0 .. now' /\ now' - t = 0
        BY <3>2, <1>0, <1>a
      <3>4. Spent(i, t)' = 0
        BY <1>5, <3>2
      <3>5. Spent(i, t)' + bucket'[visitors[i]] = Full + (now' - t)
        BY <3>1, <3>3, <3>4, FullType
      <3> QED
        BY <3>3, <3>5
    <2> QED
      BY <2>1, <2>2
  <1>9. Exact'
    BY <1>8, <1>a DEF Exact, Born, Full
  <1> QED
    BY <1>1, <1>2, <1>3, <1>7, <1>9 DEF LimInv

\* The inductive invariant: buckets and counts agree at every step.
THEOREM LimInductive == Spec => []LimInv
  <1>1. LimInv /\ [Next]_vars => LimInv'
    <2> SUFFICES ASSUME LimInv, [Next]_vars PROVE LimInv'
      OBVIOUS
    <2>1. CASE UNCHANGED vars
      BY <2>1 DEF vars, LimInv, TypeOK, Attached, OwnAddress, Unborn, Bounded,
                  Exact, Born, Spent, Full
    <2>2. CASE Next
      BY <2>2, ArrivalKeeps, LimiterKeeps, AllowKeeps, RefusalKeeps, TickKeeps
      DEF Next, Limit
    <2> QED
      BY <2>1, <2>2
  <1> QED
    BY <1>1, LimInitially, PTL DEF Spec

\* Every variable keeps its type.
THEOREM LimiterTypes == Spec => []TypeOK
  <1>1. LimInv => TypeOK
    BY DEF LimInv
  <1> QED
    BY <1>1, LimInductive, PTL

\* No address is let through more often than its bucket and its refill allow.
THEOREM BurstBounded == Spec => []WithinBurst
  <1>1. ASSUME LimInv PROVE WithinBurst
    <2> SUFFICES ASSUME NEW i \in Addresses, NEW t \in 0 .. now
                 PROVE  Spent(i, t) <= Full + (now - t)
      BY DEF WithinBurst, Spent
    <2>0. t \in 0 .. MaxNow /\ now \in Nat /\ now - t \in Nat
      BY <1>1, LimiterAssumption DEF LimInv, TypeOK
    <2>1. CASE Born(i)
      <3>1. bucket[visitors[i]] \in Nat
        BY <1>1, <2>1, FullType DEF LimInv, TypeOK, Born
      <3>2. Spent(i, t) \in Int
        <4>1. passed[i] - passedAt[i][t] \in Int
          <5>1. passed[i] \in Nat /\ passedAt[i][t] \in Nat
            BY <1>1, <2>0 DEF LimInv, TypeOK
          <5> QED
            BY <5>1
        <4> QED
          BY <4>1, OneMore DEF Spent
      <3> QED
        BY <3>1, <3>2, <2>0, <2>1, <1>1, FullType DEF LimInv, Bounded
    <2>2. CASE ~ Born(i)
      BY <1>1, <2>0, <2>2, NoneSpent, FullType DEF LimInv, Unborn, Spent
    <2> QED
      BY <2>1, <2>2
  <1> QED
    BY <1>1, LimInductive, PTL

\* A refused request would have gone over the bound.
THEOREM RefusalsNeeded == Spec => NoNeedlessRefusal
  <1> DEFINE Needed(k) ==
        \E t \in 0 .. now :
          Tick * (passed[ip[k]] + 1 - passedAt[ip[k]][t]) > Full + (now - t)
  <1>1. ASSUME LimInv, [Next]_vars, NEW k \in Requests,
               lim[k] # "denied", lim'[k] = "denied"
        PROVE  Needed(k)
    <2>1. TooManyRequests(k)
      <3>1. k \in DOMAIN lim
        BY <1>1 DEF LimInv, TypeOK
      <3>2. ~ UNCHANGED lim
        BY <1>1
      <3> QED
        BY <1>1, <3>1, <3>2
        DEF Next, Limit, RateLimitMiddleware, GetLimiter, Allow,
            TooManyRequests,
            ClockTicks, At, vars
    <2>2. /\ ip[k] \in Addresses /\ Born(ip[k])
          /\ limiter[k] = visitors[ip[k]] /\ limiter[k] \in Requests
          /\ bucket[limiter[k]] < Tick /\ bucket[limiter[k]] \in Nat
      BY <1>1, <2>1, LimiterAssumption, FullType
      DEF TooManyRequests, LimInv, Attached, TypeOK, Served, Born
    <2>3. PICK t \in 0 .. now :
            Spent(ip[k], t) + bucket[visitors[ip[k]]] = Full + (now - t)
      BY <1>1, <2>2 DEF LimInv, Exact
    <2>4. /\ t \in 0 .. MaxNow /\ now \in Nat
          /\ passed[ip[k]] \in Nat /\ passedAt[ip[k]][t] \in Nat
      BY <1>1, <2>2, LimiterAssumption DEF LimInv, TypeOK
    <2>5. passed[ip[k]] + 1 - passedAt[ip[k]][t]
            = (passed[ip[k]] - passedAt[ip[k]][t]) + 1
      BY <2>4
    <2>6. /\ Tick * (passed[ip[k]] + 1 - passedAt[ip[k]][t])
               = Spent(ip[k], t) + Tick
          /\ Spent(ip[k], t) \in Int
      BY <2>4, <2>5, OneMore DEF Spent
    <2> QED
      BY <2>2, <2>3, <2>4, <2>6, FullType, LimiterAssumption
  <1>2. LimInv /\ [Next]_vars =>
          [\A k \in Requests :
             lim[k] # "denied" /\ lim'[k] = "denied" => Needed(k)]_vars
    BY <1>1
  <1> QED
    BY <1>2, LimInductive, PTL DEF Spec, NoNeedlessRefusal

=============================================================================
