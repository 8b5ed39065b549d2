---------------------------- MODULE RateLimiter ----------------------------
(***************************************************************************)
(* RateLimitMiddleware of the AuthService: a map from addresses to token   *)
(* buckets, filled under a mutex, and rate.Limiter, which gives a request  *)
(* one token.  Time and tokens are counted in fractions of a second:       *)
(* a token is Tick units, and a tick of the clock brings one.              *)
(*                                                                         *)
(* A limiter is known by the request that made it.                         *)
(***************************************************************************)
EXTENDS Integers

CONSTANTS
  Requests, Addresses,
  Burst,      \* tokens of a full bucket: 5 in the code
  Tick,       \* ticks to a second; the code refills one token a second
  MaxNow,     \* bound: the clock
  NoRequest, NoAddress

ASSUME LimiterAssumption ==
  /\ Burst \in Nat \ {0} /\ Tick \in Nat \ {0} /\ MaxNow \in Nat
  /\ NoRequest \notin Requests /\ NoAddress \notin Addresses

VARIABLES
  visitors,   \* the limiter of an address
  bucket,     \* what a limiter has left, in fractions of a token
  lim,        \* where a request is in the middleware
  ip,         \* its address
  limiter,    \* the limiter getLimiter gave it
  now,
  passed,     \* history: requests of an address that were let through
  passedAt    \* history: the same, when the clock came to an instant

vars == <<visitors, bucket, lim, ip, limiter, now, passed, passedAt>>

Full == Burst * Tick
At(k, p) == lim' = [lim EXCEPT ![k] = p]

Init ==
  /\ visitors = [i \in Addresses |-> NoRequest]
  /\ bucket = [k \in Requests |-> Full]
  /\ lim = [k \in Requests |-> "none"]
  /\ ip = [k \in Requests |-> NoAddress]
  /\ limiter = [k \in Requests |-> NoRequest]
  /\ now = 0
  /\ passed = [i \in Addresses |-> 0]
  /\ passedAt = [i \in Addresses |-> [t \in 0 .. MaxNow |-> 0]]

----------------------------------------------------------------------------
\* The address is what X-Forwarded-For says, or the connection's
RateLimitMiddleware(k, i) ==
  /\ lim[k] = "none"
  /\ ip' = [ip EXCEPT ![k] = i]
  /\ At(k, "arrived")
  /\ UNCHANGED <<visitors, bucket, limiter, now, passed, passedAt>>

\* Fault: the map is read and written without the mutex
UnlockedLimiter(k) ==
  /\ lim[k] = "arrived"
  /\ \/ /\ limiter[k] = NoRequest
        /\ limiter' = [limiter EXCEPT ![k] =
             IF visitors[ip[k]] = NoRequest THEN k ELSE visitors[ip[k]]]
        /\ UNCHANGED <<visitors, lim>>
     \/ /\ limiter[k] # NoRequest
        /\ visitors' = [visitors EXCEPT ![ip[k]] = limiter[k]]
        /\ At(k, "got")
        /\ UNCHANGED limiter
  /\ UNCHANGED <<bucket, ip, now, passed, passedAt>>

\* Under the mutex from the lookup to the insert
GetLimiter(k) ==
  LET mine == IF visitors[ip[k]] = NoRequest THEN k ELSE visitors[ip[k]]
  IN  /\ lim[k] = "arrived"
      /\ visitors' = [visitors EXCEPT ![ip[k]] = mine]
      /\ limiter' = [limiter EXCEPT ![k] = mine]
      /\ At(k, "got")
      /\ UNCHANGED <<bucket, ip, now, passed, passedAt>>

\* A whole token is there, and it is taken
Allow(k) ==
  /\ lim[k] = "got"
  /\ bucket[limiter[k]] >= Tick
  /\ bucket' = [bucket EXCEPT ![limiter[k]] = @ - Tick]
  /\ passed' = [passed EXCEPT ![ip[k]] = @ + 1]
  /\ At(k, "allowed")
  /\ UNCHANGED <<visitors, ip, limiter, now, passedAt>>

\* Fault: a request is refused when it takes the last token
RefuseAtLast(k) ==
  /\ lim[k] = "got"
  /\ bucket[limiter[k]] <= Tick
  /\ At(k, "denied")
  /\ UNCHANGED <<visitors, bucket, ip, limiter, now, passed, passedAt>>

\* 429
TooManyRequests(k) ==
  /\ lim[k] = "got"
  /\ bucket[limiter[k]] < Tick
  /\ At(k, "denied")
  /\ UNCHANGED <<visitors, bucket, ip, limiter, now, passed, passedAt>>

ClockTicks ==
  /\ now < MaxNow
  /\ now' = now + 1
  /\ bucket' = [k \in Requests |-> IF bucket[k] < Full THEN bucket[k] + 1
                                   ELSE Full]
  /\ passedAt' = [i \in Addresses |-> [passedAt[i] EXCEPT ![now + 1] = passed[i]]]
  /\ UNCHANGED <<visitors, lim, ip, limiter, passed>>

Limit(k) ==
  \/ \E i \in Addresses : RateLimitMiddleware(k, i)
  \/ GetLimiter(k)
  \/ Allow(k)
  \/ TooManyRequests(k)

Next == ClockTicks \/ \E k \in Requests : Limit(k)

Spec == Init /\ [][Next]_vars

----------------------------------------------------------------------------
TypeOK ==
  /\ visitors \in [Addresses -> Requests \cup {NoRequest}]
  /\ bucket \in [Requests -> 0 .. Full]
  /\ lim \in [Requests -> {"none", "arrived", "got", "allowed", "denied"}]
  /\ ip \in [Requests -> Addresses \cup {NoAddress}]
  /\ limiter \in [Requests -> Requests \cup {NoRequest}]
  /\ now \in 0 .. MaxNow
  /\ passed \in [Addresses -> Nat]
  /\ passedAt \in [Addresses -> [0 .. MaxNow -> Nat]]

\* However many requests of an address come at once, at its first request or
\* later: in no span of time are more let through than a full bucket and one
\* for each second of the span.
WithinBurst ==
  \A i \in Addresses : \A t \in 0 .. now :
    Tick * (passed[i] - passedAt[i][t]) <= Full + (now - t)

\* ... and none is refused that this bound would have had room for.
NoNeedlessRefusal ==
  [][\A k \in Requests :
       lim[k] # "denied" /\ lim'[k] = "denied" =>
         \E t \in 0 .. now :
           Tick * (passed[ip[k]] + 1 - passedAt[ip[k]][t]) > Full + (now - t)]_vars

=============================================================================
