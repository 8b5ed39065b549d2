------------------------------ MODULE Gateway ------------------------------
(***************************************************************************)
(* A request through the gateway: rate limiter (of which RateLimiter has   *)
(* the inside), CORS, token, role check and reverse proxy, or the health   *)
(* probe; beside it the role tables and the services behind the gateway    *)
(* change.                                                                 *)
(*                                                                         *)
(* RequireAnyRole and RequireAllRoles open a pool for each request and     *)
(* never close it; that its ping may fail is all this module keeps of it.  *)
(***************************************************************************)
EXTENDS RoleTables

CONSTANTS
  Requests,
  Services, AdminOnly,  \* the services behind it, and those for admins
  NoUser, Health

ASSUME GatewayAssumption ==
  /\ AdminOnly \subseteq Services /\ Health \notin Services
  /\ NoUser \notin Users

VARIABLES
  pc, ask, by,   \* where a request is, the service it asks for, its user
  up,            \* services that answer
  handled,       \* requests a service has worked on
  ping,          \* what the pings of a health probe have brought
  held,          \* history: requests whose user had the role meanwhile
  seenUp         \* history: services that were up during a probe

gate == <<pc, ask, by, up, handled, ping>>
vars == <<tables, gate, held, seenUp>>

Goto(k, p) == pc' = [pc EXCEPT ![k] = p]
NoPings == [s \in Services |-> "none"]

\* Requests that are over: the gateway answered them, the last ones with a 502
\* after the service was sent the request; a response was passed on, in full or
\* cut off; or a probe has its verdict
Answers == {"answered", "502", "passed", "healthy", "degraded"}
\* The client knows the status
Told == Answers \cup {"copying"}

\* What the route of a service asks of its user
MayAsk(u, s) == IF s \in AdminOnly THEN HasAllRoles(u, {"admin"})
                ELSE HasAnyRole(u, {"user", "admin"})

Init ==
  /\ RolesInit
  /\ pc = [k \in Requests |-> "idle"]
  /\ ask = [k \in Requests |-> Health]
  /\ by = [k \in Requests |-> NoUser]
  /\ up = Services
  /\ handled = {}
  /\ ping = [k \in Requests |-> NoPings]
  /\ held = {}
  /\ seenUp = [k \in Requests |-> {}]

----------------------------------------------------------------------------
\* A 204, 401, 403, 429 or 500 of a middleware ends the request, or a 502
AnswerHere(k) ==
  /\ Goto(k, "answered")
  /\ ask' = [ask EXCEPT ![k] = Health]
  /\ by' = [by EXCEPT ![k] = NoUser]

\* RateLimitMiddleware refuses it
TooManyRequests(k) ==
  /\ pc[k] = "idle"
  /\ AnswerHere(k)
  /\ UNCHANGED <<up, handled, ping>>

\* ... or lets it through; chi finds the route
Route(k, s) ==
  /\ pc[k] = "idle"
  /\ ask' = [ask EXCEPT ![k] = s]
  /\ Goto(k, "routed")
  /\ UNCHANGED <<by, up, handled, ping>>

\* OPTIONS is answered here and goes no further
CorsMiddleware(k) ==
  /\ pc[k] = "routed"
  /\ AnswerHere(k)
  /\ UNCHANGED <<up, handled, ping>>

\* A valid token names a user
JWTAuthMiddleware(k) ==
  /\ pc[k] = "routed" /\ ask[k] \in Services
  /\ \/ AnswerHere(k)
     \/ \E u \in Users : by' = [by EXCEPT ![k] = u] /\ Goto(k, "connecting")
                        /\ UNCHANGED ask
  /\ UNCHANGED <<up, handled, ping>>

\* A new pool, or the error of its ping
SetupDB(k) ==
  /\ pc[k] = "connecting"
  /\ \/ Goto(k, "checking") /\ UNCHANGED <<ask, by>>
     \/ AnswerHere(k)
  /\ UNCHANGED <<up, handled, ping>>

\* Fault: an error of the check is taken for a yes
ErrorPasses(k) ==
  /\ pc[k] = "checking"
  /\ Goto(k, "forwarding")
  /\ by' = [by EXCEPT ![k] = NoUser]
  /\ UNCHANGED <<ask, up, handled, ping>>

\* HasAnyRole or HasAllRoles over the tables of this moment; a no or an error
\* answers
CheckRoles(k) ==
  /\ pc[k] = "checking"
  /\ \/ /\ MayAsk(by[k], ask[k])
        /\ Goto(k, "forwarding")
        /\ by' = [by EXCEPT ![k] = NoUser]
        /\ UNCHANGED ask
     \/ AnswerHere(k)
  /\ UNCHANGED <<up, handled, ping>>

(* ProxyToService *)

\* The service works on it: it may begin before the body has come, and go on
\* after the gateway has given up
Serve(k) ==
  /\ pc[k] \in {"forwarding", "awaiting", "502"}
  /\ ask[k] \in up /\ k \notin handled
  /\ handled' = handled \cup {k}
  /\ UNCHANGED <<pc, ask, by, up, ping>>

ProxyMoves(k, from, to) ==
  /\ pc[k] \in from
  /\ Goto(k, to)
  /\ UNCHANGED <<ask, by, up, handled, ping>>

\* No connection, or it breaks (or the client leaves) before all is written;
\* no timeout bounds this
ProxyRefused(k) ==
  /\ pc[k] = "forwarding"
  /\ AnswerHere(k)
  /\ UNCHANGED <<up, handled, ping>>

\* The request is written, and the ResponseHeaderTimeout begins to run
ProxyWrites(k) == ProxyMoves(k, {"forwarding"}, "awaiting")

\* Fault: no ResponseHeaderTimeout, only a lost connection is an error
ConnectionLost(k) ==
  ask[k] \notin up /\ ProxyMoves(k, {"awaiting"}, "502")

\* The headers do not come within the timeout, or the connection breaks
ProxyFails(k) == ProxyMoves(k, {"awaiting"}, "502")

\* The headers have come: status and headers are passed on, and the body is
\* copied for as long as it takes
ProxyAnswers(k) ==
  k \in handled /\ ProxyMoves(k, {"forwarding", "awaiting"}, "copying")

\* ... to its end, or to a break that aborts the handler
ProxyCopies(k) ==
  /\ pc[k] = "copying"
  /\ Goto(k, "passed")
  /\ ask' = [ask EXCEPT ![k] = Health]
  /\ UNCHANGED <<by, up, handled, ping>>

----------------------------------------------------------------------------
(* /health: a goroutine per service, and a channel with room for all *)

StartPings(k) ==
  /\ pc[k] = "routed" /\ ask[k] = Health
  /\ Goto(k, "probing")
  /\ UNCHANGED <<ask, by, up, handled, ping>>

\* down is an error, a 5xx or the 3 seconds of the client
PingService(k, s) ==
  /\ pc[k] = "probing" /\ ping[k][s] = "none"
  /\ \E status \in {"up", "down"} :
       /\ status = "up" => s \in up
       /\ ping' = [ping EXCEPT ![k][s] = status]
  /\ UNCHANGED <<pc, ask, by, up, handled>>

\* Fault: the first results decide
FirstResult(k) ==
  /\ pc[k] = "probing"
  /\ \E s \in Services : ping[k][s] # "none"
  /\ Goto(k, IF \E s \in Services : ping[k][s] = "down" THEN "degraded"
             ELSE "healthy")
  /\ ping' = [ping EXCEPT ![k] = NoPings]
  /\ UNCHANGED <<ask, by, up, handled>>

GatewayHealthHandler(k) ==
  /\ pc[k] = "probing"
  /\ \A s \in Services : ping[k][s] # "none"
  /\ Goto(k, IF \A s \in Services : ping[k][s] = "up" THEN "healthy"
             ELSE "degraded")
  /\ ping' = [ping EXCEPT ![k] = NoPings]
  /\ UNCHANGED <<ask, by, up, handled>>

----------------------------------------------------------------------------
ServiceMoves(s) ==
  /\ up' = IF s \in up THEN up \ {s} ELSE up \cup {s}
  /\ UNCHANGED <<pc, ask, by, handled, ping>>

Handle(k) ==
  \/ \E s \in Services \cup {Health} : Route(k, s)
  \/ TooManyRequests(k) \/ CorsMiddleware(k) \/ JWTAuthMiddleware(k)
  \/ SetupDB(k) \/ CheckRoles(k)
  \/ ProxyRefused(k) \/ ProxyWrites(k) \/ ProxyFails(k)
  \/ ProxyAnswers(k) \/ ProxyCopies(k)
  \/ StartPings(k) \/ GatewayHealthHandler(k)
  \/ \E s \in Services : PingService(k, s)

GateNext ==
  \/ \E k \in Requests : Handle(k) \/ Serve(k)
  \/ \E s \in Services : ServiceMoves(s)

\* The history follows whatever step is taken
Watch ==
  /\ held' = held \cup {k \in Requests :
                pc'[k] \in {"connecting", "checking"} /\ MayAsk(by[k], ask[k])'}
  /\ seenUp' = [k \in Requests |-> IF pc'[k] = "probing" THEN seenUp[k] \cup up'
                                   ELSE IF pc'[k] = "healthy" THEN seenUp[k]
                                   ELSE {}]

Next ==
  /\ \/ TablesNext /\ UNCHANGED gate
     \/ GateNext /\ UNCHANGED tables
  /\ Watch

Spec == Init /\ [][Next]_vars

(***************************************************************************)
(* Fairness: goroutines run, MySQL answers, the timer of the response      *)
(* headers and those of the pings fire.  No service has to read a request, *)
(* to answer it, or to come to an end of its answer.                       *)
(***************************************************************************)
Proceed(k) ==
  /\ pc[k] \notin {"idle", "forwarding", "copying"}
  /\ Handle(k) /\ UNCHANGED tables /\ Watch

FairSpec == Spec /\ \A k \in Requests : WF_vars(Proceed(k))

----------------------------------------------------------------------------
TypeOK ==
  /\ TablesTypeOK
  /\ pc \in [Requests -> Answers \cup {"idle", "routed", "connecting",
                                       "checking", "forwarding", "awaiting",
                                       "copying", "probing"}]
  /\ ask \in [Requests -> Services \cup {Health}]
  /\ by \in [Requests -> Users \cup {NoUser}]
  /\ up \subseteq Services /\ handled \subseteq Requests
  /\ ping \in [Requests -> [Services -> {"none", "up", "down"}]]
  /\ held \subseteq Requests /\ seenUp \in [Requests -> SUBSET Services]

\* A service works on a request only if its user had, while it was being
\* checked, a role the route asks for: a token does not outlive its user's
\* role, and a check that fails lets nobody in.
OnlyWithRole == handled \subseteq held

\* The gateway calls the platform healthy only if each service was up some
\* time during the probe.
HealthyWasUp == \A k \in Requests : pc[k] = "healthy" => seenUp[k] = Services

\* Every client gets at least a status, however slow the services are and
\* whatever changes meanwhile, unless its service does not read the request:
\* once that is written, the status of the service or a 502 follows.  (The rest
\* of a body that has begun may never come; nothing bounds that.)
AllAnswered ==
  \A k \in Requests :
    pc[k] # "idle" ~> pc[k] \in Told \cup {"forwarding"}

=============================================================================
