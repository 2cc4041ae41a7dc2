------------------------------ MODULE RateLimiter ------------------------------
(***************************************************************************)
(* The guard in front of a public orchestrator                             *)
(* (internal/orchestrator/guard.go): a counter of queries per client, in   *)
(* windows that begin with a request of the client.  The admin token,      *)
(* which keeps no state, is left out.                                      *)
(***************************************************************************)
EXTENDS FiniteSets, Functions, Naturals

CONSTANTS
  Clients,       \* addresses of clients
  RateLimit,     \* RATE_LIMIT_PER_MIN; 0 is no limit
  Window,        \* the ticks of a minute
  SweepAbove,    \* buckets from which on old ones are dropped: 10000
  Horizon        \* the last tick considered

ASSUME RateLimiterAssumption ==
  /\ {RateLimit, SweepAbove, Horizon} \subseteq Nat
  /\ Window \in Nat \ {0}

VARIABLES
  clock,
  buckets,    \* the bucket of each client that has one
  verdicts    \* how many queries of each client were served and refused, by
              \* tick (history)

limiterVars == <<clock, buckets, verdicts>>

LimiterTypeOK ==
  /\ clock \in 0 .. Horizon
  /\ DOMAIN buckets \subseteq Clients
  /\ \A c \in DOMAIN buckets : buckets[c] \in [start : Nat, count : Nat]
  /\ verdicts \in [Clients -> [0 .. Horizon -> [served : Nat, refused : Nat]]]

LimiterInit ==
  /\ clock = 0
  /\ buckets = [c \in {} |-> 0]
  /\ verdicts = [c \in Clients |-> [t \in 0 .. Horizon |-> [served |-> 0, refused |-> 0]]]

-------------------------------------------------------------------------------
OldAtAnyAge(b) == b.start < clock
Old(b) == clock - b.start >= Window

Swept ==
  IF Cardinality(DOMAIN buckets) > SweepAbove
    THEN Restrict(buckets, {c \in DOMAIN buckets : ~Old(buckets[c])})
    ELSE buckets

(* allow: the buckets after a query, and whether it may pass.              *)
Fresh(c) == c \notin DOMAIN Swept \/ Old(Swept[c])
Allowed(c) == Fresh(c) \/ Swept[c].count < RateLimit

Counted(c) ==
  [k \in DOMAIN Swept \cup {c} |->
     IF k # c THEN Swept[k]
     ELSE IF Fresh(c) THEN [start |-> clock, count |-> 1]
     ELSE IF Allowed(c) THEN [Swept[c] EXCEPT !.count = @ + 1]
     ELSE Swept[c]]

Tell(c, verdict) ==
  LET told == verdicts[c][clock]
      now == IF verdict = "served" THEN [told EXCEPT !.served = @ + 1]
                                   ELSE [told EXCEPT !.refused = @ + 1]
  IN verdicts' = [verdicts EXCEPT ![c][clock] = now]

(* A query is never an admin request: only the limiter may refuse it.      *)
ServeQuery(c) ==
  /\ IF RateLimit = 0
       THEN Tell(c, "served") /\ UNCHANGED buckets
       ELSE /\ buckets' = Counted(c)
            /\ Tell(c, IF Allowed(c) THEN "served" ELSE "refused")
  /\ UNCHANGED clock

Tick ==
  /\ clock < Horizon
  /\ clock' = clock + 1
  /\ UNCHANGED <<buckets, verdicts>>

(* At most RateLimit + 1 queries a tick are considered.                    *)
LimiterNext ==
  \/ \E c \in Clients :
       /\ verdicts[c][clock].served + verdicts[c][clock].refused <= RateLimit
       /\ ServeQuery(c)
  \/ Tick

LimiterSpec == LimiterInit /\ [][LimiterNext]_limiterVars

-------------------------------------------------------------------------------
(* Queries of a client served in the ticks first .. last.                  *)
Served(c, first, last) ==
  LET sum[t \in Nat] ==
        IF t > last THEN 0 ELSE verdicts[c][t].served + sum[t + 1]
  IN sum[first]

(* In any time of the length of a window a client is served less than      *)
(* twice its limit: two windows may touch it, but then the first began     *)
(* earlier, with a query.  One is only refused that had its limit served   *)
(* within the window before, however many others there are and whenever    *)
(* old buckets are swept (guard.go:95).                                    *)
LimitedFairly ==
  RateLimit > 0 =>
    \A c \in Clients, t \in 0 .. Horizon :
      /\ t + Window - 1 <= Horizon => Served(c, t, t + Window - 1) < 2 * RateLimit
      /\ verdicts[c][t].refused > 0 =>
           Served(c, IF t < Window THEN 0 ELSE t - Window + 1, t) >= RateLimit
===============================================================================
