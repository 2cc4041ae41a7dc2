----------------------------- MODULE PartsProofs ------------------------------
(***************************************************************************)
(* Proofs about the limiter of queries, the policies, one that runs as a   *)
(* plugin, and the pages of a persistence plugin; and that what is proved  *)
(* of each component holds of the parts together.                          *)
(***************************************************************************)
EXTENDS Parts, ControllerProofs, BackendProofs, FiniteSetTheorems,
        FunctionTheorems, SequenceTheorems, WellFoundedInduction, TLAPS

-------------------------------------------------------------------------------
(* The limiter: sums over ticks                                            *)

Ends == 0 .. Horizon + 1

(* P[n] is how many queries of the client were served before tick n, give  *)
(* or take a constant.                                                     *)
Sums(c, P) ==
  /\ P \in [Ends -> Nat]
  /\ \A n \in 0 .. Horizon : P[n + 1] = P[n] + verdicts[c][n].served
  /\ \A m, n \in Ends : m <= n => P[m] <= P[n]
  /\ \A n \in Ends : n > clock => P[n] = P[clock + 1]

Adds(f, c, last) ==
  f = [t \in Nat |-> IF t > last THEN 0 ELSE verdicts[c][t].served + f[t + 1]]

(* A set of natural numbers has a least one.                               *)
LEMMA LeastOne ==
  ASSUME NEW S \in SUBSET Nat, S # {}
  PROVE  \E j \in S : \A k \in S : j <= k
<1>1. PICK j \in S : \A k \in S : ~ (<<k, j>> \in OpToRel(<, Nat))
  BY WFMin, NatLessThanWellFounded
<1>2. \A k \in S : ~ (k < j)
  BY <1>1 DEF OpToRel
<1> QED
  BY <1>2

(* The recursive sum of the specification is a difference of two P: such a *)
(* function exists, and none else satisfies the equation.                  *)
LEMMA ServedIsDifference ==
  ASSUME LimiterTypeOK, NEW c \in Clients, NEW P, Sums(c, P),
         NEW last \in 0 .. Horizon, NEW first \in 0 .. last
  PROVE  Served(c, first, last) = P[last + 1] - P[first]
<1>1. /\ Horizon \in Nat /\ last \in Nat /\ P \in [Ends -> Nat]
      /\ \A n \in 0 .. last + 1 : n \in Ends
      /\ \A n \in 0 .. last : /\ P[n + 1] = P[n] + verdicts[c][n].served
                              /\ verdicts[c][n].served \in Nat
      /\ \A n \in 0 .. last + 1 : P[n] \in Nat
  <2>1. Horizon \in Nat /\ last \in Nat
    BY RateLimiterAssumption
  <2>2. /\ \A n \in 0 .. last + 1 : n \in Ends
        /\ \A n \in 0 .. last : n \in 0 .. Horizon
    BY <2>1 DEF Ends
  <2>3. \A n \in 0 .. Horizon : verdicts[c][n].served \in Nat
    BY DEF LimiterTypeOK
  <2> QED
    BY <2>1, <2>2, <2>3 DEF Sums
<1> DEFINE f == CHOOSE g : Adds(g, c, last)
           d == [t \in Nat |-> IF t > last THEN 0 ELSE P[last + 1] - P[t]]
<1>2. Adds(d, c, last)
  <2>1. ASSUME NEW t \in Nat, t <= last
        PROVE  d[t] = verdicts[c][t].served + d[t + 1]
    BY <1>1, <2>1
  <2>2. ASSUME NEW t \in Nat
        PROVE  d[t] = IF t > last THEN 0 ELSE verdicts[c][t].served + d[t + 1]
    BY <2>1, <2>2, <1>1
  <2> QED
    BY <2>2 DEF Adds
<1>3. Adds(f, c, last)
  BY <1>2
<1> HIDE DEF f
<1>4. /\ \A t \in Nat : t > last => f[t] = 0
      /\ \A t \in 0 .. last : f[t] = verdicts[c][t].served + f[t + 1]
  <2>1. \A t \in Nat : f[t] = IF t > last THEN 0 ELSE verdicts[c][t].served + f[t + 1]
    BY <1>3 DEF Adds
  <2>2. \A t \in 0 .. last : t \in Nat /\ ~ (t > last)
    BY <1>1
  <2> QED
    BY <2>1, <2>2
<1>5. \A t \in 0 .. last + 1 : f[t] = P[last + 1] - P[t]
  <2> DEFINE S == {k \in Nat : k <= last + 1 /\ f[last + 1 - k] # P[last + 1] - P[last + 1 - k]}
  <2>1. S = {}
    <3> SUFFICES ASSUME S # {}
                 PROVE  FALSE
      OBVIOUS
    <3>1. PICK k \in S : \A j \in S : k <= j
      BY LeastOne
    <3>2. k \in Nat /\ k <= last + 1 /\ f[last + 1 - k] # P[last + 1] - P[last + 1 - k]
      BY <3>1
    <3>3. k # 0
      BY <1>1, <1>4, <3>2
    <3> DEFINE t == last + 1 - k
    <3>4. t \in 0 .. last /\ t + 1 \in 0 .. last + 1 /\ last + 1 - (k - 1) = t + 1
      BY <1>1, <3>2, <3>3
    <3>5. f[t + 1] = P[last + 1] - P[t + 1]
      <4>1. k - 1 \in Nat /\ k - 1 <= last + 1 /\ k - 1 \notin S
        <5>1. k \in Nat /\ k <= last + 1 /\ k # 0
          BY <3>2, <3>3
        <5> HIDE DEF S
        <5>2. k - 1 \in Nat /\ k - 1 <= last + 1 /\ k - 1 < k
          BY <1>1, <5>1
        <5>3. ~ (k <= k - 1)
          BY <5>1, <5>2
        <5> QED
          BY <3>1, <5>2, <5>3
      <4> QED
        BY <3>4, <4>1
    <3>6. f[t] = P[last + 1] - P[t]
      BY <1>1, <1>4, <3>4, <3>5
    <3> QED
      BY <3>2, <3>6
  <2>2. ASSUME NEW t \in 0 .. last + 1
        PROVE  f[t] = P[last + 1] - P[t]
    <3>1. last + 1 - t \in Nat /\ last + 1 - t <= last + 1 /\ last + 1 - (last + 1 - t) = t
      BY <1>1
    <3> QED
      BY <2>1, <3>1
  <2> QED
    BY <2>2
<1>6. Served(c, first, last) = f[first]
  BY DEF Served, Adds, f
<1> QED
  BY <1>1, <1>5, <1>6

-------------------------------------------------------------------------------
(* The invariant                                                           *)

From(t) == IF t < Window THEN 0 ELSE t - Window + 1

(* The last window of a client began at tick s, with a query; nothing was  *)
(* served in it after its length, and the windows before leave less than   *)
(* the limit to any time that reaches into it.  A client without a bucket  *)
(* has had it swept.                                                       *)
Began(c, P, s) ==
  /\ P[s + 1] > P[s]
  /\ P[clock + 1] - P[s] <= RateLimit
  /\ \A t \in 0 .. s - 1 : t + Window > s => P[s] - P[t] < RateLimit
  /\ clock >= s + Window => P[clock + 1] = P[s + Window]
  /\ IF c \in DOMAIN buckets
       THEN buckets[c].start = s /\ buckets[c].count = P[clock + 1] - P[s]
       ELSE clock >= s + Window

NeverServed(c, P) == c \notin DOMAIN buckets /\ \A n \in Ends : P[n] = P[0]

Limited(c, P) ==
  /\ \A t \in 0 .. Horizon : t + Window <= Horizon + 1 => P[t + Window] - P[t] < 2 * RateLimit
  /\ \A t \in 0 .. Horizon : verdicts[c][t].refused > 0 => P[t + 1] - P[From(t)] >= RateLimit

Fair(c, P) ==
  Sums(c, P) /\ Limited(c, P) /\ (NeverServed(c, P) \/ \E s \in 0 .. clock : Began(c, P, s))

LimiterInv ==
  /\ LimiterTypeOK
  /\ RateLimit > 0 => \A c \in Clients : \E P : Fair(c, P)

LEMMA LimiterNumbers ==
  ASSUME LimiterTypeOK
  PROVE  /\ RateLimit \in Nat /\ Horizon \in Nat /\ Window \in Nat /\ Window >= 1
         /\ clock \in Nat /\ clock <= Horizon
         /\ \A n \in 0 .. clock + 1 : n \in Ends
         /\ \A n \in 0 .. Horizon : n \in Ends /\ n + 1 \in Ends /\ From(n) \in Ends
                                    /\ From(n) <= n
         /\ \A c \in Clients : \A n \in 0 .. Horizon :
              verdicts[c][n].served \in Nat /\ verdicts[c][n].refused \in Nat
<1>1. /\ RateLimit \in Nat /\ Horizon \in Nat /\ Window \in Nat /\ Window >= 1
      /\ clock \in Nat /\ clock <= Horizon
  BY RateLimiterAssumption DEF LimiterTypeOK
<1>2. \A c \in Clients : \A n \in 0 .. Horizon :
        verdicts[c][n].served \in Nat /\ verdicts[c][n].refused \in Nat
  BY DEF LimiterTypeOK
<1> QED
  BY <1>1, <1>2 DEF Ends, From

LEMMA LimiterInitially ==
  LimiterInit => LimiterInv
<1> SUFFICES ASSUME LimiterInit
             PROVE  LimiterInv
  OBVIOUS
<1>1. LimiterTypeOK
  BY RateLimiterAssumption DEF LimiterInit, LimiterTypeOK
<1>2. ASSUME NEW c \in Clients, RateLimit > 0
      PROVE  \E P : Fair(c, P)
  <2> DEFINE P == [n \in Ends |-> 0]
  <2>1. \A n \in 0 .. Horizon : verdicts[c][n].served = 0 /\ verdicts[c][n].refused = 0
    BY DEF LimiterInit
  <2>2. \A n \in Ends : P[n] = 0
    OBVIOUS
  <2>3. clock = 0 /\ DOMAIN buckets = {} /\ P \in [Ends -> Nat] /\ 0 \in Ends
    BY <1>1, LimiterNumbers DEF LimiterInit
  <2> HIDE DEF P
  <2>4. Sums(c, P)
    BY <1>1, <2>1, <2>2, <2>3, LimiterNumbers DEF Sums
  <2>5. Limited(c, P)
    <3>1. \A t \in 0 .. Horizon : t + Window <= Horizon + 1 => t + Window \in Ends
      BY <1>1, LimiterNumbers DEF Ends
    <3> QED
      BY <1>1, <1>2, <2>1, <2>2, <3>1, LimiterNumbers DEF Limited
  <2>6. NeverServed(c, P)
    BY <2>2, <2>3 DEF NeverServed
  <2> QED
    BY <2>4, <2>5, <2>6 DEF Fair
<1> QED
  BY <1>1, <1>2 DEF LimiterInv

(* What a query does to the buckets of others, and to that of its client.  *)
LEMMA SweepLeaves ==
  ASSUME LimiterTypeOK, NEW k \in DOMAIN buckets
  PROVE  IF k \in DOMAIN Swept THEN Swept[k] = buckets[k] ELSE Old(buckets[k])
  BY DEF Swept, Restrict

NewBucket(c) ==
  /\ c \in DOMAIN buckets => Old(buckets[c])
  /\ buckets'[c] = [start |-> clock, count |-> 1]
MoreInBucket(c) ==
  /\ c \in DOMAIN buckets /\ ~Old(buckets[c]) /\ buckets[c].count < RateLimit
  /\ buckets'[c] = [buckets[c] EXCEPT !.count = @ + 1]
FullBucket(c) ==
  /\ c \in DOMAIN buckets /\ ~Old(buckets[c]) /\ buckets[c].count >= RateLimit
  /\ buckets'[c] = buckets[c]

ServedOne(c) ==
  /\ verdicts'[c][clock].served = verdicts[c][clock].served + 1
  /\ \A n \in 0 .. Horizon : n # clock => verdicts'[c][n].served = verdicts[c][n].served
  /\ \A n \in 0 .. Horizon : verdicts'[c][n].refused = verdicts[c][n].refused
RefusedOne(c) ==
  /\ \A n \in 0 .. Horizon : n # clock => verdicts'[c][n].refused = verdicts[c][n].refused
  /\ \A n \in 0 .. Horizon : verdicts'[c][n].served = verdicts[c][n].served

LEMMA Telling ==
  ASSUME LimiterTypeOK, NEW c \in Clients, NEW told \in {"served", "refused"},
         Tell(c, told)
  PROVE  /\ verdicts' \in [Clients -> [0 .. Horizon -> [served : Nat, refused : Nat]]]
         /\ \A k \in Clients \ {c} : verdicts'[k] = verdicts[k]
         /\ IF told = "served" THEN ServedOne(c) ELSE RefusedOne(c)
<1> DEFINE V == [served : Nat, refused : Nat]
           r == IF told = "served"
                  THEN [verdicts[c][clock] EXCEPT !.served = @ + 1]
                  ELSE [verdicts[c][clock] EXCEPT !.refused = @ + 1]
           row == [verdicts[c] EXCEPT ![clock] = r]
<1>1. /\ verdicts \in [Clients -> [0 .. Horizon -> V]] /\ clock \in 0 .. Horizon
      /\ verdicts[c] \in [0 .. Horizon -> V] /\ verdicts[c][clock] \in V
  BY DEF LimiterTypeOK
<1>2. verdicts' = [verdicts EXCEPT ![c] = row]
  <2>1. CASE told = "served"
    BY <2>1 DEF Tell
  <2>2. CASE told = "refused"
    BY <2>2 DEF Tell
  <2> QED
    BY <2>1, <2>2
<1>3. /\ r \in V
      /\ IF told = "served"
           THEN /\ r.served = verdicts[c][clock].served + 1
                /\ r.refused = verdicts[c][clock].refused
           ELSE r.served = verdicts[c][clock].served
  BY <1>1
<1> HIDE DEF r
<1>4. /\ row \in [0 .. Horizon -> V] /\ row[clock] = r
      /\ \A n \in 0 .. Horizon : n # clock => row[n] = verdicts[c][n]
  BY <1>1, <1>3
<1> HIDE DEF row
<1>5. /\ verdicts' \in [Clients -> [0 .. Horizon -> V]] /\ verdicts'[c] = row
      /\ \A k \in Clients \ {c} : verdicts'[k] = verdicts[k]
  BY <1>1, <1>2, <1>4
<1> QED
  BY <1>1, <1>3, <1>4, <1>5 DEF ServedOne, RefusedOne

LEMMA QueryCases ==
  ASSUME LimiterTypeOK, RateLimit > 0, NEW c \in Clients, ServeQuery(c)
  PROVE  /\ clock' = clock /\ LimiterTypeOK'
         /\ \A k \in Clients \ {c} :
              /\ verdicts'[k] = verdicts[k]
              /\ k \in DOMAIN buckets' => k \in DOMAIN buckets /\ buckets'[k] = buckets[k]
              /\ k \in DOMAIN buckets /\ k \notin DOMAIN buckets' => Old(buckets[k])
         /\ c \in DOMAIN buckets'
         /\ \/ (NewBucket(c) \/ MoreInBucket(c)) /\ ServedOne(c)
            \/ FullBucket(c) /\ RefusedOne(c)
<1> DEFINE told == IF Allowed(c) THEN "served" ELSE "refused"
<1>1. /\ clock' = clock /\ buckets' = Counted(c) /\ Tell(c, told)
      /\ told \in {"served", "refused"}
  BY RateLimiterAssumption DEF ServeQuery
<1>2. /\ verdicts' \in [Clients -> [0 .. Horizon -> [served : Nat, refused : Nat]]]
      /\ \A k \in Clients \ {c} : verdicts'[k] = verdicts[k]
      /\ Allowed(c) => ServedOne(c)
      /\ ~Allowed(c) => RefusedOne(c)
  BY <1>1, Telling
<1>3. /\ DOMAIN Swept \subseteq DOMAIN buckets
      /\ \A k \in DOMAIN Swept : Swept[k] = buckets[k]
      /\ \A k \in DOMAIN buckets : k \notin DOMAIN Swept => Old(buckets[k])
  BY SweepLeaves DEF Swept, Restrict
<1>4. /\ DOMAIN buckets' = DOMAIN Swept \cup {c}
      /\ \A k \in DOMAIN Swept : k # c => buckets'[k] = Swept[k]
      /\ buckets'[c] = IF Fresh(c) THEN [start |-> clock, count |-> 1]
                       ELSE IF Allowed(c) THEN [Swept[c] EXCEPT !.count = @ + 1]
                       ELSE Swept[c]
  BY <1>1 DEF Counted
<1>5. \/ (NewBucket(c) \/ MoreInBucket(c)) /\ ServedOne(c)
      \/ FullBucket(c) /\ RefusedOne(c)
  <2>1. CASE Fresh(c)
    <3>1. NewBucket(c) /\ Allowed(c)
      BY <1>3, <1>4, <2>1 DEF Fresh, Allowed, NewBucket
    <3> QED
      BY <1>2, <3>1
  <2>2. CASE ~Fresh(c) /\ Allowed(c)
    <3>1. MoreInBucket(c)
      BY <1>3, <1>4, <2>2 DEF Fresh, Allowed, MoreInBucket
    <3> QED
      BY <1>2, <2>2, <3>1
  <2>3. CASE ~Fresh(c) /\ ~Allowed(c)
    <3>1. c \in DOMAIN buckets /\ Swept[c] = buckets[c] /\ ~Old(buckets[c])
      BY <1>3, <2>3 DEF Fresh
    <3>2. buckets[c].count \in Nat /\ RateLimit \in Nat
      BY <3>1, LimiterNumbers DEF LimiterTypeOK
    <3>3. FullBucket(c)
      BY <1>4, <2>3, <3>1, <3>2 DEF Allowed, FullBucket
    <3> QED
      BY <1>2, <2>3, <3>3
  <2> QED
    BY <2>1, <2>2, <2>3
<1>6. LimiterTypeOK'
  <2>1. \A k \in DOMAIN buckets : buckets[k] \in [start : Nat, count : Nat]
    BY DEF LimiterTypeOK
  <2>2. buckets'[c] \in [start : Nat, count : Nat]
    BY <1>5, <2>1, LimiterNumbers DEF NewBucket, MoreInBucket, FullBucket
  <2> QED
    BY <1>1, <1>2, <1>3, <1>4, <2>1, <2>2 DEF LimiterTypeOK
<1> QED
  BY <1>1, <1>2, <1>3, <1>4, <1>5, <1>6

-------------------------------------------------------------------------------
(* One query more                                                          *)

OneMore(P) == [n \in Ends |-> IF n > clock THEN P[n] + 1 ELSE P[n]]

(* A query served now leaves every window below twice the limit.           *)
Room(P) ==
  \A t \in 0 .. clock : t + Window > clock => P[clock + 1] + 1 - P[t] < 2 * RateLimit

LEMMA CountsOne ==
  ASSUME LimiterTypeOK, clock' = clock, NEW c \in Clients, ServedOne(c),
         NEW P, Sums(c, P), NEW Q, Q = OneMore(P)
  PROVE  /\ Sums(c, Q)'
         /\ \A n \in Ends : Q[n] = IF n > clock THEN P[n] + 1 ELSE P[n]
<1>1. /\ clock \in Nat /\ clock <= Horizon /\ Horizon \in Nat /\ clock + 1 \in Ends
      /\ \A n \in Ends : n \in Nat /\ P[n] \in Nat
      /\ \A n \in 0 .. Horizon : n \in Nat /\ n \in Ends /\ n + 1 \in Ends
      /\ \A n \in 0 .. Horizon : verdicts[c][n].served \in Nat
  <2>1. clock + 1 \in 0 .. clock + 1
    BY LimiterNumbers
  <2>2. \A n \in Ends : n \in Nat /\ P[n] \in Nat
    BY LimiterNumbers DEF Ends, Sums
  <2> QED
    BY <2>1, <2>2, LimiterNumbers
<1>2. \A n \in Ends : Q[n] = IF n > clock THEN P[n] + 1 ELSE P[n]
  BY DEF OneMore
<1>3. Q \in [Ends -> Nat]
  BY <1>1 DEF OneMore
<1>4. ASSUME NEW n \in 0 .. Horizon
      PROVE  Q[n + 1] = Q[n] + verdicts'[c][n].served
  <2>1. P[n + 1] = P[n] + verdicts[c][n].served
    BY DEF Sums
  <2> QED
    BY <1>1, <1>2, <2>1 DEF ServedOne
<1>5. ASSUME NEW m \in Ends, NEW n \in Ends, m <= n
      PROVE  Q[m] <= Q[n]
  <2>1. P[m] <= P[n]
    BY <1>5 DEF Sums
  <2> QED
    BY <1>1, <1>2, <1>5, <2>1
<1>6. ASSUME NEW n \in Ends, n > clock
      PROVE  Q[n] = Q[clock + 1]
  <2>1. P[n] = P[clock + 1]
    BY <1>6 DEF Sums
  <2> QED
    BY <1>1, <1>2, <1>6, <2>1
<1> QED
  BY <1>2, <1>3, <1>4, <1>5, <1>6 DEF Sums

LEMMA StaysLimited ==
  ASSUME LimiterTypeOK, clock' = clock, NEW c \in Clients, ServedOne(c),
         NEW P, Sums(c, P), Limited(c, P), Room(P), NEW Q, Q = OneMore(P)
  PROVE  Limited(c, Q)'
<1>1. /\ RateLimit \in Nat /\ clock \in Nat /\ clock <= Horizon /\ Horizon \in Nat
      /\ Window \in Nat /\ Window >= 1 /\ clock + 1 \in Ends
      /\ \A n \in Ends : n \in Nat /\ P[n] \in Nat
      /\ \A n \in 0 .. Horizon : /\ n \in Nat /\ n \in Ends /\ n + 1 \in Ends
                                 /\ From(n) \in Ends /\ From(n) <= n
  <2>1. clock + 1 \in 0 .. clock + 1
    BY LimiterNumbers
  <2>2. \A n \in Ends : n \in Nat /\ P[n] \in Nat
    BY LimiterNumbers DEF Ends, Sums
  <2> QED
    BY <2>1, <2>2, LimiterNumbers
<1>2. /\ \A n \in Ends : Q[n] = IF n > clock THEN P[n] + 1 ELSE P[n]
      /\ \A n \in Ends : n > clock => P[n] = P[clock + 1]
  BY CountsOne DEF Sums
<1>3. ASSUME NEW t \in 0 .. Horizon, t + Window <= Horizon + 1
      PROVE  Q[t + Window] - Q[t] < 2 * RateLimit
  <2>1. t + Window \in Ends /\ t \in Ends
    BY <1>1, <1>3 DEF Ends
  <2>2. P[t + Window] - P[t] < 2 * RateLimit
    BY <1>3 DEF Limited
  <2>3. CASE t + Window <= clock \/ t > clock
    BY <1>1, <1>2, <2>1, <2>2, <2>3
  <2>4. CASE t <= clock /\ t + Window > clock
    <3>1. P[clock + 1] + 1 - P[t] < 2 * RateLimit
      BY <1>1, <2>4 DEF Room
    <3> QED
      BY <1>1, <1>2, <2>1, <2>4, <3>1
  <2> QED
    BY <1>1, <2>3, <2>4
<1>4. ASSUME NEW t \in 0 .. Horizon, verdicts'[c][t].refused > 0
      PROVE  Q[t + 1] - Q[From(t)] >= RateLimit
  <2>1. P[t + 1] - P[From(t)] >= RateLimit
    BY <1>4 DEF Limited, ServedOne
  <2> QED
    BY <1>1, <1>2, <2>1
<1> QED
  BY <1>3, <1>4 DEF Limited

(* The three cases of a query.                                             *)
LEMMA FirstOfWindow ==
  ASSUME LimiterTypeOK, clock' = clock, RateLimit > 0, NEW c \in Clients,
         NewBucket(c), ServedOne(c), c \in DOMAIN buckets',
         NEW P, Fair(c, P), NEW Q, Q = OneMore(P)
  PROVE  Fair(c, Q)'
<1>1. /\ RateLimit \in Nat /\ clock \in Nat /\ clock <= Horizon /\ Horizon \in Nat
      /\ Window \in Nat /\ Window >= 1 /\ clock \in Ends /\ clock + 1 \in Ends
      /\ \A n \in Ends : n \in Nat /\ P[n] \in Nat
      /\ \A n \in 0 .. clock : n \in Nat /\ n \in Ends
      /\ Sums(c, P) /\ Limited(c, P)
      /\ \A m, n \in Ends : m <= n => P[m] <= P[n]
  <2>1. Sums(c, P) /\ Limited(c, P)
    BY DEF Fair
  <2>2. /\ \A n \in Ends : n \in Nat /\ P[n] \in Nat
        /\ \A m, n \in Ends : m <= n => P[m] <= P[n]
    <3>1. \A n \in Ends : n \in Nat
      BY LimiterNumbers DEF Ends
    <3> QED
      BY <2>1, <3>1 DEF Sums
  <2>3. /\ clock \in Ends /\ clock + 1 \in Ends
        /\ \A n \in 0 .. clock : n \in Nat /\ n \in Ends
    BY LimiterNumbers DEF Ends
  <2> QED
    BY <2>1, <2>2, <2>3, LimiterNumbers
<1>2. /\ P[clock + 1] = P[clock]
      /\ \A t \in 0 .. clock : t + Window > clock => P[clock] - P[t] < RateLimit
  <2>1. CASE NeverServed(c, P)
    BY <1>1, <2>1 DEF NeverServed
  <2>2. CASE \E s \in 0 .. clock : Began(c, P, s)
    <3>1. PICK s \in 0 .. clock : Began(c, P, s)
      BY <2>2
    <3>2. s \in Nat /\ s <= clock /\ clock >= s + Window
      BY <1>1, <3>1 DEF Began, NewBucket, Old
    <3>3. s \in Ends /\ s + 1 \in Ends /\ s + Window \in Ends
      BY <1>1, <3>2 DEF Ends
    <3>4. /\ P[clock + 1] = P[s + Window] /\ P[s + 1] > P[s]
          /\ P[clock + 1] - P[s] <= RateLimit
      BY <3>1, <3>2 DEF Began
    <3>5. P[clock + 1] = P[clock]
      <4>1. P[s + Window] <= P[clock] /\ P[clock] <= P[clock + 1]
        BY <1>1, <3>2, <3>3
      <4> QED
        BY <1>1, <3>3, <3>4, <4>1
    <3>6. ASSUME NEW t \in 0 .. clock, t + Window > clock
          PROVE  P[clock] - P[t] < RateLimit
      <4>1. s + 1 <= t
        BY <1>1, <3>2, <3>6
      <4>2. P[s + 1] <= P[t]
        BY <1>1, <3>3, <4>1
      <4> QED
        BY <1>1, <3>3, <3>4, <3>5, <4>2
    <3> QED
      BY <3>5, <3>6
  <2> QED
    BY <2>1, <2>2 DEF Fair
<1>3. /\ Sums(c, Q)'
      /\ \A n \in Ends : Q[n] = IF n > clock THEN P[n] + 1 ELSE P[n]
  BY <1>1, CountsOne
<1>4. Room(P)
  <2> SUFFICES ASSUME NEW t \in 0 .. clock, t + Window > clock
               PROVE  P[clock + 1] + 1 - P[t] < 2 * RateLimit
    BY DEF Room
  <2>1. P[clock] - P[t] < RateLimit /\ t \in Ends
    BY <1>1, <1>2
  <2> QED
    BY <1>1, <1>2, <2>1
<1>5. Limited(c, Q)'
  BY <1>1, <1>4, StaysLimited
<1>6. Began(c, Q, clock)'
  <2>1. Q[clock + 1] = P[clock] + 1 /\ Q[clock] = P[clock]
    BY <1>1, <1>2, <1>3
  <2>2. ASSUME NEW t \in 0 .. clock - 1, t + Window > clock
        PROVE  Q[clock] - Q[t] < RateLimit
    <3>1. t \in 0 .. clock /\ ~ (t > clock)
      BY <1>1
    <3> QED
      BY <1>1, <1>2, <1>3, <2>1, <2>2, <3>1
  <2>3. buckets'[c].start = clock /\ buckets'[c].count = 1
    BY DEF NewBucket
  <2> QED
    BY <1>1, <2>1, <2>2, <2>3 DEF Began
<1>7. clock' \in (0 .. clock)'
  BY <1>1
<1> QED
  BY <1>3, <1>5, <1>6, <1>7 DEF Fair

LEMMA MoreOfWindow ==
  ASSUME LimiterTypeOK, clock' = clock, RateLimit > 0, NEW c \in Clients,
         MoreInBucket(c), ServedOne(c), c \in DOMAIN buckets',
         NEW P, Fair(c, P), NEW Q, Q = OneMore(P)
  PROVE  Fair(c, Q)'
<1>1. /\ RateLimit \in Nat /\ clock \in Nat /\ clock <= Horizon /\ Horizon \in Nat
      /\ Window \in Nat /\ Window >= 1 /\ clock \in Ends /\ clock + 1 \in Ends
      /\ \A n \in Ends : n \in Nat /\ P[n] \in Nat
      /\ \A n \in 0 .. clock : n \in Nat /\ n \in Ends
      /\ Sums(c, P) /\ Limited(c, P)
      /\ \A m, n \in Ends : m <= n => P[m] <= P[n]
  <2>1. Sums(c, P) /\ Limited(c, P)
    BY DEF Fair
  <2>2. /\ \A n \in Ends : n \in Nat /\ P[n] \in Nat
        /\ \A m, n \in Ends : m <= n => P[m] <= P[n]
    <3>1. \A n \in Ends : n \in Nat
      BY LimiterNumbers DEF Ends
    <3> QED
      BY <2>1, <3>1 DEF Sums
  <2>3. /\ clock \in Ends /\ clock + 1 \in Ends
        /\ \A n \in 0 .. clock : n \in Nat /\ n \in Ends
    BY LimiterNumbers DEF Ends
  <2> QED
    BY <2>1, <2>2, <2>3, LimiterNumbers
<1>2. PICK s \in 0 .. clock : Began(c, P, s)
  BY DEF Fair, NeverServed, MoreInBucket
<1>3. s \in Nat /\ s <= clock /\ s \in Ends /\ s + 1 \in Ends
  BY <1>1 DEF Ends
<1>4. /\ buckets[c].start = s /\ buckets[c].count = P[clock + 1] - P[s]
      /\ c \in DOMAIN buckets /\ P[s + 1] > P[s]
      /\ \A t \in 0 .. s - 1 : t + Window > s => P[s] - P[t] < RateLimit
  BY <1>2 DEF Began, MoreInBucket
<1>5. clock < s + Window /\ P[clock + 1] - P[s] < RateLimit
  BY <1>1, <1>3, <1>4 DEF MoreInBucket, Old
<1>6. /\ Sums(c, Q)'
      /\ \A n \in Ends : Q[n] = IF n > clock THEN P[n] + 1 ELSE P[n]
  BY <1>1, CountsOne
<1>7. Room(P)
  <2> SUFFICES ASSUME NEW t \in 0 .. clock, t + Window > clock
               PROVE  P[clock + 1] + 1 - P[t] < 2 * RateLimit
    BY DEF Room
  <2>1. t \in Ends /\ t \in Nat
    BY <1>1
  <2>2. CASE t >= s
    <3>1. P[s] <= P[t]
      BY <1>1, <1>3, <2>1, <2>2
    <3> QED
      BY <1>1, <1>3, <1>5, <2>1, <3>1
  <2>3. CASE t < s
    <3>1. P[s] - P[t] < RateLimit
      BY <1>1, <1>3, <1>4, <2>1, <2>3
    <3> QED
      BY <1>1, <1>3, <1>5, <2>1, <3>1
  <2> QED
    BY <1>3, <2>1, <2>2, <2>3
<1>8. Limited(c, Q)'
  BY <1>1, <1>7, StaysLimited
<1>9. Began(c, Q, s)'
  <2>1. Q[s] = P[s] /\ Q[clock + 1] = P[clock + 1] + 1 /\ Q[s + 1] > Q[s]
    BY <1>1, <1>3, <1>4, <1>6
  <2>2. ASSUME NEW t \in 0 .. s - 1, t + Window > s
        PROVE  Q[s] - Q[t] < RateLimit
    <3>1. t \in 0 .. clock /\ ~ (t > clock)
      BY <1>1, <1>3
    <3> QED
      BY <1>1, <1>4, <1>6, <2>1, <2>2, <3>1
  <2>3. Q[clock + 1] - Q[s] <= RateLimit
    BY <1>1, <1>3, <1>5, <2>1
  <2>4. buckets'[c].start = s /\ buckets'[c].count = Q[clock + 1] - Q[s]
    <3>1. buckets[c] \in [start : Nat, count : Nat]
      BY <1>4 DEF LimiterTypeOK
    <3>2. buckets'[c].start = s /\ buckets'[c].count = P[clock + 1] - P[s] + 1
      BY <1>4, <3>1 DEF MoreInBucket
    <3> QED
      BY <1>1, <1>3, <2>1, <3>2
  <2>5. ~ (clock >= s + Window)
    BY <1>1, <1>3, <1>5
  <2> QED
    BY <2>1, <2>2, <2>3, <2>4, <2>5 DEF Began
<1>10. s \in (0 .. clock)'
  OBVIOUS
<1> QED
  BY <1>6, <1>8, <1>9, <1>10 DEF Fair

LEMMA RefusedInWindow ==
  ASSUME LimiterTypeOK, clock' = clock, RateLimit > 0, NEW c \in Clients,
         FullBucket(c), RefusedOne(c), c \in DOMAIN buckets', NEW P, Fair(c, P)
  PROVE  Fair(c, P)'
<1>1. /\ RateLimit \in Nat /\ clock \in Nat /\ clock <= Horizon /\ Horizon \in Nat
      /\ Window \in Nat /\ Window >= 1 /\ clock \in Ends /\ clock + 1 \in Ends
      /\ clock \in 0 .. Horizon /\ From(clock) \in Ends
      /\ \A n \in Ends : n \in Nat /\ P[n] \in Nat
      /\ \A n \in 0 .. clock : n \in Nat /\ n \in Ends
      /\ Sums(c, P) /\ Limited(c, P)
      /\ \A m, n \in Ends : m <= n => P[m] <= P[n]
  <2>1. Sums(c, P) /\ Limited(c, P)
    BY DEF Fair
  <2>2. clock \in 0 .. Horizon
    BY LimiterNumbers
  <2>3. From(clock) \in Ends
    BY <2>2, LimiterNumbers
  <2>4. /\ \A n \in Ends : n \in Nat /\ P[n] \in Nat
        /\ \A m, n \in Ends : m <= n => P[m] <= P[n]
    <3>1. \A n \in Ends : n \in Nat
      BY LimiterNumbers DEF Ends
    <3> QED
      BY <2>1, <3>1 DEF Sums
  <2>5. /\ clock \in Ends /\ clock + 1 \in Ends
        /\ \A n \in 0 .. clock : n \in Nat /\ n \in Ends
    BY LimiterNumbers DEF Ends
  <2> QED
    BY <2>1, <2>2, <2>3, <2>4, <2>5, LimiterNumbers
<1>2. PICK s \in 0 .. clock : Began(c, P, s)
  BY DEF Fair, NeverServed, FullBucket
<1>3. s \in Nat /\ s <= clock /\ s \in Ends
  BY <1>1
<1>4. /\ buckets[c].start = s /\ buckets[c].count = P[clock + 1] - P[s]
      /\ c \in DOMAIN buckets
  BY <1>2 DEF Began, FullBucket
<1>5. P[clock + 1] - P[From(clock)] >= RateLimit
  <2>1. clock < s + Window /\ P[clock + 1] - P[s] >= RateLimit
    BY <1>1, <1>3, <1>4 DEF FullBucket, Old
  <2>2. From(clock) <= s
    BY <1>1, <1>3, <2>1 DEF From
  <2>3. P[From(clock)] <= P[s]
    BY <1>1, <1>3, <2>2
  <2>4. P[From(clock)] \in Nat /\ P[s] \in Nat /\ P[clock + 1] \in Nat
    BY <1>1, <1>3
  <2> QED
    BY <1>1, <2>1, <2>3, <2>4
<1>6. Sums(c, P)'
  BY <1>1 DEF Sums, RefusedOne
<1>7. Limited(c, P)'
  BY <1>1, <1>5 DEF Limited, RefusedOne
<1>8. Began(c, P, s)'
  BY <1>2, <1>4 DEF Began, FullBucket
<1>9. s \in (0 .. clock)'
  OBVIOUS
<1> QED
  BY <1>6, <1>7, <1>8, <1>9 DEF Fair

(* What happens to a client that asked nothing.                            *)
LEMMA OthersStayFair ==
  ASSUME LimiterTypeOK, clock' = clock, NEW k \in Clients, verdicts'[k] = verdicts[k],
         k \in DOMAIN buckets' => k \in DOMAIN buckets /\ buckets'[k] = buckets[k],
         k \in DOMAIN buckets /\ k \notin DOMAIN buckets' => Old(buckets[k]),
         NEW P, Fair(k, P)
  PROVE  Fair(k, P)'
<1>1. Sums(k, P)' /\ Limited(k, P)'
  BY DEF Fair, Sums, Limited
<1>2. CASE NeverServed(k, P)
  <2>1. NeverServed(k, P)'
    BY <1>2 DEF NeverServed
  <2> QED
    BY <1>1, <2>1 DEF Fair
<1>3. CASE \E s \in 0 .. clock : Began(k, P, s)
  <2>1. PICK s \in 0 .. clock : Began(k, P, s)
    BY <1>3
  <2>2. k \in DOMAIN buckets /\ k \notin DOMAIN buckets' => clock >= s + Window
    BY <2>1, LimiterNumbers DEF Began, Old
  <2>3. Began(k, P, s)'
    BY <2>1, <2>2 DEF Began
  <2>4. s \in (0 .. clock)'
    OBVIOUS
  <2> QED
    BY <1>1, <2>3, <2>4 DEF Fair
<1> QED
  BY <1>2, <1>3 DEF Fair

LEMMA TimeStaysFair ==
  ASSUME LimiterTypeOK, Tick, NEW k \in Clients, NEW P, Fair(k, P)
  PROVE  Fair(k, P)'
<1>1. /\ clock' = clock + 1 /\ clock < Horizon /\ buckets' = buckets
      /\ verdicts' = verdicts /\ clock \in Nat /\ Horizon \in Nat
      /\ Window \in Nat
  BY LimiterNumbers DEF Tick
<1>2. Sums(k, P) /\ Limited(k, P)
  BY DEF Fair
<1>3. clock + 2 \in Ends /\ P[clock + 2] = P[clock + 1]
  BY <1>1, <1>2 DEF Ends, Sums
<1>4. Sums(k, P)'
  <2>1. \A n \in Ends : n > clock + 1 => P[n] = P[clock + 2]
    BY <1>1, <1>2, <1>3 DEF Sums, Ends
  <2>2. clock' + 1 = clock + 2
    BY <1>1
  <2> QED
    BY <1>1, <1>2, <2>1, <2>2 DEF Sums
<1>5. Limited(k, P)'
  BY <1>1, <1>2 DEF Limited
<1>6. CASE NeverServed(k, P)
  <2>1. NeverServed(k, P)'
    BY <1>1, <1>6 DEF NeverServed
  <2> QED
    BY <1>4, <1>5, <2>1 DEF Fair
<1>7. CASE \E s \in 0 .. clock : Began(k, P, s)
  <2>1. PICK s \in 0 .. clock : Began(k, P, s)
    BY <1>7
  <2>2. clock' + 1 = clock + 2 /\ s \in Nat
    BY <1>1
  <2>3. clock + 1 >= s + Window => P[clock + 2] = P[s + Window]
    <3>1. CASE clock >= s + Window
      BY <1>3, <2>1, <3>1 DEF Began
    <3>2. CASE clock + 1 = s + Window
      BY <1>3, <3>2
    <3> QED
      BY <1>1, <2>2, <3>1, <3>2
  <2>4. k \notin DOMAIN buckets => clock + 1 >= s + Window
    BY <1>1, <2>1, <2>2 DEF Began
  <2>5. Began(k, P, s)'
    BY <1>1, <1>3, <2>1, <2>2, <2>3, <2>4 DEF Began
  <2>6. s \in (0 .. clock)'
    BY <1>1
  <2> QED
    BY <1>4, <1>5, <2>5, <2>6 DEF Fair
<1> QED
  BY <1>6, <1>7 DEF Fair

-------------------------------------------------------------------------------
(* Any step                                                                *)

LEMMA QueryKeeps ==
  ASSUME LimiterInv, NEW c \in Clients, ServeQuery(c)
  PROVE  LimiterInv'
<1>1. LimiterTypeOK /\ RateLimit \in Nat
  BY LimiterNumbers DEF LimiterInv
<1>2. CASE RateLimit = 0
  <2>1. Tell(c, "served") /\ UNCHANGED <<buckets, clock>>
    BY <1>2 DEF ServeQuery
  <2>2. verdicts' \in [Clients -> [0 .. Horizon -> [served : Nat, refused : Nat]]]
    BY <1>1, <2>1, Telling
  <2>3. LimiterTypeOK'
    BY <1>1, <2>1, <2>2 DEF LimiterTypeOK
  <2> QED
    BY <1>2, <2>3 DEF LimiterInv
<1>3. CASE RateLimit > 0
  <2>1. /\ clock' = clock /\ LimiterTypeOK'
        /\ \A k \in Clients \ {c} :
             /\ verdicts'[k] = verdicts[k]
             /\ k \in DOMAIN buckets' => k \in DOMAIN buckets /\ buckets'[k] = buckets[k]
             /\ k \in DOMAIN buckets /\ k \notin DOMAIN buckets' => Old(buckets[k])
        /\ c \in DOMAIN buckets'
        /\ \/ (NewBucket(c) \/ MoreInBucket(c)) /\ ServedOne(c)
           \/ FullBucket(c) /\ RefusedOne(c)
    BY <1>1, <1>3, QueryCases
  <2>2. ASSUME NEW k \in Clients
        PROVE  \E Q : Fair(k, Q)'
    <3>1. PICK P : Fair(k, P)
      BY <1>3 DEF LimiterInv
    <3>2. CASE k # c
      <4>1. Fair(k, P)'
        BY <1>1, <2>1, <3>1, <3>2, OthersStayFair
      <4> QED
        BY <4>1
    <3>3. CASE k = c
      <4>1. PICK Q : Q = OneMore(P)
        OBVIOUS
      <4>2. CASE NewBucket(c) /\ ServedOne(c)
        <5>1. Fair(c, Q)'
          BY <1>1, <1>3, <2>1, <3>1, <3>3, <4>1, <4>2, FirstOfWindow
        <5> QED
          BY <3>3, <5>1
      <4>3. CASE MoreInBucket(c) /\ ServedOne(c)
        <5>1. Fair(c, Q)'
          BY <1>1, <1>3, <2>1, <3>1, <3>3, <4>1, <4>3, MoreOfWindow
        <5> QED
          BY <3>3, <5>1
      <4>4. CASE FullBucket(c) /\ RefusedOne(c)
        <5>1. Fair(c, P)'
          BY <1>1, <1>3, <2>1, <3>1, <3>3, <4>4, RefusedInWindow
        <5> QED
          BY <3>3, <5>1
      <4> QED
        BY <2>1, <4>2, <4>3, <4>4
    <3> QED
      BY <3>2, <3>3
  <2> QED
    BY <2>1, <2>2 DEF LimiterInv
<1> QED
  BY <1>1, <1>2, <1>3

LEMMA TickKeeps ==
  ASSUME LimiterInv, Tick
  PROVE  LimiterInv'
<1>1. LimiterTypeOK
  BY DEF LimiterInv
<1>2. LimiterTypeOK'
  BY <1>1, LimiterNumbers DEF LimiterTypeOK, Tick
<1>3. ASSUME RateLimit > 0, NEW k \in Clients
      PROVE  \E P : Fair(k, P)'
  <2>1. PICK P : Fair(k, P)
    BY <1>3 DEF LimiterInv
  <2>2. Fair(k, P)'
    BY <1>1, <2>1, TimeStaysFair
  <2> QED
    BY <2>2
<1> QED
  BY <1>2, <1>3 DEF LimiterInv

LEMMA IdleKeeps ==
  ASSUME LimiterInv, UNCHANGED limiterVars
  PROVE  LimiterInv'
<1>1. clock' = clock /\ buckets' = buckets /\ verdicts' = verdicts
  BY DEF limiterVars
<1>2. LimiterTypeOK'
  BY <1>1 DEF LimiterInv, LimiterTypeOK
<1>3. ASSUME RateLimit > 0, NEW k \in Clients
      PROVE  \E P : Fair(k, P)'
  <2>1. PICK P : Fair(k, P)
    BY <1>3 DEF LimiterInv
  <2>2. Fair(k, P)'
    BY <1>1, <1>2, <2>1, OthersStayFair DEF LimiterInv
  <2> QED
    BY <2>2
<1> QED
  BY <1>2, <1>3 DEF LimiterInv

LEMMA InvIsFair ==
  ASSUME LimiterInv
  PROVE  LimitedFairly
<1>1. LimiterTypeOK
  BY DEF LimiterInv
<1>2. ASSUME RateLimit > 0, NEW c \in Clients, NEW t \in 0 .. Horizon
      PROVE  /\ t + Window - 1 <= Horizon =>
                  Served(c, t, t + Window - 1) < 2 * RateLimit
             /\ verdicts[c][t].refused > 0 => Served(c, From(t), t) >= RateLimit
  <2>1. PICK P : Sums(c, P) /\ Limited(c, P)
    BY <1>2 DEF LimiterInv, Fair
  <2>2. /\ Window \in Nat /\ Window >= 1 /\ Horizon \in Nat /\ t \in Nat
        /\ From(t) \in 0 .. t
    BY <1>1, LimiterNumbers DEF From
  <2>3. ASSUME t + Window - 1 <= Horizon
        PROVE  Served(c, t, t + Window - 1) < 2 * RateLimit
    <3>1. /\ t + Window - 1 \in 0 .. Horizon /\ t \in 0 .. t + Window - 1
          /\ t + Window - 1 + 1 = t + Window /\ t + Window <= Horizon + 1
      BY <2>2, <2>3
    <3>2. Served(c, t, t + Window - 1) = P[t + Window - 1 + 1] - P[t]
      BY <1>1, <2>1, <3>1, ServedIsDifference
    <3>3. P[t + Window] - P[t] < 2 * RateLimit
      BY <2>1, <3>1 DEF Limited
    <3> QED
      BY <3>1, <3>2, <3>3
  <2>4. ASSUME verdicts[c][t].refused > 0
        PROVE  Served(c, From(t), t) >= RateLimit
    <3>1. Served(c, From(t), t) = P[t + 1] - P[From(t)]
      BY <1>1, <2>1, <2>2, ServedIsDifference
    <3> QED
      BY <2>1, <2>4, <3>1 DEF Limited
  <2> QED
    BY <2>3, <2>4
<1> QED
  BY <1>2 DEF LimitedFairly, From

(* Whatever the limit, the length of a window and the number of clients, a *)
(* client is served less than twice its limit in any time of a window's    *)
(* length, and one is only refused that had its limit served in the window *)
(* before: the buckets of allow, and the sweep of old ones (guard.go:95),  *)
(* neither forget a query that counts nor keep one that does not.          *)
THEOREM LimiterFair == LimiterSpec => [](LimiterTypeOK /\ LimitedFairly)
<1>1. LimiterInit => LimiterInv
  BY LimiterInitially
<1>2. LimiterInv /\ [LimiterNext]_limiterVars => LimiterInv'
  <2> SUFFICES ASSUME LimiterInv, [LimiterNext]_limiterVars
               PROVE  LimiterInv'
    OBVIOUS
  <2>1. ASSUME NEW c \in Clients, ServeQuery(c)
        PROVE  LimiterInv'
    BY <2>1, QueryKeeps
  <2>2. CASE Tick
    BY <2>2, TickKeeps
  <2>3. CASE UNCHANGED limiterVars
    BY <2>3, IdleKeeps
  <2> QED
    BY <2>1, <2>2, <2>3 DEF LimiterNext
<1>3. LimiterInv => LimiterTypeOK /\ LimitedFairly
  BY InvIsFair DEF LimiterInv
<1> QED
  BY <1>1, <1>2, <1>3, PTL DEF LimiterSpec

-------------------------------------------------------------------------------
(* Sequences                                                               *)

(* The greatest of a set of positions.                                     *)
LEMMA GreatestOne ==
  ASSUME NEW n \in Nat, NEW S \in SUBSET (1 .. n), S # {}
  PROVE  Max(S) \in S /\ \A k \in S : k <= Max(S)
<1> DEFINE T == {n - k : k \in S}
<1>1. T \in SUBSET Nat /\ T # {}
  <2>1. \A k \in 1 .. n : n - k \in Nat
    OBVIOUS
  <2> QED
    BY <2>1
<1>2. PICK j \in T : \A k \in T : j <= k
  BY <1>1, LeastOne
<1>3. PICK x \in S : j = n - x
  BY <1>2
<1>4. \A k \in S : x >= k
  <2> TAKE k \in S
  <2>1. n - x <= n - k
    BY <1>2, <1>3
  <2> QED
    BY <2>1
<1>5. \E y \in S : \A k \in S : y >= k
  BY <1>4
<1>6. Max(S) \in S /\ \A k \in S : Max(S) >= k
  BY <1>5 DEF Max
<1> QED
  BY <1>6

LEMMA FirstOne ==
  ASSUME NEW n \in Nat, NEW S \in SUBSET (1 .. n), S # {}
  PROVE  Min(S) \in S /\ \A k \in S : Min(S) <= k
<1>1. S \in SUBSET Nat
  OBVIOUS
<1>2. \E j \in S : \A k \in S : j <= k
  BY <1>1, LeastOne
<1> QED
  BY <1>2 DEF Min

(* To remove an element from a list takes out one place that has it.       *)
TakenOut(s, k, r) ==
  /\ Len(r) = Len(s) - 1
  /\ \A i \in 1 .. Len(s) - 1 : r[i] = IF i < k THEN s[i] ELSE s[i + 1]

LEMMA Removal ==
  ASSUME NEW S, NEW s \in Seq(S), NEW e
  PROVE  /\ RemoveFirst(s, e) \in Seq(S)
         /\ \/ /\ \A i \in 1 .. Len(s) : s[i] # e
               /\ RemoveFirst(s, e) = s
            \/ \E k \in 1 .. Len(s) : s[k] = e /\ TakenOut(s, k, RemoveFirst(s, e))
<1>1. Len(s) \in Nat
  BY LenProperties
<1>2. CASE \A i \in 1 .. Len(s) : s[i] # e
  BY <1>2 DEF RemoveFirst
<1>3. CASE \E i \in 1 .. Len(s) : s[i] = e
  <2> DEFINE I == {i \in 1 .. Len(s) : s[i] = e}
             k == SelectInSeq(s, LAMBDA v : v = e)
  <2>1. k = Min(I)
    BY <1>3 DEF SelectInSeq
  <2>2. k \in 1 .. Len(s) /\ s[k] = e
    <3>1. Min(I) \in I
      BY <1>1, <1>3, FirstOne
    <3> QED
      BY <2>1, <3>1
  <2>3. RemoveFirst(s, e) = SubSeq(s, 1, k - 1) \o SubSeq(s, k + 1, Len(s))
    BY <1>3 DEF RemoveFirst, RemoveAt
  <2> HIDE DEF k
  <2> DEFINE a == SubSeq(s, 1, k - 1)
             b == SubSeq(s, k + 1, Len(s))
  <2>4. a \in Seq(S) /\ Len(a) = k - 1 /\ \A i \in 1 .. k - 1 : a[i] = s[i]
    <3>1. \A i \in 1 .. k - 1 : s[i] \in S
      BY <1>1, <2>2, ElementOfSeq
    <3>2. k - 1 \in Int
      BY <2>2
    <3>3. /\ a \in Seq(S) /\ Len(a) = IF 1 <= k - 1 THEN k - 1 - 1 + 1 ELSE 0
          /\ \A i \in 1 .. k - 1 - 1 + 1 : a[i] = s[1 + i - 1]
      BY <3>1, <3>2, SubSeqProperties
    <3> QED
      BY <1>1, <2>2, <3>3
  <2>5. /\ b \in Seq(S) /\ Len(b) = Len(s) - k
        /\ \A i \in 1 .. Len(s) - k : b[i] = s[k + i]
    <3>1. \A i \in k + 1 .. Len(s) : s[i] \in S
      BY <1>1, <2>2, ElementOfSeq
    <3>2. k + 1 \in Int /\ Len(s) \in Int
      BY <1>1, <2>2
    <3>3. /\ b \in Seq(S)
          /\ Len(b) = IF k + 1 <= Len(s) THEN Len(s) - (k + 1) + 1 ELSE 0
          /\ \A i \in 1 .. Len(s) - (k + 1) + 1 : b[i] = s[k + 1 + i - 1]
      BY <3>1, <3>2, SubSeqProperties
    <3> HIDE DEF b
    <3>4. Len(b) = Len(s) - k
      BY <1>1, <2>2, <3>3
    <3>5. ASSUME NEW i \in 1 .. Len(s) - k
          PROVE  b[i] = s[k + i]
      <4>1. i \in 1 .. Len(s) - (k + 1) + 1 /\ k + 1 + i - 1 = k + i
        BY <1>1, <2>2
      <4> QED
        BY <3>3, <4>1
    <3> QED
      BY <3>3, <3>4, <3>5
  <2> HIDE DEF a, b
  <2>6. /\ a \o b \in Seq(S) /\ Len(a \o b) = Len(a) + Len(b)
        /\ \A i \in 1 .. Len(a) + Len(b) :
             (a \o b)[i] = IF i <= Len(a) THEN a[i] ELSE b[i - Len(a)]
    BY <2>4, <2>5, ConcatProperties
  <2>7. TakenOut(s, k, a \o b)
    <3>1. Len(a \o b) = Len(s) - 1
      <4>1. Len(a) = k - 1 /\ Len(b) = Len(s) - k /\ Len(a \o b) = Len(a) + Len(b)
        BY <2>4, <2>5, <2>6
      <4>2. k \in Nat /\ Len(s) \in Nat
        BY <1>1, <2>2
      <4> QED
        BY <4>1, <4>2
    <3>2. ASSUME NEW i \in 1 .. Len(s) - 1
          PROVE  (a \o b)[i] = IF i < k THEN s[i] ELSE s[i + 1]
      <4>1. i \in 1 .. Len(a) + Len(b)
        BY <1>1, <2>2, <2>4, <2>5
      <4>2. CASE i < k
        BY <1>1, <2>2, <2>4, <2>6, <4>1, <4>2
      <4>3. CASE ~ (i < k)
        <5>1. ~ (i <= Len(a)) /\ i - Len(a) \in 1 .. Len(s) - k /\ k + (i - Len(a)) = i + 1
          <6>1. Len(a) = k - 1 /\ k \in Nat /\ Len(s) \in Nat /\ i \in Nat
            BY <1>1, <2>2, <2>4
          <6>2. i <= Len(s) - 1 /\ k <= i
            BY <4>3, <6>1
          <6> QED
            BY <6>1, <6>2
        <5>2. (a \o b)[i] = b[i - Len(a)]
          BY <2>6, <4>1, <5>1
        <5>3. b[i - Len(a)] = s[k + (i - Len(a))]
          BY <2>5, <5>1
        <5> QED
          BY <4>3, <5>1, <5>2, <5>3
      <4> QED
        BY <4>2, <4>3
    <3> QED
      BY <3>1, <3>2 DEF TakenOut
  <2> QED
    BY <2>2, <2>3, <2>6, <2>7 DEF a, b
<1> QED
  BY <1>2, <1>3

(* Lists of ids without repetition, as the LRU plugin keeps them.          *)
IdOrders == {o \in Seq(Ids) : IsInjective(o)}

LEMMA OrderFacts ==
  ASSUME NEW o \in Seq(Ids)
  PROVE  /\ Len(o) \in Nat /\ DOMAIN o = 1 .. Len(o)
         /\ \A i \in 1 .. Len(o) : o[i] \in Ids
         /\ o \in IdOrders <=> \A i, j \in 1 .. Len(o) : o[i] = o[j] => i = j
<1>1. Len(o) \in Nat /\ DOMAIN o = 1 .. Len(o) /\ \A i \in 1 .. Len(o) : o[i] \in Ids
  BY LenProperties, ElementOfSeq
<1> QED
  BY <1>1 DEF IdOrders, IsInjective

LEMMA Shortened ==
  ASSUME NEW o \in IdOrders, NEW e
  PROVE  /\ RemoveFirst(o, e) \in IdOrders
         /\ \A x : Contains(RemoveFirst(o, e), x) <=> Contains(o, x) /\ x # e
<1> DEFINE r == RemoveFirst(o, e)
<1>1. /\ o \in Seq(Ids) /\ Len(o) \in Nat
      /\ \A i, j \in 1 .. Len(o) : o[i] = o[j] => i = j
  BY OrderFacts DEF IdOrders
<1>2. /\ r \in Seq(Ids)
      /\ \/ (\A i \in 1 .. Len(o) : o[i] # e) /\ r = o
         \/ \E k \in 1 .. Len(o) : o[k] = e /\ TakenOut(o, k, r)
  BY <1>1, Removal
<1> HIDE DEF r
<1>3. CASE (\A i \in 1 .. Len(o) : o[i] # e) /\ r = o
  <2>1. \A x : Contains(r, x) <=> Contains(o, x) /\ x # e
    BY <1>3 DEF Contains
  <2> QED
    BY <1>3, <2>1 DEF r
<1>4. ASSUME NEW k \in 1 .. Len(o), o[k] = e, TakenOut(o, k, r)
      PROVE  r \in IdOrders /\ \A x : Contains(r, x) <=> Contains(o, x) /\ x # e
  <2>1. /\ Len(r) = Len(o) - 1
        /\ \A i \in 1 .. Len(o) - 1 : r[i] = IF i < k THEN o[i] ELSE o[i + 1]
    BY <1>4 DEF TakenOut
  <2> DEFINE at(i) == IF i < k THEN i ELSE i + 1
  <2>2. \A i \in 1 .. Len(o) - 1 : at(i) \in 1 .. Len(o) /\ at(i) # k /\ r[i] = o[at(i)]
    BY <1>1, <2>1
  <2>3. \A i, j \in 1 .. Len(o) - 1 : at(i) = at(j) => i = j
    BY <1>1
  <2>4. \A j \in 1 .. Len(o) : j # k => \E i \in 1 .. Len(o) - 1 : at(i) = j
    <3> SUFFICES ASSUME NEW j \in 1 .. Len(o), j # k
                 PROVE  \E i \in 1 .. Len(o) - 1 : at(i) = j
      OBVIOUS
    <3>1. CASE j < k
      <4>1. j \in 1 .. Len(o) - 1 /\ at(j) = j
        BY <1>1, <3>1
      <4> QED
        BY <4>1
    <3>2. CASE j > k
      <4>1. j - 1 \in 1 .. Len(o) - 1 /\ at(j - 1) = j
        BY <1>1, <3>2
      <4> QED
        BY <4>1
    <3> QED
      BY <1>1, <3>1, <3>2
  <2> HIDE DEF at
  <2>5. r \in IdOrders
    <3>1. Len(r) = Len(o) - 1
      BY <2>1
    <3>2. ASSUME NEW i \in 1 .. Len(r), NEW j \in 1 .. Len(r), r[i] = r[j]
          PROVE  i = j
      <4>1. o[at(i)] = o[at(j)] /\ at(i) \in 1 .. Len(o) /\ at(j) \in 1 .. Len(o)
        BY <2>2, <3>1, <3>2
      <4>2. at(i) = at(j)
        BY <1>1, <4>1
      <4> QED
        BY <2>3, <3>1, <4>2
    <3> QED
      BY <1>2, <3>2, OrderFacts
  <2>6. ASSUME NEW x
        PROVE  Contains(r, x) <=> Contains(o, x) /\ x # e
    <3>1. ASSUME Contains(r, x)
          PROVE  Contains(o, x) /\ x # e
      <4>1. PICK i \in 1 .. Len(o) - 1 : r[i] = x
        BY <2>1, <3>1 DEF Contains
      <4> QED
        BY <1>1, <1>4, <2>2, <4>1 DEF Contains
    <3>2. ASSUME Contains(o, x), x # e
          PROVE  Contains(r, x)
      <4>1. PICK j \in 1 .. Len(o) : o[j] = x
        BY <3>2 DEF Contains
      <4>2. PICK i \in 1 .. Len(o) - 1 : at(i) = j
        BY <1>4, <2>4, <3>2, <4>1
      <4> QED
        BY <2>1, <2>2, <4>1, <4>2 DEF Contains
    <3> QED
      BY <3>1, <3>2
  <2> QED
    BY <2>5, <2>6
<1> QED
  BY <1>2, <1>3, <1>4 DEF r

LEMMA InFront ==
  ASSUME NEW o \in IdOrders, NEW e \in Ids, ~Contains(o, e)
  PROVE  <<e>> \o o \in IdOrders /\ \A x : Contains(<<e>> \o o, x) <=> Contains(o, x) \/ x = e
<1> DEFINE r == <<e>> \o o
<1>1. /\ o \in Seq(Ids) /\ Len(o) \in Nat
      /\ \A i, j \in 1 .. Len(o) : o[i] = o[j] => i = j
      /\ \A i \in 1 .. Len(o) : o[i] # e
  BY OrderFacts DEF IdOrders, Contains
<1>2. <<e>> \in Seq(Ids) /\ Len(<<e>>) = 1 /\ <<e>>[1] = e
  OBVIOUS
<1>3. /\ r \in Seq(Ids) /\ Len(r) = Len(o) + 1
      /\ \A i \in 1 .. Len(o) + 1 : r[i] = IF i = 1 THEN e ELSE o[i - 1]
  <2>1. /\ r \in Seq(Ids) /\ Len(r) = 1 + Len(o)
        /\ \A i \in 1 .. 1 + Len(o) : r[i] = IF i <= 1 THEN <<e>>[i] ELSE o[i - 1]
    BY <1>1, <1>2, ConcatProperties
  <2> QED
    BY <1>1, <1>2, <2>1
<1> HIDE DEF r
<1>4. r \in IdOrders
  <2>1. ASSUME NEW i \in 1 .. Len(r), NEW j \in 1 .. Len(r), r[i] = r[j]
        PROVE  i = j
    <3>1. /\ i # 1 => i - 1 \in 1 .. Len(o) /\ r[i] = o[i - 1]
          /\ j # 1 => j - 1 \in 1 .. Len(o) /\ r[j] = o[j - 1]
          /\ i = 1 => r[i] = e
          /\ j = 1 => r[j] = e
      BY <1>1, <1>3
    <3>2. i = 1 <=> j = 1
      BY <1>1, <2>1, <3>1
    <3>3. i # 1 /\ j # 1 => i - 1 = j - 1
      BY <1>1, <2>1, <3>1
    <3> QED
      BY <1>1, <1>3, <3>2, <3>3
  <2> QED
    BY <1>3, <2>1, OrderFacts
<1>5. ASSUME NEW x
      PROVE  Contains(r, x) <=> Contains(o, x) \/ x = e
  <2>1. Contains(r, x) => Contains(o, x) \/ x = e
    <3> SUFFICES ASSUME NEW i \in 1 .. Len(o) + 1, r[i] = x, x # e
                 PROVE  \E j \in 1 .. Len(o) : o[j] = x
      BY <1>3 DEF Contains
    <3>1. i - 1 \in 1 .. Len(o) /\ o[i - 1] = x
      BY <1>1, <1>3
    <3> QED
      BY <3>1
  <2>2. Contains(o, x) => Contains(r, x)
    <3> SUFFICES ASSUME NEW j \in 1 .. Len(o), o[j] = x
                 PROVE  Contains(r, x)
      BY DEF Contains
    <3>1. j + 1 \in 1 .. Len(r) /\ r[j + 1] = x
      BY <1>1, <1>3
    <3> QED
      BY <3>1 DEF Contains
  <2>3. Contains(r, e)
    BY <1>1, <1>3 DEF Contains
  <2> QED
    BY <2>1, <2>2, <2>3
<1> QED
  BY <1>4, <1>5 DEF r

-------------------------------------------------------------------------------
(* The remote policy: what a list of events makes of an order              *)

Queued == Event \cup {Barrier, StaleBarrier}

LEMMA QueuedFacts ==
  /\ \A e \in Event : e \in Queued /\ e.op \in Ops /\ e.id \in Ids /\ e # Barrier
  /\ Barrier.op \notin Ops /\ StaleBarrier.op \notin Ops
  /\ Barrier \in Queued /\ StaleBarrier \in Queued /\ Barrier # StaleBarrier
  /\ \A q \in Queued : q.op \in Ops => q \in Event
  BY DEF Queued, Event, Ops, Barrier, StaleBarrier

LEMMA DeliverKeepsOrders ==
  ASSUME NEW o \in IdOrders, NEW q \in Queued
  PROVE  Deliver(o, q) \in IdOrders
<1>1. CASE q.op \notin Ops
  BY <1>1 DEF Deliver
<1>2. CASE q.op \in Ops
  <2>1. q.id \in Ids
    BY <1>2, QueuedFacts
  <2> DEFINE r == RemoveFirst(o, q.id)
  <2>2. r \in IdOrders /\ ~Contains(r, q.id)
    BY Shortened
  <2> HIDE DEF r
  <2>3. <<q.id>> \o r \in IdOrders
    BY <2>1, <2>2, InFront
  <2>4. ApplyEvent(o, q) \in {o, r, <<q.id>> \o r}
    BY DEF ApplyEvent, r
  <2> QED
    BY <1>2, <2>2, <2>3, <2>4 DEF Deliver
<1> QED
  BY <1>1, <1>2

(* The orders an order goes through when s is applied to it.               *)
Walks(w, from, s, n) ==
  /\ w \in [0 .. n -> IdOrders]
  /\ w[0] = from
  /\ \A i \in 1 .. n : w[i] = Deliver(w[i - 1], s[i])

Reaches(from, s, to) == \E w : Walks(w, from, s, Len(s)) /\ w[Len(s)] = to

LEMMA WalkExists ==
  ASSUME NEW from \in IdOrders, NEW s \in Seq(Queued)
  PROVE  \E to \in IdOrders : Reaches(from, s, to)
<1>1. Len(s) \in Nat /\ \A i \in 1 .. Len(s) : s[i] \in Queued
  BY LenProperties, ElementOfSeq
<1> DEFINE Stuck == {n \in Nat : n <= Len(s) /\ ~ \E w : Walks(w, from, s, n)}
<1>2. Stuck = {}
  <2> SUFFICES ASSUME Stuck # {}
               PROVE  FALSE
    OBVIOUS
  <2>1. PICK n \in Stuck : \A m \in Stuck : n <= m
    BY LeastOne
  <2>2. n \in Nat /\ n <= Len(s) /\ ~ \E w : Walks(w, from, s, n)
    OBVIOUS
  <2>3. n # 0
    <3>1. Walks([i \in 0 .. 0 |-> from], from, s, 0)
      BY DEF Walks
    <3> QED
      BY <2>2, <3>1
  <2>4. PICK w : Walks(w, from, s, n - 1)
    <3>1. n - 1 \in Nat /\ n - 1 <= Len(s) /\ n - 1 \notin Stuck
      BY <1>1, <2>1, <2>2, <2>3
    <3> QED
      BY <3>1
  <2> DEFINE v == [i \in 0 .. n |-> IF i = n THEN Deliver(w[n - 1], s[n]) ELSE w[i]]
  <2>5. w \in [0 .. n - 1 -> IdOrders] /\ w[0] = from /\ n - 1 \in 0 .. n - 1
    BY <2>2, <2>3, <2>4 DEF Walks
  <2>6. Deliver(w[n - 1], s[n]) \in IdOrders
    BY <1>1, <2>2, <2>3, <2>5, DeliverKeepsOrders
  <2>7. \A i \in 0 .. n : i # n => i \in 0 .. n - 1
    BY <2>2
  <2>8. v \in [0 .. n -> IdOrders]
    BY <2>5, <2>6, <2>7
  <2>9. v[0] = from
    BY <2>2, <2>3, <2>5
  <2>10. ASSUME NEW i \in 1 .. n
         PROVE  v[i] = Deliver(v[i - 1], s[i])
    <3>1. i - 1 \in 0 .. n /\ i - 1 # n /\ v[i - 1] = w[i - 1]
      BY <2>2
    <3>2. CASE i = n
      BY <2>2, <3>1, <3>2
    <3>3. CASE i # n
      <4>1. i \in 1 .. n - 1 /\ v[i] = w[i]
        BY <2>2, <3>3
      <4> QED
        BY <2>4, <3>1, <4>1 DEF Walks
    <3> QED
      BY <3>2, <3>3
  <2> HIDE DEF v
  <2>11. Walks(v, from, s, n)
    BY <2>8, <2>9, <2>10 DEF Walks
  <2> QED
    BY <2>2, <2>11
<1>3. PICK w : Walks(w, from, s, Len(s))
  BY <1>1, <1>2
<1>4. w[Len(s)] \in IdOrders
  BY <1>1, <1>3 DEF Walks
<1> QED
  BY <1>3, <1>4 DEF Reaches

(* The recursive function of ApplyAll is such a walk, and the only one.    *)
Applies(f, from, s) ==
  f = [n \in 0 .. Len(s) |-> IF n = 0 THEN from ELSE Deliver(f[n - 1], s[n])]

LEMMA AppliedIsReached ==
  ASSUME NEW s \in Seq(Queued), NEW from, NEW to, Reaches(from, s, to)
  PROVE  ApplyAll(from, s) = to
<1>1. Len(s) \in Nat
  BY LenProperties
<1>2. PICK w : Walks(w, from, s, Len(s)) /\ w[Len(s)] = to
  BY DEF Reaches
<1>3. Applies(w, from, s)
  <2>1. ASSUME NEW n \in 0 .. Len(s)
        PROVE  w[n] = IF n = 0 THEN from ELSE Deliver(w[n - 1], s[n])
    <3>1. n # 0 => n \in 1 .. Len(s)
      BY <1>1
    <3> QED
      BY <1>2, <3>1 DEF Walks
  <2>2. w \in [0 .. Len(s) -> IdOrders]
    BY <1>2 DEF Walks
  <2> QED
    BY <2>1, <2>2 DEF Applies
<1> DEFINE f == CHOOSE g : Applies(g, from, s)
<1>4. Applies(f, from, s)
  BY <1>3
<1>5. ApplyAll(from, s) = f[Len(s)]
  BY DEF ApplyAll, Applies
<1> HIDE DEF f
<1> DEFINE Apart == {n \in Nat : n <= Len(s) /\ f[n] # w[n]}
<1>6. Apart = {}
  <2> SUFFICES ASSUME Apart # {}
               PROVE  FALSE
    OBVIOUS
  <2>1. PICK n \in Apart : \A m \in Apart : n <= m
    BY LeastOne
  <2>2. n \in Nat /\ n <= Len(s) /\ f[n] # w[n] /\ n \in 0 .. Len(s)
    BY <1>1
  <2>3. f[n] = IF n = 0 THEN from ELSE Deliver(f[n - 1], s[n])
    BY <1>4, <2>2 DEF Applies
  <2>4. w[n] = IF n = 0 THEN from ELSE Deliver(w[n - 1], s[n])
    BY <1>3, <2>2 DEF Applies
  <2>5. n # 0 => f[n - 1] = w[n - 1]
    <3> SUFFICES ASSUME n # 0
                 PROVE  f[n - 1] = w[n - 1]
      OBVIOUS
    <3>1. n - 1 \in Nat /\ n - 1 <= Len(s) /\ n - 1 \notin Apart
      BY <1>1, <2>1, <2>2
    <3> QED
      BY <3>1
  <2> QED
    BY <2>2, <2>3, <2>4, <2>5
<1> QED
  BY <1>1, <1>2, <1>5, <1>6

LEMMA ReachedOrders ==
  ASSUME NEW s \in Seq(Queued), NEW from, NEW to, Reaches(from, s, to)
  PROVE  from \in IdOrders /\ to \in IdOrders
<1>1. Len(s) \in Nat
  BY LenProperties
<1> QED
  BY <1>1 DEF Reaches, Walks

(* One more at the end.                                                    *)
LEMMA ReachesFurther ==
  ASSUME NEW s \in Seq(Queued), NEW from, NEW to, Reaches(from, s, to), NEW q \in Queued
  PROVE  Reaches(from, Append(s, q), Deliver(to, q))
<1> DEFINE t == Append(s, q)
           n == Len(s)
<1>1. /\ n \in Nat /\ Len(t) = n + 1 /\ t[n + 1] = q
      /\ \A i \in 1 .. n : t[i] = s[i]
  BY LenProperties, AppendProperties
<1>2. PICK w : Walks(w, from, s, n) /\ w[n] = to
  BY DEF Reaches
<1> HIDE DEF t, n
<1> DEFINE v == [i \in 0 .. n + 1 |-> IF i = n + 1 THEN Deliver(to, q) ELSE w[i]]
<1>3. w \in [0 .. n -> IdOrders] /\ w[0] = from /\ n \in 0 .. n
  BY <1>1, <1>2 DEF Walks
<1>4. Deliver(to, q) \in IdOrders
  BY <1>2, <1>3, DeliverKeepsOrders
<1>5. \A i \in 0 .. n + 1 : i # n + 1 => i \in 0 .. n
  BY <1>1
<1>6. v \in [0 .. n + 1 -> IdOrders]
  BY <1>3, <1>4, <1>5
<1>7. v[0] = from /\ v[n + 1] = Deliver(to, q)
  BY <1>1, <1>3
<1>8. ASSUME NEW i \in 1 .. n + 1
      PROVE  v[i] = Deliver(v[i - 1], t[i])
  <2>1. i - 1 \in 0 .. n + 1 /\ i - 1 # n + 1 /\ v[i - 1] = w[i - 1]
    BY <1>1
  <2>2. CASE i = n + 1
    BY <1>1, <1>2, <1>7, <2>1, <2>2
  <2>3. CASE i # n + 1
    <3>1. i \in 1 .. n /\ v[i] = w[i]
      BY <1>1, <2>3
    <3> QED
      BY <1>1, <1>2, <2>1, <3>1 DEF Walks
  <2> QED
    BY <2>2, <2>3
<1> HIDE DEF v
<1>9. Walks(v, from, t, Len(t)) /\ v[Len(t)] = Deliver(to, q)
  BY <1>1, <1>6, <1>7, <1>8 DEF Walks
<1> QED
  BY <1>9 DEF Reaches, t

(* A list may be cut in two anywhere.                                      *)
LEMMA ReachesInTwo ==
  ASSUME NEW s \in Seq(Queued), NEW from, NEW to, Reaches(from, s, to),
         NEW n \in 0 .. Len(s),
         NEW a \in Seq(Queued), Len(a) = n, \A i \in 1 .. n : a[i] = s[i],
         NEW b \in Seq(Queued), Len(b) = Len(s) - n,
         \A i \in 1 .. Len(s) - n : b[i] = s[n + i]
  PROVE  \E mid : Reaches(from, a, mid) /\ Reaches(mid, b, to)
<1>1. Len(s) \in Nat /\ n \in Nat /\ n <= Len(s)
  BY LenProperties
<1>2. PICK w : Walks(w, from, s, Len(s)) /\ w[Len(s)] = to
  BY DEF Reaches
<1> DEFINE v == [i \in 0 .. n |-> w[i]]
           u == [i \in 0 .. Len(s) - n |-> w[n + i]]
<1>3. /\ \A i \in 0 .. Len(s) : w[i] \in IdOrders
      /\ w[0] = from
      /\ \A i \in 1 .. Len(s) : w[i] = Deliver(w[i - 1], s[i])
  BY <1>2 DEF Walks
<1>4. Walks(v, from, a, n) /\ v[n] = w[n]
  <2>1. v \in [0 .. n -> IdOrders]
    BY <1>1, <1>3
  <2>2. ASSUME NEW i \in 1 .. n
        PROVE  v[i] = Deliver(v[i - 1], a[i])
    <3>1. i \in 1 .. Len(s) /\ i \in 0 .. n /\ i - 1 \in 0 .. n
      BY <1>1
    <3> QED
      BY <1>3, <3>1
  <2>3. v[0] = from /\ v[n] = w[n]
    BY <1>1, <1>3
  <2> HIDE DEF v
  <2> QED
    BY <2>1, <2>2, <2>3 DEF Walks
<1>5. Walks(u, w[n], b, Len(s) - n) /\ u[Len(s) - n] = to
  <2>1. u \in [0 .. Len(s) - n -> IdOrders]
    BY <1>1, <1>3
  <2>2. ASSUME NEW i \in 1 .. Len(s) - n
        PROVE  u[i] = Deliver(u[i - 1], b[i])
    <3>1. /\ n + i \in 1 .. Len(s) /\ i \in 0 .. Len(s) - n /\ i - 1 \in 0 .. Len(s) - n
          /\ n + i - 1 = n + (i - 1)
      BY <1>1
    <3>2. w[n + i] = Deliver(w[n + (i - 1)], s[n + i])
      BY <1>3, <3>1
    <3> QED
      BY <3>1, <3>2
  <2>3. u[0] = w[n] /\ u[Len(s) - n] = to
    BY <1>1, <1>2
  <2> HIDE DEF u
  <2> QED
    BY <2>1, <2>2, <2>3 DEF Walks
<1> HIDE DEF v, u
<1>6. Reaches(from, a, w[n]) /\ Reaches(w[n], b, to)
  BY <1>4, <1>5 DEF Reaches
<1> QED
  BY <1>6

(* Barriers change nothing, nor does an empty list.                        *)
LEMMA ReachesNowhere ==
  ASSUME NEW s \in Seq(Queued), Events(s) = {}, NEW from, NEW to, Reaches(from, s, to)
  PROVE  to = from
<1>1. Len(s) \in Nat /\ DOMAIN s = 1 .. Len(s)
  BY LenProperties
<1>2. PICK w : Walks(w, from, s, Len(s)) /\ w[Len(s)] = to
  BY DEF Reaches
<1>3. \A i \in 1 .. Len(s) : w[i] = w[i - 1]
  BY <1>1, <1>2 DEF Walks, Deliver, Events
<1> DEFINE Apart == {n \in Nat : n <= Len(s) /\ w[n] # from}
<1>4. Apart = {}
  <2> SUFFICES ASSUME Apart # {}
               PROVE  FALSE
    OBVIOUS
  <2>1. PICK n \in Apart : \A m \in Apart : n <= m
    BY LeastOne
  <2>2. n \in Nat /\ n <= Len(s) /\ w[n] # from
    OBVIOUS
  <2>3. n # 0
    BY <1>2, <2>2 DEF Walks
  <2>4. n - 1 \in Nat /\ n - 1 <= Len(s) /\ n - 1 \notin Apart
    BY <1>1, <2>1, <2>2, <2>3
  <2>5. n \in 1 .. Len(s)
    BY <1>1, <2>2, <2>3
  <2> QED
    BY <1>3, <2>2, <2>4, <2>5
<1> QED
  BY <1>1, <1>2, <1>4

LEMMA ReachesStill ==
  ASSUME NEW o \in IdOrders
  PROVE  <<>> \in Seq(Queued) /\ Events(<<>>) = {} /\ Reaches(o, <<>>, o)
<1>1. <<>> \in Seq(Queued) /\ Len(<<>>) = 0
  BY EmptySeq
<1>2. DOMAIN <<>> = {}
  BY <1>1, LenProperties
<1>3. Walks([i \in 0 .. 0 |-> o], o, <<>>, 0)
  BY DEF Walks
<1> QED
  BY <1>1, <1>2, <1>3 DEF Reaches, Events

LEMMA ReachesAbandoned ==
  ASSUME NEW s \in Seq(Queued)
  PROVE  /\ Abandoned(s) \in Seq(Queued) /\ Len(Abandoned(s)) = Len(s)
         /\ ~Contains(Abandoned(s), Barrier)
         /\ Events(Abandoned(s)) = Events(s)
         /\ \A from, to : Reaches(from, s, to) => Reaches(from, Abandoned(s), to)
<1> DEFINE t == Abandoned(s)
<1>1. /\ Len(s) \in Nat /\ DOMAIN s = 1 .. Len(s)
      /\ \A i \in 1 .. Len(s) : s[i] \in Queued
  BY LenProperties, ElementOfSeq
<1>2. t = [i \in 1 .. Len(s) |-> IF s[i] = Barrier THEN StaleBarrier ELSE s[i]]
  BY <1>1 DEF Abandoned
<1> HIDE DEF t
<1>3. t \in [1 .. Len(s) -> Queued]
  BY <1>1, <1>2, QueuedFacts
<1>4. t \in Seq(Queued) /\ Len(t) = Len(s) /\ DOMAIN t = 1 .. Len(s)
  BY <1>1, <1>3, SeqDef
<1>5. \A i \in 1 .. Len(s) : /\ t[i] # Barrier
                             /\ t[i].op \in Ops <=> s[i].op \in Ops
                             /\ t[i].op \in Ops => t[i] = s[i]
  BY <1>1, <1>2, QueuedFacts
<1>6. ~Contains(t, Barrier) /\ Events(t) = Events(s)
  <2>1. ~Contains(t, Barrier)
    BY <1>4, <1>5 DEF Contains
  <2>2. Events(t) = Events(s)
    BY <1>1, <1>4, <1>5 DEF Events
  <2> QED
    BY <2>1, <2>2
<1>7. ASSUME NEW from, NEW to, Reaches(from, s, to)
      PROVE  Reaches(from, t, to)
  <2>1. PICK w : Walks(w, from, s, Len(s)) /\ w[Len(s)] = to
    BY <1>7 DEF Reaches
  <2>2. Walks(w, from, t, Len(t))
    BY <1>4, <1>5, <2>1 DEF Walks, Deliver
  <2> QED
    BY <1>4, <2>1, <2>2 DEF Reaches
<1> QED
  BY <1>4, <1>6, <1>7 DEF t

-------------------------------------------------------------------------------
(* The remote policy: the invariant                                        *)

RemoteAsks ==
  [pc : {"idle", "sync", "wait", "call", "told"}, op : {"victim", "flush"},
   synced : BOOLEAN, alone : BOOLEAN, answer : Ids \cup {NoId}]

PolicyShape ==
  /\ queue \in Seq(Queued) /\ Len(queue) <= EventBuffer
  /\ batch \in Seq(Queued) /\ late \in Seq(Queued)
  /\ plugin \in IdOrders /\ exact \in IdOrders
  /\ ask \in RemoteAsks
  /\ reported \in Nat /\ happened \in Nat /\ troubles \in Nat
  /\ closed \in {"open", "closing", "closed"} /\ untold \in BOOLEAN

(* The barrier of a caller is on its way only while that waits, in one     *)
(* place; with no event since, it is the last of the queue, so that        *)
(* nothing is left when it has passed.  The adapter is closed with all     *)
(* events sent.                                                            *)
OneBarrier ==
  /\ \A i, j \in 1 .. Len(queue) : queue[i] = Barrier /\ queue[j] = Barrier => i = j
  /\ Contains(batch, Barrier) => ~Contains(queue, Barrier)

BarriersInv ==
  /\ OneBarrier
  /\ ask.pc # "wait" => ~Contains(queue, Barrier) /\ ~Contains(batch, Barrier)
  /\ ask.pc = "wait" /\ ask.alone =>
       /\ \A i \in 1 .. Len(queue) : queue[i] = Barrier => i = Len(queue)
       /\ Contains(batch, Barrier) => queue = <<>>
  /\ ask.synced => ask.pc \in {"call", "told"}
  /\ ask.pc = "call" /\ ask.synced /\ ask.alone => queue = <<>> /\ batch = <<>>
  /\ closed = "closed" => Events(queue) = {} /\ Events(batch) = {}

(* With what is under way applied the plugin has the exact order.          *)
UnderWay == \E mid : Reaches(plugin, batch, mid) /\ Reaches(mid, queue, exact)

CatchesUp ==
  reported = 0 /\ ~untold =>
    /\ late = <<>>
    /\ UnderWay
    /\ ask.pc = "told" /\ ask.synced /\ ask.alone => ask.answer = PickVictim(exact)

PolicyInv == PolicyShape /\ BarriersInv /\ CatchesUp

LEMMA PolicyInitially ==
  PolicyInit => PolicyInv
<1> SUFFICES ASSUME PolicyInit
             PROVE  PolicyInv
  OBVIOUS
<1>1. /\ queue = <<>> /\ batch = <<>> /\ late = <<>> /\ plugin = <<>> /\ exact = <<>>
      /\ ask = IdleAsk /\ reported = 0 /\ happened = 0 /\ troubles = 0
      /\ closed = "open" /\ untold = FALSE
  BY DEF PolicyInit
<1>2. <<>> \in IdOrders
  BY DEF IdOrders, IsInjective
<1>3. <<>> \in Seq(Queued) /\ Len(<<>>) = 0 /\ Reaches(<<>>, <<>>, <<>>)
  BY <1>2, ReachesStill
<1>4. PolicyShape
  <2>1. ask \in RemoteAsks
    BY <1>1 DEF RemoteAsks, IdleAsk
  <2>2. 0 <= EventBuffer
    BY PolicyAdapterAssumption
  <2> QED
    BY <1>1, <1>2, <1>3, <2>1, <2>2 DEF PolicyShape
<1>5. BarriersInv
  BY <1>1, <1>3 DEF BarriersInv, OneBarrier, IdleAsk, Contains
<1>6. CatchesUp
  BY <1>1, <1>3 DEF CatchesUp, IdleAsk, UnderWay
<1> QED
  BY <1>4, <1>5, <1>6 DEF PolicyInv

LEMMA NotifyKeeps ==
  ASSUME PolicyInv, NEW e \in Event, Notify(e)
  PROVE  PolicyInv'
<1>1. PolicyShape /\ BarriersInv /\ CatchesUp
  BY DEF PolicyInv
<1>2. /\ e \in Queued /\ e.op \in Ops /\ e # Barrier
      /\ exact' = Deliver(exact, e) /\ exact' \in IdOrders
  BY <1>1, QueuedFacts, DeliverKeepsOrders DEF Notify, Deliver, PolicyShape
<1>3. /\ ask' \in RemoteAsks /\ ask'.alone = FALSE /\ ask'.pc = ask.pc /\ ask'.synced = ask.synced
      /\ ask'.answer = ask.answer
  BY <1>1 DEF Notify, PolicyShape, RemoteAsks
<1>4. /\ batch' = batch /\ late' = late /\ plugin' = plugin /\ closed' = closed
      /\ untold' = untold /\ happened' = happened + 1 /\ closed = "open"
      /\ troubles' \in Nat
  BY <1>1 DEF Notify, PolicyShape, Trouble
<1>5. CASE Len(queue) < EventBuffer
  <2>1. queue' = Append(queue, e) /\ reported' = reported
    BY <1>5 DEF Notify
  <2>2. /\ queue' \in Seq(Queued) /\ Len(queue') = Len(queue) + 1 /\ Len(queue) \in Nat
        /\ \A i \in 1 .. Len(queue) : queue'[i] = queue[i]
        /\ queue'[Len(queue) + 1] = e
    BY <1>1, <1>2, <2>1, AppendProperties, LenProperties DEF PolicyShape
  <2>3. Len(queue') <= EventBuffer
    BY <1>5, <2>2, PolicyAdapterAssumption
  <2>4. PolicyShape'
    BY <1>1, <1>2, <1>3, <1>4, <2>1, <2>2, <2>3 DEF PolicyShape
  <2>5. ~Contains(queue, Barrier) => ~Contains(queue', Barrier)
    <3> SUFFICES ASSUME NEW i \in 1 .. Len(queue'), queue'[i] = Barrier
                 PROVE  Contains(queue, Barrier)
      BY DEF Contains
    <3>1. i \in 1 .. Len(queue)
      BY <1>2, <2>2
    <3> QED
      BY <2>2, <3>1 DEF Contains
  <2>6. BarriersInv'
    <3>1. OneBarrier'
      <4>1. ASSUME NEW i \in 1 .. Len(queue'), queue'[i] = Barrier
            PROVE  i \in 1 .. Len(queue) /\ queue[i] = Barrier
        <5>1. i # Len(queue) + 1
          BY <1>2, <2>2, <4>1
        <5>2. i \in 1 .. Len(queue)
          BY <2>2, <5>1
        <5> QED
          BY <2>2, <4>1, <5>2
      <4> QED
        BY <1>1, <1>4, <2>5, <4>1 DEF BarriersInv, OneBarrier
    <3> QED
      BY <1>1, <1>3, <1>4, <2>5, <3>1 DEF BarriersInv
  <2>7. ASSUME UnderWay
        PROVE  UnderWay'
    <3>1. PICK mid : Reaches(plugin, batch, mid) /\ Reaches(mid, queue, exact)
      BY <2>7 DEF UnderWay
    <3>2. Reaches(mid, queue', exact')
      BY <1>1, <1>2, <2>1, <3>1, ReachesFurther DEF PolicyShape
    <3> QED
      BY <1>4, <3>1, <3>2 DEF UnderWay
  <2>8. CatchesUp'
    BY <1>1, <1>3, <1>4, <2>1, <2>7 DEF CatchesUp
  <2> QED
    BY <2>4, <2>6, <2>8 DEF PolicyInv
<1>6. CASE ~ (Len(queue) < EventBuffer)
  <2>1. queue' = queue /\ reported' = reported + 1
    BY <1>6 DEF Notify
  <2>2. PolicyShape'
    BY <1>1, <1>2, <1>3, <1>4, <2>1 DEF PolicyShape
  <2>3. BarriersInv'
    BY <1>1, <1>3, <1>4, <2>1 DEF BarriersInv, OneBarrier
  <2>4. reported' # 0
    BY <1>1, <2>1 DEF PolicyShape
  <2>5. CatchesUp'
    BY <2>4 DEF CatchesUp
  <2> QED
    BY <2>2, <2>3, <2>5 DEF PolicyInv
<1> QED
  BY <1>5, <1>6

(* The sender takes from the front.                                        *)
LEMMA TakesFront ==
  ASSUME PolicyShape, Take
  PROVE  \E n \in 1 .. Len(queue) :
           /\ batch' \in Seq(Queued) /\ Len(batch') = n
           /\ \A i \in 1 .. n : batch'[i] = queue[i]
           /\ queue' \in Seq(Queued) /\ Len(queue') = Len(queue) - n
           /\ \A i \in 1 .. Len(queue) - n : queue'[i] = queue[n + i]
<1>1. /\ queue \in Seq(Queued) /\ Len(queue) \in Nat /\ queue # <<>>
      /\ \A i \in 1 .. Len(queue) : queue[i] \in Queued
  BY LenProperties, ElementOfSeq DEF PolicyShape, Take
<1>2. Len(queue) >= 1
  BY <1>1, EmptySeq
<1> DEFINE K == {k \in 1 .. Len(queue) : Takeable(k)}
           n == Max(K)
<1>3. 1 \in K
  <2>1. SubSeq(queue, 1, 0) = <<>>
    BY SubSeqEmpty
  <2>2. Events(<<>>) = {}
    BY DEF Events
  <2>3. Cardinality(Events(SubSeq(queue, 1, 1 - 1))) = 0
    <3>1. 1 - 1 = 0
      OBVIOUS
    <3> QED
      BY <2>1, <2>2, <3>1, FS_EmptySet
  <2>4. Takeable(1)
    BY <2>3, PolicyAdapterAssumption DEF Takeable
  <2> QED
    BY <1>1, <1>2, <2>4
<1>4. n \in K
  BY <1>1, <1>3, GreatestOne
<1>5. n \in 1 .. Len(queue)
  BY <1>4
<1>6. batch' = SubSeq(queue, 1, n) /\ queue' = SubSeq(queue, n + 1, Len(queue))
  BY DEF Take
<1> HIDE DEF n
<1>7. /\ batch' \in Seq(Queued) /\ Len(batch') = n
      /\ \A i \in 1 .. n : batch'[i] = queue[i]
  <2>1. n \in Int /\ 1 <= n /\ \A i \in 1 .. n : queue[i] \in Queued
    BY <1>1, <1>5
  <2>2. /\ batch' \in Seq(Queued) /\ Len(batch') = IF 1 <= n THEN n - 1 + 1 ELSE 0
        /\ \A i \in 1 .. n - 1 + 1 : batch'[i] = queue[1 + i - 1]
    BY <1>6, <2>1, SubSeqProperties
  <2> QED
    BY <2>1, <2>2
<1>8. /\ queue' \in Seq(Queued) /\ Len(queue') = Len(queue) - n
      /\ \A i \in 1 .. Len(queue) - n : queue'[i] = queue[n + i]
  <2>1. /\ n + 1 \in Int /\ Len(queue) \in Int
        /\ \A i \in n + 1 .. Len(queue) : queue[i] \in Queued
    BY <1>1, <1>5
  <2>2. /\ queue' \in Seq(Queued)
        /\ Len(queue') = IF n + 1 <= Len(queue) THEN Len(queue) - (n + 1) + 1 ELSE 0
        /\ \A i \in 1 .. Len(queue) - (n + 1) + 1 : queue'[i] = queue[n + 1 + i - 1]
    BY <1>6, <2>1, SubSeqProperties
  <2> QED
    BY <1>1, <1>5, <2>2
<1> QED
  BY <1>5, <1>7, <1>8

LEMMA TakeKeeps ==
  ASSUME PolicyInv, Take
  PROVE  PolicyInv'
<1>1. PolicyShape /\ BarriersInv /\ CatchesUp
  BY DEF PolicyInv
<1>2. /\ late' = late /\ plugin' = plugin /\ ask' = ask /\ reported' = reported
      /\ closed' = closed /\ happened' = happened /\ troubles' = troubles
      /\ exact' = exact /\ untold' = untold /\ closed # "closed" /\ batch = <<>>
  BY DEF Take
<1>3. PICK n \in 1 .. Len(queue) :
        /\ batch' \in Seq(Queued) /\ Len(batch') = n
        /\ \A i \in 1 .. n : batch'[i] = queue[i]
        /\ queue' \in Seq(Queued) /\ Len(queue') = Len(queue) - n
        /\ \A i \in 1 .. Len(queue) - n : queue'[i] = queue[n + i]
  BY <1>1, TakesFront
<1>4. Len(queue) \in Nat /\ n \in Nat /\ n >= 1 /\ n <= Len(queue) /\ EventBuffer \in Nat
  BY <1>1, <1>3, LenProperties, PolicyAdapterAssumption DEF PolicyShape
<1>5. PolicyShape'
  <2>1. Len(queue') <= EventBuffer
    BY <1>1, <1>3, <1>4 DEF PolicyShape
  <2> QED
    BY <1>1, <1>2, <1>3, <2>1 DEF PolicyShape
<1>6. BarriersInv'
  <2>1. ~Contains(queue, Barrier) => ~Contains(queue', Barrier) /\ ~Contains(batch', Barrier)
    <3>1. ASSUME Contains(queue', Barrier)
          PROVE  Contains(queue, Barrier)
      <4>1. PICK i \in 1 .. Len(queue) - n : queue[n + i] = Barrier
        BY <1>3, <3>1 DEF Contains
      <4>2. n + i \in 1 .. Len(queue)
        BY <1>4
      <4> QED
        BY <4>1, <4>2 DEF Contains
    <3>2. ASSUME Contains(batch', Barrier)
          PROVE  Contains(queue, Barrier)
      <4>1. PICK i \in 1 .. n : queue[i] = Barrier
        BY <1>3, <3>2 DEF Contains
      <4>2. i \in 1 .. Len(queue)
        BY <1>4
      <4> QED
        BY <4>1, <4>2 DEF Contains
    <3> QED
      BY <3>1, <3>2
  <2>2. ASSUME \A i \in 1 .. Len(queue) : queue[i] = Barrier => i = Len(queue)
        PROVE  /\ \A i \in 1 .. Len(queue') : queue'[i] = Barrier => i = Len(queue')
               /\ Contains(batch', Barrier) => queue' = <<>>
    <3>1. ASSUME NEW i \in 1 .. Len(queue'), queue'[i] = Barrier
          PROVE  i = Len(queue')
      <4>1. n + i \in 1 .. Len(queue) /\ queue[n + i] = Barrier
        BY <1>3, <1>4, <3>1
      <4>2. n + i = Len(queue)
        BY <2>2, <4>1
      <4>3. i \in Nat /\ Len(queue') = Len(queue) - n
        BY <1>3, <1>4
      <4> QED
        BY <1>4, <4>2, <4>3
    <3>2. ASSUME Contains(batch', Barrier)
          PROVE  queue' = <<>>
      <4>1. PICK i \in 1 .. n : queue[i] = Barrier
        BY <1>3, <3>2 DEF Contains
      <4>2. i = Len(queue)
        BY <1>4, <2>2, <4>1
      <4>3. Len(queue') = 0
        <5>1. i <= n
          BY <1>4, <4>1
        <5>2. n = Len(queue)
          BY <1>4, <4>2, <5>1
        <5> QED
          BY <1>3, <1>4, <5>2
      <4> QED
        BY <1>3, <4>3, EmptySeq
    <3> QED
      BY <3>1, <3>2
  <2>3. ask.pc = "call" /\ ask.synced /\ ask.alone => FALSE
    BY <1>1, EmptySeq DEF BarriersInv, Take
  <2>4. OneBarrier'
    <3>1. \A i, j \in 1 .. Len(queue) : queue[i] = Barrier /\ queue[j] = Barrier => i = j
      BY <1>1 DEF BarriersInv, OneBarrier
    <3>2. \A i \in 1 .. Len(queue') : /\ n + i \in 1 .. Len(queue) /\ i \in Nat
                                      /\ queue'[i] = queue[n + i]
      BY <1>3, <1>4
    <3>3. ASSUME NEW i \in 1 .. Len(queue'), NEW j \in 1 .. Len(queue'),
                 queue'[i] = Barrier, queue'[j] = Barrier
          PROVE  i = j
      <4>1. PICK x \in 1 .. Len(queue) : x = n + i /\ queue[x] = Barrier
        BY <3>2, <3>3
      <4>2. PICK y \in 1 .. Len(queue) : y = n + j /\ queue[y] = Barrier
        BY <3>2, <3>3
      <4>3. x = y
        BY <3>1, <4>1, <4>2
      <4>4. i \in Nat /\ j \in Nat
        BY <3>2
      <4> QED
        BY <1>4, <4>1, <4>2, <4>3, <4>4
    <3>4. ASSUME Contains(batch', Barrier), Contains(queue', Barrier)
          PROVE  FALSE
      <4>1. PICK i \in 1 .. n : queue[i] = Barrier
        BY <1>3, <3>4 DEF Contains
      <4>2. PICK j \in 1 .. Len(queue') : queue'[j] = Barrier
        BY <3>4 DEF Contains
      <4>3. i \in 1 .. Len(queue) /\ i \in Nat /\ j \in Nat /\ j >= 1 /\ i <= n
        BY <1>4, <3>2
      <4>4. i = n + j
        BY <3>1, <3>2, <4>1, <4>2, <4>3
      <4> QED
        BY <1>4, <4>3, <4>4
    <3> QED
      BY <3>3, <3>4 DEF OneBarrier
  <2> QED
    BY <1>1, <1>2, <2>1, <2>2, <2>3, <2>4 DEF BarriersInv
<1>7. ASSUME UnderWay
      PROVE  UnderWay'
  <2>1. PICK was : Reaches(plugin, batch, was) /\ Reaches(was, queue, exact)
    BY <1>7 DEF UnderWay
  <2>2. was = plugin
    BY <1>2, <2>1, ReachesNowhere, ReachesStill, ReachedOrders, EmptySeq DEF PolicyShape
  <2>3. n \in 0 .. Len(queue) /\ queue \in Seq(Queued)
    BY <1>1, <1>4 DEF PolicyShape
  <2>4. \E mid : Reaches(plugin, batch', mid) /\ Reaches(mid, queue', exact)
    BY <1>3, <2>1, <2>2, <2>3, ReachesInTwo
  <2> QED
    BY <1>2, <2>4 DEF UnderWay
<1>8. CatchesUp'
  BY <1>1, <1>2, <1>7 DEF CatchesUp
<1> QED
  BY <1>5, <1>6, <1>8 DEF PolicyInv

LEMMA AppliedUnderWay ==
  ASSUME NEW s \in Seq(Queued), NEW o \in IdOrders
  PROVE  ApplyAll(o, s) \in IdOrders
<1>1. PICK to \in IdOrders : Reaches(o, s, to)
  BY WalkExists
<1> QED
  BY <1>1, AppliedIsReached

LEMMA PostKeeps ==
  ASSUME PolicyInv, Post
  PROVE  PolicyInv'
<1>1. PolicyShape /\ BarriersInv /\ CatchesUp
  BY DEF PolicyInv
<1>2. /\ queue' = queue /\ closed' = closed /\ happened' = happened
      /\ exact' = exact /\ untold' = untold /\ batch' = <<>>
      /\ ask' = IF Passed THEN [ask EXCEPT !.pc = "call", !.synced = TRUE] ELSE ask
  BY DEF Post
<1>3. <<>> \in Seq(Queued) /\ Len(<<>>) = 0 /\ Events(<<>>) = {} /\ ~Contains(<<>>, Barrier)
  <2>1. <<>> \in Seq(Queued) /\ Len(<<>>) = 0 /\ Events(<<>>) = {}
    BY <1>1, ReachesStill DEF PolicyShape
  <2> QED
    BY <2>1 DEF Contains
<1>4. IsFiniteSet(Events(batch))
  <2>1. Len(batch) \in Nat /\ Events(batch) \subseteq 1 .. Len(batch)
    BY <1>1, LenProperties DEF PolicyShape, Events
  <2>2. 1 \in Int /\ Len(batch) \in Int
    BY <2>1
  <2>3. IsFiniteSet(1 .. Len(batch))
    BY <2>2, FS_Interval
  <2> QED
    BY <2>1, <2>3, FS_Subset
<1>5. \/ /\ plugin' = ApplyAll(plugin, batch) /\ reported' = reported
         /\ troubles' = troubles /\ late' = late
      \/ /\ Events(batch) # {} /\ reported' = reported + Cardinality(Events(batch))
         /\ troubles' = troubles + 1
         /\ plugin' \in {plugin, ApplyAll(plugin, batch)} /\ late' \in {late, batch}
  BY DEF Post, Trouble
<1>6. Cardinality(Events(batch)) \in Nat /\ (Events(batch) # {} => Cardinality(Events(batch)) # 0)
  BY <1>4, FS_CardinalityType, FS_EmptySet
<1>7. ApplyAll(plugin, batch) \in IdOrders
  BY <1>1, AppliedUnderWay DEF PolicyShape
<1>8. ask' \in RemoteAsks
  BY <1>1, <1>2 DEF PolicyShape, RemoteAsks
<1>9. PolicyShape'
  <2>1. reported' \in Nat /\ troubles' \in Nat
    BY <1>1, <1>5, <1>6 DEF PolicyShape
  <2>2. plugin' \in IdOrders /\ late' \in Seq(Queued)
    BY <1>1, <1>5, <1>7 DEF PolicyShape
  <2> QED
    BY <1>1, <1>2, <1>3, <1>8, <2>1, <2>2 DEF PolicyShape
<1>10. BarriersInv'
  <2>1. OneBarrier'
    BY <1>1, <1>2, <1>3 DEF BarriersInv, OneBarrier
  <2>2. CASE Passed
    <3>1. ask.pc = "wait" /\ Contains(batch, Barrier)
      BY <1>1, <2>2 DEF BarriersInv, Passed
    <3>2. ask'.pc = "call" /\ ask'.synced = TRUE /\ ask'.alone = ask.alone
      BY <1>1, <1>2, <2>2 DEF PolicyShape, RemoteAsks
    <3>3. ~Contains(queue, Barrier)
      BY <1>1, <3>1 DEF BarriersInv, OneBarrier
    <3> QED
      BY <1>1, <1>2, <1>3, <2>1, <3>1, <3>2, <3>3 DEF BarriersInv
  <2>3. CASE ~Passed
    BY <1>1, <1>2, <1>3, <2>3, <2>1 DEF BarriersInv
  <2> QED
    BY <2>2, <2>3
<1>11. CatchesUp'
  <2> SUFFICES ASSUME reported' = 0, ~untold'
               PROVE  /\ late' = <<>> /\ UnderWay'
                      /\ ask'.pc = "told" /\ ask'.synced /\ ask'.alone =>
                           ask'.answer = PickVictim(exact')
    BY DEF CatchesUp
  <2>1. /\ reported = 0 /\ ~untold
        /\ plugin' = ApplyAll(plugin, batch) /\ late' = late
    BY <1>1, <1>2, <1>5, <1>6 DEF PolicyShape
  <2>2. PICK mid : Reaches(plugin, batch, mid) /\ Reaches(mid, queue, exact)
    BY <1>1, <2>1 DEF CatchesUp, UnderWay
  <2>3. plugin' = mid /\ mid \in IdOrders
    BY <1>1, <2>1, <2>2, AppliedIsReached, ReachedOrders DEF PolicyShape
  <2>4. Reaches(mid, <<>>, mid)
    BY <2>3, ReachesStill
  <2>5. UnderWay'
    BY <1>2, <2>2, <2>3, <2>4 DEF UnderWay
  <2>6. ask'.pc = "told" => ask' = ask
    BY <1>1, <1>2 DEF PolicyShape, RemoteAsks
  <2> QED
    BY <1>1, <1>2, <2>1, <2>5, <2>6 DEF CatchesUp
<1> QED
  BY <1>9, <1>10, <1>11 DEF PolicyInv

LEMMA ArriveLateKeeps ==
  ASSUME PolicyInv, ArriveLate
  PROVE  PolicyInv'
<1>1. PolicyShape /\ BarriersInv /\ CatchesUp
  BY DEF PolicyInv
<1>2. /\ queue' = queue /\ batch' = batch /\ ask' = ask /\ reported' = reported
      /\ closed' = closed /\ happened' = happened /\ troubles' = troubles
      /\ exact' = exact /\ untold' = untold /\ late # <<>> /\ late' = <<>>
      /\ plugin' = ApplyAll(plugin, late)
  BY DEF ArriveLate
<1>3. plugin' \in IdOrders /\ <<>> \in Seq(Queued)
  BY <1>1, <1>2, AppliedUnderWay, EmptySeq DEF PolicyShape
<1>4. PolicyShape'
  BY <1>1, <1>2, <1>3 DEF PolicyShape
<1>5. BarriersInv'
  BY <1>1, <1>2 DEF BarriersInv, OneBarrier
<1>6. CatchesUp'
  BY <1>1, <1>2 DEF CatchesUp
<1> QED
  BY <1>4, <1>5, <1>6 DEF PolicyInv

LEMMA SyncEventsKeeps ==
  ASSUME PolicyInv, SyncEvents
  PROVE  PolicyInv'
<1>1. PolicyShape /\ BarriersInv /\ CatchesUp
  BY DEF PolicyInv
<1>2. /\ batch' = batch /\ late' = late /\ plugin' = plugin /\ reported' = reported
      /\ closed' = closed /\ happened' = happened /\ troubles' = troubles
      /\ exact' = exact /\ untold' = untold /\ ask.pc = "sync"
      /\ queue' = Append(queue, Barrier) /\ Len(queue) < EventBuffer
      /\ ask' = [ask EXCEPT !.pc = "wait"]
  BY DEF SyncEvents
<1>3. ask' \in RemoteAsks /\ ask'.pc = "wait" /\ ask'.synced = ask.synced
  BY <1>1, <1>2 DEF PolicyShape, RemoteAsks
<1>4. /\ queue' \in Seq(Queued) /\ Len(queue') = Len(queue) + 1 /\ Len(queue) \in Nat
      /\ \A i \in 1 .. Len(queue) : queue'[i] = queue[i]
      /\ queue'[Len(queue) + 1] = Barrier
  BY <1>1, <1>2, QueuedFacts, AppendProperties, LenProperties DEF PolicyShape
<1>5. PolicyShape'
  <2>1. Len(queue') <= EventBuffer
    BY <1>2, <1>4, PolicyAdapterAssumption
  <2> QED
    BY <1>1, <1>2, <1>3, <1>4, <2>1 DEF PolicyShape
<1>6. BarriersInv'
  <2>1. ~Contains(queue, Barrier) /\ ~Contains(batch, Barrier) /\ ask.synced = FALSE
    BY <1>1, <1>2 DEF BarriersInv, PolicyShape, RemoteAsks
  <2>2. \A i \in 1 .. Len(queue') : queue'[i] = Barrier => i = Len(queue')
    <3> SUFFICES ASSUME NEW i \in 1 .. Len(queue'), i # Len(queue')
                 PROVE  queue'[i] # Barrier
      OBVIOUS
    <3>1. i \in 1 .. Len(queue)
      BY <1>4
    <3> QED
      BY <1>4, <2>1, <3>1 DEF Contains
  <2>3. Events(queue') = Events(queue)
    <3>1. DOMAIN queue' = 1 .. Len(queue) + 1 /\ DOMAIN queue = 1 .. Len(queue)
      BY <1>1, <1>4, LenProperties DEF PolicyShape
    <3>2. Barrier.op \notin Ops
      BY QueuedFacts
    <3>3. \A i \in 1 .. Len(queue) + 1 : i \in 1 .. Len(queue) \/ i = Len(queue) + 1
      BY <1>4
    <3>4. \A i \in 1 .. Len(queue) : i \in 1 .. Len(queue) + 1
      BY <1>4
    <3> QED
      BY <1>4, <3>1, <3>2, <3>3, <3>4 DEF Events
  <2>4. OneBarrier'
    BY <1>2, <2>1, <2>2 DEF OneBarrier
  <2> QED
    BY <1>1, <1>2, <1>3, <2>1, <2>2, <2>3, <2>4 DEF BarriersInv
<1>7. ASSUME UnderWay
      PROVE  UnderWay'
  <2>1. PICK mid : Reaches(plugin, batch, mid) /\ Reaches(mid, queue, exact)
    BY <1>7 DEF UnderWay
  <2>2. Deliver(exact, Barrier) = exact
    BY QueuedFacts DEF Deliver
  <2>3. Reaches(mid, queue', Deliver(exact, Barrier))
    BY <1>1, <1>2, <2>1, QueuedFacts, ReachesFurther DEF PolicyShape
  <2> QED
    BY <1>2, <2>1, <2>2, <2>3 DEF UnderWay
<1>8. CatchesUp'
  BY <1>1, <1>2, <1>3, <1>7 DEF CatchesUp
<1> QED
  BY <1>5, <1>6, <1>8 DEF PolicyInv

LEMMA GivingUpKeeps ==
  ASSUME PolicyInv, SyncGivesUp
  PROVE  PolicyInv'
<1>1. PolicyShape /\ BarriersInv /\ CatchesUp
  BY DEF PolicyInv
<1>2. /\ late' = late /\ plugin' = plugin /\ reported' = reported
      /\ closed' = closed /\ happened' = happened
      /\ exact' = exact /\ untold' = untold /\ ask.pc \in {"sync", "wait"}
      /\ queue' = Abandoned(queue) /\ batch' = Abandoned(batch)
      /\ ask' = [ask EXCEPT !.pc = "call"] /\ troubles' \in Nat
  BY <1>1 DEF SyncGivesUp, Trouble, PolicyShape
<1>3. ask' \in RemoteAsks /\ ask'.pc = "call" /\ ask'.synced = FALSE
  <2>1. ask.synced = FALSE
    BY <1>1, <1>2 DEF PolicyShape, RemoteAsks, BarriersInv
  <2> QED
    BY <1>1, <1>2, <2>1 DEF PolicyShape, RemoteAsks
<1>4. /\ queue' \in Seq(Queued) /\ Len(queue') = Len(queue)
      /\ ~Contains(queue', Barrier) /\ Events(queue') = Events(queue)
      /\ \A from, to : Reaches(from, queue, to) => Reaches(from, queue', to)
  BY <1>1, <1>2, ReachesAbandoned DEF PolicyShape
<1>5. /\ batch' \in Seq(Queued) /\ ~Contains(batch', Barrier)
      /\ Events(batch') = Events(batch)
      /\ \A from, to : Reaches(from, batch, to) => Reaches(from, batch', to)
  BY <1>1, <1>2, ReachesAbandoned DEF PolicyShape
<1>6. PolicyShape'
  BY <1>1, <1>2, <1>3, <1>4, <1>5 DEF PolicyShape
<1>7. BarriersInv'
  <2>1. OneBarrier'
    BY <1>4, <1>5 DEF OneBarrier, Contains
  <2> QED
    BY <1>1, <1>2, <1>3, <1>4, <1>5, <2>1 DEF BarriersInv
<1>8. UnderWay => UnderWay'
  BY <1>2, <1>4, <1>5 DEF UnderWay
<1>9. CatchesUp'
  BY <1>1, <1>2, <1>3, <1>8 DEF CatchesUp
<1> QED
  BY <1>6, <1>7, <1>9 DEF PolicyInv

LEMMA CallVictimKeeps ==
  ASSUME PolicyInv, CallVictim
  PROVE  PolicyInv'
<1>1. PolicyShape /\ BarriersInv /\ CatchesUp
  BY DEF PolicyInv
<1>2. /\ queue' = queue /\ batch' = batch /\ late' = late /\ plugin' = plugin
      /\ reported' = reported /\ closed' = closed /\ happened' = happened
      /\ exact' = exact /\ untold' = untold /\ ask.pc = "call"
      /\ \/ ask' = [ask EXCEPT !.pc = "told", !.answer = PickVictim(plugin)]
         \/ ask' = IdleAsk
  BY DEF CallVictim
<1>3. troubles' \in Nat
  BY <1>1 DEF CallVictim, Trouble, PolicyShape
<1>4. PickVictim(plugin) \in Ids \cup {NoId}
  <2>1. plugin \in Seq(Ids)
    BY <1>1 DEF PolicyShape, IdOrders
  <2>2. plugin # <<>> => Last(plugin) \in Ids
    <3>1. plugin # <<>> => Len(plugin) \in 1 .. Len(plugin)
      BY <2>1, EmptySeq, LenProperties
    <3> QED
      BY <2>1, <3>1, ElementOfSeq DEF Last
  <2> QED
    BY <2>2 DEF PickVictim
<1>5. ask' \in RemoteAsks
  <2>1. [ask EXCEPT !.pc = "told", !.answer = PickVictim(plugin)] \in RemoteAsks
    BY <1>1, <1>4 DEF PolicyShape, RemoteAsks
  <2>2. IdleAsk \in RemoteAsks
    BY DEF RemoteAsks, IdleAsk
  <2> QED
    BY <1>2, <2>1, <2>2
<1>6. PolicyShape'
  BY <1>1, <1>2, <1>3, <1>5 DEF PolicyShape
<1>7. /\ ask'.pc \in {"told", "idle"}
      /\ ask'.pc = "told" => /\ ask'.synced = ask.synced /\ ask'.alone = ask.alone
                             /\ ask'.answer = PickVictim(plugin)
      /\ ask'.pc = "idle" => ask'.synced = FALSE
  <2>1. CASE ask' = IdleAsk
    BY <2>1 DEF IdleAsk
  <2>2. CASE ask' = [ask EXCEPT !.pc = "told", !.answer = PickVictim(plugin)]
    BY <1>1, <2>2 DEF PolicyShape, RemoteAsks
  <2> QED
    BY <1>2, <2>1, <2>2
<1>8. BarriersInv'
  BY <1>1, <1>2, <1>7 DEF BarriersInv, OneBarrier
<1>9. CatchesUp'
  <2>1. UnderWay => UnderWay'
    BY <1>2 DEF UnderWay
  <2>2. ASSUME UnderWay, ask.synced, ask.alone
        PROVE  plugin = exact
    <3>1. queue = <<>> /\ batch = <<>>
      BY <1>1, <1>2, <2>2 DEF BarriersInv
    <3>2. PICK mid : Reaches(plugin, <<>>, mid) /\ Reaches(mid, <<>>, exact)
      BY <2>2, <3>1 DEF UnderWay
    <3>3. <<>> \in Seq(Queued) /\ Events(<<>>) = {}
      BY <1>1, ReachesStill DEF PolicyShape
    <3> QED
      BY <3>2, <3>3, ReachesNowhere
  <2> QED
    BY <1>1, <1>2, <1>7, <2>1, <2>2 DEF CatchesUp
<1> QED
  BY <1>6, <1>8, <1>9 DEF PolicyInv

LEMMA CallFlushKeeps ==
  ASSUME PolicyInv, CallFlush
  PROVE  PolicyInv'
<1>1. PolicyShape /\ BarriersInv /\ CatchesUp
  BY DEF PolicyInv
<1>2. /\ queue' = queue /\ batch' = batch /\ late' = late /\ reported' = reported
      /\ closed' = closed /\ happened' = happened /\ ask' = IdleAsk /\ exact' = <<>>
      /\ untold' = (untold \/ queue # <<>> \/ batch # <<>> \/ late # <<>>
                      \/ troubles' # troubles)
      /\ ask.pc = "call"
      /\ \/ plugin' = <<>> /\ troubles' = troubles
         \/ plugin' \in {plugin, <<>>} /\ troubles' = troubles + 1
  BY DEF CallFlush, Trouble
<1>3. <<>> \in IdOrders /\ <<>> \in Seq(Queued) /\ Reaches(<<>>, <<>>, <<>>)
  <2>1. <<>> \in IdOrders
    BY DEF IdOrders, IsInjective
  <2> QED
    BY <2>1, ReachesStill
<1>4. ask' \in RemoteAsks /\ ask'.pc = "idle" /\ ask'.synced = FALSE
  BY <1>2 DEF RemoteAsks, IdleAsk
<1>5. PolicyShape'
  <2>1. plugin' \in IdOrders /\ exact' \in IdOrders /\ troubles' \in Nat /\ untold' \in BOOLEAN
    BY <1>1, <1>2, <1>3 DEF PolicyShape
  <2> QED
    BY <1>1, <1>2, <1>4, <2>1 DEF PolicyShape
<1>6. BarriersInv'
  BY <1>1, <1>2, <1>4 DEF BarriersInv, OneBarrier
<1>7. CatchesUp'
  <2> SUFFICES ASSUME ~untold'
               PROVE  late' = <<>> /\ UnderWay'
    BY <1>4 DEF CatchesUp
  <2>1. queue = <<>> /\ batch = <<>> /\ late = <<>> /\ troubles' = troubles
    BY <1>2
  <2>2. plugin' = <<>>
    BY <1>1, <1>2, <2>1 DEF PolicyShape
  <2> QED
    BY <1>2, <1>3, <2>1, <2>2 DEF UnderWay
<1> QED
  BY <1>5, <1>6, <1>7 DEF PolicyInv

(* The steps that only change where a caller or the adapter is.            *)
LEMMA OtherAskKeeps ==
  ASSUME PolicyInv,
         \/ \E op \in {"victim", "flush"} : BeginAsk(op)
         \/ EndAsk
         \/ Close
         \/ Closed
         \/ UNCHANGED policyVars
  PROVE  PolicyInv'
<1>1. PolicyShape /\ BarriersInv /\ CatchesUp
  BY DEF PolicyInv
<1>2. /\ queue' = queue /\ batch' = batch /\ late' = late /\ plugin' = plugin
      /\ reported' = reported /\ happened' = happened /\ troubles' = troubles
      /\ exact' = exact /\ untold' = untold
  BY DEF BeginAsk, EndAsk, Close, Closed, policyVars
<1>3. /\ closed' \in {"open", "closing", "closed"}
      /\ closed' = "closed" => closed = "closed" \/ (queue = <<>> /\ batch = <<>>)
  <2>1. \/ closed' = closed \/ closed' = "closing"
        \/ closed' = "closed" /\ queue = <<>> /\ batch = <<>>
    BY DEF BeginAsk, EndAsk, Close, Closed, policyVars
  <2>2. closed \in {"open", "closing", "closed"}
    BY <1>1 DEF PolicyShape
  <2> QED
    BY <2>1, <2>2
<1>4. \/ ask' = ask
      \/ ask.pc \in {"idle", "told"} /\ ask' = IdleAsk
      \/ /\ ask.pc = "idle"
         /\ \E op \in {"victim", "flush"} :
              ask' = [IdleAsk EXCEPT !.pc = "sync", !.op = op, !.alone = TRUE]
  BY DEF BeginAsk, EndAsk, Close, Closed, policyVars
<1>5. /\ ask' \in RemoteAsks
      /\ \/ ask' = ask
         \/ ask.pc \in {"idle", "told"} /\ ask'.pc \in {"idle", "sync"} /\ ask'.synced = FALSE
  <2>1. IdleAsk \in RemoteAsks /\ IdleAsk.pc = "idle" /\ IdleAsk.synced = FALSE
    BY DEF RemoteAsks, IdleAsk
  <2>2. ASSUME NEW op \in {"victim", "flush"},
               ask' = [IdleAsk EXCEPT !.pc = "sync", !.op = op, !.alone = TRUE]
        PROVE  ask' \in RemoteAsks /\ ask'.pc = "sync" /\ ask'.synced = FALSE
    BY <2>2 DEF RemoteAsks, IdleAsk
  <2>3. ask \in RemoteAsks
    BY <1>1 DEF PolicyShape
  <2> QED
    BY <1>4, <2>1, <2>2, <2>3
<1>6. PolicyShape'
  BY <1>1, <1>2, <1>3, <1>5 DEF PolicyShape
<1>7. BarriersInv'
  <2>1. Events(<<>>) = {}
    BY <1>1, ReachesStill DEF PolicyShape
  <2> QED
    BY <1>1, <1>2, <1>3, <1>5, <2>1 DEF BarriersInv, OneBarrier
<1>8. UnderWay => UnderWay'
  BY <1>2 DEF UnderWay
<1>9. CatchesUp'
  BY <1>1, <1>2, <1>5, <1>8 DEF CatchesUp
<1> QED
  BY <1>6, <1>7, <1>9 DEF PolicyInv

LEMMA PolicyInvShows ==
  ASSUME PolicyInv
  PROVE  PolicyTypeOK /\ PolicyKeepsUp
<1>1. PolicyShape /\ BarriersInv /\ CatchesUp
  BY DEF PolicyInv
<1>2. PolicyTypeOK
  <2>1. queue \in Seq(Queued) /\ batch \in Seq(Queued) /\ late \in Seq(Queued)
    BY <1>1 DEF PolicyShape
  <2>2. plugin \in Seq(Ids) /\ IsInjective(plugin) /\ exact \in Seq(Ids)
    BY <1>1 DEF PolicyShape, IdOrders
  <2> QED
    BY <1>1, <2>1, <2>2 DEF PolicyShape, Queued, RemoteAsks, PolicyTypeOK
<1>3. ASSUME reported = 0, ~untold, Events(queue) = {}, Events(batch) = {}
      PROVE  plugin = exact
  <2>1. PICK mid : Reaches(plugin, batch, mid) /\ Reaches(mid, queue, exact)
    BY <1>1, <1>3 DEF CatchesUp, UnderWay
  <2> QED
    BY <1>1, <1>3, <2>1, ReachesNowhere DEF PolicyShape
<1>4. Events(<<>>) = {}
  BY <1>1, ReachesStill DEF PolicyShape
<1>5. PolicyKeepsUp
  BY <1>1, <1>3, <1>4 DEF PolicyKeepsUp, BarriersInv, CatchesUp
<1> QED
  BY <1>2, <1>5

(* Whatever the sizes of buffer and batches and however calls of the cache *)
(* overlap: as long as no event is reported lost and no flush went wrong,  *)
(* the plugin has the order a local policy would have once all is sent, a  *)
(* Close sends all, and a Victim whose barrier passed, with no event since,*)
(* gets the id a local policy would give (policy.go:24-29, 122-201).       *)
THEOREM RemoteKeepsUp == PolicySpec => [](PolicyTypeOK /\ PolicyKeepsUp)
<1>1. PolicyInit => PolicyInv
  BY PolicyInitially
<1>2. PolicyInv /\ [PolicyNext]_policyVars => PolicyInv'
  <2> SUFFICES ASSUME PolicyInv, [PolicyNext]_policyVars
               PROVE  PolicyInv'
    OBVIOUS
  <2>1. ASSUME NEW e \in Event, Notify(e)
        PROVE  PolicyInv'
    BY <2>1, NotifyKeeps
  <2>2. CASE Take
    BY <2>2, TakeKeeps
  <2>3. CASE Post
    BY <2>3, PostKeeps
  <2>4. CASE ArriveLate
    BY <2>4, ArriveLateKeeps
  <2>5. CASE SyncEvents
    BY <2>5, SyncEventsKeeps
  <2>6. CASE SyncGivesUp
    BY <2>6, GivingUpKeeps
  <2>7. CASE CallVictim
    BY <2>7, CallVictimKeeps
  <2>8. CASE CallFlush
    BY <2>8, CallFlushKeeps
  <2>9. CASE \/ \E op \in {"victim", "flush"} : BeginAsk(op)
             \/ EndAsk
             \/ Close
             \/ Closed
             \/ UNCHANGED policyVars
    BY <2>9, OtherAskKeeps
  <2> QED
    BY <2>1, <2>2, <2>3, <2>4, <2>5, <2>6, <2>7, <2>8, <2>9 DEF PolicyNext
<1>3. PolicyInv => PolicyTypeOK /\ PolicyKeepsUp
  BY PolicyInvShows
<1> QED
  BY <1>1, <1>2, <1>3, PTL DEF PolicySpec

-------------------------------------------------------------------------------
(* Pages: what the plugin sorts                                            *)

(* The ages of the kept entries are 0, 1, ... up to their number, in the   *)
(* order of the entries.                                                   *)
LEMMA AgesFit ==
  ASSUME kept \subseteq Numbers
  PROVE  /\ IsFiniteSet(kept) /\ Cardinality(kept) \in Nat
         /\ \A n \in kept : Age(n) \in 0 .. Cardinality(kept) - 1
         /\ \A m, n \in kept : m < n => Age(m) < Age(n)
         /\ \A m, n \in kept : Age(m) = Age(n) => m = n
         /\ \A k \in 0 .. Cardinality(kept) - 1 : \E n \in kept : Age(n) = k
<1>1. MaxEntries \in Nat /\ 1 \in Int /\ MaxEntries \in Int
  BY PagedStoreAssumption
<1>2. IsFiniteSet(kept)
  BY <1>1, FS_Interval, FS_Subset DEF Numbers
<1>3. Cardinality(kept) \in Nat
  BY <1>2, FS_CardinalityType
<1>4. \A n \in kept : n \in Nat
  BY <1>1 DEF Numbers
<1> DEFINE Before(n) == {m \in kept : m < n}
<1>5. \A n \in kept : /\ IsFiniteSet(Before(n)) /\ Cardinality(Before(n)) \in Nat
                      /\ Age(n) = Cardinality(Before(n))
  <2> SUFFICES ASSUME NEW n \in kept
               PROVE  /\ IsFiniteSet(Before(n)) /\ Cardinality(Before(n)) \in Nat
                      /\ Age(n) = Cardinality(Before(n))
    OBVIOUS
  <2>1. Before(n) \in SUBSET kept
    OBVIOUS
  <2>2. IsFiniteSet(Before(n))
    BY <1>2, <2>1, FS_Subset
  <2>3. Cardinality(Before(n)) \in Nat
    BY <2>2, FS_CardinalityType
  <2> QED
    BY <2>2, <2>3 DEF Age
<1>6. \A n \in kept : Cardinality(Before(n)) < Cardinality(kept)
  <2> SUFFICES ASSUME NEW n \in kept
               PROVE  Cardinality(Before(n)) < Cardinality(kept)
    OBVIOUS
  <2>1. Before(n) \in SUBSET kept /\ n \notin Before(n)
    BY <1>4
  <2>2. Before(n) # kept
    BY <2>1
  <2> HIDE DEF Before
  <2>3. /\ Cardinality(Before(n)) <= Cardinality(kept)
        /\ Cardinality(kept) = Cardinality(Before(n)) => kept = Before(n)
    BY <1>2, <2>1, FS_Subset
  <2> QED
    BY <1>3, <1>5, <2>2, <2>3
<1>7. \A m, n \in kept : m < n => Cardinality(Before(m)) < Cardinality(Before(n))
  <2> SUFFICES ASSUME NEW m \in kept, NEW n \in kept, m < n
               PROVE  Cardinality(Before(m)) < Cardinality(Before(n))
    OBVIOUS
  <2>1. Before(m) \in SUBSET Before(n) /\ m \in Before(n) /\ m \notin Before(m)
    BY <1>4
  <2>2. Before(m) # Before(n)
    BY <2>1
  <2> HIDE DEF Before
  <2>3. /\ Cardinality(Before(m)) <= Cardinality(Before(n))
        /\ Cardinality(Before(n)) = Cardinality(Before(m)) => Before(n) = Before(m)
    BY <1>5, <2>1, FS_Subset
  <2> QED
    BY <1>5, <2>2, <2>3
<1> HIDE DEF Before
<1>8. \A n \in kept : Age(n) \in 0 .. Cardinality(kept) - 1
  BY <1>3, <1>5, <1>6
<1>9. \A m, n \in kept : m < n => Age(m) < Age(n)
  BY <1>5, <1>7
<1>10. \A m, n \in kept : Age(m) = Age(n) => m = n
  BY <1>4, <1>8, <1>9
<1> DEFINE Ages == 0 .. Cardinality(kept) - 1
           f == [n \in kept |-> Age(n)]
<1>11. f \in [kept -> Ages] /\ \A m, n \in kept : f[m] = f[n] => m = n
  BY <1>8, <1>10
<1>12. IsFiniteSet(Ages) /\ Cardinality(Ages) = Cardinality(kept)
  <2>1. 0 \in Int /\ Cardinality(kept) - 1 \in Int
    BY <1>3
  <2>2. /\ IsFiniteSet(Ages)
        /\ Cardinality(Ages) = IF 0 > Cardinality(kept) - 1 THEN 0
                               ELSE Cardinality(kept) - 1 - 0 + 1
    BY <2>1, FS_Interval
  <2> QED
    BY <1>3, <2>2
<1>13. f \in Surjection(kept, Ages)
  <2> HIDE DEF f, Ages
  <2>1. f \in Injection(kept, Ages)
    BY <1>11, Fun_IsInj
  <2> QED
    BY <1>12, <2>1, FS_Injection
<1>14. \A k \in Ages : \E n \in kept : f[n] = k
  <2> HIDE DEF f, Ages
  <2> QED
    BY <1>13, Fun_SurjectionProperties
<1> QED
  BY <1>2, <1>3, <1>8, <1>9, <1>10, <1>14

(* So the order by age names every kept entry once, the oldest first.      *)
LEMMA OldestFacts ==
  ASSUME kept \subseteq Numbers
  PROVE  /\ Oldest \in Seq(Numbers) /\ Len(Oldest) = Cardinality(kept)
         /\ Cardinality(kept) \in Nat
         /\ \A k \in 1 .. Len(Oldest) : Oldest[k] \in kept /\ Age(Oldest[k]) = k - 1
         /\ \A n \in kept : /\ Age(n) \in 0 .. Len(Oldest) - 1
                            /\ Oldest[Age(n) + 1] = n
<1>1. /\ Cardinality(kept) \in Nat
      /\ \A n \in kept : Age(n) \in 0 .. Cardinality(kept) - 1
      /\ \A m, n \in kept : Age(m) = Age(n) => m = n
      /\ \A k \in 0 .. Cardinality(kept) - 1 : \E n \in kept : Age(n) = k
  BY AgesFit
<1> DEFINE Pick(k) == CHOOSE n \in kept : Age(n) = k - 1
<1>2. \A k \in 1 .. Cardinality(kept) : Pick(k) \in kept /\ Age(Pick(k)) = k - 1
  <2> SUFFICES ASSUME NEW k \in 1 .. Cardinality(kept)
               PROVE  Pick(k) \in kept /\ Age(Pick(k)) = k - 1
    OBVIOUS
  <2>1. k - 1 \in 0 .. Cardinality(kept) - 1
    BY <1>1
  <2>2. \E n \in kept : Age(n) = k - 1
    BY <1>1, <2>1
  <2> QED
    BY <2>2
<1>3. Oldest = [k \in 1 .. Cardinality(kept) |-> Pick(k)]
  BY DEF Oldest
<1> HIDE DEF Pick
<1>4. Oldest \in [1 .. Cardinality(kept) -> Numbers]
  BY <1>2, <1>3
<1>5. Oldest \in Seq(Numbers) /\ Len(Oldest) = Cardinality(kept)
  BY <1>1, <1>4
<1>6. \A k \in 1 .. Cardinality(kept) : Oldest[k] \in kept /\ Age(Oldest[k]) = k - 1
  BY <1>2, <1>3
<1>7. ASSUME NEW n \in kept
      PROVE  Oldest[Age(n) + 1] = n
  <2> DEFINE k == Age(n) + 1
  <2>1. k \in 1 .. Cardinality(kept) /\ k - 1 = Age(n)
    BY <1>1
  <2> HIDE DEF k
  <2>2. Oldest[k] \in kept /\ Age(Oldest[k]) = Age(n)
    BY <1>6, <2>1
  <2>3. Oldest[k] = n
    BY <1>1, <2>2
  <2> QED
    BY <2>3 DEF k
<1> QED
  BY <1>1, <1>5, <1>6, <1>7

Top == IF LastPage THEN Cardinality(kept) ELSE listing.cursor + PageLimit

(* A page is a piece of that order.                                        *)
LEMMA PageFacts ==
  ASSUME kept \subseteq Numbers, listing.cursor \in Nat
  PROVE  /\ Page \in Seq(Numbers) /\ IsInjective(Page)
         /\ Top \in Nat /\ Top <= Len(Oldest)
         /\ Page = SubSeq(Oldest, listing.cursor + 1, Top)
         /\ \A n \in kept : listing.cursor <= Age(n) /\ Age(n) < Top => n \in Range(Page)
<1>1. /\ Oldest \in Seq(Numbers) /\ Len(Oldest) = Cardinality(kept)
      /\ Cardinality(kept) \in Nat
      /\ \A k \in 1 .. Len(Oldest) : Oldest[k] \in kept /\ Age(Oldest[k]) = k - 1
      /\ \A n \in kept : /\ Age(n) \in 0 .. Len(Oldest) - 1
                         /\ Oldest[Age(n) + 1] = n
  BY OldestFacts
<1>2. PageLimit \in Nat
  BY PagedStoreAssumption
<1>3. Top \in Nat /\ Top <= Len(Oldest)
  BY <1>1, <1>2 DEF Top, LastPage
<1>4. Page = SubSeq(Oldest, listing.cursor + 1, Top)
  BY DEF Page, Top
<1> DEFINE c == listing.cursor
<1>5. /\ Page \in Seq(Numbers)
      /\ \A i \in 1 .. Len(Page) : c + i \in 1 .. Len(Oldest) /\ Page[i] = Oldest[c + i]
      /\ \A k \in c + 1 .. Top : k - c \in 1 .. Len(Page)
  <2> HIDE DEF c
  <2>1. c \in Nat /\ Page = SubSeq(Oldest, c + 1, Top)
    BY <1>4 DEF c
  <2> HIDE DEF Page
  <2> QED
    BY <1>1, <1>3, <2>1
<1>6. IsInjective(Page)
  <2> SUFFICES ASSUME NEW i \in 1 .. Len(Page), NEW j \in 1 .. Len(Page), Page[i] = Page[j]
               PROVE  i = j
    BY <1>5 DEF IsInjective
  <2> HIDE DEF c
  <2>1. PICK x \in 1 .. Len(Oldest) : x = c + i /\ Oldest[x] = Page[i]
    BY <1>5
  <2>2. PICK y \in 1 .. Len(Oldest) : y = c + j /\ Oldest[y] = Page[i]
    BY <1>5
  <2>3. Age(Oldest[x]) = x - 1 /\ Age(Oldest[y]) = y - 1
    BY <1>1
  <2>4. x = y
    BY <2>1, <2>2, <2>3
  <2>5. c \in Nat /\ i \in Int /\ j \in Int
    BY DEF c
  <2> QED
    BY <2>1, <2>2, <2>4, <2>5
<1>7. ASSUME NEW n \in kept, c <= Age(n), Age(n) < Top
      PROVE  n \in Range(Page)
  <2> DEFINE k == Age(n) + 1
             i == k - c
  <2>1. Age(n) \in Nat /\ Oldest[k] = n
    BY <1>1
  <2>2. k \in c + 1 .. Top /\ c + i = k
    BY <1>3, <1>7, <2>1
  <2> HIDE DEF k
  <2>3. i \in 1 .. Len(Page)
    BY <1>5, <2>2
  <2> HIDE DEF i
  <2>4. Page[i] = n
    BY <1>5, <2>1, <2>2, <2>3
  <2> QED
    BY <1>5, <2>3, <2>4 DEF Range
<1> QED
  BY <1>3, <1>4, <1>5, <1>6, <1>7

(* Two sequences without repetition and without a common element.          *)
LEMMA Joined ==
  ASSUME NEW S, NEW s \in Seq(S), NEW t \in Seq(S),
         IsInjective(s), IsInjective(t), Range(t) \cap Range(s) = {}
  PROVE  s \o t \in Seq(S) /\ IsInjective(s \o t)
<1>1. /\ s \o t \in Seq(S) /\ Len(s \o t) = Len(s) + Len(t)
      /\ \A i \in 1 .. Len(s) : (s \o t)[i] = s[i]
      /\ \A i \in Len(s) + 1 .. Len(s) + Len(t) : (s \o t)[i] = t[i - Len(s)]
  OBVIOUS
<1>2. /\ \A i \in 1 .. Len(s) : s[i] \in Range(s)
      /\ \A i \in 1 .. Len(t) : t[i] \in Range(t)
  BY DEF Range
<1>3. /\ \A i, j \in 1 .. Len(s) : s[i] = s[j] => i = j
      /\ \A i, j \in 1 .. Len(t) : t[i] = t[j] => i = j
      /\ \A i \in 1 .. Len(s), j \in 1 .. Len(t) : s[i] # t[j]
  <2>1. /\ \A i, j \in 1 .. Len(s) : s[i] = s[j] => i = j
        /\ \A i, j \in 1 .. Len(t) : t[i] = t[j] => i = j
    BY DEF IsInjective
  <2>2. \A i \in 1 .. Len(s), j \in 1 .. Len(t) : s[i] # t[j]
    BY <1>2
  <2> QED
    BY <2>1, <2>2
<1>4. ASSUME NEW i \in 1 .. Len(s) + Len(t), NEW j \in 1 .. Len(s) + Len(t),
             (s \o t)[i] = (s \o t)[j]
      PROVE  i = j
  <2>1. Len(s) \in Nat /\ Len(t) \in Nat
    OBVIOUS
  <2>2. i \in 1 .. Len(s) \/ (i \in Len(s) + 1 .. Len(s) + Len(t) /\ i - Len(s) \in 1 .. Len(t))
    BY <2>1
  <2>3. j \in 1 .. Len(s) \/ (j \in Len(s) + 1 .. Len(s) + Len(t) /\ j - Len(s) \in 1 .. Len(t))
    BY <2>1
  <2>4. CASE i \in 1 .. Len(s) /\ j \in 1 .. Len(s)
    BY <1>1, <1>3, <1>4, <2>4
  <2>5. CASE i \notin 1 .. Len(s) /\ j \notin 1 .. Len(s)
    <3>1. t[i - Len(s)] = t[j - Len(s)]
      BY <1>1, <1>4, <2>2, <2>3, <2>5
    <3>2. i - Len(s) = j - Len(s)
      <4>1. i - Len(s) \in 1 .. Len(t) /\ j - Len(s) \in 1 .. Len(t)
        BY <2>2, <2>3, <2>5
      <4> QED
        BY <1>3, <3>1, <4>1
    <3> QED
      BY <2>1, <3>2
  <2>6. CASE i \in 1 .. Len(s) /\ j \notin 1 .. Len(s)
    BY <1>1, <1>3, <1>4, <2>3, <2>6
  <2>7. CASE i \notin 1 .. Len(s) /\ j \in 1 .. Len(s)
    BY <1>1, <1>3, <1>4, <2>2, <2>7
  <2> QED
    BY <2>4, <2>5, <2>6, <2>7
<1>5. /\ s \o t \in Seq(S) /\ DOMAIN (s \o t) = 1 .. Len(s) + Len(t)
  BY <1>1
<1> DEFINE w == s \o t
<1> HIDE DEF w
<1>6. w \in Seq(S) /\ \A i, j \in DOMAIN w : w[i] = w[j] => i = j
  BY <1>4, <1>5 DEF w
<1> QED
  BY <1>6 DEF IsInjective, w

(* Two pieces that meet.                                                   *)
LEMMA Continued ==
  ASSUME NEW S, NEW s \in Seq(S), NEW m \in 0 .. Len(s), NEW n \in m .. Len(s)
  PROVE  SubSeq(s, 1, m) \o SubSeq(s, m + 1, n) = SubSeq(s, 1, n)
<1> DEFINE a == SubSeq(s, 1, m)
           b == SubSeq(s, m + 1, n)
           w == SubSeq(s, 1, n)
<1>1. /\ a \in Seq(S) /\ Len(a) = m /\ \A i \in 1 .. m : a[i] = s[i]
      /\ b \in Seq(S) /\ Len(b) = n - m /\ \A i \in 1 .. n - m : b[i] = s[m + i]
      /\ w \in Seq(S) /\ Len(w) = n /\ \A i \in 1 .. n : w[i] = s[i]
  <2>1. Len(s) \in Nat /\ m \in Nat /\ n \in Nat
    OBVIOUS
  <2>2. a \in Seq(S) /\ Len(a) = m /\ \A i \in 1 .. m : a[i] = s[i]
    BY <2>1
  <2>3. b \in Seq(S) /\ Len(b) = n - m /\ \A i \in 1 .. n - m : b[i] = s[m + i]
    BY <2>1
  <2>4. w \in Seq(S) /\ Len(w) = n /\ \A i \in 1 .. n : w[i] = s[i]
    BY <2>1
  <2> QED
    BY <2>2, <2>3, <2>4
<1>5. m \in Nat /\ n \in Nat
  OBVIOUS
<1> HIDE DEF a, b, w
<1>2. /\ a \o b \in Seq(S) /\ Len(a \o b) = n
      /\ \A i \in 1 .. n : (a \o b)[i] = IF i <= m THEN a[i] ELSE b[i - m]
  <2>1. /\ a \o b \in Seq(S) /\ Len(a \o b) = Len(a) + Len(b)
        /\ \A i \in 1 .. Len(a) + Len(b) :
             (a \o b)[i] = IF i <= Len(a) THEN a[i] ELSE b[i - Len(a)]
    BY <1>1, ConcatProperties
  <2>2. Len(a) + Len(b) = n
    BY <1>1, <1>5
  <2> QED
    BY <1>1, <2>1, <2>2
<1>3. \A i \in 1 .. n : (a \o b)[i] = w[i]
  <2> SUFFICES ASSUME NEW i \in 1 .. n
               PROVE  (a \o b)[i] = w[i]
    OBVIOUS
  <2>3. i \in Nat /\ (i <= m \/ i > m)
    BY <1>5
  <2>1. CASE i <= m
    <3>1. i \in 1 .. m
      BY <1>5, <2>1, <2>3
    <3>2. (a \o b)[i] = a[i]
      BY <1>2, <2>1
    <3> QED
      BY <1>1, <3>1, <3>2
  <2>2. CASE i > m
    <3>1. i - m \in 1 .. n - m /\ m + (i - m) = i /\ ~ (i <= m)
      BY <1>5, <2>2, <2>3
    <3>2. (a \o b)[i] = b[i - m]
      <4>1. (a \o b)[i] = IF i <= m THEN a[i] ELSE b[i - m]
        BY <1>2
      <4> QED
        BY <3>1, <4>1
    <3>3. b[i - m] = s[m + (i - m)] /\ w[i] = s[i]
      BY <1>1, <3>1
    <3> QED
      BY <3>1, <3>2, <3>3
  <2> QED
    BY <2>1, <2>2, <2>3
<1>4. a \o b = w
  <2> DEFINE x == a \o b
  <2>1. x \in Seq(S) /\ Len(x) = n /\ w \in Seq(S) /\ Len(w) = n
    BY <1>1, <1>2
  <2>2. \A i \in 1 .. n : x[i] = w[i]
    BY <1>3
  <2> HIDE DEF x
  <2>3. x = w
    BY <2>1, <2>2, SeqEqual
  <2> QED
    BY <2>3 DEF x
<1> QED
  BY <1>4 DEF a, b, w

-------------------------------------------------------------------------------
(* Pages: the list                                                         *)

(* What a list has so far: of what stayed, the entries that fewer others   *)
(* precede in age than the cursor says.                                    *)
SoFar ==
  /\ listing.pages < MaxPages
  /\ ~listing.evicted =>
       \A n \in stayed : Age(n) < listing.cursor => n \in Range(listing.got)
  /\ listing.gated /\ ~listing.flushed =>
       /\ listing.cursor <= Len(Oldest)
       /\ listing.got = SubSeq(Oldest, 1, listing.cursor)

Complete ==
  /\ ~listing.evicted => stayed \subseteq Range(listing.got)
  /\ listing.gated /\ ~listing.flushed => listing.got = Oldest

ListInv ==
  /\ StoreTypeOK
  /\ stayed \subseteq kept
  /\ IsInjective(listing.got)
  /\ listing.pc = "page" => SoFar
  /\ listing.pc = "ok" => Complete

Lists ==
  [pc : {"idle", "page", "ok", "failed"}, gated : BOOLEAN, cursor : Nat,
   pages : 0 .. MaxPages, got : Seq(Numbers), evicted : BOOLEAN, flushed : BOOLEAN]

LEMMA StoreShape ==
  StoreTypeOK <=> /\ kept \subseteq saved
                  /\ saved \subseteq Numbers
                  /\ gateHeld \in BOOLEAN
                  /\ listing \in Lists
                  /\ stayed \subseteq saved
                  /\ gateHeld = (listing.pc # "idle" /\ listing.gated)
  BY DEF StoreTypeOK, Lists

LEMMA IdleListed ==
  /\ IdleList \in Lists
  /\ IdleList.pc = "idle"
  /\ IdleList.got = <<>> /\ IsInjective(IdleList.got)
<1>1. 0 \in 0 .. MaxPages
  BY PagedStoreAssumption
<1>2. IdleList \in Lists /\ IdleList.pc = "idle" /\ IdleList.got = <<>>
  BY <1>1 DEF IdleList, Lists
<1> QED
  BY <1>2 DEF IsInjective

LEMMA StoreInitially == StoreInit => ListInv
<1> SUFFICES ASSUME StoreInit
             PROVE  ListInv
  OBVIOUS
<1>1. listing = IdleList /\ kept = {} /\ saved = {} /\ stayed = {} /\ gateHeld = FALSE
  BY DEF StoreInit
<1>2. StoreTypeOK
  BY <1>1, IdleListed, StoreShape
<1> QED
  BY <1>1, <1>2, IdleListed DEF ListInv

(* An entry that arrives makes the others older or leaves their age.       *)
LEMMA AgesGrow ==
  ASSUME kept' \subseteq Numbers, kept \subseteq kept', NEW n \in kept
  PROVE  Age(n) \in Nat /\ Age(n)' \in Nat /\ Age(n) <= Age(n)'
<1>1. MaxEntries \in Nat /\ 1 \in Int /\ MaxEntries \in Int
  BY PagedStoreAssumption
<1>2. IsFiniteSet(kept')
  BY <1>1, FS_Interval, FS_Subset DEF Numbers
<1> DEFINE now == {m \in kept : m < n}
           then == {m \in kept' : m < n}
<1>3. then \in SUBSET kept' /\ now \in SUBSET then
  OBVIOUS
<1>4. Age(n) = Cardinality(now) /\ Age(n)' = Cardinality(then)
  BY DEF Age
<1> HIDE DEF now, then
<1>5. IsFiniteSet(then)
  BY <1>2, <1>3, FS_Subset
<1>6. IsFiniteSet(now) /\ Cardinality(now) <= Cardinality(then)
  BY <1>3, <1>5, FS_Subset
<1>7. Cardinality(now) \in Nat /\ Cardinality(then) \in Nat
  BY <1>5, <1>6, FS_CardinalityType
<1> QED
  BY <1>4, <1>6, <1>7

(* As long as the entries stay, so does the order.                         *)
LEMMA SameOrder ==
  ASSUME kept' = kept
  PROVE  Oldest' = Oldest /\ \A n : Age(n)' = Age(n)
BY DEF Oldest, Age

LEMMA SaveKeepsList ==
  ASSUME ListInv, NEW n \in Numbers, SaveEntry(n)
  PROVE  ListInv'
<1>1. /\ ~gateHeld /\ kept' = kept \cup {n} /\ saved' = saved \cup {n}
      /\ gateHeld' = gateHeld /\ listing' = listing /\ stayed' = stayed
  BY DEF SaveEntry
<1>2. StoreTypeOK /\ stayed \subseteq kept
  BY DEF ListInv
<1>3. StoreTypeOK'
  BY <1>1, <1>2 DEF StoreTypeOK
<1>4. kept' \subseteq Numbers /\ kept \subseteq kept'
  BY <1>1, <1>3 DEF StoreTypeOK
<1>5. listing.pc # "idle" => ~listing.gated
  BY <1>1, <1>2 DEF StoreTypeOK
<1>6. ASSUME listing.pc = "page"
      PROVE  SoFar'
  <2>1. SoFar
    BY <1>6 DEF ListInv
  <2>2. ASSUME ~listing.evicted, NEW m \in stayed, Age(m)' < listing.cursor
        PROVE  m \in Range(listing.got)
    <3>1. Age(m) \in Nat /\ Age(m)' \in Nat /\ Age(m) <= Age(m)'
      BY <1>2, <1>4, AgesGrow
    <3>2. listing.cursor \in Nat
      BY <1>2 DEF StoreTypeOK
    <3>3. Age(m) < listing.cursor
      BY <2>2, <3>1, <3>2
    <3> QED
      BY <2>1, <2>2, <3>3 DEF SoFar
  <2>3. listing.pages < MaxPages /\ ~listing.gated
    BY <1>5, <1>6, <2>1 DEF SoFar
  <2> QED
    BY <1>1, <2>2, <2>3 DEF SoFar
<1>7. ASSUME listing.pc = "ok"
      PROVE  Complete'
  <2>1. Complete
    BY <1>7 DEF ListInv
  <2> QED
    BY <1>1, <1>5, <1>7, <2>1 DEF Complete
<1> QED
  BY <1>1, <1>2, <1>3, <1>4, <1>6, <1>7 DEF ListInv

(* A delete or a flush of the store under an ungated list.                 *)
LEMMA DeleteKeepsList ==
  ASSUME ListInv, NEW n \in Numbers, DeleteKept(n)
  PROVE  ListInv'
<1> DEFINE after == [listing EXCEPT !.evicted = @ \/ n \in kept]
<1>1. /\ ~gateHeld /\ kept' = kept \ {n} /\ saved' = saved
      /\ gateHeld' = gateHeld /\ listing' = after /\ stayed' = stayed \ {n}
  BY DEF DeleteKept
<1>2. StoreTypeOK /\ stayed \subseteq kept
  BY DEF ListInv
<1>3. listing \in Lists
  BY <1>2, StoreShape
<1>4. /\ after \in Lists
      /\ after.pc = listing.pc /\ after.gated = listing.gated /\ after.got = listing.got
      /\ after.cursor = listing.cursor /\ after.flushed = listing.flushed
      /\ after.pages = listing.pages
      /\ ~after.evicted => ~listing.evicted /\ n \notin kept
  BY <1>3 DEF Lists
<1> HIDE DEF after
<1>5. StoreTypeOK'
  BY <1>1, <1>2, <1>4 DEF StoreTypeOK, Lists
<1>6. listing.pc # "idle" => ~listing.gated
  BY <1>1, <1>2 DEF StoreTypeOK
<1>7. ~after.evicted => kept' = kept /\ stayed' = stayed /\ ~listing.evicted
  BY <1>1, <1>2, <1>4
<1>8. ~after.evicted => \A m : Age(m)' = Age(m)
  BY <1>7, SameOrder
<1>9. ASSUME listing.pc = "page"
      PROVE  SoFar'
  <2>1. SoFar
    BY <1>9 DEF ListInv
  <2>2. listing'.evicted = after.evicted /\ listing'.cursor = listing.cursor
        /\ listing'.got = listing.got /\ ~listing'.gated /\ listing'.pages = listing.pages
    BY <1>1, <1>4, <1>6, <1>9
  <2> QED
    BY <1>7, <1>8, <2>1, <2>2 DEF SoFar
<1>10. ASSUME listing.pc = "ok"
       PROVE  Complete'
  <2>1. Complete
    BY <1>10 DEF ListInv
  <2>2. listing'.evicted = after.evicted /\ listing'.got = listing.got /\ ~listing'.gated
    BY <1>1, <1>4, <1>6, <1>10
  <2> QED
    BY <1>7, <2>1, <2>2 DEF Complete
<1>11. IsInjective(listing.got)
  BY DEF ListInv
<1>12. stayed' \subseteq kept'
  BY <1>1, <1>2
<1> QED
  BY <1>1, <1>4, <1>5, <1>9, <1>10, <1>11, <1>12 DEF ListInv

LEMMA FlushKeepsList ==
  ASSUME ListInv, FlushKept
  PROVE  ListInv'
<1> DEFINE after == [listing EXCEPT !.flushed = TRUE]
<1>1. /\ kept' = {} /\ saved' = saved /\ stayed' = {}
      /\ gateHeld' = gateHeld /\ listing' = after
  BY DEF FlushKept
<1>2. StoreTypeOK /\ IsInjective(listing.got)
  BY DEF ListInv
<1>3. listing \in Lists
  BY <1>2, StoreShape
<1>4. /\ after \in Lists
      /\ after.pc = listing.pc /\ after.gated = listing.gated /\ after.got = listing.got
      /\ after.flushed = TRUE /\ after.pages = listing.pages
  BY <1>3 DEF Lists
<1> HIDE DEF after
<1>5. StoreTypeOK'
  BY <1>1, <1>2, <1>4 DEF StoreTypeOK, Lists
<1>6. (listing.pc = "page" => SoFar') /\ Complete'
  BY <1>1, <1>2, <1>4 DEF SoFar, Complete, ListInv
<1> QED
  BY <1>1, <1>2, <1>4, <1>5, <1>6 DEF ListInv

LEMMA BeginKeepsList ==
  ASSUME ListInv, NEW gated \in BOOLEAN, BeginList(gated)
  PROVE  ListInv'
<1> DEFINE after == [IdleList EXCEPT !.pc = "page", !.gated = gated]
<1>1. /\ kept' = kept /\ saved' = saved /\ stayed' = kept
      /\ gateHeld' = gated /\ listing' = after
  BY DEF BeginList
<1>2. StoreTypeOK
  BY DEF ListInv
<1>3. /\ after \in Lists
      /\ after.pc = "page" /\ after.gated = gated /\ after.got = <<>> /\ after.cursor = 0
      /\ after.pages < MaxPages
  <2>1. 0 \in 0 .. MaxPages /\ 0 < MaxPages
    BY PagedStoreAssumption
  <2>2. IdleList \in Lists
    BY IdleListed
  <2>3. IdleList.got = <<>> /\ IdleList.cursor = 0 /\ IdleList.pages = 0
    BY DEF IdleList
  <2>4. /\ after \in Lists
        /\ after.pc = "page" /\ after.gated = gated /\ after.got = IdleList.got
        /\ after.cursor = IdleList.cursor /\ after.pages = IdleList.pages
    BY <2>2 DEF Lists
  <2> HIDE DEF after
  <2> QED
    BY <2>1, <2>3, <2>4
<1> HIDE DEF after
<1>4. StoreTypeOK'
  BY <1>1, <1>2, <1>3 DEF StoreTypeOK, Lists
<1>5. IsInjective(after.got)
  BY <1>3 DEF IsInjective
<1>6. SoFar'
  <2>1. kept' \subseteq Numbers
    BY <1>4 DEF StoreTypeOK
  <2>2. kept \subseteq Numbers
    BY <1>2 DEF StoreTypeOK
  <2>3. /\ \A n \in kept : Age(n) \in 0 .. Len(Oldest) - 1
        /\ Oldest \in Seq(Numbers) /\ Len(Oldest) \in Nat
    BY <2>2, OldestFacts
  <2>4. Oldest' = Oldest /\ \A n : Age(n)' = Age(n)
    BY <1>1, SameOrder
  <2>5. \A n \in kept : ~(Age(n) < 0)
    BY <2>3
  <2>6. SubSeq(Oldest, 1, 0) = <<>>
    BY <2>3
  <2> QED
    BY <1>1, <1>3, <2>3, <2>4, <2>5, <2>6 DEF SoFar
<1> QED
  BY <1>1, <1>3, <1>4, <1>5, <1>6 DEF ListInv

(* One more page: as far as the new cursor, or all.                        *)
LEMMA PageKeepsList ==
  ASSUME ListInv, listing.pc = "page", ~Repeats(Page),
         listing' =
           [listing EXCEPT !.got = @ \o Page, !.pages = @ + 1, !.cursor = @ + PageLimit,
              !.pc = IF LastPage THEN "ok"
                     ELSE IF listing.pages + 1 = MaxPages THEN "failed" ELSE "page"],
         UNCHANGED <<kept, saved, gateHeld, stayed>>
  PROVE  ListInv'
<1> DEFINE pc == IF LastPage THEN "ok"
                 ELSE IF listing.pages + 1 = MaxPages THEN "failed" ELSE "page"
           after == [listing EXCEPT !.got = @ \o Page, !.pages = @ + 1,
                       !.cursor = @ + PageLimit, !.pc = pc]
           more == listing.got \o Page
<1>1. /\ kept' = kept /\ saved' = saved /\ stayed' = stayed /\ gateHeld' = gateHeld
      /\ listing' = after
  OBVIOUS
<1>2. StoreTypeOK /\ stayed \subseteq kept /\ IsInjective(listing.got) /\ SoFar
  BY DEF ListInv
<1>3. listing \in Lists /\ kept \subseteq Numbers
  BY <1>2, StoreShape DEF StoreTypeOK
<1>4. listing.cursor \in Nat /\ listing.got \in Seq(Numbers) /\ listing.pages \in Nat
  BY <1>3 DEF Lists
<1>5. /\ Page \in Seq(Numbers) /\ IsInjective(Page)
      /\ Top \in Nat /\ Top <= Len(Oldest)
      /\ Page = SubSeq(Oldest, listing.cursor + 1, Top)
      /\ \A n \in kept : listing.cursor <= Age(n) /\ Age(n) < Top => n \in Range(Page)
  BY <1>3, <1>4, PageFacts
<1>6. /\ Oldest \in Seq(Numbers) /\ Len(Oldest) = Cardinality(kept) /\ Len(Oldest) \in Nat
      /\ \A n \in kept : Age(n) \in 0 .. Len(Oldest) - 1
  BY <1>3, OldestFacts
<1>7. Range(Page) \cap Range(listing.got) = {}
  BY DEF Repeats
<1>8. more \in Seq(Numbers) /\ IsInjective(more)
  BY <1>2, <1>4, <1>5, <1>7, Joined
<1>9. Range(listing.got) \subseteq Range(more) /\ Range(Page) \subseteq Range(more)
  <2>1. /\ Len(more) = Len(listing.got) + Len(Page)
        /\ \A i \in 1 .. Len(listing.got) : more[i] = listing.got[i]
        /\ \A i \in 1 .. Len(Page) : more[Len(listing.got) + i] = Page[i]
        /\ Len(listing.got) \in Nat /\ Len(Page) \in Nat
    <3> DEFINE s == listing.got
               t == Page
    <3>1. s \in Seq(Numbers) /\ t \in Seq(Numbers) /\ more = s \o t
      BY <1>4, <1>5
    <3> HIDE DEF s, t, more
    <3>2. /\ Len(more) = Len(s) + Len(t)
          /\ \A i \in 1 .. Len(s) : more[i] = s[i]
          /\ \A i \in 1 .. Len(t) : more[Len(s) + i] = t[i]
          /\ Len(s) \in Nat /\ Len(t) \in Nat
      BY <3>1
    <3> QED
      BY <3>2 DEF s, t
  <2> HIDE DEF more
  <2>2. /\ \A i \in 1 .. Len(listing.got) : i \in 1 .. Len(more)
        /\ \A i \in 1 .. Len(Page) : Len(listing.got) + i \in 1 .. Len(more)
    BY <2>1
  <2>3. DOMAIN more = 1 .. Len(more)
    BY <1>8
  <2>4. Range(listing.got) \subseteq Range(more)
    <3>1. DOMAIN listing.got = 1 .. Len(listing.got)
      BY <1>4
    <3> QED
      BY <2>1, <2>2, <2>3, <3>1 DEF Range
  <2>5. Range(Page) \subseteq Range(more)
    <3>1. DOMAIN Page = 1 .. Len(Page)
      BY <1>5
    <3> DEFINE k(i) == Len(listing.got) + i
    <3>2. \A i \in DOMAIN Page : Page[i] = more[k(i)] /\ k(i) \in DOMAIN more
      BY <2>1, <2>2, <2>3, <3>1
    <3> HIDE DEF k
    <3> QED
      BY <3>2 DEF Range
  <2> QED
    BY <2>4, <2>5
<1>10. PageLimit \in Nat /\ MaxPages \in Nat
  BY PagedStoreAssumption
<1>11. /\ after \in Lists
       /\ after.pc = pc /\ after.gated = listing.gated /\ after.got = more
       /\ after.cursor = listing.cursor + PageLimit
       /\ after.evicted = listing.evicted /\ after.flushed = listing.flushed
       /\ after.pages = listing.pages + 1
  <2>1. listing.pages + 1 \in 0 .. MaxPages /\ listing.cursor + PageLimit \in Nat
    <3>1. listing.pages < MaxPages
      BY <1>2 DEF SoFar
    <3> QED
      BY <1>4, <1>10, <3>1
  <2>2. pc \in {"idle", "page", "ok", "failed"} /\ pc # "idle"
    OBVIOUS
  <2> HIDE DEF pc, more
  <2>3. after = [listing EXCEPT !.got = more, !.pages = listing.pages + 1,
                   !.cursor = listing.cursor + PageLimit, !.pc = pc]
    BY <1>3 DEF Lists, more
  <2> HIDE DEF after
  <2> QED
    BY <1>3, <1>8, <2>1, <2>2, <2>3 DEF Lists
<1>12. pc # "idle"
  OBVIOUS
<1>13. pc = "page" => ~LastPage /\ listing.pages + 1 # MaxPages
  OBVIOUS
<1>14. pc = "ok" => LastPage
  OBVIOUS
<1> HIDE DEF pc, after, more
<1>15. StoreTypeOK'
  <2>1. listing'.pc # "idle" /\ listing'.gated = listing.gated /\ listing' \in Lists
    BY <1>1, <1>11, <1>12
  <2>2. gateHeld = (listing.pc # "idle" /\ listing.gated)
    BY <1>2 DEF StoreTypeOK
  <2>3. gateHeld' = (listing'.pc # "idle" /\ listing'.gated)
    BY <1>1, <2>1, <2>2
  <2> QED
    BY <1>1, <1>2, <2>1, <2>3 DEF StoreTypeOK, Lists
<1>16. ~listing.evicted => \A n \in stayed : Age(n) < Top => n \in Range(more)
  <2> SUFFICES ASSUME ~listing.evicted, NEW n \in stayed, Age(n) < Top
               PROVE  n \in Range(more)
    OBVIOUS
  <2>1. Age(n) \in Nat
    BY <1>2, <1>6
  <2>2. CASE Age(n) < listing.cursor
    BY <1>2, <1>9, <2>2 DEF SoFar
  <2>3. CASE listing.cursor <= Age(n)
    BY <1>2, <1>5, <1>9, <2>3
  <2> QED
    BY <1>4, <2>1, <2>2, <2>3
<1>17. listing.gated /\ ~listing.flushed /\ listing.cursor <= Top => more = SubSeq(Oldest, 1, Top)
  <2> SUFFICES ASSUME listing.gated, ~listing.flushed, listing.cursor <= Top
               PROVE  more = SubSeq(Oldest, 1, Top)
    OBVIOUS
  <2>1. listing.cursor <= Len(Oldest) /\ listing.got = SubSeq(Oldest, 1, listing.cursor)
    BY <1>2 DEF SoFar
  <2>2. listing.cursor \in 0 .. Len(Oldest) /\ Top \in listing.cursor .. Len(Oldest)
    BY <1>4, <1>5, <1>6, <2>1
  <2>3. SubSeq(Oldest, 1, listing.cursor) \o SubSeq(Oldest, listing.cursor + 1, Top)
          = SubSeq(Oldest, 1, Top)
    BY <1>6, <2>2, Continued
  <2> QED
    BY <1>5, <2>1, <2>3 DEF more
<1>18. Oldest' = Oldest /\ \A n : Age(n)' = Age(n)
  BY <1>1, SameOrder
<1>19. pc = "page" => SoFar'
  <2> SUFFICES ASSUME ~LastPage, listing.pages + 1 # MaxPages
               PROVE  SoFar'
    BY <1>13
  <2>2. listing.pages + 1 < MaxPages
    BY <1>2, <1>4, <1>10 DEF SoFar
  <2>1. Top = listing.cursor + PageLimit /\ Top <= Len(Oldest) /\ listing.cursor <= Top
    BY <1>4, <1>5, <1>10 DEF Top
  <2> QED
    BY <1>1, <1>11, <1>16, <1>17, <1>18, <2>1, <2>2 DEF SoFar
<1>20. pc = "ok" => Complete'
  <2> SUFFICES ASSUME LastPage
               PROVE  Complete'
    BY <1>14
  <2>1. Top = Len(Oldest)
    BY <1>6 DEF Top
  <2>2. \A n \in stayed : Age(n) < Top
    BY <1>2, <1>6, <2>1
  <2>3. SubSeq(Oldest, 1, Top) = Oldest
    BY <1>6, <2>1
  <2>4. listing.gated /\ ~listing.flushed => listing.cursor <= Top
    BY <1>2, <2>1 DEF SoFar
  <2> QED
    BY <1>1, <1>11, <1>16, <1>17, <1>18, <2>2, <2>3, <2>4 DEF Complete
<1> QED
  BY <1>1, <1>2, <1>8, <1>11, <1>15, <1>19, <1>20 DEF ListInv

LEMMA FailKeepsList ==
  ASSUME ListInv, listing.pc = "page",
         listing' = [listing EXCEPT !.pc = "failed"],
         UNCHANGED <<kept, saved, gateHeld, stayed>>
  PROVE  ListInv'
<1> DEFINE after == [listing EXCEPT !.pc = "failed"]
<1>1. /\ kept' = kept /\ saved' = saved /\ stayed' = stayed /\ gateHeld' = gateHeld
      /\ listing' = after
  OBVIOUS
<1>2. StoreTypeOK /\ stayed \subseteq kept /\ IsInjective(listing.got)
  BY DEF ListInv
<1>3. listing \in Lists
  BY <1>2, StoreShape
<1>4. /\ after \in Lists
      /\ after.pc = "failed" /\ after.gated = listing.gated /\ after.got = listing.got
  BY <1>3 DEF Lists
<1> HIDE DEF after
<1>5. StoreTypeOK'
  <2>1. gateHeld = listing.gated
    BY <1>2 DEF StoreTypeOK
  <2> QED
    BY <1>1, <1>2, <1>4, <2>1 DEF StoreTypeOK, Lists
<1> QED
  BY <1>1, <1>2, <1>4, <1>5 DEF ListInv

LEMMA EndKeepsList ==
  ASSUME ListInv, EndList
  PROVE  ListInv'
<1>1. /\ kept' = kept /\ saved' = saved /\ stayed' = {} /\ gateHeld' = FALSE
      /\ listing' = IdleList
  BY DEF EndList
<1>2. StoreTypeOK
  BY DEF ListInv
<1>3. StoreTypeOK'
  BY <1>1, <1>2, IdleListed DEF StoreTypeOK, Lists
<1> QED
  BY <1>1, <1>3, IdleListed DEF ListInv

LEMMA SameKeepsList ==
  ASSUME ListInv, UNCHANGED storeVars
  PROVE  ListInv'
<1>1. /\ kept' = kept /\ saved' = saved /\ stayed' = stayed /\ gateHeld' = gateHeld
      /\ listing' = listing
  BY DEF storeVars
<1>2. Oldest' = Oldest /\ \A n : Age(n)' = Age(n)
  BY <1>1, SameOrder
<1>3. SoFar' = SoFar /\ Complete' = Complete /\ StoreTypeOK' = StoreTypeOK
  BY <1>1, <1>2 DEF SoFar, Complete, StoreTypeOK
<1> QED
  BY <1>1, <1>3 DEF ListInv

(* However entries arrive, are evicted or flushed between two pages: a     *)
(* list that is answered has none twice; without an eviction it misses     *)
(* none that was there throughout; and one made with the gate held, and    *)
(* without a flush, is what the store has, the oldest first                *)
(* (persistence.go:113-168, sdk/examples/persistence/main.go:95-116).      *)
THEOREM ListsAreWhole == StoreSpec => [](StoreTypeOK /\ ListedWhole)
<1>1. StoreInit => ListInv
  BY StoreInitially
<1>2. ListInv /\ [StoreNext]_storeVars => ListInv'
  <2> SUFFICES ASSUME ListInv, [StoreNext]_storeVars
               PROVE  ListInv'
    OBVIOUS
  <2>1. ASSUME NEW n \in Numbers, SaveEntry(n)
        PROVE  ListInv'
    BY <2>1, SaveKeepsList
  <2>2. ASSUME NEW n \in Numbers, DeleteKept(n)
        PROVE  ListInv'
    BY <2>2, DeleteKeepsList
  <2>3. CASE FlushKept
    BY <2>3, FlushKeepsList
  <2>4. ASSUME NEW gated \in BOOLEAN, BeginList(gated)
        PROVE  ListInv'
    BY <2>4, BeginKeepsList
  <2>5. CASE ListPage
    <3>1. listing.pc = "page" /\ UNCHANGED <<kept, saved, gateHeld, stayed>>
      BY <2>5 DEF ListPage
    <3>2. CASE /\ ~Repeats(Page)
               /\ listing' =
                    [listing EXCEPT !.got = @ \o Page, !.pages = @ + 1,
                       !.cursor = @ + PageLimit,
                       !.pc = IF LastPage THEN "ok"
                              ELSE IF listing.pages + 1 = MaxPages THEN "failed" ELSE "page"]
      BY <3>1, <3>2, PageKeepsList
    <3>3. CASE listing' = [listing EXCEPT !.pc = "failed"]
      BY <3>1, <3>3, FailKeepsList
    <3> QED
      BY <2>5, <3>2, <3>3 DEF ListPage
  <2>6. CASE EndList
    BY <2>6, EndKeepsList
  <2>7. CASE UNCHANGED storeVars
    BY <2>7, SameKeepsList
  <2> QED
    BY <2>1, <2>2, <2>3, <2>4, <2>5, <2>6, <2>7 DEF StoreNext
<1>3. ListInv => StoreTypeOK /\ ListedWhole
  BY DEF ListInv, Complete, ListedWhole
<1> QED
  BY <1>1, <1>2, <1>3, PTL DEF StoreSpec

-------------------------------------------------------------------------------
(* The shipped policies: what one more call does to the history            *)

CallsMade == ({"hit", "insert", "delete"} \X Ids) \cup {<<"flush", NoId>>}

Now == Len(log) + 1

LEMMA LogFacts ==
  ASSUME log \in Seq(CallsMade)
  PROVE  /\ Len(log) \in Nat
         /\ \A op, x : Calls(op, x) \in SUBSET (1 .. Len(log))
         /\ \A op, x, n : n \in Calls(op, x) <=> n \in 1 .. Len(log) /\ log[n] = <<op, x>>
<1>1. Len(log) \in Nat /\ DOMAIN log = 1 .. Len(log)
  BY LenProperties
<1> QED
  BY <1>1 DEF Calls

LEMMA CallsAfter ==
  ASSUME log \in Seq(CallsMade), NEW op, NEW id, log' = Append(log, <<op, id>>),
         <<op, id>> \in CallsMade
  PROVE  /\ log' \in Seq(CallsMade) /\ Len(log') = Now
         /\ Calls(op, id)' = Calls(op, id) \cup {Now}
         /\ \A o, x : <<o, x>> # <<op, id>> => Calls(o, x)' = Calls(o, x)
<1> DEFINE c == <<op, id>>
<1>1. Len(log) \in Nat /\ DOMAIN log = 1 .. Len(log)
  BY LenProperties
<1>2. /\ log' \in Seq(CallsMade) /\ Len(log') = Now
      /\ log'[Now] = c
      /\ \A n \in 1 .. Len(log) : log'[n] = log[n]
  <2>1. c \in CallsMade /\ log' = Append(log, c)
    OBVIOUS
  <2> HIDE DEF c
  <2> QED
    BY <2>1, AppendProperties DEF Now
<1>3. DOMAIN log' = 1 .. Now
  BY <1>2, LenProperties
<1>4. ASSUME NEW o, NEW x
      PROVE  Calls(o, x)' = IF <<o, x>> = c THEN Calls(o, x) \cup {Now} ELSE Calls(o, x)
  <2> DEFINE d == <<o, x>>
  <2>1. Calls(o, x) = {n \in 1 .. Len(log) : log[n] = d}
    BY <1>1 DEF Calls
  <2>2. Calls(o, x)' = {n \in 1 .. Now : log'[n] = d}
    BY <1>3 DEF Calls
  <2> HIDE DEF c, d
  <2>3. Now = Len(log) + 1
    BY DEF Now
  <2>4. {n \in 1 .. Now : log'[n] = d}
          = IF d = c THEN {n \in 1 .. Len(log) : log[n] = d} \cup {Now}
            ELSE {n \in 1 .. Len(log) : log[n] = d}
    BY <1>1, <1>2, <2>3
  <2> QED
    BY <2>1, <2>2, <2>4 DEF d
<1>5. Calls(op, id)' = Calls(op, id) \cup {Now}
  BY <1>4
<1>6. \A o, x : <<o, x>> # <<op, id>> => Calls(o, x)' = Calls(o, x)
  BY <1>4
<1> QED
  BY <1>2, <1>5, <1>6

(* A set of numbers has one greatest and one least.                        *)
LEMMA GreatestIs ==
  ASSUME NEW S \in SUBSET Nat, NEW x \in S, \A k \in S : k <= x
  PROVE  Max(S) = x
<1>1. \A k \in S : x >= k
  OBVIOUS
<1>2. Max(S) \in S /\ \A k \in S : Max(S) >= k
  BY <1>1 DEF Max
<1>3. Max(S) >= x /\ x >= Max(S) /\ Max(S) \in Nat /\ x \in Nat
  BY <1>1, <1>2
<1> QED
  BY <1>3

LEMMA LeastIs ==
  ASSUME NEW S \in SUBSET Nat, NEW x \in S, \A k \in S : x <= k
  PROVE  Min(S) = x
<1>1. Min(S) \in S /\ \A k \in S : Min(S) <= k
  BY DEF Min
<1>2. Min(S) <= x /\ x <= Min(S) /\ Min(S) \in Nat /\ x \in Nat
  BY <1>1
<1> QED
  BY <1>2

LEMMA GreatestExists ==
  ASSUME NEW n \in Nat, NEW S \in SUBSET (1 .. n)
  PROVE  /\ Max({0} \cup S) \in {0} \cup S
         /\ \A k \in S : k <= Max({0} \cup S)
<1>1. CASE S = {}
  <2>1. {0} \cup S = {0}
    BY <1>1
  <2>2. Max({0}) = 0
    <3>1. {0} \in SUBSET Nat /\ 0 \in {0} /\ \A k \in {0} : k <= 0
      OBVIOUS
    <3> QED
      BY <3>1, GreatestIs
  <2> QED
    BY <1>1, <2>1, <2>2
<1>2. CASE S # {}
  <2>1. Max(S) \in S /\ \A k \in S : k <= Max(S)
    BY <1>2, GreatestOne
  <2>2. PICK m \in S : m = Max(S)
    BY <2>1
  <2>3. \A k \in S : k <= m
    BY <2>1, <2>2
  <2>4. {0} \cup S \in SUBSET Nat /\ m \in {0} \cup S /\ \A k \in {0} \cup S : k <= m
    BY <2>3
  <2>5. Max({0} \cup S) = m
    BY <2>4, GreatestIs
  <2> QED
    BY <2>3, <2>5
<1> QED
  BY <1>1, <1>2

(* The numbers in the history of an id.                                    *)
LEMMA HistoryFacts ==
  ASSUME log \in Seq(CallsMade), NEW x
  PROVE  /\ Cleared(x) \in 0 .. Len(log)
         /\ \A n \in Calls("delete", x) \cup Calls("flush", NoId) : n <= Cleared(x)
         /\ Inserts(x) \in SUBSET (1 .. Len(log))
         /\ x \in Resident <=> x \in Ids /\ Inserts(x) # {}
         /\ Inserts(x) # {} => Born(x) \in Inserts(x) /\ \A n \in Inserts(x) : Born(x) <= n
         /\ Inserts(x) # {} => Born(x) \in 1 .. Len(log)
         /\ Hits(x) \in SUBSET (1 .. Len(log))
         /\ Inserts(x) # {} => LastUse(x) \in 1 .. Len(log)
<1>1. Len(log) \in Nat /\ \A op, y : Calls(op, y) \in SUBSET (1 .. Len(log))
  BY LogFacts
<1> DEFINE S == Calls("delete", x) \cup Calls("flush", NoId)
<1>2. S \in SUBSET (1 .. Len(log))
  BY <1>1
<1>3. Cleared(x) = Max({0} \cup S)
  <2>1. {0} \cup Calls("delete", x) \cup Calls("flush", NoId) = {0} \cup S
    OBVIOUS
  <2> QED
    BY <2>1 DEF Cleared
<1> HIDE DEF S
<1>4. Cleared(x) \in {0} \cup S /\ \A n \in S : n <= Cleared(x)
  BY <1>1, <1>2, <1>3, GreatestExists
<1>5. Inserts(x) \in SUBSET (1 .. Len(log))
  BY <1>1 DEF Inserts
<1>6. x \in Resident <=> x \in Ids /\ Inserts(x) # {}
  BY DEF Resident
<1>7. Inserts(x) # {} => Born(x) \in Inserts(x) /\ \A n \in Inserts(x) : Born(x) <= n
  BY <1>1, <1>5, FirstOne DEF Born
<1>8. Hits(x) \in SUBSET (1 .. Len(log))
  BY <1>1 DEF Hits
<1>9. ASSUME Inserts(x) # {}
      PROVE  LastUse(x) \in 1 .. Len(log)
  <2>1. Inserts(x) \cup Hits(x) \in SUBSET (1 .. Len(log)) /\ Inserts(x) \cup Hits(x) # {}
    BY <1>5, <1>8, <1>9
  <2>2. LastUse(x) \in Inserts(x) \cup Hits(x)
    BY <1>1, <2>1, GreatestOne DEF LastUse
  <2> QED
    BY <2>1, <2>2
<1>10. Cleared(x) \in 0 .. Len(log)
  <2>1. \A k \in {0} \cup S : k \in 0 .. Len(log)
    BY <1>1, <1>2
  <2> QED
    BY <1>4, <2>1
<1>11. Inserts(x) # {} => Born(x) \in 1 .. Len(log)
  BY <1>5, <1>7
<1> QED
  BY <1>4, <1>5, <1>6, <1>7, <1>8, <1>9, <1>10, <1>11 DEF S

(* A call that is not about an id leaves what the documentation says of it.*)
SameHistory(x) ==
  /\ Inserts(x)' = Inserts(x)
  /\ Born(x)' = Born(x)
  /\ Hits(x)' = Hits(x)
  /\ LastUse(x)' = LastUse(x)

LEMMA ElsewhereLeaves ==
  ASSUME log \in Seq(CallsMade), NEW op \in {"hit", "insert", "delete"}, NEW id \in Ids,
         log' = Append(log, <<op, id>>), NEW x, x # id
  PROVE  SameHistory(x)
<1>1. <<op, id>> \in CallsMade
  BY DEF CallsMade
<1>2. \A o, y : <<o, y>> # <<op, id>> => Calls(o, y)' = Calls(o, y)
  BY <1>1, CallsAfter
<1>3. \A o : <<o, x>> # <<op, id>>
  OBVIOUS
<1>4. <<"flush", NoId>> # <<op, id>>
  OBVIOUS
<1>5. /\ Calls("delete", x)' = Calls("delete", x) /\ Calls("hit", x)' = Calls("hit", x)
      /\ Calls("insert", x)' = Calls("insert", x)
      /\ Calls("flush", NoId)' = Calls("flush", NoId)
  BY <1>2, <1>3, <1>4
<1>6. Cleared(x)' = Cleared(x)
  BY <1>5 DEF Cleared
<1>7. Inserts(x)' = Inserts(x)
  BY <1>5, <1>6 DEF Inserts
<1>8. Born(x)' = Born(x)
  BY <1>7 DEF Born
<1>9. Hits(x)' = Hits(x)
  BY <1>5, <1>8 DEF Hits
<1>10. LastUse(x)' = LastUse(x)
  BY <1>7, <1>9 DEF LastUse
<1> QED
  BY <1>7, <1>8, <1>9, <1>10 DEF SameHistory

LEMMA AfterHit ==
  ASSUME log \in Seq(CallsMade), NEW id \in Ids, log' = Append(log, <<"hit", id>>)
  PROVE  /\ Inserts(id)' = Inserts(id)
         /\ Inserts(id) # {} => /\ Born(id)' = Born(id)
                                /\ Hits(id)' = Hits(id) \cup {Now} /\ Now \notin Hits(id)
                                /\ LastUse(id)' = Now
<1>1. <<"hit", id>> \in CallsMade
  BY DEF CallsMade
<1>2. /\ log' \in Seq(CallsMade) /\ Len(log') = Now
      /\ Calls("hit", id)' = Calls("hit", id) \cup {Now}
      /\ \A o, y : <<o, y>> # <<"hit", id>> => Calls(o, y)' = Calls(o, y)
  BY <1>1, CallsAfter
<1>3. /\ Calls("delete", id)' = Calls("delete", id)
      /\ Calls("insert", id)' = Calls("insert", id)
      /\ Calls("flush", NoId)' = Calls("flush", NoId)
  BY <1>2
<1>4. Cleared(id)' = Cleared(id)
  BY <1>3 DEF Cleared
<1>5. Inserts(id)' = Inserts(id)
  BY <1>3, <1>4 DEF Inserts
<1>6. Born(id)' = Born(id)
  BY <1>5 DEF Born
<1>7. /\ Len(log) \in Nat /\ Now = Len(log) + 1
      /\ Inserts(id) \in SUBSET (1 .. Len(log)) /\ Hits(id) \in SUBSET (1 .. Len(log))
      /\ Inserts(id) # {} => Born(id) \in 1 .. Len(log)
  BY HistoryFacts, LogFacts DEF Now
<1>8. ASSUME Inserts(id) # {}
      PROVE  Hits(id)' = Hits(id) \cup {Now} /\ Now \notin Hits(id) /\ LastUse(id)' = Now
  <2>1. Now > Born(id)
    BY <1>7, <1>8
  <2>2. Hits(id)' = Hits(id) \cup {Now}
    BY <1>2, <1>6, <2>1 DEF Hits
  <2>3. Now \notin Hits(id)
    BY <1>7
  <2> DEFINE U == Inserts(id) \cup Hits(id) \cup {Now}
  <2>4. LastUse(id)' = Max(U)
    <3>1. Inserts(id)' \cup Hits(id)' = U
      BY <1>5, <2>2
    <3> QED
      BY <3>1 DEF LastUse
  <2>5. U \in SUBSET Nat /\ Now \in U /\ \A k \in U : k <= Now
    BY <1>7
  <2> HIDE DEF U
  <2>6. Max(U) = Now
    BY <2>5, GreatestIs
  <2> QED
    BY <2>2, <2>3, <2>4, <2>6
<1> QED
  BY <1>5, <1>6, <1>8

LEMMA AfterInsert ==
  ASSUME log \in Seq(CallsMade), NEW id \in Ids, log' = Append(log, <<"insert", id>>)
  PROVE  /\ Inserts(id)' # {}
         /\ LastUse(id)' = Now
         /\ Inserts(id) # {} => Born(id)' = Born(id) /\ Hits(id)' = Hits(id)
         /\ Inserts(id) = {} => Born(id)' = Now /\ Hits(id)' = {}
<1>1. <<"insert", id>> \in CallsMade
  BY DEF CallsMade
<1>2. /\ log' \in Seq(CallsMade) /\ Len(log') = Now
      /\ Calls("insert", id)' = Calls("insert", id) \cup {Now}
      /\ \A o, y : <<o, y>> # <<"insert", id>> => Calls(o, y)' = Calls(o, y)
  BY <1>1, CallsAfter
<1>3. /\ Calls("delete", id)' = Calls("delete", id)
      /\ Calls("hit", id)' = Calls("hit", id)
      /\ Calls("flush", NoId)' = Calls("flush", NoId)
  BY <1>2
<1>4. Cleared(id)' = Cleared(id)
  BY <1>3 DEF Cleared
<1>5. /\ Len(log) \in Nat /\ Now = Len(log) + 1
      /\ Cleared(id) \in 0 .. Len(log)
      /\ Inserts(id) \in SUBSET (1 .. Len(log)) /\ Hits(id) \in SUBSET (1 .. Len(log))
      /\ Calls("hit", id) \in SUBSET (1 .. Len(log))
      /\ Inserts(id) # {} => /\ Born(id) \in Inserts(id)
                             /\ \A n \in Inserts(id) : Born(id) <= n
  BY HistoryFacts, LogFacts DEF Now
<1>6. Inserts(id)' = Inserts(id) \cup {Now}
  <2>1. Now > Cleared(id)
    BY <1>5
  <2> QED
    BY <1>2, <1>4, <2>1 DEF Inserts
<1>7. Inserts(id)' \in SUBSET Nat /\ Now \in Inserts(id)' /\ Now \in Nat
  BY <1>5, <1>6
<1>8. Inserts(id) # {} => Born(id)' = Born(id)
  <2> SUFFICES ASSUME Inserts(id) # {}
               PROVE  Min(Inserts(id)') = Born(id)
    BY DEF Born
  <2>1. Born(id) \in Inserts(id)' /\ \A n \in Inserts(id)' : Born(id) <= n
    BY <1>5, <1>6
  <2> QED
    BY <1>7, <2>1, LeastIs
<1>9. Inserts(id) = {} => Born(id)' = Now
  <2> SUFFICES ASSUME Inserts(id) = {}
               PROVE  Min(Inserts(id)') = Now
    BY DEF Born
  <2>1. \A n \in Inserts(id)' : Now <= n
    BY <1>6, <1>7
  <2> QED
    BY <1>7, <2>1, LeastIs
<1>10. Inserts(id) # {} => Hits(id)' = Hits(id)
  BY <1>3, <1>8 DEF Hits
<1>11. Inserts(id) = {} => Hits(id)' = {}
  <2> SUFFICES ASSUME Inserts(id) = {}
               PROVE  Hits(id)' = {}
    OBVIOUS
  <2>1. Hits(id)' = {n \in Calls("hit", id) : n > Now}
    BY <1>3, <1>9 DEF Hits
  <2>2. \A n \in Calls("hit", id) : ~ (n > Now)
    BY <1>5
  <2> QED
    BY <2>1, <2>2
<1>12. LastUse(id)' = Now
  <2> DEFINE U == Inserts(id)' \cup Hits(id)'
  <2>1. LastUse(id)' = Max(U)
    BY DEF LastUse
  <2>2. \A k \in Hits(id)' : k \in Nat /\ k <= Now
    BY <1>5, <1>10, <1>11
  <2>3. \A k \in Inserts(id)' : k \in Nat /\ k <= Now
    BY <1>5, <1>6
  <2>4. U \in SUBSET Nat /\ Now \in U /\ \A k \in U : k <= Now
    BY <1>7, <2>2, <2>3
  <2> HIDE DEF U
  <2> QED
    BY <2>1, <2>4, GreatestIs
<1> QED
  BY <1>7, <1>8, <1>9, <1>10, <1>11, <1>12

(* A delete of the id, or a flush, forgets all that was.                   *)
LEMMA AfterClearing ==
  ASSUME log \in Seq(CallsMade), NEW id, NEW x,
         \/ log' = Append(log, <<"delete", id>>) /\ id \in Ids /\ x = id
         \/ log' = Append(log, <<"flush", id>>) /\ id = NoId
  PROVE  Inserts(x)' = {}
<1>1. PICK op \in {"flush", "delete"} :
        /\ log' = Append(log, <<op, id>>) /\ <<op, id>> \in CallsMade
        /\ (op = "flush" /\ id = NoId) \/ (op = "delete" /\ id = x)
  <2>1. CASE log' = Append(log, <<"delete", id>>) /\ id \in Ids /\ x = id
    <3>1. <<"delete", id>> \in CallsMade
      BY <2>1 DEF CallsMade
    <3> QED
      BY <2>1, <3>1
  <2>2. CASE log' = Append(log, <<"flush", id>>) /\ id = NoId
    <3>1. <<"flush", id>> \in CallsMade
      BY <2>2 DEF CallsMade
    <3> QED
      BY <2>2, <3>1
  <2> QED
    BY <2>1, <2>2
<1>2. (op = "flush" /\ id = NoId) \/ (op = "delete" /\ id = x)
  BY <1>1
<1>3. op # "insert"
  OBVIOUS
<1>4. /\ log' \in Seq(CallsMade) /\ Len(log') = Now
      /\ Calls(op, id)' = Calls(op, id) \cup {Now}
      /\ \A o, y : <<o, y>> # <<op, id>> => Calls(o, y)' = Calls(o, y)
  BY <1>1, CallsAfter
<1>5. Now \in Calls("delete", x)' \cup Calls("flush", NoId)'
  <2>1. Now \in Calls(op, id)'
    BY <1>4
  <2> QED
    BY <1>2, <2>1
<1>6. Calls("insert", x)' = Calls("insert", x)
  <2>1. <<"insert", x>> # <<op, id>>
    BY <1>3
  <2> QED
    BY <1>4, <2>1
<1>7. /\ Len(log) \in Nat /\ Now = Len(log) + 1
      /\ Calls("insert", x) \in SUBSET (1 .. Len(log))
  BY LogFacts DEF Now
<1>8. Cleared(x)' = Now
  <2> DEFINE S == {0} \cup Calls("delete", x)' \cup Calls("flush", NoId)'
  <2>1. Cleared(x)' = Max(S)
    BY DEF Cleared
  <2>2. \A o, y : Calls(o, y) \in SUBSET (1 .. Len(log))
    BY LogFacts
  <2>3. \A o, y : Calls(o, y)' \in SUBSET (1 .. Now)
    <3> SUFFICES ASSUME NEW o, NEW y
                 PROVE  Calls(o, y)' \in SUBSET (1 .. Now)
      OBVIOUS
    <3>1. Calls(o, y) \in SUBSET (1 .. Now) /\ Now \in 1 .. Now
      BY <1>7, <2>2
    <3>2. Calls(o, y)' = Calls(o, y) \/ Calls(o, y)' = Calls(o, y) \cup {Now}
      <4>1. CASE o = op /\ y = id
        BY <1>4, <4>1
      <4>2. CASE ~ (o = op /\ y = id)
        <5>1. <<o, y>> # <<op, id>>
          BY <4>2
        <5> QED
          BY <1>4, <5>1
      <4> QED
        BY <4>1, <4>2
    <3> QED
      BY <3>1, <3>2
  <2>4. S \in SUBSET Nat /\ Now \in S /\ \A k \in S : k <= Now
    BY <1>5, <1>7, <2>3
  <2> HIDE DEF S
  <2> QED
    BY <2>1, <2>4, GreatestIs
<1>9. \A n \in Calls("insert", x) : ~ (n > Now)
  BY <1>7
<1> QED
  BY <1>6, <1>8, <1>9 DEF Inserts

-------------------------------------------------------------------------------
(* The shipped policies: the three calls and a flush, for all ids at once  *)

Count(x) == Cardinality(Hits(x))

(* What a call leaves of an id that stays.                                 *)
Kept(x) == Born(x)' = Born(x) /\ Count(x)' = Count(x) /\ LastUse(x)' = LastUse(x)

LEMMA ResidentFacts ==
  ASSUME log \in Seq(CallsMade)
  PROVE  /\ Resident \subseteq Ids
         /\ Now \in Nat
         /\ \A x \in Resident :
              /\ Born(x) \in Nat /\ Born(x) < Now
              /\ LastUse(x) \in Nat /\ LastUse(x) < Now
              /\ Count(x) \in Nat /\ IsFiniteSet(Hits(x))
         /\ \A x, y \in Resident : Born(x) = Born(y) => x = y
<1>1. Len(log) \in Nat /\ Now = Len(log) + 1
  BY LogFacts DEF Now
<1>2. ASSUME NEW x \in Resident
      PROVE  /\ Born(x) \in 1 .. Len(log) /\ LastUse(x) \in 1 .. Len(log)
             /\ Born(x) \in Calls("insert", x)
             /\ Count(x) \in Nat /\ IsFiniteSet(Hits(x))
  <2>1. Inserts(x) # {}
    BY <1>2 DEF Resident
  <2>2. Hits(x) \in SUBSET (1 .. Len(log))
    BY HistoryFacts
  <2>3. IsFiniteSet(1 .. Len(log))
    <3>1. 1 \in Int /\ Len(log) \in Int
      BY <1>1
    <3> QED
      BY <3>1, FS_Interval
  <2>4. IsFiniteSet(Hits(x))
    BY <2>2, <2>3, FS_Subset
  <2>5. Count(x) \in Nat
    BY <2>4, FS_CardinalityType DEF Count
  <2>6. Born(x) \in Inserts(x) /\ Born(x) \in 1 .. Len(log) /\ LastUse(x) \in 1 .. Len(log)
    BY <2>1, HistoryFacts
  <2> QED
    BY <2>4, <2>5, <2>6 DEF Inserts
<1>3. ASSUME NEW x \in Resident, NEW y \in Resident, Born(x) = Born(y)
      PROVE  x = y
  <2>1. log[Born(x)] = <<"insert", x>> /\ log[Born(y)] = <<"insert", y>>
    BY <1>2, LogFacts
  <2> QED
    BY <1>3, <2>1
<1>4. Resident \subseteq Ids
  BY DEF Resident
<1>5. \A x \in Resident : /\ Born(x) \in Nat /\ Born(x) < Now
                          /\ LastUse(x) \in Nat /\ LastUse(x) < Now
  BY <1>1, <1>2
<1>6. Now \in Nat
  BY <1>1
<1> QED
  BY <1>2, <1>3, <1>4, <1>5, <1>6

LEMMA OthersKept ==
  ASSUME log \in Seq(CallsMade), NEW op \in {"hit", "insert", "delete"}, NEW id \in Ids,
         log' = Append(log, <<op, id>>)
  PROVE  /\ log' \in Seq(CallsMade) /\ Now' = Now + 1
         /\ \A x : x # id => Kept(x) /\ (x \in Resident' <=> x \in Resident)
<1>1. <<op, id>> \in CallsMade
  BY DEF CallsMade
<1>2. log' \in Seq(CallsMade) /\ Len(log') = Now
  BY <1>1, CallsAfter
<1>3. Now' = Now + 1
  BY <1>2 DEF Now
<1>4. ASSUME NEW x, x # id
      PROVE  Kept(x) /\ (x \in Resident' <=> x \in Resident)
  <2>1. SameHistory(x)
    BY <1>4, ElsewhereLeaves
  <2>2. Kept(x)
    BY <2>1 DEF SameHistory, Kept, Count
  <2>3. x \in Resident' <=> x \in Resident
    BY <2>1 DEF SameHistory, Resident
  <2> QED
    BY <2>2, <2>3
<1> QED
  BY <1>2, <1>3, <1>4

LEMMA HitTells ==
  ASSUME log \in Seq(CallsMade), NEW id \in Ids, log' = Append(log, <<"hit", id>>)
  PROVE  /\ Resident' = Resident
         /\ id \in Resident => /\ Born(id)' = Born(id) /\ LastUse(id)' = Now
                               /\ Count(id)' = Count(id) + 1
<1>1. /\ Inserts(id)' = Inserts(id)
      /\ Inserts(id) # {} => /\ Born(id)' = Born(id)
                             /\ Hits(id)' = Hits(id) \cup {Now} /\ Now \notin Hits(id)
                             /\ LastUse(id)' = Now
  BY AfterHit
<1>2. \A x : x # id => (x \in Resident' <=> x \in Resident)
  BY OthersKept
<1>3. id \in Resident' <=> id \in Resident
  BY <1>1 DEF Resident
<1>4. Resident' = Resident
  <2>1. \A x : x \in Resident' <=> x \in Resident
    BY <1>2, <1>3
  <2> QED
    BY <2>1
<1>5. ASSUME id \in Resident
      PROVE  Count(id)' = Count(id) + 1
  <2>1. Hits(id)' = Hits(id) \cup {Now} /\ Now \notin Hits(id)
    BY <1>1, <1>5 DEF Resident
  <2>2. IsFiniteSet(Hits(id))
    BY <1>5, ResidentFacts
  <2>3. Cardinality(Hits(id) \cup {Now}) = Cardinality(Hits(id)) + 1
    BY <2>1, <2>2, FS_AddElement
  <2> QED
    BY <2>1, <2>3 DEF Count
<1>6. id \in Resident => Inserts(id) # {}
  BY DEF Resident
<1> QED
  BY <1>1, <1>4, <1>5, <1>6

LEMMA InsertTells ==
  ASSUME log \in Seq(CallsMade), NEW id \in Ids, log' = Append(log, <<"insert", id>>)
  PROVE  /\ Resident' = Resident \cup {id}
         /\ LastUse(id)' = Now
         /\ id \in Resident => Born(id)' = Born(id) /\ Count(id)' = Count(id)
         /\ id \notin Resident => Born(id)' = Now /\ Count(id)' = 0
<1>1. /\ Inserts(id)' # {}
      /\ LastUse(id)' = Now
      /\ Inserts(id) # {} => Born(id)' = Born(id) /\ Hits(id)' = Hits(id)
      /\ Inserts(id) = {} => Born(id)' = Now /\ Hits(id)' = {}
  BY AfterInsert
<1>2. \A x : x # id => (x \in Resident' <=> x \in Resident)
  BY OthersKept
<1>3. id \in Resident'
  BY <1>1 DEF Resident
<1>4. id \in Resident <=> Inserts(id) # {}
  BY DEF Resident
<1>5. Resident' = Resident \cup {id}
  BY <1>2, <1>3
<1>6. Cardinality({}) = 0
  BY FS_EmptySet
<1> QED
  BY <1>1, <1>4, <1>5, <1>6 DEF Count

LEMMA DeleteTells ==
  ASSUME log \in Seq(CallsMade), NEW id \in Ids, log' = Append(log, <<"delete", id>>)
  PROVE  Resident' = Resident \ {id}
<1>1. Inserts(id)' = {}
  BY AfterClearing
<1>2. \A x : x # id => (x \in Resident' <=> x \in Resident)
  BY OthersKept
<1>3. id \notin Resident'
  BY <1>1 DEF Resident
<1>4. \A x : x \in Resident' <=> x \in Resident \ {id}
  BY <1>2, <1>3
<1> QED
  BY <1>4

LEMMA FlushTells ==
  ASSUME log \in Seq(CallsMade), log' = Append(log, <<"flush", NoId>>)
  PROVE  log' \in Seq(CallsMade) /\ Resident' = {}
<1>1. <<"flush", NoId>> \in CallsMade
  BY DEF CallsMade
<1>2. log' \in Seq(CallsMade)
  BY <1>1, CallsAfter
<1>3. \A x : Inserts(x)' = {}
  BY AfterClearing
<1>4. Resident' = {}
  BY <1>3 DEF Resident
<1> QED
  BY <1>2, <1>4

-------------------------------------------------------------------------------
(* The shipped policies: lists that are in an order                        *)

Ordered(o, R) == \A i, j \in 1 .. Len(o) : i < j => <<o[i], o[j]>> \in R

LEMMA StillOrdered ==
  ASSUME NEW o \in IdOrders, NEW R, NEW Q, Ordered(o, R),
         \A x, y : Contains(o, x) /\ Contains(o, y) /\ <<x, y>> \in R => <<x, y>> \in Q
  PROVE  Ordered(o, Q)
<1> SUFFICES ASSUME NEW i \in 1 .. Len(o), NEW j \in 1 .. Len(o), i < j
             PROVE  <<o[i], o[j]>> \in Q
  BY DEF Ordered
<1>1. <<o[i], o[j]>> \in R
  BY DEF Ordered
<1>2. Contains(o, o[i]) /\ Contains(o, o[j])
  BY DEF Contains
<1> QED
  BY <1>1, <1>2

LEMMA ThinnedOrdered ==
  ASSUME NEW o \in IdOrders, NEW e, NEW R, Ordered(o, R)
  PROVE  Ordered(RemoveFirst(o, e), R)
<1> DEFINE r == RemoveFirst(o, e)
<1>1. o \in Seq(Ids) /\ Len(o) \in Nat
  BY OrderFacts DEF IdOrders
<1>2. \/ r = o
      \/ \E k \in 1 .. Len(o) : TakenOut(o, k, r)
  BY <1>1, Removal
<1> HIDE DEF r
<1>3. ASSUME NEW k \in 1 .. Len(o), TakenOut(o, k, r)
      PROVE  Ordered(r, R)
  <2> SUFFICES ASSUME NEW i \in 1 .. Len(r), NEW j \in 1 .. Len(r), i < j
               PROVE  <<r[i], r[j]>> \in R
    BY DEF Ordered
  <2> DEFINE at(n) == IF n < k THEN n ELSE n + 1
  <2>1. Len(r) = Len(o) - 1
    BY <1>3 DEF TakenOut
  <2>2. at(i) \in 1 .. Len(o) /\ at(j) \in 1 .. Len(o) /\ at(i) < at(j)
    BY <1>1, <2>1
  <2>3. r[i] = o[at(i)] /\ r[j] = o[at(j)]
    BY <1>1, <1>3, <2>1 DEF TakenOut
  <2> HIDE DEF at
  <2>4. <<o[at(i)], o[at(j)]>> \in R
    BY <2>2 DEF Ordered
  <2> QED
    BY <2>3, <2>4
<1> QED
  BY <1>2, <1>3 DEF r

LEMMA FrontOrdered ==
  ASSUME NEW o \in IdOrders, NEW e \in Ids, NEW R, Ordered(o, R),
         \A x : Contains(o, x) => <<e, x>> \in R
  PROVE  Ordered(<<e>> \o o, R)
<1> DEFINE r == <<e>> \o o
<1>1. o \in Seq(Ids) /\ Len(o) \in Nat
  BY OrderFacts DEF IdOrders
<1>2. /\ Len(r) = Len(o) + 1
      /\ \A i \in 1 .. Len(o) + 1 : r[i] = IF i = 1 THEN e ELSE o[i - 1]
  <2>1. <<e>> \in Seq(Ids) /\ Len(<<e>>) = 1 /\ <<e>>[1] = e
    OBVIOUS
  <2>2. /\ Len(r) = 1 + Len(o)
        /\ \A i \in 1 .. 1 + Len(o) : r[i] = IF i <= 1 THEN <<e>>[i] ELSE o[i - 1]
    BY <1>1, <2>1, ConcatProperties
  <2> QED
    BY <1>1, <2>1, <2>2
<1> HIDE DEF r
<1>3. ASSUME NEW i \in 1 .. Len(r), NEW j \in 1 .. Len(r), i < j
      PROVE  <<r[i], r[j]>> \in R
  <2>1. j - 1 \in 1 .. Len(o) /\ r[j] = o[j - 1]
    BY <1>1, <1>2, <1>3
  <2>2. CASE i = 1
    <3>1. Contains(o, r[j])
      BY <2>1 DEF Contains
    <3>2. r[i] = e
      BY <1>1, <1>2, <2>2
    <3> QED
      BY <3>1, <3>2
  <2>3. CASE i # 1
    <3>1. i - 1 \in 1 .. Len(o) /\ r[i] = o[i - 1] /\ i - 1 < j - 1
      BY <1>1, <1>2, <1>3, <2>3
    <3> QED
      BY <2>1, <3>1 DEF Ordered
  <2> QED
    BY <2>2, <2>3
<1> QED
  BY <1>3 DEF r, Ordered

LEMMA AtTheBack ==
  ASSUME NEW o \in IdOrders, NEW e \in Ids, ~Contains(o, e), NEW R, Ordered(o, R),
         \A x : Contains(o, x) => <<x, e>> \in R
  PROVE  /\ Append(o, e) \in IdOrders
         /\ \A x : Contains(Append(o, e), x) <=> Contains(o, x) \/ x = e
         /\ Ordered(Append(o, e), R)
<1> DEFINE r == Append(o, e)
<1>1. /\ o \in Seq(Ids) /\ Len(o) \in Nat
      /\ \A i, j \in 1 .. Len(o) : o[i] = o[j] => i = j
      /\ \A i \in 1 .. Len(o) : o[i] # e
  BY OrderFacts DEF IdOrders, Contains
<1>2. /\ r \in Seq(Ids) /\ Len(r) = Len(o) + 1
      /\ \A i \in 1 .. Len(o) : r[i] = o[i]
      /\ r[Len(o) + 1] = e
  BY <1>1, AppendProperties
<1> HIDE DEF r
<1>3. \A i \in 1 .. Len(r) : i \in 1 .. Len(o) \/ i = Len(o) + 1
  BY <1>1, <1>2
<1>4. r \in IdOrders
  <2>1. ASSUME NEW i \in 1 .. Len(r), NEW j \in 1 .. Len(r), r[i] = r[j]
        PROVE  i = j
    BY <1>1, <1>2, <1>3, <2>1
  <2> QED
    BY <1>2, <2>1, OrderFacts
<1>5. \A x : Contains(r, x) <=> Contains(o, x) \/ x = e
  <2>1. \A i \in 1 .. Len(o) : i \in 1 .. Len(r)
    BY <1>1, <1>2
  <2>2. Len(o) + 1 \in 1 .. Len(r)
    BY <1>1, <1>2
  <2> QED
    BY <1>2, <1>3, <2>1, <2>2 DEF Contains
<1>6. ASSUME NEW i \in 1 .. Len(r), NEW j \in 1 .. Len(r), i < j
      PROVE  <<r[i], r[j]>> \in R
  <2>1. i \in 1 .. Len(o) /\ r[i] = o[i]
    BY <1>1, <1>2, <1>6
  <2>2. CASE j \in 1 .. Len(o)
    BY <1>2, <1>6, <2>1, <2>2 DEF Ordered
  <2>3. CASE j = Len(o) + 1
    <3>1. Contains(o, r[i])
      BY <2>1 DEF Contains
    <3> QED
      BY <1>2, <2>3, <3>1
  <2> QED
    BY <1>3, <2>2, <2>3
<1> QED
  BY <1>4, <1>5, <1>6 DEF r, Ordered

(* The ends of a list in an order, and how long it is.                     *)
LEMMA OrderedEnds ==
  ASSUME NEW o \in IdOrders, NEW R, Ordered(o, R), o # <<>>
  PROVE  /\ Contains(o, o[1]) /\ Contains(o, o[Len(o)])
         /\ o[1] = Head(o) /\ o[Len(o)] = Last(o)
         /\ \A x : Contains(o, x) => /\ x = o[1] \/ <<o[1], x>> \in R
                                     /\ x = o[Len(o)] \/ <<x, o[Len(o)]>> \in R
<1>1. o \in Seq(Ids) /\ Len(o) \in Nat
  BY OrderFacts DEF IdOrders
<1>2. Len(o) # 0
  BY <1>1, EmptySeq
<1>3. 1 \in 1 .. Len(o) /\ Len(o) \in 1 .. Len(o)
  BY <1>1, <1>2
<1>4. Contains(o, o[1]) /\ Contains(o, o[Len(o)])
  BY <1>3 DEF Contains
<1>5. o[1] = Head(o) /\ o[Len(o)] = Last(o)
  BY <1>1, HeadTailProperties DEF Last
<1>6. ASSUME NEW x, Contains(o, x)
      PROVE  /\ x = o[1] \/ <<o[1], x>> \in R
             /\ x = o[Len(o)] \/ <<x, o[Len(o)]>> \in R
  <2>1. PICK i \in 1 .. Len(o) : o[i] = x
    BY <1>6 DEF Contains
  <2>2. i = 1 \/ 1 < i
    OBVIOUS
  <2>3. i = Len(o) \/ i < Len(o)
    BY <1>1
  <2> QED
    BY <1>3, <2>1, <2>2, <2>3 DEF Ordered
<1> QED
  BY <1>4, <1>5, <1>6

LEMMA OrderCounts ==
  ASSUME NEW o \in IdOrders, NEW S, \A x : Contains(o, x) <=> x \in S
  PROVE  ToSet(o) = S /\ Len(o) = Cardinality(S)
<1>1. /\ o \in Seq(Ids) /\ Len(o) \in Nat /\ DOMAIN o = 1 .. Len(o)
      /\ \A i, j \in 1 .. Len(o) : o[i] = o[j] => i = j
  BY OrderFacts DEF IdOrders
<1>2. ToSet(o) = S
  BY <1>1 DEF ToSet, Contains
<1>3. /\ o \in [1 .. Len(o) -> S]
      /\ \A y \in S : \E i \in 1 .. Len(o) : o[i] = y
  <2>1. \A i \in 1 .. Len(o) : o[i] \in S
    BY DEF Contains
  <2>2. o \in [1 .. Len(o) -> Ids]
    BY <1>1
  <2>3. \A y \in S : \E i \in 1 .. Len(o) : o[i] = y
    BY DEF Contains
  <2> QED
    BY <2>1, <2>2, <2>3
<1>4. o \in Bijection(1 .. Len(o), S)
  BY <1>1, <1>3, Fun_IsBij
<1>5. ExistsBijection(1 .. Len(o), S)
  BY <1>4 DEF ExistsBijection
<1>6. Cardinality(S) = Len(o)
  BY <1>1, <1>5, FS_CountingElements
<1> QED
  BY <1>2, <1>6

-------------------------------------------------------------------------------
(* The shipped policies against the documentation                          *)

UsedLater == {p \in Ids \X Ids : LastUse(p[2]) < LastUse(p[1])}
BornBefore == {p \in Ids \X Ids : Born(p[1]) < Born(p[2])}

LRUInv ==
  /\ lruOrder \in IdOrders
  /\ \A x : Contains(lruOrder, x) <=> x \in Resident
  /\ Ordered(lruOrder, UsedLater)

FIFOInv ==
  /\ fifoOrder \in IdOrders
  /\ \A x : Contains(fifoOrder, x) <=> x \in Resident
  /\ Ordered(fifoOrder, BornBefore)

LFUInv ==
  /\ DOMAIN lfuEntries = Resident
  /\ lfuEntries \in [Resident -> [count : Nat, order : Nat]]
  /\ next \in Nat
  /\ \A x \in Resident : lfuEntries[x].count = Count(x) + 1 /\ lfuEntries[x].order < next
  /\ \A x, y \in Resident : Born(x) < Born(y) => lfuEntries[x].order < lfuEntries[y].order

LEMMA Pairs ==
  /\ \A x, y \in Ids : <<x, y>> \in UsedLater <=> LastUse(y) < LastUse(x)
  /\ \A x, y \in Ids : <<x, y>> \in BornBefore <=> Born(x) < Born(y)
  /\ \A x, y : <<x, y>> \in UsedLater \cup BornBefore => x \in Ids /\ y \in Ids
  BY DEF UsedLater, BornBefore

LEMMA PairsAfter ==
  /\ \A x, y \in Ids : <<x, y>> \in UsedLater' <=> LastUse(y)' < LastUse(x)'
  /\ \A x, y \in Ids : <<x, y>> \in BornBefore' <=> Born(x)' < Born(y)'
  BY DEF UsedLater, BornBefore

LEMMA EmptyOrder ==
  ASSUME NEW R
  PROVE  <<>> \in IdOrders /\ (\A x : ~Contains(<<>>, x)) /\ Ordered(<<>>, R)
  BY DEF IdOrders, IsInjective, Contains, Ordered

(* What is moved to the front was used last.                               *)
LEMMA MovedToFront ==
  ASSUME log \in Seq(CallsMade), LRUInv, NEW id \in Ids,
         lruOrder' = <<id>> \o RemoveFirst(lruOrder, id),
         \A x \in Resident : x # id => LastUse(x)' = LastUse(x),
         LastUse(id)' = Now,
         Resident' = Resident \cup {id}
  PROVE  LRUInv'
<1> DEFINE rest == RemoveFirst(lruOrder, id)
<1>1. /\ rest \in IdOrders
      /\ \A x : Contains(rest, x) <=> x \in Resident /\ x # id
      /\ Ordered(rest, UsedLater)
  BY Shortened, ThinnedOrdered DEF LRUInv
<1>2. lruOrder' = <<id>> \o rest
  OBVIOUS
<1> HIDE DEF rest
<1>3. /\ lruOrder' \in IdOrders
      /\ \A x : Contains(lruOrder', x) <=> Contains(rest, x) \/ x = id
  <2>1. ~Contains(rest, id)
    BY <1>1
  <2>2. /\ <<id>> \o rest \in IdOrders
        /\ \A x : Contains(<<id>> \o rest, x) <=> Contains(rest, x) \/ x = id
    BY <1>1, <2>1, InFront
  <2> QED
    BY <1>2, <2>2
<1>4. Resident \subseteq Ids /\ \A x \in Resident : LastUse(x) < Now
  BY ResidentFacts
<1>5. Ordered(rest, UsedLater')
  <2>1. ASSUME NEW x, NEW y, Contains(rest, x), Contains(rest, y), <<x, y>> \in UsedLater
        PROVE  <<x, y>> \in UsedLater'
    <3>1. x \in Resident /\ y \in Resident /\ x # id /\ y # id /\ x \in Ids /\ y \in Ids
      BY <1>1, <1>4, <2>1
    <3>2. LastUse(y) < LastUse(x) /\ LastUse(x)' = LastUse(x) /\ LastUse(y)' = LastUse(y)
      BY <2>1, <3>1, Pairs
    <3> QED
      BY <3>1, <3>2, PairsAfter
  <2> QED
    BY <1>1, <2>1, StillOrdered
<1>6. ASSUME NEW x, Contains(rest, x)
      PROVE  <<id, x>> \in UsedLater'
  <2>1. x \in Resident /\ x # id /\ x \in Ids
    BY <1>1, <1>4, <1>6
  <2>2. LastUse(x)' < LastUse(id)'
    BY <1>4, <2>1
  <2> QED
    BY <2>1, <2>2, PairsAfter
<1>7. Ordered(lruOrder', UsedLater')
  BY <1>1, <1>2, <1>5, <1>6, FrontOrdered
<1>8. \A x : Contains(lruOrder', x) <=> x \in Resident'
  BY <1>1, <1>3
<1> QED
  BY <1>3, <1>7, <1>8 DEF LRUInv

LEMMA LRUKeeps ==
  ASSUME log \in Seq(CallsMade), LRUInv, NEW id \in Ids,
         LRUOnHit(id) \/ LRUOnInsert(id) \/ LRUOnDelete(id)
  PROVE  LRUInv'
<1>1. lruOrder \in IdOrders /\ (\A x : Contains(lruOrder, x) <=> x \in Resident)
      /\ Ordered(lruOrder, UsedLater)
  BY DEF LRUInv
<1>2. LRUItems = Resident
  BY <1>1, OrderCounts DEF LRUItems
<1>3. CASE LRUOnHit(id)
  <2>1. log' = Append(log, <<"hit", id>>)
    BY <1>3 DEF LRUOnHit, Record
  <2>2. Resident' = Resident /\ (id \in Resident => LastUse(id)' = Now)
    BY <2>1, HitTells
  <2>3. \A x : x # id => LastUse(x)' = LastUse(x)
    BY <2>1, OthersKept DEF Kept
  <2>4. CASE id \in Resident
    <3>1. lruOrder' = <<id>> \o RemoveFirst(lruOrder, id)
      BY <1>2, <1>3, <2>4 DEF LRUOnHit, MoveToFront
    <3>2. Resident' = Resident \cup {id}
      BY <2>2, <2>4
    <3> QED
      BY <2>2, <2>3, <2>4, <3>1, <3>2, MovedToFront
  <2>5. CASE id \notin Resident
    <3>1. lruOrder' = lruOrder
      BY <1>2, <1>3, <2>5 DEF LRUOnHit
    <3>2. Resident \subseteq Ids
      BY ResidentFacts
    <3>3. ASSUME NEW x, NEW y, Contains(lruOrder, x), Contains(lruOrder, y),
                 <<x, y>> \in UsedLater
          PROVE  <<x, y>> \in UsedLater'
      <4>1. x # id /\ y # id /\ x \in Ids /\ y \in Ids
        BY <1>1, <2>5, <3>2, <3>3
      <4> QED
        BY <2>3, <3>3, <4>1, Pairs, PairsAfter
    <3>4. Ordered(lruOrder, UsedLater')
      BY <1>1, <3>3, StillOrdered
    <3> QED
      BY <1>1, <2>2, <3>1, <3>4 DEF LRUInv
  <2> QED
    BY <2>4, <2>5
<1>4. CASE LRUOnInsert(id)
  <2>1. log' = Append(log, <<"insert", id>>) /\ lruOrder' = <<id>> \o RemoveFirst(lruOrder, id)
    BY <1>4 DEF LRUOnInsert, Record, MoveToFront
  <2>2. Resident' = Resident \cup {id} /\ LastUse(id)' = Now
    BY <2>1, InsertTells
  <2>3. \A x : x # id => LastUse(x)' = LastUse(x)
    BY <2>1, OthersKept DEF Kept
  <2> QED
    BY <2>1, <2>2, <2>3, MovedToFront
<1>5. CASE LRUOnDelete(id)
  <2>1. log' = Append(log, <<"delete", id>>) /\ lruOrder' = RemoveFirst(lruOrder, id)
    BY <1>5 DEF LRUOnDelete, Record
  <2>2. Resident' = Resident \ {id}
    BY <2>1, DeleteTells
  <2>3. \A x : x # id => LastUse(x)' = LastUse(x)
    BY <2>1, OthersKept DEF Kept
  <2>4. /\ lruOrder' \in IdOrders
        /\ \A x : Contains(lruOrder', x) <=> x \in Resident /\ x # id
        /\ Ordered(lruOrder', UsedLater)
    BY <1>1, <2>1, Shortened, ThinnedOrdered
  <2>5. Resident \subseteq Ids
    BY ResidentFacts
  <2>6. ASSUME NEW x, NEW y, Contains(lruOrder', x), Contains(lruOrder', y),
               <<x, y>> \in UsedLater
        PROVE  <<x, y>> \in UsedLater'
    <3>1. x # id /\ y # id /\ x \in Ids /\ y \in Ids
      BY <2>4, <2>5, <2>6
    <3> QED
      BY <2>3, <2>6, <3>1, Pairs, PairsAfter
  <2>7. Ordered(lruOrder', UsedLater')
    BY <2>4, <2>6, StillOrdered
  <2>8. \A x : Contains(lruOrder', x) <=> x \in Resident'
    BY <2>2, <2>4
  <2> QED
    BY <2>4, <2>7, <2>8 DEF LRUInv
<1> QED
  BY <1>3, <1>4, <1>5

LEMMA FIFOKeeps ==
  ASSUME log \in Seq(CallsMade), FIFOInv, NEW id \in Ids,
         FIFOOnHit(id) \/ FIFOOnInsert(id) \/ FIFOOnDelete(id)
  PROVE  FIFOInv'
<1>1. fifoOrder \in IdOrders /\ (\A x : Contains(fifoOrder, x) <=> x \in Resident)
      /\ Ordered(fifoOrder, BornBefore)
  BY DEF FIFOInv
<1>2. FIFOItems = Resident
  BY <1>1, OrderCounts DEF FIFOItems
<1>3. Resident \subseteq Ids /\ \A x \in Resident : Born(x) < Now
  BY ResidentFacts
<1>4. ASSUME NEW o \in IdOrders, Ordered(o, BornBefore),
             \A x : Contains(o, x) => x \in Resident /\ Born(x)' = Born(x)
      PROVE  Ordered(o, BornBefore')
  <2>1. ASSUME NEW x, NEW y, Contains(o, x), Contains(o, y), <<x, y>> \in BornBefore
        PROVE  <<x, y>> \in BornBefore'
    <3>1. x \in Ids /\ y \in Ids /\ Born(x)' = Born(x) /\ Born(y)' = Born(y)
      BY <1>3, <1>4, <2>1
    <3> QED
      BY <2>1, <3>1, Pairs, PairsAfter
  <2> QED
    BY <1>4, <2>1, StillOrdered
<1>5. CASE FIFOOnHit(id)
  <2>1. log' = Append(log, <<"hit", id>>) /\ fifoOrder' = fifoOrder
    BY <1>5 DEF FIFOOnHit, Record
  <2>2. Resident' = Resident /\ (id \in Resident => Born(id)' = Born(id))
    BY <2>1, HitTells
  <2>3. \A x : x # id => Born(x)' = Born(x)
    BY <2>1, OthersKept DEF Kept
  <2>4. \A x : Contains(fifoOrder, x) => x \in Resident /\ Born(x)' = Born(x)
    BY <1>1, <2>2, <2>3
  <2>5. Ordered(fifoOrder, BornBefore')
    BY <1>1, <1>4, <2>4
  <2> QED
    BY <1>1, <2>1, <2>2, <2>5 DEF FIFOInv
<1>6. CASE FIFOOnInsert(id)
  <2>1. /\ log' = Append(log, <<"insert", id>>)
        /\ fifoOrder' = IF id \in Resident THEN fifoOrder ELSE Append(fifoOrder, id)
    BY <1>2, <1>6 DEF FIFOOnInsert, Record
  <2>2. /\ Resident' = Resident \cup {id}
        /\ id \in Resident => Born(id)' = Born(id)
        /\ id \notin Resident => Born(id)' = Now
    BY <2>1, InsertTells
  <2>3. \A x : x # id => Born(x)' = Born(x)
    BY <2>1, OthersKept DEF Kept
  <2>4. \A x : Contains(fifoOrder, x) => x \in Resident /\ Born(x)' = Born(x)
    BY <1>1, <2>2, <2>3
  <2>5. Ordered(fifoOrder, BornBefore')
    BY <1>1, <1>4, <2>4
  <2>6. CASE id \in Resident
    <3>1. fifoOrder' = fifoOrder /\ Resident' = Resident
      BY <2>1, <2>2, <2>6
    <3> QED
      BY <1>1, <2>5, <3>1 DEF FIFOInv
  <2>7. CASE id \notin Resident
    <3>1. fifoOrder' = Append(fifoOrder, id) /\ ~Contains(fifoOrder, id)
      BY <1>1, <2>1, <2>7
    <3>2. \A x : Contains(fifoOrder, x) => <<x, id>> \in BornBefore'
      BY <1>1, <1>3, <2>2, <2>4, <2>7, PairsAfter
    <3>3. /\ fifoOrder' \in IdOrders
          /\ \A x : Contains(fifoOrder', x) <=> Contains(fifoOrder, x) \/ x = id
          /\ Ordered(fifoOrder', BornBefore')
      BY <1>1, <2>5, <3>1, <3>2, AtTheBack
    <3>4. \A x : Contains(fifoOrder', x) <=> x \in Resident'
      BY <1>1, <2>2, <3>3
    <3> QED
      BY <3>3, <3>4 DEF FIFOInv
  <2> QED
    BY <2>6, <2>7
<1>7. CASE FIFOOnDelete(id)
  <2>1. log' = Append(log, <<"delete", id>>) /\ fifoOrder' = RemoveFirst(fifoOrder, id)
    BY <1>7 DEF FIFOOnDelete, Record
  <2>2. Resident' = Resident \ {id}
    BY <2>1, DeleteTells
  <2>3. \A x : x # id => Born(x)' = Born(x)
    BY <2>1, OthersKept DEF Kept
  <2>4. /\ fifoOrder' \in IdOrders
        /\ \A x : Contains(fifoOrder', x) <=> x \in Resident /\ x # id
        /\ Ordered(fifoOrder', BornBefore)
    BY <1>1, <2>1, Shortened, ThinnedOrdered
  <2>5. \A x : Contains(fifoOrder', x) => x \in Resident /\ Born(x)' = Born(x)
    BY <2>3, <2>4
  <2> DEFINE o == fifoOrder'
  <2>6. o \in IdOrders /\ Ordered(o, BornBefore)
        /\ \A x : Contains(o, x) => x \in Resident /\ Born(x)' = Born(x)
    BY <2>4, <2>5
  <2> HIDE DEF o
  <2>7. Ordered(o, BornBefore')
    BY <1>4, <2>6
  <2>8. \A x : Contains(fifoOrder', x) <=> x \in Resident'
    BY <2>2, <2>4
  <2> QED
    BY <2>4, <2>7, <2>8 DEF FIFOInv, o
<1> QED
  BY <1>5, <1>6, <1>7

Entries(S) == [S -> [count : Nat, order : Nat]]

LEMMA LFUKeeps ==
  ASSUME log \in Seq(CallsMade), LFUInv, NEW id \in Ids,
         LFUOnHit(id) \/ LFUOnInsert(id) \/ LFUOnDelete(id)
  PROVE  LFUInv'
<1>1. /\ DOMAIN lfuEntries = Resident
      /\ lfuEntries \in Entries(Resident)
      /\ next \in Nat
      /\ \A x \in Resident : lfuEntries[x].count = Count(x) + 1 /\ lfuEntries[x].order < next
      /\ \A x, y \in Resident :
           Born(x) < Born(y) => lfuEntries[x].order < lfuEntries[y].order
  BY DEF LFUInv, Entries
<1>2. /\ \A x \in Resident : Born(x) \in Nat /\ Born(x) < Now /\ Count(x) \in Nat
      /\ Now \in Nat
  BY ResidentFacts
<1>3. \A x \in Resident : /\ lfuEntries[x] \in [count : Nat, order : Nat]
                          /\ lfuEntries[x].count \in Nat /\ lfuEntries[x].order \in Nat
  BY <1>1 DEF Entries
<1>4. CASE LFUOnHit(id)
  <2>1. log' = Append(log, <<"hit", id>>) /\ next' = next
    BY <1>4 DEF LFUOnHit, Record
  <2>2. /\ Resident' = Resident
        /\ id \in Resident => Born(id)' = Born(id) /\ Count(id)' = Count(id) + 1
    BY <2>1, HitTells
  <2>3. \A x : x # id => Born(x)' = Born(x) /\ Count(x)' = Count(x)
    BY <2>1, OthersKept DEF Kept
  <2>4. \A x \in Resident : Born(x)' = Born(x)
    BY <2>2, <2>3
  <2>5. CASE id \notin Resident
    <3>1. lfuEntries' = lfuEntries
      BY <1>1, <1>4, <2>5 DEF LFUOnHit, LFUItems
    <3>2. \A x \in Resident : Count(x)' = Count(x)
      BY <2>3, <2>5
    <3> QED
      BY <1>1, <2>1, <2>2, <2>4, <3>1, <3>2 DEF LFUInv, Entries
  <2>6. CASE id \in Resident
    <3>1. lfuEntries' = [lfuEntries EXCEPT ![id].count = @ + 1]
      BY <1>1, <1>4, <2>6 DEF LFUOnHit, LFUItems
    <3>2. PICK e \in [count : Nat, order : Nat] :
            /\ e = [lfuEntries[id] EXCEPT !.count = @ + 1]
            /\ e.count = lfuEntries[id].count + 1 /\ e.order = lfuEntries[id].order
      <4> DEFINE old == lfuEntries[id]
      <4>1. old \in [count : Nat, order : Nat]
        BY <1>3, <2>6
      <4> HIDE DEF old
      <4>2. /\ [old EXCEPT !.count = @ + 1] \in [count : Nat, order : Nat]
            /\ [old EXCEPT !.count = @ + 1].count = old.count + 1
            /\ [old EXCEPT !.count = @ + 1].order = old.order
        BY <4>1
      <4> QED
        BY <4>2 DEF old
    <3>3. lfuEntries' = [lfuEntries EXCEPT ![id] = e]
      BY <1>1, <2>6, <3>1, <3>2 DEF Entries
    <3>4. /\ lfuEntries' \in Entries(Resident) /\ DOMAIN lfuEntries' = Resident
          /\ lfuEntries'[id] = e
          /\ \A x \in Resident : x # id => lfuEntries'[x] = lfuEntries[x]
      BY <1>1, <2>6, <3>3 DEF Entries
    <3>5. \A x \in Resident : lfuEntries'[x].order = lfuEntries[x].order
      BY <3>2, <3>4
    <3>6. \A x \in Resident : lfuEntries'[x].count = Count(x)' + 1
      BY <1>1, <1>2, <2>2, <2>3, <2>6, <3>2, <3>4
    <3>7. \A x, y \in Resident :
            Born(x)' < Born(y)' => lfuEntries'[x].order < lfuEntries'[y].order
      BY <1>1, <2>4, <3>5
    <3> QED
      BY <1>1, <2>1, <2>2, <3>4, <3>5, <3>6, <3>7 DEF LFUInv, Entries
  <2> QED
    BY <2>5, <2>6
<1>5. CASE LFUOnInsert(id)
  <2>1. log' = Append(log, <<"insert", id>>)
    BY <1>5 DEF LFUOnInsert, Record
  <2>2. /\ Resident' = Resident \cup {id}
        /\ id \in Resident => Born(id)' = Born(id) /\ Count(id)' = Count(id)
        /\ id \notin Resident => Born(id)' = Now /\ Count(id)' = 0
    BY <2>1, InsertTells
  <2>3. \A x : x # id => Born(x)' = Born(x) /\ Count(x)' = Count(x)
    BY <2>1, OthersKept DEF Kept
  <2>4. \A x \in Resident : Born(x)' = Born(x) /\ Count(x)' = Count(x)
    BY <2>2, <2>3
  <2>5. CASE id \in Resident
    <3>1. lfuEntries' = lfuEntries /\ next' = next
      BY <1>1, <1>5, <2>5 DEF LFUOnInsert, LFUItems, lfuVars
    <3>2. Resident' = Resident
      BY <2>2, <2>5
    <3> QED
      BY <1>1, <2>4, <3>1, <3>2 DEF LFUInv, Entries
  <2>6. CASE id \notin Resident
    <3> DEFINE e == [count |-> 1, order |-> next]
               all == Resident \cup {id}
    <3>1. /\ lfuEntries' = [i \in all |-> IF i = id THEN e ELSE lfuEntries[i]]
          /\ next' = next + 1
      BY <1>1, <1>5, <2>6 DEF LFUOnInsert, LFUItems, Put
    <3>2. e \in [count : Nat, order : Nat] /\ e.count = 1 /\ e.order = next
      BY <1>1
    <3>3. Resident' = all /\ id \in all /\ \A x \in all : x # id => x \in Resident
      BY <2>2
    <3> HIDE DEF e, all
    <3>4. /\ lfuEntries' \in Entries(all) /\ DOMAIN lfuEntries' = all
          /\ lfuEntries'[id] = e
          /\ \A x \in all : x # id => lfuEntries'[x] = lfuEntries[x]
      BY <1>3, <3>1, <3>2, <3>3 DEF Entries
    <3>5. \A x \in all : /\ lfuEntries'[x].count = Count(x)' + 1
                         /\ lfuEntries'[x].order < next'
      <4> SUFFICES ASSUME NEW x \in all
                   PROVE  /\ lfuEntries'[x].count = Count(x)' + 1
                          /\ lfuEntries'[x].order < next'
        OBVIOUS
      <4>1. CASE x = id
        BY <1>1, <2>2, <2>6, <3>1, <3>2, <3>4, <4>1
      <4>2. CASE x # id
        <5>1. x \in Resident /\ lfuEntries'[x] = lfuEntries[x] /\ Count(x)' = Count(x)
          BY <2>4, <3>3, <3>4, <4>2
        <5> QED
          BY <1>1, <1>3, <3>1, <5>1
      <4> QED
        BY <4>1, <4>2
    <3>6. ASSUME NEW x \in all, NEW y \in all, Born(x)' < Born(y)'
          PROVE  lfuEntries'[x].order < lfuEntries'[y].order
      <4>1. CASE x = id
        <5>1. Born(x)' = Now /\ y # id
          BY <1>2, <2>2, <2>6, <3>6, <4>1
        <5>2. y \in Resident /\ Born(y)' < Now
          BY <1>2, <2>4, <3>3, <5>1
        <5> QED
          BY <1>2, <2>4, <3>6, <5>1, <5>2
      <4>2. CASE x # id /\ y = id
        <5>1. x \in Resident /\ lfuEntries'[x] = lfuEntries[x] /\ lfuEntries'[y].order = next
          BY <3>2, <3>3, <3>4, <4>2
        <5> QED
          BY <1>1, <5>1
      <4>3. CASE x # id /\ y # id
        <5>1. /\ x \in Resident /\ y \in Resident
              /\ lfuEntries'[x] = lfuEntries[x] /\ lfuEntries'[y] = lfuEntries[y]
          BY <3>3, <3>4, <4>3
        <5>2. Born(x) < Born(y)
          BY <2>4, <3>6, <5>1
        <5> QED
          BY <1>1, <5>1, <5>2
      <4> QED
        BY <4>1, <4>2, <4>3
    <3>7. next' \in Nat
      BY <1>1, <3>1
    <3> QED
      BY <3>3, <3>4, <3>5, <3>6, <3>7 DEF LFUInv, Entries
  <2> QED
    BY <2>5, <2>6
<1>6. CASE LFUOnDelete(id)
  <2>1. log' = Append(log, <<"delete", id>>) /\ next' = next
    BY <1>6 DEF LFUOnDelete, Record
  <2>2. Resident' = Resident \ {id}
    BY <2>1, DeleteTells
  <2>3. \A x : x # id => Born(x)' = Born(x) /\ Count(x)' = Count(x)
    BY <2>1, OthersKept DEF Kept
  <2> DEFINE left == Resident \ {id}
  <2>4. lfuEntries' = [x \in left |-> lfuEntries[x]]
    BY <1>1, <1>6 DEF LFUOnDelete, Restrict, LFUItems
  <2>5. Resident' = left /\ \A x \in left : x \in Resident /\ x # id
    BY <2>2
  <2> HIDE DEF left
  <2>6. /\ lfuEntries' \in Entries(left) /\ DOMAIN lfuEntries' = left
        /\ \A x \in left : lfuEntries'[x] = lfuEntries[x]
    BY <1>3, <2>4, <2>5 DEF Entries
  <2>7. \A x \in left : lfuEntries'[x].count = Count(x)' + 1 /\ lfuEntries'[x].order < next'
    BY <1>1, <2>1, <2>3, <2>5, <2>6
  <2>8. \A x, y \in left :
          Born(x)' < Born(y)' => lfuEntries'[x].order < lfuEntries'[y].order
    BY <1>1, <2>3, <2>5, <2>6
  <2> QED
    BY <1>1, <2>1, <2>5, <2>6, <2>7, <2>8 DEF LFUInv, Entries
<1> QED
  BY <1>4, <1>5, <1>6

PoliciesInv ==
  /\ log \in Seq(CallsMade)
  /\ LRUInv
  /\ LFUInv
  /\ FIFOInv

Emptied ==
  /\ Resident = {}
  /\ lruOrder = <<>> /\ fifoOrder = <<>>
  /\ lfuEntries = <<>> /\ next = 0

LEMMA EmptiedPolicies == Emptied => LRUInv /\ FIFOInv /\ LFUInv
<1> SUFFICES ASSUME Emptied
             PROVE  LRUInv /\ FIFOInv /\ LFUInv
  OBVIOUS
<1>1. LRUInv /\ FIFOInv
  BY EmptyOrder DEF LRUInv, FIFOInv, Emptied
<1>2. <<>> = [x \in {} |-> 0]
  OBVIOUS
<1>3. DOMAIN lfuEntries = {} /\ lfuEntries \in Entries({})
  BY <1>2 DEF Entries, Emptied
<1>4. LFUInv
  BY <1>3 DEF LFUInv, Entries, Emptied
<1> QED
  BY <1>1, <1>4

LEMMA PoliciesInitially == PoliciesInit => PoliciesInv
<1> SUFFICES ASSUME PoliciesInit
             PROVE  PoliciesInv
  OBVIOUS
<1>1. /\ log = <<>> /\ lruOrder = <<>> /\ fifoOrder = <<>> /\ lfuEntries = <<>>
      /\ next = 0
  BY DEF PoliciesInit, LogInit, LRUInit, LFUInit, FIFOInit
<1>2. log \in Seq(CallsMade)
  BY <1>1
<1>3. \A x : Inserts(x) = {}
  <2>1. Len(log) = 0
    BY <1>1
  <2>2. 1 .. Len(log) = {}
    BY <2>1
  <2> QED
    BY <1>2, <2>2, HistoryFacts
<1>4. Resident = {}
  BY <1>3 DEF Resident
<1> QED
  BY <1>1, <1>2, <1>4, EmptiedPolicies DEF PoliciesInv, Emptied

(* The tracked ids of all three.                                           *)
AllTracked == LRUItems = Resident /\ LFUItems = Resident /\ FIFOItems = Resident

LEMMA Tracked ==
  ASSUME PoliciesInv
  PROVE  AllTracked
<1>1. LRUItems = Resident
  BY OrderCounts DEF PoliciesInv, LRUInv, LRUItems
<1>2. FIFOItems = Resident
  BY OrderCounts DEF PoliciesInv, FIFOInv, FIFOItems
<1> QED
  BY <1>1, <1>2 DEF PoliciesInv, LFUInv, LFUItems, AllTracked

LEMMA PoliciesStep ==
  ASSUME PoliciesInv, [PoliciesNext]_policiesVars
  PROVE  PoliciesInv'
<1>1. log \in Seq(CallsMade) /\ LRUInv /\ LFUInv /\ FIFOInv
  BY DEF PoliciesInv
<1>2. ASSUME NEW id \in Ids, OnHits(id) \/ OnInserts(id) \/ OnDeletes(id)
      PROVE  PoliciesInv'
  <2>1. PICK op \in {"hit", "insert", "delete"} : log' = Append(log, <<op, id>>)
    <3>1. CASE OnHits(id)
      BY <3>1 DEF OnHits, LRUOnHit, Record
    <3>2. CASE OnInserts(id)
      BY <3>2 DEF OnInserts, LRUOnInsert, Record
    <3>3. CASE OnDeletes(id)
      BY <3>3 DEF OnDeletes, LRUOnDelete, Record
    <3> QED
      BY <1>2, <3>1, <3>2, <3>3
  <2>2. log' \in Seq(CallsMade)
    BY <1>1, <2>1, OthersKept
  <2>3. LRUInv'
    BY <1>1, <1>2, LRUKeeps DEF OnHits, OnInserts, OnDeletes
  <2>4. LFUInv'
    BY <1>1, <1>2, LFUKeeps DEF OnHits, OnInserts, OnDeletes
  <2>5. FIFOInv'
    BY <1>1, <1>2, FIFOKeeps DEF OnHits, OnInserts, OnDeletes
  <2> QED
    BY <2>2, <2>3, <2>4, <2>5 DEF PoliciesInv
<1>3. CASE Flushes
  <2>1. log' = Append(log, <<"flush", NoId>>) /\ lruOrder' = <<>> /\ fifoOrder' = <<>>
        /\ lfuEntries' = <<>> /\ next' = 0
    BY <1>3 DEF Flushes, LRUFlush, LFUFlush, FIFOFlush, Record
  <2>2. log' \in Seq(CallsMade) /\ Resident' = {}
    BY <1>1, <2>1, FlushTells
  <2>3. Emptied' => LRUInv' /\ FIFOInv' /\ LFUInv'
    BY EmptiedPolicies, PTL
  <2>4. LRUInv' /\ FIFOInv' /\ LFUInv'
    BY <2>1, <2>2, <2>3 DEF Emptied
  <2> QED
    BY <2>2, <2>4 DEF PoliciesInv
<1>4. CASE UNCHANGED policiesVars
  <2>1. log' = log /\ lruOrder' = lruOrder /\ fifoOrder' = fifoOrder
        /\ lfuEntries' = lfuEntries /\ next' = next
    BY <1>4 DEF policiesVars, lfuVars
  <2>2. \A o, x : Calls(o, x)' = Calls(o, x)
    BY <2>1 DEF Calls
  <2>3. \A x : Inserts(x)' = Inserts(x)
    BY <2>2 DEF Inserts, Cleared
  <2>4. \A x : Hits(x)' = Hits(x) /\ Born(x)' = Born(x)
    BY <2>2, <2>3 DEF Hits, Born
  <2>5. \A x : LastUse(x)' = LastUse(x) /\ Count(x)' = Count(x)
    BY <2>3, <2>4 DEF LastUse, Count
  <2>6. Resident' = Resident /\ UsedLater' = UsedLater /\ BornBefore' = BornBefore
    BY <2>3, <2>4, <2>5 DEF Resident, UsedLater, BornBefore
  <2>7. LRUInv' /\ FIFOInv'
    BY <1>1, <2>1, <2>6 DEF LRUInv, FIFOInv
  <2>8. LFUInv'
    BY <1>1, <2>1, <2>4, <2>5, <2>6 DEF LFUInv
  <2> QED
    BY <1>1, <2>1, <2>7, <2>8 DEF PoliciesInv
<1> QED
  BY <1>2, <1>3, <1>4 DEF PoliciesNext

(* From two lists and a map, in the order the documentation names.         *)
LEMMA LRUAgrees ==
  ASSUME log \in Seq(CallsMade), LRUInv
  PROVE  LRUMatchesReference
<1>1. lruOrder \in IdOrders /\ (\A x : Contains(lruOrder, x) <=> x \in Resident)
      /\ Ordered(lruOrder, UsedLater)
  BY DEF LRUInv
<1>2. LRUItems = Resident /\ Len(lruOrder) = Cardinality(Resident)
  BY <1>1, OrderCounts DEF LRUItems
<1>3. Resident \subseteq Ids /\ \A x \in Resident : LastUse(x) \in Nat
  BY ResidentFacts
<1>4. CASE lruOrder = <<>>
  <2>1. Resident = {}
    BY <1>1, <1>4, EmptyOrder
  <2> QED
    BY <1>2, <1>4, <2>1 DEF LRUMatchesReference, Selects, LRUVictim, LeastRecentlyUsed
<1>5. CASE lruOrder # <<>>
  <2> DEFINE v == lruOrder[Len(lruOrder)]
  <2>1. /\ Contains(lruOrder, v) /\ v = Last(lruOrder)
        /\ \A x : Contains(lruOrder, x) => x = v \/ <<x, v>> \in UsedLater
    BY <1>1, <1>5, OrderedEnds
  <2> HIDE DEF v
  <2>2. v \in Resident /\ v \in Ids /\ v # NoId
    BY <1>1, <1>3, <2>1, NoIdAssumption
  <2>3. \A x \in Resident : x = v \/ LastUse(v) < LastUse(x)
    BY <1>1, <1>3, <2>1, <2>2, Pairs
  <2>4. \A x \in Resident : (\A y \in Resident : LastUse(x) <= LastUse(y)) <=> x = v
    BY <1>3, <2>2, <2>3
  <2>5. LeastRecentlyUsed = {v}
    BY <2>2, <2>4 DEF LeastRecentlyUsed
  <2>6. LRUVictim = v
    BY <1>5, <2>1 DEF LRUVictim
  <2>7. Selects(LRUVictim, LeastRecentlyUsed)
    BY <2>2, <2>5, <2>6 DEF Selects
  <2> QED
    BY <1>2, <2>7 DEF LRUMatchesReference
<1> QED
  BY <1>4, <1>5

LEMMA FIFOAgrees ==
  ASSUME log \in Seq(CallsMade), FIFOInv
  PROVE  FIFOMatchesReference
<1>1. fifoOrder \in IdOrders /\ (\A x : Contains(fifoOrder, x) <=> x \in Resident)
      /\ Ordered(fifoOrder, BornBefore)
  BY DEF FIFOInv
<1>2. FIFOItems = Resident /\ Len(fifoOrder) = Cardinality(Resident)
  BY <1>1, OrderCounts DEF FIFOItems
<1>3. Resident \subseteq Ids /\ \A x \in Resident : Born(x) \in Nat
  BY ResidentFacts
<1>4. CASE fifoOrder = <<>>
  <2>1. Resident = {}
    BY <1>1, <1>4, EmptyOrder
  <2> QED
    BY <1>2, <1>4, <2>1 DEF FIFOMatchesReference, Selects, FIFOVictim, FirstIn
<1>5. CASE fifoOrder # <<>>
  <2> DEFINE v == fifoOrder[1]
  <2>1. /\ Contains(fifoOrder, v) /\ v = Head(fifoOrder)
        /\ \A x : Contains(fifoOrder, x) => x = v \/ <<v, x>> \in BornBefore
    BY <1>1, <1>5, OrderedEnds
  <2> HIDE DEF v
  <2>2. v \in Resident /\ v \in Ids /\ v # NoId
    BY <1>1, <1>3, <2>1, NoIdAssumption
  <2>3. \A x \in Resident : x = v \/ Born(v) < Born(x)
    BY <1>1, <1>3, <2>1, <2>2, Pairs
  <2>4. \A x \in Resident : (\A y \in Resident : Born(x) <= Born(y)) <=> x = v
    BY <1>3, <2>2, <2>3
  <2>5. FirstIn = {v}
    BY <2>2, <2>4 DEF FirstIn
  <2>6. FIFOVictim = v
    BY <1>5, <2>1 DEF FIFOVictim
  <2>7. Selects(FIFOVictim, FirstIn)
    BY <2>2, <2>5, <2>6 DEF Selects
  <2> QED
    BY <1>2, <2>7 DEF FIFOMatchesReference
<1> QED
  BY <1>4, <1>5

LEMMA LFUAgrees ==
  ASSUME log \in Seq(CallsMade), LFUInv
  PROVE  LFUMatchesReference
<1>1. /\ LFUItems = Resident
      /\ \A x \in Resident : /\ lfuEntries[x].count = Count(x) + 1
                             /\ lfuEntries[x].order \in Nat
      /\ \A x, y \in Resident :
           Born(x) < Born(y) => lfuEntries[x].order < lfuEntries[y].order
  BY DEF LFUInv, LFUItems
<1>2. /\ \A x \in Resident : Born(x) \in Nat /\ Count(x) \in Nat
      /\ \A x, y \in Resident : Born(x) = Born(y) => x = y
  BY ResidentFacts
<1> DEFINE Less(x, y) == Count(x) < Count(y) \/ (Count(x) = Count(y) /\ Born(x) < Born(y))
<1>3. \A x, y \in Resident : lfuEntries[x].order < lfuEntries[y].order <=> Born(x) < Born(y)
  <2> SUFFICES ASSUME NEW x \in Resident, NEW y \in Resident
               PROVE  lfuEntries[x].order < lfuEntries[y].order <=> Born(x) < Born(y)
    OBVIOUS
  <2>1. CASE Born(x) < Born(y)
    BY <1>1, <2>1
  <2>2. CASE Born(x) = Born(y)
    <3>1. x = y
      BY <1>2, <2>2
    <3> QED
      BY <1>1, <1>2, <3>1
  <2>3. CASE Born(y) < Born(x)
    BY <1>1, <1>2, <2>3
  <2> QED
    BY <1>2, <2>1, <2>2, <2>3
<1>4. \A x, y \in Resident : Beats(lfuEntries[x], lfuEntries[y]) <=> Less(x, y)
  <2> SUFFICES ASSUME NEW x \in Resident, NEW y \in Resident
               PROVE  Beats(lfuEntries[x], lfuEntries[y]) <=> Less(x, y)
    OBVIOUS
  <2>1. lfuEntries[x].count < lfuEntries[y].count <=> Count(x) < Count(y)
    BY <1>1, <1>2
  <2>2. lfuEntries[x].count = lfuEntries[y].count <=> Count(x) = Count(y)
    BY <1>1, <1>2
  <2> QED
    BY <1>3, <2>1, <2>2 DEF Beats
<1>5. LFUVictims = {x \in Resident : \A y \in Resident : ~Less(y, x)}
  <2> HIDE DEF Less
  <2> QED
    BY <1>1, <1>4 DEF LFUVictims
<1>6. LeastFrequentlyUsed = {x \in Resident : \A y \in Resident : ~Less(y, x)}
  <2> DEFINE Rarest == {i \in Resident : \A j \in Resident : Count(i) <= Count(j)}
  <2>1. LeastFrequentlyUsed = {i \in Rarest : \A j \in Rarest : Born(i) <= Born(j)}
    BY DEF LeastFrequentlyUsed, Count
  <2>2. ASSUME NEW x \in Rarest, \A j \in Rarest : Born(x) <= Born(j), NEW y \in Resident
        PROVE  ~Less(y, x)
    <3>1. x \in Resident /\ Count(x) <= Count(y)
      BY <2>2
    <3>2. Count(y) = Count(x) => y \in Rarest
      BY <2>2
    <3> QED
      BY <1>2, <2>2, <3>1, <3>2
  <2>3. ASSUME NEW x \in Resident, \A y \in Resident : ~Less(y, x)
        PROVE  x \in Rarest /\ \A j \in Rarest : Born(x) <= Born(j)
    <3>1. \A j \in Resident : Count(x) <= Count(j)
      BY <1>2, <2>3
    <3>2. x \in Rarest
      BY <3>1
    <3>3. \A j \in Rarest : Born(x) <= Born(j)
      <4> TAKE j \in Rarest
      <4>1. j \in Resident /\ Count(j) <= Count(x)
        OBVIOUS
      <4>2. Count(j) = Count(x)
        BY <1>2, <3>1, <4>1
      <4> QED
        BY <1>2, <2>3, <4>1, <4>2
    <3> QED
      BY <3>2, <3>3
  <2>4. \A x : x \in LeastFrequentlyUsed
                 <=> x \in Resident /\ \A y \in Resident : ~Less(y, x)
    <3>1. \A x \in Rarest : x \in Resident
      OBVIOUS
    <3> HIDE DEF Rarest, Less
    <3> QED
      BY <2>1, <2>2, <2>3, <3>1
  <2> HIDE DEF Less
  <2> QED
    BY <2>4
<1>7. Cardinality(LFUVictims) <= 1
  <2>1. ASSUME NEW x \in LFUVictims, NEW y \in LFUVictims
        PROVE  x = y
    <3>1. x \in Resident /\ y \in Resident /\ ~Less(x, y) /\ ~Less(y, x)
      <4> HIDE DEF Less
      <4> QED
        BY <1>5
    <3>2. Count(x) = Count(y) /\ Born(x) = Born(y)
      BY <1>2, <3>1
    <3> QED
      BY <1>2, <3>1, <3>2
  <2>2. CASE LFUVictims = {}
    BY <2>2, FS_EmptySet
  <2>3. CASE LFUVictims # {}
    <3>1. PICK x \in LFUVictims : TRUE
      BY <2>3
    <3>2. LFUVictims = {x}
      BY <2>1, <3>1
    <3>3. Cardinality({x}) = 1
      BY FS_Singleton
    <3> QED
      BY <3>2, <3>3
  <2> QED
    BY <2>2, <2>3
<1> HIDE DEF Less
<1>8. LFUVictims = LeastFrequentlyUsed
  BY <1>5, <1>6
<1> QED
  BY <1>1, <1>7, <1>8 DEF LFUMatchesReference

(* After any calls in any order the three policies hold the ids they were  *)
(* told of, each once, and name the victim the documentation promises, by  *)
(* recency, by frequency and by age (lru.go, lfu.go, fifo.go).             *)
THEOREM PoliciesAsDocumented == PoliciesSpec => []PoliciesMatchReference
<1>1. PoliciesInit => PoliciesInv
  BY PoliciesInitially
<1>2. PoliciesInv /\ [PoliciesNext]_policiesVars => PoliciesInv'
  BY PoliciesStep
<1>3. PoliciesInv => PoliciesMatchReference
  BY LRUAgrees, LFUAgrees, FIFOAgrees DEF PoliciesInv, PoliciesMatchReference
<1> QED
  BY <1>1, <1>2, <1>3, PTL DEF PoliciesSpec

(* Each hook of each policy does to the tracked ids what the contract says *)
(* that the orchestrator relies on (policy.go:12-32).                      *)
THEOREM HooksKeepContract == PoliciesSpec => PoliciesMeetContract
<1>1. PoliciesInit => PoliciesInv
  BY PoliciesInitially
<1>2. PoliciesInv /\ [PoliciesNext]_policiesVars => PoliciesInv'
  BY PoliciesStep
<1>3. PoliciesInv /\ AllTracked /\ AllTracked' => HooksAsPromised
  <2> SUFFICES ASSUME PoliciesInv, AllTracked, AllTracked'
               PROVE  HooksAsPromised
    OBVIOUS
  <2>1. LRUItems = Resident /\ LFUItems = Resident /\ FIFOItems = Resident
    BY DEF AllTracked
  <2>2. LRUItems' = Resident' /\ LFUItems' = Resident' /\ FIFOItems' = Resident'
    BY DEF AllTracked
  <2>3. log \in Seq(CallsMade)
    BY DEF PoliciesInv
  <2>4. ASSUME NEW id \in Ids, Called("hit", id)
        PROVE  LRUContract!OnHit(id) /\ LFUContract!OnHit(id) /\ FIFOContract!OnHit(id)
    <3>1. Resident' = Resident
      BY <2>3, <2>4, HitTells DEF Called
    <3> QED
      BY <2>1, <2>2, <3>1 DEF LRUContract!OnHit, LFUContract!OnHit, FIFOContract!OnHit
  <2>5. ASSUME NEW id \in Ids, Called("insert", id)
        PROVE  LRUContract!OnInsert(id) /\ LFUContract!OnInsert(id)
               /\ FIFOContract!OnInsert(id)
    <3>1. Resident' = Resident \cup {id}
      BY <2>3, <2>5, InsertTells DEF Called
    <3> QED
      BY <2>1, <2>2, <3>1
         DEF LRUContract!OnInsert, LFUContract!OnInsert, FIFOContract!OnInsert
  <2>6. ASSUME NEW id \in Ids, Called("delete", id)
        PROVE  LRUContract!OnDelete(id) /\ LFUContract!OnDelete(id)
               /\ FIFOContract!OnDelete(id)
    <3>1. Resident' = Resident \ {id}
      BY <2>3, <2>6, DeleteTells DEF Called
    <3> QED
      BY <2>1, <2>2, <3>1
         DEF LRUContract!OnDelete, LFUContract!OnDelete, FIFOContract!OnDelete
  <2>7. ASSUME Called("flush", NoId)
        PROVE  LRUContract!FlushPolicy /\ LFUContract!FlushPolicy /\ FIFOContract!FlushPolicy
    <3>1. Resident' = {}
      BY <2>3, <2>7, FlushTells DEF Called
    <3> QED
      BY <2>1, <2>2, <3>1
         DEF LRUContract!FlushPolicy, LFUContract!FlushPolicy, FIFOContract!FlushPolicy
  <2> QED
    BY <2>4, <2>5, <2>6, <2>7 DEF HooksAsPromised
<1>4. PoliciesInv => AllTracked
  BY Tracked
<1> QED
  BY <1>1, <1>2, <1>3, <1>4, PTL DEF PoliciesSpec, PoliciesMeetContract

-------------------------------------------------------------------------------
(* The parts together: a behaviour of Parts is one of each component, so   *)
(* that what is proved of a component holds of Parts.                      *)

LEMMA InstancesIsPart == Spec => InstancesSpec
<1>1. Init => InstancesInit
  BY DEF Init
<1>2. [Next]_vars => [InstancesNext]_instanceVars
  BY DEF Next, vars
<1> QED
  BY <1>1, <1>2, PTL DEF Spec, InstancesSpec

LEMMA PrepareIsPart == Spec => PrepareSpec
<1>1. Init => PrepareInit
  BY DEF Init
<1>2. [Next]_vars => [PrepareNext]_prepareVars
  BY DEF Next, vars
<1> QED
  BY <1>1, <1>2, PTL DEF Spec, PrepareSpec

LEMMA ConfigIsPart == Spec => ConfigSpec
<1>1. Init => ConfigInit
  BY DEF Init
<1>2. [Next]_vars => [ConfigNext]_configVars
  BY DEF Next, vars
<1> QED
  BY <1>1, <1>2, PTL DEF Spec, ConfigSpec

LEMMA FormIsPart == Spec => FormSpec
<1>1. Init => FormInit
  BY DEF Init
<1>2. [Next]_vars => [FormNext]_formVars
  BY DEF Next, vars
<1> QED
  BY <1>1, <1>2, PTL DEF Spec, FormSpec

LEMMA PoliciesIsPart == Spec => PoliciesSpec
<1>1. Init => PoliciesInit
  BY DEF Init
<1>2. [Next]_vars => [PoliciesNext]_policiesVars
  BY DEF Next, vars
<1> QED
  BY <1>1, <1>2, PTL DEF Spec, PoliciesSpec

LEMMA RemoteIsPart == Spec => PolicySpec
<1>1. Init => PolicyInit
  BY DEF Init
<1>2. [Next]_vars => [PolicyNext]_policyVars
  BY DEF Next, vars
<1> QED
  BY <1>1, <1>2, PTL DEF Spec, PolicySpec

LEMMA LimiterIsPart == Spec => LimiterSpec
<1>1. Init => LimiterInit
  BY DEF Init
<1>2. [Next]_vars => [LimiterNext]_limiterVars
  BY DEF Next, vars
<1> QED
  BY <1>1, <1>2, PTL DEF Spec, LimiterSpec

LEMMA LLMIsPart == Spec => LLMSpec
<1>1. Init => LLMInit
  BY DEF Init
<1>2. [Next]_vars => [LLMNext]_llmVars
  BY DEF Next, vars
<1> QED
  BY <1>1, <1>2, PTL DEF Spec, LLMSpec

LEMMA IndexIsPart == Spec => IndexSpec
<1>1. Init => IndexInit
  BY DEF Init
<1>2. [Next]_vars => [IndexNext]_indexVars
  BY DEF Next, vars
<1> QED
  BY <1>1, <1>2, PTL DEF Spec, IndexSpec

LEMMA RecordIsPart == Spec => RecordSpec
<1>1. Init => RecordInit
  BY DEF Init
<1>2. [Next]_vars => [RecordNext]_recordVars
  BY DEF Next, vars
<1> QED
  BY <1>1, <1>2, PTL DEF Spec, RecordSpec

LEMMA StoreIsPart == Spec => StoreSpec
<1>1. Init => StoreInit
  BY DEF Init
<1>2. [Next]_vars => [StoreNext]_storeVars
  BY DEF Next, vars
<1> QED
  BY <1>1, <1>2, PTL DEF Spec, StoreSpec

LEMMA PartStays == Spec => [](part \in PartNames)
<1>1. Init => part \in PartNames
  BY DEF Init
<1>2. part \in PartNames /\ [Next]_vars => (part \in PartNames)'
  BY DEF Next, vars
<1> QED
  BY <1>1, <1>2, PTL DEF Spec

(* Every part keeps its own types, whatever the constants (the whole of    *)
(* Parts).                                                                 *)
THEOREM PartsKeepTypes == Spec => []PartsTypeOK
<1>1. Spec => [](InstancesTypeOK /\ PrepareTypeOK /\ ConfigTypeOK /\ FormTypeOK)
  BY InstancesIsPart, InstanceHolds, PrepareIsPart, PinnedVetted, ConfigIsPart, ConfigHolds,
     FormIsPart, AcceptedForAll, PTL
<1>2. Spec => [](PolicyTypeOK /\ LimiterTypeOK /\ StoreTypeOK)
  BY RemoteIsPart, RemoteKeepsUp, LimiterIsPart, LimiterFair, StoreIsPart, ListsAreWhole, PTL
<1>3. Spec => [](LLMTypeOK /\ IndexTypeOK /\ RecordTypeOK)
  BY LLMIsPart, TallyAndDeadlines, IndexIsPart, IndexFinds, RecordIsPart, UpdatesKept, PTL
<1>4. (/\ part \in PartNames
       /\ InstancesTypeOK /\ PrepareTypeOK /\ ConfigTypeOK /\ FormTypeOK
       /\ PolicyTypeOK /\ LimiterTypeOK /\ StoreTypeOK
       /\ LLMTypeOK /\ IndexTypeOK /\ RecordTypeOK) => PartsTypeOK
  BY DEF PartsTypeOK
<1> QED
  BY <1>1, <1>2, <1>3, <1>4, PartStays, PTL

(* The policies do what the orchestrator relies on, the index is the       *)
(* service that its model is composed of, and an update of a record is one *)
(* step, also in the composition (policy.go:12, main.py:122, record.go:185)*)
THEOREM ContractsAreMet == Spec => PartsMeetContracts
<1>1. [HooksAsPromised]_policiesVars /\ [RequestsAsPromised]_indexVars
        /\ [Atomic!AtomicNext]_Atomic!atomicVars => ContractsKept
  BY DEF ContractsKept
<1>2. Spec => [][HooksAsPromised]_policiesVars
  BY PoliciesIsPart, HooksKeepContract, PTL DEF PoliciesMeetContract
<1>3. Spec => [][RequestsAsPromised]_indexVars
  BY IndexIsPart, IndexIsService, PTL DEF IndexMeetsContract
<1>4. Spec => Atomic!AtomicInit /\ [][Atomic!AtomicNext]_Atomic!atomicVars
  BY RecordIsPart, UpdateIsOneStep, PTL DEF UpdatesAreAtomic, Atomic!AtomicSpec
<1> QED
  BY <1>1, <1>2, <1>3, <1>4, PTL DEF PartsMeetContracts
===============================================================================
