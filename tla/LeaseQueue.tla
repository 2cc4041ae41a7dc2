------------------------------ MODULE LeaseQueue ------------------------------
(***************************************************************************)
(* A queue plugin as its adapter (internal/plugins/protocol/queue.go) sees *)
(* it and as the SDK's example (sdk/examples/queue) keeps it: jobs in the  *)
(* order they were added, each leased to one consumer at a time.  A lease  *)
(* is named by a token; a job becomes visible again when its lease runs    *)
(* out, and the old token stays good until the job is leased anew.  Tokens *)
(* are random: the number of the lease stands for them, 0 for none.        *)
(***************************************************************************)
EXTENDS Naturals, Sequences, SequencesExt

CONSTANT Jobs   \* cache updates

VARIABLES
  order,      \* the jobs kept, oldest first
  attempts,   \* how often each job was leased
  token,      \* the token that settles each job
  hidden      \* the jobs whose lease has not run out

leaseVars == <<order, attempts, token, hidden>>

LeaseTypeOK ==
  /\ order \in Seq(Jobs)
  /\ attempts \in [Jobs -> Nat]
  /\ token \in [Jobs -> Nat]
  /\ hidden \subseteq Jobs

LeaseInit ==
  /\ order = << >>
  /\ attempts = [j \in Jobs |-> 0]
  /\ token = [j \in Jobs |-> 0]
  /\ hidden = {}

Kept == ToSet(order)

AddJob(j) ==
  /\ order' = Append(order, j)
  /\ UNCHANGED <<attempts, token, hidden>>

Visible(i) == order[i] \notin hidden

(* The oldest visible job.                                                 *)
IsNext(j) ==
  \E i \in DOMAIN order :
    order[i] = j /\ Visible(i) /\ \A k \in 1 .. i - 1 : ~Visible(k)

Lease(j) ==
  /\ IsNext(j)
  /\ attempts' = [attempts EXCEPT ![j] = @ + 1]
  /\ token' = [token EXCEPT ![j] = attempts[j] + 1]
  /\ hidden' = hidden \cup {j}
  /\ UNCHANGED order

AnswerToAnyToken(j, t) == IF j \in Kept THEN "ok" ELSE "unknown"

(* The answer to a consumer that settles j with token t: 404, 409 or 200.  *)
Answer(j, t) ==
  CASE j \notin Kept -> "unknown"
    [] j \in Kept /\ (token[j] = 0 \/ t # token[j]) -> "conflict"
    [] OTHER -> "ok"

AckJob(j) ==
  /\ \E i \in DOMAIN order : order[i] = j /\ order' = RemoveAt(order, i)
  /\ hidden' = hidden \ {j}
  /\ UNCHANGED <<attempts, token>>

NackDrops(j) == AckJob(j)

NackJob(j) ==
  /\ token' = [token EXCEPT ![j] = 0]
  /\ hidden' = hidden \ {j}
  /\ UNCHANGED <<order, attempts>>

(* Settling j: nothing happens unless the token is the current one.        *)
Settle(action, j, t) ==
  \/ Answer(j, t) # "ok" /\ UNCHANGED leaseVars
  \/ Answer(j, t) = "ok" /\ action = "ack" /\ AckJob(j)
  \/ Answer(j, t) = "ok" /\ action = "nack" /\ NackJob(j)

Expire(j) ==
  /\ j \in hidden
  /\ hidden' = hidden \ {j}
  /\ UNCHANGED <<order, attempts, token>>
===============================================================================
