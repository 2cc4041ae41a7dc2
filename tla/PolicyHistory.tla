---------------------------- MODULE PolicyHistory -----------------------------
(***************************************************************************)
(* What the documentation means by "least recently used", "least           *)
(* frequently used" and "first in", stated over the log of the hook calls  *)
(* a policy received (docs/USER_GUIDE.md:153, docs/EXTENDING.md), *)
(* independently of the lists and maps the policies keep.                  *)
(***************************************************************************)
EXTENDS Naturals, Sequences, FiniteSetsExt, CacheIds

CONSTANT MaxCalls   \* how many hook calls a behaviour makes

VARIABLE log        \* the hook calls so far, oldest first

Record(op, id) ==
  /\ Len(log) < MaxCalls
  /\ log' = Append(log, <<op, id>>)

(* The step is that hook call.                                             *)
Called(op, id) == log' = Append(log, <<op, id>>)

LogInit == log = << >>

Calls(op, id) == {n \in DOMAIN log : log[n] = <<op, id>>}

(* The last call that made the policy forget the id.                       *)
Cleared(id) == Max({0} \cup Calls("delete", id) \cup Calls("flush", NoId))

Inserts(id) == {n \in Calls("insert", id) : n > Cleared(id)}

Resident == {id \in Ids : Inserts(id) # {}}

Born(id) == Min(Inserts(id))

Hits(id) == {n \in Calls("hit", id) : n > Born(id)}

LastUse(id) == Max(Inserts(id) \cup Hits(id))

LeastRecentlyUsed ==
  {i \in Resident : \A j \in Resident : LastUse(i) <= LastUse(j)}

(* The oldest of the ids with the fewest hits.                             *)
LeastFrequentlyUsed ==
  LET Rarest == {i \in Resident : \A j \in Resident :
                   Cardinality(Hits(i)) <= Cardinality(Hits(j))}
  IN {i \in Rarest : \A j \in Rarest : Born(i) <= Born(j)}

FirstIn == {i \in Resident : \A j \in Resident : Born(i) <= Born(j)}

(* The victim is the one id of the set, and there is none (ok = false)     *)
(* exactly when the set is empty.                                          *)
Selects(id, candidates) == candidates = {id} \ {NoId}
===============================================================================
