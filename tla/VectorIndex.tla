------------------------------ MODULE VectorIndex ------------------------------
(***************************************************************************)
(* The index of the vector store service                                   *)
(* (vector_store_service/app/index.py, main.py): vectors in FAISS under    *)
(* numbers, and two maps between those and the public ids.  Every request  *)
(* is handled under one lock.  A vector is a point on a line, or one of    *)
(* the wrong dimension.                                                    *)
(***************************************************************************)
EXTENDS FiniteSets, Naturals, Sequences

CONSTANTS
  PublicIds,    \* the random ids, each given to one upsert
  Points,
  Misfit,       \* a vector of the wrong dimension
  Rebuilds,     \* the (id, vector) lists the orchestrator sends
  MaxNumber     \* how many numbers are given out

ASSUME VectorIndexAssumption ==
  /\ Points \subseteq Nat
  /\ Misfit \notin Points
  /\ Rebuilds \subseteq Seq(PublicIds \X (Points \cup {Misfit}))
  /\ MaxNumber \in Nat

VARIABLES
  numberOf,   \* _uuid_to_int
  idOf,       \* _int_to_uuid
  faiss,      \* the vector under each number
  nextNumber,
  issued,     \* public ids given out so far (history)
  wanted,     \* the entries that callers have stored and not removed (history)
  broken      \* the last rebuild was refused (history)

indexVars == <<numberOf, idOf, faiss, nextNumber, issued, wanted, broken>>

Empty == [x \in {} |-> x]
With(f, x, y) == [k \in DOMAIN f \cup {x} |-> IF k = x THEN y ELSE f[k]]
Without(f, x) == [k \in DOMAIN f \ {x} |-> f[k]]

IndexTypeOK ==
  /\ DOMAIN numberOf \subseteq PublicIds
  /\ \A i \in DOMAIN numberOf : numberOf[i] \in 0 .. nextNumber - 1
  /\ DOMAIN idOf \cup DOMAIN faiss \subseteq 0 .. nextNumber - 1
  /\ nextNumber \in 0 .. MaxNumber

IndexInit ==
  /\ numberOf = Empty /\ idOf = Empty /\ faiss = Empty
  /\ nextNumber = 0
  /\ issued = {}
  /\ wanted = Empty
  /\ broken = FALSE

-------------------------------------------------------------------------------
(* The id is random: no upsert gave it out, no rebuild brought it back.    *)
Upsert(i, v) ==
  /\ nextNumber < MaxNumber
  /\ i \notin issued \cup DOMAIN numberOf
  /\ numberOf' = With(numberOf, i, nextNumber)
  /\ idOf' = With(idOf, nextNumber, i)
  /\ faiss' = With(faiss, nextNumber, v)
  /\ nextNumber' = nextNumber + 1
  /\ issued' = issued \cup {i}
  /\ wanted' = With(wanted, i, v)
  /\ UNCHANGED broken

(* The vector a deletion takes out of FAISS.                               *)
RemovedByPlace(n) == [k \in DOMAIN faiss \ {nextNumber - 1} |-> faiss[k]]
Removed(n) == Without(faiss, n)

(* A deletion of an unknown id is answered with 404 and changes nothing.   *)
DeleteEntry(i) ==
  /\ i \in DOMAIN numberOf
  /\ numberOf' = Without(numberOf, i)
  /\ idOf' = Without(idOf, numberOf[i])
  /\ faiss' = Removed(numberOf[i])
  /\ wanted' = [k \in DOMAIN wanted \ {i} |-> wanted[k]]
  /\ UNCHANGED <<nextNumber, issued, broken>>

(* A rebuild begins with an empty index.  It names the entries one by one, *)
(* refuses the whole at a misfit or an id that came before, and adds the   *)
(* vectors together at the end.                                            *)
Bad(es, j) == es[j][2] = Misfit \/ \E k \in 1 .. j - 1 : es[k][1] = es[j][1]

Rebuild(es) ==
  LET bad == {j \in DOMAIN es : Bad(es, j)}
      named == IF bad = {} THEN Len(es) ELSE (CHOOSE j \in bad : \A k \in bad : j <= k) - 1
      numbers == 0 .. named - 1
      ids == {es[j][1] : j \in 1 .. named}
  IN
  /\ named <= MaxNumber
  /\ numberOf' = [i \in ids |-> (CHOOSE j \in 1 .. named : es[j][1] = i) - 1]
  /\ idOf' = [n \in numbers |-> es[n + 1][1]]
  /\ nextNumber' = named
  /\ faiss' = IF bad = {} THEN [n \in numbers |-> es[n + 1][2]] ELSE Empty
  /\ wanted' = IF bad = {} THEN [i \in ids |-> es[numberOf'[i] + 1][2]] ELSE Empty
  /\ broken' = (bad # {})
  /\ UNCHANGED issued

FlushIndex ==
  /\ numberOf' = Empty /\ idOf' = Empty /\ faiss' = Empty
  /\ nextNumber' = 0
  /\ wanted' = Empty
  /\ broken' = FALSE
  /\ UNCHANGED issued

IndexNext ==
  \/ \E i \in PublicIds : (\E v \in Points : Upsert(i, v)) \/ DeleteEntry(i)
  \/ \E es \in Rebuilds : Rebuild(es)
  \/ FlushIndex

IndexSpec == IndexInit /\ [][IndexNext]_indexVars

-------------------------------------------------------------------------------
(* Search: the nearest k of FAISS, then those within the threshold.        *)

Distance(a, b) == IF a < b THEN b - a ELSE a - b

Nearest(q, k, ns) ==
  {n \in ns : Cardinality({m \in ns : Distance(faiss[m], q) < Distance(faiss[n], q)}) < k}

Within(q, limit, ns) == {n \in ns : Distance(faiss[n], q) <= limit}

(* The numbers that may be among the results; equally near ones compete.   *)
Search(q, k, limit) == Within(q, limit, Nearest(q, k, DOMAIN faiss))

(* A search finds only entries that are stored, each with its own vector,  *)
(* and the same ones as if the threshold came first.  So it stays after a  *)
(* rebuild that was refused, which leaves ids without vectors behind: an   *)
(* id is deleted once and an entry that came later is found                *)
(* (index.py:159, 195).                                                    *)
FoundAreStored ==
  /\ \A n \in DOMAIN faiss : n \in DOMAIN idOf /\ wanted[idOf[n]] = faiss[n]
  /\ {idOf[n] : n \in DOMAIN faiss} = DOMAIN wanted
  /\ Cardinality(DOMAIN faiss) = Cardinality(DOMAIN wanted)
  /\ ~broken => DOMAIN numberOf = DOMAIN wanted
  /\ \A i \in DOMAIN numberOf : numberOf[i] \in DOMAIN idOf /\ idOf[numberOf[i]] = i
  /\ \A q \in Points, k \in 1 .. Cardinality(PublicIds), limit \in 0 .. 1 :
       Search(q, k, limit) = Nearest(q, k, Within(q, limit, DOMAIN faiss))

(* What a search can find.                                                 *)
Findable == {idOf[n] : n \in DOMAIN faiss}

Service ==
  INSTANCE VectorStore
    WITH Ids <- PublicIds, NoId <- CHOOSE i : i \notin PublicIds, index <- Findable

RequestsAsPromised ==
  /\ \A i \in PublicIds :
       /\ (\E v \in Points : Upsert(i, v)) => Service!UpsertVector(i)
       /\ DeleteEntry(i) =>
            Service!DeleteVector(i) \/ (broken /\ Service!DeleteNotFound(i))
  /\ \A es \in Rebuilds :
       Rebuild(es) =>
         Service!RebuildVectors(IF broken' THEN {} ELSE {es[j][1] : j \in DOMAIN es})
  /\ FlushIndex => Service!FlushVectors

(* Each request does to what a search can find exactly what the service    *)
(* promises the orchestrator: all the entries a rebuild names or, when it  *)
(* is refused, none; and a deletion that is answered removes its entry,    *)
(* except after such a rebuild (main.py:122-172).                          *)
IndexMeetsContract == [][RequestsAsPromised]_indexVars
===============================================================================
