------------------------------ MODULE RecordUpdate ------------------------------
(***************************************************************************)
(* One record of the plugin registry in Redis                              *)
(* (internal/plugins/registry/redis.go): Create and Delete, which take two *)
(* commands each, and Update, which watches the record, reads it, changes  *)
(* its copy and writes that in a transaction, again and again until        *)
(* nothing came between.  An id is random and created once.                *)
(***************************************************************************)
EXTENDS FiniteSets, Naturals

CONSTANTS
  Updaters,        \* calls of Update, each made once
  MaxAttempts,     \* 60 in the code
  MaxLostReplies   \* how often a command fails or its reply is lost

ASSUME RecordUpdateAssumption ==
  /\ MaxAttempts \in Nat \ {0}
  /\ MaxLostReplies \in Nat

VARIABLES
  stored,       \* the revision of the record and the updates it contains
  listed,       \* the id is in the set that List reads
  creation,     \* the progress of Create
  removal,      \* the progress of Delete
  update,       \* the progress of each Update
  lostReplies

recordVars == <<stored, listed, creation, removal, update, lostReplies>>

(* No record; one that exists has revision 1 or more.                      *)
Gone == [rev |-> 0, edits |-> {}]
Present == stored.rev # 0

(* clean: no write to the record since it is watched.                      *)
IdleUpdate == [pc |-> "idle", attempt |-> 0, clean |-> FALSE, seen |-> Gone]

Versions == [rev : Nat, edits : SUBSET Updaters]

RecordTypeOK ==
  /\ stored \in Versions
  /\ listed \in BOOLEAN
  /\ creation \in {"idle", "list", "ok", "failed"}
  /\ removal \in {"idle", "unlist", "ok", "cut", "failed"}
  /\ update \in [Updaters ->
       [pc : {"idle", "get", "exec", "ok", "conflict", "failed"}, attempt : Nat,
        clean : BOOLEAN, seen : Versions]]
  /\ lostReplies \in Nat

RecordInit ==
  /\ stored = Gone
  /\ listed = FALSE
  /\ creation = "idle"
  /\ removal = "idle"
  /\ update = [u \in Updaters |-> IdleUpdate]
  /\ lostReplies = 0

LoseReply == lostReplies < MaxLostReplies /\ lostReplies' = lostReplies + 1

(* Every watcher but the writer finds its watch broken.                    *)
Unwatched(ups) == [u \in Updaters |-> [ups[u] EXCEPT !.clean = FALSE]]

-------------------------------------------------------------------------------
SetNX ==
  /\ creation = "idle"
  /\ \/ stored' = [Gone EXCEPT !.rev = 1] /\ creation' = "list" /\ UNCHANGED lostReplies
     \/ stored' \in {stored, [Gone EXCEPT !.rev = 1]} /\ creation' = "failed" /\ LoseReply
  /\ UNCHANGED <<listed, removal, update>>

SAdd ==
  /\ creation = "list"
  /\ \/ listed' = TRUE /\ creation' = "ok" /\ UNCHANGED lostReplies
     \/ listed' \in {listed, TRUE} /\ creation' = "failed" /\ LoseReply
  /\ UNCHANGED <<stored, removal, update>>

-------------------------------------------------------------------------------
(* An id is known to callers once Create has returned it.                  *)
Watch(u) ==
  /\ creation = "ok"
  /\ update[u].pc = "idle"
  /\ update' = [update EXCEPT ![u].pc = "get", ![u].clean = TRUE]
  /\ UNCHANGED <<stored, listed, creation, removal, lostReplies>>

(* The update fails without a record, and where fn refuses the change.     *)
GetRecord(u) ==
  /\ update[u].pc = "get"
  /\ \/ Present /\ update' = [update EXCEPT ![u].pc = "exec", ![u].seen = stored]
     \/ update' = [update EXCEPT ![u].pc = "failed"]
  /\ UNCHANGED <<stored, listed, creation, removal, lostReplies>>

Edited(u) ==
  [rev |-> update[u].seen.rev + 1, edits |-> update[u].seen.edits \cup {u}]

(* Whether the transaction is executed.                                    *)
ExecutesAlways(u) == TRUE
Executes(u) == update[u].clean

(* An executed transaction whose reply is lost is reported as a failure.   *)
Exec(u) ==
  /\ update[u].pc = "exec" /\ Executes(u)
  /\ stored' = Edited(u)
  /\ \E pc \in {"ok", "failed"} :
       /\ update' = Unwatched([update EXCEPT ![u].pc = pc])
       /\ IF pc = "ok" THEN UNCHANGED lostReplies ELSE LoseReply
  /\ UNCHANGED <<listed, creation, removal>>

ExecRefused(u) ==
  /\ update[u].pc = "exec" /\ ~Executes(u)
  /\ update' = [update EXCEPT
       ![u].attempt = @ + 1,
       ![u].seen = Gone,
       ![u].pc = IF update[u].attempt + 1 < MaxAttempts THEN "idle" ELSE "conflict"]
  /\ UNCHANGED <<stored, listed, creation, removal, lostReplies>>

ExecFails(u) ==
  /\ update[u].pc \in {"get", "exec"}
  /\ LoseReply
  /\ update' = [update EXCEPT ![u].pc = "failed"]
  /\ UNCHANGED <<stored, listed, creation, removal>>

-------------------------------------------------------------------------------
Del ==
  /\ removal = "idle" /\ creation = "ok"
  /\ \/ /\ UNCHANGED lostReplies
        /\ removal' = IF Present THEN "unlist" ELSE "failed"
        /\ stored' = Gone
     \/ LoseReply /\ removal' = "cut" /\ stored' \in {stored, Gone}
  /\ update' = IF stored' = stored THEN update ELSE Unwatched(update)
  /\ UNCHANGED <<listed, creation>>

(* The id and the log of the record go in one transaction.                 *)
SRem ==
  /\ removal = "unlist"
  /\ \/ listed' = FALSE /\ removal' = "ok" /\ UNCHANGED lostReplies
     \/ listed' \in {listed, FALSE} /\ removal' = "cut" /\ LoseReply
  /\ UNCHANGED <<stored, creation, update>>

RecordNext ==
  \/ SetNX \/ SAdd \/ Del \/ SRem
  \/ \E u \in Updaters :
       Watch(u) \/ GetRecord(u) \/ Exec(u) \/ ExecRefused(u) \/ ExecFails(u)

RecordSpec == RecordInit /\ [][RecordNext]_recordVars

-------------------------------------------------------------------------------
(* While the record exists it has every update that was acknowledged, and  *)
(* none that was given up; its revision counts the updates in it; and a    *)
(* record that was deleted does not come back with a slow update           *)
(* (redis.go:120).                                                         *)
UpdatesAreKept ==
  /\ Present =>
       /\ \A u \in Updaters : update[u].pc = "ok" => u \in stored.edits
       /\ \A u \in Updaters : update[u].pc \in {"idle", "get", "conflict"} => u \notin stored.edits
       /\ stored.rev = 1 + Cardinality(stored.edits)
  /\ removal \in {"unlist", "ok"} => ~Present
  /\ removal = "ok" => ~listed

(* An id is used once: what is not there although it was created is gone.  *)
Life == IF Present THEN "there" ELSE IF creation = "ok" THEN "gone" ELSE "new"

Atomic ==
  INSTANCE AtomicRecord
    WITH life <- Life, applied <- stored.edits,
         acked <- {u \in Updaters : update[u].pc = "ok"}

(* Whatever overlaps, fails or loses its reply, the record changes as if   *)
(* "Update applies fn atomically to the stored record" (record.go:185).    *)
UpdatesAreAtomic == Atomic!AtomicSpec
===============================================================================
