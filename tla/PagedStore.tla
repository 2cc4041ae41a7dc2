------------------------------ MODULE PagedStore ------------------------------
(***************************************************************************)
(* A persistence store that runs as a plugin: the adapter, which lists the *)
(* entries page by page (internal/plugins/protocol/persistence.go), and a  *)
(* plugin whose cursor is an offset (sdk/examples/persistence/main.go).    *)
(* A list is made by a switch that holds the write gate, or without it.    *)
(* Entries are numbered as they were created; their fields are left out.   *)
(***************************************************************************)
EXTENDS FiniteSets, Functions, Naturals, Sequences, SequencesExt

CONSTANTS
  MaxEntries,
  PageLimit,     \* 500 in the code
  MaxPages       \* 100000 in the code

ASSUME PagedStoreAssumption ==
  /\ MaxEntries \in Nat
  /\ {PageLimit, MaxPages} \subseteq Nat \ {0}

VARIABLES
  kept,       \* the entries the plugin has
  saved,      \* those it ever had
  gateHeld,   \* writes are paused
  listing,    \* the progress of a List
  stayed      \* the entries the plugin has had since the List began (history)

storeVars == <<kept, saved, gateHeld, listing, stayed>>

Numbers == 1 .. MaxEntries

IdleList ==
  [pc |-> "idle", gated |-> FALSE, cursor |-> 0, pages |-> 0, got |-> <<>>,
   evicted |-> FALSE, flushed |-> FALSE]

StoreTypeOK ==
  /\ kept \subseteq saved /\ saved \subseteq Numbers
  /\ gateHeld \in BOOLEAN
  /\ listing \in [pc : {"idle", "page", "ok", "failed"}, gated : BOOLEAN, cursor : Nat,
                  pages : 0 .. MaxPages, got : Seq(Numbers), evicted : BOOLEAN,
                  flushed : BOOLEAN]
  /\ stayed \subseteq saved
  /\ gateHeld = (listing.pc # "idle" /\ listing.gated)

StoreInit ==
  /\ kept = {} /\ saved = {} /\ stayed = {}
  /\ gateHeld = FALSE
  /\ listing = IdleList

-------------------------------------------------------------------------------
(* The cache worker, and while a queue is drained a second one, so that of *)
(* two new entries either may arrive first.                                *)
SaveEntry(n) ==
  /\ ~gateHeld
  /\ n \notin saved
  /\ Cardinality((1 .. n - 1) \ saved) <= 1
  /\ kept' = kept \cup {n}
  /\ saved' = saved \cup {n}
  /\ UNCHANGED <<gateHeld, listing, stayed>>

(* An eviction; to delete an entry that is gone is no failure.             *)
DeleteKept(n) ==
  /\ ~gateHeld
  /\ n \in saved
  /\ kept' = kept \ {n}
  /\ stayed' = stayed \ {n}
  /\ listing' = [listing EXCEPT !.evicted = @ \/ n \in kept]
  /\ UNCHANGED <<saved, gateHeld>>

(* A flush does not wait for the gate.                                     *)
FlushKept ==
  /\ kept # {}
  /\ kept' = {} /\ stayed' = {}
  /\ listing' = [listing EXCEPT !.flushed = TRUE]
  /\ UNCHANGED <<saved, gateHeld>>

-------------------------------------------------------------------------------
(* List                                                                    *)

BeginList(gated) ==
  /\ listing.pc = "idle"
  /\ listing' = [IdleList EXCEPT !.pc = "page", !.gated = gated]
  /\ gateHeld' = gated
  /\ stayed' = kept
  /\ UNCHANGED <<kept, saved>>

(* The plugin sorts what it has at that moment, by the time of creation;   *)
(* SubSeq needs the bounds the plugin clips.                               *)
Age(n) == Cardinality({m \in kept : m < n})
Oldest == [k \in 1 .. Cardinality(kept) |-> CHOOSE n \in kept : Age(n) = k - 1]

LastPage == listing.cursor + PageLimit >= Cardinality(kept)

Page ==
  SubSeq(Oldest, listing.cursor + 1,
         IF LastPage THEN Cardinality(kept) ELSE listing.cursor + PageLimit)

(* The adapter refuses a list that has an entry twice.                     *)
RepeatsUnnoticed(page) == FALSE
Repeats(page) == Range(page) \cap Range(listing.got) # {}

(* One page, which may fail.  The list ends with the page after which the  *)
(* plugin names no cursor, and is refused when it grows over MaxPages.     *)
ListPage ==
  /\ listing.pc = "page"
  /\ \/ /\ ~Repeats(Page)
        /\ listing' =
             [listing EXCEPT !.got = @ \o Page, !.pages = @ + 1, !.cursor = @ + PageLimit,
                !.pc = IF LastPage THEN "ok"
                       ELSE IF listing.pages + 1 = MaxPages THEN "failed" ELSE "page"]
     \/ listing' = [listing EXCEPT !.pc = "failed"]
  /\ UNCHANGED <<kept, saved, gateHeld, stayed>>

EndList ==
  /\ listing.pc \in {"ok", "failed"}
  /\ listing' = IdleList
  /\ gateHeld' = FALSE
  /\ stayed' = {}
  /\ UNCHANGED <<kept, saved>>

StoreNext ==
  \/ \E n \in Numbers : SaveEntry(n) \/ DeleteKept(n)
  \/ FlushKept
  \/ \E gated \in BOOLEAN : BeginList(gated)
  \/ ListPage \/ EndList

StoreSpec == StoreInit /\ [][StoreNext]_storeVars

-------------------------------------------------------------------------------
(* A list that is answered has no entry twice; unless an eviction came     *)
(* between two pages, it has all the entries that were there throughout,   *)
(* even if an older one arrived meanwhile; and a list made with the gate   *)
(* held, without a flush, is exactly what the store has, oldest first, as  *)
(* a migration and a re-embedding take for granted (persistence.go:139).   *)
ListedWhole ==
  listing.pc = "ok" =>
    /\ IsInjective(listing.got)
    /\ ~listing.evicted => stayed \subseteq Range(listing.got)
    /\ listing.gated /\ ~listing.flushed => listing.got = Oldest
===============================================================================
