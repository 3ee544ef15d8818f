---------------------------- MODULE RuntimeStore ----------------------------
(***************************************************************************)
(* The per-server dedupe state of src/src/runtime_store.rs: the ids        *)
(* processed recently, oldest first, and the ids accepted and not yet      *)
(* processed.  The operators are the methods of RuntimeStore; the modules  *)
(* that own the stores keep recent_ids, pending_ids and the runtime.json   *)
(* file as variables.                                                      *)
(*                                                                         *)
(* recent_ids_order and recent_ids_set always hold the same ids, so one    *)
(* sequence stands for both.  last_seen_ts is written and never read by    *)
(* the daemon, and is left out.                                            *)
(***************************************************************************)
EXTENDS Queues

CONSTANT DedupeWindow   \* replay.dedupe_window_size; 0 is accepted

ASSUME WindowAssumption == DedupeWindow \in Nat

\* The while loop of insert_recent: drop the oldest ids beyond the window.
TrimRecent(q) ==
    IF Len(q) > DedupeWindow
    THEN SubSeq(q, Len(q) - DedupeWindow + 1, Len(q))
    ELSE q

InsertRecent(q, id) ==
    TrimRecent(IF id \in Elems(q) THEN q ELSE Append(q, id))

\* Mutant of IsNew: what is on its way is not looked at.
IsNewIgnoringPending(recentIds, pendingIds, id) == id \notin Elems(recentIds)

\* Mutant of IsNew: what is recorded is not looked at.
IsNewIgnoringRecent(recentIds, pendingIds, id) == id \notin pendingIds

\* should_enqueue of an id that is not below the discard floor.
IsNew(recentIds, pendingIds, id) ==
    /\ id \notin Elems(recentIds)
    /\ id \notin pendingIds

\* RuntimeStore::load on the recent_ids of a runtime.json.
LoadRecent(fileIds) == TrimRecent(fileIds)
=============================================================================
