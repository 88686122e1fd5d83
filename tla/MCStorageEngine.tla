--------------------------- MODULE MCStorageEngine ---------------------------
(***************************************************************************)
(* Instances of StorageEngine for TLC.                                     *)
(*                                                                         *)
(* Behaviour is a view: states it does not tell apart have the same future *)
(* and satisfy the same invariants of the instance.  A point of time is    *)
(* only ever compared with the clock, against a retention period, or with  *)
(* the cutoff of a pass, so its age is enough, up to the age at which it   *)
(* has expired.  The counter and the history of HotStorage, the            *)
(* modification time of a file and the history of a reader decide nothing. *)
(***************************************************************************)
EXTENDS StorageEngine, TLC

Fields(r, S) == [x \in DOMAIN r \ S |-> r[x]]
Age(t, limit) == IF now - t > limit THEN limit + 1 ELSE now - t
Contents(ptr) == IF ptr.live THEN ptr ELSE ptr.was.points

SeriesView == [id \in Ids |-> <<series[id].points, Age(series[id].lastSeen, MaxAge)>>]
FilesView  == <<[id \in DOMAIN disk |-> disk[id].parts],
                [id \in DOMAIN files |-> [files[id] EXCEPT !.modified = Age(@, WarmRetention)]]>>

PointersView == IF "ptr" \in DOMAIN tier
                THEN [id \in DOMAIN tier.ptr |-> Contents(tier.ptr[id])] ELSE <<>>
BeforeCutoff == IF tier.pc = "listed"
                THEN {id \in tier.unseen : At(id, tier.ptr[id]).lastSeen < tier.cutoff} ELSE {}
TierView     == <<Fields(tier, {"ptr", "cutoff"}), PointersView, BeforeCutoff>>

QueryView(q) == <<Fields(query[q], {"ptr"}),
                  IF "ptr" \in DOMAIN query[q] THEN Contents(query[q].ptr) ELSE <<>>,
                  Fields(readers[q], {"want"}), watch[q].must>>

Behaviour == <<SeriesView, adding, now, FilesView, writing, faults, TierView, cleaner, phase,
               [q \in Queries |-> QueryView(q)]>>

WholeRange == {<<1, MaxTime>>}
=============================================================================
