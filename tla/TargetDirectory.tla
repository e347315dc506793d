--------------------------- MODULE TargetDirectory ---------------------------
(***************************************************************************)
(* What warabi promises a client about a target, whatever the providers do *)
(* inside: the target is at home on at most one provider; it gets a home   *)
(* only when added, or when a migration installs it; it moves to another   *)
(* provider in one step and carries its regions unchanged (spec 4.4: the   *)
(* migration is transactional and holds back all concurrent access); and,  *)
(* while it is at home and not frozen by a migration, its regions follow   *)
(* the region lifecycle: minted absent -> zero-filled or written, written  *)
(* any number of times, erased for good.                                   *)
(*                                                                         *)
(* A target may lose its home at any time (remove_target, destroy_target,  *)
(* a migration that commits without installing it).  A migration that     *)
(* already captured a target that was then removed may still install it   *)
(* elsewhere (spec 9: operations that copied the entry keep running):      *)
(* Adopt, whose content this specification leaves open.                    *)
(***************************************************************************)
CONSTANTS UUIDs, Provs, RegionIDs, Data, None

VARIABLES home, content, frozen

dirVars == <<home, content, frozen>>

NoRegion == [rid \in RegionIDs |-> "absent"]

Init ==
    /\ home = [u \in UUIDs |-> None]
    /\ content = [u \in UUIDs |-> NoRegion]
    /\ frozen = {}

Exists(u, rid) == content[u][rid] \notin {"absent", "erased"}
Usable(u)      == home[u] # None /\ u \notin frozen

Add(u, p) ==
    /\ home[u] = None
    /\ home' = [home EXCEPT ![u] = p]
    /\ UNCHANGED <<content, frozen>>

Drop(u) ==
    /\ home[u] # None
    /\ home' = [home EXCEPT ![u] = None]
    /\ content' = [content EXCEPT ![u] = NoRegion]
    /\ frozen' = frozen \ {u}

Adopt(u, q) ==
    /\ home[u] = None
    /\ home' = [home EXCEPT ![u] = q]
    /\ \E c \in [RegionIDs -> {"absent", "erased", "zero"} \cup Data] :
         content' = [content EXCEPT ![u] = c]
    /\ UNCHANGED frozen

Freeze(u) ==
    /\ home[u] # None /\ u \notin frozen
    /\ frozen' = frozen \cup {u}
    /\ UNCHANGED <<home, content>>

Thaw(u) ==
    /\ u \in frozen
    /\ frozen' = frozen \ {u}
    /\ UNCHANGED <<home, content>>

\* The frozen target is installed at q with exactly its regions.
Move(u, q) ==
    /\ u \in frozen
    /\ home' = [home EXCEPT ![u] = q]
    /\ frozen' = frozen \ {u}
    /\ UNCHANGED content

SetRegion(u, rid, v) ==
    /\ content' = [content EXCEPT ![u][rid] = v]
    /\ UNCHANGED <<home, frozen>>

CreateRegion(u, rid, v) ==
    /\ Usable(u) /\ content[u][rid] = "absent"
    /\ v \in {"zero"} \cup Data
    /\ SetRegion(u, rid, v)

WriteRegion(u, rid, d) ==
    /\ Usable(u) /\ Exists(u, rid) /\ d \in Data
    /\ SetRegion(u, rid, d)

EraseRegion(u, rid) ==
    /\ Usable(u) /\ Exists(u, rid)
    /\ SetRegion(u, rid, "erased")

Next ==
    \E u \in UUIDs :
        \/ \E p \in Provs : Add(u, p) \/ Adopt(u, p) \/ Move(u, p)
        \/ Drop(u) \/ Freeze(u) \/ Thaw(u)
        \/ \E rid \in RegionIDs :
              \/ EraseRegion(u, rid)
              \/ \E v \in {"zero"} \cup Data : CreateRegion(u, rid, v) \/ WriteRegion(u, rid, v)

Spec == Init /\ [][Next]_dirVars

=============================================================================
