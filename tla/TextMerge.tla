----------------------------- MODULE TextMerge -----------------------------
(***************************************************************************)
(* The content of a note and its three-way merge, as far as a sync round   *)
(* tells contents apart (src/src/merge/diff3.ts).  A note is cut into      *)
(* regions; an edit replaces the text of one region by text that carries   *)
(* one more edit.  A content is the set of edits it carries, so two        *)
(* contents are equal when their hashes are, and the loss of an edit is    *)
(* the loss of an element.  Edit 0 of a region is the conflict marker      *)
(* block that the applicator writes around it.                             *)
(*                                                                         *)
(* Two inserts at one and the same gap, which diff3 joins instead of       *)
(* reporting, are not edits of this model.                                 *)
(***************************************************************************)
EXTENDS Integers

CONSTANT Regions        \* the places of a note that are edited independently

Edits   == Regions \X Nat
Marks   == Regions \X {0}
EmptyText == {}

\* What text t says in region p.
In(t, p) == {e \in t : e[1] = p}

hasConflictMarkers(t) == \E e \in t : e[2] = 0

\* Regions both sides changed, and differently: hunks that interact and are not the same.
Overlap(base, l, r) ==
    {p \in Regions : In(l, p) # In(base, p) /\ In(r, p) # In(base, p) /\ In(l, p) # In(r, p)}

\* threeWayMerge(...).hasConflicts
HasConflicts(base, l, r) == Overlap(base, l, r) # {}

\* threeWayMerge(...).merged: each region as the side that changed it has it.
Merged(base, l, r) ==
    UNION {IF In(l, p) = In(base, p) THEN In(r, p) ELSE In(l, p) : p \in Regions}

\* renderMarkersFromResult: a region in conflict shows both sides inside markers.
Marked(base, l, r) ==
    UNION {IF p \in Overlap(base, l, r) THEN In(l, p) \cup In(r, p) \cup {<<p, 0>>}
           ELSE In(Merged(base, l, r), p) : p \in Regions}

\* The same for wholeFileConflict: the two versions side by side.
MarkedWhole(l, r) == l \cup r \cup Marks
=============================================================================
