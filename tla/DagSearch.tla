----------------------------- MODULE DagSearch -----------------------------
(***************************************************************************)
(* The depth-first searches of pkg/consensus/types.go as they are written, *)
(* to justify the sets of Dag that stand for what they return.  An         *)
(* operator named ...Bug is a plausible mistake in the one after it.       *)
(***************************************************************************)
EXTENDS Dag

(* What a call of a search is at: what is left of the slice it is going    *)
(* through, and the map that all calls of the search share.                *)
Pending == [todo : SUBSET Id, found : SUBSET Id]

Call(todo, found) == [todo |-> todo, found |-> found]

(* The loop of both searches.  An id not found before is recorded, and its *)
(* own links are searched before the loop goes on, with what that call has *)
(* left in the map.                                                        *)
Search(links) ==
    LET visit[w \in Pending] ==
            LET x == CHOOSE y \in w.todo : TRUE
                rest == w.todo \ {x}
            IN  IF w.todo = {} THEN w.found
                ELSE IF x \in w.found THEN visit[Call(rest, w.found)]
                ELSE visit[Call(rest, visit[Call(links[x], w.found \cup {x})])]
    IN  visit

SkipUnknownBug(e) ==
    IF e \in known THEN event[e].parents \cap known ELSE {}

(* An event that is not in the map has nothing to go through.              *)
ParentLinks(e) ==
    IF e \in known THEN event[e].parents ELSE {}

SearchParents(e) ==
    Search([x \in Id |-> ParentLinks(x)])[Call(ParentLinks(e), {})]

SearchChildren(e) == Search(children)[Call(children[e], {})]

(* Each search finds exactly what links lead to, although it prunes at     *)
(* what another branch has found before and stops at unknown events.       *)
SearchesFindAll ==
    \A e \in Id :
        /\ SearchParents(e) = Ancestors(e)
        /\ SearchChildren(e) = Descendants(e)

=============================================================================
