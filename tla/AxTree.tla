-------------------------------- MODULE AxTree --------------------------------
(***************************************************************************)
(* The snapshot command (native/src/cli.cpp): the engine's accessibility   *)
(* tree arrives as an array of nodes that name their children by id, and   *)
(* is printed one line per node that is shown, indented by its depth among *)
(* the shown ones.                                                         *)
(*                                                                         *)
(* A node is [id, ignored, role, childIds]; a line is [depth, id].         *)
(***************************************************************************)
EXTENDS Naturals, Sequences, SequencesExt

CONSTANTS
  NoRole,   \* the role of a node that comes without one
  NoId      \* the id of a node that comes without one: the empty string

(* A node without id is skipped. *)
Named(nodes) == SelectSeq(nodes, LAMBDA n : n.id # NoId)

(* byId: a later node with the same id replaces an earlier one. *)
ById(nodes) ==
  [id \in {nodes[i].id : i \in DOMAIN nodes} |->
     nodes[CHOOSE i \in DOMAIN nodes :
             /\ nodes[i].id = id
             /\ \A j \in DOMAIN nodes : nodes[j].id = id => j <= i]]

Shown(node) == ~node.ignored /\ node.role # NoRole

(* Mutant of Deeper: every node takes a level of its own. *)
DeeperAlways(node, depth) == depth + 1

Deeper(node, depth) == IF Shown(node) THEN depth + 1 ELSE depth

(* A child that is not in the array is passed over, with what is below it.  The recursion has
   no other end: nodes that name each other as children would not let it return. *)
RECURSIVE AxPrint(_, _, _)
AxPrint(byId, id, depth) ==
  IF id \notin DOMAIN byId THEN << >>
  ELSE LET node == byId[id]
           Child(i) == AxPrint(byId, node.childIds[i], Deeper(node, depth))
       IN  (IF Shown(node) THEN <<[depth |-> depth, id |-> id]>> ELSE << >>)
           \o FlattenSeq([i \in DOMAIN node.childIds |-> Child(i)])

(* The first node that has an id is the root. *)
Snapshot(nodes) ==
  LET named == Named(nodes)
  IN  IF named = << >> THEN << >> ELSE AxPrint(ById(named), named[1].id, 0)

-----------------------------------------------------------------------------
(* The tree the array stands for, by the way from the root to each node: the positions of the
   children to follow. *)
RECURSIVE Ways(_, _)
Ways(byId, id) ==
  IF id \notin DOMAIN byId THEN {}
  ELSE {[path |-> << >>, ids |-> <<id>>]} \cup
       UNION {{[path |-> <<i>> \o w.path, ids |-> <<id>> \o w.ids] :
                 w \in Ways(byId, byId[id].childIds[i])} : i \in DOMAIN byId[id].childIds}

Earlier(p, q) ==
  \/ IsStrictPrefix(p, q)
  \/ \E k \in DOMAIN p \cap DOMAIN q :
       p[k] < q[k] /\ \A j \in 1 .. k - 1 : p[j] = q[j]

(* The nodes with an id are those of the tree.  The lines are the shown ones in document order, and the nearest line above a line that
   stands one level further left is the nearest shown ancestor of its node. *)
ShowsTree(nodes, lines) ==
  LET holders == {i \in DOMAIN nodes : nodes[i].id # NoId}
      byId  == [id \in {nodes[i].id : i \in holders} |->
                  nodes[CHOOSE i \in holders : nodes[i].id = id /\ \A j \in holders : j > i => nodes[j].id # id]]
      ways  == IF holders = {} THEN {} ELSE Ways(byId, nodes[CHOOSE i \in holders : \A j \in holders : i <= j].id)
      Ends(w)  == w.ids[Len(w.ids)]
      shown == {w \in ways : Shown(byId[Ends(w)])}
      above(w) == SelectSeq(SubSeq(w.ids, 1, Len(w.ids) - 1), LAMBDA id : Shown(byId[id]))
      order == SetToSortSeq(shown, LAMBDA v, w : Earlier(v.path, w.path))
      Margin(i) == {j \in 1 .. i - 1 : lines[j].depth < lines[i].depth}
      Parent(i) == CHOOSE j \in Margin(i) : \A k \in Margin(i) : k <= j
  IN  /\ Len(lines) = Len(order)
      /\ \A i \in DOMAIN lines :
           /\ lines[i].id = Ends(order[i])
           /\ IF above(order[i]) = << >> THEN lines[i].depth = 0
              ELSE /\ Margin(i) # {}
                   /\ lines[Parent(i)].depth = lines[i].depth - 1
                   /\ lines[Parent(i)].id = above(order[i])[Len(above(order[i]))]
=============================================================================
