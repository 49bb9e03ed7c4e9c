--------------------------- MODULE CohesionGraph ---------------------------
(***************************************************************************)
(* The graph behind the lack of cohesion of a class: a union-find over its *)
(* methods 1 .. n, the methods that count, and for each field or promoted  *)
(* method the first method seen with it.  Written without recursive        *)
(* operators, so that modules with proofs may use it.                      *)
(***************************************************************************)
EXTENDS Naturals, Sequences, FiniteSets

NewGraph(n) == [parent |-> [i \in 1 .. n |-> i], active |-> {}, owner |-> <<>>]

\* One round of the search for a root: the path from the node that was reached
\* is halved, and the search goes on from where that node leads now.
Halved(s) ==
    LET up == s.parent[s.parent[s.root]]
    IN  IF s.parent[s.root] = s.root THEN s
        ELSE [root |-> up, parent |-> [s.parent EXCEPT ![s.root] = up]]

\* The root of x, and the parents after the paths on the way are halved.  The
\* code goes on until it stands at a root; no path is longer than the nodes.
Find(parent, x) ==
    LET walk[k \in 0 .. Len(parent)] ==
            IF k = 0 THEN [root |-> x, parent |-> parent] ELSE Halved(walk[k - 1])
    IN  walk[Len(parent)]

\* Mutation: a method is joined, not the tree it is in.
UnionOfNodes(g, a, b) == [g EXCEPT !.parent[a] = Find(g.parent, b).root]

Union(g, a, b) ==
    LET fa == Find(g.parent, a)
        fb == Find(fa.parent, b)
    IN  [g EXCEPT !.parent = [fb.parent EXCEPT ![fa.root] = fb.root]]

\* Method i uses a member: it is joined to the first method that did.
Use(g, i, member) ==
    LET h == [g EXCEPT !.active = @ \cup {i}]
    IN  IF member \in DOMAIN g.owner THEN Union(h, i, g.owner[member])
        ELSE [h EXCEPT !.owner = [m \in DOMAIN @ \cup {member} |->
                                     IF m = member THEN i ELSE @[m]]]

Call(g, i, j) == Union([g EXCEPT !.active = @ \cup {i, j}], i, j)

Components(g) ==
    LET roots == {Find(g.parent, i).root : i \in g.active}
    IN  IF roots = {} THEN 1 ELSE Cardinality(roots)
=============================================================================
