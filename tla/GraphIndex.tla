----------------------------- MODULE GraphIndex -----------------------------
(***************************************************************************)
(* The semantic graph index (crates/fsym-runtime/src/graph_index.rs): its   *)
(* traversals, the certificates of their answers and the verifiers, and the *)
(* projection that answers queries for a workspace manifest.                *)
(*                                                                         *)
(* A graph is [nodes, adj]: adj maps a vertex to the set of its successors; *)
(* an edge may lead to or from a vertex that was never added as a node.     *)
(* Vertices are numbers, in the order of their content identifiers.  The    *)
(* snapshot root of a graph is the graph itself.                           *)
(***************************************************************************)
EXTENDS Integers, Sequences, FiniteSets, FiniteSetsExt, SequencesExt

Neighbors(g, v) == IF v \in DOMAIN g.adj THEN g.adj[v] ELSE {}

Ascending(s) == SetToSortSeq(s, <)

RECURSIVE ReachFrom(_, _, _)
ReachFrom(g, visited, queue) ==
    IF queue = <<>> THEN visited
    ELSE LET new == Neighbors(g, Head(queue)) \ visited
         IN ReachFrom(g, visited \cup new, Tail(queue) \o Ascending(new))

\* start itself only if it is on a cycle.
transitive_dependencies(g, start) == ReachFrom(g, {}, <<start>>)

RECURSIVE PathTo(_, _, _)
PathTo(parent, start, v) ==
    IF v = start THEN <<start>> ELSE Append(PathTo(parent, start, parent[v]), v)

\* Breadth first, successors in ascending order; parent records who found a vertex.
RECURSIVE SearchPath(_, _, _, _, _)
SearchPath(g, start, target, parent, queue) ==
    IF queue = <<>> THEN {}
    ELSE LET curr  == Head(queue)
             new   == Neighbors(g, curr) \ (DOMAIN parent \cup {start})
             found == [v \in DOMAIN parent \cup new |-> IF v \in new THEN curr ELSE parent[v]]
         IN IF target \in new THEN {PathTo(found, start, target)}
            ELSE SearchPath(g, start, target, found, Tail(queue) \o Ascending(new))

shortest_path(g, start, target) ==
    IF {start, target} \subseteq g.nodes
    THEN IF start = target THEN {<<start>>} ELSE SearchPath(g, start, target, <<>>, <<start>>)
    ELSE {}

Leave(s, node) == [s EXCEPT !.stack = @ \ {node}]

\* Depth-first search with the vertices visited and those on the current path.
RECURSIVE cycle_dfs(_, _, _)
cycle_dfs(g, node, s) ==
    LET Try(acc, n) ==
            IF acc.cyclic THEN acc
            ELSE IF n \notin acc.visited THEN cycle_dfs(g, n, acc)
            ELSE [acc EXCEPT !.cyclic = n \in acc.stack]
        done == FoldLeft(Try, [s EXCEPT !.visited = @ \cup {node}, !.stack = @ \cup {node}],
                         Ascending(Neighbors(g, node)))
    IN IF done.cyclic THEN done ELSE Leave(done, node)

has_cycle(g) ==
    FoldLeft(LAMBDA acc, n : IF acc.cyclic \/ n \in acc.visited THEN acc ELSE cycle_dfs(g, n, acc),
             [cyclic |-> FALSE, visited |-> {}, stack |-> {}], Ascending(g.nodes)).cyclic

\* Kahn's algorithm, the least ready node first.
RECURSIVE Kahn(_, _, _, _)
Kahn(g, in_degree, ready, order) ==
    IF ready = {} THEN order
    ELSE LET curr == Min(ready)
             hit  == Neighbors(g, curr) \cap g.nodes
             less == [v \in g.nodes |-> IF v \in hit THEN in_degree[v] - 1 ELSE in_degree[v]]
         IN Kahn(g, less, (ready \ {curr}) \cup {v \in hit : less[v] = 0}, Append(order, curr))

topological_order(g) ==
    LET in_degree == [v \in g.nodes |-> Cardinality({u \in g.nodes : v \in Neighbors(g, u)})]
        order == Kahn(g, in_degree, {v \in g.nodes : in_degree[v] = 0}, <<>>)
    IN IF has_cycle(g) \/ Len(order) # Cardinality(g.nodes) THEN {} ELSE {order}

-----------------------------------------------------------------------------
(* Certificates: [root, source, target, vertices] and [root, order].         *)

ConsecutiveEdges(g, vs) == \A i \in 1..(Len(vs) - 1) : vs[i + 1] \in Neighbors(g, vs[i])

verify_reachability_path(g, cert) ==
    /\ cert.root = g
    /\ cert.vertices # <<>>
    /\ Head(cert.vertices) = cert.source /\ Last(cert.vertices) = cert.target
    /\ Range(cert.vertices) \subseteq g.nodes
    /\ ConsecutiveEdges(g, cert.vertices)

verify_topological_order(g, root, order) ==
    /\ root = g
    /\ Len(order) = Cardinality(g.nodes)
    /\ Range(order) \subseteq g.nodes
    /\ \A i, j \in DOMAIN order : order[i] = order[j] => i = j
    /\ \A i \in DOMAIN order : \A v \in Neighbors(g, order[i]) :
           \E j \in DOMAIN order : order[j] = v /\ i < j

verify_cycle_witness(g, vs) ==
    Len(vs) >= 2 /\ Head(vs) = Last(vs) /\ ConsecutiveEdges(g, vs)

-----------------------------------------------------------------------------
(* The projection of a manifest.  A manifest is [graph, universe, watermark,  *)
(* complete, private]: the graph stands for the bindings and derivations,    *)
(* and the manifest is its own root.  A projection holds a copy of the       *)
(* manifest's header and the index built from it.                          *)

Projection(manifest) == [root |-> manifest, universe |-> manifest.universe,
                         watermark |-> manifest.watermark, complete |-> manifest.complete,
                         index |-> manifest.graph]

\* Mutant: a projection of an older manifest is good enough if its watermark is.
Mutvalidate_projection_freshness(proj, expected) ==
    proj.universe = expected.universe /\ proj.watermark >= expected.watermark

validate_projection_freshness(proj, expected) ==
    /\ proj.universe = expected.universe
    /\ proj.watermark >= expected.watermark
    /\ proj.root = expected

\* The answer of an available adapter whose projection is `proj`.
query_reachability(proj, from, to, expected) ==
    LET paths == shortest_path(proj.index, from, to)
    IN IF ~ validate_projection_freshness(proj, expected) THEN <<"refused">>
       ELSE IF \E p \in paths : verify_reachability_path(proj.index,
                   [root |-> proj.index, source |-> from, target |-> to, vertices |-> p])
       THEN <<"reachable", CHOOSE p \in paths : TRUE>>
       ELSE IF paths # {} THEN <<"refused">>
       ELSE IF proj.complete /\ {from, to} \subseteq proj.index.nodes
       THEN <<"does not exist">> ELSE <<"not observed">>

\* The slice of what the roots depend on, unless something in it is private.
export_public_slice(proj, manifest, roots) ==
    LET slice == roots \cup UNION {transitive_dependencies(proj.index, r) : r \in roots}
    IN IF validate_projection_freshness(proj, manifest) /\ slice \cap manifest.private = {}
       THEN {slice} ELSE {}
-----------------------------------------------------------------------------
(* What the answers must mean, on the vertices vs.                          *)

\* Walks of at most one edge more than there are vertices.
Walks(g, vs) ==
    {w \in UNION {[1..n -> vs] : n \in 1..(Cardinality(vs) + 1)} : ConsecutiveEdges(g, w)}

LexLess(a, b) ==
    \E i \in DOMAIN a : a[i] < b[i] /\ \A j \in 1..(i - 1) : a[j] = b[j]

Least(seqs) == {s \in seqs : \A t \in seqs : t = s \/ LexLess(s, t)}

\* Orders of all nodes in which every edge between nodes leads forward.
TopologicalOrders(g) ==
    {o \in [1..Cardinality(g.nodes) -> g.nodes] :
        \A i, j \in DOMAIN o : (i # j => o[i] # o[j]) /\ (o[j] \in Neighbors(g, o[i]) => i < j)}

Cyclic(walks, g) ==
    \E w \in walks : \E i, j \in DOMAIN w : w[1] \in g.nodes /\ i < j /\ w[i] = w[j]

\* Dependencies are what a walk reaches; the path is the least of the shortest
\* ones in content_id_ascending_v1 order and the topological order the least of
\* all; a graph has an order exactly if it has no cycle.
TraversalsExact(g, vs) ==
    LET walks == Walks(g, vs) IN
    /\ \A s \in vs : transitive_dependencies(g, s) =
                        {Last(w) : w \in {x \in walks : x[1] = s /\ Len(x) > 1}}
    /\ \A s, t \in g.nodes :
           LET joining  == {w \in walks : w[1] = s /\ Last(w) = t}
               shortest == {w \in joining : \A x \in joining : Len(w) <= Len(x)}
           IN shortest_path(g, s, t) = Least(shortest)
    /\ has_cycle(g) = Cyclic(walks, g)
    /\ topological_order(g) = IF has_cycle(g) THEN {} ELSE Least(TopologicalOrders(g))

NoDanglingEdge(g) == \A u \in g.nodes : Neighbors(g, u) \subseteq g.nodes

\* No certificate is accepted for something false, of this graph or of another
\* one, and the index's own certificates are accepted.
CertificatesSound(g, other, vs) ==
    LET walks == Walks(g, vs)
        Cert(root, w, s, t) == [root |-> root, source |-> s, target |-> t, vertices |-> w]
    IN /\ \A w \in UNION {[1..n -> vs] : n \in 0..Cardinality(vs)} : \A s, t \in vs :
              verify_reachability_path(g, Cert(g, w, s, t)) =>
                  \E x \in walks : x[1] = s /\ Last(x) = t
       /\ \A o \in TopologicalOrders(other) :
              verify_topological_order(g, other, o) => o \in TopologicalOrders(g) /\ ~ Cyclic(walks, g)
       /\ \A w \in walks : verify_cycle_witness(g, w) /\ w[1] \in g.nodes => has_cycle(g)
       /\ NoDanglingEdge(g) =>
              /\ \A s, t \in g.nodes : \A p \in shortest_path(g, s, t) :
                     verify_reachability_path(g, Cert(g, p, s, t))
              /\ \A o \in topological_order(g) : verify_topological_order(g, g, o)

\* "NotObserved never carries negative-proof authority": whatever manifest the
\* projection was built from, an answer is true of the manifest it is asked for,
\* unreachability needs a completeness basis, and an exported slice is closed
\* under dependency and free of private objects.
QueriesFresh(built, asked, vs) ==
    LET proj  == Projection(built)
        walks == Walks(asked.graph, vs)
    IN /\ \A s, t \in vs :
              LET answer  == query_reachability(proj, s, t, asked)
                  joining == {w \in walks : w[1] = s /\ Last(w) = t}
              IN /\ answer[1] = "reachable" => answer[2] \in joining
                 /\ answer[1] = "does not exist" => joining = {} /\ asked.complete
                 /\ built = asked /\ NoDanglingEdge(asked.graph) /\ {s, t} \subseteq asked.graph.nodes =>
                        answer[1] = IF joining # {} THEN "reachable"
                                    ELSE IF asked.complete THEN "does not exist" ELSE "not observed"
       /\ \A roots \in SUBSET vs : \A slice \in export_public_slice(proj, asked, roots) :
              /\ roots \subseteq slice /\ slice \cap asked.private = {}
              /\ \A v \in slice : Neighbors(asked.graph, v) \subseteq slice
=============================================================================
