----------------------------- MODULE Relations ------------------------------
(***************************************************************************)
(* The relation queries (query/relations.py) over the edges that the       *)
(* resolver leaves: callers, references and dependencies of a symbol, with *)
(* the two dials of the caller and the count of what each dial hides.      *)
(*                                                                         *)
(* A result is the edge it is made from; the id, tier and position that a  *)
(* Reference shows are fields of it.                                       *)
(***************************************************************************)
EXTENDS Resolver

Queries == {"callers", "references", "dependencies"}

(* The adjacency lists of the graph (model/graph.py), filled by add_edge in *)
(* the order of the edges: the places that the edges have in that order.   *)
OutEdges(edges, symbol) == {i \in DOMAIN edges : edges[i].src = symbol}
InEdges(edges, symbol) == {i \in DOMAIN edges : edges[i].dst = symbol}

(* Resolution: what each way to an edge gives it, and Confidence.rank.     *)
Confidence ==
    [syntactic |-> "high", callsite |-> "high", annotation |-> "medium",
     inference |-> "medium", stub |-> "medium", heuristic |-> "low"]
Rank(e) == [high |-> 2, medium |-> 1, low |-> 0][Confidence[e.via]]

(* _MODE_ALLOWS *)
Allows ==
    [off |-> {"stable"}, split |-> {"stable", "flow"}, union |-> {"stable", "flow", "may"}]

(* _candidates: the edges a query considers.                               *)
Considered(edges, symbol, which) ==
    CASE which = "callers" -> {i \in InEdges(edges, symbol) : edges[i].kind = "call"}
      [] which = "references" -> {i \in InEdges(edges, symbol) : edges[i].kind # "contains"}
      [] which = "dependencies" -> OutEdges(edges, symbol)

(* What _resolve_files leaves: edges of known sources, each of a flow.     *)
EdgeList(edges) ==
    /\ IsFiniteSet(DOMAIN edges)
    /\ \A i \in DOMAIN edges :
          edges[i].via \in DOMAIN Confidence /\ edges[i].flow \in {"stable", "flow", "may"}

Below(e, floor) == Rank(e) < floor
Excluded(e, mode) == e.flow \notin Allows[mode]

(* find_callers, find_references, find_dependencies *)
Find(edges, symbol, which, floor, mode) ==
    {i \in Considered(edges, symbol, which) : ~Excluded(edges[i], mode) /\ ~Below(edges[i], floor)}

(* As if the mode were blamed before the floor.                            *)
SuppressionByMode(edges, symbol, which, floor, mode) ==
    LET considered == Considered(edges, symbol, which)
    IN  [confidence |-> Cardinality({i \in considered :
                            Below(edges[i], floor) /\ ~Excluded(edges[i], mode)}),
         reassignment |-> Cardinality({i \in considered : Excluded(edges[i], mode)})]

(* suppression: every hidden edge under the dial that hides it first.      *)
Suppression(edges, symbol, which, floor, mode) ==
    LET considered == Considered(edges, symbol, which)
    IN  [confidence |-> Cardinality({i \in considered : Below(edges[i], floor)}),
         reassignment |-> Cardinality({i \in considered :
                              ~Below(edges[i], floor) /\ Excluded(edges[i], mode)})]

-----------------------------------------------------------------------------
(* relations.py:137-140: the counts say what turning a dial gives back.    *)
(* With the floor left as it is, the widest mode adds as many results as   *)
(* are counted under reassignment; with the lowest floor as well, as many  *)
(* as both counts, and nothing is hidden any more.                         *)
SuppressionIsActionable ==
    cache # None =>
        \A symbol \in {e.dst : e \in ToSet(result.edges)} \cup {e.src : e \in ToSet(result.edges)},
           which \in Queries, floor \in 0 .. 2, mode \in DOMAIN Allows :
            LET found(f, m) == Cardinality(Find(result.edges, symbol, which, f, m))
                hidden == Suppression(result.edges, symbol, which, floor, mode)
            IN  /\ found(floor, "union") = found(floor, mode) + hidden.reassignment
                /\ found(0, "union") = found(floor, mode) + hidden.reassignment + hidden.confidence

(* typeres.py:217: how a reassigned receiver is split must *)
(* not change what it may reach.  Name matches aside, the widest mode has  *)
(* the targets that the same receiver would have if it were declared with  *)
(* the union of all its types, and the default mode those that it would    *)
(* have if it had no others than the types live at the use.                *)
Targets(edges) == {e.dst : e \in {x \in ToSet(edges) : x.via # "heuristic"}}

WideningIsUnion ==
    cache # None =>
        LET T == Tables(cache.products)
            main == PerFile(T.fs, LAMBDA m : cache.recs[m].main)
        IN  \A m \in DOMAIN cache.products : \A ref \in ToSet(cache.products[m].refs) :
                ref.may # <<>> =>
                    LET edgesOf(r) == ValueTypeEdges(ResolveIndex(T, main), m, r)
                        declared == [ref EXCEPT !.types = @ \o ref.may, !.may = <<>>]
                        live == Matching(edgesOf(ref), LAMBDA e : e.flow # "may")
                    IN  /\ Targets(edgesOf(ref)) = Targets(edgesOf(declared))
                        /\ Targets(live) = Targets(edgesOf([ref EXCEPT !.may = <<>>]))

(* chains.py:18-20: what lies beyond a value is never definite.  No edge   *)
(* of certainty ends at a name outside the project that passes through a   *)
(* member which the tables know for a value, a function or a class.        *)
BeyondValue(q) ==
    \E k \in 2 .. Len(q) - 1 :
        LET path == SubSeq(q, 1, k)
            member == ModuleMember(Front(path), Last(path))
        IN  ~HasModule(path) /\ member # None /\ member.kind # "submodule"

DefiniteIsNamespace ==
    cache # None =>
        LET T == Tables(cache.products)
        IN  \A e \in ToSet(result.edges) :
                e.via = "syntactic" /\ e.kind \in {"call", "reference"} /\ ~Known(T, e.dst) =>
                    ~BeyondValue(e.dst)
=============================================================================
