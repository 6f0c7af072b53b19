--------------------------- MODULE TypeResolution ---------------------------
(***************************************************************************)
(* The value resolvers (ingest/python/typeres.py, callsite.py) over the    *)
(* tables of resolve_index.py: the confidence ladder that turns a          *)
(* reference whose root is a value into possible edges.                    *)
(*                                                                         *)
(* The tables of external types are those of Chains.                       *)
(***************************************************************************)
EXTENDS Chains

CONSTANTS
    HeuristicCap    \* _HEURISTIC_CAP: more candidates than this are no report

(* An edge, with where its target came from; flow tells the edges of a     *)
(* reassigned receiver, by its live type or by another that it may have.   *)
Edge(ref, dst, via) ==
    [src |-> ref.src, dst |-> dst, kind |-> ref.kind, via |-> via, flow |-> "stable"]

Callable == {"method", "function", "class"}
ReadableData == {"variable", "property"}
Readable == Callable \cup ReadableData
IsRead(ref) == ref.kind = "reference"
MemberKinds(isRead) == IF isRead THEN Readable ELSE Callable

-----------------------------------------------------------------------------
(* resolution_index.  edges are the main edges of every file, in order.    *)
AllSymbols(fs) == PerFile(fs, LAMBDA m : fs[m].symbols)

Bases(T, edges, class) ==
    LET inherits(e) == e.kind = "inherits" /\ e.src = class /\ Known(T, e.dst)
        own == Matching(edges, inherits)
    IN  [i \in DOMAIN own |-> own[i].dst]

ResolveIndex(T, edges) ==
    LET ids == DOMAIN T.byId
        typeOf(fs, m, s) == IF s.type = None THEN None ELSE ResolveTypeName(T, m, s.type)
        homes == [id \in ids |-> CHOOSE m \in DOMAIN T.fs : T.byId[id] \in ToSet(T.fs[m].symbols)]
    IN  [T |-> T,
         symbols |-> AllSymbols(T.fs),
         bases |-> [id \in ids |-> Bases(T, edges, id)],
         typeOf |-> [id \in ids |-> typeOf(T.fs, homes[id], T.byId[id])]]

(* A member defined by a class itself; the first definition wins.          *)
OwnMember(ctx, class, name, kinds) ==
    LET s == FirstMatch(ctx.symbols,
                        LAMBDA x : x.parent = class /\ x.name = name /\ x.kind \in kinds)
    IN  IF s = None THEN None ELSE s.id

TheOnly(found) == IF Cardinality(found) = 1 THEN CHOOSE id \in found : TRUE ELSE None

(* _member_lookup: the class's own member, else the one member that the    *)
(* nearest definitions along its bases agree on.                           *)
MemberLookup(ctx, class, name, kinds) ==
    LET own == [c \in DOMAIN ctx.bases |-> OwnMember(ctx, c, name, kinds)]
        above[cs \in SUBSET DOMAIN ctx.bases] ==
            LET more == cs \cup UNION {ToSet(ctx.bases[c]) : c \in {d \in cs : own[d] = None}}
            IN  IF more = cs THEN cs ELSE above[more]
    IN  IF class = None THEN None
        ELSE TheOnly({own[c] : c \in above[{class}]} \ {None})

-----------------------------------------------------------------------------
(* A receiver on its way along a member chain: its class, whether a fact   *)
(* used so far was inferred, and whether the chain met a data attribute    *)
(* whose type is not known.                                                *)
At(class, inferred, untyped) == [class |-> class, inferred |-> inferred, untyped |-> untyped]

(* The value a member yields to at: its type when it is read, what it      *)
(* returns when it is called.  The two type maps are disjoint.             *)
Landing(ctx, at, id, read) ==
    LET isData == KindOf(ctx.T, id) \in ReadableData
        to == IF id # None /\ isData = read THEN ctx.typeOf[id] ELSE None
    IN  At(to, at.inferred \/ (to # None /\ ctx.T.byId[id].inferred),
           read /\ (at.untyped \/ (isData /\ to = None)))

Hop(ctx, at, hop) ==
    Landing(ctx, at, MemberLookup(ctx, at.class, hop.name, MemberKinds(hop.read)), hop.read)

(* The hops to the last of names: the first `reads` members are read, the  *)
(* others are called.                                                      *)
Hops(names, reads) ==
    [i \in 1 .. Len(names) - 1 |-> [name |-> names[i], read |-> i <= reads]]

Thread(ctx, at, hops) == FoldLeft(LAMBDA a, h : Hop(ctx, a, h), at, hops)

(* The edges to the member `name` of the classes reached.  A type that a   *)
(* receiver may have elsewhere is never a declared fact.                   *)
MemberEdges(ctx, ref, reached, name, kinds, flow) ==
    LET source(at) == IF at.inferred \/ flow = "may" THEN "inference" ELSE "annotation"
        edges == [i \in DOMAIN reached |->
                     [Edge(ref, MemberLookup(ctx, reached[i].class, name, kinds),
                           source(reached[i])) EXCEPT !.flow = flow]]
    IN  DistinctBy(LAMBDA e : e.dst, Matching(edges, LAMBDA e : e.dst # None))

-----------------------------------------------------------------------------
(* _self_class, _receiver_classes: what the root of a receiver denotes.    *)
SelfClass(T, src) ==
    IF /\ KindOf(T, src) \in {"method", "property"}
       /\ ~T.byId[src].static
       /\ KindOf(T, T.byId[src].parent) = "class"
    THEN T.byId[src].parent ELSE None

ArmOf(ctx, ref, class, callee) ==
    LET made == IF callee = None \/ callee.external THEN None ELSE callee.id
    IN  IF class # None THEN At(class, ref.inferred, FALSE)
        ELSE Landing(ctx, At(None, ref.inferred, FALSE), made, FALSE)

ReceiverClasses(ctx, m, ref, types) ==
    LET arms == IF Head(ref.name) = "self" THEN <<At(SelfClass(ctx.T, ref.src), TRUE, FALSE)>>
                ELSE [i \in DOMAIN types |->
                         ArmOf(ctx, ref, ResolveTypeName(ctx.T, m, types[i]),
                                         Bind(ctx.T, m, types[i]))]
    IN  DistinctBy(LAMBDA a : a.class, Matching(arms, LAMBDA a : a.class # None))

-----------------------------------------------------------------------------
(* _heuristic_edges: an untyped receiver matches every member of the name, *)
(* unless there are too many.                                              *)
Candidates(ctx, name, isRead) ==
    LET isCandidate(s) ==
            /\ s.name = name
            /\ IF isRead THEN s.kind \in Readable /\ KindOf(ctx.T, s.parent) = "class"
                         ELSE s.kind = "method"
    IN  Matching(ctx.symbols, isCandidate)

EdgesUnlessMany(ref, found) ==
    IF Len(found) > HeuristicCap THEN <<>>
    ELSE [i \in DOMAIN found |-> Edge(ref, found[i].id, "heuristic")]

HeuristicEdges(ctx, ref, name) == EdgesUnlessMany(ref, Candidates(ctx, name, IsRead(ref)))

(* _stub_targets: a member of an external type.                            *)
StubEdges(ctx, m, ref, name, arms) ==
    LET usable(member) == member # None /\
                          (IsRead(ref) \/ member.kind \in {"method", "func", "class"})
        has(q) == q # None /\ usable(TypeMember(q, Head(name)))
        external == [i \in DOMAIN arms.types |-> ResolveExternalTypeName(ctx.T, m, arms.types[i])]
        targets == Distinct(Matching(external, has))
    IN  [i \in DOMAIN targets |-> [Edge(ref, targets[i] \o name, "stub") EXCEPT !.flow = arms.flow]]

-----------------------------------------------------------------------------
(* A dotted name as its parts, each a name; those of a receiver's members. *)
Parts(dotted) == [i \in DOMAIN dotted |-> <<dotted[i]>>]
Members(ref) == Parts(Tail(ref.name))
Trail(ref) == Members(ref) \o Parts(ref.chain)

(* As if only the types at the use were followed.                          *)
ArmSetsLive(ref) ==
    <<[types |-> ref.types, flow |-> IF ref.flow THEN "flow" ELSE "stable"]>>

(* The types a receiver has at the use, then those it may have elsewhere.  *)
ArmSets(ref) ==
    <<[types |-> ref.types, flow |-> IF ref.flow THEN "flow" ELSE "stable"]>>
    \o (IF ref.may = <<>> THEN <<>> ELSE <<[types |-> ref.may, flow |-> "may"]>>)

(* The edges of the classes reached, and of the external types if nothing  *)
(* is called on the way; whether the way met an untyped attribute.         *)
Arrive(ctx, m, ref, arms, reached) ==
    LET kinds == IF ref.chain = <<>> THEN MemberKinds(IsRead(ref)) ELSE Callable
        stubs == IF Len(Trail(ref)) = 1 /\ Len(reached) < Len(arms.types)
                 THEN StubEdges(ctx, m, ref, Last(Trail(ref)), arms) ELSE <<>>
    IN  [edges |-> MemberEdges(ctx, ref, reached, Last(Trail(ref)), kinds, arms.flow) \o stubs,
         untyped |-> \E i \in DOMAIN reached : reached[i].untyped]

(* _typed_arm_edges, _chain_arm_edges: the receiver's own members are read;*)
(* before a trailing chain, the last of them is called, as is the chain.   *)
ArmEdges(ctx, m, ref, arms) ==
    LET hops == Hops(Trail(ref), Len(Members(ref)) - 1)
        follow(at) == Thread(ctx, at, hops)
        classes == ReceiverClasses(ctx, m, ref, arms.types)
    IN  Arrive(ctx, m, ref, arms, [i \in DOMAIN classes |-> follow(classes[i])])

(* _resolve_receiver_ref, _resolve_call_return_chain: each target once; a  *)
(* name match only when no type is known and nothing is called on the way. *)
ValueEdges(ctx, ref, found) ==
    LET edges == DistinctBy(LAMBDA e : e.dst, FlattenSeq([i \in DOMAIN found |-> found[i].edges]))
        noType == ref.types = <<>> /\ ref.may = <<>> /\ Head(ref.name) # "self"
        byName == IF noType THEN Len(Members(ref)) = 1 ELSE edges = <<>> /\ found[1].untyped
    IN  IF byName /\ ref.chain = <<>> THEN HeuristicEdges(ctx, ref, Last(Trail(ref))) ELSE edges

ValueTypeEdges(ctx, m, ref) ==
    LET sets == ArmSets(ref)
    IN  IF ~ref.local \/ Members(ref) = <<>> THEN <<>>
        ELSE ValueEdges(ctx, ref, [i \in DOMAIN sets |-> ArmEdges(ctx, m, ref, sets[i])])

(* resolve_intree_chains: make().run() where make is a function here.      *)
ChainEdges(ctx, ref, recv) ==
    IF ref.chain = <<>> \/ recv = None THEN <<>>
    ELSE IF recv.external THEN <<>>
    ELSE LET made == Landing(ctx, At(None, FALSE, FALSE), recv.id, FALSE)
         IN  MemberEdges(ctx, ref, <<Thread(ctx, made, Hops(Parts(ref.chain), 0))>>,
                         Last(Parts(ref.chain)), Callable, "stable")

InTreeChainEdges(ctx, m, ref) == ChainEdges(ctx, ref, Bind(ctx.T, m, ref.name))

(* observe_arg_types: the classes constructed in the arguments of a call   *)
(* to a function of the tree.                                              *)
ArgEdgesTo(ctx, m, ref, callee) ==
    LET types == Present([i \in DOMAIN ref.args |->
                    IF ref.args[i] = None THEN None ELSE ResolveTypeName(ctx.T, m, ref.args[i])])
    IN  IF ref.local \/ ref.kind # "call" \/ callee = None THEN <<>>
        ELSE IF callee.external \/ KindOf(ctx.T, callee.id) # "function" THEN <<>>
        ELSE [i \in DOMAIN types |->
                 Edge([src |-> callee.id, kind |-> "receives_arg"], types[i], "callsite")]

ArgEdges(ctx, m, ref) == ArgEdgesTo(ctx, m, ref, Bind(ctx.T, m, ref.name))
=============================================================================
