------------------------------ MODULE RefPass -------------------------------
(***************************************************************************)
(* ingest/python/refs.py: the references and the imports of a file, from   *)
(* its lines and the ids of its definitions.  A reference keeps the line   *)
(* it is at.                                                               *)
(***************************************************************************)
EXTENDS Scopes

RawRefAt(i, src, kind, name) ==
    [src |-> src, kind |-> kind, name |-> name, at |-> i, local |-> FALSE,
     types |-> {}, inferred |-> FALSE, flow |-> FALSE, may |-> {}, args |-> <<>>, chain |-> <<>>]

-----------------------------------------------------------------------------
(* The id a definition had before node_ids: that of the scope it is in and *)
(* its name.                                                               *)
ConcatenatedId(p, ids, d) ==
    LET id[j \in 0 .. Len(p)] ==
            IF j = 0 THEN ids[0] ELSE id[EnclosingDefinition(p, j)] \o <<p[j].name>>
    IN  id[d]

(* The id of the symbol a definition is, by node_ids; a definition that    *)
(* has none there gets the name of its scope and its own.                  *)
DefinitionId(p, ids, d) ==
    LET id[j \in 0 .. Len(p)] ==
            IF j \in DOMAIN ids THEN ids[j]
            ELSE id[EnclosingDefinition(p, j)] \o <<p[j].name>>
    IN  id[d]

Source(p, ids, i) == DefinitionId(p, ids, EnclosingDefinition(p, i))

-----------------------------------------------------------------------------
(* As if a nested function kept the view of the statement it stands in.    *)
ScopeTypeOuter(p, s, name, outer) ==
    IF AnnotatedLocal(p, s, name) # {} THEN RecType(AnnotatedLocal(p, s, name), FALSE)
    ELSE IF ParamTypes(p[s], name) # {} THEN RecType(ParamTypes(p[s], name), FALSE)
    ELSE IF ConstructedLocal(p, s, name) # {} THEN RecType(ConstructedLocal(p, s, name), TRUE)
    ELSE IF name \in FunctionLocals(p, s) THEN EmptyRec
    ELSE outer

(* What the scope of function s says of one of its names: a declaration    *)
(* beats an inference, and both the type it has in the scopes around.      *)
ScopeType(p, s, name, outer) ==
    IF AnnotatedLocal(p, s, name) # {} THEN RecType(AnnotatedLocal(p, s, name), FALSE)
    ELSE IF ParamTypes(p[s], name) # {} THEN RecType(ParamTypes(p[s], name), FALSE)
    ELSE IF ConstructedLocal(p, s, name) # {} THEN RecType(ConstructedLocal(p, s, name), TRUE)
    ELSE IF name \in FunctionLocals(p, s) \/ outer.flow THEN EmptyRec
    ELSE outer

LambdaType(p, s, name, outer) == IF name \in Params(p[s]) \/ outer.flow THEN EmptyRec ELSE outer

(* The type of a name at line i, as _visit hands it down from scope to     *)
(* scope and, for a reassigned local, from statement to statement.         *)
TypeAt(p, line, name) ==
    LET type[i \in 1 .. Len(p)] ==
            LET s == EnclosingScope(p, i)
                outer == IF s = 0 THEN EmptyRec ELSE type[s]
            IN  IF s = 0 THEN EmptyRec
                ELSE IF p[s].kind = "class" THEN outer
                ELSE IF p[s].kind = "lambda" THEN LambdaType(p, s, name, outer)
                ELSE IF name \in FlowVars(p, s)
                     THEN FlowType(p, s, i, name, ScopeType(p, s, name, outer))
                ELSE ScopeType(p, s, name, outer)
    IN  type[line]

-----------------------------------------------------------------------------
(* _arg_types: the classes constructed at the positional arguments, up to  *)
(* the first splat.                                                        *)
ArgClass(p, j) ==
    LET class == Callee(p[j])
    IN  IF class # None /\ Len(class) = 1 /\ ~IsLocal(p, j, Head(class)) THEN class ELSE None

Trimmed(types) ==
    SubSeq(types, 1, Max({0} \cup {k \in DOMAIN types : types[k] # None}))

ArgTypes(p, i) ==
    LET args == InOrder(p, {j \in Below(p, i) : p[j].kind = "expr" /\ p[j].role # "value"})
        splat == SelectInSeq(args, LAMBDA j : p[j].role = "star")
        aligned == IF splat = 0 THEN args ELSE SubSeq(args, 1, splat - 1)
    IN  Trimmed([k \in DOMAIN aligned |-> ArgClass(p, aligned[k])])

(* A reference by its name: bound syntactically when no scope shadows the  *)
(* root; left to the type resolvers, with what is known of the type, when  *)
(* it goes through a local; dropped when it is a local itself.             *)
NamedRef(p, r) ==
    LET type == TypeAt(p, r.at, Head(r.name))
    IN  IF ~IsLocal(p, r.at, Head(r.name)) THEN <<r>>
        ELSE IF Len(r.name) = 1 THEN <<>>
        ELSE <<[r EXCEPT !.local = TRUE, !.args = <<>>, !.types = type.types,
                         !.inferred = type.inferred, !.flow = type.flow, !.may = type.may]>>

(* _call_chain and the call branch of _visit: the reference of the call    *)
(* that is operation n of an expression.  The first call of a name is      *)
(* made by its dotted path; one on the value of another call is a chain.   *)
CallRef(p, ids, i, n) ==
    LET e == p[i]
        first == SelectInSeq(e.ops, LAMBDA op : op = Call)
        receiver == <<e.root>> \o SubSeq(e.ops, 1, first - 1)
        members == SelectSeq(SubSeq(e.ops, first, n), LAMBDA op : op # Call)
        ref == RawRefAt(i, Source(p, ids, i), "call", receiver)
    IN  IF n = first THEN NamedRef(p, [ref EXCEPT !.args = ArgTypes(p, i)])
        ELSE IF members = <<>> THEN <<>>
        ELSE NamedRef(p, [ref EXCEPT !.chain = members])

(* A store descends into what is left of its target without its last step. *)
Loaded(e) == IF e.store THEN [e EXCEPT !.ops = Front(@)] ELSE e

(* The outermost operation first; an attribute of a call is no reference.  *)
ExpressionRefs(p, ids, i) ==
    LET e == Loaded(p[i])
        calls == Reverse(InOrder(e.ops, {n \in DOMAIN e.ops : e.ops[n] = Call}))
    IN  IF e.root \in {Value, Nil} THEN <<>>
        ELSE IF calls # <<>> THEN FlattenSeq([k \in DOMAIN calls |-> CallRef(p, ids, i, calls[k])])
        ELSE IF e.ops # <<>>
             THEN NamedRef(p, RawRefAt(i, Source(p, ids, i), "reference", DottedName(e)))
        ELSE <<>>

(* The bases of a class that can be bound by name.                         *)
BaseRefs(p, ids, i) ==
    LET bases == p[i].bases
        ref(base) == RawRefAt(i, DefinitionId(p, ids, i), "inherits", base)
    IN  FlattenSeq([k \in DOMAIN bases |->
            IF IsLocal(p, i, Head(bases[k])) THEN <<>> ELSE <<ref(bases[k])>>])

LineRefs(p, ids, i) ==
    IF p[i].kind = "class" THEN BaseRefs(p, ids, i)
    ELSE IF p[i].kind = "expr" THEN ExpressionRefs(p, ids, i)
    ELSE <<>>

-----------------------------------------------------------------------------
(* Imports, at module level only.                                          *)
Package(module, isInit) == IF isInit THEN module ELSE Front(module)

RelativeModule(package, level, name) ==
    IF Len(package) < level THEN None
    ELSE SubSeq(package, 1, Len(package) - level + 1) \o name

FromModule(l, package) ==
    IF l.level > 0 THEN RelativeModule(package, l.level, l.from) ELSE l.from

ModuleImports(p) == InOrder(p, {i \in OwnLines(p, 0) : p[i].kind = "import"})

(* _import_refs: the module an import names and, for a from-import, each   *)
(* name under it, which may be a submodule.                                *)
ImportRefs(p, module, package) ==
    LET targets(l) ==
            IF l.from = None THEN [k \in DOMAIN l.items |-> l.items[k].name]
            ELSE LET mod == FromModule(l, package)
                 IN  IF mod = None THEN <<>>
                     ELSE <<mod>> \o [k \in DOMAIN l.items |-> mod \o l.items[k].name]
        refs(i) == [k \in DOMAIN targets(p[i]) |->
                        RawRefAt(i, module, "import", targets(p[i])[k])]
    IN  FlattenSeq([k \in DOMAIN ModuleImports(p) |-> refs(ModuleImports(p)[k])])

(* As if imports were collected in every scope.                            *)
CollectImportsAnywhere(p, package) ==
    LET lines == InOrder(p, {i \in DOMAIN p : p[i].kind = "import"})
        target(l, item) ==
            IF l.from = None THEN IF item.as = None THEN <<Head(item.name)>> ELSE item.name
            ELSE FromModule(l, package) \o item.name
        entries(l) == [k \in DOMAIN l.items |->
                        <<<<LocalName(l, l.items[k])>>, target(l, l.items[k])>>]
        usable == SelectSeq(lines, LAMBDA i : p[i].from = None \/ FromModule(p[i], package) # None)
    IN  FlattenSeq([k \in DOMAIN usable |-> entries(p[usable[k]])])

(* _collect_imports: local name -> target, a later import of a name over   *)
(* an earlier one.                                                         *)
CollectImports(p, package) ==
    LET target(l, item) ==
            IF l.from = None THEN IF item.as = None THEN <<Head(item.name)>> ELSE item.name
            ELSE FromModule(l, package) \o item.name
        entries(l) == [k \in DOMAIN l.items |->
                        <<<<LocalName(l, l.items[k])>>, target(l, l.items[k])>>]
        usable == SelectSeq(ModuleImports(p),
                            LAMBDA i : p[i].from = None \/ FromModule(p[i], package) # None)
        all == FlattenSeq([k \in DOMAIN usable |-> entries(p[usable[k]])])
        kept == SelectSeq([k \in DOMAIN all |-> k],
                          LAMBDA k : \A n \in k + 1 .. Len(all) : all[n][1] # all[k][1])
    IN  [n \in DOMAIN kept |-> all[kept[n]]]

-----------------------------------------------------------------------------
(* extract_refs, without the import map.                                   *)
ExtractRefs(p, ids, module, package) ==
    FlattenSeq([i \in DOMAIN p |-> LineRefs(p, ids, i)]) \o ImportRefs(p, module, package)
=============================================================================
