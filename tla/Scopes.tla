------------------------------- MODULE Scopes -------------------------------
(***************************************************************************)
(* ingest/python/scope.py, with the views of ingest/python/flow.py: which  *)
(* names are local where, and what the type of a local is said to be.      *)
(*                                                                         *)
(* A type is a dotted name.  The types a receiver may have are a set: the  *)
(* order of the arms is left out.                                          *)
(***************************************************************************)
EXTENDS PythonSource, FlowTypes

(* The names a module or a class body binds to values: binder_names.       *)
BinderNames(p, s) ==
    UNION {Bound(p[j]) : j \in {j \in OwnLines(p, s) : p[j].kind # "import"}}

(* The names of a function's own scope, those of nested definitions and of *)
(* its imports among them.                                                 *)
FunctionLocals(p, s) ==
    Params(p[s])
    \cup UNION {Bound(p[j]) : j \in OwnLines(p, s)}
    \cup {p[j].name : j \in {j \in OwnLines(p, s) : p[j].kind \in Definitions}}

LocalsOf(p, s) ==
    IF s = 0 \/ p[s].kind = "class" THEN BinderNames(p, s)
    ELSE IF p[s].kind = "lambda" THEN Params(p[s])
    ELSE FunctionLocals(p, s)

(* is_local, at line i.                                                    *)
IsLocal(p, i, name) ==
    \E s \in {0} \cup {j \in Above(p, i) : p[j].kind \in Scopes} : name \in LocalsOf(p, s)

-----------------------------------------------------------------------------
(* assign_effect: the form of an assignment and the types it gives.  A     *)
(* construction counts when its class is not a local of the scopes at.     *)
Assignments == {"assign", "annassign", "augassign"}
IsAssignment(l) == l.kind \in Assignments /\ Bound(l) # {}

Construction(p, i) ==
    IF p[i].kind = "assign" THEN Callee(ValueOf(p, i)) ELSE None

OnlyNames(l) == l.unpacked \o l.deeper \o l.attrs \o l.unpackedAttrs = <<>> /\ ~l.elsewhere

AssignEffect(p, i, at) ==
    LET types == IF p[i].kind = "annassign" THEN ToSet(AnnotationTypes(p[i].annotation)) ELSE {}
        class == Construction(p, i)
    IN  IF types # {} THEN Binding("annotated", types)
        ELSE IF class # None /\ OnlyNames(p[i]) /\ ~IsLocal(p, at, Head(class))
             THEN Binding("ctor", {class})
        ELSE Binding("unknown", {})

(* param_types: the types a parameter is annotated with.                   *)
ParamTypes(l, name) ==
    UNION {ToSet(AnnotationTypes(l.params[k].annotation)) : k \in
        {k \in DOMAIN l.params : l.params[k].name = name /\ l.params[k].annotation # None}}

(* function_scope: the type all annotations of a local agree on.           *)
AnnotatedLocal(p, s, name) ==
    LET notes == {AnnotationTypes(p[j].annotation) : j \in
            {j \in OwnLines(p, s) : p[j].kind = "annassign" /\ name \in ToSet(p[j].names)}} \ {<<>>}
    IN  IF Cardinality(notes) = 1 THEN ToSet(CHOOSE types \in notes : TRUE) ELSE {}

(* function_scope: the class that a local is constructed with, when all    *)
(* that binds it is that construction.  Parameters and nested definitions  *)
(* of the same name are not looked at.                                     *)
ConstructedLocal(p, s, name) ==
    LET binding == {j \in OwnLines(p, s) : name \in Bound(p[j])}
        classes == {Construction(p, j) : j \in binding}
        named(j) == /\ Construction(p, j) # None
                    /\ ~IsLocal(p, j, Head(Construction(p, j)))
                    /\ name \notin ToSet(p[j].unpacked \o p[j].deeper)
    IN  IF Cardinality(classes) = 1 /\ \A j \in binding : named(j) THEN classes ELSE {}

(* function_scope: the locals assigned twice, with a type once at least.   *)
FlowVars(p, s) ==
    LET assigning(name) == {j \in OwnLines(p, s) : IsAssignment(p[j]) /\ name \in Bound(p[j])}
    IN  {name \in FunctionLocals(p, s) :
            /\ Cardinality(assigning(name)) >= 2
            /\ \E j \in assigning(name) : AssignEffect(p, j, s).types # {}}

-----------------------------------------------------------------------------
(* RecType.                                                                *)
RecType(types, inferred) == [types |-> types, inferred |-> inferred, may |-> {}, flow |-> FALSE]
EmptyRec == RecType({}, FALSE)

(* What line j of a function does to a variable, for FlowTypes.            *)
Effects(p, j, name) ==
    IF name \notin Bound(p[j]) \/ p[j].kind = "import" THEN <<>>
    ELSE IF IsAssignment(p[j]) THEN <<AssignEffect(p, j, j)>>
    ELSE <<Binding("bound", {})>>

(* A statement of a function body, with the lines of its scope inside it.  *)
StatementOf(p, s, j, name) ==
    LET own == InOrder(p, ({j} \cup Inside(p, j)) \cap OwnLines(p, s))
        does == FlattenSeq([k \in DOMAIN own |-> Effects(p, own[k], name)])
    IN  IF IsAssignment(p[j]) THEN Simple(Effects(p, j, name)) ELSE Block(FALSE, <<does>>)

StatementsBefore(p, s, i) == Cardinality({j \in Below(p, s) : j <= i})

(* The function as FlowTypes has it, for one of its variables.             *)
FunctionOf(p, s, name) ==
    LET body == InOrder(p, Below(p, s))
    IN  [parameter |-> name \in Params(p[s]), annotation |-> ParamTypes(p[s], name),
         body |-> [k \in DOMAIN body |-> StatementOf(p, s, body[k], name)]]

(* flow_types: what the statement of line i sees of a reassigned variable, *)
(* base being what the scope says of it.                                   *)
FlowType(p, s, i, name, base) ==
    LET fn == FunctionOf(p, s, name)
        at == StatementsBefore(p, s, i)
        view == ReassignedView(fn, base.types, at)
        from == IF BranchReassigned(fn) THEN Assigned(fn) ELSE ToSet(Live(fn, at))
    IN  [types |-> view.types, may |-> view.may, flow |-> TRUE,
         inferred |-> IF from = {} THEN base.inferred ELSE \E b \in from : b.form = "ctor"]
=============================================================================
