----------------------------- MODULE SymbolPass -----------------------------
(***************************************************************************)
(* ingest/python/symbols.py: the symbols of a file, and the id of each     *)
(* class and function, from its lines.  Signatures and documentation are   *)
(* left out.                                                               *)
(*                                                                         *)
(* An id is the sequence of its components, the suffix "#2" being one.     *)
(* A symbol keeps the line it is defined at.                               *)
(***************************************************************************)
EXTENDS PythonSource

CONSTANT Marks      \* the suffixes "#2", "#3", ... in order

SymbolAt(i, id, name, kind, parent) ==
    [id |-> id, name |-> <<name>>, kind |-> kind, parent |-> parent, at |-> i,
     type |-> None, inferred |-> FALSE, static |-> FALSE]

ModuleSymbol(module) ==
    SymbolAt(0, module, Last(module), "module", IF Len(module) = 1 THEN None ELSE Front(module))

(* _visit descends into definitions and into blocks, try with except* not  *)
(* among them.                                                             *)
Visited(p, i) == \A j \in Above(p, i) : p[j].kind \in Definitions \cup {"block"}

-----------------------------------------------------------------------------
(* What a function is said to return: its annotation, else the one class   *)
(* that all its return statements construct.                               *)
Returned(p, f) == {ValueOf(p, j) : j \in {j \in OwnLines(p, f) : p[j].kind = "return"}}

InferredReturn(p, f) ==
    LET values == {v \in Returned(p, f) : ~IsNil(v)}
        classes == {Callee(v) : v \in values}
    IN  IF Cardinality(classes) = 1 THEN CHOOSE class \in classes : TRUE ELSE None

ReturnType(p, f) ==
    IF p[f].returns # None THEN AnnotationName(p[f].returns) ELSE InferredReturn(p, f)

DecoratorNames(l) == {Last(deco) : deco \in ToSet(l.decorators)}

(* The kind of a function by where it is and what decorates it.            *)
FunctionKind(p, f) ==
    LET container == EnclosingDefinition(p, f)
    IN  IF container = 0 \/ p[container].kind # "class" THEN "function"
        ELSE IF DecoratorNames(p[f]) \cap {"property", "cached_property"} # {} THEN "property"
        ELSE "method"

IsStatic(p, f) == FunctionKind(p, f) # "function" /\ "staticmethod" \in DecoratorNames(p[f])

-----------------------------------------------------------------------------
(* _instance_attributes: what the methods of class c assign to self.<name>.*)
Methods(p, c) ==
    {f \in Below(p, c) : p[f].kind = "function" /\ "staticmethod" \notin DecoratorNames(p[f])}

(* walk: the assignments of a method, blocks included.                     *)
Walked(p, f) ==
    {j \in Inside(p, f) : /\ p[j].kind \in {"assign", "annassign"}
                          /\ \A k \in Above(p, j) \ (Above(p, f) \cup {f}) : p[k].kind = "block"}

(* As if a class named like a parameter were the class.                    *)
SelfClassAnyway(p, j) == Callee(ValueOf(p, j))

(* The class an assignment to self.<name> constructs.                      *)
SelfClass(p, j) ==
    LET class == Callee(ValueOf(p, j))
        params == p[EnclosingScope(p, j)].params
    IN  IF class = None \/ \E k \in DOMAIN params : params[k].name = Head(class)
        THEN None ELSE class

AttributesOf(l) == l.attrs \o (IF l.kind = "assign" THEN l.unpackedAttrs ELSE <<>>)

(* The assignments to one attribute, the values it is given, and its type. *)
AssignmentsTo(p, c, name) ==
    {j \in UNION {Walked(p, f) : f \in Methods(p, c)} : name \in ToSet(AttributesOf(p[j]))}

InferredAttribute(p, c, name) ==
    LET plain == {j \in AssignmentsTo(p, c, name) : p[j].kind = "assign"}
        opaque == {j \in plain : name \in ToSet(p[j].unpackedAttrs)}
        valued == {j \in plain : ~IsNil(ValueOf(p, j))}
        classes == {SelfClass(p, j) : j \in valued}
    IN  IF opaque = {} /\ Cardinality(classes) = 1
        THEN CHOOSE class \in classes : TRUE ELSE None

DeclaredAttribute(p, c, name) ==
    LET notes == {j \in AssignmentsTo(p, c, name) :
                    p[j].kind = "annassign" /\ AnnotationName(p[j].annotation) # None}
    IN  IF notes = {} THEN None ELSE AnnotationName(p[Min(notes)].annotation)

InstanceAttribute(p, c, id, name) ==
    LET declared == DeclaredAttribute(p, c, name)
        inferred == InferredAttribute(p, c, name)
    IN  [SymbolAt(Min(AssignmentsTo(p, c, name)), id \o <<name>>, name, "variable", id) EXCEPT
            !.type = IF declared # None THEN declared ELSE inferred,
            !.inferred = declared = None /\ inferred # None]

InstanceAttributes(p, c) ==
    LET lines == InOrder(p, UNION {Walked(p, f) : f \in Methods(p, c)})
    IN  FlattenSeq([k \in DOMAIN lines |-> AttributesOf(p[lines[k]])])

-----------------------------------------------------------------------------
(* _visit.  pass.symbols are the symbols so far, pass.ids the ids of the   *)
(* module and of the definitions; an id is taken when a symbol has it.     *)
Taken(pass) == {s.id : s \in ToSet(pass.symbols)}

(* _unique: the first free id at or after base.                            *)
Unique(pass, base) ==
    LET candidates == <<base>> \o [n \in DOMAIN Marks |-> base \o <<Marks[n]>>]
    IN  candidates[SelectInSeq(candidates, LAMBDA id : id \notin Taken(pass))]

Prefix(p, pass, i) == pass.ids[EnclosingDefinition(p, i)]

DefinitionSymbol(p, i, id, parent) ==
    LET symbol == SymbolAt(i, id, p[i].name, "class", parent)
    IN  IF p[i].kind = "class" THEN symbol
        ELSE [symbol EXCEPT !.kind = FunctionKind(p, i), !.type = ReturnType(p, i),
                            !.inferred = p[i].returns = None /\ InferredReturn(p, i) # None,
                            !.static = IsStatic(p, i)]

AddDefinition(p, pass, i) ==
    LET parent == Prefix(p, pass, i)
        id == Unique(pass, parent \o <<p[i].name>>)
    IN  [symbols |-> Append(pass.symbols, DefinitionSymbol(p, i, id, parent)),
         ids |-> [d \in DOMAIN pass.ids \cup {i} |-> IF d = i THEN id ELSE pass.ids[d]]]

Define(p, pass, i) ==
    IF p[i].kind \in Definitions /\ Visited(p, i) THEN AddDefinition(p, pass, i) ELSE pass

(* The variables an assignment of a module or a class body binds.          *)
AssignedNames(l) == l.names \o (IF l.kind = "assign" THEN l.unpacked ELSE <<>>)

AssignedVariable(p, i, parent, name) ==
    [SymbolAt(i, parent \o <<name>>, name, "variable", parent) EXCEPT
        !.type = IF p[i].kind = "annassign" THEN AnnotationName(p[i].annotation) ELSE None]

AssignedVariables(p, pass, i) ==
    LET container == EnclosingDefinition(p, i)
        names == AssignedNames(p[i])
    IN  IF /\ p[i].kind \in {"assign", "annassign"} /\ Visited(p, i)
           /\ container = 0 \/ p[container].kind = "class"
        THEN [k \in DOMAIN names |-> AssignedVariable(p, i, Prefix(p, pass, i), names[k])]
        ELSE <<>>

(* The classes that end with line i, an inner one before the one around it.*)
Ending(p, i) ==
    Reverse(InOrder(p, {c \in {i} \cup Above(p, i) :
        p[c].kind = "class" /\ Visited(p, c) /\ Max({c} \cup Inside(p, c)) = i}))

InstanceVariables(p, pass, c) ==
    LET names == InstanceAttributes(p, c)
    IN  [k \in DOMAIN names |-> InstanceAttribute(p, c, pass.ids[c], names[k])]

(* The variables of a line, and after the last line of a class the         *)
(* attributes of its instances.                                            *)
Variables(p, pass, i) ==
    LET ending == Ending(p, i)
    IN  AssignedVariables(p, pass, i)
        \o FlattenSeq([k \in DOMAIN ending |-> InstanceVariables(p, pass, ending[k])])

(* A variable is added once, whatever has its id.                          *)
AddVariable(pass, symbol) ==
    IF symbol.id \in Taken(pass) THEN pass
    ELSE [pass EXCEPT !.symbols = Append(@, symbol)]

VisitLine(p, pass, i) ==
    LET defined == Define(p, pass, i)
    IN  FoldLeft(AddVariable, defined, Variables(p, defined, i))

(* extract_symbols.                                                        *)
ExtractSymbols(p, module) ==
    LET pass[i \in 0 .. Len(p)] ==
            IF i = 0 THEN [symbols |-> <<ModuleSymbol(module)>>, ids |-> [d \in {0} |-> module]]
            ELSE VisitLine(p, pass[i - 1], i)
    IN  pass[Len(p)]
=============================================================================
