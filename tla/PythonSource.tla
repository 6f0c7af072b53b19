---------------------------- MODULE PythonSource ----------------------------
(***************************************************************************)
(* A Python file, as far as the extraction looks at it, and what           *)
(* ingest/python/common.py reads off it.                                   *)
(*                                                                         *)
(* A file p is the sequence of its lines, each with the lines above it     *)
(* that it is part of, the statements and the expressions around it.       *)
(* Expressions have lines of their own, below the statement they are in;   *)
(* decorators, defaults and annotations come before the definition and are *)
(* no part of it, for they are evaluated in the scope around it.  Line 0   *)
(* stands for the module.  The kinds of lines and their fields:            *)
(*                                                                         *)
(*   class      name, bases          function   name, params, returns,     *)
(*   lambda     params                          decorators                 *)
(*   block      names                if, for, while, with, try, match      *)
(*   trystar    names                try with except*                      *)
(*   comp       names                a comprehension                       *)
(*   walrus     names                                                      *)
(*   assign     names, unpacked, deeper, attrs, unpackedAttrs, elsewhere   *)
(*   annassign  names, attrs, annotation                                   *)
(*   augassign  names                global, nonlocal   names              *)
(*   import     level, from, items   return                                *)
(*   expr       root, ops, store, role                                     *)
(*                                                                         *)
(* The targets of an assignment are names and attrs, self.<attr>; the     *)
(* parts of tuples and lists are unpacked and unpackedAttrs, and deeper the*)
(* names that are starred or in a tuple in a tuple.  elsewhere says that   *)
(* there is another target or part, o.x or d[k].  An expression is its     *)
(* root -- a name or an anonymous value -- and the attributes and calls    *)
(* applied to it, in order.  Its lines below are arguments: "arg" and      *)
(* "star" for positional ones of its first call, "value" for the rest.  An *)
(* annotation is the sequence of the arms of its union, X | Y, Union[X, Y] *)
(* and Optional[X] all flattened; None when there is none.                 *)
(***************************************************************************)
EXTENDS Naturals, FiniteSets, Sequences, SequencesExt, FiniteSetsExt

CONSTANT None

Call == "()"        \* the operation of a call
Value == "<value>"  \* the root of an expression that is not rooted at a name
Nil == "<None>"     \* the root of the literal None

-----------------------------------------------------------------------------
Above(p, i) == p[i].above
Inside(p, i) == {j \in i + 1 .. Len(p) : i \in Above(p, j)}
Below(p, i) == {j \in DOMAIN p : Max({0} \cup Above(p, j)) = i}
Innermost(p, i, kinds) == Max({0} \cup {j \in Above(p, i) : p[j].kind \in kinds})

InOrder(p, lines) == FlattenSeq([i \in DOMAIN p |-> IF i \in lines THEN <<i>> ELSE <<>>])

(* scope.SCOPES, and the definitions among them.                           *)
Scopes == {"class", "function", "lambda"}
Definitions == {"class", "function"}

EnclosingScope(p, i) == Innermost(p, i, Scopes)
EnclosingDefinition(p, i) == Innermost(p, i, Definitions)
Params(l) == {l.params[k].name : k \in DOMAIN l.params}
OwnLines(p, s) == {j \in DOMAIN p : EnclosingScope(p, j) = s}

-----------------------------------------------------------------------------
(* dotted_name: the path of a name or an attribute chain rooted at a name. *)
DottedName(e) ==
    IF e.root \in {Value, Nil} \/ Call \in ToSet(e.ops) THEN None ELSE <<e.root>> \o e.ops

(* The value of an assignment or a return: None when it has none.          *)
ValueOf(p, i) ==
    LET values == {j \in Below(p, i) : p[j].kind = "expr" /\ ~p[j].store /\ p[j].role = "value"}
    IN  IF values = {} THEN None ELSE p[Min(values)]

(* The dotted callee of a call, None for any other expression.             *)
Callee(e) ==
    IF e # None /\ e.ops # <<>> /\ Last(e.ops) = Call
    THEN DottedName([e EXCEPT !.ops = Front(@)]) ELSE None

IsNil(e) == e = None \/ (e.root = Nil /\ e.ops = <<>>)

(* annotation_types: the types its arms name, without repeats.  A string   *)
(* names a type; None and containers name none.                            *)
AnnotationTypes(annotation) ==
    LET named == SelectSeq(annotation, LAMBDA arm : arm.form \in {"name", "string"})
        add(types, arm) == IF arm.name \in ToSet(types) THEN types ELSE Append(types, arm.name)
    IN  FoldLeft(add, <<>>, named)

(* _annotation_name (symbols.py): the one type an annotation names.        *)
AnnotationName(annotation) ==
    LET types == AnnotationTypes(annotation) IN IF Len(types) = 1 THEN types[1] ELSE None

-----------------------------------------------------------------------------
(* What an import binds: the local name of each item and what it refers to.*)
LocalName(l, item) ==
    IF item.as # None THEN item.as ELSE IF l.from = None THEN Head(item.name) ELSE Last(item.name)

(* _add_bound with _add_target: the names a line binds, definitions apart. *)
Bound(l) ==
    CASE l.kind = "assign" -> ToSet(l.names \o l.unpacked \o l.deeper)
      [] l.kind \in {"annassign", "augassign", "block", "trystar", "comp", "walrus"} -> ToSet(l.names)
      [] l.kind = "import" -> {LocalName(l, item) : item \in ToSet(l.items)}
      [] OTHER -> {}
=============================================================================
