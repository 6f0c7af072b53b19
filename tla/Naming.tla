------------------------------- MODULE Naming --------------------------------
(***************************************************************************)
(* What extraction says of a name against what Python means by it:         *)
(* properties of the products that it hands to finalisation.               *)
(***************************************************************************)
EXTENDS Indexing

Python == INSTANCE PythonScoping
Binder == INSTANCE Binding WITH FileOrder <- <<>>, Builtins <- {}

(* What binding.py takes a root name of a file for.                        *)
Meaning(file, root) == Binder!Scope([fs |-> [m \in {file.module} |-> file]], file.module, <<root>>)

(* What the one line that binds a name in the module makes of it.          *)
MadeBy(file, j, root) ==
    IF file.source[j].kind = "import"
    THEN {entry[2] : entry \in {e \in ToSet(file.imports) : e[1] = <<root>>}}
    ELSE {s.id : s \in {s \in ToSet(file.symbols) : s.at = j}}

BindsLikePython(file, i, root) ==
    LET binders == Python!Binders(file.source, 0, root)
    IN  /\ Python!DefinedByModule(file.source, i, root)
        /\ binders = {} => Meaning(file, root) = None
        /\ \A j \in binders : binders = {j} => Meaning(file, root) \in MadeBy(file, j, root)

(* refs.py:32-33: no edge rather than a confidently wrong one.  A name     *)
(* that is left to syntactic binding, and a class that a call is said to   *)
(* pass, is by Python's own rules what the module defines or imports.      *)
NothingForged ==
    \A file \in Extracted : \A r \in ToSet(file.refs) :
        ~r.local /\ r.kind # "import" =>
            /\ BindsLikePython(file, r.at, Head(r.name))
            /\ \A class \in ToSet(r.args) \ {None} : BindsLikePython(file, r.at, Head(class))

(* refs.py:6-9, scope.py:181: the types a receiver is given are those that *)
(* Python binds its name to where it is used.  They come from the scope    *)
(* the name belongs to; an inferred one is all that scope binds it to, by  *)
(* the class of the module, and never by a part of a value; that of a      *)
(* reassigned local never reaches a nested function, which runs at another *)
(* time.                                                                   *)
Given(p, j, name) ==
    IF p[j].kind = "assign"
    THEN IF name \in ToSet(p[j].unpacked \o p[j].deeper) THEN {} ELSE {Callee(ValueOf(p, j))}
    ELSE IF p[j].kind = "annassign" THEN ToSet(AnnotationTypes(p[j].annotation))
    ELSE {}

OnEntry(p, s, name) ==
    IF s # 0 /\ p[s].kind = "function" THEN ParamTypes(p[s], name) ELSE {}

TypesHonest ==
    \A file \in Extracted : \A r \in {r \in ToSet(file.refs) : r.types \cup r.may # {}} :
        LET p == file.source
            name == Head(r.name)
            s == Python!Denotes(p, r.at, name)
            given == {Given(p, j, name) : j \in Python!Binders(p, s, name)}
        IN  /\ r.types \cup r.may \subseteq UNION given \cup OnEntry(p, s, name)
            /\ r.inferred /\ ~r.flow => given = {r.types}
            /\ r.inferred => \A class \in r.types \ OnEntry(p, s, name) :
                                Python!DefinedByModule(p, r.at, Head(class))
            /\ r.flow => s = Innermost(p, r.at, {"function", "lambda"})

(* symbols.py:291-297: an inferred type is that of every value the member  *)
(* is given in the methods of its class, or the function returns; a class  *)
(* named like a parameter is not meant.                                    *)
AssignsMember(p, c, name, j) ==
    LET f == EnclosingScope(p, j)
    IN  /\ p[j].kind = "assign" /\ name \in ToSet(p[j].attrs \o p[j].unpackedAttrs)
        /\ f # 0 /\ p[f].kind = "function" /\ EnclosingScope(p, f) = c /\ ~IsStatic(p, f)

Gives(p, s, container, j) ==
    IF s.kind = "variable" THEN AssignsMember(p, container, Last(s.name), j)
    ELSE p[j].kind = "return" /\ EnclosingScope(p, j) = s.at

MembersHonest ==
    \A file \in Extracted : \A s \in {s \in ToSet(file.symbols) : s.inferred} :
        LET p == file.source
            container == (CHOOSE d \in ToSet(file.symbols) : d.id = s.parent).at
            given == {j \in DOMAIN p : Gives(p, s, container, j)}
        IN  /\ \A j \in given : IsNil(ValueOf(p, j)) \/ Callee(ValueOf(p, j)) = s.type
            /\ s.kind = "variable" => \A j \in {j \in given : ~IsNil(ValueOf(p, j))} :
                   /\ Last(s.name) \notin ToSet(p[j].unpackedAttrs)
                   /\ ~Python!HasParam(p, EnclosingScope(p, j), Head(s.type))
=============================================================================
