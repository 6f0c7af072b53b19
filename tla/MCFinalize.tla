----------------------------- MODULE MCFinalize -----------------------------
(***************************************************************************)
(* Two families of projects.  Up to four files that collide in the ways    *)
(* files can: a class and a submodule of one name, a name defined twice in *)
(* a file, a package without __init__, and two files of one module name.   *)
(* And single files in which the names of an import, a class and a local   *)
(* are bound, shadowed, reassigned and used in every two of some           *)
(* statements, in scopes of every kind.                                    *)
(***************************************************************************)
EXTENDS Naming

Line(kind, names) == [depth |-> 0, above |-> {}, kind |-> kind, names |-> names]
Under(lines) == [k \in DOMAIN lines |-> [lines[k] EXCEPT !.depth = @ + 1]]
Nest(line, lines) == <<line>> \o Under(lines)

(* A line is part of a line when all since are deeper than that.           *)
LaidOut(lines) ==
    [i \in DOMAIN lines |-> [lines[i] EXCEPT !.above =
        {j \in 1 .. i - 1 : \A k \in j + 1 .. i : lines[k].depth > lines[j].depth}]]

Expr(root, ops) ==
    <<[depth |-> 0, above |-> {}, kind |-> "expr", root |-> root, ops |-> ops, store |-> FALSE, role |-> "value"]>>
Arg(e) == <<[e[1] EXCEPT !.role = "arg"]>> \o Tail(e)
Star(e) == <<[e[1] EXCEPT !.role = "star"]>> \o Tail(e)
Store(e) == <<[e[1] EXCEPT !.store = TRUE]>> \o Tail(e)
New(class) == Expr(class, <<Call>>)
With(e, args) == e \o Under(args)

Arm(type) == [form |-> "name", name |-> <<type>>]
Param(name, annotation) == [name |-> name, annotation |-> annotation]
Bare(name) == Param(name, None)

NoTarget ==
    [depth |-> 0, above |-> {}, kind |-> "assign", names |-> <<>>, unpacked |-> <<>>, deeper |-> <<>>,
     attrs |-> <<>>, unpackedAttrs |-> <<>>, elsewhere |-> FALSE]
Assign(name, value) == Nest([NoTarget EXCEPT !.names = <<name>>], value)
AssignSelf(attr, value) ==
    Nest([NoTarget EXCEPT !.attrs = <<attr>>], value \o Store(Expr("self", <<attr>>)))
UnpackSelf(attr, value) ==
    Nest([NoTarget EXCEPT !.unpackedAttrs = <<attr>>], value \o Store(Expr("self", <<attr>>)))

(* name = o.x = value, (name, o) = value and (o, *name) = value.           *)
AssignElsewhere(name, value) ==
    Nest([NoTarget EXCEPT !.names = <<name>>, !.elsewhere = TRUE], value \o Store(Expr("o", <<"x">>)))
Unpack(name, value) == Nest([NoTarget EXCEPT !.unpacked = <<name, "o">>], value)
UnpackDeeper(name, value) == Nest([NoTarget EXCEPT !.unpacked = <<"o">>, !.deeper = <<name>>], value)

AnnotateSelf(attr, annotation) ==
    <<[depth |-> 0, above |-> {}, kind |-> "annassign", names |-> <<>>, attrs |-> <<attr>>,
       annotation |-> annotation]>> \o Under(Store(Expr("self", <<attr>>)))
Return(value) == Nest([depth |-> 0, above |-> {}, kind |-> "return"], value)
Annotate(name, annotation) ==
    <<[depth |-> 0, above |-> {}, kind |-> "annassign", names |-> <<name>>, attrs |-> <<>>,
       annotation |-> annotation]>>

Item(name) == [name |-> name, as |-> None]
Import(name) == <<[depth |-> 0, above |-> {}, kind |-> "import", level |-> 0, from |-> None, items |-> <<Item(name)>>]>>
FromImport(level, from, name) ==
    <<[depth |-> 0, above |-> {}, kind |-> "import", level |-> level, from |-> from, items |-> <<Item(<<name>>)>>]>>

DefOf(name, params, decorators, body) ==
    Nest([depth |-> 0, above |-> {}, kind |-> "function", name |-> name, params |-> params, returns |-> None,
          decorators |-> decorators], body)
Def(name, params, body) == DefOf(name, params, <<>>, body)
ClassOf(name, bases, body) ==
    Nest([depth |-> 0, above |-> {}, kind |-> "class", name |-> name, bases |-> bases], body)
Lambda(params, body) ==
    Nest([depth |-> 0, above |-> {}, kind |-> "lambda", params |-> params], body)

-----------------------------------------------------------------------------
Pkg == <<"pkg">>
Helpers == <<"pkg", "helpers">>
Sub == <<"pkg", "helpers", "sub">>

(* Every symbol of these makes a reference.                                *)
Use == Expr("os", <<"path">>)
Run == Def("run", <<>>, Use)
Class == ClassOf("helpers", <<>>, Run \o Use)
SourceFile(m, isInit, p) == [module |-> m, isInit |-> isInit, lines |-> LaidOut(p)]
File(m, p) == SourceFile(m, FALSE, p \o Use)
PackageFile(m, p) == SourceFile(m, TRUE, p \o Use)

Maybe(S) == {<<>>} \cup {<<f>> : f \in S}

Colliding ==
    {a \o b \o c \o d :
        a \in Maybe({PackageFile(Pkg, <<>>), PackageFile(Pkg, Class), PackageFile(Pkg, Class \o Class)}),
        b \in Maybe({File(Sub, Run)}),
        c \in Maybe({File(Helpers, Run), File(Helpers, Run \o Run), File(Helpers, Class)}),
        d \in Maybe({File(Pkg, Run), File(Pkg, Class)})} \ {<<>>}

-----------------------------------------------------------------------------
(* json is imported, User a class, g a function, u a local.                *)
Uses == {
    With(Expr("json", <<"dumps", Call>>), Arg(New("User"))),
    With(Expr("g", <<Call>>), Star(Expr("u", <<"name">>)) \o Arg(New("User"))),
    Expr("json", <<"tool", "main">>),
    Expr("User", <<Call, "save", Call>>),
    Expr("u", <<"save", Call>>),
    Expr("u", <<"get", Call, "run", Call>>)}

Shadows == {
    Assign("json", Expr(Value, <<>>)),
    <<Line("walrus", <<"User">>)>>,
    <<Line("block", <<"json">>)>>,
    <<Line("augassign", <<"u">>)>>}

DefinedAgain == {
    Import(<<"json">>),
    Def("json", <<>>, <<>>),
    ClassOf("User", <<<<"User">>>>, Use)}

Typings == {
    Assign("u", New("User")),
    Assign("u", New("User")) \o Expr("u", <<"save", Call>>) \o Assign("u", New("Post")),
    Nest(Line("block", <<>>), Assign("u", New("Post"))),
    Annotate("u", <<Arm("User"), Arm("Post")>>),
    Annotate("u", <<Arm("User")>>)}

Nestings == {
    Lambda(<<Bare("User")>>, New("User")),
    Lambda(<<Bare("v")>>, Expr("u", <<"save", Call>>)),
    Nest(Line("comp", <<"json">>), Expr("json", <<"dumps", Call>>)),
    Nest(Line("comp", <<"u">>), Expr("u", <<"save", Call>>))}

(* An assignment with other targets than names, in a body that uses it.    *)
Spreads == {
    AssignElsewhere("u", New("User")),
    Unpack("u", New("User")),
    UnpackDeeper("u", New("User")),
    UnpackDeeper("json", Expr(Value, <<>>))}

Spreading(t, b) == {
    t \o b,
    Def("f", <<>>, t \o b),
    Def("f", <<>>, b \o Assign("u", New("User")) \o t \o b),
    ClassOf("K", <<>>, t \o Def("m", <<Bare("self")>>, b))}

(* One union in two orders, and an import between two constructions.       *)
Reordered(b) == {
    Def("f", <<>>, b \o Annotate("u", <<Arm("User"), Arm("Post")>>)
                     \o Annotate("u", <<Arm("Post"), Arm("User")>>)),
    Def("f", <<>>, b \o Assign("u", New("User")) \o Import(<<"u">>) \o b
                     \o Assign("u", New("User")))}

ClassLevel == Uses \cup Shadows \cup Typings
Locals == ClassLevel \cup DefinedAgain \cup Nestings

(* The scope or the scopes of two statements.                              *)
InFunction(a, b) == {
    Def("f", <<>>, a \o b),
    Def("f", <<Param("u", <<Arm("User")>>)>>, a \o b),
    Def("f", <<Bare("json")>>, a \o b),
    Def("f", <<>>, <<Line("global", <<"json", "User">>)>> \o a \o b)}
InTwoFunctions(a, b) == {
    Def("f", <<>>, a \o Def("h", <<>>, b)),
    Def("f", <<>>, Def("h", <<Bare("u")>>, b) \o a)}
SharedByTwo(a, b) == Def("f", <<>>, a \o Def("h", <<>>, <<Line("nonlocal", <<"u">>)>> \o b))
InMethod(a, b) == ClassOf("K", <<<<"User">>>>, a \o Def("m", <<Bare("self")>>, b))
InClass(a, b) == ClassOf("K", <<>>, a \o b)
InClassOfFunction(a, b) == Def("f", <<>>, a \o ClassOf("K", <<>>, b))
DefinedTwice(a, b) == {
    Def("f", <<>>, a) \o Nest(Line("block", <<>>), Def("f", <<>>, b)),
    Assign("f", Expr(Value, <<>>)) \o ClassOf("f", <<>>, Def("f", <<>>, a) \o Def("f", <<>>, b))}

Frames ==
    UNION {Spreading(t, b) \cup Reordered(b) : t \in Spreads, b \in Uses}
    \cup ({SharedByTwo(a, b) : a \in Typings, b \in Uses}
    \cup ({InClassOfFunction(a, b) : a \in Locals, b \in Uses \cup Shadows}
    \cup ({InClass(a, b) : a \in ClassLevel, b \in ClassLevel}
    \cup ({InMethod(a, b) : a \in ClassLevel, b \in Locals}
    \cup UNION {InFunction(a, b) \cup InTwoFunctions(a, b) : a \in Locals, b \in Locals}))))

Duplicated ==
    UNION {DefinedTwice(a, b) : a \in Uses \cup DefinedAgain, b \in Uses \cup DefinedAgain}

(* What the methods of a class make of self.x, and what they return.       *)
OnSelf == {
    AssignSelf("x", New("User")),
    AssignSelf("x", Expr("models", <<"Post", Call>>)),
    AssignSelf("x", Expr(Nil, <<>>)),
    AssignSelf("x", Expr("u", <<>>)),
    UnpackSelf("x", New("User")),
    Nest(Line("block", <<>>), AssignSelf("x", New("Post"))),
    AnnotateSelf("x", <<Arm("User"), Arm("Post")>>),
    AnnotateSelf("x", <<[form |-> "string", name |-> <<"User">>]>>),
    Def("h", <<>>, AssignSelf("x", New("Post")) \o Return(New("Post"))),
    Return(New("User")),
    Return(New("Post")),
    Return(Expr(Nil, <<>>)),
    Assign("x", Expr(Value, <<>>))}

Members ==
    UNION {
      {Def("m", <<Bare("self")>>, a \o b),
       Def("m", <<Bare("self")>>, a) \o Def("n", <<Bare("self"), Bare("User")>>, b),
       Def("m", <<Bare("self")>>, a)
           \o DefOf("m", <<Bare("self")>>, <<<<"staticmethod">>>>, b),
       b \o DefOf("x", <<Bare("self")>>, <<<<"functools", "cached_property">>>>, a)}
      : a \in OnSelf, b \in OnSelf}

Prologues == {
    Import(<<"json">>) \o FromImport(1, <<"models">>, "User") \o Def("g", <<>>, <<>>),
    ClassOf("User", <<>>, Def("save", <<>>, <<>>)) \o Import(<<"json", "tool">>)
        \o FromImport(3, <<"lost">>, "User")}

(* A comprehension over a name that is declared, or assigned twice, is     *)
(* among what the properties do not hold of.                               *)
ComprehendsTyped(p) ==
    /\ \E l \in ToSet(p) : l.kind = "comp" /\ l.names = <<"u">>
    /\ \/ \E l \in ToSet(p) : \/ l.kind = "annassign"
                              \/ l.kind = "function" /\ \E x \in ToSet(l.params) : x.annotation # None
       \/ Cardinality({i \in DOMAIN p : p[i].kind = "assign"}) > 1

(* With the package around the file, finalisation leaves it as it is.      *)
Empty == PackageFile(Pkg, <<>>)
SingleFiles(programs) == {<<Empty, SourceFile(Helpers, FALSE, p)>> : p \in programs}

MCPrograms ==
    Duplicated
    \cup ({ClassOf("K", <<>>, q) : q \in Members}
    \cup {p \o q : p \in Prologues, q \in {f \in Duplicated \cup Frames : ~ComprehendsTyped(f)}})

MCProjects == Colliding \cup SingleFiles(MCPrograms)

-----------------------------------------------------------------------------
(* What the properties do not hold of: a comprehension over a name the     *)
(* function gives a type, a class that binds such a name anew, a class     *)
(* body that defines the name of an import, a definition inside try with   *)
(* except*.                                                                *)
Comprehending == SingleFiles({f \in Frames : ComprehendsTyped(f)})

Rebinding ==
    SingleFiles({Def("f", <<>>, Assign("u", New("User")) \o
                     ClassOf("K", <<>>, Assign("u", New("Post")) \o a)) : a \in Uses})

ClassBodies ==
    SingleFiles({Import(<<"json">>) \o ClassOf("K", <<>>, a \o b) : a \in DefinedAgain, b \in Uses})

ExceptStar ==
    SingleFiles({Nest(Line("trystar", <<>>), Def("f", <<>>, a)) : a \in Uses})

(* No project has more symbols.                                            *)
MCMarks == <<"#2", "#3", "#4", "#5", "#6", "#7", "#8", "#9", "#10", "#11", "#12", "#13", "#14">>

-----------------------------------------------------------------------------
(* Premises of theorems, for the projects here.  ByPython is what the      *)
(* configurations say: they give Parse the value ParseFile.                *)
ASSUME MCFromFiles == FromFiles
ASSUME MCNoExceptStar == Projects = ExceptStar \/ NoExceptStar
=============================================================================
