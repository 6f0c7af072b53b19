----------------------------- MODULE MCResolver -----------------------------
(***************************************************************************)
(* Small projects for the incremental resolver.  Each module has a menu of *)
(* products, written as the Python source they stand for.                  *)
(***************************************************************************)
EXTENDS Relations

Core == <<"core">>
Pkg == <<"pkg">>
App == <<"app">>
A == <<"A">>
D == <<"D">>
go == <<"go">>
part == <<"part">>
make == <<"make">>
use == <<"use">>
x == <<"x">>
run == <<"run">>
self == <<"self">>
Os == <<"os">>
Out == <<"out">>

Product(m, symbols, imports, refs) ==
    [symbols |-> <<ModuleSymbol(m)>> \o symbols, imports |-> imports, refs |-> refs]

Def(parent, name, kind) == Symbol(parent, name, kind, None)
Typed(parent, name, kind, type) == Symbol(parent, name, kind, type)

Import(m, name) == RawRef(m, "import", name)
Call(src, name) == RawRef(src, "call", name)
CallArg(src, name, type) == [RawRef(src, "call", name) EXCEPT !.args = <<type>>]
ChainCall(src, name, members) == [RawRef(src, "call", name) EXCEPT !.chain = members]
ValueCall(src, name, types) ==
    [RawRef(src, "call", name) EXCEPT !.local = TRUE, !.types = types]
ValueRead(src, name, types) ==
    [RawRef(src, "reference", name) EXCEPT !.local = TRUE, !.types = types]
Inherits(class, name) == RawRef(class, "inherits", name)

(* from m import name *)
From(m, name) == <<name, m \o name>>
FromRefs(here, m, name) == <<Import(here, m), Import(here, m \o name)>>

-----------------------------------------------------------------------------
(* core.py: a class A, with or without a member go, as a method or as data.*)
ClassGo == Product(Core, <<Def(Core, A, "class"), Def(Core \o A, go, "method")>>, <<>>, <<>>)
ClassData == Product(Core, <<Def(Core, A, "class"), Def(Core \o A, go, "variable")>>, <<>>, <<>>)
ClassRenamed == Product(Core, <<Def(Core, D, "class"), Def(Core \o D, go, "method")>>, <<>>, <<>>)
Factory == Product(Core,
    <<Def(Core, A, "class"), Def(Core \o A, go, "method"), Typed(Core, make, "function", A)>>,
    <<>>, <<>>)

(* pkg.py: re-exports A, defines its own, derives from it or holds one.    *)
ReExport == Product(Pkg, <<>>, <<From(Core, A)>>, FromRefs(Pkg, Core, A))
OwnClass == Product(Pkg, <<Def(Pkg, A, "class"), Def(Pkg \o A, go, "method")>>, <<>>, <<>>)
Derived == Product(Pkg, <<Def(Pkg, A, "class"), Def(Pkg \o A, run, "method")>>,
    <<<<D, Core \o A>>>>,
    FromRefs(Pkg, Core, A)
        \o <<Inherits(Pkg \o A, D), ValueCall(Pkg \o A \o run, self \o go, <<>>)>>)
Holder == Product(Pkg, <<Def(Pkg, A, "class"), Typed(Pkg \o A, part, "variable", D)>>,
    <<<<D, Core \o A>>>>, FromRefs(Pkg, Core, A))

(* app.py: def use(x): ... in the ways a reference can resolve.            *)
AppOf(imports, importRefs, refs) == Product(App, <<Def(App, use, "function")>>, imports, importRefs \o refs)
UsesPkg(refs) == AppOf(<<From(Pkg, A)>>, FromRefs(App, Pkg, A), refs)

TypedCall == UsesPkg(<<ValueCall(App \o use, x \o go, <<A>>), CallArg(App \o use, use, A)>>)
PartCall == UsesPkg(<<ValueCall(App \o use, x \o part \o go, <<A>>)>>)
UntypedCall == AppOf(<<>>, <<>>, <<ValueCall(App \o use, x \o go, <<>>)>>)
UntypedRead == AppOf(<<>>, <<>>, <<ValueRead(App \o use, x \o go, <<>>)>>)
MadeCall == AppOf(<<<<Core, Core>>>>, <<Import(App, Core)>>,
    <<ChainCall(App \o use, Core \o make, go), ValueCall(App \o use, x \o go, <<Core \o make>>)>>)
(* x is an A here, and elsewhere a D or an os.A.                           *)
Reassigned == AppOf(<<From(Pkg, A), <<D, Core \o A>>, <<Os, Os>>>>, FromRefs(App, Pkg, A),
    <<[ValueCall(App \o use, x \o go, <<A>>) EXCEPT !.flow = TRUE, !.may = <<D, Os \o A>>]>>)

(* os is outside the project; os.out is a value, os.A its class.           *)
LibraryCall == AppOf(<<<<Os, Os>>>>, <<Import(App, Os)>>,
    <<Call(App \o use, Os \o run), Call(App \o use, Os \o Out), Call(App \o use, Os \o Out \o go),
      Call(App \o use, Os \o Out \o run), Call(App \o use, Os \o x \o go),
      ChainCall(App \o use, Os \o make, go \o run), ChainCall(App \o use, Os \o make, go \o go),
      ValueCall(App \o use, x \o go, <<Os \o A>>), Call(App \o use, <<"len">>)>>)

MCFileOrder == <<App, Core, Pkg>>
MCMenu == Core :> {ClassGo, ClassData, ClassRenamed, Factory}
       @@ Pkg :> {ReExport, OwnClass, Derived, Holder}
       @@ App :> {TypedCall, Reassigned, PartCall, UntypedCall, UntypedRead, MadeCall, LibraryCall}
MCBuiltins == {<<"len">>}
MCStubModules == Os :> (
    "run" :> [kind |-> "func", type |-> <<>>] @@ "make" :> [kind |-> "func", type |-> Os \o A]
    @@ "out" :> [kind |-> "value", type |-> Os \o A] @@ "A" :> [kind |-> "class", type |-> Os \o A])
MCStubClasses == (Os \o A) :> ("go" :> [kind |-> "method", type |-> Self])

-----------------------------------------------------------------------------
(* A class that changes its base and nothing else; a caller of the base.   *)
TwoBases(base) == Product(Core,
    <<Def(Core, A, "class"), Def(Core \o A, go, "method"),
      Def(Core, D, "class"), Def(Core \o D, go, "method"), Def(Core, part, "class")>>,
    <<>>, <<Inherits(Core \o part, base)>>)
CallsBase == AppOf(<<From(Core, part)>>, FromRefs(App, Core, part),
    <<ValueCall(App \o use, x \o go, <<part>>)>>)

BaseOrder == <<App, Core>>
BaseMenu == Core :> {TwoBases(A), TwoBases(D)} @@ App :> {CallsBase}

(* `import pkg`, then pkg.core.go(): the name of pkg/core.py is written in *)
(* app.py but not imported there.                                          *)
Sub == Pkg \o Core
Empty(m) == Product(m, <<>>, <<>>, <<>>)
Function(m, name) == Product(m, <<Def(m, name, "function")>>, <<>>, <<>>)
CallsSub == AppOf(<<<<Pkg, Pkg>>>>, <<Import(App, Pkg)>>, <<Call(App \o use, Sub \o go)>>)

SubOrder == <<App, Pkg, Sub>>
SubMenu == App :> {CallsSub} @@ Pkg :> {Empty(Pkg)}
        @@ Sub :> {Function(Sub, go), Function(Sub, run)}

(* `import pkg.x`, an external package until pkg/core.py joins the tree.   *)
CallsSpace == AppOf(<<<<Pkg, Pkg>>>>, <<Import(App, Pkg \o x)>>, <<Call(App \o use, Pkg \o x \o go)>>)

SpaceOrder == <<App, Sub>>
SpaceMenu == App :> {CallsSpace} @@ Sub :> {Function(Sub, go)}

-----------------------------------------------------------------------------
(* The premises of the theorems about edges, of these modules.             *)
ASSUME MCStubsApart ==
    \A m \in Modules : Head(m) # "builtins" /\ \A c \in DOMAIN StubClasses : Head(m) # Head(c)
ASSUME MCModulesApart == \A m \in Modules : ~HasModule(<<Head(m)>>)
ASSUME MCSelfStands ==
    \A m \in Modules : \A p \in Menu[m] : \A r \in ToSet(p.refs) :
        Head(r.name) = "self" => r.may = <<>>
=============================================================================
