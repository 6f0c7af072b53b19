------------------------------ MODULE Binding ------------------------------
(***************************************************************************)
(* Name binding of the Python backend (ingest/python/binding.py) over the  *)
(* per-file products of a project (ingest/product.py).                     *)
(*                                                                         *)
(* A project fs is a function from the modules present to their products.  *)
(* A qualified name is the sequence of its dotted components; a module, a  *)
(* symbol id and a written name are all qualified names.  Positions,       *)
(* signatures and documentation are left out of a product.                 *)
(***************************************************************************)
EXTENDS Naturals, Sequences, SequencesExt

CONSTANTS
    FileOrder,  \* every module a project may hold, in the order files are walked
    Builtins,   \* dir(builtins): the root names Python falls back to
    None

Modules == ToSet(FileOrder)

QualName == Seq(STRING)
Name == QualName \ {<<>>}

Kinds == {"module", "class", "function", "method", "variable", "property"}

(* Symbol.  type is the declared or inferred type name of a value, or the  *)
(* return type of a callable; inferred says which of the two it is.        *)
Symbol(parent, name, kind, type) ==
    [id |-> parent \o name, name |-> name, kind |-> kind, parent |-> parent,
     type |-> type, inferred |-> FALSE, static |-> FALSE]

ModuleSymbol(m) ==
    [Symbol(Front(m), <<Last(m)>>, "module", None) EXCEPT
        !.parent = IF Len(m) = 1 THEN None ELSE Front(m)]

(* RawRef, with the defaults of the dataclass.  types are those that a     *)
(* receiver has at this use, may the others that a reassigned one takes.   *)
RawRef(src, kind, name) ==
    [src |-> src, kind |-> kind, name |-> name, local |-> FALSE, types |-> <<>>,
     inferred |-> FALSE, flow |-> FALSE, may |-> <<>>, args |-> <<>>, chain |-> <<>>]

-----------------------------------------------------------------------------
IsList(s) == s \in Seq(ToSet(s))

(* Small sequence helpers: the elements at some places of a sequence, those *)
(* that pass a test, the first of them (None if there is none), and a      *)
(* sequence without its repeats.  They are defined by flattening, which can*)
(* be reasoned about where SelectSeq cannot.                               *)
Picked(s, I) == FlattenSeq([i \in DOMAIN s |-> IF i \in I THEN <<s[i]>> ELSE <<>>])
Matching(s, Test(_)) == Picked(s, {i \in DOMAIN s : Test(s[i])})
FirstMatch(s, Test(_)) == Head(Append(Matching(s, Test), None))

DistinctBy(key(_), s) ==
    Picked(s, {i \in DOMAIN s : \A j \in 1 .. i - 1 : key(s[j]) # key(s[i])})

Distinct(s) == DistinctBy(LAMBDA x : x, s)
Present(s) == Matching(s, LAMBDA x : x # None)
Concat(order, F(_)) == FlattenSeq([i \in DOMAIN order |-> F(order[i])])

-----------------------------------------------------------------------------
(* The tables every pass reads, built from all the files of a project.     *)
(* What there is for each file of a project, in the order of the files.    *)
PerFile(fs, F(_)) == Concat(FileOrder, LAMBDA m : IF m \in DOMAIN fs THEN F(m) ELSE <<>>)

Symbols(fs) == UNION {ToSet(fs[m].symbols) : m \in DOMAIN fs}

Tables(fs) ==
    [fs |-> fs,
     byId |-> LET S == Symbols(fs)
              IN  [id \in {s.id : s \in S} |-> CHOOSE s \in S : s.id = id],
     roots |-> {<<Head(m)>> : m \in DOMAIN fs}]

Known(T, q) == q \in DOMAIN T.byId
KindOf(T, q) == IF Known(T, q) THEN T.byId[q].kind ELSE "none"
Internal(T, q) == <<Head(q)>> \in T.roots

Imported(fs, m, alias) ==
    IF m \notin DOMAIN fs THEN None
    ELSE LET targets == [i \in DOMAIN fs[m].imports |->
                            IF fs[m].imports[i][1] = alias THEN fs[m].imports[i][2] ELSE None]
         IN  FirstMatch(targets, LAMBDA q : q # None)

(* What a root name denotes in a file: its own definition, or an import.   *)
Scope(T, m, root) ==
    LET own == [i \in DOMAIN T.fs[m].symbols |->
                   LET s == T.fs[m].symbols[i]
                   IN  IF s.parent = m /\ s.name = root THEN s.id ELSE None]
    IN  FirstMatch(Append(own, Imported(T.fs, m, root)), LAMBDA q : q # None)

Extended(base, name) == IF base = None THEN None ELSE base \o Tail(name)
Target(T, m, name) == Extended(Scope(T, m, <<Head(name)>>), name)

-----------------------------------------------------------------------------
(* follow_reexports: M.X is an alias of what M imports as X; the walk      *)
(* stops at a known symbol, at a name nothing re-exports, or on a cycle.   *)
Reexport(T, q) == Imported(T.fs, Front(q), <<Last(q)>>)

FollowReexports(T, target) ==
    LET walk[path \in Seq(Name)] ==
            LET at == Last(path)
                next == Reexport(T, at)
            IN  IF Known(T, at) \/ at \in ToSet(Front(path)) \/ next = None
                THEN at ELSE walk[Append(path, next)]
    IN  IF target = None THEN None ELSE walk[<<target>>]

(* A bound name: its target, and whether the target is outside the tree.   *)
Bound(target, external) == [id |-> target, external |-> external]

Classify(T, q) ==
    IF Known(T, q) THEN Bound(q, FALSE)
    ELSE IF Internal(T, q) THEN None
    ELSE Bound(q, TRUE)

BindTarget(T, name, target) ==
    IF target # None THEN Classify(T, FollowReexports(T, target))
    ELSE IF <<Head(name)>> \in Builtins THEN Bound(<<"builtins">> \o name, TRUE)
    ELSE None

Bind(T, m, name) == BindTarget(T, name, Target(T, m, name))

(* resolve_type_name: the class of the tree a type name denotes.           *)
OnlyClass(T, q) == IF KindOf(T, q) = "class" THEN q ELSE None
ResolveTypeName(T, m, name) == OnlyClass(T, FollowReexports(T, Target(T, m, name)))

(* resolve_external_type_name: the qualified name of a type that is        *)
(* genuinely outside the project.                                          *)
OnlyExternal(T, q) == IF q = None \/ Known(T, q) \/ Internal(T, q) THEN None ELSE q

OrBuiltin(target, name) ==
    IF target = None /\ name \in Builtins THEN <<"builtins">> \o name ELSE target

ResolveExternalTypeName(T, m, name) ==
    OnlyExternal(T, FollowReexports(T, OrBuiltin(Target(T, m, name), name)))
=============================================================================
