------------------------------ MODULE Resolver ------------------------------
(***************************************************************************)
(* The incremental resolver (ingest/python/resolver.py) that a session     *)
(* holds across patches.  A patch rewrites, adds and removes files; the    *)
(* resolver recomputes the edges of the files in its dirty set, reuses the *)
(* cached edges of the others, and flattens both in file order.            *)
(*                                                                         *)
(* The files of a project are those of FileOrder and Padding more, which   *)
(* never change, import nothing and bind to nothing: they count only in    *)
(* len(files).  finalize has made every symbol id unique.                  *)
(***************************************************************************)
EXTENDS TypeResolution

CONSTANTS
    Menu,       \* function: module -> the products a file of that name may have
    Padding,    \* files that take part in nothing but len(files)
    MaxEdits    \* bound on the files one patch rewrites, adds or removes

ASSUME ResolverAssumption ==
    /\ DOMAIN Menu = Modules
    /\ None \notin UNION {Menu[m] : m \in Modules}
    /\ Padding \in Nat /\ MaxEdits \in Nat

(* What extraction leaves of a file: its module's symbol among the others, *)
(* all below its top-level package, imports of dotted names, and           *)
(* references made in the symbols of the file.                             *)
Extracted(m, p) ==
    LET ids == {s.id : s \in ToSet(p.symbols)}
    IN  /\ IsList(p.symbols) /\ IsList(p.imports) /\ IsList(p.refs)
        /\ m \in ids /\ \A q \in ids : q \in Name /\ Head(q) = Head(m)
        /\ \A i \in ToSet(p.imports) : i[2] \in Name
        /\ \A r \in ToSet(p.refs) :
              /\ DOMAIN r = DOMAIN RawRef(r.src, r.kind, r.name)
              /\ r.src \in ids /\ r.name \in Name /\ r.chain \in QualName
              /\ IsList(r.types) /\ IsList(r.may) /\ IsList(r.args)

ASSUME MenuAssumption ==
    /\ IsList(FileOrder)
    /\ \A m \in Modules : \A p \in Menu[m] : Extracted(m, p)

VARIABLES
    cache,      \* IncrementalResolver._cache: [products, recs], None before the first call
    result      \* the ResolveResult of the last call

vars == <<cache, result>>

-----------------------------------------------------------------------------
(* _syntactic_file: the edge a reference binds to without types, if any,   *)
(* with the external node it mints.                                        *)
ImportRefEdge(T, ref) ==
    IF KindOf(T, ref.name) = "module" THEN Edge(ref, ref.name, "syntactic") ELSE None

DecidedEdge(ref, dst, decision) ==
    IF decision.keep THEN Edge(ref, dst, "syntactic")
    ELSE IF decision.target = None THEN None
    ELSE Edge(ref, decision.target, "stub")

BoundEdge(ref, b) ==
    IF b = None THEN None
    ELSE IF ref.chain # <<>>
         THEN IF b.external THEN DecidedEdge(ref, None, Downgrade(CallChain(b.id, ref.chain)))
              ELSE None
    ELSE IF b.external /\ ref.kind \in {"call", "reference"}
         THEN DecidedEdge(ref, b.id, ExternalChain(b.id, ref.kind = "call"))
    ELSE Edge(ref, b.id, "syntactic")

SyntacticEdge(T, m, ref) ==
    IF ref.kind = "import" THEN ImportRefEdge(T, ref)
    ELSE IF ref.local THEN None
    ELSE BoundEdge(ref, Bind(T, m, ref.name))

(* `import a.b` binds a as well: a dependency with no reference of its own.*)
TopNameEdges(T, m, main) ==
    LET seen == {<<e.src, e.dst>> : e \in {x \in ToSet(main) : x.kind = "import"}}
        targets == Distinct([i \in DOMAIN T.fs[m].imports |-> T.fs[m].imports[i][2]])
        isNew(q) == KindOf(T, q) = "module" /\ <<m, q>> \notin seen
        kept == Matching(targets, isNew)
    IN  [i \in DOMAIN kept |-> Edge([src |-> m, kind |-> "import"], kept[i], "syntactic")]

FileRecord(T, m, main) ==
    [main |-> main,
     imports |-> TopNameEdges(T, m, main),
     minted |-> Distinct(Matching([i \in DOMAIN main |-> main[i].dst],
                                   LAMBDA q : ~Known(T, q))),
     values |-> <<>>, intree |-> <<>>, callsite |-> <<>>]

SyntacticFile(T, m) ==
    FileRecord(T, m, Present([i \in DOMAIN T.fs[m].refs |->
                                  SyntacticEdge(T, m, T.fs[m].refs[i])]))

ValueFile(ctx, m, rec) ==
    LET refs == ctx.T.fs[m].refs
    IN  [rec EXCEPT
           !.values = Concat(refs, LAMBDA r : ValueTypeEdges(ctx, m, r)),
           !.intree = Concat(refs, LAMBDA r : InTreeChainEdges(ctx, m, r)),
           !.callsite = Concat(refs, LAMBDA r : ArgEdges(ctx, m, r))]

(* As if the record of a file that is gone stayed in the cache.            *)
SyntacticPassKeeping(T, reuse, dirty) ==
    [m \in DOMAIN T.fs \cup DOMAIN reuse |->
        IF m \in dirty THEN SyntacticFile(T, m) ELSE reuse[m]]

SyntacticPass(T, reuse, dirty) ==
    [m \in DOMAIN T.fs |-> IF m \in dirty THEN SyntacticFile(T, m) ELSE reuse[m]]

ValuePass(ctx, recs, dirty) ==
    [m \in DOMAIN recs |-> IF m \in dirty THEN ValueFile(ctx, m, recs[m]) ELSE recs[m]]

BothPasses(T, recs, dirty) ==
    ValuePass(ResolveIndex(T, PerFile(T.fs, LAMBDA m : recs[m].main)), recs, dirty)

(* _resolve_files: the files of dirty are resolved, the rest reused.       *)
ResolveTables(T, reuse, dirty) == BothPasses(T, SyntacticPass(T, reuse, dirty), dirty)
ResolveFiles(fs, reuse, dirty) == ResolveTables(Tables(fs), reuse, dirty)

(* reassemble: pass by pass, file by file; an external node once.          *)
Reassemble(fs, recs) ==
    LET stubs(m) == Matching(recs[m].values, LAMBDA e : e.via = "stub")
        ext(m) == [i \in DOMAIN stubs(m) |-> stubs(m)[i].dst]
    IN  [edges |-> PerFile(fs, LAMBDA m : recs[m].main)
                   \o PerFile(fs, LAMBDA m : recs[m].imports)
                   \o PerFile(fs, LAMBDA m : recs[m].values)
                   \o PerFile(fs, LAMBDA m : recs[m].intree)
                   \o PerFile(fs, LAMBDA m : recs[m].callsite),
         externals |-> Distinct(PerFile(fs, LAMBDA m : recs[m].minted)
                                \o PerFile(fs, LAMBDA m : ext(m)))]

FullResolve(fs) == ResolveFiles(fs, <<>>, DOMAIN fs)

-----------------------------------------------------------------------------
(* _surface: what the resolution of other files reads of a file.           *)
Surface(p) ==
    [shape |-> [i \in DOMAIN p.symbols |->
                   LET s == p.symbols[i]
                   IN  <<s.id, s.kind, s.parent, s.type, s.inferred>>],
     imports |-> ToSet(p.imports)]

(* As if a member's id told its kind: resolver.py:239-248 says it does not.*)
AttrIdsOnly(p, name) ==
    LET classes == {s.id : s \in {x \in ToSet(p.symbols) : x.kind = "class"}}
        isMember(s) ==
            /\ s.name = name /\ s.parent \in classes
            /\ s.kind \in {"method", "variable", "class", "property"}
        found == Matching(p.symbols, isMember)
    IN  [i \in DOMAIN found |-> found[i].id]

(* _attr_ids: the readable class members of a file that have a name.       *)
AttrIds(p, name) ==
    LET classes == {s.id : s \in {x \in ToSet(p.symbols) : x.kind = "class"}}
        isMember(s) ==
            /\ s.name = name /\ s.parent \in classes
            /\ s.kind \in {"method", "variable", "class", "property"}
        found == Matching(p.symbols, isMember)
    IN  [i \in DOMAIN found |-> <<found[i].id, found[i].kind>>]

(* _dep_modules: every prefix of what a file imports.                      *)
DepModules(p) ==
    LET imported == {i[2] : i \in ToSet(p.imports)}
                        \cup {r.name : r \in {x \in ToSet(p.refs) : x.kind = "import"}}
    IN  UNION {Prefixes(q) : q \in imported} \ {<<>>}

(* _untyped_method_names: the names a file may match heuristically.        *)
UntypedNames(p) ==
    {<<Last(r.name)>> :
        r \in {x \in ToSet(p.refs) :
                  /\ x.local /\ x.chain = <<>>
                  /\ \/ Len(x.name) > 2
                     \/ Len(x.name) = 2 /\ x.types = <<>>}}

(* The files reached from S along the imports of the new project.          *)
Importers(fs, S) == {m \in DOMAIN fs : DepModules(fs[m]) \cap S # {}}

(* As if an import did not carry a change further.                         *)
ImportClosureDirect(fs, S) == S

ImportClosure(fs, S) ==
    LET reach[R \in SUBSET Modules] ==
            IF Importers(fs, R) \subseteq R THEN R ELSE reach[R \cup Importers(fs, R)]
    IN  reach[S]

ProductOf(fs, m) ==
    IF m \in DOMAIN fs THEN fs[m] ELSE [symbols |-> <<>>, imports |-> <<>>, refs |-> <<>>]

(* As if a file that is gone could no longer matter to its importers.      *)
SurfaceChangedInPlace(fs, old, changed, deleted) ==
    {m \in changed : m \notin DOMAIN old \/ Surface(old[m]) # Surface(fs[m])}

(* surface_changed: the files whose importers may bind otherwise.          *)
SurfaceChanged(fs, old, changed, deleted) ==
    deleted \cup {m \in changed : m \notin DOMAIN old \/ Surface(old[m]) # Surface(fs[m])}

(* A file's name counts as changed when the members that have it do.       *)
NameChanged(fs, old, touched, name) ==
    \E m \in touched : AttrIds(ProductOf(fs, m), name) # AttrIds(ProductOf(old, m), name)

DirtySet(fs, old, changed, deleted) ==
    LET surface == SurfaceChanged(fs, old, changed, deleted)
    IN  changed
        \cup Importers(fs, ImportClosure(fs, surface))
        \cup {m \in DOMAIN fs : \E n \in UntypedNames(fs[m]) :
                                    NameChanged(fs, old, changed \cup deleted, n)}

-----------------------------------------------------------------------------
(* An edit of the project between two calls: the files it touches, with    *)
(* their new product, or None for a file removed.  A rewritten file is a   *)
(* new FileIndex, even with the text it had.                               *)
Edits(present) ==
    UNION {{f \in [E -> UNION {Menu[m] : m \in E} \cup {None}] :
               \A m \in E : IF f[m] = None THEN m \in present ELSE f[m] \in Menu[m]} :
           E \in {D \in SUBSET Modules : Cardinality(D) <= MaxEdits}}

Changed(edit) == {m \in DOMAIN edit : edit[m] # None}
Deleted(edit) == DOMAIN edit \ Changed(edit)

Apply(fs, edit) ==
    [m \in (DOMAIN fs \cup Changed(edit)) \ Deleted(edit) |->
        IF m \in DOMAIN edit THEN edit[m] ELSE fs[m]]

HalfOf(fs) == (Cardinality(DOMAIN fs) + Padding) \div 2

Emit(fs, recs) ==
    /\ cache' = [products |-> fs, recs |-> recs]
    /\ result' = Reassemble(fs, recs)

Init == cache = None /\ result = None

FirstResolve(fs) ==
    /\ cache = None
    /\ Emit(fs, FullResolve(fs))

Churn(edit) == Cardinality(DOMAIN edit)

DirtyAfter(fs, edit) == DirtySet(fs, cache.products, Changed(edit), Deleted(edit))

(* Too much has changed, or too much would be recomputed: a full resolve.  *)
FallBack(edit) ==
    /\ cache # None
    /\ LET fs == Apply(cache.products, edit)
       IN  /\ \/ Churn(edit) > HalfOf(fs)
              \/ Cardinality(DirtyAfter(fs, edit)) > HalfOf(fs)
           /\ Emit(fs, FullResolve(fs))

Reuse(edit) ==
    /\ cache # None
    /\ LET fs == Apply(cache.products, edit)
           dirty == DirtyAfter(fs, edit)
       IN  /\ Churn(edit) <= HalfOf(fs)
           /\ Cardinality(dirty) <= HalfOf(fs)
           /\ Emit(fs, ResolveFiles(fs, cache.recs, dirty))

(* The project the session starts on.                                      *)
Projects == UNION {{fs \in [P -> UNION {Menu[m] : m \in P}] : \A m \in P : fs[m] \in Menu[m]} :
                   P \in SUBSET Modules}

Next ==
    \/ \E fs \in Projects : FirstResolve(fs)
    \/ /\ cache # None
       /\ \E edit \in Edits(DOMAIN cache.products) : FallBack(edit) \/ Reuse(edit)

Spec == Init /\ [][Next]_vars

-----------------------------------------------------------------------------
(* A result has the edges of the files present, and names no other file's. *)
ResolverTypeOK ==
    IF cache = None THEN result = None
    ELSE /\ DOMAIN cache.products \subseteq Modules
         /\ \A m \in DOMAIN cache.products : cache.products[m] \in Menu[m]
         /\ DOMAIN cache.recs = DOMAIN cache.products
         /\ DOMAIN result = {"edges", "externals"}

(* resolver.py:361-363: the incremental result is the full one, edge for   *)
(* edge and in the same order, whatever history of patches led to it.      *)
IncrementalIsFull ==
    cache # None => result = Reassemble(cache.products, FullResolve(cache.products))

(* resolver.py:208-209: "A wrong (too-small) dirty set would silently      *)
(* corrupt the graph".  A file outside it would be given the record it has *)
(* by a resolve of the whole new project, with the edges of every pass,    *)
(* whether or not this edit is one that the resolver falls back on.        *)
Undisturbed(old, edit) ==
    LET fs == Apply(old, edit)
    IN  \A m \in DOMAIN fs \ DirtySet(fs, old, Changed(edit), Deleted(edit)) :
            FullResolve(fs)[m] = FullResolve(old)[m]

DirtyCovers ==
    cache # None =>
        \A edit \in Edits(DOMAIN cache.products) : Undisturbed(cache.products, edit)

(* No edge dangles after a patch: it leaves a symbol of the project for    *)
(* another, or for an external node the result lists, whose root is not a  *)
(* package of the project (binding.py _classify).                          *)
EdgesLand ==
    cache # None =>
        LET T == Tables(cache.products)
        IN  \A e \in ToSet(result.edges) :
                /\ Known(T, e.src)
                /\ \/ Known(T, e.dst)
                   \/ e.dst \in ToSet(result.externals) /\ ~Internal(T, e.dst)
=============================================================================
