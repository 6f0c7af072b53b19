# A verification project for claude-ast

claude-ast indexes a Python project into a graph of symbols and confidence-graded edges and serves
it to a coding assistant, from the command line or as a long-lived MCP server that a file watcher
keeps up to date. This directory holds TLA+ models of the parts where being wrong is easy and a
test is unlikely to notice: what is fresh and what is stale while files change under a running
server, what several processes do to one snapshot database, which edges a patch recomputes, how
ids are made unique, how a member is looked up through base classes, which names the extraction
leaves to syntactic binding, and what the type of a variable is said to be. TLC checks them on small instances; TLAPS proves the central
properties for every instance.

Paths below are relative to `src/claude_ast/`.

## 1. The system

| Part | State it keeps | Operations | Talks to |
|---|---|---|---|
| Session (`index.py` IndexSession) | `_cache` (path -> stamp, product), `current` | construct, `patch` | snapshot (load only), ingest walk, assembly |
| Watcher (`watch/watcher.py`) and server (`server/`) | the watch registration, one daemon thread | one `patch` per batch of changes; tools read `current` | session |
| Ingest walk (`ingest/project.py`, `base.py`) | the result under construction | list, stat, compare stamps, read, parse, reuse | disk, `_cache`, backend |
| Snapshot (`store/sqlite.py`, `serialize.py`), `Index.build` | one SQLite file, shared by processes | ensure schema, load, upsert, delete, close | ingest walk |
| Finalisation (`ingest/python/finalize.py`) | ids taken so far | two passes over all files | assembly |
| Incremental resolver (`resolver.py`) | last products and edges of each module | full resolve, dirty set, partial resolve, reassembly | binding, type resolution |
| Binding (`binding.py`), tables (`resolve_index.py`), type resolution (`typeres.py`, `callsite.py`), chains and stubs | none: functions of the files | the ladder from a reference to edges | -- |
| Extraction (`symbols.py`, `refs.py`, `scope.py`, `flow.py`) | none: functions of one AST | symbols, references, scopes, the reassignment view | -- |
| Graph (`model/graph.py`), queries (`query/`) | symbols, edges, adjacency | add (one writer, before publication), look up | server, CLI |

A build is: list the files, reuse or parse each, finalise ids over all of them, add the symbols to
a graph, resolve all references to edges, add those, publish. A session repeats this at every
patch, with the products of unchanged files reused as the same objects, which is also how the
resolver recognises them.

What is hard, part by part (PROJECT.json lists each hazard at its line, with the properties that
cover it):

* *Concurrency with the disk.* A file can change between the listing and its stat, between its stat
  and its read, after its turn in the walk, and before the watch is registered.
* *Concurrency of processes.* Builds and sessions of one repository share the snapshot; schema
  statements commit one by one; a build can be interrupted or killed half way through a save.
* *Caches.* Stamp equality stands for text equality; object identity stands for an unchanged
  product; a dirty set stands for "everything whose edges can differ".
* *Order.* Edges, name-match candidates and suffixes depend on the order of files and symbols.
* *Graphs with cycles and diamonds.* Base classes, re-exports, the module tree.
* *Scopes within scopes.* A name can be a parameter, a loop target, an import, a nested definition, a
  global declared elsewhere; the program must say less rather than say something wrong.

## 2. The modules

| Module | Models | State and actions |
|---|---|---|
| `Ingest` | `ingest_project` and the disk it walks | `disk`, `clock`; per walker `pc`, the files still to visit, the result (`files`, `fresh`, `present`), `cache`, and the history `seen` of the products a file has had since the walk began. `BeginIngest`, `StatVanished`, `StatReuse`, `StatChanged`, `ReadParsed`, `ReadSkipped`, `ReadRaises`: the stat and the read of one file are separate steps. |
| `Session` | IndexSession, `run_watcher`, `server.main` | EXTENDS Ingest. Load of a snapshot, first build, watch registration, batches, fold into the cache, publication, an exception out of `patch`, stop; edits and deletions at any step. |
| `Snapshot` | SqliteStore and `Index.build`, any number of processes | EXTENDS Ingest. The statements of `_ensure_schema` one by one, load, the transaction of a save (lock, upserts, pruning, commit), interrupt, kill. |
| `Binding` | `binding.py` | Operators: a file product, `Bind`, `FollowReexports`, `ResolveTypeName`, over the tables of `_base_tables`. |
| `Chains` | `chains.py` over `stubs.py` | EXTENDS Binding. Operators: the walk of a dotted name outside the project through modules, values and types, and its verdict. |
| `TypeResolution` | `typeres.py`, `resolve_index.py`, `callsite.py` | EXTENDS Chains. Operators: the tables, and the edges of each reference kind; a reassigned receiver has two sets of arms, the types live at the use and the others. |
| `Resolver` | `resolver.py` | EXTENDS TypeResolution. `cache`, `result`; `FirstResolve`, `FallBack` (too much churn, or too large a dirty set), `Reuse` (recompute the dirty set only). |
| `Relations` | `relations.py` | The queries and the account of what their dials hide, over `result.edges`. An answer is the set of the places of its edges in that list, so that two equal edges count twice. |
| `MemberLookup` | `_member_lookup` step by step | The stack, the visited classes, the definitions met; `Skip`, `Hit`, `Climb`, `Return`. |
| `IndexService` | what the server promises, without walk, cache, stamps or threads | `content`, `served`, `refreshing`, `window`, `behind`; `Change`, `Begin`, `Refresh`, `Settle`, `Fail`, `Stop`. `Session` implements it. |
| `PythonSource` | a file as the extraction sees it, and `common.py` | Operators on a sequence of lines: what is inside what, dotted names, annotations, what a line binds. |
| `FlowTypes` | `flow.py` and the gate of `scope.py` | Operators on the body of a function: the types of one variable before each statement. |
| `Scopes` | `scope.py` | EXTENDS PythonSource, FlowTypes. The locals of each scope, the type of a local in a scope and at a statement. |
| `SymbolPass` | `symbols.py` | The symbols of a file and the ids of its definitions, with declared and inferred types: by recursion over the lines, for each a definition and then its variables. |
| `RefPass` | `refs.py` | EXTENDS Scopes. The references of a file, with the types handed down from scope to scope, and its import map. |
| `Extraction` | the product of a file | EXTENDS SymbolPass, RefPass: `ParseFile`. |
| `PythonScoping` | Python's own rules | What a name denotes, by the language; used by properties only. |
| `Finalize` | `ensure_unique_ids` step by step | Starts from sources, which the constant operator `Parse` turns into products. `seen`, the module ids, the symbols reformed so far; `ReserveModule`, `ReformSymbol`, `FinishFile`, `ReturnUntouched`. |
| `Graph` | `add_symbol`, `_assemble`, `outline` | Operators on the sequence of the symbols added. |
| `Indexing` | from source to outline | EXTENDS Finalize, Graph; an instance of Extraction. What the sources of a project are, for the proofs; where references are made from; the graph of a finished project and its outline: premises and properties only. |
| `Naming` | what a name means, to the code and to Python | EXTENDS Indexing; instances of PythonScoping and Binding: properties only. |
| `Flow` | a run of a function beside its analysis | EXTENDS FlowTypes. The run (`RunSimple`, `EnterBlock`, `RunArm`, `RepeatBlock`, `LeaveBlock`) is Python's. |
| `IngestProofs`, `SessionProofs`, `SnapshotProofs`, `ResolverProofs`, `MemberLookupProofs`, `FinalizeProofs`, `FlowProofs` | -- | The theorems (section 5). |
| `RecursionTheorems` | -- | Lemmas on recursive functions, folds and flattening, which those proofs cite. |
| `MC*` | -- | The instances for TLC. |

`Ingest` is shared: a session and a build run the same walk. `Session` starts from an *honest*
snapshot -- a row whose stamp is the file's holds the file's product -- and that is what `RowsHonest`
of `Snapshot` shows every committed state of the database to be, so the two compose. `Resolver`
receives products whose ids are unique, which is `UniqueIds` of `Finalize`; and its `MemberLookup`
operator is the function that `AnswersNearest` shows the walk to compute. `Finalize` starts from what
`Extraction` makes of sources, and `NothingForged` asks `Binding` what it takes the extracted names for.

### The session as a service

`Session!Service` maps the session to `IndexService`: the content is what a read of each file would
give now, the served view is `current`, a refresh is a walk with its publication, the window of a file is
the history of products it has had since that walk began, and the service is behind unless a live watcher
holds no change. Registration of the watch is `Settle`: it promises that from here on no change goes
unnoticed, which is why it must not come after an unseen edit. An exception out of `patch` is `Fail`. A
reader of `IndexService` alone learns what a query may rely on: whole views, each file as it was while
the view was made, and the files as they are whenever nothing is pending.

### What is abstracted

* A *product* in `Ingest`, `Session` and `Snapshot` is the text it was parsed from, or none for a
  text that does not parse: two texts have different products. In `Resolver` it is the symbols,
  imports and references themselves, and the text is gone.
* A *stamp* is (mtime, size). `Size` is a constant function of the text; the clock ticks with each
  write. `FineClock` says that two writes never share an mtime.
* The directory listing, one `read_bytes`, one SQLite statement are atomic. So is the body of
  `_rebuild` after the walk: it touches only the session's own memory, and readers see it through one
  assignment.
* `watchfiles` is external: it remembers whether anything changed since it last yielded
  (`changed`), and yields when something did.
* SQLite is external: one write lock, a transaction that rolls back when its process dies. Lock
  waits are shorter than the busy timeout.
* Names are sequences of components. A suffix `#2` is a component of its own.
* `TypeResolution` leaves out the source positions of references; which types a reassigned receiver
  has at a use is part of a reference there, and the subject of `Flow` and `RefPass`. The stub tables are
  constants.
* A source file is the sequence of its lines, each with the set of lines above it that it is part of. A line is a
  definition, a statement that binds names, an import, or an expression. An expression is a root, a name or an
  anonymous value, with the attributes and calls applied to it; its arguments are lines of their own. An annotation
  is the sequence of the arms of its union. The types of a receiver are a set: the order of the arms is left
  out. So are signatures, first lines of documentation and positions.
* `Parse` is a constant operator of `Finalize`, so that what is said of the pass does not depend on what is
  extracted; the instance gives it `ParseFile`.
* `FlowTypes` takes one variable at a time. What the scope says of it is passed in, as `base` is to `flow_types`: `Scopes` computes it for a file, `Base` for a bare function. A nested function has a scope and an analysis of its own and is given
  nothing of a reassigned local around it; `RefPass` has that step.

## 3. The runs

| Run | Instance | What it shows |
|---|---|---|
| `session` | two files, three texts (one does not parse), two writes, deletions and restarts unbounded; one million states | A cache entry whose stamp is the file's holds its product (`CacheHonest`); when the watcher is alive and idle with nothing pending, the served index is that of the disk (`QuiescentFresh`); a published index gives each file a product the file had since the patch began, so never one older than what was already served (`PublishesRecent`). All of it together, deletions and restarts included, is the abstract service (`ImplementsService`); no text here makes the extractor raise, which is for `session_live` and, with any texts, for the theorems of section 5. |
| `session_live` | one file, four texts (one does not parse, one makes the extractor raise), three writes | If edits stop and the watcher is alive, the served index becomes that of the disk (`EventuallyFresh`). |
| `snapshot` | one file, two builds of one version, two writes, interrupts and kills | No committed row lies, a build gives products its files had while it ran, and the builds do not make each other's statements fail. |
| `snapshot_alone` | two files, three texts, one build on a database of the version before | Rows are of the version the database says; an undisturbed build leaves exactly the current rows (`UndisturbedExact`, an action property of `Close`). |
| `resolver` | three modules with menus of four, four and seven products, two padding files, patches of one or two files | The dirty set of every possible patch has every file whose record it changes, also where the code would fall back to a full resolve (`DirtyCovers`); the incremental result is the full one, in the same order (`IncrementalIsFull`); and every edge ends at a symbol or an external node of the result (`EdgesLand`). Over these edges, turning a dial of a query gives back as many results as `suppression` said (`SuppressionIsActionable`); splitting a reassigned receiver by the use changes the mode its targets are shown in, never the targets (`WideningIsUnion`); no definite edge goes beyond a value of a library (`DefiniteIsNamespace`). |
| `member_lookup` | all acyclic hierarchies of four classes, all graphs of three classes with at most two bases each, all sets of definers | The walk ends, with the nearest definition, and never with another than the one the C3 order finds first. |
| `finalize` | 94 projects of up to four files that collide in every way files can, and some 8,600 single files of up to three nested scopes | Ids are unique, module names survive, references follow, the tree stays whole, untouched files are the same; in the graph built from the result every symbol hangs from a top module and the outline shows any focus exactly once. Of what is extracted: a name bound syntactically is, by Python's rules, what the binding takes it for (`NothingForged`); a reference starts at the definition it stands in, whatever the redefinitions (`SourcesEnclose`); the types of a receiver are ones Python binds it to, and an inferred type is all it is bound to (`TypesHonest`); so is the inferred type of a member or of a return (`MembersHonest`). |
| `flow` | all bodies of three statements over two classes, and all paths through them | A use is given the class the variable holds: exactly on a straight line (`ViewExact`), among the alternatives in general (`NothingMissed`). |
| `session_early_edit`, `snapshot_cold_start`, `resolver_base_edit`, `flow_branch` | -- | Violations; section 4. |

Bounds, and why they are enough. Two files let a walk be overtaken on either side of the file it is
at; a third would only repeat one of the two. Two writes give a file an old, a new and a newest
text, so a stale entry can be wrong in both directions. `HeuristicCap = 1` puts the name-match cap
(8 in the code) within reach of two classes. `Padding = 2` adds files that refer to nothing, so that
a patch of one or two of the three modules stays under the half of the project at which the
resolver falls back to a full resolve; without them `Reuse` would never fire. A diamond needs four
classes, a cycle that is not a self-loop two, and three let a cycle have a way in and a way out.
Three statements are an assignment, a reassignment and a use, in any order. The single files are every pair of
statements out of some twenty -- six uses, four ways to shadow, three to define again, five to give a type, four nested
scopes -- in every arrangement of function, parameter, class, method, nested function, `global` and `nonlocal`:
a shadow and a use, in the same scope or in two, is what each of these properties is about, and the third
scope is the module's.

Fairness. `Session` assumes weak fairness of `System`, the steps of the server's own threads: the
watcher thread is a plain loop with nothing to wait for but the walk, and `watch` yields after a
change. Nothing is assumed of edits, and none of deliveries beyond that. `EventuallyFresh` is
conditional on the watcher being alive. `MemberLookup` assumes weak fairness of `Next`: a function
call runs to its end.

`CHECK_DEADLOCK FALSE` is given where the system stops: a server that was stopped, a database with no
process on it and no write left, a function that has returned. `resolver` is checked for deadlock.

## 4. What the code does otherwise

Checked (each has a run with TLC's counterexample; each was also reproduced against the program):

* **An edit before the watch is lost** (`session_early_edit`). `server/__main__.py` builds the index,
  then starts the watcher thread. An edit in between is reported by nobody. The documentation says
  a query is never stale.
* **Two processes on a new database** (`snapshot_cold_start`). The version check and the three
  statements that recreate the table are not one transaction; one of the processes fails.
* **A class that changes its base** (`resolver_base_edit`). The dirty set compares the symbols and
  imports of a file, and a base list is neither: files that look members up through the class keep
  their old edges.
* **The type a variable enters with** (`flow_branch`). A reassignment in a branch hides the type of the
  parameter, also from uses before the branch.

Kept as configurations beside the runs, to be run by hand; TLC finds each violated:

| Configuration (module) | Property | What happens |
|---|---|---|
| `SessionCoarseClock.cfg` (MCSession) | QuiescentFresh | Two writes of one size within one tick of the clock share a stamp, and the first product is served for the second text. |
| `SessionRaising.cfg` (MCSession) | NeverStaleForGood | An exception other than OSError and SyntaxError (RecursionError for a sum of some 1500 terms) ends the watcher thread; the repair of the file is not noticed either. |
| `SnapshotUpgrade.cfg` (MCSnapshot) | RowsOfVersion | A build of the version before, under way during the schema bump, commits its rows under the new version. |
| `ResolverSub.cfg` (MCResolver) | IncrementalIsFull | `import pkg` and a use of `pkg.core.go`: a change of pkg/core.py does not reach the file. |
| `ResolverSpace.cfg` (MCResolver) | IncrementalIsFull | The first module under a root that was external: a file that imports another name of that root keeps its external edge. |
| `FinalizeDuplicate.cfg` (MCFinalize) | DefsForEveryFile | pkg.py beside pkg/\_\_init\_\_.py: the table of top-level names loses those of one of them, and edges with them. |
| `FinalizeClassBody.cfg` (MCFinalize) | NothingForged | A class body that imports or defines a name anew: the names of definitions and imports there are not among those that shadow, so a use in the body is bound to the module's. |
| `FinalizeComprehension.cfg` (MCFinalize) | TypesHonest | A comprehension over a name that the function declares or reassigns: the target is given the type of the function's local. |
| `FinalizeRebinding.cfg` (MCFinalize) | TypesHonest | A class inside a function that assigns a name the function has a type for: uses in the class body keep the outer type, though refs.py:158 says that a scope that rebinds a name drops it. |
| `FinalizeExceptStar.cfg` (MCFinalize) | SourcesEnclose | A definition inside `try` with `except*` gets no symbol; references in its body have a source that does not exist. |
| `Flow.cfg` with `Programs <- WalrusPrograms` (MCFlow) | ViewExact | `y = (x := f())` rebinds x, and x keeps the type of its last assignment statement. |
| `Flow.cfg` with `Programs <- BarePrograms` (MCFlow) | ViewExact | An unannotated parameter is given, before its first assignment, the type that a later assignment infers. |

The passing runs leave out exactly these: `FineClock`, no edits before registration
(`EarlyEdits = FALSE`), one version of the code, no cold start beside another process, no change of a
base list alone, no dotted use of a submodule, no change of the set of roots, no walrus at the top
level, no reassignment of an annotated parameter in a branch, no comprehension over a typed local, no class body that
binds anew what is typed or imported outside, no `except*`. With them in, the properties fail as
above; without them, they hold over everything else in the instance.

The sources of `finalize` also leave out some forms that the models have and the properties would not survive,
all of one kind -- a value is taken for what its name says in the module, or for the only one -- and none with a
configuration of its own: a local class of the name that a `return` constructs; `self.x` assigned by `+=`, `for` or `with`, or to a local
of the method named like a class; a global that another function rebinds with `global`; a local that a nested function rebinds
with `nonlocal`; a walrus inside a lambda; an annotation that names a shadowed class; an unannotated parameter constructed later
(which `BarePrograms` of MCFlow has).

## 5. What is proved

`IngestProofs` holds what is true of a walk for any set of walkers, and so for sessions and builds alike: the types; that
what a walker holds is *sound* (`WalkersSound`: an entry with the stamp of its file has the product of its file, and no held
stamp is ahead of the clock); and that what a walk took of a file is in the history of that file since the walk began
(`WalkersSeen`), for a reused product because its entry is honest. An entry is honest when it is made, because
its product is read after its stamp: had the file changed in between, the stamp would not be the file's. What `CacheHonest`
does not say is that it stays so under an edit; that needs the clock: a sound entry cannot have the mtime that an edit
gives its file. `FineClock` is needed there and only there.

`SessionProofs`, for any set of files, texts, any clock and any interleaving:

* `TypeInvariant`: Spec => []SessionTypeOK.
* `CacheIsHonest`: with `FineClock`, Spec => []CacheHonest. `HonestInv` is `WalkersSound` with the same of the rows of the
  snapshot.
* `QuiescentIsFresh`: with `FineClock` and `~EarlyEdits`, Spec => []QuiescentFresh. `FreshInv` has three parts:
  which phases of server, watcher and walk go together (`PhaseInv`); a walk has nothing yet of the files it
  has to come to, and of the others what the disk has, unless a change is pending (`WalkInv`); an idle
  server with nothing pending serves the disk (`ServedInv`).
* `PublishedIsRecent`: with `FineClock`, Spec => PublishesRecent, from `WalkersSeen`.
* `SessionImplementsService`: with `FineClock` and `~EarlyEdits`, Spec => ImplementsService. Every step of the session,
  under the invariants above, maps to a step of `IndexService` or to a stutter; `~EarlyEdits` is what makes the
  registration of the watch a `Settle`.

`SnapshotProofs`, for any number of builds and sessions on one database, with kills and interrupts anywhere:

* `SnapshotTypes`: Spec => []SnapshotTypeOK, with which phases of a process have a transaction and what
  it holds (`SavingInv`, `LockInv`).
* `RowsAreHonest`: with `FineClock`, Spec => []RowsHonest, whatever the versions of the processes. `RowsInv`: the committed
  table, the one of the transaction, every cache loaded from it and every result are sound together.
* `WarmEqualsCold`: with `FineClock`, Spec => []WarmIsCold, from `WalkersSeen`, and that a process that saves has walked all it
  listed (`SavesWalked`).
* `RowsAreOfVersion`: if all processes have one version V, Spec => []RowsOfVersion, from whatever version the database had.
  `SnapshotUpgrade.cfg` shows that the premise is needed.
* `CurrentNeverFails`: if moreover the database is of version V from the start, Spec => []NoStoreError.
  The run `snapshot_cold_start` shows what happens when it is not.
* `UndisturbedIsExact`: with `FineClock` and `NoneIsApart`, Spec => UndisturbedExact: a build that no edit and no commit of
  another process disturbs leaves exactly the rows of the files there are. `CalmInv` follows an undisturbed build through its
  phases: nothing of the files still to visit, the rows of those upserted, only stale rows left to delete.

`MemberLookupProofs`, for every set of classes and every graph of bases, cycles included:

* `LookupTyped`: Spec => []LookupTypeOK.
* `LookupAnswersNearest`: Spec => []AnswersNearest. `Above` is a least fixed point (the intersection of the
  sets closed under "the bases of a class that does not define the attribute"). The invariant has
  two halves: everything visited or on the stack lies in every closed set (`Sound`), and the visited
  classes with the stack are closed (`Frontier`). When the stack is empty they meet.
* `LookupNeverWrong`: Spec => []NeverWrong. Beside the walk stands Python's own order, C3, written as `pmerge` of CPython is: rounds
  that each take the first head that is in no list's tail. That the recursion along an acyclic hierarchy defines an order for each class is
  itself proved (`Recursion` of `RecursionTheorems`: two attempts that differ would differ at some class below which they agree). An
  order has the class first and every other class after one that derives from it (`OrdersReach`), so the first
  definition in it is reached from the root through classes that do not define the attribute (`UntilFirst`): it is one of
  the nearest. When the walk answers with a definition there is only one of these.

`FinalizeProofs`, for any projects whose products are well formed (`WellFormed`: what the backend promises of one file,
nothing of two) and however they collide:

* `FinalizeTypes`: Spec => []FinalizeTypeOK.
* `IdsAreUnique`: Spec => []UniqueIds. The invariant relates `seen` to what has been done: the ids in it are exactly those
  that a module has reserved or a symbol has been given (`SeenInv`), and no two symbols have one (`DistinctInv`).
  That is kept because `_claim` always finds a free id (`ClaimIsFree`): fewer ids are taken than there are
  candidates, which is the pigeonhole principle over the symbols of the project, each with at most one id.
  `UniqueIds` alone is not inductive: it says nothing before the pass is done.
* `ModulesAreKept`: Spec => []ModulesKeepNames. When a module finds its name taken, only modules have reserved so far, so
  it is the id of a module and stays so (`NamesInv`).
* `TreeIsWhole`: Spec => []TreeStaysWhole, since `Remap` takes the old id of an earlier symbol to the new id of the first
  that had it (`RemapKnown`), and a parent precedes its members.
* `ReferencesFollow`: Spec => []RefsFollow, if in every product the source of a reference is one of its symbols. That is
  what `SourcesStayEnclosed` below proves of the products of this backend; `FinalizeExceptStar.cfg` shows where the code breaks it.
* `UntouchedAreKept`: Spec => []UntouchedFilesKept, if each parsed file is `Settled`: a symbol has the first id, of those
  its parent and its name form, that no symbol before it in the file has, and no name in the source looks like a suffix.
  That is what `_unique` of `symbols.py` does (`ProductsAreSettled` below). The difficulty is
  that other files form ids too, before and after: a symbol elsewhere could be given, by a suffix, an id that this
  file has. It cannot: such an id would have to start from a parent with such an id, and so on up to a module (`OwnClosed`), and a
  module's id either is its name, which only this file could share, or ends in a suffix no source has (`PlainInv`). So
  the first id each symbol of the file tries is refused exactly when `_unique` refused it (`OwnClaim`).
* `HangsTogether`: Spec => []EverythingHangsTogether, for any collisions and any packages missing. The graph has each symbol of
  the finished files under its own id (`TreeShows`), since ids are unique and `add_symbol` drops nothing. No way up is a
  circle: a member hangs from an earlier symbol of its file, and a module from a module whose *given* name is shorter
  (`Hanging`). The second is less obvious than it looks: a module's new parent is the id of *some* module, not always of
  the one that had that name, but an id is never shorter than the name it was made from (`WholeInv`). So the
  recursion of `UpTo` is well founded, and what it ends at has no parent among the ids (`ClimbEnds`).
* `FocusStaysShown`: Spec => []FocusShown, again for any collisions. The outline goes down what `find` went up, by another recursion:
  `symbol_tree` collects members, `_focus_spine` follows parents. The two are related line by line: the outline of a symbol is finite
  (`HungFounded`, from the ways up having no circle), and a line at depth d under `id` shows a symbol whose way up reaches `id` at step d
  (`PartPlaces`). A symbol has one way up, and it comes to no id twice, so no two lines show one symbol; and the
  submodules that stay open are those on the way from the focus up to its module (`SpineIs`), so the line of the focus is not collapsed (`LineDown`).

The second half of `FinalizeProofs` is about extraction itself, for any programs. Its premises are `ByPython`,
that `ParseFile` reads the projects, and `FromFiles`, that their lines nest as a parser nests them (`Program`) and no name looks like a suffix. With them, what the
theorems above ask of a backend is proved of this one:

* `ProductsAreSettled`: every product is `WellFormed` and `Settled`. The pass over the lines is a recursion, so what it keeps
  (`Passed`) is shown for the first line that might break it (`LinesPassed`), and that the recursion defines anything at all comes
  from the same facts (`ExtractPassed`). Kept is that each symbol has been claimed against those before it, that `node_ids` has
  the id of each definition met so far and of the module, and that an id which ends in a suffix is in `node_ids`: a variable never has one. For that reason
  `_unique` finds a free id where there are no more suffixes than definitions (`MarkIsFree`).
* `SourcesStayEnclosed`: if no definition is inside `except*` (`NoExceptStar`), Spec => []SourcesEnclose. Symbols and references
  are made by two traversals that agree only through `node_ids`: the first descends into blocks, the second anywhere. The id a reference looks up is therefore
  there if the first has visited every definition; `DefinitionIs` says that it is then the id of the symbol at that line, `RefList` that
  every reference of a file, whichever branch makes it, asks for the definition around its line, a base for its class and an import for the module.
* `UntouchedStay` and `EdgesFollow`: `UntouchedFilesKept` and `RefsFollow`, under these premises alone.

Every configuration of MCFinalize gives `Parse` the value `ParseFile`; TLC checks `FromFiles` of them all (`MCFromFiles`), and `NoExceptStar` of all but the one that is there to break it (`MCNoExceptStar`).

`ResolverProofs`, for any modules, menus of products, stub tables, cap and padding:

* `ResolverTyped`: if `None` is not a cache, Spec => []ResolverTypeOK.
* `HistoriesAreFull`: if `DirtySetsCover`, Spec => []IncrementalIsFull. `FullInv` says that the records kept are those of a full
  resolve of the products kept; the step is that a resolve of the tables of the new project, with the records of the dirty files made anew and
  the others reused, is then the full one: the second pass reads the first only through its edges, so that equal
  records give equal tables (`ContextAgrees`, `ReuseIsFull`). The premise is about single patches of arbitrary projects, the
  conclusion about all histories. It is exactly what `DirtyCovers` checks: TLC finds it true of all projects and patches of the run,
  and false with a change of base, a dotted submodule or a new root (`ResolverBase.cfg`, `ResolverSub.cfg`,
  `ResolverSpace.cfg`), which is where the code's promise ends.
* `CountsAreActionable`: a result that is an `EdgeList` (finitely many edges, each of a known source and flow) has
  SuppressionIsActionable: what each dial hides and what is shown are disjoint parts of what is considered.
* `DialsStayActionable`: Spec => []SuppressionIsActionable, with no premise about dirty sets. A reused record may be stale, but some pass left
  it: `RecordsInv` says that the record of each file is what the two passes leave of it in *some* project (`RecordIs`, whatever
  the edges of the other files are), so that every result is an `EdgeList` (`EdgesAre`).
* `DefiniteStaysNamespace`: Spec => []DefiniteIsNamespace, if `DirtySetsCover` or `ModulesApart`. A walk along the name of a member beyond a value
  is in the namespace of modules up to that value, since every package of a stub module is one too; there it leaves the namespace and
  never comes back (`RungIs`), so that the last step does not keep the edge (`KeepIs`). The walk is a fold (`FoldFollows` of
  `RecursionTheorems`) and runs along a dotted name, which what a reference binds to is (`BindWords`): the walk along re-exports ends, as
  it comes to no name twice but to stop, and there are finitely many imports (`ReexportsEnd`). The premise is about
  stale edges only: an edge to a symbol that is gone is certain and now external. Either there is none, or its name cannot be one in the stub tables,
  because no package of the project shares its name with a module there (`SymbolSpare`; TLC checks `MCModulesApart` of the run's modules).
* `WideningStaysUnion`: if `SelfStands`, Spec => []WideningIsUnion, again with no premise about dirty sets: the property is about what
  the tables of the moment give, and those of any records are tables of the project (`ContextIs`). The targets of a receiver are
  shown to be a union over its types (`AllTargets`, `ReceiverTargets`), whatever order the types come in and however they are
  split, and none of them a name match. Three things in the code make that less than obvious. A class that two types share is followed once, with what is
  known of the first: where it leads does not depend on that (`SameClass`, along the whole chain of members). A target of both
  sets keeps the first edge, so that a live target is never shown as one the receiver may have (`SplitTargets`). And
  the stub tables are asked only if fewer classes were found than there are types: that is so whenever a type is from
  outside the project, as such a type has no class (`NoClassOutside`, `ClassesFrom`), so the condition never depends on the split.
  `SelfStands` says that no reference off `self` has other types. Such a one exists when a method assigns to its `self`; then the types are
  ignored for the one class, the last condition counts it against all of them, and the property is false. TLC checks `MCSelfStands` of
  the products of the run.
* `EdgesStayLanded`: if `DirtySetsCover` and `StubsApart`, Spec => []EdgesLand. What is proved of one full resolve, whatever the
  products and the stub tables (`FullLands`), is followed through both passes: a name binds to a symbol of the project or to a name that is
  neither known nor rooted in it (`BindIs`); a chain off an external name ends
  in a class of the stub tables (`ExternalChainIs`, `CallChainIs`); the tables of the second pass hold only symbols of the project (`ContextIs`),
  so the search up the bases answers with one (`LookupIs`: along cyclic bases too, since it only grows the set it has visited), and so
  does every hop of a chain of members (`ThreadIs`); and an external target is among the
  externals because `_syntactic_file` lists what it mints and `reassemble` what the stub edges end at (`ReassembledIs`). `StubsApart` says
  that no top-level package of the project has the name of one with classes in the stub tables, or is called `builtins`. Without it a
  method of the library that returns a class of such a package would give an external edge into a package the project has;
  TLC checks the premise of the run's modules (`MCStubsApart`).

`FlowProofs`, for any set of classes and functions of any length and shape:

* `FlowTyped`: Spec => []FlowTypeOK.
* `StraightIsExact`: if every function is `Plain`, Spec => []ViewExact. `ExactInv` relates the value x holds to the last assignment
  before the statement that is next. `Plain` asks two things of the functions that have a straight-line reassigned variable: what x
  has on entry is what the scope says of it (`BarePrograms` breaks it), and x is bound by assignments only (`WalrusPrograms` breaks it).
* `ViewMissesNothing`: if the class every variable enters with is in view, Spec => []NothingMissed. `SourcedInv`: the class x holds
  is that of its entry or of an assignment somewhere in the body, so of the may-set. `flow_branch` breaks the premise.

TLC checks both premises of all the functions of the run (`MCPremises`).

Assumptions used: `FinalizeAssumption` (the suffixes are different, products are well formed) and `EnoughMarks` (there are as
many suffixes as symbols, because `n` in `_claim` has no bound), both of which TLC evaluates for the projects of the run;
the part of the first that is about products holds of `ParseFile` by `ProductsAreSettled`. `IngestAssumption`, `SessionAssumption`, `SnapshotAssumption`, `ResolverAssumption`, `LookupAssumption`, `FlowAssumption` (types of the
constants; there are finitely many classes); `ChainsAssumption` and `MenuAssumption` (the stub tables are as `gen_typeshed.py` writes them: a member has a kind and a
type, only a module has submodules, and a package of a module in them is in them; the products are what an extraction makes: lists of
symbols below the top-level package of their module, of imports of dotted names, and of references with the fields of `RawRef`, each from a symbol of its file,
named by at least one component), which TLC evaluates for
every resolver run (that references come from symbols is proved of extraction: `SourcesStayEnclosed`, but not with `except*`); and the premises named above, which appear in the statements: `FineClock`, `~EarlyEdits`, one version of the code, and that `None`
is not itself a row, a table, a cached file or a process (`NoneIsApart`).

Only model-checked: liveness (`EventuallyFresh`, `LookupTerminates`) and anything about ENABLED, which the
prover does not do; `DirtyCovers`, and the three
properties of `Naming`. These compare what extraction says of a name with Python's rules, through a recursion over scopes and, for locals, over statements, and
are false of several forms that section 4 lists: a theorem would need them all as premises. Where an
induction is needed above (the rounds of C3, the orders of an acyclic hierarchy, the fold that makes the graph, the way up a tree,
the chains of parents of `UntouchedAreKept`, the lines of a file), it is a least counterexample, with the step of the recursion given as a function, or a step
of the specification itself. `DirtyCovers` is false of the code in general and so is a
premise, never a theorem.

## 6. What is not modelled

Ranking and the repository map (floating-point PageRank, a text budget), metrics, argument parsing,
logging, the JSON shapes of answers, the generated typeshed table and its generator, the calibration
harness. Of extraction, the signature and the first documentation line of a symbol, and all positions. Of the queries,
`find_definition` and `find_importers` are one table lookup and one selection and are left out.

## 7. Plan

Done: A `Ingest`, `Session`, `IndexService` with `IngestProofs`, `SessionProofs`; B `Snapshot` with
`SnapshotProofs`; C `Binding`, `Chains`, `TypeResolution`, `Resolver`, `Relations` with `ResolverProofs`; D `MemberLookup` with its proofs;
E `PythonSource`, `Scopes`, `SymbolPass`, `RefPass`, `Extraction`, `Finalize` with `FinalizeProofs`, `Graph`, `Indexing`, `Naming`;
F `FlowTypes`, `Flow` with `FlowProofs`.

Next, in this order:

1. An abstract store that maps paths to honest rows, and `Snapshot` shown to implement it.
2. `Assembly`: Finalize, Resolver and Graph composed, so that ids renamed by a patch go through the
   incremental resolver.
