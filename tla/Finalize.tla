------------------------------ MODULE Finalize ------------------------------
(***************************************************************************)
(* ensure_unique_ids (ingest/python/finalize.py): the pass over all the    *)
(* files of a project that makes every symbol id unique.  Module ids are   *)
(* reserved first; then each symbol, file by file, gets the id its parent  *)
(* and its name form, with a suffix when that id is taken.                 *)
(*                                                                         *)
(* A qualified name is the sequence of its components; the suffix #N of an *)
(* id is a component of its own.  Of a symbol the pass reads the id, name, *)
(* kind and parent; of a reference the symbol it is made from.             *)
(***************************************************************************)
EXTENDS Naturals, FiniteSets, Sequences, SequencesExt

CONSTANTS
    Projects,        \* sequences of sources [module, isInit, lines], in the order of the walk
    Parse(_, _, _),  \* the product of a source
    Marks,           \* the suffixes "#2", "#3", ... in order, as many as are needed
    None

VARIABLES
    files,      \* the files given
    seen,       \* the ids taken so far
    moduleId,   \* the ids reserved for the modules of the first files
    symbols,    \* the symbols of the current file that have their new id
    out,        \* the files finished
    pc          \* "start", "modules", "members" or "done"

vars == <<files, seen, moduleId, symbols, out, pc>>

-----------------------------------------------------------------------------
Names == Seq(STRING)

(* What the backend promises of a product: its symbols are a list of       *)
(* records; the module is the first of them, and the only one of that      *)
(* kind; the others have a parent.                                         *)
Recorded(fi) ==
    fi.symbols = [k \in DOMAIN fi.symbols |->
                     [field \in DOMAIN fi.symbols[k] |-> fi.symbols[k][field]]]

WellFormed(fi) ==
    /\ {"module", "symbols", "refs"} \subseteq DOMAIN fi
    /\ fi.module \in Names \ {<<>>}
    /\ DOMAIN fi.symbols = 1 .. Len(fi.symbols) /\ Len(fi.symbols) \in Nat \ {0}
    /\ Recorded(fi)
    /\ \A k \in DOMAIN fi.symbols :
          LET s == fi.symbols[k]
          IN  /\ {"id", "name", "kind", "parent"} \subseteq DOMAIN s
              /\ s.id \in Names /\ s.name \in Names
              /\ k = 1 <=> s.kind = "module"
              /\ k = 1 => s.id = fi.module
              /\ IF k = 1
                 THEN s.parent = IF Len(fi.module) = 1 THEN None ELSE Front(fi.module)
                 ELSE \E j \in 1 .. k - 1 : s.parent = fi.symbols[j].id
    /\ \A r \in DOMAIN fi.refs : "src" \in DOMAIN fi.refs[r]

Parsed(sources) ==
    [k \in DOMAIN sources |-> Parse(sources[k].module, sources[k].isInit, sources[k].lines)]

ASSUME FinalizeAssumption ==
    /\ Marks \in Seq(STRING) /\ IsInjective(Marks)
    /\ None \notin Names
    /\ \A sources \in Projects :
          /\ Len(sources) \in Nat /\ DOMAIN sources = 1 .. Len(sources)
          /\ \A k \in DOMAIN sources : WellFormed(Parsed(sources)[k])

(* What _claim tries, in its order: the id, then the id with each suffix.   *)
Candidates(base) == <<base>> \o [n \in DOMAIN Marks |-> base \o <<Marks[n]>>]

(* What _unique in symbols.py leaves of a file by itself: each symbol has  *)
(* the first id, of those its parent and its name form, that no symbol     *)
(* before it has.  No name in the source looks like a suffix.              *)
Marked(q) == \E c \in DOMAIN q : q[c] \in ToSet(Marks)
Before(fi, k) == {fi.symbols[j].id : j \in 1 .. k - 1}

Settled(fi) ==
    /\ ~Marked(fi.module)
    /\ \A k \in DOMAIN fi.symbols \ {1} :
          LET s == fi.symbols[k]
          IN  /\ Len(s.name) = 1 /\ ~Marked(s.name)
              /\ s.id \notin Before(fi, k)
              /\ \E n \in 1 .. Len(Marks) + 1 :
                    /\ s.id = Candidates(s.parent \o s.name)[n]
                    /\ \A m \in 1 .. n - 1 : Candidates(s.parent \o s.name)[m] \in Before(fi, k)

-----------------------------------------------------------------------------
Ids(fi) == [k \in DOMAIN fi.symbols |-> fi.symbols[k].id]
ModuleNames == {files[i].module : i \in DOMAIN files}
Ancestors(q) == (Prefixes(q) \ {<<>>}) \ {q}

(* The symbols of all files, each by its file and its place in it.         *)
Slots(fs) == UNION {{i} \X DOMAIN fs[i].symbols : i \in DOMAIN fs}
IdAt(fs, at) == fs[at[1]].symbols[at[2]].id
UniqueIn(fs) == \A a, b \in Slots(fs) : IdAt(fs, a) = IdAt(fs, b) => a = b

(* n in _claim has no bound: there are suffixes for all symbols there are. *)
ASSUME EnoughMarks ==
    \A sources \in Projects :
        LET slots == Slots(Parsed(sources))
        IN  IsFiniteSet(slots) /\ Cardinality(slots) <= Len(Marks)

HasDuplicate == ~UniqueIn(files)
HasGap == \E m \in ModuleNames : Len(m) > 1 /\ Front(m) \notin ModuleNames

(* _nearest_package: the longest ancestor that is a module.                *)
NearestPackage(m) ==
    LET known == Ancestors(m) \cap ModuleNames
    IN  IF known = {} THEN None
        ELSE CHOOSE q \in known : \A r \in known : Len(r) <= Len(q)

(* As if the first suffix were used whether it is free or not.             *)
ClaimSecond(base) == IF base \in seen THEN base \o <<Marks[1]>> ELSE base

(* _claim: the first free id at or after base.                             *)
Claim(base) == Candidates(base)[SelectInSeq(Candidates(base), LAMBDA q : q \notin seen)]

-----------------------------------------------------------------------------
Init ==
    /\ \E sources \in Projects : files = Parsed(sources)
    /\ seen = {} /\ moduleId = <<>> /\ symbols = <<>> /\ out = <<>>
    /\ pc = "start"

(* The common case: the files are returned as they are.                    *)
ReturnUntouched ==
    /\ pc = "start"
    /\ ~HasDuplicate /\ ~HasGap
    /\ out' = files
    /\ pc' = "done"
    /\ UNCHANGED <<files, seen, moduleId, symbols>>

(* As if the members were suffixed before the modules had their names.     *)
SkipReserve ==
    /\ \/ pc = "start" /\ (HasDuplicate \/ HasGap)
       \/ pc = "modules"
    /\ moduleId' = Append(moduleId, Claim(files[Len(moduleId) + 1].module))
    /\ pc' = IF Len(moduleId) + 1 = Len(files) THEN "members" ELSE "modules"
    /\ UNCHANGED <<files, seen, symbols, out>>

(* Pass 1.                                                                 *)
ReserveModule ==
    /\ \/ pc = "start" /\ (HasDuplicate \/ HasGap)
       \/ pc = "modules"
    /\ LET id == Claim(files[Len(moduleId) + 1].module)
       IN  moduleId' = Append(moduleId, id) /\ seen' = seen \cup {id}
    /\ pc' = IF Len(moduleId) + 1 = Len(files) THEN "members" ELSE "modules"
    /\ UNCHANGED <<files, symbols, out>>

(* Pass 2.                                                                 *)
Current == files[Len(out) + 1]
CurrentModule == moduleId[Len(out) + 1]

(* remap: the new id of an old one, for the symbols of the current file.   *)
Remap(q) ==
    LET k == SelectInSeq(symbols, LAMBDA s : s.was = q)
    IN  IF k # 0 THEN symbols[k].id
        ELSE IF q = Current.module THEN CurrentModule ELSE q

(* As if every module hung from the package its name says.                 *)
CorrectedParentGuess(s) == s.parent

CorrectedParent(s) ==
    IF s.parent = None \/ s.parent \in ModuleNames THEN s.parent
    ELSE NearestPackage(Current.module)

(* As if a member kept the parent it was parsed with.                      *)
NewParentStale(s) == IF s.kind = "module" THEN CorrectedParent(s) ELSE s.parent

NewParent(s) ==
    LET parent == IF s.kind = "module" THEN CorrectedParent(s) ELSE s.parent
    IN  IF parent = None THEN None ELSE Remap(parent)

(* As if a module claimed again the id it has reserved.                    *)
ReformReclaiming ==
    /\ pc = "members" /\ Len(symbols) < Len(Current.symbols)
    /\ LET s == Current.symbols[Len(symbols) + 1]
           parent == NewParent(s)
           base == IF s.kind = "module" THEN Current.module
                   ELSE IF parent = None THEN s.name ELSE parent \o s.name
           id == Claim(base)
       IN  /\ symbols' = Append(symbols, [was |-> s.id, id |-> id, parent |-> parent])
           /\ seen' = seen \cup {id}
    /\ UNCHANGED <<files, moduleId, out, pc>>

ReformSymbol ==
    /\ pc = "members" /\ Len(symbols) < Len(Current.symbols)
    /\ LET s == Current.symbols[Len(symbols) + 1]
           parent == NewParent(s)
           base == IF parent = None THEN s.name ELSE parent \o s.name
           id == IF s.kind = "module" THEN CurrentModule ELSE Claim(base)
       IN  /\ symbols' = Append(symbols, [was |-> s.id, id |-> id, parent |-> parent])
           /\ seen' = seen \cup {id}
    /\ UNCHANGED <<files, moduleId, out, pc>>

Reformed ==
    [k \in DOMAIN symbols |->
        [Current.symbols[k] EXCEPT !.id = symbols[k].id, !.parent = symbols[k].parent]]

(* As if the references of a rewritten file kept their old source.         *)
FinishedStale ==
    IF Reformed = Current.symbols THEN Current
    ELSE [Current EXCEPT !.symbols = Reformed]

(* A file none of whose symbols moved is returned as it is.                *)
Finished ==
    IF Reformed = Current.symbols THEN Current
    ELSE [Current EXCEPT
            !.symbols = Reformed,
            !.refs = [k \in DOMAIN Current.refs |->
                        [Current.refs[k] EXCEPT !.src = Remap(Current.refs[k].src)]]]

FinishFile ==
    /\ pc = "members" /\ Len(symbols) = Len(Current.symbols)
    /\ out' = Append(out, Finished)
    /\ symbols' = <<>>
    /\ pc' = IF Len(out) + 1 = Len(files) THEN "done" ELSE "members"
    /\ UNCHANGED <<files, seen, moduleId>>

Next == ReturnUntouched \/ ReserveModule \/ ReformSymbol \/ FinishFile

Spec == Init /\ [][Next]_vars

-----------------------------------------------------------------------------
Done == pc = "done"

FinalizeTypeOK ==
    /\ \A i \in DOMAIN files : Head(Ids(files[i])) = files[i].module
    /\ pc \in {"start", "modules", "members", "done"}
    /\ Len(moduleId) <= Len(files) /\ Len(out) <= Len(files)
    /\ ToSet(moduleId) \subseteq seen
    /\ Done => Len(out) = Len(files)

(* ingest/base.py:69: every returned symbol has a globally unique id.      *)
UniqueIds == Done => UniqueIn(out)

(* finalize.py:11-12: a module name is an import target, so a symbol that  *)
(* collides with a module yields to it: whatever the collisions, each      *)
(* module name of the project is the id of a module.                       *)
ModulesKeepNames ==
    Done => \A m \in ModuleNames : \E i \in DOMAIN out : \E s \in ToSet(out[i].symbols) :
                s.kind = "module" /\ s.id = m

(* finalize.py:100: a reference is still made from the symbol it was       *)
(* made from, under that symbol's new id.                                  *)
RefsFollow ==
    Done => \A i \in DOMAIN out : \A r \in DOMAIN out[i].refs :
                \E k \in DOMAIN out[i].symbols :
                    /\ files[i].symbols[k].id = files[i].refs[r].src
                    /\ out[i].symbols[k].id = out[i].refs[r].src

(* finalize.py:40-44: the subtree stays reachable.  A symbol hangs from    *)
(* the symbol of its own file that it hung from, and a module from none or *)
(* from a module of the project.                                           *)
TreeStaysWhole ==
    Done => \A i \in DOMAIN out : \A k \in DOMAIN out[i].symbols :
        LET before == files[i].symbols[k]
            after == out[i].symbols[k]
        IN  IF before.kind = "module"
            THEN after.parent = None \/ (after.parent \in ModuleNames
                                         /\ after.parent \in Ancestors(files[i].module))
            ELSE \E j \in 1 .. k - 1 :
                    /\ before.parent = files[i].symbols[j].id
                    /\ after.parent = out[i].symbols[j].id

(* finalize.py:94-96: a collision does not reach the files it does not     *)
(* involve; their products are the ones the resolver already knows.        *)
Clashes(i) ==
    \/ \E j \in DOMAIN files \ {i} : ToSet(Ids(files[i])) \cap ToSet(Ids(files[j])) # {}
    \/ Len(files[i].module) > 1 /\ Front(files[i].module) \notin ModuleNames
UntouchedFilesKept ==
    Done => \A i \in DOMAIN files : ~Clashes(i) => out[i] = files[i]

(* module_defs_map (resolve_index.py) over the finished files: the symbols *)
(* whose parent is the module, under its name; the last file of a name     *)
(* takes the entry.                                                        *)
ModuleDefs(m) ==
    LET i == SelectLastInSeq(out, LAMBDA fi : fi.module = m)
    IN  {s \in ToSet(out[i].symbols) : s.parent = m}

(* resolve_index.py:67: the table has the top-level names of every file.   *)
DefsForEveryFile ==
    Done => \A i \in DOMAIN files : \A s \in ToSet(files[i].symbols) :
        s.parent = files[i].module =>
            \E d \in ModuleDefs(files[i].module) : d.name = s.name
=============================================================================
