------------------------------ MODULE Indexing -------------------------------
(***************************************************************************)
(* From source to graph: files are extracted, made to have unique ids, and *)
(* assembled (Index.build, index.py).  What the sources are, and the       *)
(* properties of what goes in and of what comes out.                       *)
(***************************************************************************)
EXTENDS Finalize, Graph

INSTANCE Extraction

-----------------------------------------------------------------------------
(* What a parser gives for a file: a line is part of lines before it, and  *)
(* of all those that they are part of; a name has no suffix; the lists of  *)
(* a line are lists.  n in _unique has no bound: there are suffixes for    *)
(* all definitions there are.                                              *)
Written == STRING \ ToSet(Marks)
IsList(s) == Len(s) \in Nat /\ DOMAIN s = 1 .. Len(s)

LineOf(p, i) ==
    LET l == p[i]
    IN  /\ l.above \subseteq 1 .. i - 1
        /\ \A j \in l.above : Above(p, j) \subseteq l.above
        /\ l.kind \in Definitions => l.name \in Written
        /\ l.kind = "class" => IsList(l.bases)
        /\ l.kind \in {"assign", "annassign"} => l.names \in Seq(Written) /\ l.attrs \in Seq(Written)
        /\ l.kind = "assign" => l.unpacked \in Seq(Written) /\ l.unpackedAttrs \in Seq(Written)
        /\ l.kind = "expr" => /\ {"root", "ops", "store", "role"} \subseteq DOMAIN l
                              /\ l.ops \in Seq(STRING) /\ (l.store => l.ops # <<>>)
        /\ l.kind = "import" => IsList(l.items)

Program(p) ==
    /\ IsList(p)
    /\ \A i \in DOMAIN p : LineOf(p, i)
    /\ Cardinality({i \in DOMAIN p : p[i].kind \in Definitions}) <= Len(Marks)

(* The projects are files, which the Python backend parses.                *)
FromFiles ==
    \A sources \in Projects : \A k \in DOMAIN sources :
        sources[k].module \in Seq(Written) \ {<<>>} /\ Program(sources[k].lines)

ByPython(sources) ==
    \A k \in DOMAIN sources :
        LET s == sources[k]
        IN  Parse(s.module, s.isInit, s.lines) = ParseFile(s.module, s.isInit, s.lines)

(* No definition is inside try with except*.                               *)
NoExceptStar ==
    \A sources \in Projects : \A k \in DOMAIN sources :
        LET p == sources[k].lines
        IN  \A d \in DOMAIN p : p[d].kind \in Definitions => Visited(p, d)

Extracted == IF pc = "start" THEN ToSet(files) ELSE {}

(* symbols.py:48-51: the source of a reference, and the parent of a symbol,*)
(* is the symbol of the definition it stands in, also where several have   *)
(* one name; no two symbols of a file have one id.                         *)
Home(file, i) == EnclosingDefinition(file.source, i)
SourcesEnclose ==
    \A file \in Extracted :
        /\ IsInjective([k \in DOMAIN file.symbols |-> file.symbols[k].id])
        /\ \A r \in ToSet(file.refs) : \E s \in ToSet(file.symbols) :
              /\ s.id = r.src
              /\ s.at = IF r.kind = "import" THEN 0
                        ELSE IF r.kind = "inherits" THEN r.at ELSE Home(file, r.at)

-----------------------------------------------------------------------------
(* The graph that _assemble builds from finalized files, as the outline    *)
(* tool walks it.                                                          *)
Tree == Assemble(out)

(* finalize.py:43-44: the subtree stays reachable.  Going up from a symbol *)
(* ends at a module that hangs from nothing, whatever packages are missing *)
(* and whatever names collide; the way up meets nothing twice.             *)
EverythingHangsTogether ==
    Done => \A id \in SymbolIds(Tree) :
        LET top == SymbolOf(Tree, Last(UpTo(Tree, id, None)))
        IN  top.kind = "module" /\ top.parent = None

(* lookup.py:106-109: the outline of a module, given a symbol that hangs   *)
(* from it however deep, has one line for that symbol, at its depth, and   *)
(* no line twice.                                                          *)
FocusShown ==
    Done => \A focus \in SymbolIds(Tree) : \A k \in DOMAIN UpTo(Tree, focus, None) :
        LET module == UpTo(Tree, focus, None)[k]
            lines == Outline(Tree, module, focus)
        IN  SymbolOf(Tree, module).kind = "module" =>
                /\ [id |-> focus, depth |-> k - 1] \in ToSet(lines)
                /\ IsInjective([j \in DOMAIN lines |-> lines[j].id])
=============================================================================
