-------------------------------- MODULE Graph --------------------------------
(***************************************************************************)
(* The symbols of an index and the outline of a module: the mutations and  *)
(* the structural lookups of model/graph.py, the fold of _assemble         *)
(* (index.py) that fills it, and the walk of query/lookup.py.              *)
(*                                                                         *)
(* A graph is the sequence of its symbols in the order they were added;    *)
(* the tables by name and by parent are selections of it, in that order,   *)
(* made by flattening, which can be reasoned about where SelectSeq cannot. *)
(***************************************************************************)
EXTENDS Naturals, FiniteSets, Sequences, SequencesExt

SymbolIds(g) == {g[k].id : k \in DOMAIN g}
SymbolOf(g, id) == g[CHOOSE k \in DOMAIN g : g[k].id = id]
Children(g, id) == FlattenSeq([k \in DOMAIN g |-> IF g[k].parent = id THEN <<g[k]>> ELSE <<>>])

(* add_symbol: the first symbol of an id stays, a second one is dropped.   *)
AddSymbol(g, s) == IF s.id \in SymbolIds(g) THEN g ELSE Append(g, s)

(* _assemble: every symbol of every file, in the order of the files.       *)
Assemble(files) == FoldLeft(AddSymbol, <<>>, FlattenSeq([i \in DOMAIN files |-> files[i].symbols]))

(* The ids from one up to a module, or as far up as there are parents.     *)
UpTo(g, id, module) ==
    LET up[i \in SymbolIds(g)] ==
            LET parent == SymbolOf(g, i).parent
            IN  IF i = module \/ parent \notin SymbolIds(g) THEN <<i>> ELSE <<i>> \o up[parent]
    IN  up[id]

(* As if only the focus itself were revealed.                              *)
RevealFocus(g, focus, module) == {focus}

(* _reveal_spine: the branch that the outline expands, none when the focus *)
(* is not under the module.                                                *)
RevealSpine(g, focus, module) ==
    IF focus \in SymbolIds(g) /\ Last(UpTo(g, focus, module)) = module
    THEN ToSet(UpTo(g, focus, module)) ELSE {}

(* outline: a module, its members under it, a submodule as one line unless *)
(* it is on the way to the focus.                                          *)
Outline(g, module, focus) ==
    LET revealed == RevealSpine(g, focus, module)
        deeper(entries) == [k \in DOMAIN entries |-> [entries[k] EXCEPT !.depth = @ + 1]]
        walk[id \in SymbolIds(g)] ==
            LET line(s) == IF s.kind = "module" /\ s.id \notin revealed
                           THEN <<[id |-> s.id, depth |-> 0]>> ELSE walk[s.id]
                below == Children(g, id)
            IN  <<[id |-> id, depth |-> 0]>>
                \o FlattenSeq([k \in DOMAIN below |-> deeper(line(below[k]))])
    IN  walk[module]
=============================================================================
