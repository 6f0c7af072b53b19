----------------------------- MODULE Extraction ------------------------------
(***************************************************************************)
(* The product of one file (ingest/python/backend.py): its symbols, then   *)
(* its references with the ids the symbols were given.  A product keeps    *)
(* the source it is of.                                                    *)
(***************************************************************************)
EXTENDS SymbolPass, RefPass

ParseFile(module, isInit, p) ==
    LET pass == ExtractSymbols(p, module)
        package == Package(module, isInit)
    IN  [module |-> module, package |-> package, source |-> p,
         symbols |-> pass.symbols,
         refs |-> ExtractRefs(p, pass.ids, module, package),
         imports |-> CollectImports(p, package)]
=============================================================================
