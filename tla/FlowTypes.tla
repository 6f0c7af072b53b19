------------------------------ MODULE FlowTypes ------------------------------
(***************************************************************************)
(* What is said of the type of a local (function_scope and flow_types,     *)
(* ingest/python/scope.py and flow.py), for one variable x of a function.  *)
(*                                                                         *)
(* A binding of x has a form -- "ctor" (x = T()), "annotated" (x: T = ...),*)
(* "unknown" (x = ..., x += ...) or "bound" (a walrus, a loop target: not  *)
(* an assignment statement) -- and the types it names, none for the last   *)
(* two.  A statement of the body is simple, with the bindings of x it      *)
(* makes (at most one: y = (x := ...) is simple too, and a mere use makes  *)
(* none), or a block with its arms, one of which runs, in a loop again and *)
(* again.  A function is [parameter, annotation, body], the annotation     *)
(* being the types x has on entry.  The types of an annotation are a set;  *)
(* the order of its arms is left out.                                      *)
(***************************************************************************)
EXTENDS Naturals, FiniteSets, Sequences, SequencesExt, FiniteSetsExt

Binding(form, types) == [form |-> form, types |-> types]
Simple(does) == [kind |-> "simple", does |-> does]
Block(loop, arms) == [kind |-> "block", loop |-> loop, arms |-> arms]

-----------------------------------------------------------------------------
Arms(s) == IF s.kind = "simple" THEN <<s.does>> ELSE s.arms

(* Where x is bound: by statement, arm and place in the arm.               *)
Sites(p) ==
    UNION {UNION {{<<i, a, k>> : k \in DOMAIN Arms(p.body[i])[a]} :
                  a \in DOMAIN Arms(p.body[i])} : i \in DOMAIN p.body}
BindingAt(p, site) == Arms(p.body[site[1]])[site[2]][site[3]]
AllBindings(p) == {BindingAt(p, site) : site \in Sites(p)}

(* assign_effect: the bindings that are assignment statements.             *)
IsAssigned(b) == b.form \in {"ctor", "annotated", "unknown"}
AssignedSites(p) == {site \in Sites(p) : IsAssigned(BindingAt(p, site))}
Assigned(p) == {BindingAt(p, site) : site \in AssignedSites(p)}

(* function_scope: the gate, and one type for the whole scope.             *)
FlowVar(p) ==
    /\ \E a, b \in AssignedSites(p) : a # b
    /\ \E b \in Assigned(p) : b.types # {}

Annotated(p) ==
    LET ts == {b.types : b \in {b \in AllBindings(p) : b.form = "annotated"}}
    IN  IF Cardinality(ts) = 1 THEN UNION ts ELSE {}

Inferred(p) ==
    LET ctors == {b.types : b \in AllBindings(p)}
    IN  IF Cardinality(ctors) = 1 /\ \A b \in AllBindings(p) : b.form = "ctor"
        THEN UNION ctors ELSE {}

(* _visit: a declaration beats an inference, the later one of x wins.      *)
Base(p) ==
    IF Annotated(p) # {} THEN Annotated(p)
    ELSE IF p.annotation # {} THEN p.annotation
    ELSE Inferred(p)

(* As if a binding inside a compound statement were not looked for.        *)
BranchNever(p) == FALSE

BranchReassigned(p) ==
    \E site \in Sites(p) : p.body[site[1]].kind = "block"

(* As if the may-set were read off the top level of the body.              *)
MayTypesTop(p) ==
    UNION {b.types : b \in {p.body[i].does[1] : i \in
        {j \in DOMAIN p.body : p.body[j].kind = "simple" /\ p.body[j].does # <<>>}}}

MayTypes(p) == UNION {b.types : b \in Assigned(p)}

(* The last assignment before statement i, if there is one.                *)
Live(p, i) ==
    LET before == {j \in 1 .. i - 1 : /\ p.body[j].kind = "simple"
                                      /\ p.body[j].does # <<>>
                                      /\ IsAssigned(p.body[j].does[1])}
    IN  IF before = {} THEN <<>> ELSE p.body[Max(before)].does

(* The types before statement i: that of the last assignment, else base,   *)
(* what the scope says of x.                                               *)
LiveTypes(p, base, i) == IF Live(p, i) = <<>> THEN base ELSE Live(p, i)[1].types

(* As if the types live at a statement widened it too.                     *)
ViewWidening(p, base, i) ==
    [types |-> IF BranchReassigned(p) THEN MayTypes(p) ELSE LiveTypes(p, base, i),
     may |-> IF BranchReassigned(p) THEN {} ELSE MayTypes(p)]

(* flow_types: the types a use in statement i is given, and those x takes  *)
(* elsewhere.                                                              *)
ReassignedView(p, base, i) ==
    IF BranchReassigned(p) THEN [types |-> MayTypes(p), may |-> {}]
    ELSE [types |-> LiveTypes(p, base, i), may |-> MayTypes(p) \ LiveTypes(p, base, i)]

View(p, i) == IF FlowVar(p) THEN ReassignedView(p, Base(p), i) ELSE [types |-> Base(p), may |-> {}]
=============================================================================
