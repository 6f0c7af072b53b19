------------------------------- MODULE MCFlow -------------------------------
EXTENDS Flow

Constructions == {Binding("ctor", {t}) : t \in Types}
Unknown == Binding("unknown", {})
Bound == Binding("bound", {})
Assignments == Constructions \cup {Binding("annotated", Types), Unknown}

Uses == {Simple(<<>>)}
Straightforward == Uses \cup {Simple(<<b>>) : b \in Assignments}
Walrus == {Simple(<<Bound>>)}
Branches == {Block(FALSE, <<<<b>>, <<>>>>) : b \in Assignments \cup {Bound}}
            \cup {Block(FALSE, <<<<b>>, <<c>>>>) : b, c \in Constructions}
Loops == {Block(TRUE, <<<<Bound>>, <<>>>>)}
         \cup {Block(TRUE, <<<<b, c>>, <<>>>>) : b, c \in Constructions \cup {Unknown}}

Functions(parameter, annotation, statements) ==
    [parameter : {parameter}, annotation : {annotation}, body : [1 .. 3 -> statements]]

(* Locals, with every mixture of statements; parameters with an annotation *)
(* that is the only one, reassigned on the straight line.                  *)
MCPrograms ==
    Functions(FALSE, {}, Straightforward \cup Branches \cup Loops)
    \cup UNION {Functions(TRUE, {t}, Uses \cup {Simple(<<b>>) : b \in Constructions \cup {Unknown}})
                : t \in Types}

(* An annotated parameter that is reassigned in a branch.                  *)
BranchPrograms == UNION {Functions(TRUE, {t}, Uses \cup Branches) : t \in Types}

(* A local that a walrus in an assignment to another name rebinds.         *)
WalrusPrograms == Functions(FALSE, {}, Straightforward \cup Walrus)

(* A parameter without annotation.                                         *)
BarePrograms == Functions(TRUE, {}, Straightforward)

(* The premises of the theorems of FlowProofs, on the functions of the run *)
(* that passes.                                                            *)
ASSUME MCPremises == \A p \in MCPrograms : Plain(p) /\ EntryInView(p)
=============================================================================
