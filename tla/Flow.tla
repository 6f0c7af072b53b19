-------------------------------- MODULE Flow --------------------------------
(***************************************************************************)
(* What claude-ast says of a reassigned local against what it holds: the   *)
(* view of FlowTypes beside a run of the function.                         *)
(***************************************************************************)
EXTENDS FlowTypes

CONSTANTS
    Types,      \* the classes a binding can name
    Programs,   \* the functions: [parameter, annotation, body]
    Other,      \* a value no binding names the class of
    Unbound     \* no value yet

(* The types of an assignment of an unknown value, and of a binding that   *)
(* is no assignment, are none; a simple statement binds x at most once.    *)
AnyBinding ==
    {b \in [form : {"ctor", "annotated", "unknown", "bound"}, types : SUBSET Types] :
        b.form \in {"unknown", "bound"} => b.types = {}}

IsStatement(s) ==
    /\ s.kind \in {"simple", "block"}
    /\ Arms(s) \in Seq(Seq(AnyBinding))
    /\ s.kind = "simple" => Len(s.does) <= 1

ASSUME FlowAssumption ==
    /\ Other \notin Types /\ Unbound \notin Types \cup {Other}
    /\ \A p \in Programs :
          /\ p.parameter \in BOOLEAN /\ p.annotation \subseteq Types
          /\ ~p.parameter => p.annotation = {}
          /\ Len(p.body) \in Nat /\ DOMAIN p.body = 1 .. Len(p.body)
          /\ \A i \in DOMAIN p.body : IsStatement(p.body[i])

VARIABLES
    program,    \* the function that runs
    at,         \* the statement of the body that is next
    arm,        \* the arm of that statement that runs, 0 outside a block
    step,       \* the binding of that arm that is next
    value       \* the class of the value x holds

vars == <<program, at, arm, step, value>>

-----------------------------------------------------------------------------
(* The run.                                                                *)
Values(types) == IF types = {} THEN {Other} ELSE types
Statement == program.body[at]

Init ==
    /\ program \in Programs
    /\ value \in IF program.parameter THEN Values(program.annotation) ELSE {Unbound}
    /\ at = 1 /\ arm = 0 /\ step = 1

RunSimple ==
    /\ at <= Len(program.body) /\ Statement.kind = "simple"
    /\ value' \in IF Statement.does = <<>> THEN {value} ELSE Values(Statement.does[1].types)
    /\ at' = at + 1
    /\ UNCHANGED <<program, arm, step>>

EnterBlock ==
    /\ at <= Len(program.body) /\ Statement.kind = "block" /\ arm = 0
    /\ arm' \in DOMAIN Statement.arms
    /\ UNCHANGED <<program, at, step, value>>

RunArm ==
    /\ arm # 0 /\ step <= Len(Statement.arms[arm])
    /\ value' \in Values(Statement.arms[arm][step].types)
    /\ step' = step + 1
    /\ UNCHANGED <<program, at, arm>>

RepeatBlock ==
    /\ arm # 0 /\ step > Len(Statement.arms[arm]) /\ Statement.loop
    /\ arm' \in DOMAIN Statement.arms
    /\ step' = 1
    /\ UNCHANGED <<program, at, value>>

LeaveBlock ==
    /\ arm # 0 /\ step > Len(Statement.arms[arm])
    /\ at' = at + 1 /\ arm' = 0 /\ step' = 1
    /\ UNCHANGED <<program, value>>

Next == RunSimple \/ EnterBlock \/ RunArm \/ RepeatBlock \/ LeaveBlock

Spec == Init /\ [][Next]_vars

-----------------------------------------------------------------------------
Here == View(program, at)
Straight == FlowVar(program) /\ ~BranchReassigned(program)

FlowTypeOK ==
    /\ program \in Programs
    /\ at \in 1 .. Len(program.body) + 1
    /\ value \in Types \cup {Other, Unbound}
    /\ arm = 0 => step = 1
    /\ Here.types \subseteq Types /\ Here.may \subseteq Types \ Here.types

(* flow.py:7-9: a straight-line variable is tracked precisely.  A use sees *)
(* the class that the nearest assignment before it gave x, and is given    *)
(* none when x holds a value no assignment names.                          *)
ViewExact ==
    Straight => /\ value \in Types => value \in Here.types
                /\ Here.types # {} /\ value # Unbound => value \in Here.types

(* flow.py:10-15: whatever path the run takes, the class x holds is one of *)
(* those the view gives, the live ones and the widening.                   *)
NothingMissed == FlowVar(program) /\ value \in Types => value \in Here.types \cup Here.may

-----------------------------------------------------------------------------
(* When these two hold (see FlowProofs), and when they do not.  What x has *)
(* on entry is what the code takes it for: false of a parameter without    *)
(* annotation, constructed as one class, and of one whose annotation that  *)
(* of an assignment overrides.                                             *)
EntryKnown(p) == p.parameter => Base(p) = p.annotation

(* On the straight line x is bound by assignments to it only: false of     *)
(* y = (x := ...), which flow_types does not see.                          *)
BoundByAssignment(p) ==
    \A i \in 1 .. Len(p.body) :
        p.body[i].kind = "simple" /\ p.body[i].does # <<>> => IsAssigned(p.body[i].does[1])

Plain(p) ==
    FlowVar(p) /\ ~BranchReassigned(p) => EntryKnown(p) /\ BoundByAssignment(p)

(* The class x enters with is in view: false of an annotated parameter     *)
(* that a branch reassigns.                                                *)
EntryInView(p) ==
    FlowVar(p) => IF BranchReassigned(p) THEN p.annotation = {} ELSE p.annotation \subseteq Base(p)
=============================================================================
