----------------------------- MODULE FlowProofs -----------------------------
(***************************************************************************)
(* Theorems about Flow: what claude-ast says of a reassigned local against *)
(* what it holds, for functions of any length and shape.                   *)
(***************************************************************************)
EXTENDS Flow, TLAPS, NaturalsInduction, WellFoundedInduction

-----------------------------------------------------------------------------
(* A non-empty set of places in a body has a last one.                     *)
LEMMA MaxIsLast ==
    ASSUME NEW n \in Nat, NEW S \in SUBSET (1 .. n), S # {}
    PROVE  Max(S) \in S /\ \A j \in S : j <= Max(S)
<1> DEFINE back == {n - j : j \in S}
<1>1. back \in SUBSET Nat /\ back # {}
  <2>1. \A j \in S : j \in Nat /\ j <= n
    OBVIOUS
  <2>2. \A j \in S : n - j \in Nat
    BY <2>1
  <2>3. back # {}
    OBVIOUS
  <2> QED
    BY <2>2, <2>3
<1>2. PICK x \in back : \A y \in back : ~(<<y, x>> \in OpToRel(<, Nat))
  BY <1>1, NatLessThanWellFounded, WFMin
<1>3. PICK m \in S : x = n - m
  OBVIOUS
<1>4. \A y \in back : ~(y < x)
  BY <1>1, <1>2, Zenon DEF OpToRel
<1>5. ASSUME NEW j \in S PROVE m >= j
  <2>1. j \in Nat /\ m \in Nat /\ n - j \in back
    OBVIOUS
  <2>2. ~(n - j < n - m)
    BY <1>3, <1>4, <2>1
  <2> QED
    BY <2>1, <2>2
<1> QED
  BY <1>5 DEF Max

(* The live assignment changes at an assignment statement, and only there. *)
Assigns(p, i) ==
    p.body[i].kind = "simple" /\ p.body[i].does # <<>> /\ IsAssigned(p.body[i].does[1])

LEMMA LiveAtStart ==
    ASSUME NEW p
    PROVE  Live(p, 1) = <<>>
BY DEF Live

LEMMA LiveAfter ==
    ASSUME NEW p \in Programs, NEW i \in 1 .. Len(p.body)
    PROVE  Live(p, i + 1) = IF Assigns(p, i) THEN p.body[i].does ELSE Live(p, i)
<1> DEFINE before(k) == {j \in 1 .. k - 1 : Assigns(p, j)}
<1>1. \A k \in Nat : Live(p, k) = IF before(k) = {} THEN <<>> ELSE p.body[Max(before(k))].does
  BY DEF Live, Assigns
<1>2. i \in Nat /\ i + 1 \in Nat /\ (i + 1) - 1 = i
  OBVIOUS
<1>3. CASE Assigns(p, i)
  <2>1. before(i + 1) \in SUBSET (1 .. i) /\ i \in before(i + 1)
    BY <1>2, <1>3
  <2>2. /\ Max(before(i + 1)) \in before(i + 1)
        /\ \A j \in before(i + 1) : j <= Max(before(i + 1))
    <3> HIDE DEF before
    <3> QED
      BY <1>2, <2>1, MaxIsLast
  <2>3. Max(before(i + 1)) = i
    <3>1. Max(before(i + 1)) \in 1 .. i /\ i <= Max(before(i + 1))
      BY <2>1, <2>2
    <3> QED
      BY <1>2, <3>1
  <2> QED
    BY <1>1, <1>2, <1>3, <2>1, <2>3
<1>4. CASE ~Assigns(p, i)
  <2>1. before(i + 1) = before(i)
    BY <1>2, <1>4
  <2> QED
    BY <1>1, <1>2, <1>4, <2>1
<1> QED
  BY <1>3, <1>4

LEMMA LiveAssigns ==
    ASSUME NEW p \in Programs, NEW i \in 1 .. Len(p.body) + 1, Live(p, i) # <<>>
    PROVE  \E j \in 1 .. i - 1 : Assigns(p, j) /\ Live(p, i) = p.body[j].does
<1> DEFINE before == {j \in 1 .. i - 1 : Assigns(p, j)}
<1>1. Live(p, i) = IF before = {} THEN <<>> ELSE p.body[Max(before)].does
  BY DEF Live, Assigns
<1>2. before # {} /\ before \in SUBSET (1 .. i - 1) /\ i - 1 \in Nat
  BY <1>1, FlowAssumption
<1>3. Max(before) \in before
  <2> HIDE DEF before
  <2> QED
    BY <1>2, MaxIsLast
<1> QED
  BY <1>1, <1>2, <1>3

-----------------------------------------------------------------------------
(* The bindings of a function.                                             *)
LEMMA BodyTyped ==
    ASSUME NEW p \in Programs, NEW i \in 1 .. Len(p.body)
    PROVE  /\ i \in DOMAIN p.body
           /\ IsStatement(p.body[i])
           /\ Len(p.body) \in Nat
BY FlowAssumption

LEMMA SiteTyped ==
    ASSUME NEW p \in Programs, NEW site \in Sites(p)
    PROVE  /\ BindingAt(p, site) \in AnyBinding
           /\ site[1] \in DOMAIN p.body
<1>1. PICK i \in DOMAIN p.body : site \in UNION {{<<i, a, k>> :
              k \in DOMAIN Arms(p.body[i])[a]} : a \in DOMAIN Arms(p.body[i])}
  BY DEF Sites
<1>2. PICK a \in DOMAIN Arms(p.body[i]) :
          site \in {<<i, a, k>> : k \in DOMAIN Arms(p.body[i])[a]}
  BY <1>1
<1>3. PICK k \in DOMAIN Arms(p.body[i])[a] : site = <<i, a, k>>
  BY <1>2
<1>4. Arms(p.body[i]) \in Seq(Seq(AnyBinding))
  BY FlowAssumption DEF IsStatement
<1>5. Arms(p.body[i])[a] \in Seq(AnyBinding)
  BY <1>2, <1>4
<1>6. Arms(p.body[i])[a][k] \in AnyBinding
  BY <1>3, <1>5
<1> QED
  BY <1>3, <1>6 DEF BindingAt

LEMMA SiteOfArm ==
    ASSUME NEW p \in Programs, NEW i \in 1 .. Len(p.body),
           NEW a \in DOMAIN Arms(p.body[i]), NEW k \in DOMAIN Arms(p.body[i])[a]
    PROVE  <<i, a, k>> \in Sites(p) /\ BindingAt(p, <<i, a, k>>) = Arms(p.body[i])[a][k]
<1>1. i \in DOMAIN p.body
  BY FlowAssumption
<1>2. <<i, a, k>> \in {<<i, a, n>> : n \in DOMAIN Arms(p.body[i])[a]}
  OBVIOUS
<1>3. <<i, a, k>> \in UNION {{<<i, b, n>> : n \in DOMAIN Arms(p.body[i])[b]} :
                             b \in DOMAIN Arms(p.body[i])}
  BY <1>2
<1>4. <<i, a, k>> \in Sites(p)
  BY <1>1, <1>3 DEF Sites
<1> QED
  BY <1>4 DEF BindingAt

(* A simple statement has one arm with at most one binding.                *)
LEMMA SiteOfSimple ==
    ASSUME NEW p \in Programs, NEW i \in 1 .. Len(p.body),
           p.body[i].kind = "simple", p.body[i].does # <<>>
    PROVE  <<i, 1, 1>> \in Sites(p) /\ BindingAt(p, <<i, 1, 1>>) = p.body[i].does[1]
<1>1. Arms(p.body[i]) = <<p.body[i].does>> /\ Arms(p.body[i]) \in Seq(Seq(AnyBinding))
  BY BodyTyped DEF IsStatement, Arms
<1>2. 1 \in DOMAIN Arms(p.body[i]) /\ Arms(p.body[i])[1] = p.body[i].does
  BY <1>1
<1>3. p.body[i].does \in Seq(AnyBinding)
  BY <1>1, <1>2
<1>4. 1 \in DOMAIN p.body[i].does
  BY <1>3
<1> QED
  BY <1>2, <1>4, SiteOfArm

LEMMA TypesTyped ==
    ASSUME NEW p \in Programs
    PROVE  /\ \A b \in AllBindings(p) : b \in AnyBinding /\ b.types \subseteq Types
           /\ Assigned(p) \subseteq AllBindings(p)
           /\ MayTypes(p) \subseteq Types
           /\ Base(p) \subseteq Types
<1>1. \A b \in AllBindings(p) : b \in AnyBinding /\ b.types \subseteq Types
  BY SiteTyped DEF AllBindings, AnyBinding
<1>2. Assigned(p) \subseteq AllBindings(p)
  BY DEF Assigned, AllBindings, AssignedSites
<1>3. MayTypes(p) \subseteq Types
  BY <1>1, <1>2 DEF MayTypes
<1>4. Annotated(p) \subseteq Types
  BY <1>1 DEF Annotated
<1>5. Inferred(p) \subseteq Types
  BY <1>1 DEF Inferred
<1>6. p.annotation \subseteq Types
  BY FlowAssumption
<1> QED
  BY <1>1, <1>2, <1>3, <1>4, <1>5, <1>6 DEF Base

LEMMA LiveTyped ==
    ASSUME NEW p \in Programs, NEW i \in 1 .. Len(p.body) + 1
    PROVE  LiveTypes(p, Base(p), i) \subseteq Types
<1>1. CASE Live(p, i) = <<>>
  BY <1>1, TypesTyped DEF LiveTypes
<1>2. CASE Live(p, i) # <<>>
  <2>1. PICK j \in 1 .. i - 1 : Assigns(p, j) /\ Live(p, i) = p.body[j].does
    BY <1>2, LiveAssigns
  <2>2. j \in 1 .. Len(p.body)
    BY FlowAssumption
  <2>3. Live(p, i)[1] \in AllBindings(p)
    BY <2>1, <2>2, SiteOfSimple DEF Assigns, AllBindings
  <2> QED
    BY <1>2, <2>3, TypesTyped DEF LiveTypes
<1> QED
  BY <1>1, <1>2

LEMMA ViewTyped ==
    ASSUME NEW p \in Programs, NEW i \in 1 .. Len(p.body) + 1
    PROVE  View(p, i).types \subseteq Types /\ View(p, i).may \subseteq Types \ View(p, i).types
BY TypesTyped, LiveTyped DEF View, ReassignedView

-----------------------------------------------------------------------------
(* Where the run is: outside blocks, or in an arm of the one it is at.     *)
InBlock ==
    /\ at <= Len(program.body) /\ Statement.kind = "block"
    /\ arm \in DOMAIN Statement.arms
    /\ step \in 1 .. Len(Statement.arms[arm]) + 1

RunInv ==
    /\ program \in Programs
    /\ at \in 1 .. Len(program.body) + 1
    /\ value \in Types \cup {Other, Unbound}
    /\ arm = 0 => step = 1
    /\ arm # 0 => InBlock

LEMMA ValuesTyped ==
    ASSUME NEW ts \in SUBSET Types
    PROVE  Values(ts) \subseteq Types \cup {Other}
BY DEF Values

(* What a step does to x, in terms of the bindings of the function.        *)
LEMMA RunStep ==
    ASSUME RunInv, Next
    PROVE  /\ program' = program
           /\ \/ /\ at \in 1 .. Len(program.body) /\ Statement.kind = "simple" /\ arm = 0
                 /\ Statement.does = <<>> /\ value' = value /\ at' = at + 1
                 /\ UNCHANGED <<arm, step>>
              \/ /\ at \in 1 .. Len(program.body) /\ Statement.kind = "simple" /\ arm = 0
                 /\ Statement.does # <<>> /\ value' \in Values(Statement.does[1].types)
                 /\ Statement.does[1] \in AnyBinding
                 /\ at' = at + 1 /\ UNCHANGED <<arm, step>>
              \/ /\ at \in 1 .. Len(program.body) /\ Statement.kind = "block"
                 /\ at' = at /\ value' = value /\ (arm' # 0 => InBlock')
                 /\ (arm' = 0 => step' = 1)
              \/ /\ at \in 1 .. Len(program.body) /\ Statement.kind = "block" /\ arm # 0
                 /\ <<at, arm, step>> \in Sites(program)
                 /\ value' \in Values(BindingAt(program, <<at, arm, step>>).types)
                 /\ at' = at /\ arm' = arm /\ InBlock'
              \/ /\ at \in 1 .. Len(program.body) /\ Statement.kind = "block"
                 /\ at' = at + 1 /\ value' = value /\ arm' = 0 /\ step' = 1
<1>1. program \in Programs /\ Len(program.body) \in Nat
  BY FlowAssumption DEF RunInv
<1>2. CASE RunSimple
  <2>1. at \in 1 .. Len(program.body) /\ Statement.kind = "simple" /\ arm = 0
    BY <1>1, <1>2 DEF RunSimple, RunInv, InBlock
  <2>2. CASE Statement.does = <<>>
    BY <1>2, <2>1, <2>2 DEF RunSimple
  <2>3. CASE Statement.does # <<>>
    <3>1. Statement.does[1] \in AnyBinding
      BY <1>1, <2>1, <2>3, SiteOfSimple, SiteTyped DEF Statement
    <3> QED
      BY <1>2, <2>1, <2>3, <3>1 DEF RunSimple
  <2> QED
    BY <2>2, <2>3
<1>3. ASSUME NEW a, at \in 1 .. Len(program.body), Statement.kind = "block",
             a \in DOMAIN Statement.arms
      PROVE  /\ Statement.arms = Arms(program.body[at])
             /\ Statement.arms[a] \in Seq(AnyBinding)
             /\ Statement.arms \in Seq(Seq(AnyBinding))
  <2>1. Statement.arms = Arms(program.body[at])
    BY <1>3 DEF Statement, Arms
  <2>2. Arms(program.body[at]) \in Seq(Seq(AnyBinding))
    BY <1>1, <1>3, BodyTyped DEF IsStatement
  <2> QED
    BY <1>3, <2>1, <2>2
<1>4. CASE EnterBlock
  <2>1. at \in 1 .. Len(program.body)
    BY <1>1, <1>4 DEF EnterBlock, RunInv
  <2>2. Statement' = Statement
    BY <1>4 DEF EnterBlock, Statement
  <2>3. Statement.arms[arm'] \in Seq(AnyBinding) /\ step = 1
    BY <1>3, <1>4, <2>1 DEF EnterBlock, RunInv
  <2>4. arm' # 0 => InBlock'
    BY <1>4, <2>1, <2>2, <2>3 DEF EnterBlock, InBlock
  <2> QED
    BY <1>4, <2>1, <2>3, <2>4 DEF EnterBlock
<1>5. CASE RunArm
  <2>1. InBlock /\ at \in 1 .. Len(program.body)
    BY <1>1, <1>5 DEF RunArm, RunInv, InBlock
  <2>2. Statement' = Statement
    BY <1>5 DEF RunArm, Statement
  <2>3. Statement.arms[arm] \in Seq(AnyBinding) /\ Statement.arms = Arms(program.body[at])
    BY <1>3, <2>1 DEF InBlock
  <2>4. step \in DOMAIN Statement.arms[arm]
    BY <1>5, <2>1, <2>3 DEF RunArm, InBlock
  <2>5. /\ <<at, arm, step>> \in Sites(program)
        /\ BindingAt(program, <<at, arm, step>>) = Statement.arms[arm][step]
    BY <1>1, <2>1, <2>3, <2>4, SiteOfArm DEF InBlock
  <2>6. InBlock'
    BY <1>5, <2>1, <2>2, <2>3, <2>4 DEF RunArm, InBlock
  <2> QED
    BY <1>5, <2>1, <2>5, <2>6 DEF RunArm, InBlock
<1>6. CASE RepeatBlock
  <2>1. InBlock /\ at \in 1 .. Len(program.body)
    BY <1>1, <1>6 DEF RepeatBlock, RunInv, InBlock
  <2>2. Statement' = Statement
    BY <1>6 DEF RepeatBlock, Statement
  <2>3. Statement.arms[arm'] \in Seq(AnyBinding)
    BY <1>3, <1>6, <2>1 DEF RepeatBlock, InBlock
  <2>4. InBlock'
    BY <1>6, <2>1, <2>2, <2>3 DEF RepeatBlock, InBlock
  <2> QED
    BY <1>6, <2>1, <2>4 DEF RepeatBlock, InBlock
<1>7. CASE LeaveBlock
  <2>1. InBlock /\ at \in 1 .. Len(program.body)
    BY <1>1, <1>7 DEF LeaveBlock, RunInv, InBlock
  <2> QED
    BY <1>7, <2>1 DEF LeaveBlock, InBlock
<1>8. program' = program
  BY <1>2, <1>4, <1>5, <1>6, <1>7
     DEF Next, RunSimple, EnterBlock, RunArm, RepeatBlock, LeaveBlock
<1> QED
  BY <1>2, <1>4, <1>5, <1>6, <1>7, <1>8 DEF Next

LEMMA RunInvStep == RunInv /\ Next => RunInv'
<1> SUFFICES ASSUME RunInv, Next PROVE RunInv'
  OBVIOUS
<1>1. program' = program /\ program \in Programs /\ Len(program.body) \in Nat
  BY RunStep, FlowAssumption DEF RunInv
<1>2. at' \in 1 .. Len(program.body) + 1
  BY <1>1, RunStep DEF RunInv
<1>3. value' \in Types \cup {Other, Unbound}
  <2>1. \A b \in AnyBinding : Values(b.types) \subseteq Types \cup {Other}
    BY ValuesTyped DEF AnyBinding
  <2>2. \A site \in Sites(program) : BindingAt(program, site) \in AnyBinding
    BY <1>1, SiteTyped
  <2>3. \/ value' = value
        \/ \E b \in AnyBinding : value' \in Values(b.types)
    BY <2>2, RunStep
  <2> QED
    BY <2>1, <2>3 DEF RunInv
<1>4. (arm' = 0 => step' = 1) /\ (arm' # 0 => InBlock')
  BY RunStep DEF RunInv
<1> QED
  BY <1>1, <1>2, <1>3, <1>4 DEF RunInv

LEMMA RunInvInit == Init => RunInv
<1> SUFFICES ASSUME Init PROVE RunInv
  OBVIOUS
<1>1. program \in Programs /\ Len(program.body) \in Nat /\ program.annotation \subseteq Types
  BY FlowAssumption DEF Init
<1>2. Values(program.annotation) \subseteq Types \cup {Other}
  BY <1>1, ValuesTyped
<1> QED
  BY <1>1, <1>2 DEF Init, RunInv

LEMMA RunInvHolds == Spec => []RunInv
<1>1. RunInv /\ UNCHANGED vars => RunInv'
  BY DEF RunInv, InBlock, Statement, vars
<1> QED
  BY <1>1, RunInvInit, RunInvStep, PTL DEF Spec

(* The run stays inside its function, and the types that a use is given    *)
(* are classes the code names, none of them twice.                         *)
THEOREM FlowTyped == Spec => []FlowTypeOK
<1>1. RunInv => FlowTypeOK
  BY ViewTyped DEF RunInv, FlowTypeOK, Here
<1> QED
  BY <1>1, RunInvHolds, PTL

-----------------------------------------------------------------------------
(* A class that x holds comes from an assignment.                          *)
LEMMA ValueNamed ==
    ASSUME NEW b \in AnyBinding, NEW v \in Values(b.types)
    PROVE  /\ v \in Types => v \in b.types /\ IsAssigned(b)
           /\ b.types # {} => v \in b.types
BY FlowAssumption DEF Values, AnyBinding, IsAssigned

(* At a statement that binds nothing on the straight line, the live types  *)
(* stay.                                                                   *)
LEMMA LivePasses ==
    ASSUME NEW p \in Programs, NEW i \in 1 .. Len(p.body), ~Assigns(p, i)
    PROVE  Live(p, i + 1) = Live(p, i) /\ LiveTypes(p, Base(p), i + 1) = LiveTypes(p, Base(p), i)
BY LiveAfter DEF LiveTypes

LEMMA LiveTurns ==
    ASSUME NEW p \in Programs, NEW i \in 1 .. Len(p.body), Assigns(p, i)
    PROVE  /\ Live(p, i + 1) # <<>>
           /\ LiveTypes(p, Base(p), i + 1) = p.body[i].does[1].types
BY LiveAfter DEF LiveTypes, Assigns

-----------------------------------------------------------------------------
(* The types live at the next statement are exact on the straight line.    *)
Exact(v, ts) == (v \in Types => v \in ts) /\ (ts # {} /\ v # Unbound => v \in ts)
ExactInv == Straight => Exact(value, LiveTypes(program, Base(program), at))

LEMMA ExactStep ==
    ASSUME \A p \in Programs : Plain(p), RunInv, ExactInv, Next
    PROVE  ExactInv'
<1> SUFFICES ASSUME FlowVar(program), ~BranchReassigned(program)
             PROVE  Exact(value', LiveTypes(program, Base(program), at'))
  <2>1. program' = program
    BY RunStep
  <2> QED
    BY <2>1 DEF ExactInv, Straight
<1>1. program \in Programs /\ Exact(value, LiveTypes(program, Base(program), at))
  BY DEF RunInv, ExactInv, Straight
<1>2. CASE /\ at \in 1 .. Len(program.body) /\ Statement.kind = "simple"
           /\ Statement.does = <<>> /\ value' = value /\ at' = at + 1
  <2>1. ~Assigns(program, at)
    BY <1>2 DEF Assigns, Statement
  <2> QED
    BY <1>1, <1>2, <2>1, LivePasses
<1>3. CASE /\ at \in 1 .. Len(program.body) /\ Statement.kind = "simple"
           /\ Statement.does # <<>> /\ value' \in Values(Statement.does[1].types)
           /\ Statement.does[1] \in AnyBinding /\ at' = at + 1
  <2>1. Assigns(program, at)
    BY <1>1, <1>3 DEF Plain, BoundByAssignment, Assigns, Statement
  <2>2. LiveTypes(program, Base(program), at') = Statement.does[1].types
    BY <1>1, <1>3, <2>1, LiveTurns DEF Statement
  <2> QED
    BY <1>3, <2>2, ValueNamed DEF Exact
<1>4. CASE at' = at /\ value' = value
  BY <1>1, <1>4
<1>5. CASE /\ at \in 1 .. Len(program.body) /\ Statement.kind = "block"
           /\ <<at, arm, step>> \in Sites(program)
  BY <1>5 DEF BranchReassigned, Statement
<1>6. CASE /\ at \in 1 .. Len(program.body) /\ Statement.kind = "block"
           /\ at' = at + 1 /\ value' = value
  <2>1. ~Assigns(program, at)
    BY <1>6 DEF Assigns, Statement
  <2> QED
    BY <1>1, <1>6, <2>1, LivePasses
<1> QED
  BY <1>2, <1>3, <1>4, <1>5, <1>6, RunStep

LEMMA ExactInit ==
    ASSUME \A p \in Programs : Plain(p), Init
    PROVE  ExactInv
<1> SUFFICES ASSUME FlowVar(program), ~BranchReassigned(program)
             PROVE  Exact(value, LiveTypes(program, Base(program), 1))
  BY DEF ExactInv, Straight, Init
<1>1. program \in Programs /\ LiveTypes(program, Base(program), 1) = Base(program)
  BY LiveAtStart DEF LiveTypes, Init
<1>2. CASE program.parameter
  <2>1. Base(program) = program.annotation /\ value \in Values(program.annotation)
    BY <1>1, <1>2 DEF Plain, EntryKnown, Init
  <2> QED
    BY <1>1, <2>1, FlowAssumption DEF Values, Exact
<1>3. CASE ~program.parameter
  BY <1>3, FlowAssumption DEF Init, Exact
<1> QED
  BY <1>2, <1>3

(* For functions of any length whose entry is known and whose walruses, if *)
(* any, are of other names: a use of a straight-line variable is given the *)
(* class that the nearest assignment before it gave x, whatever the bodies *)
(* of blocks that do not bind x.                                           *)
THEOREM StraightIsExact == (\A p \in Programs : Plain(p)) => (Spec => []ViewExact)
<1> SUFFICES ASSUME \A p \in Programs : Plain(p) PROVE Spec => []ViewExact
  OBVIOUS
<1>1. Init => ExactInv
  BY ExactInit
<1>2. RunInv /\ ExactInv /\ [Next]_vars => ExactInv'
  <2>1. ExactInv /\ UNCHANGED vars => ExactInv'
    BY DEF ExactInv, Exact, Straight, vars
  <2> QED
    BY <2>1, ExactStep
<1>3. ExactInv => ViewExact
  BY DEF ExactInv, Exact, ViewExact, Straight, Here, View, ReassignedView
<1> QED
  BY <1>1, <1>2, <1>3, RunInvHolds, PTL DEF Spec

-----------------------------------------------------------------------------
(* A class that x holds is that of an assignment, or the one it came with  *)
(* and no assignment of the straight line is behind.                       *)
SourcedInv ==
    value \in Types =>
        \/ value \in MayTypes(program)
        \/ value \in program.annotation /\ Live(program, at) = <<>>

LEMMA SourcedStep ==
    ASSUME RunInv, SourcedInv, Next
    PROVE  SourcedInv'
<1>1. program' = program /\ program \in Programs
  BY RunStep DEF RunInv
<1>2. ASSUME NEW site \in Sites(program), value' \in Values(BindingAt(program, site).types)
      PROVE  SourcedInv'
  <2>1. BindingAt(program, site) \in AnyBinding
    BY <1>1, SiteTyped
  <2>2. value' \in Types =>
            value' \in BindingAt(program, site).types /\ IsAssigned(BindingAt(program, site))
    BY <1>2, <2>1, ValueNamed
  <2>3. IsAssigned(BindingAt(program, site)) => BindingAt(program, site) \in Assigned(program)
    BY DEF Assigned, AssignedSites
  <2> QED
    BY <1>1, <2>2, <2>3 DEF SourcedInv, MayTypes
<1>3. ASSUME value' = value, at \in 1 .. Len(program.body), at' = at + 1, ~Assigns(program, at)
      PROVE  SourcedInv'
  BY <1>1, <1>3, LivePasses DEF SourcedInv
<1>4. CASE at' = at /\ value' = value
  BY <1>1, <1>4 DEF SourcedInv
<1>5. CASE /\ at \in 1 .. Len(program.body) /\ Statement.kind = "simple"
           /\ Statement.does = <<>> /\ value' = value /\ at' = at + 1
  BY <1>3, <1>5 DEF Assigns, Statement
<1>6. CASE /\ at \in 1 .. Len(program.body) /\ Statement.kind = "simple"
           /\ Statement.does # <<>> /\ value' \in Values(Statement.does[1].types)
  BY <1>1, <1>2, <1>6, SiteOfSimple DEF Statement
<1>7. CASE /\ at \in 1 .. Len(program.body) /\ Statement.kind = "block"
           /\ at' = at + 1 /\ value' = value
  BY <1>3, <1>7 DEF Assigns, Statement
<1> QED
  BY <1>2, <1>4, <1>5, <1>6, <1>7, RunStep

(* For functions of any length and shape, loops and branches included: the *)
(* class x holds at a statement is one of those its uses there are given,  *)
(* so long as the class it enters with is in view.                         *)
THEOREM ViewMissesNothing == (\A p \in Programs : EntryInView(p)) => (Spec => []NothingMissed)
<1> SUFFICES ASSUME \A p \in Programs : EntryInView(p) PROVE Spec => []NothingMissed
  OBVIOUS
<1>1. Init => SourcedInv
  <2> SUFFICES ASSUME Init PROVE SourcedInv
    OBVIOUS
  <2>1. CASE program.parameter
    BY <2>1, LiveAtStart, FlowAssumption DEF Init, SourcedInv, Values
  <2>2. CASE ~program.parameter
    BY <2>2, FlowAssumption DEF Init, SourcedInv
  <2> QED
    BY <2>1, <2>2
<1>2. RunInv /\ SourcedInv /\ [Next]_vars => SourcedInv'
  <2>1. SourcedInv /\ UNCHANGED vars => SourcedInv'
    BY DEF SourcedInv, vars
  <2> QED
    BY <2>1, SourcedStep
<1>3. RunInv /\ SourcedInv => NothingMissed
  <2> SUFFICES ASSUME RunInv, SourcedInv, FlowVar(program), value \in Types
               PROVE  value \in Here.types \cup Here.may
    BY DEF NothingMissed
  <2>1. CASE BranchReassigned(program)
    BY <2>1 DEF EntryInView, RunInv, SourcedInv, Here, View, ReassignedView
  <2>2. CASE ~BranchReassigned(program)
    <3>1. value \in MayTypes(program) \/ value \in LiveTypes(program, Base(program), at)
      BY <2>2 DEF EntryInView, RunInv, SourcedInv, LiveTypes
    <3> QED
      BY <2>2, <3>1 DEF Here, View, ReassignedView
  <2> QED
    BY <2>1, <2>2
<1> QED
  BY <1>1, <1>2, <1>3, RunInvHolds, PTL DEF Spec
=============================================================================
