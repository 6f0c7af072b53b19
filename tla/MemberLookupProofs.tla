------------------------- MODULE MemberLookupProofs -------------------------
(***************************************************************************)
(* The walk of _member_lookup answers with the nearest definition, for     *)
(* every set of classes, every graph of bases and every set of definers.   *)
(*                                                                         *)
(* The walk is a search, so the argument has two halves that hold          *)
(* throughout: nothing is reached that is not above Root (Sound), and      *)
(* whatever is above Root is reached or still on the stack (Frontier).     *)
(* When the stack is empty the classes seen are closed, and the two halves *)
(* meet in the least closed set.                                           *)
(***************************************************************************)
EXTENDS MemberLookup, RecursionTheorems

TypeInv ==
    /\ bases \in [Class -> Seq(Class)]
    /\ owners \subseteq Class
    /\ stack \in Seq(Class)
    /\ seen \subseteq Class

Sound == \A S \in SUBSET Class : Closed(S) => seen \cup ToSet(stack) \subseteq S \cup {Root}

Frontier ==
    /\ Root \in seen
    /\ \A c \in seen \ owners : ToSet(bases[c]) \subseteq seen \cup ToSet(stack)

Tally == Walking => Root \notin owners /\ found = seen \cap owners

WalkInv == TypeInv /\ Sound /\ Frontier /\ Tally /\ AnswersNearest

-----------------------------------------------------------------------------
(* What the stack holds, after its last class is taken off and others are  *)
(* put on.                                                                 *)
LEMMA StackSplit ==
    ASSUME NEW s \in Seq(Class), s # <<>>
    PROVE  /\ Last(s) \in Class
           /\ Front(s) \in Seq(Class)
           /\ ToSet(s) = ToSet(Front(s)) \cup {Last(s)}
<1>1. Len(s) \in Nat /\ Len(s) > 0 /\ Len(s) = Len(s) - 1 + 1
  OBVIOUS
<1>2. Front(s) \in Seq(Class) /\ Len(Front(s)) = Len(s) - 1
      /\ \A i \in 1 .. Len(s) - 1 : Front(s)[i] = s[i]
  BY <1>1 DEF Front
<1>3. Last(s) = s[Len(s)] /\ Last(s) \in Class
  BY <1>1 DEF Last
<1>4. DOMAIN s = 1 .. Len(s) /\ DOMAIN Front(s) = 1 .. Len(s) - 1
  BY <1>2
<1>5. 1 .. Len(s) = (1 .. Len(s) - 1) \cup {Len(s)}
  BY <1>1
<1>6. ToSet(s) = {s[i] : i \in 1 .. Len(s) - 1} \cup {s[Len(s)]}
  BY <1>4, <1>5 DEF ToSet
<1>7. ToSet(Front(s)) = {s[i] : i \in 1 .. Len(s) - 1}
  BY <1>2, <1>4 DEF ToSet
<1>8. QED
  BY <1>2, <1>3, <1>6, <1>7

LEMMA StackJoin ==
    ASSUME NEW s \in Seq(Class), NEW t \in Seq(Class)
    PROVE  /\ s \o t \in Seq(Class)
           /\ ToSet(s \o t) = ToSet(s) \cup ToSet(t)
<1>1. s \o t \in Seq(Class) /\ Len(s \o t) = Len(s) + Len(t)
      /\ DOMAIN s = 1 .. Len(s) /\ DOMAIN t = 1 .. Len(t)
      /\ DOMAIN (s \o t) = 1 .. Len(s) + Len(t)
  OBVIOUS
<1>2. \A i \in 1 .. Len(s) : (s \o t)[i] = s[i] /\ i \in 1 .. Len(s) + Len(t)
  OBVIOUS
<1>3. \A i \in 1 .. Len(t) : (s \o t)[Len(s) + i] = t[i] /\ Len(s) + i \in 1 .. Len(s) + Len(t)
  OBVIOUS
<1>4. \A i \in 1 .. Len(s) + Len(t) :
        i \in 1 .. Len(s) \/ \E j \in 1 .. Len(t) : i = Len(s) + j
  <2> TAKE i \in 1 .. Len(s) + Len(t)
  <2>1. CASE i <= Len(s)
    BY <2>1
  <2>2. CASE i > Len(s)
    <3>1. i - Len(s) \in 1 .. Len(t) /\ i = Len(s) + (i - Len(s))
      BY <2>2
    <3>2. QED
      BY <3>1
  <2>3. QED
    BY <2>1, <2>2
<1>5. ToSet(s \o t) \subseteq ToSet(s) \cup ToSet(t)
  <2> SUFFICES ASSUME NEW i \in 1 .. Len(s) + Len(t)
               PROVE  (s \o t)[i] \in ToSet(s) \cup ToSet(t)
    BY <1>1 DEF ToSet
  <2>1. CASE i \in 1 .. Len(s)
    BY <1>1, <1>2, <2>1 DEF ToSet
  <2>2. CASE \E j \in 1 .. Len(t) : i = Len(s) + j
    BY <1>1, <1>3, <2>2 DEF ToSet
  <2> QED
    BY <1>4, <2>1, <2>2
<1>6. ToSet(s) \subseteq ToSet(s \o t)
  BY <1>1, <1>2 DEF ToSet
<1>7. ToSet(t) \subseteq ToSet(s \o t)
  BY <1>1, <1>3 DEF ToSet
<1>8. QED
  BY <1>1, <1>5, <1>6, <1>7

LEMMA SubsetOfClass ==
    ASSUME NEW s \in Seq(Class)
    PROVE  ToSet(s) \subseteq Class
BY DEF ToSet

LEMMA EmptyStack == ToSet(<<>>) = {}
BY DEF ToSet

-----------------------------------------------------------------------------
LEMMA InitWalk == Init => WalkInv
<1> SUFFICES ASSUME Init PROVE WalkInv
  OBVIOUS
<1> USE LookupAssumption
<1>1. TypeInv
  BY DEF Init, TypeInv
<1>2. Sound
  <2> SUFFICES ASSUME NEW S \in SUBSET Class, Closed(S)
               PROVE  seen \cup ToSet(stack) \subseteq S \cup {Root}
    BY DEF Sound
  <2>1. ToSet(bases[Root]) \subseteq S \cup {Root}
    BY DEF Closed
  <2>2. QED
    BY <2>1 DEF Init
<1>3. Frontier
  BY DEF Init, Frontier
<1>4. Tally
  BY DEF Init, Tally, Walking
<1>5. AnswersNearest
  BY DEF Init, AnswersNearest, Walking
<1>6. QED
  BY <1>1, <1>2, <1>3, <1>4, <1>5 DEF WalkInv

(* Steps that keep the graph keep what is closed.                          *)
LEMMA ClosedStable ==
    ASSUME UNCHANGED <<bases, owners>>, NEW S
    PROVE  Closed(S)' <=> Closed(S)
BY DEF Closed

LEMMA SkipKeeps ==
    ASSUME WalkInv, Skip
    PROVE  WalkInv'
<1> USE LookupAssumption
<1>1. /\ stack \in Seq(Class) /\ stack # <<>> /\ Last(stack) \in seen
      /\ stack' = Front(stack)
      /\ UNCHANGED <<bases, owners, seen, found, answer>>
  BY DEF WalkInv, TypeInv, Skip
<1>2. /\ Front(stack) \in Seq(Class)
      /\ ToSet(stack) = ToSet(stack') \cup {Last(stack)}
  BY <1>1, StackSplit
<1>3. TypeInv'
  BY <1>1, <1>2 DEF WalkInv, TypeInv
<1>4. Sound'
  BY <1>1, <1>2, ClosedStable DEF WalkInv, Sound
<1>5. Frontier'
  BY <1>1, <1>2 DEF WalkInv, Frontier
<1>6. Tally' /\ AnswersNearest'
  BY <1>1 DEF WalkInv, Tally, AnswersNearest, Walking, Skip
<1>7. QED
  BY <1>3, <1>4, <1>5, <1>6 DEF WalkInv

LEMMA HitKeeps ==
    ASSUME WalkInv, Hit
    PROVE  WalkInv'
<1> USE LookupAssumption
<1>1. /\ stack \in Seq(Class) /\ stack # <<>> /\ Last(stack) \in owners \ seen
      /\ stack' = Front(stack) /\ seen' = seen \cup {Last(stack)}
      /\ found' = found \cup {Last(stack)}
      /\ UNCHANGED <<bases, owners, answer>>
  BY DEF WalkInv, TypeInv, Hit
<1>2. /\ Front(stack) \in Seq(Class) /\ Last(stack) \in Class
      /\ ToSet(stack) = ToSet(stack') \cup {Last(stack)}
  BY <1>1, StackSplit
<1>3. TypeInv'
  BY <1>1, <1>2 DEF WalkInv, TypeInv
<1>4. Sound'
  <2>1. seen' \cup ToSet(stack') \subseteq seen \cup ToSet(stack)
    BY <1>1, <1>2
  <2>2. QED
    BY <1>1, <2>1, ClosedStable DEF WalkInv, Sound
<1>5. Frontier'
  <2>1. seen' \ owners' = seen \ owners /\ seen \cup ToSet(stack) = seen' \cup ToSet(stack')
    BY <1>1, <1>2
  <2>2. QED
    BY <1>1, <2>1 DEF WalkInv, Frontier
<1>6. Tally'
  BY <1>1 DEF WalkInv, Tally, Walking, Hit
<1>7. AnswersNearest'
  BY <1>1 DEF AnswersNearest, Walking, Hit
<1>8. QED
  BY <1>3, <1>4, <1>5, <1>6, <1>7 DEF WalkInv

LEMMA ClimbKeeps ==
    ASSUME WalkInv, Climb
    PROVE  WalkInv'
<1> USE LookupAssumption
<1> DEFINE c == Last(stack)
<1>1. /\ stack \in Seq(Class) /\ stack # <<>> /\ c \notin owners \cup seen
      /\ stack' = Front(stack) \o bases[c] /\ seen' = seen \cup {c}
      /\ UNCHANGED <<bases, owners, found, answer>>
  BY DEF WalkInv, TypeInv, Climb
<1>2. /\ Front(stack) \in Seq(Class) /\ c \in Class
      /\ ToSet(stack) = ToSet(Front(stack)) \cup {c}
  BY <1>1, StackSplit
<1>3. bases[c] \in Seq(Class)
  BY <1>2 DEF WalkInv, TypeInv
<1>4. stack' \in Seq(Class) /\ ToSet(stack') = ToSet(Front(stack)) \cup ToSet(bases[c])
  BY <1>1, <1>2, <1>3, StackJoin
<1>5. TypeInv'
  BY <1>1, <1>2, <1>4 DEF WalkInv, TypeInv
<1>6. Sound'
  <2> SUFFICES ASSUME NEW S \in SUBSET Class, Closed(S)
               PROVE  seen' \cup ToSet(stack') \subseteq S \cup {Root}
    BY <1>1, ClosedStable DEF Sound
  <2>1. seen \cup ToSet(stack) \subseteq S \cup {Root}
    BY DEF WalkInv, Sound
  <2>2. c \in {Root} \cup (S \ owners)
    BY <1>1, <1>2, <2>1
  <2>3. ToSet(bases[c]) \subseteq S \cup {Root}
    BY <2>2 DEF Closed
  <2>4. QED
    BY <1>1, <1>2, <1>4, <2>1, <2>3
<1>7. Frontier'
  <2>1. seen \cup ToSet(stack) \subseteq seen' \cup ToSet(stack')
    BY <1>1, <1>2, <1>4
  <2>2. ToSet(bases[c]) \subseteq seen' \cup ToSet(stack')
    BY <1>4
  <2>3. QED
    BY <1>1, <2>1, <2>2 DEF WalkInv, Frontier
<1>8. Tally' /\ AnswersNearest'
  BY <1>1 DEF WalkInv, Tally, AnswersNearest, Walking, Climb
<1>9. QED
  BY <1>5, <1>6, <1>7, <1>8 DEF WalkInv

(* With nothing left to visit, the definitions met are the nearest ones.   *)
LEMMA FoundNearest ==
    ASSUME WalkInv, Walking, stack = <<>>
    PROVE  found = Nearest
<1> USE LookupAssumption
<1>1. /\ seen \subseteq Class /\ Root \in seen /\ Root \notin owners
      /\ found = seen \cap owners
  BY DEF WalkInv, TypeInv, Frontier, Tally
<1>2. Closed(seen)
  BY <1>1, EmptyStack DEF WalkInv, Frontier, Closed
<1>3. Above \subseteq seen
  BY <1>1, <1>2 DEF Above
<1>4. seen \ {Root} \subseteq Above
  BY <1>1 DEF WalkInv, Sound, Above
<1>5. QED
  BY <1>1, <1>3, <1>4 DEF Nearest

LEMMA ReturnKeeps ==
    ASSUME WalkInv, Return
    PROVE  WalkInv'
<1>1. /\ Walking /\ stack = <<>> /\ answer' = <<Only(found)>>
      /\ UNCHANGED <<bases, owners, stack, seen, found>>
  BY DEF Return
<1>2. found = Nearest /\ Root \notin owners
  BY <1>1, FoundNearest DEF WalkInv, Tally
<1>3. Nearest' = Nearest
  BY <1>1 DEF Nearest, Above, Closed
<1>4. AnswersNearest'
  BY <1>1, <1>2, <1>3 DEF AnswersNearest
<1>5. answer' # <<>>
  BY <1>1
<1>6. TypeInv' /\ Frontier' /\ Tally'
  BY <1>1, <1>5 DEF WalkInv, TypeInv, Frontier, Tally, Walking
<1>7. Sound'
  BY <1>1, ClosedStable DEF WalkInv, Sound
<1>8. QED
  BY <1>4, <1>6, <1>7 DEF WalkInv

LEMMA StutterKeeps ==
    ASSUME WalkInv, UNCHANGED vars
    PROVE  WalkInv'
BY DEF WalkInv, TypeInv, Sound, Frontier, Tally, AnswersNearest, Walking, Nearest, Above,
       Closed, vars

(* The walk stays among the classes of the tree, and its answer is one of  *)
(* them or none.                                                           *)
THEOREM LookupTyped == Spec => []LookupTypeOK
<1> USE LookupAssumption
<1>1. ASSUME Init PROVE LookupTypeOK
  BY <1>1 DEF Init, LookupTypeOK
<1>2. ASSUME LookupTypeOK, [Next]_vars PROVE LookupTypeOK'
  <2>1. bases \in [Class -> Seq(Class)] /\ stack \in Seq(Class)
    BY <1>2 DEF LookupTypeOK
  <2>2. stack # <<>> => Last(stack) \in Class /\ Front(stack) \in Seq(Class)
    BY <2>1, StackSplit
  <2>3. CASE Skip
    BY <1>2, <2>2, <2>3 DEF LookupTypeOK, Skip
  <2>4. CASE Hit
    BY <1>2, <2>2, <2>4 DEF LookupTypeOK, Hit
  <2>5. CASE Climb
    <3>1. Front(stack) \o bases[Last(stack)] \in Seq(Class)
      BY <2>1, <2>2, <2>5, StackJoin DEF Climb
    <3>2. QED
      BY <1>2, <2>2, <2>5, <3>1 DEF LookupTypeOK, Climb
  <2>6. CASE Return
    <3>1. Only(found) \in Class \cup {None}
      BY <1>2 DEF Only, LookupTypeOK
    <3>2. QED
      BY <1>2, <2>6, <3>1 DEF LookupTypeOK, Return
  <2>7. CASE UNCHANGED vars
    BY <1>2, <2>7 DEF LookupTypeOK, vars
  <2>8. QED
    BY <1>2, <2>3, <2>4, <2>5, <2>6, <2>7 DEF Next
<1>3. QED
  BY <1>1, <1>2, PTL DEF Spec

(* typeres.py:435-441: whatever the graph of bases, cycles included, and   *)
(* whatever classes define the attribute, the lookup returns the class's   *)
(* own member, else the one nearest definition above it, else nothing.     *)
THEOREM LookupAnswersNearest == Spec => []AnswersNearest
<1>1. WalkInv /\ [Next]_vars => WalkInv'
  BY SkipKeeps, HitKeeps, ClimbKeeps, ReturnKeeps, StutterKeeps DEF Next
<1>2. WalkInv => AnswersNearest
  BY DEF WalkInv
<1>3. QED
  BY InitWalk, <1>1, <1>2, PTL DEF Spec

-----------------------------------------------------------------------------
(* The merge.  What is taken is in the order, and a class enters it only   *)
(* when those before it in some list that has it are there.                *)
Explained(lists, order, k) ==
    \E i \in DOMAIN lists : \E p \in 1 .. Len(lists[i]) :
        /\ order[k] = lists[i][p]
        /\ \A q \in 1 .. p - 1 : \E j \in 1 .. k - 1 : order[j] = lists[i][q]

Merges(lists) ==
    {m \in [order : Seq(Class), taken : [DOMAIN lists -> Nat]] :
        /\ \A i \in DOMAIN lists :
              /\ m.taken[i] <= Len(lists[i])
              /\ \A k \in 1 .. m.taken[i] : \E j \in DOMAIN m.order : m.order[j] = lists[i][k]
        /\ \A k \in DOMAIN m.order : Explained(lists, m.order, k)}

Start(lists) == [order |-> <<>>, taken |-> [i \in DOMAIN lists |-> 0]]

LEMMA StartMerges ==
    ASSUME NEW lists \in Seq(Seq(Class))
    PROVE  Start(lists) \in Merges(lists)
BY DEF Start, Merges

LEMMA TakeMerges ==
    ASSUME NEW lists \in Seq(Seq(Class)), NEW m \in Merges(lists),
           NEW i \in Waiting(lists, m.taken)
    PROVE  Take(lists, m, HeadOf(lists, m.taken, i)) \in Merges(lists)
<1> DEFINE next == HeadOf(lists, m.taken, i)
           t == Take(lists, m, next)
           place == m.taken[i] + 1
<1>1. /\ m.order \in Seq(Class) /\ m.taken \in [DOMAIN lists -> Nat]
      /\ \A j \in DOMAIN lists : lists[j] \in Seq(Class) /\ m.taken[j] <= Len(lists[j])
  BY DEF Merges
<1>2. i \in DOMAIN lists /\ place \in 1 .. Len(lists[i]) /\ next = lists[i][place]
  BY <1>1 DEF Waiting, HeadOf
<1>3. next \in Class
  BY <1>1, <1>2
<1>4. /\ t.order = Append(m.order, next) /\ t.order \in Seq(Class)
      /\ Len(t.order) = Len(m.order) + 1
      /\ t.order[Len(m.order) + 1] = next
      /\ \A k \in 1 .. Len(m.order) : t.order[k] = m.order[k]
      /\ Len(m.order) \in Nat /\ DOMAIN m.order = 1 .. Len(m.order)
      /\ DOMAIN t.order = 1 .. Len(m.order) + 1
  BY <1>1, <1>3 DEF Take
<1>5. \A j \in DOMAIN lists :
          \/ t.taken[j] = m.taken[j]
          \/ /\ t.taken[j] = m.taken[j] + 1 /\ t.taken[j] <= Len(lists[j])
             /\ lists[j][t.taken[j]] = next
  BY <1>1 DEF Take, Waiting, HeadOf
<1>6. t.taken \in [DOMAIN lists -> Nat] /\ t = [order |-> t.order, taken |-> t.taken]
  BY <1>1 DEF Take
<1> HIDE DEF next, t
<1>7. ASSUME NEW j \in DOMAIN lists
      PROVE  /\ t.taken[j] <= Len(lists[j])
             /\ \A k \in 1 .. t.taken[j] : \E n \in DOMAIN t.order : t.order[n] = lists[j][k]
  <2>1. ASSUME NEW k \in 1 .. m.taken[j]
        PROVE  \E n \in DOMAIN t.order : t.order[n] = lists[j][k]
    <3>1. PICK n \in DOMAIN m.order : m.order[n] = lists[j][k]
      BY DEF Merges
    <3>2. n \in DOMAIN t.order /\ t.order[n] = m.order[n]
      BY <1>4
    <3> QED
      BY <3>1, <3>2
  <2>2. CASE t.taken[j] = m.taken[j]
    BY <1>1, <2>1, <2>2
  <2>3. CASE /\ t.taken[j] = m.taken[j] + 1 /\ t.taken[j] <= Len(lists[j])
             /\ lists[j][t.taken[j]] = next
    <3>1. \E n \in DOMAIN t.order : t.order[n] = lists[j][t.taken[j]]
      <4>1. Len(m.order) + 1 \in DOMAIN t.order
        BY <1>4
      <4> QED
        BY <1>4, <2>3, <4>1
    <3>2. \A k \in 1 .. t.taken[j] : k \in 1 .. m.taken[j] \/ k = t.taken[j]
      BY <1>1, <2>3
    <3> QED
      BY <2>1, <2>3, <3>1, <3>2
  <2> QED
    BY <1>5, <2>2, <2>3
<1>8. ASSUME NEW k \in DOMAIN t.order
      PROVE  Explained(lists, t.order, k)
  <2>1. CASE k \in DOMAIN m.order
    <3>1. Explained(lists, m.order, k)
      BY <2>1 DEF Merges
    <3>2. k \in 1 .. Len(m.order) /\ \A j \in 1 .. k - 1 : j \in 1 .. Len(m.order)
      BY <1>1, <2>1
    <3>3. t.order[k] = m.order[k] /\ \A j \in 1 .. k - 1 : t.order[j] = m.order[j]
      BY <1>4, <3>2
    <3> QED
      BY <3>1, <3>3 DEF Explained
  <2>2. CASE k = Len(m.order) + 1
    <3>1. t.order[k] = lists[i][place]
      BY <1>2, <1>4, <2>2
    <3>2. ASSUME NEW q \in 1 .. place - 1
          PROVE  \E j \in 1 .. k - 1 : t.order[j] = lists[i][q]
      <4>1. q \in 1 .. m.taken[i]
        BY <1>1, <1>2
      <4>2. PICK j \in DOMAIN m.order : m.order[j] = lists[i][q]
        BY <1>2, <4>1 DEF Merges
      <4>3. j \in 1 .. k - 1 /\ t.order[j] = m.order[j]
        BY <1>4, <2>2
      <4> QED
        BY <4>2, <4>3
    <3> QED
      BY <1>2, <3>1, <3>2 DEF Explained
  <2> QED
    BY <1>1, <1>4, <2>1, <2>2
<1> QED
  BY <1>4, <1>6, <1>7, <1>8 DEF Merges, t, next

LEMMA RoundMerges ==
    ASSUME NEW lists \in Seq(Seq(Class)), NEW m \in Merges(lists)
    PROVE  Round(lists, m) \in Merges(lists)
<1> DEFINE good == Good(lists, m.taken)
<1>1. CASE good = {}
  BY <1>1 DEF Round
<1>2. CASE good # {}
  <2>1. good \subseteq Waiting(lists, m.taken) /\ good \in SUBSET Nat
    BY DEF Good, Waiting
  <2>2. Min(good) \in Waiting(lists, m.taken)
    <3> HIDE DEF good
    <3> QED
      BY <1>2, <2>1, MinIsLeast
  <2> QED
    BY <1>2, <2>2, TakeMerges DEF Round
<1> QED
  BY <1>1, <1>2

LEMMA RoundsMerge ==
    ASSUME NEW lists \in Seq(Seq(Class))
    PROVE  \A n \in Nat : Rounds(lists)[n] \in Merges(lists)
<1> DEFINE below == [n \in Nat |-> IF n = 0 THEN {} ELSE {n - 1}]
           S == Merges(lists)
           step == [n \in Nat |-> [h \in [below[n] -> S] |->
                       IF n = 0 THEN Start(lists) ELSE Round(lists, h[n - 1])]]
           Body(g) == [n \in Nat |-> IF n = 0 THEN Start(lists) ELSE Round(lists, g[n - 1])]
<1>1. below \in [Nat -> SUBSET Nat]
  <2>1. \A n \in Nat : (IF n = 0 THEN {} ELSE {n - 1}) \in SUBSET Nat
    OBVIOUS
  <2> QED
    BY <2>1
<1>2. Founded(Nat, below)
  <2> SUFFICES ASSUME NEW T \in SUBSET Nat, T # {}
               PROVE  \E n \in T : below[n] \cap T = {}
    BY DEF Founded
  <2>1. PICK m \in T : \A k \in T : m <= k
    BY MinIsLeast
  <2>2. below[m] = IF m = 0 THEN {} ELSE {m - 1}
    BY Zenon
  <2> HIDE DEF below
  <2>3. m - 1 \notin T
    BY <2>1
  <2> QED
    BY <2>2, <2>3
<1>3. ASSUME NEW n \in Nat, NEW h \in [below[n] -> S]
      PROVE  /\ step[n][h] \in S
             /\ step[n][h] = IF n = 0 THEN Start(lists) ELSE Round(lists, h[n - 1])
  <2>1. n # 0 => n - 1 \in below[n]
    BY Zenon
  <2>2. n # 0 => h[n - 1] \in S
    BY <2>1
  <2>3. step[n] = [g \in [below[n] -> S] |->
                       IF n = 0 THEN Start(lists) ELSE Round(lists, g[n - 1])]
    BY Zenon
  <2>4. step[n][h] = IF n = 0 THEN Start(lists) ELSE Round(lists, h[n - 1])
    BY <2>3, Zenon
  <2> QED
    BY <2>2, <2>4, StartMerges, RoundMerges
<1>4. \A n \in Nat : n # 0 => n - 1 \in below[n]
  BY Zenon
<1>5. Rounds(lists) = CHOOSE g : g = Body(g)
  BY Zenon DEF Rounds, Start
<1> HIDE DEF below, S, step
<1>6. Passes(Nat, below, S, step)
  BY <1>3 DEF Passes
<1>7. PICK f \in [Nat -> S] : Follows(Nat, below, step, f)
  BY <1>1, <1>2, <1>6, Recursion
<1>8. \A n \in Nat : f[n] = IF n = 0 THEN Start(lists) ELSE Round(lists, f[n - 1])
  <2> TAKE n \in Nat
  <2> DEFINE h == [b \in below[n] |-> f[b]]
  <2>1. h \in [below[n] -> S]
    BY <1>1, <1>7
  <2>2. n # 0 => h[n - 1] = f[n - 1]
    BY <1>4
  <2> HIDE DEF h
  <2>3. f[n] = step[n][h]
    BY <1>7 DEF h, Follows
  <2> QED
    BY <1>3, <2>1, <2>2, <2>3
<1>9. f = Body(f)
  BY <1>7, <1>8
<1>10. Rounds(lists) = Body(Rounds(lists))
  BY <1>5, <1>9, Zenon
<1> DEFINE g == Rounds(lists)
<1>11. \A n \in Nat : g[n] = IF n = 0 THEN Start(lists) ELSE Round(lists, g[n - 1])
  BY <1>10
<1> HIDE DEF g, Body
<1>12. ASSUME NEW n \in Nat
       PROVE  n = 0 \/ (n - 1 \in Nat /\ g[n - 1] \in S) => g[n] \in S
  BY <1>11, StartMerges, RoundMerges DEF S
<1> DEFINE T == {n \in Nat : g[n] \notin S}
<1>13. T = {}
  <2> SUFFICES ASSUME T # {} PROVE FALSE
    OBVIOUS
  <2>1. Min(T) \in T /\ \A k \in T : Min(T) <= k
    <3>1. T \in SUBSET Nat
      OBVIOUS
    <3> HIDE DEF T
    <3> QED
      BY <3>1, MinIsLeast
  <2>2. Min(T) = 0 \/ (Min(T) - 1 \in Nat /\ Min(T) - 1 \notin T)
    BY <2>1
  <2> QED
    BY <1>12, <2>1, <2>2
<1> QED
  BY <1>13 DEF g, S

(* A merge that comes to its end has every class of its lists.             *)
LEMMA MergeIs ==
    ASSUME NEW lists \in Seq(Seq(Class)), Merge(lists) # None
    PROVE  /\ Merge(lists) \in Seq(Class)
           /\ \A i \in DOMAIN lists : \A p \in 1 .. Len(lists[i]) :
                 \E k \in DOMAIN Merge(lists) : Merge(lists)[k] = lists[i][p]
           /\ \A k \in DOMAIN Merge(lists) : Explained(lists, Merge(lists), k)
<1> DEFINE m == Rounds(lists)[Cardinality(Class)]
<1>1. Cardinality(Class) \in Nat
  BY LookupAssumption, FS_CardinalityType
<1>2. m \in Merges(lists)
  BY <1>1, RoundsMerge
<1>3. Waiting(lists, m.taken) = {} /\ Merge(lists) = m.order
  BY DEF Merge
<1> HIDE DEF m
<1>4. \A i \in DOMAIN lists : m.taken[i] = Len(lists[i])
  <2> TAKE i \in DOMAIN lists
  <2>1. m.taken[i] \in Nat /\ m.taken[i] <= Len(lists[i]) /\ Len(lists[i]) \in Nat
    BY <1>2 DEF Merges
  <2>2. ~(m.taken[i] < Len(lists[i]))
    BY <1>3 DEF Waiting
  <2> QED
    BY <2>1, <2>2
<1> QED
  BY <1>2, <1>3, <1>4 DEF Merges

-----------------------------------------------------------------------------
(* Python's order of a class starts with it, has the bases of whatever it  *)
(* has, and has nothing but bases of what comes before.                    *)
Reaches(c, order) ==
    /\ order \in Seq(Class) /\ order # <<>> /\ order[1] = c
    /\ \A x \in ToSet(order) : ToSet(bases[x]) \subseteq ToSet(order)
    /\ \A k \in 2 .. Len(order) : \E j \in 1 .. k - 1 : order[k] \in ToSet(bases[order[j]])

LEMMA InSeq ==
    ASSUME NEW s \in Seq(Class), NEW x
    PROVE  x \in ToSet(s) <=> \E k \in 1 .. Len(s) : s[k] = x
BY DEF ToSet

LEMMA OrderedTyped ==
    ASSUME bases \in [Class -> Seq(Class)], NEW c \in Class,
           NEW above \in Seq(Seq(Class) \cup {None})
    PROVE  Ordered(c, above) \in Seq(Class) \cup {None}
<1> SUFFICES ASSUME None \notin ToSet(above), Merge(Append(above, bases[c])) # None
             PROVE  <<c>> \o Merge(Append(above, bases[c])) \in Seq(Class)
  BY DEF Ordered
<1>1. above \in Seq(Seq(Class))
  <2>1. \A i \in DOMAIN above : above[i] \in Seq(Class)
    BY DEF ToSet
  <2> QED
    BY <2>1
<1>2. Append(above, bases[c]) \in Seq(Seq(Class))
  BY <1>1
<1>3. Merge(Append(above, bases[c])) \in Seq(Class)
  BY <1>2, MergeIs
<1> QED
  BY <1>3

LEMMA OrderedReaches ==
    ASSUME bases \in [Class -> Seq(Class)], NEW c \in Class,
           NEW above \in Seq(Seq(Class) \cup {None}), Len(above) = Len(bases[c]),
           \A i \in 1 .. Len(above) : above[i] # None => Reaches(bases[c][i], above[i]),
           Ordered(c, above) # None
    PROVE  Reaches(c, Ordered(c, above))
<1> DEFINE lists == Append(above, bases[c])
           merged == Merge(lists)
           n == Len(above)
           order == <<c>> \o merged
<1>1. None \notin ToSet(above) /\ merged # None /\ Ordered(c, above) = order
  BY DEF Ordered
<1>2. /\ n \in Nat /\ above \in Seq(Seq(Class))
      /\ \A i \in 1 .. n : above[i] \in Seq(Class) /\ Reaches(bases[c][i], above[i])
  <2>1. n \in Nat /\ DOMAIN above = 1 .. n
    OBVIOUS
  <2>2. \A i \in DOMAIN above : above[i] # None /\ above[i] \in Seq(Class)
    BY <1>1 DEF ToSet
  <2>3. above \in Seq(Seq(Class))
    BY <2>2
  <2>4. \A i \in 1 .. n : above[i] \in Seq(Class) /\ Reaches(bases[c][i], above[i])
    <3> HIDE DEF lists, merged, order
    <3> QED
      BY <2>1, <2>2, Zenon
  <2> QED
    BY <2>1, <2>3, <2>4, Zenon
<1>3. /\ bases[c] \in Seq(Class) /\ lists \in Seq(Seq(Class)) /\ DOMAIN lists = 1 .. n + 1
      /\ \A i \in 1 .. n : lists[i] = above[i]
      /\ lists[n + 1] = bases[c]
  BY <1>2
<1> HIDE DEF lists
<1>4. /\ merged \in Seq(Class)
      /\ \A i \in 1 .. n + 1 : \A p \in 1 .. Len(lists[i]) :
            \E k \in DOMAIN merged : merged[k] = lists[i][p]
      /\ \A k \in DOMAIN merged : Explained(lists, merged, k)
  <2>1. /\ merged \in Seq(Class)
        /\ \A i \in DOMAIN lists : \A p \in 1 .. Len(lists[i]) :
              \E k \in DOMAIN merged : merged[k] = lists[i][p]
        /\ \A k \in DOMAIN merged : Explained(lists, merged, k)
    <3>1. lists \in Seq(Seq(Class)) /\ Merge(lists) # None
      BY <1>1, <1>3, Zenon
    <3> HIDE DEF order
    <3> QED
      BY <3>1, MergeIs, Zenon
  <2> QED
    BY <1>3, <2>1, Zenon
<1> HIDE DEF merged
<1>5. /\ order \in Seq(Class) /\ order # <<>> /\ order[1] = c
      /\ Len(merged) \in Nat /\ DOMAIN merged = 1 .. Len(merged) /\ Len(order) = Len(merged) + 1
      /\ \A k \in 1 .. Len(merged) : order[k + 1] = merged[k]
  BY <1>4
<1>6. \A k \in 2 .. Len(order) : k - 1 \in 1 .. Len(merged) /\ order[k] = merged[k - 1]
  BY <1>5
<1> HIDE DEF order
<1>7. ASSUME NEW i \in 1 .. n + 1 PROVE ToSet(lists[i]) \subseteq ToSet(order)
  <2>1. lists[i] \in Seq(Class)
    BY <1>3
  <2>2. ASSUME NEW x \in ToSet(lists[i]) PROVE x \in ToSet(order)
    <3>1. PICK p \in 1 .. Len(lists[i]) : lists[i][p] = x
      BY <2>1, InSeq
    <3>2. PICK k \in 1 .. Len(merged) : merged[k] = x
      BY <1>4, <1>5, <3>1
    <3>3. order[k + 1] = x /\ k + 1 \in 1 .. Len(order)
      BY <1>5, <3>2
    <3> QED
      BY <1>5, <3>3, InSeq
  <2> QED
    BY <2>2
<1>8. ToSet(bases[c]) \subseteq ToSet(order)
  <2>1. n + 1 \in 1 .. n + 1
    BY <1>2
  <2> QED
    BY <1>3, <1>7, <2>1
<1>9. ASSUME NEW x \in ToSet(order) PROVE ToSet(bases[x]) \subseteq ToSet(order)
  <2>1. PICK k \in 1 .. Len(order) : order[k] = x
    BY <1>5, InSeq
  <2>2. CASE k = 1
    BY <1>5, <1>8, <2>1, <2>2
  <2>3. CASE k # 1
    <3>1. k - 1 \in DOMAIN merged /\ merged[k - 1] = x
      BY <1>5, <1>6, <2>1, <2>3
    <3>2. PICK i \in 1 .. n + 1 : \E p \in 1 .. Len(lists[i]) : x = lists[i][p]
      <4>1. Explained(lists, merged, k - 1)
        BY <1>4, <3>1, Zenon
      <4>2. PICK i \in DOMAIN lists : \E p \in 1 .. Len(lists[i]) : merged[k - 1] = lists[i][p]
        BY <4>1, Zenon DEF Explained
      <4> QED
        BY <1>3, <3>1, <4>2, Zenon
    <3>3. \E a \in 1 .. n : x \in ToSet(above[a])
      <4>1. CASE i \in 1 .. n
        <5>1. lists[i] = above[i] /\ above[i] \in Seq(Class)
          BY <1>2, <1>3, <4>1, Zenon
        <5>2. x \in ToSet(above[i])
          BY <3>2, <5>1, InSeq
        <5> QED
          BY <4>1, <5>2, Zenon
      <4>2. CASE i = n + 1
        <5>1. PICK p \in 1 .. n : x = bases[c][p]
          BY <1>3, <3>2, <4>2
        <5>2. above[p] # <<>> /\ above[p][1] = x /\ above[p] \in Seq(Class)
          BY <1>2, <5>1 DEF Reaches
        <5>3. 1 \in 1 .. Len(above[p])
          BY <5>2
        <5>4. x \in ToSet(above[p])
          BY <5>2, <5>3, InSeq
        <5> QED
          BY <5>4, Zenon
      <4>3. i \in 1 .. n \/ i = n + 1
        BY <1>2
      <4> QED
        BY <4>1, <4>2, <4>3
    <3>4. PICK a \in 1 .. n : x \in ToSet(above[a])
      BY <3>3
    <3>5. ToSet(bases[x]) \subseteq ToSet(above[a])
      BY <1>2, <3>4 DEF Reaches
    <3>6. a \in 1 .. n + 1 /\ lists[a] = above[a]
      BY <1>2, <1>3
    <3> QED
      BY <1>7, <3>5, <3>6
  <2> QED
    BY <2>2, <2>3
<1>10. ASSUME NEW k \in 2 .. Len(order)
       PROVE  \E j \in 1 .. k - 1 : order[k] \in ToSet(bases[order[j]])
  <2>1. 1 \in 1 .. k - 1 /\ k - 1 \in DOMAIN merged /\ order[k] = merged[k - 1]
    BY <1>5, <1>6
  <2>i. PICK i \in 1 .. n + 1 : \E p \in 1 .. Len(lists[i]) :
            /\ merged[k - 1] = lists[i][p]
            /\ \A q \in 1 .. p - 1 : \E j \in 1 .. (k - 1) - 1 : merged[j] = lists[i][q]
    <3>1. Explained(lists, merged, k - 1)
      BY <1>4, <2>1, Zenon
    <3> QED
      BY <1>3, <3>1, Zenon DEF Explained
  <2>2. PICK p \in 1 .. Len(lists[i]) :
            /\ order[k] = lists[i][p]
            /\ \A q \in 1 .. p - 1 : \E j \in 1 .. (k - 1) - 1 : merged[j] = lists[i][q]
    BY <2>1, <2>i
  <2>3. CASE i = n + 1
    <3>1. order[k] \in ToSet(bases[c])
      BY <1>3, <2>2, <2>3, InSeq
    <3> QED
      BY <1>5, <2>1, <3>1
  <2>4. CASE i \in 1 .. n
    <3>1. /\ Reaches(bases[c][i], above[i]) /\ lists[i] = above[i] /\ above[i] \in Seq(Class)
          /\ p \in 1 .. Len(above[i]) /\ Len(above[i]) \in Nat
      <4>1. Reaches(bases[c][i], above[i]) /\ lists[i] = above[i] /\ above[i] \in Seq(Class)
        BY <1>2, <1>3, <2>4, Zenon
      <4> QED
        BY <2>2, <4>1
    <3>2. CASE p = 1
      <4>1. order[k] = bases[c][i] /\ i \in 1 .. Len(bases[c])
        BY <2>2, <2>4, <3>1, <3>2 DEF Reaches
      <4>2. order[k] \in ToSet(bases[c])
        BY <1>3, <4>1, InSeq
      <4> QED
        BY <1>5, <2>1, <4>2
    <3>3. CASE p # 1
      <4>1. p \in 2 .. Len(above[i])
        BY <3>1, <3>3
      <4>2. PICK q \in 1 .. p - 1 : above[i][p] \in ToSet(bases[above[i][q]])
        BY <3>1, <4>1 DEF Reaches
      <4>3. PICK j \in 1 .. (k - 1) - 1 : merged[j] = above[i][q]
        BY <2>2, <3>1, <4>2
      <4>4. j + 1 \in 1 .. k - 1 /\ j \in 1 .. Len(merged)
        BY <1>5, <2>1
      <4>5. order[j + 1] = above[i][q]
        BY <1>5, <4>3, <4>4
      <4> QED
        BY <2>2, <3>1, <4>2, <4>4, <4>5
    <3> QED
      BY <3>2, <3>3
  <2> QED
    BY <1>2, <2>3, <2>4
<1> QED
  BY <1>1, <1>5, <1>9, <1>10 DEF Reaches

LEMMA OrdersReach ==
    ASSUME bases \in [Class -> Seq(Class)], Acyclic
    PROVE  \A c \in Class : Mro(c) # None => Reaches(c, Mro(c))
<1> DEFINE below == [c \in Class |-> ToSet(bases[c])]
           S == Seq(Class) \cup {None}
           From(g, c) == [i \in DOMAIN bases[c] |-> g[bases[c][i]]]
           step == [c \in Class |-> [h \in [below[c] -> S] |-> Ordered(c, From(h, c))]]
           Body(g) == [c \in Class |-> Ordered(c, From(g, c))]
<1>1. \A c \in Class : below[c] = ToSet(bases[c]) /\ below[c] \in SUBSET Class
  BY DEF ToSet
<1>2. below \in [Class -> SUBSET Class]
  BY <1>1
<1>3. \A c \in Class : \A i \in DOMAIN bases[c] : bases[c][i] \in below[c]
  BY <1>1 DEF ToSet
<1>4. Orders = CHOOSE g : g = Body(g)
  BY Zenon DEF Orders
<1>5. \A c \in Class : \A h \in [below[c] -> S] : step[c][h] = Ordered(c, From(h, c))
  OBVIOUS
<1> HIDE DEF below, step
<1>6. Founded(Class, below)
  <2> SUFFICES ASSUME NEW T \in SUBSET Class, T # {}
               PROVE  \E c \in T : below[c] \cap T = {}
    BY DEF Founded
  <2>1. PICK c \in T : ToSet(bases[c]) \cap T = {}
    BY DEF Acyclic
  <2> QED
    BY <1>1, <2>1
<1>7. ASSUME NEW c \in Class, NEW h, \A b \in below[c] : h[b] \in S
      PROVE  From(h, c) \in Seq(S) /\ Len(From(h, c)) = Len(bases[c])
             /\ \A i \in 1 .. Len(bases[c]) : From(h, c)[i] = h[bases[c][i]]
  <2>1. Len(bases[c]) \in Nat /\ DOMAIN bases[c] = 1 .. Len(bases[c])
    OBVIOUS
  <2>2. \A i \in 1 .. Len(bases[c]) : h[bases[c][i]] \in S
    BY <1>3, <1>7, <2>1
  <2> QED
    BY <2>1, <2>2
<1>8. Passes(Class, below, S, step)
  <2> SUFFICES ASSUME NEW c \in Class, NEW h \in [below[c] -> S]
               PROVE  step[c][h] \in S
    BY DEF Passes
  <2>1. From(h, c) \in Seq(S)
    BY <1>7
  <2> HIDE DEF From
  <2> QED
    BY <1>5, <2>1, OrderedTyped
<1>9. PICK f \in [Class -> S] : Follows(Class, below, step, f)
  <2> HIDE DEF S
  <2> QED
    BY <1>2, <1>6, <1>8, Recursion
<1>10. ASSUME NEW g, NEW c \in Class PROVE From([b \in below[c] |-> g[b]], c) = From(g, c)
  BY <1>3
<1>11. f = Body(f)
  <2> SUFFICES ASSUME NEW c \in Class PROVE f[c] = Ordered(c, From(f, c))
    BY <1>9
  <2> DEFINE h == [b \in below[c] |-> f[b]]
  <2>1. h \in [below[c] -> S]
    BY <1>1, <1>9
  <2>2. From(h, c) = From(f, c)
    BY <1>10
  <2>3. f[c] = step[c][h]
    BY <1>9 DEF Follows
  <2> HIDE DEF h, From
  <2> QED
    BY <1>5, <2>1, <2>2, <2>3
<1>12. Orders = Body(Orders)
  BY <1>4, <1>11, Zenon
<1> DEFINE g == Orders
<1>13. \A c \in Class : g[c] = Ordered(c, From(g, c))
  BY <1>12
<1> HIDE DEF g, From, Body
<1>14. \A c \in Class : g[c] \in S
  <2> DEFINE T == {c \in Class : g[c] \notin S}
  <2> SUFFICES ASSUME T # {} PROVE FALSE
    OBVIOUS
  <2>1. PICK c \in T : below[c] \cap T = {}
    BY <1>6 DEF Founded
  <2>2. \A b \in below[c] : g[b] \in S
    BY <1>1, <2>1
  <2>3. From(g, c) \in Seq(S)
    BY <1>7, <2>2
  <2>4. g[c] = Ordered(c, From(g, c))
    BY <1>13
  <2> QED
    BY <2>1, <2>3, <2>4, OrderedTyped
<1>15. \A c \in Class : g[c] # None => Reaches(c, g[c])
  <2> DEFINE T == {c \in Class : g[c] # None /\ ~Reaches(c, g[c])}
  <2> SUFFICES ASSUME T # {} PROVE FALSE
    OBVIOUS
  <2>1. PICK c \in T : below[c] \cap T = {}
    BY <1>6 DEF Founded
  <2> DEFINE above == From(g, c)
  <2>2. above \in Seq(S) /\ Len(above) = Len(bases[c])
        /\ \A i \in 1 .. Len(bases[c]) : above[i] = g[bases[c][i]]
    <3>1. c \in Class /\ \A b \in below[c] : g[b] \in S
      BY <1>1, <1>14
    <3> QED
      BY <1>7, <3>1
  <2>3. \A i \in 1 .. Len(bases[c]) : bases[c][i] \in below[c]
    BY <1>3
  <2> HIDE DEF above
  <2>4. \A i \in 1 .. Len(above) : above[i] # None => Reaches(bases[c][i], above[i])
    BY <1>1, <2>1, <2>2, <2>3
  <2>5. c \in Class /\ g[c] = Ordered(c, above) /\ g[c] # None /\ ~Reaches(c, g[c])
    BY <1>13, <2>1 DEF above
  <2> HIDE DEF T
  <2>6. Reaches(c, Ordered(c, above))
    BY <2>2, <2>4, <2>5, OrderedReaches
  <2> QED
    BY <2>5, <2>6
<1> QED
  BY <1>15 DEF Mro, g

(* Where the definitions met before a place in the order are none, that    *)
(* place is Root or lies above it.                                         *)
LEMMA UntilFirst ==
    ASSUME bases \in [Class -> Seq(Class)], NEW order, Reaches(Root, order),
           NEW f \in 1 .. Len(order), \A j \in 1 .. f - 1 : order[j] \notin owners
    PROVE  \A k \in 1 .. f : order[k] \in {Root} \cup Above
<1> DEFINE T == {k \in 1 .. f : order[k] \notin {Root} \cup Above}
<1> SUFFICES ASSUME T # {} PROVE FALSE
  OBVIOUS
<1>1. order \in Seq(Class) /\ order[1] = Root
  BY DEF Reaches
<1>2. PICK k \in T : \A j \in T : k <= j
  <2>1. T \in SUBSET Nat
    OBVIOUS
  <2> HIDE DEF T
  <2> QED
    BY <2>1, MinIsLeast
<1>3. k \in 2 .. Len(order)
  BY <1>1
<1>4. PICK j \in 1 .. k - 1 : order[k] \in ToSet(bases[order[j]])
  BY <1>3 DEF Reaches
<1>5. order[j] \in {Root} \cup Above /\ order[j] \notin owners
  BY <1>2, <1>4
<1>6. order[k] \in Class
  BY <1>1
<1>7. ASSUME NEW S \in SUBSET Class, Closed(S) PROVE order[k] \in S \cup {Root}
  <2>1. order[j] \in {Root} \cup (S \ owners)
    BY <1>5, <1>7 DEF Above
  <2> QED
    BY <1>4, <1>7, <2>1 DEF Closed
<1> QED
  BY <1>2, <1>6, <1>7 DEF Above

(* typeres.py:438-441: "an honest miss, never a wrong edge".  For every    *)
(* hierarchy without a cycle that Python accepts, whatever classes define  *)
(* the attribute: when the walk answers with a definition, it is the one   *)
(* that the method resolution order of the class finds first.              *)
THEOREM LookupNeverWrong == Spec => []NeverWrong
<1> USE LookupAssumption
<1>1. WalkInv => NeverWrong
  <2> SUFFICES ASSUME WalkInv, ~Walking, answer # <<None>>, Acyclic, Mro(Root) # None
               PROVE  answer = <<Mro(Root)[SelectInSeq(Mro(Root), LAMBDA c : c \in owners)]>>
    BY DEF NeverWrong
  <2> DEFINE mro == Mro(Root)
             I == {i \in 1 .. Len(mro) : mro[i] \in owners}
  <2>1. Reaches(Root, mro) /\ bases \in [Class -> Seq(Class)]
    BY OrdersReach DEF WalkInv, TypeInv
  <2>2. SelectInSeq(mro, LAMBDA c : c \in owners) = IF I # {} THEN Min(I) ELSE 0
    BY DEF SelectInSeq
  <2> HIDE DEF mro
  <2>3. mro \in Seq(Class) /\ mro # <<>> /\ mro[1] = Root /\ Len(mro) \in Nat /\ 1 \in 1 .. Len(mro)
    BY <2>1 DEF Reaches
  <2>4. I \in SUBSET Nat /\ (I # {} => Min(I) \in I /\ \A k \in I : Min(I) <= k)
    <3>1. I \in SUBSET Nat
      BY <2>3
    <3> HIDE DEF I
    <3> QED
      BY <3>1, MinIsLeast
  <2>5. CASE Root \in owners
    <3>1. 1 \in I
      BY <2>3, <2>5
    <3>2. Min(I) = 1
      BY <2>4, <3>1
    <3> QED
      BY <2>2, <2>3, <2>5, <3>1, <3>2 DEF WalkInv, AnswersNearest, mro
  <2>6. CASE Root \notin owners
    <3>1. answer = <<Only(Nearest)>> /\ Only(Nearest) # None
      BY <2>6 DEF WalkInv, AnswersNearest
    <3>2. PICK n : Nearest = {n} /\ Only(Nearest) = n
      BY <3>1 DEF Only
    <3>3. Closed(ToSet(mro))
      <4>1. Root \in ToSet(mro)
        BY <2>3, InSeq
      <4> QED
        BY <2>1, <4>1 DEF Closed, Reaches
    <3>4. n \in ToSet(mro) /\ n \in owners
      <4>1. ToSet(mro) \in SUBSET Class
        BY <2>3, SubsetOfClass
      <4> QED
        BY <3>2, <3>3, <4>1 DEF Nearest, Above
    <3>5. I # {}
      BY <2>3, <3>4, InSeq
    <3>6. mro[Min(I)] \in {Root} \cup Above /\ mro[Min(I)] \in owners
      <4>1. Min(I) \in 1 .. Len(mro) /\ mro[Min(I)] \in owners
        BY <2>4, <3>5
      <4>2. \A j \in 1 .. Min(I) - 1 : mro[j] \notin owners
        BY <2>3, <2>4, <3>5, <4>1
      <4>3. Min(I) \in 1 .. Min(I)
        BY <4>1
      <4> HIDE DEF I
      <4> QED
        BY <2>1, <4>1, <4>2, <4>3, UntilFirst
    <3>7. mro[Min(I)] = n
      BY <2>6, <3>2, <3>6 DEF Nearest
    <3> QED
      BY <2>2, <3>1, <3>2, <3>5, <3>7 DEF mro
  <2> QED
    BY <2>5, <2>6
<1>2. WalkInv /\ [Next]_vars => WalkInv'
  BY SkipKeeps, HitKeeps, ClimbKeeps, ReturnKeeps, StutterKeeps DEF Next
<1> QED
  BY InitWalk, <1>1, <1>2, PTL DEF Spec
=============================================================================
