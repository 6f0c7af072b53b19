---------------------------- MODULE MemberLookup ----------------------------
(***************************************************************************)
(* _member_lookup (ingest/python/typeres.py), step by step: the walk of    *)
(* the in-tree bases of a class for the one member an attribute can name.  *)
(* A class that defines the attribute ends the walk of its branch; two     *)
(* definitions on different branches end in no answer.                     *)
(*                                                                         *)
(* A class is a member of Class and the member it defines is identified    *)
(* with it.  bases is any graph the INHERITS edges may form, cycles and    *)
(* inconsistent orders included.                                           *)
(***************************************************************************)
EXTENDS Naturals, FiniteSets, Sequences, SequencesExt, FiniteSetsExt

CONSTANTS
    Class,          \* the classes of the tree
    Root,           \* the class the attribute is looked up on
    Hierarchies,    \* the base lists to consider: functions Class -> Seq(Class)
    None

ASSUME LookupAssumption ==
    /\ Root \in Class /\ IsFiniteSet(Class)
    /\ Hierarchies \subseteq [Class -> Seq(Class)]
    /\ None \notin Class

VARIABLES
    bases,      \* the base classes of each class, in declaration order
    owners,     \* the classes that define the attribute themselves
    stack,      \* the classes still to visit; the last is taken first
    seen,       \* the classes visited
    found,      \* the definitions met
    answer      \* what the call returned; <<>> while it runs

vars == <<bases, owners, stack, seen, found, answer>>

Walking == answer = <<>>

(* As if the walk's last line took any definition it met.                  *)
OnlyFirst(S) == IF S = {} THEN None ELSE CHOOSE c \in S : TRUE

Only(S) == IF \E c \in S : S = {c} THEN CHOOSE c \in S : TRUE ELSE None

Init ==
    /\ bases \in Hierarchies
    /\ owners \in SUBSET Class
    /\ stack = bases[Root]
    /\ seen = {Root}
    /\ found = {}
    /\ answer = IF Root \in owners THEN <<Root>> ELSE <<>>

(* As if the walk looked at the end of the stack without taking it.        *)
SkipPeeking ==
    /\ Walking /\ stack # <<>>
    /\ Last(stack) \in seen
    /\ UNCHANGED vars

(* A class already visited is dropped: the guard against cycles.           *)
Skip ==
    /\ Walking /\ stack # <<>>
    /\ Last(stack) \in seen
    /\ stack' = Front(stack)
    /\ UNCHANGED <<bases, owners, seen, found, answer>>

(* As if a definition did not shadow those of its own bases.               *)
HitClimbing ==
    /\ Walking /\ stack # <<>>
    /\ Last(stack) \in owners \ seen
    /\ found' = found \cup {Last(stack)}
    /\ seen' = seen \cup {Last(stack)}
    /\ stack' = Front(stack) \o bases[Last(stack)]
    /\ UNCHANGED <<bases, owners, answer>>

(* As if a class counted as a definition whatever its members are.         *)
HitUnowned ==
    /\ Walking /\ stack # <<>>
    /\ Last(stack) \notin seen
    /\ found' = found \cup {Last(stack)}
    /\ seen' = seen \cup {Last(stack)}
    /\ stack' = Front(stack)
    /\ UNCHANGED <<bases, owners, answer>>

Hit ==
    /\ Walking /\ stack # <<>>
    /\ Last(stack) \in owners \ seen
    /\ found' = found \cup {Last(stack)}
    /\ seen' = seen \cup {Last(stack)}
    /\ stack' = Front(stack)
    /\ UNCHANGED <<bases, owners, answer>>

Climb ==
    /\ Walking /\ stack # <<>>
    /\ Last(stack) \notin owners \cup seen
    /\ seen' = seen \cup {Last(stack)}
    /\ stack' = Front(stack) \o bases[Last(stack)]
    /\ UNCHANGED <<bases, owners, found, answer>>

Return ==
    /\ Walking /\ stack = <<>>
    /\ answer' = <<Only(found)>>
    /\ UNCHANGED <<bases, owners, stack, seen, found>>

Next == Skip \/ Hit \/ Climb \/ Return

Spec == Init /\ [][Next]_vars

(* The call runs to its end in the thread that made it.                    *)
FairSpec == Spec /\ WF_vars(Next)

-----------------------------------------------------------------------------
LookupTypeOK ==
    /\ bases \in Hierarchies
    /\ owners \subseteq Class
    /\ stack \in Seq(Class)
    /\ seen \subseteq Class
    /\ found \subseteq owners
    /\ answer \in {<<>>} \cup {<<c>> : c \in Class \cup {None}}

(* What lies above Root with no definition in between: the least set that  *)
(* holds the bases of Root and of each member that does not define the     *)
(* attribute.                                                              *)
Closed(S) == \A c \in {Root} \cup (S \ owners) : ToSet(bases[c]) \subseteq S \cup {Root}
Above == {c \in Class : \A S \in SUBSET Class : Closed(S) => c \in S}
Nearest == Above \cap owners

(* typeres.py:435-441: the class's own member wins; otherwise the answer   *)
(* is the one nearest definition, and none when there are several or none. *)
AnswersNearest ==
    ~Walking => answer = IF Root \in owners THEN <<Root>> ELSE <<Only(Nearest)>>

-----------------------------------------------------------------------------
(* The method resolution order of Python (C3; pmerge of CPython): a class, *)
(* then the merge of the orders of its bases with the list of its bases;   *)
(* None where Python refuses the class.  A merge has the order so far and, *)
(* of each list, how many of its first classes it has taken.               *)
Waiting(lists, taken) == {i \in DOMAIN lists : taken[i] < Len(lists[i])}
HeadOf(lists, taken, i) == lists[i][taken[i] + 1]

Good(lists, taken) ==
    {i \in Waiting(lists, taken) : \A j \in DOMAIN lists : \A k \in taken[j] + 2 .. Len(lists[j]) :
        lists[j][k] # HeadOf(lists, taken, i)}

Take(lists, merge, next) ==
    [order |-> Append(merge.order, next),
     taken |-> [i \in DOMAIN lists |->
        IF i \in Waiting(lists, merge.taken) /\ HeadOf(lists, merge.taken, i) = next
        THEN merge.taken[i] + 1 ELSE merge.taken[i]]]

Round(lists, merge) ==
    LET good == Good(lists, merge.taken)
    IN  IF good = {} THEN merge ELSE Take(lists, merge, HeadOf(lists, merge.taken, Min(good)))

(* A round takes a class for good, so there are no more than classes.      *)
Rounds(lists) ==
    LET merge[n \in Nat] ==
            IF n = 0 THEN [order |-> <<>>, taken |-> [i \in DOMAIN lists |-> 0]]
            ELSE Round(lists, merge[n - 1])
    IN  merge

Merge(lists) ==
    LET merge == Rounds(lists)[Cardinality(Class)]
    IN  IF Waiting(lists, merge.taken) = {} THEN merge.order ELSE None

Acyclic == \A S \in SUBSET Class \ {{}} : \E c \in S : ToSet(bases[c]) \cap S = {}

Ordered(class, above) ==
    LET merged == Merge(Append(above, bases[class]))
    IN  IF None \in ToSet(above) \/ merged = None THEN None ELSE <<class>> \o merged

Orders ==
    LET order[c \in Class] == Ordered(c, [i \in DOMAIN bases[c] |-> order[bases[c][i]]])
    IN  order

Mro(class) == Orders[class]

(* typeres.py:438-441: "an honest miss, never a wrong edge".  Where Python *)
(* accepts the hierarchy, an answer is the definition its own order finds  *)
(* first.                                                                  *)
NeverWrong ==
    ~Walking /\ answer # <<None>> /\ Acyclic =>
        LET mro == Mro(Root)
            first == SelectInSeq(mro, LAMBDA c : c \in owners)
        IN  mro # None => answer = <<mro[first]>>

(* typeres.py:441: the cycle guard makes the walk total.                   *)
LookupTerminates == <>~Walking
=============================================================================
