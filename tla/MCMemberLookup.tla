--------------------------- MODULE MCMemberLookup ---------------------------
(* Every acyclic hierarchy of four classes, and every graph of three with  *)
(* at most two bases each, cycles included; every set of definers.         *)
EXTENDS MemberLookup

Lists(S) == UNION {{s \in [1 .. n -> S] : IsInjective(s)} : n \in 0 .. Cardinality(S)}

FourClasses == 1 .. 4
AcyclicFour ==
    {<<a, b, c, <<>>>> : a \in Lists({2, 3, 4}), b \in Lists({3, 4}), c \in Lists({4})}
AnyThree ==
    LET UpToTwo == {l \in Lists({1, 2, 3}) : Len(l) <= 2}
    IN  {<<a, b, c, <<>>>> : a \in UpToTwo, b \in UpToTwo, c \in UpToTwo}

MCHierarchies == AcyclicFour \cup AnyThree
=============================================================================
