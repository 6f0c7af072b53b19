------------------------------- MODULE Chains -------------------------------
(***************************************************************************)
(* External chains (ingest/python/chains.py) over the typeshed tables      *)
(* behind the StubProvider seam (stubs.py): what becomes of the dotted     *)
(* name of something outside the project, and of a member reached on what  *)
(* a call of it returns.                                                   *)
(*                                                                         *)
(* A member of the tables has a kind and a type; <<>> stands for a type    *)
(* that the tables do not have.                                            *)
(***************************************************************************)
EXTENDS Binding

CONSTANTS
    StubModules,    \* module -> member name -> [kind, type]
    StubClasses     \* class -> member name -> [kind, type]

(* The tables as gen_typeshed.py writes them: a package of each module in  *)
(* them is in them too, and no class has a submodule.                      *)
StubMember(kinds) == [kind : kinds, type : QualName]

ASSUME ChainsAssumption ==
    /\ DOMAIN StubModules \subseteq Name /\ DOMAIN StubClasses \subseteq Name
    /\ \A m \in DOMAIN StubModules :
          /\ \A k \in 1 .. Len(m) : SubSeq(m, 1, k) \in DOMAIN StubModules
          /\ \A n \in DOMAIN StubModules[m] :
                StubModules[m][n] \in StubMember({"value", "func", "class", "submodule"})
    /\ \A c \in DOMAIN StubClasses : \A n \in DOMAIN StubClasses[c] :
          StubClasses[c][n] \in StubMember({"value", "method", "class", "property"})

Self == <<"Self">>

HasModule(q) == q \in DOMAIN StubModules

ModuleMember(m, name) ==
    IF HasModule(m) /\ name \in DOMAIN StubModules[m] THEN StubModules[m][name] ELSE None

TypeMember(class, name) ==
    IF class \in DOMAIN StubClasses /\ name \in DOMAIN StubClasses[class]
    THEN StubClasses[class][name] ELSE None

(* _member: a member typed to return Self yields the receiver's type.      *)
Received(class, member) ==
    IF member # None /\ member.type = Self THEN [member EXCEPT !.type = class] ELSE member
Member(class, name) == Received(class, TypeMember(class, name))

-----------------------------------------------------------------------------
(* A position on a chain: in the namespace of a module, on a value of a    *)
(* type, or stopped, where no table says more; and the last member passed. *)
Position(space, at, last) == [space |-> space, at |-> at, last |-> last]

(* _advance *)
Advance(member, path) ==
    IF member.kind = "submodule"
    THEN Position("module", IF HasModule(member.type) THEN member.type ELSE path, member)
    ELSE Position(IF member.type = <<>> THEN "opaque" ELSE "type", member.type, member)

Pass(pos, member, missing, path) ==
    IF member = None THEN Position(missing, pos.at, pos.last) ELSE Advance(member, path)

(* As if a chain never left the namespace of a module.                     *)
RungBlurred(pos, name) ==
    IF HasModule(Append(pos.at, name)) THEN Position("module", Append(pos.at, name), pos.last)
    ELSE Position("unknown", pos.at, pos.last)

(* One component of a chain, in either of the two walks.                   *)
Rung(pos, name) ==
    CASE pos.space = "module" /\ HasModule(Append(pos.at, name)) ->
            Position("module", Append(pos.at, name), pos.last)
      [] pos.space = "module" /\ ~HasModule(Append(pos.at, name)) ->
            Pass(pos, ModuleMember(pos.at, name), "unknown", Append(pos.at, name))
      [] pos.space = "type" -> Pass(pos, Member(pos.at, name), "absent", pos.at)
      [] pos.space = "opaque" -> Position("absent", pos.at, pos.last)
      [] OTHER -> pos

Walk(dotted) == FoldLeft(Rung, Position("module", <<Head(dotted)>>, None), Tail(dotted))

-----------------------------------------------------------------------------
(* resolve_external_chain: the definite edge is kept, or it is moved to    *)
(* the member of a value's type, or it is not reported.                    *)
Keep == [keep |-> TRUE, target |-> None]
Downgrade(q) == [keep |-> FALSE, target |-> q]
Decline == Downgrade(None)

LastRung(pos, name, isCall) ==
    LET member == ModuleMember(pos.at, name)
        isValue == /\ member # None /\ member.kind = "value"
                   /\ ~HasModule(Append(pos.at, name))
    IN  CASE pos.space = "module" -> IF isValue /\ isCall THEN Decline ELSE Keep
          [] pos.space = "unknown" -> Keep
          [] pos.space = "type" /\ TypeMember(pos.at, name) # None -> Downgrade(Append(pos.at, name))
          [] OTHER -> Decline

ExternalChain(dotted, isCall) ==
    IF Len(dotted) = 1 \/ ~HasModule(<<Head(dotted)>>) THEN Keep
    ELSE LastRung(Walk(Front(dotted)), Last(dotted), isCall)

(* chain_return_type: what calling the chain gives.                        *)
ReturnType(pos) ==
    IF /\ pos.space \notin {"unknown", "absent"} /\ pos.last # None
       /\ pos.last.kind \in {"class", "func", "method"} /\ pos.last.type # <<>>
    THEN pos.last.type ELSE None

(* resolve_call_chain: the members reached on that, one type after another.*)
Reach(class, name) ==
    LET member == Member(class, name)
    IN  IF member = None \/ member.type = <<>> THEN None ELSE member.type

LastMember(class, name) == IF TypeMember(class, name) = None THEN None ELSE Append(class, name)

CallChain(root, members) ==
    IF ~HasModule(<<Head(root)>>) THEN None
    ELSE LastMember(FoldLeft(Reach, ReturnType(Walk(root)), Front(members)), Last(members))
=============================================================================
