---------------------------- MODULE PythonScoping ----------------------------
(***************************************************************************)
(* What a name denotes by the rules of Python, which the extraction is     *)
(* measured against: the innermost function, lambda or comprehension that  *)
(* binds it, a class only for the code directly in its body, the module    *)
(* otherwise, with what global and nonlocal change in that.                *)
(***************************************************************************)
EXTENDS PythonSource

Chain(p, i) == {0} \cup {j \in Above(p, i) : p[j].kind \in Scopes \cup {"comp"}}
Home(p, i) == Max(Chain(p, i))

Declares(p, s, kind, name) ==
    \E j \in DOMAIN p : p[j].kind = kind /\ Home(p, j) = s /\ name \in ToSet(p[j].names)

HasParam(p, s, name) ==
    s # 0 /\ p[s].kind \in {"function", "lambda"} /\ name \in Params(p[s])

(* A comprehension binds its names in itself, a walrus never in one.       *)
BindingScope(p, i) ==
    IF p[i].kind = "comp" THEN i
    ELSE IF p[i].kind = "walrus" THEN EnclosingScope(p, i)
    ELSE Home(p, i)

Introduces(p, i, name) ==
    name \in Bound(p[i]) \/ (p[i].kind \in Definitions /\ p[i].name = name)

OwnName(p, s, name) ==
    /\ ~Declares(p, s, "nonlocal", name)
    /\ \/ HasParam(p, s, name)
       \/ \E i \in DOMAIN p : Introduces(p, i, name) /\ BindingScope(p, i) = s

(* The scope in which line i binds a name it introduces.                   *)
Owner(p, i, name) ==
    LET s == BindingScope(p, i)
    IN  IF Declares(p, s, "global", name) THEN 0
        ELSE IF Declares(p, s, "nonlocal", name)
             THEN Max({0} \cup {t \in Chain(p, s) : t # 0 /\ p[t].kind = "function"
                                                    /\ OwnName(p, t, name)})
        ELSE s

Binders(p, s, name) == {i \in DOMAIN p : Introduces(p, i, name) /\ Owner(p, i, name) = s}

Denotes(p, i, name) ==
    LET visible == {s \in Chain(p, i) : s = Home(p, i) \/ s = 0 \/ p[s].kind # "class"}
        deciding == {s \in visible : \/ Declares(p, s, "global", name)
                                     \/ HasParam(p, s, name) \/ Binders(p, s, name) # {}}
        s == Max({0} \cup deciding)
    IN  IF Declares(p, s, "global", name) THEN 0 ELSE s

(* A name means what the module defines or imports under it, never a value.*)
DefinedByModule(p, i, name) ==
    /\ Denotes(p, i, name) = 0
    /\ \A j \in Binders(p, 0, name) : p[j].kind \in Definitions \cup {"import"}
=============================================================================
