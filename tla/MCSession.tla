----------------------------- MODULE MCSession ------------------------------
(***************************************************************************)
(* Instances of Session for TLC.  "old", "new" and "boom" have one size,   *)
(* so that an mtime is all that tells an edit between them.                *)
(***************************************************************************)
EXTENDS Session

MCSize == [t \in {"old", "new", "bad"} |-> IF t = "bad" THEN 2 ELSE 1]
MCSizeBoom ==
    [t \in {"old", "new", "bad", "boom"} |-> IF t = "bad" THEN 2 ELSE 1]
=============================================================================
