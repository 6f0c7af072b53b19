---------------------------- MODULE IndexService ----------------------------
(***************************************************************************)
(* What the server promises those who query it, without the walk, the      *)
(* cache, the stamps and the threads: a view of the files that is replaced *)
(* as a whole, by refreshes.                                               *)
(***************************************************************************)
CONSTANTS Files, Products, None

VARIABLES
    content,        \* the product of each file as it is now
    served,         \* the view that queries are answered from
    refreshing,     \* a new view is being made
    window,         \* the products each file has had since the refresh began
    behind          \* the files may have changed in a way no refresh has been asked for

vars == <<content, served, refreshing, window, behind>>

Views == [Files -> Products \cup {None}]
Empty == [f \in Files |-> None]
Closed == [f \in Files |-> {}]

-----------------------------------------------------------------------------
Init ==
    /\ content \in Views
    /\ served = Empty
    /\ refreshing = FALSE /\ window = Closed
    /\ behind = TRUE

Change(f) ==
    /\ \E x \in Products \cup {None} :
          /\ content' = [content EXCEPT ![f] = x]
          /\ window' = IF refreshing THEN [window EXCEPT ![f] = @ \cup {x}] ELSE window
    /\ behind' = TRUE
    /\ UNCHANGED <<served, refreshing>>

(* A refresh that has been asked for sees the changes made so far.         *)
Begin ==
    /\ ~refreshing
    /\ refreshing' = TRUE
    /\ window' = [f \in Files |-> {content[f]}]
    /\ behind' \in {behind, FALSE}
    /\ UNCHANGED <<content, served>>

(* Each file is served as it was at some time in the window; as it is, when*)
(* nothing has changed since.                                              *)
Refresh ==
    /\ refreshing
    /\ served' \in Views
    /\ \A f \in Files : served'[f] \in window[f]
    /\ ~behind => served' = content
    /\ refreshing' = FALSE /\ window' = Closed
    /\ UNCHANGED <<content, behind>>

(* From here on no change goes unnoticed.                                  *)
Settle ==
    /\ ~refreshing
    /\ served = content
    /\ behind' = FALSE
    /\ UNCHANGED <<content, served, refreshing, window>>

(* A refresh that fails leaves the view as it was.                         *)
Fail ==
    /\ refreshing
    /\ refreshing' = FALSE /\ window' = Closed
    /\ behind' = TRUE
    /\ UNCHANGED <<content, served>>

Stop ==
    /\ served' = Empty
    /\ refreshing' = FALSE /\ window' = Closed
    /\ behind' = TRUE
    /\ UNCHANGED content

Next == (\E f \in Files : Change(f)) \/ Begin \/ Refresh \/ Settle \/ Fail \/ Stop

Spec == Init /\ [][Next]_vars
=============================================================================
