------------------------------ MODULE Admission ------------------------------
(***************************************************************************)
(* What registration promises: clients are admitted one by one, each once, *)
(* until there are Limit of them; then the training opens.                 *)
(***************************************************************************)
EXTENDS Naturals, FiniteSets

CONSTANTS Clients, Limit

VARIABLES members, open

vars == <<members, open>>

Init == members = {} /\ open = FALSE

Admit(c) ==
    /\ c \notin members
    /\ Cardinality(members) < Limit
    /\ members' = members \cup {c}
    /\ UNCHANGED open

Open ==
    /\ ~open
    /\ Cardinality(members) = Limit
    /\ open' = TRUE
    /\ UNCHANGED members

Next == Open \/ \E c \in Clients : Admit(c)

Spec == Init /\ [][Next]_vars
=============================================================================
