------------------------------- MODULE MCAccess -------------------------------
(***************************************************************************)
(* Access for TLC.  Of the initial states, those in which the first client *)
(* may hold a session of the seed's user and the others one of another     *)
(* account, which is an administrator of some kind: renaming the clients   *)
(* and the steps of Access lead from these to the rest.                    *)
(***************************************************************************)
EXTENDS Access

CONSTANT First

MCPatches ==
    {[to |-> r, on |-> Keep] : r \in {"SUPER_ADMIN", "USER"}} \cup
    {[to |-> Keep, on |-> b] : b \in BOOLEAN} \cup
    {[to |-> "USER", on |-> FALSE]}

MCInit ==
    /\ Init
    /\ session[First] \in {NoUser, Root}
    /\ \A c \in Clients \ {First} : session[c] # Root
    /\ \A u \in Users : account[u].role # "USER"
    /\ HasDefault \/ session = [c \in Clients |-> NoUser]

MCSpec ==
    /\ MCInit /\ [][Next]_vars
    /\ WF_vars(Tick) /\ \A c \in Clients : WF_vars(Serve(c))
=============================================================================
