------------------------------- MODULE MCBuckets -------------------------------
(***************************************************************************)
(* Buckets for TLC.  At first Garage has one bucket, whose row may be out  *)
(* of date or missing, and Ann rules; Bob is an administrator, maybe with  *)
(* a scope, or a plain user, maybe with a grant.                           *)
(***************************************************************************)
EXTENDS Buckets

CONSTANTS Ann, Bob, First, Preview, Download

\* The checks of a download, by the guard and by the service.
MCChecks == {<<Preview, Download>>}

MCInit ==
    /\ Init
    /\ role[Ann] = "SUPER_ADMIN" /\ role[Bob] # "SUPER_ADMIN"
    /\ \A n \in Buckets : garage[n] # None <=> n = First
    /\ \A n \in Buckets \ {First} : row[n] = None
    /\ \A p \in Pairs : grants[p] \in (IF p[1] = Bob /\ role[Bob] = "USER"
                                          THEN {{}, {Preview}} ELSE {{}})
    /\ \A u \in Users : role[u] # "ADMIN" => scopes[u] = {}

MCSpec ==
    /\ MCInit /\ [][Next]_vars
    /\ \A e \in Executions : WF_vars(GoOn(e))
    /\ WF_vars(\E e \in Executions : ListBuckets(e))
=============================================================================
