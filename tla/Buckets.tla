-------------------------------- MODULE Buckets --------------------------------
(***************************************************************************)
(* Buckets and who may use them: the grants of users and the scopes of     *)
(* administrators (buckets/), the checks of the files endpoints that read  *)
(* them (authorization/, files/), and the job BUCKET_SYNC, which copies    *)
(* Garage's names into the rows that grants and scopes hang on.            *)
(*                                                                         *)
(* Replacing grants or scopes is a delete and an insert without a          *)
(* transaction.  A request is decided by the role the guard read with the  *)
(* session and by rows that earlier statements read.  What a files request *)
(* then does is in UploadSession, FolderJobs and JobQueue.                 *)
(***************************************************************************)
EXTENDS Naturals, Sequences, Functions

CONSTANTS
    Clients,       \* requests under way at once
    Users,
    Buckets,       \* names of buckets
    Permissions,   \* codes a user is granted on a bucket
    GrantSets,     \* sets of them that a request may ask for
    Checks,        \* what a files request is checked for, in order
    Ids,           \* ids Garage gives to buckets
    Executions,    \* executions of BUCKET_SYNC under way at once
    None,
    MaxEvents, MaxFaults   \* bounds: what clients and Garage do, and failures

Roles == {"SUPER_ADMIN", "ADMIN", "USER"}
Pairs == Users \X Buckets

ASSUME BucketsAssumption ==
    /\ Permissions \cap Buckets = {}
    /\ GrantSets \subseteq SUBSET Permissions
    /\ Checks \subseteq Seq(Permissions)
    /\ None \notin Ids \cup Buckets
    /\ {MaxEvents, MaxFaults} \subseteq Nat

VARIABLES
    role,        \* of each user
    grants,      \* permissions of each user on each bucket
    scopes,      \* buckets of each administrator
    request,     \* local state of each request
    garage,      \* id that each name stands for in Garage, None if unused
    row,         \* id in the bucket's row, None when there is no row
    sync,        \* names and ids that each execution has yet to copy
    events, faults,
    (* history *)
    asked,       \* sets asked for by the latest replacements of grants that overlap
    entrusted,   \* the same of scopes
    given        \* what was asked for the request's user since it was sent

vars == <<role, grants, scopes, request, garage, row, sync, events, faults,
          asked, entrusted, given>>

Quiet == [pc |-> "idle", user |-> None, role |-> "USER", target |-> None,
          bucket |-> None, want |-> {}, checks |-> <<>>]

\* One name of one bucket: the first of its aliases.
Namings == {f \in [Buckets -> Ids \cup {None}] :
               \A m, n \in Buckets : f[m] = f[n] => m = n \/ f[m] = None}

Init ==
    /\ role \in [Users -> Roles]
    /\ garage \in Namings
    /\ row \in Namings
    /\ grants \in [Pairs -> GrantSets \cup {{}}]
    /\ \A p \in Pairs : row[p[2]] = None => grants[p] = {}
    /\ scopes \in [Users -> SUBSET {b \in Buckets : row[b] # None}]
    /\ request = [c \in Clients |-> Quiet]
    /\ sync = [e \in Executions |-> {}]
    /\ events = 0 /\ faults = 0
    /\ asked = [p \in Pairs |-> {grants[p]}]
    /\ entrusted = [u \in Users |-> {scopes[u]}]
    /\ given = [c \in Clients |-> {}]

At(c, pc) == request[c].pc = pc
Go(c, pc) == request' = [request EXCEPT ![c].pc = pc]
Done(c)   == /\ request' = [request EXCEPT ![c] = Quiet]
             /\ given' = [given EXCEPT ![c] = {}]
Pair(c)   == <<request[c].target, request[c].bucket>>

Event == events < MaxEvents /\ events' = events + 1

\* The guards read the session with its user's role.
Send(c, u, r) ==
    /\ At(c, "idle") /\ Event
    /\ request' = [request EXCEPT ![c] = [r EXCEPT !.user = u, !.role = role[u]]]
    /\ given' = [given EXCEPT ![c] =
          (UNION entrusted[u])
              \cup (IF r.bucket = None THEN {} ELSE UNION asked[<<u, r.bucket>>])]
    /\ UNCHANGED <<role, grants, scopes, garage, row, sync, faults, asked, entrusted>>

-----------------------------------------------------------------------------
(* setUserBucketPermissions *)

AskGrant(c) ==
    \E u, t \in Users, b \in Buckets, w \in GrantSets :
        /\ role[u] \in {"SUPER_ADMIN", "ADMIN"}
        /\ Send(c, u, [Quiet EXCEPT !.pc = "scope", !.target = t, !.bucket = b, !.want = w])

\* A mutant of InScope: any scope will do.
InScopeOfAny(r) == r.role = "SUPER_ADMIN" \/ scopes[r.user] # {}

\* assertActorCanManageBucket
InScope(r) == r.role = "SUPER_ADMIN" \/ r.bucket \in scopes[r.user]

CheckScope(c) ==
    /\ At(c, "scope")
    /\ IF InScope(request[c]) THEN Go(c, "target") /\ UNCHANGED given ELSE Done(c)
    /\ UNCHANGED <<role, grants, scopes, garage, row, sync, events, faults,
                   asked, entrusted>>

FindTarget(c) ==
    LET r == request[c] IN
    /\ At(c, "target")
    /\ IF row[r.bucket] # None /\ (r.role = "ADMIN" => role[r.target] = "USER")
          THEN Go(c, "revoke") /\ UNCHANGED given ELSE Done(c)
    /\ UNCHANGED <<role, grants, scopes, garage, row, sync, events, faults,
                   asked, entrusted>>

\* Requests that have deleted the grants of p and are about to insert theirs.
Replacing(p) == {c \in Clients : At(c, "grant") /\ Pair(c) = p /\ request[c].want # {}}

\* History: the grants of p are now those that P asks for, or P's with those
\* of the requests that overlap.
NowAsked(p, P) ==
    /\ asked' = [asked EXCEPT ![p] = (IF Replacing(p) = {} THEN {} ELSE @) \cup {P}]
    /\ given' = [d \in Clients |->
          IF ~At(d, "idle") /\ <<request[d].user, request[d].bucket>> = p
             THEN given[d] \cup P ELSE given[d]]

\* A mutant of Revoke: the grants of other users go, too.
RevokeOfAll(c) ==
    /\ At(c, "revoke")
    /\ grants' = [p \in Pairs |-> IF p[2] = request[c].bucket THEN {} ELSE grants[p]]
    /\ NowAsked(Pair(c), request[c].want)
    /\ Go(c, "grant")
    /\ UNCHANGED <<role, scopes, garage, row, sync, events, faults, entrusted>>

Revoke(c) ==
    /\ At(c, "revoke")
    /\ grants' = [grants EXCEPT ![Pair(c)] = {}]
    /\ NowAsked(Pair(c), request[c].want)
    /\ Go(c, "grant")
    /\ UNCHANGED <<role, scopes, garage, row, sync, events, faults, entrusted>>

\* A mutant of Grant: the rows are inserted one by one.
GrantOneByOne(c) ==
    LET r == request[c] IN
    /\ At(c, "grant")
    /\ \E w \in SUBSET r.want : grants' = [grants EXCEPT ![Pair(c)] = @ \cup w]
    /\ Done(c)
    /\ UNCHANGED <<role, scopes, garage, row, sync, events, faults, asked, entrusted>>

\* createMany: one statement, which fails when a row is there already.  What
\* follows, the audit record and the rows read for the answer, changes no grant.
Grant(c) ==
    LET r == request[c] IN
    /\ At(c, "grant")
    /\ grants' = [grants EXCEPT ![Pair(c)] = IF @ \cap r.want = {} THEN @ \cup r.want ELSE @]
    /\ Done(c)
    /\ UNCHANGED <<role, scopes, garage, row, sync, events, faults, asked, entrusted>>

-----------------------------------------------------------------------------
(* setAdminScopes *)

AskScopes(c) ==
    \E u, t \in Users, w \in SUBSET Buckets :
        /\ role[u] = "SUPER_ADMIN"
        /\ Send(c, u, [Quiet EXCEPT !.pc = "admin", !.target = t, !.want = w])

FindAdmin(c) ==
    /\ At(c, "admin")
    /\ IF role[request[c].target] = "ADMIN"
          THEN Go(c, "clear") /\ UNCHANGED given ELSE Done(c)
    /\ UNCHANGED <<role, grants, scopes, garage, row, sync, events, faults,
                   asked, entrusted>>

Rescoping(u) == {c \in Clients :
                     At(c, "add") /\ request[c].target = u /\ request[c].want # {}}

\* History: the buckets of u are now those of B, or B's with those of the
\* requests that overlap.
NowEntrusted(u, B) ==
    /\ entrusted' = [entrusted EXCEPT ![u] = (IF Rescoping(u) = {} THEN {} ELSE @) \cup {B}]
    /\ given' = [d \in Clients |->
          IF ~At(d, "idle") /\ request[d].user = u THEN given[d] \cup B ELSE given[d]]

ClearScopes(c) ==
    LET r == request[c] IN
    /\ At(c, "clear")
    /\ scopes' = [scopes EXCEPT ![r.target] = {}]
    /\ NowEntrusted(r.target, r.want)
    /\ Go(c, "add")
    /\ UNCHANGED <<role, grants, garage, row, sync, events, faults, asked>>

\* A mutant of AddScopes: rows that are there are skipped, unknown buckets, too.
AddKnownScopes(c) ==
    LET r == request[c] IN
    /\ At(c, "add")
    /\ scopes' = [scopes EXCEPT ![r.target] = @ \cup {b \in r.want : row[b] # None}]
    /\ Done(c)
    /\ UNCHANGED <<role, grants, garage, row, sync, events, faults, asked, entrusted>>

\* createMany fails for an unknown bucket, after the old scopes are gone.
AddScopes(c) ==
    LET r == request[c] IN
    /\ At(c, "add")
    /\ IF scopes[r.target] \cap r.want = {} /\ \A b \in r.want : row[b] # None
          THEN /\ scopes' = [scopes EXCEPT ![r.target] = @ \cup r.want]
               /\ UNCHANGED entrusted
          ELSE /\ entrusted' = [entrusted EXCEPT ![r.target] = @ \cup {{}}]
               /\ UNCHANGED scopes
    /\ Done(c)
    /\ UNCHANGED <<role, grants, garage, row, sync, events, faults, asked>>

-----------------------------------------------------------------------------
(* The files endpoints: BucketPermissionGuard and FilesService *)

AskFiles(c) ==
    \E u \in Users, b \in Buckets, s \in Checks :
        Send(c, u, [Quiet EXCEPT !.pc = "check", !.bucket = b, !.checks = s,
                                 !.want = Range(s)])

\* A mutant of MayUse: a grant of any permission will do.
MayUseWithAny(r, p) ==
    r.role = "SUPER_ADMIN" \/ grants[<<r.user, r.bucket>>] # {}

\* requireBucketPermission; an unknown bucket has no grants.
MayUse(r, p) == r.role = "SUPER_ADMIN" \/ p \in grants[<<r.user, r.bucket>>]

\* The guard and the service check one after the other, before anything is done.
CheckPermission(c) ==
    LET r == request[c] IN
    /\ At(c, "check") /\ r.checks # <<>>
    /\ IF MayUse(r, Head(r.checks))
          THEN /\ request' = [request EXCEPT ![c].checks = Tail(@)]
               /\ UNCHANGED given
          ELSE Done(c)
    /\ UNCHANGED <<role, grants, scopes, garage, row, sync, events, faults,
                   asked, entrusted>>

\* The call to S3, the upload session or the job.
Act(c) ==
    /\ At(c, "check") /\ request[c].checks = <<>>
    /\ Done(c)
    /\ UNCHANGED <<role, grants, scopes, garage, row, sync, events, faults,
                   asked, entrusted>>

-----------------------------------------------------------------------------
\* A statement fails before it takes effect, or the process dies.
StatementFails(c) ==
    /\ ~At(c, "idle")
    /\ faults < MaxFaults /\ faults' = faults + 1
    /\ asked' = IF At(c, "grant") THEN [asked EXCEPT ![Pair(c)] = @ \cup {{}}] ELSE asked
    /\ entrusted' = IF At(c, "add")
                       THEN [entrusted EXCEPT ![request[c].target] = @ \cup {{}}]
                       ELSE entrusted
    /\ Done(c)
    /\ UNCHANGED <<role, grants, scopes, garage, row, sync, events>>

\* updateUser and LDAP's role mapping (Access); scopes and grants stay.
ChangeRole ==
    /\ Event
    /\ \E u \in Users : \E r \in Roles \ {role[u]} : role' = [role EXCEPT ![u] = r]
    /\ UNCHANGED <<grants, scopes, request, garage, row, sync, faults, asked,
                   entrusted, given>>

-----------------------------------------------------------------------------
(* executeBucketSync *)

\* Somebody creates, removes or renames buckets in Garage.
GarageChanges ==
    /\ Event
    /\ \E f \in Namings \ {garage} : garage' = f
    /\ UNCHANGED <<role, grants, scopes, request, row, sync, faults, asked,
                   entrusted, given>>

\* listBuckets; each bucket is then copied in a statement of its own.
ListBuckets(e) ==
    /\ sync[e] = {}
    /\ sync' = [sync EXCEPT ![e] = {n \in Buckets \X Ids : garage[n[1]] = n[2]}]
    /\ UNCHANGED <<role, grants, scopes, request, garage, row, events, faults,
                   asked, entrusted, given>>

\* A mutant of UpsertBucket: a row that exists is left as it is.
InsertBucket(e, n) ==
    /\ n \in sync[e]
    /\ row' = [row EXCEPT ![n[1]] = IF @ = None THEN n[2] ELSE @]
    /\ sync' = [sync EXCEPT ![e] = @ \ {n}]
    /\ UNCHANGED <<role, grants, scopes, request, garage, events, faults, asked,
                   entrusted, given>>

UpsertBucket(e, n) ==
    /\ n \in sync[e]
    /\ row' = [row EXCEPT ![n[1]] = n[2]]
    /\ sync' = [sync EXCEPT ![e] = @ \ {n}]
    /\ UNCHANGED <<role, grants, scopes, request, garage, events, faults, asked,
                   entrusted, given>>

\* Garage or a statement fails, the job is canceled between two buckets, or the
\* process dies; the queue may run the job again.
SyncFails(e) ==
    /\ sync[e] # {}
    /\ faults < MaxFaults /\ faults' = faults + 1
    /\ sync' = [sync EXCEPT ![e] = {}]
    /\ UNCHANGED <<role, grants, scopes, request, garage, row, events, asked,
                   entrusted, given>>

-----------------------------------------------------------------------------
Serve(c) ==
    \/ CheckScope(c) \/ FindTarget(c) \/ Revoke(c) \/ Grant(c)
    \/ FindAdmin(c) \/ ClearScopes(c) \/ AddScopes(c)
    \/ CheckPermission(c) \/ Act(c)
GoOn(e) == \E n \in Buckets \X Ids : UpsertBucket(e, n)

Next ==
    \/ \E c \in Clients : \/ AskGrant(c) \/ AskScopes(c) \/ AskFiles(c)
                          \/ Serve(c) \/ StatementFails(c)
    \/ ChangeRole \/ GarageChanges
    \/ \E e \in Executions : ListBuckets(e) \/ GoOn(e) \/ SyncFails(e)

Spec == Init /\ [][Next]_vars

\* An execution that is not dead goes on, and the scheduler starts the sync again
\* and again (MaintenanceScheduler).
FairSpec ==
    /\ Spec
    /\ \A e \in Executions : WF_vars(GoOn(e))
    /\ WF_vars(\E e \in Executions : ListBuckets(e))

(***************************************************************************)
(* Properties                                                              *)
(***************************************************************************)
Pcs == {"idle", "scope", "target", "revoke", "grant", "admin", "clear", "add",
        "check"}

Requests == [pc: Pcs, user: Users \cup {None}, role: Roles, target: Users \cup {None},
             bucket: Buckets \cup {None}, want: SUBSET (Permissions \cup Buckets),
             checks: Seq(Permissions)]

\* Types; grants and scopes hang on rows.
TypeOK ==
    /\ role \in [Users -> Roles]
    /\ grants \in [Pairs -> SUBSET Permissions]
    /\ scopes \in [Users -> SUBSET Buckets]
    /\ request \in [Clients -> Requests]
    /\ garage \in [Buckets -> Ids \cup {None}] /\ row \in [Buckets -> Ids \cup {None}]
    /\ sync \in [Executions -> SUBSET (Buckets \X Ids)]
    /\ events \in 0..MaxEvents /\ faults \in 0..MaxFaults
    /\ \A p \in Pairs : row[p[2]] = None => grants[p] = {}
    /\ \A u \in Users : \A b \in scopes[u] : row[b] # None

\* However replacements of a user's grants on a bucket overlap or fail, what the
\* user has is made of whole sets that the latest of them asked for: never a part
\* of one, and never what an earlier one had granted.
GrantsAreAskedFor ==
    \A p \in Pairs : \E A \in SUBSET asked[p] : grants[p] = UNION A

\* When a single set was asked for last and nobody is replacing it, the user has
\* exactly that set.
OneRequestDecides ==
    \A p \in Pairs, P \in SUBSET Permissions :
        asked[p] = {P} /\ Replacing(p) = {} => grants[p] = P

\* The same of an administrator's scopes.
OneScopeDecides ==
    \A u \in Users, B \in SUBSET Buckets :
        entrusted[u] = {B} /\ Rescoping(u) = {} => scopes[u] = B

\* A files request that is about to act was granted each permission it needs, by
\* requests of which none was replaced before it was sent.
OperationsAreGranted ==
    \A c \in Clients :
        /\ At(c, "check") /\ request[c].checks = <<>>
        /\ request[c].role # "SUPER_ADMIN"
        => request[c].want \subseteq given[c]

\* An administrator who changes grants was entrusted with the bucket, by scopes
\* of which none was replaced before the request was sent.
ChangesAreInScope ==
    \A c \in Clients :
        request[c].pc \in {"target", "revoke", "grant"} /\ request[c].role = "ADMIN"
            => request[c].bucket \in given[c]

\* When Garage's names no longer change, the rows agree with them at last and
\* for good, whatever old listings executions still hold.
RowsConverge ==
    <>[](\A n \in Buckets : garage[n] # None => row[n] = garage[n])
=============================================================================
