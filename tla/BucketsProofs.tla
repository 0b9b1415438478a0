----------------------------- MODULE BucketsProofs -----------------------------
(***************************************************************************)
(* However replacements of grants and scopes overlap or fail, for any      *)
(* number of requests, users, buckets and permissions: what a user has is  *)
(* what the latest requests asked for, and what a request is allowed was   *)
(* given by requests that nobody had replaced when it was sent.            *)
(***************************************************************************)
EXTENDS Buckets, TLAPS

Requested == request \in [Clients -> Requests]

LEMMA QuietType == Quiet \in Requests /\ Quiet.pc = "idle"
  BY DEF Quiet, Requests, Pcs, Roles

\* What is known of a request at each place.
WellFormed(r) ==
    /\ r.pc # "idle" => r.user \in Users
    /\ r.pc \in {"scope", "target", "revoke", "grant"} =>
          r.target \in Users /\ r.bucket \in Buckets /\ r.want \in SUBSET Permissions
    /\ r.pc \in {"admin", "clear", "add"} => r.target \in Users /\ r.want \in SUBSET Buckets
    /\ r.pc = "check" => r.bucket \in Buckets

\* What Go does to the requests.
LEMMA GoKeeps ==
  ASSUME Requested, NEW c \in Clients, NEW pc \in Pcs, Go(c, pc)
  PROVE  /\ Requested'
         /\ request'[c].pc = pc
         /\ request'[c].user = request[c].user /\ request'[c].role = request[c].role
         /\ request'[c].target = request[c].target
         /\ request'[c].bucket = request[c].bucket
         /\ request'[c].want = request[c].want /\ request'[c].checks = request[c].checks
         /\ \A d \in Clients \ {c} : request'[d] = request[d]
<1> DEFINE r == [request[c] EXCEPT !.pc = pc]
<1>1. /\ r \in Requests /\ r.pc = pc
      /\ r.user = request[c].user /\ r.role = request[c].role
      /\ r.target = request[c].target /\ r.bucket = request[c].bucket
      /\ r.want = request[c].want /\ r.checks = request[c].checks
  BY DEF Requested, Requests
<1>2. request' = [request EXCEPT ![c] = r]
  BY DEF Go, Requested
<1> HIDE DEF r
<1> QED  BY <1>1, <1>2 DEF Requested

\* What Send, Done and CheckPermission do: they put a request in the place of another.
LEMMA PutKeeps ==
  ASSUME Requested, NEW c \in Clients, NEW r \in Requests,
         request' = [request EXCEPT ![c] = r]
  PROVE  /\ Requested'
         /\ request'[c] = r
         /\ \A d \in Clients \ {c} : request'[d] = request[d]
  BY DEF Requested

\* What Done does.
LEMMA DoneKeeps ==
  ASSUME Requested, NEW c \in Clients, Done(c)
  PROVE  /\ Requested'
         /\ request'[c].pc = "idle"
         /\ \A d \in Clients \ {c} : request'[d] = request[d]
  BY PutKeeps, QuietType DEF Done

-----------------------------------------------------------------------------
(* Types *)

History ==
    /\ asked \in [Pairs -> SUBSET SUBSET Permissions]
    /\ entrusted \in [Users -> SUBSET SUBSET Buckets]
    /\ given \in [Clients -> SUBSET (Permissions \cup Buckets)]

Formed == \A c \in Clients : WellFormed(request[c])

HasRow ==
    \A c \in Clients :
        request[c].pc \in {"revoke", "grant"} => row[request[c].bucket] # None

IType == TypeOK /\ History /\ Formed /\ HasRow

\* The request that is sent, with the user and the role of the session.
Sent(r, u) == [r EXCEPT !.user = u, !.role = role[u]]

\* The requests that the three kinds of clients send.
LEMMA AskType ==
  ASSUME IType, NEW c \in Clients, AskGrant(c) \/ AskScopes(c) \/ AskFiles(c)
  PROVE  \E u \in Users : \E r \in Requests :
            /\ Send(c, u, r)
            /\ Sent(r, u) \in Requests /\ WellFormed(Sent(r, u))
            /\ Sent(r, u).pc \in {"scope", "admin", "check"}
            /\ Sent(r, u).pc = r.pc /\ Sent(r, u).user = u
            /\ Sent(r, u).role = role[u] /\ Sent(r, u).bucket = r.bucket
            /\ Sent(r, u).want = r.want /\ Sent(r, u).checks = r.checks
            /\ r.pc = "check" => r.want = Range(r.checks)
<1>1. ASSUME NEW r \in Requests, NEW u \in Users,
             r.pc \in {"scope", "admin", "check"},
             r.pc = "scope" => r.target \in Users /\ r.bucket \in Buckets
                               /\ r.want \in SUBSET Permissions,
             r.pc = "admin" => r.target \in Users /\ r.want \in SUBSET Buckets,
             r.pc = "check" => r.bucket \in Buckets
      PROVE  /\ Sent(r, u) \in Requests /\ WellFormed(Sent(r, u))
             /\ Sent(r, u).pc = r.pc /\ Sent(r, u).user = u
             /\ Sent(r, u).role = role[u] /\ Sent(r, u).bucket = r.bucket
             /\ Sent(r, u).want = r.want /\ Sent(r, u).checks = r.checks
  <2>1. role[u] \in Roles
    BY DEF IType, TypeOK
  <2> QED  BY <1>1, <2>1 DEF Sent, Requests, WellFormed
<1>2. CASE AskGrant(c)
  <2>1. PICK u \in Users, t \in Users, b \in Buckets, w \in GrantSets :
            Send(c, u, [Quiet EXCEPT !.pc = "scope", !.target = t, !.bucket = b, !.want = w])
    BY <1>2 DEF AskGrant
  <2> DEFINE r == [Quiet EXCEPT !.pc = "scope", !.target = t, !.bucket = b, !.want = w]
  <2>2. w \in SUBSET Permissions
    BY BucketsAssumption
  <2>3. r \in Requests /\ r.pc = "scope" /\ r.target = t /\ r.bucket = b /\ r.want = w
    BY <2>2, QuietType DEF Requests, Pcs
  <2>4. Send(c, u, r)
    BY <2>1
  <2> HIDE DEF r
  <2> QED  BY <1>1, <2>2, <2>3, <2>4
<1>3. CASE AskScopes(c)
  <2>1. PICK u \in Users, t \in Users, w \in SUBSET Buckets :
            Send(c, u, [Quiet EXCEPT !.pc = "admin", !.target = t, !.want = w])
    BY <1>3 DEF AskScopes
  <2> DEFINE r == [Quiet EXCEPT !.pc = "admin", !.target = t, !.want = w]
  <2>2. r \in Requests /\ r.pc = "admin" /\ r.target = t /\ r.want = w
    BY QuietType DEF Requests, Pcs
  <2>3. Send(c, u, r)
    BY <2>1
  <2> HIDE DEF r
  <2> QED  BY <1>1, <2>2, <2>3
<1>4. CASE AskFiles(c)
  <2>1. PICK u \in Users, b \in Buckets, s \in Checks :
            Send(c, u, [Quiet EXCEPT !.pc = "check", !.bucket = b, !.checks = s,
                                     !.want = Range(s)])
    BY <1>4 DEF AskFiles
  <2> DEFINE r == [Quiet EXCEPT !.pc = "check", !.bucket = b, !.checks = s,
                                !.want = Range(s)]
  <2>2. s \in Seq(Permissions) /\ Range(s) \in SUBSET Permissions
    BY BucketsAssumption DEF Range
  <2>3. /\ r \in Requests /\ r.pc = "check" /\ r.bucket = b
        /\ r.checks = s /\ r.want = Range(s)
    BY <2>2, QuietType DEF Requests, Pcs
  <2>4. Send(c, u, r)
    BY <2>1
  <2> HIDE DEF r
  <2> QED  BY <1>1, <2>3, <2>4
<1> QED  BY <1>2, <1>3, <1>4

LEMMA InitTypes == Init => IType
<1> SUFFICES ASSUME Init PROVE IType
  OBVIOUS
<1>1. \A p \in Pairs : grants[p] \in SUBSET Permissions
  BY BucketsAssumption DEF Init
<1>2. TypeOK
  <2>1. grants \in [Pairs -> SUBSET Permissions]
    BY <1>1 DEF Init
  <2>2. request \in [Clients -> Requests]
    BY QuietType DEF Init
  <2>3. events \in 0..MaxEvents /\ faults \in 0..MaxFaults
    BY BucketsAssumption DEF Init
  <2>4. scopes \in [Users -> SUBSET Buckets] /\ \A u \in Users : \A b \in scopes[u] : row[b] # None
    BY DEF Init
  <2>5. garage \in [Buckets -> Ids \cup {None}] /\ row \in [Buckets -> Ids \cup {None}]
    BY DEF Init, Namings
  <2> QED  BY <2>1, <2>2, <2>3, <2>4, <2>5 DEF TypeOK, Init
<1>3. History
  BY <1>1, <1>2 DEF Init, History, TypeOK
<1>4. Formed /\ HasRow
  BY QuietType DEF Init, Formed, HasRow, WellFormed
<1> QED  BY <1>2, <1>3, <1>4 DEF IType

LEMMA AskKeepsType ==
  ASSUME IType, NEW c \in Clients, AskGrant(c) \/ AskScopes(c) \/ AskFiles(c)
  PROVE  IType'
<1>1. PICK u \in Users, r \in Requests :
          /\ Send(c, u, r)
          /\ Sent(r, u) \in Requests /\ WellFormed(Sent(r, u))
          /\ Sent(r, u).pc \in {"scope", "admin", "check"}
  BY AskType
<1>2. /\ Requested' /\ request'[c] = Sent(r, u)
      /\ \A d \in Clients \ {c} : request'[d] = request[d]
  BY <1>1, PutKeeps DEF Send, Sent, IType, TypeOK, Requested
<1>3. TypeOK'
  BY <1>1, <1>2, BucketsAssumption DEF IType, TypeOK, Requested, Send, Event
<1>4. History'
  <2> DEFINE G == (UNION entrusted[u])
                    \cup (IF r.bucket = None THEN {} ELSE UNION asked[<<u, r.bucket>>])
  <2>1. UNION entrusted[u] \in SUBSET (Permissions \cup Buckets)
    BY DEF IType, History
  <2>2. ASSUME r.bucket # None
        PROVE  UNION asked[<<u, r.bucket>>] \in SUBSET (Permissions \cup Buckets)
    <3>1. r.bucket \in Buckets
      BY <2>2 DEF Requests
    <3>2. asked[<<u, r.bucket>>] \in SUBSET SUBSET Permissions
      BY <3>1 DEF IType, History, Pairs
    <3> QED  BY <3>2
  <2>3. G \in SUBSET (Permissions \cup Buckets)
    BY <2>1, <2>2
  <2>4. given' = [given EXCEPT ![c] = G] /\ UNCHANGED <<asked, entrusted>>
    BY <1>1 DEF Send
  <2> HIDE DEF G
  <2> QED  BY <2>3, <2>4 DEF IType, History
<1>5. Formed' /\ HasRow'
  BY <1>1, <1>2 DEF IType, Formed, HasRow, Send
<1> QED  BY <1>3, <1>4, <1>5 DEF IType

\* Guards and lookups: the request goes on to its next step, or it is over.
LEMMA LookupKeepsType ==
  ASSUME IType, NEW c \in Clients,
         CheckScope(c) \/ FindTarget(c) \/ FindAdmin(c) \/ CheckPermission(c) \/ Act(c)
  PROVE  IType'
<1>1. UNCHANGED <<role, grants, scopes, garage, row, sync, events, faults,
                  asked, entrusted>>
  BY DEF CheckScope, FindTarget, FindAdmin, CheckPermission, Act
<1> Requested
  BY DEF IType, TypeOK, Requested
<1>2. /\ Requested' /\ WellFormed(request'[c])
      /\ \A d \in Clients \ {c} : request'[d] = request[d]
      /\ request'[c].pc \in {"revoke", "grant"} => row[request'[c].bucket] # None
      /\ UNCHANGED given \/ given' = [given EXCEPT ![c] = {}]
  <2>1. CASE Done(c)
    BY <2>1, DoneKeeps DEF WellFormed, Done
  <2>2. CASE \/ At(c, "scope") /\ Go(c, "target") /\ UNCHANGED given
             \/ /\ At(c, "target") /\ Go(c, "revoke") /\ UNCHANGED given
                /\ row[request[c].bucket] # None
             \/ At(c, "admin") /\ Go(c, "clear") /\ UNCHANGED given
    BY <2>2, GoKeeps DEF IType, Formed, WellFormed, At, Pcs
  <2>3. CASE /\ At(c, "check") /\ request[c].checks # <<>> /\ UNCHANGED given
             /\ request' = [request EXCEPT ![c].checks = Tail(@)]
    <3> DEFINE r == [request[c] EXCEPT !.checks = Tail(@)]
    <3>1. request[c].checks \in Seq(Permissions)
      BY DEF Requested, Requests
    <3>2. Tail(request[c].checks) \in Seq(Permissions)
      BY <2>3, <3>1
    <3>3. r \in Requests /\ r.pc = "check" /\ r.user = request[c].user
          /\ r.bucket = request[c].bucket
      BY <2>3, <3>2 DEF Requested, Requests, At
    <3>4. request' = [request EXCEPT ![c] = r]
      BY <2>3
    <3> HIDE DEF r
    <3>5. Requested' /\ request'[c] = r /\ \A d \in Clients \ {c} : request'[d] = request[d]
      BY <3>3, <3>4, PutKeeps
    <3> QED  BY <2>3, <3>3, <3>5 DEF IType, Formed, WellFormed, At
  <2> QED  BY <2>1, <2>2, <2>3 DEF CheckScope, FindTarget, FindAdmin, CheckPermission, Act
<1>3. TypeOK'
  BY <1>1, <1>2 DEF IType, TypeOK, Requested
<1>4. History'
  BY <1>1, <1>2 DEF IType, History
<1>5. Formed' /\ HasRow'
  BY <1>1, <1>2 DEF IType, Formed, HasRow
<1> QED  BY <1>3, <1>4, <1>5 DEF IType

LEMMA RevokeKeepsType ==
  ASSUME IType, NEW c \in Clients, Revoke(c)
  PROVE  IType'
<1> Requested
  BY DEF IType, TypeOK, Requested
<1>1. /\ request[c].target \in Users /\ request[c].bucket \in Buckets
      /\ request[c].want \in SUBSET Permissions /\ request[c].user \in Users
      /\ Pair(c) \in Pairs
  BY DEF IType, Formed, WellFormed, Revoke, At, Pair, Pairs
<1>2. /\ Requested' /\ request'[c].pc = "grant"
      /\ request'[c].user = request[c].user /\ request'[c].target = request[c].target
      /\ request'[c].bucket = request[c].bucket /\ request'[c].want = request[c].want
      /\ \A d \in Clients \ {c} : request'[d] = request[d]
  BY GoKeeps DEF Revoke, Pcs
<1>3. TypeOK'
  BY <1>1, <1>2 DEF IType, TypeOK, Requested, Revoke
<1>4. History'
  <2>1. asked' \in [Pairs -> SUBSET SUBSET Permissions]
    BY <1>1 DEF IType, History, Revoke, NowAsked
  <2>2. given' \in [Clients -> SUBSET (Permissions \cup Buckets)]
    <3>1. ASSUME NEW d \in Clients
          PROVE  given'[d] \in SUBSET (Permissions \cup Buckets)
      BY <1>1 DEF IType, History, Revoke, NowAsked
    <3> QED  BY <3>1 DEF Revoke, NowAsked
  <2> QED  BY <2>1, <2>2 DEF IType, History, Revoke
<1>5. Formed' /\ HasRow'
  BY <1>1, <1>2 DEF IType, Formed, HasRow, WellFormed, Revoke, At
<1> QED  BY <1>3, <1>4, <1>5 DEF IType

LEMMA GrantKeepsType ==
  ASSUME IType, NEW c \in Clients, Grant(c)
  PROVE  IType'
<1> Requested
  BY DEF IType, TypeOK, Requested
<1>1. /\ request[c].target \in Users /\ request[c].bucket \in Buckets
      /\ request[c].want \in SUBSET Permissions /\ Pair(c) \in Pairs
      /\ row[request[c].bucket] # None
  BY DEF IType, Formed, WellFormed, HasRow, Grant, At, Pair, Pairs
<1>2. /\ Requested' /\ request'[c].pc = "idle"
      /\ \A d \in Clients \ {c} : request'[d] = request[d]
  BY DoneKeeps DEF Grant
<1>3. TypeOK'
  <2>1. grants' \in [Pairs -> SUBSET Permissions]
    BY <1>1 DEF IType, TypeOK, Grant
  <2>2. \A p \in Pairs : row'[p[2]] = None => grants'[p] = {}
    BY <1>1 DEF IType, TypeOK, Grant, Pair, Pairs
  <2> QED  BY <1>2, <2>1, <2>2 DEF IType, TypeOK, Requested, Grant
<1>4. History' /\ Formed' /\ HasRow'
  BY <1>2 DEF IType, History, Formed, HasRow, WellFormed, Grant, Done
<1> QED  BY <1>3, <1>4 DEF IType

LEMMA ScopesKeepType ==
  ASSUME IType, NEW c \in Clients, ClearScopes(c) \/ AddScopes(c)
  PROVE  IType'
<1> Requested
  BY DEF IType, TypeOK, Requested
<1>1. /\ request[c].target \in Users /\ request[c].want \in SUBSET Buckets
      /\ request[c].user \in Users
  BY DEF IType, Formed, WellFormed, ClearScopes, AddScopes, At
<1>2. CASE ClearScopes(c)
  <2>1. /\ Requested' /\ request'[c].pc = "add"
        /\ request'[c].user = request[c].user /\ request'[c].target = request[c].target
        /\ request'[c].want = request[c].want
        /\ \A d \in Clients \ {c} : request'[d] = request[d]
    BY <1>2, GoKeeps DEF ClearScopes, Pcs
  <2>2. TypeOK'
    BY <1>1, <1>2, <2>1 DEF IType, TypeOK, Requested, ClearScopes
  <2>3. entrusted' \in [Users -> SUBSET SUBSET Buckets]
    BY <1>1, <1>2 DEF IType, History, ClearScopes, NowEntrusted
  <2>4. ASSUME NEW d \in Clients
        PROVE  given'[d] \in SUBSET (Permissions \cup Buckets)
    BY <1>1, <1>2 DEF IType, History, ClearScopes, NowEntrusted
  <2>5. given' \in [Clients -> SUBSET (Permissions \cup Buckets)]
    BY <1>2, <2>4 DEF ClearScopes, NowEntrusted
  <2>6. Formed' /\ HasRow'
    BY <1>1, <1>2, <2>1 DEF IType, Formed, HasRow, WellFormed, ClearScopes
  <2> QED  BY <1>2, <2>2, <2>3, <2>5, <2>6 DEF IType, History, ClearScopes
<1>3. CASE AddScopes(c)
  <2>1. /\ Requested' /\ request'[c].pc = "idle"
        /\ \A d \in Clients \ {c} : request'[d] = request[d]
    BY <1>3, DoneKeeps DEF AddScopes
  <2>2. /\ scopes' \in [Users -> SUBSET Buckets]
        /\ \A u \in Users : \A b \in scopes'[u] : row[b] # None
    BY <1>1, <1>3 DEF IType, TypeOK, AddScopes
  <2>3. TypeOK'
    BY <1>3, <2>1, <2>2 DEF IType, TypeOK, Requested, AddScopes
  <2>4. entrusted' \in [Users -> SUBSET SUBSET Buckets]
    BY <1>1, <1>3 DEF IType, History, AddScopes
  <2>5. History' /\ Formed' /\ HasRow'
    BY <1>3, <2>1, <2>4 DEF IType, History, Formed, HasRow, WellFormed, AddScopes, Done
  <2> QED  BY <2>3, <2>5 DEF IType
<1> QED  BY <1>2, <1>3

LEMMA FailureKeepsType ==
  ASSUME IType, NEW c \in Clients, StatementFails(c)
  PROVE  IType'
<1> Requested
  BY DEF IType, TypeOK, Requested
<1>1. /\ Requested' /\ request'[c].pc = "idle"
      /\ \A d \in Clients \ {c} : request'[d] = request[d]
  BY DoneKeeps DEF StatementFails
<1>2. TypeOK'
  BY <1>1, BucketsAssumption DEF IType, TypeOK, Requested, StatementFails
<1>3. asked' \in [Pairs -> SUBSET SUBSET Permissions]
  BY DEF IType, History, StatementFails
<1>4. entrusted' \in [Users -> SUBSET SUBSET Buckets]
  BY DEF IType, History, StatementFails
<1>5. History' /\ Formed' /\ HasRow'
  BY <1>1, <1>3, <1>4 DEF IType, History, Formed, HasRow, WellFormed, StatementFails, Done
<1> QED  BY <1>2, <1>5 DEF IType

\* Rows are made or get another id; none goes.
LEMMA RowsKeepType ==
  ASSUME IType,
         \/ ChangeRole \/ GarageChanges
         \/ \E e \in Executions : ListBuckets(e) \/ GoOn(e) \/ SyncFails(e)
  PROVE  IType'
<1>1. UNCHANGED <<request, grants, scopes, asked, entrusted, given>>
  BY DEF ChangeRole, GarageChanges, ListBuckets, GoOn, UpsertBucket, SyncFails
<1>2. /\ row' \in [Buckets -> Ids \cup {None}]
      /\ \A b \in Buckets : row[b] # None => row'[b] # None
  BY BucketsAssumption
     DEF IType, TypeOK, ChangeRole, GarageChanges, ListBuckets, GoOn, UpsertBucket, SyncFails
<1>3. sync' \in [Executions -> SUBSET (Buckets \X Ids)]
  BY DEF IType, TypeOK, ChangeRole, GarageChanges, ListBuckets, GoOn, UpsertBucket, SyncFails
<1>4. /\ role' \in [Users -> Roles] /\ garage' \in [Buckets -> Ids \cup {None}]
      /\ events' \in 0..MaxEvents /\ faults' \in 0..MaxFaults
  BY BucketsAssumption
     DEF IType, TypeOK, ChangeRole, GarageChanges, ListBuckets, GoOn, UpsertBucket,
         SyncFails, Event, Namings
<1>5. /\ \A p \in Pairs : row'[p[2]] = None => grants'[p] = {}
      /\ \A u \in Users : \A b \in scopes'[u] : row'[b] # None
  BY <1>1, <1>2 DEF IType, TypeOK, Pairs
<1>6. HasRow'
  BY <1>1, <1>2 DEF IType, HasRow, Formed, WellFormed
<1> QED  BY <1>1, <1>2, <1>3, <1>4, <1>5, <1>6 DEF IType, TypeOK, History, Formed

LEMMA TypeInductive == IType /\ [Next]_vars => IType'
<1>1. ASSUME IType, NEW c \in Clients, Serve(c) PROVE IType'
  BY <1>1, LookupKeepsType, RevokeKeepsType, GrantKeepsType, ScopesKeepType DEF Serve
<1>2. ASSUME IType, Next PROVE IType'
  BY <1>1, <1>2, AskKeepsType, FailureKeepsType, RowsKeepType DEF Next
<1>3. ASSUME IType, UNCHANGED vars PROVE IType'
  BY <1>3 DEF vars, IType, TypeOK, History, Formed, HasRow
<1> QED  BY <1>2, <1>3

\* Types hold and grants and scopes hang on rows (the foreign keys of schema.prisma),
\* however requests, syncs and failures interleave.
THEOREM TypeCorrect == Spec => []TypeOK
<1>1. IType => TypeOK
  BY DEF IType
<1> QED  BY <1>1, InitTypes, TypeInductive, PTL DEF Spec

-----------------------------------------------------------------------------
(* Grants *)

WantIsAsked ==
    \A c \in Clients :
        At(c, "grant") /\ request[c].want # {} => request[c].want \in asked[Pair(c)]

GrantsInv == WantIsAsked /\ GrantsAreAskedFor /\ OneRequestDecides

\* A step that neither begins nor ends the second half of a replacement.
LEMMA OthersKeepGrants ==
  ASSUME GrantsInv, UNCHANGED <<grants, asked>>,
         \A d \in Clients : request[d].pc = "grant" \/ request'[d].pc = "grant"
                               => request'[d] = request[d]
  PROVE  GrantsInv'
<1>1. \A d \in Clients :
         /\ At(d, "grant")' <=> At(d, "grant")
         /\ At(d, "grant") => request'[d] = request[d] /\ Pair(d)' = Pair(d)
  BY DEF At, Pair
<1>2. \A p : Replacing(p)' = Replacing(p)
  BY <1>1 DEF Replacing
<1> QED  BY <1>1, <1>2 DEF GrantsInv, WantIsAsked, GrantsAreAskedFor, OneRequestDecides

LEMMA RevokeKeepsGrants ==
  ASSUME IType, GrantsInv, NEW c \in Clients, Revoke(c)
  PROVE  GrantsInv'
<1> DEFINE q == Pair(c)
           P == request[c].want
<1> Requested
  BY DEF IType, TypeOK, Requested
<1>1. q \in Pairs /\ P \in SUBSET Permissions
  BY DEF IType, Formed, WellFormed, Revoke, At, Pair, Pairs
<1>2. /\ request'[c].pc = "grant" /\ request'[c].want = P /\ Pair(c)' = q
      /\ \A d \in Clients \ {c} : request'[d] = request[d] /\ Pair(d)' = Pair(d)
  BY GoKeeps DEF Revoke, Pcs, Pair
<1>3. /\ grants' = [grants EXCEPT ![q] = {}]
      /\ asked' = [asked EXCEPT ![q] = (IF Replacing(q) = {} THEN {} ELSE @) \cup {P}]
  BY DEF Revoke, NowAsked
<1>4. grants \in [Pairs -> SUBSET Permissions] /\ asked \in [Pairs -> SUBSET SUBSET Permissions]
  BY DEF IType, TypeOK, History
<1>5. \A d \in Clients \ {c} : At(d, "grant")' <=> At(d, "grant")
  BY <1>2 DEF At
<1>6. \A p \in Pairs : p = q /\ P # {} => Replacing(p)' # {}
  BY <1>2 DEF Revoke, At, Replacing
<1> HIDE DEF q, P
<1>7. WantIsAsked'
  <2> SUFFICES ASSUME NEW d \in Clients, At(d, "grant")', request'[d].want # {}
               PROVE  request'[d].want \in asked'[Pair(d)']
    BY DEF WantIsAsked
  <2>1. CASE d = c
    BY <1>1, <1>2, <1>3, <1>4, <2>1
  <2>2. CASE d # c
    <3>1. request[d].want \in asked[Pair(d)] /\ d \in Replacing(Pair(d))
      BY <1>2, <1>5, <2>2 DEF GrantsInv, WantIsAsked, Replacing
    <3>2. Pair(d) \in Pairs
      BY <1>2, <1>5, <2>2 DEF IType, Formed, WellFormed, Pair, Pairs, At
    <3> QED  BY <1>1, <1>2, <1>3, <1>4, <2>2, <3>1, <3>2
  <2> QED  BY <2>1, <2>2
<1>8. GrantsAreAskedFor'
  <2> SUFFICES ASSUME NEW p \in Pairs
               PROVE  \E A \in SUBSET asked'[p] : grants'[p] = UNION A
    BY DEF GrantsAreAskedFor
  <2>1. CASE p = q
    <3>1. {} \in SUBSET asked'[p] /\ grants'[p] = UNION {}
      BY <1>3, <1>4, <2>1
    <3> QED  BY <3>1
  <2>2. CASE p # q
    BY <1>3, <1>4, <2>2 DEF GrantsInv, GrantsAreAskedFor
  <2> QED  BY <2>1, <2>2
<1>9. OneRequestDecides'
  <2> SUFFICES ASSUME NEW p \in Pairs, NEW W \in SUBSET Permissions,
                      asked'[p] = {W}, Replacing(p)' = {}
               PROVE  grants'[p] = W
    BY DEF OneRequestDecides
  <2>1. CASE p = q
    <3>1. P = {} /\ P \in asked'[p]
      BY <1>1, <1>3, <1>4, <1>6, <2>1
    <3> QED  BY <1>3, <1>4, <2>1, <3>1
  <2>2. CASE p # q
    <3>1. Replacing(p)' = Replacing(p)
      BY <1>2, <1>5, <2>2 DEF Replacing, Revoke, At
    <3> QED  BY <1>3, <1>4, <2>2, <3>1 DEF GrantsInv, OneRequestDecides
  <2> QED  BY <2>1, <2>2
<1> QED  BY <1>7, <1>8, <1>9 DEF GrantsInv

\* The second half of a replacement, whether it inserts its rows, finds some there
\* or fails.
LEMMA GrantKeepsGrants ==
  ASSUME IType, GrantsInv, NEW c \in Clients, At(c, "grant"), Grant(c) \/ StatementFails(c)
  PROVE  GrantsInv'
<1> DEFINE q == Pair(c)
           P == request[c].want
<1> Requested
  BY DEF IType, TypeOK, Requested
<1>1. q \in Pairs /\ P \in SUBSET Permissions
  BY DEF IType, Formed, WellFormed, At, Pair, Pairs
<1>2. /\ ~At(c, "grant")'
      /\ \A d \in Clients \ {c} : request'[d] = request[d] /\ Pair(d)' = Pair(d)
                                  /\ (At(d, "grant")' <=> At(d, "grant"))
  BY DoneKeeps DEF Grant, StatementFails, Pair, At
<1>3. grants \in [Pairs -> SUBSET Permissions] /\ asked \in [Pairs -> SUBSET SUBSET Permissions]
  BY DEF IType, TypeOK, History
<1>4. /\ \/ asked' = asked
              /\ grants' = [grants EXCEPT ![q] = IF @ \cap P = {} THEN @ \cup P ELSE @]
         \/ asked' = [asked EXCEPT ![q] = @ \cup {{}}] /\ grants' = grants
  BY DEF Grant, StatementFails
<1>5. P # {} => P \in asked[q]
  BY DEF GrantsInv, WantIsAsked
<1>6. \A p \in Pairs : p # q \/ P = {} => Replacing(p)' = Replacing(p)
  BY <1>2 DEF Replacing
<1> HIDE DEF q, P
<1>7. WantIsAsked'
  <2> SUFFICES ASSUME NEW d \in Clients, At(d, "grant")', request'[d].want # {}
               PROVE  request'[d].want \in asked'[Pair(d)']
    BY DEF WantIsAsked
  <2>1. d # c /\ request[d].want \in asked[Pair(d)] /\ request'[d] = request[d]
        /\ Pair(d)' = Pair(d)
    BY <1>2 DEF GrantsInv, WantIsAsked
  <2>2. Pair(d) \in Pairs
    BY <1>2, <2>1 DEF IType, Formed, WellFormed, Pair, Pairs, At
  <2> QED  BY <1>1, <1>3, <1>4, <2>1, <2>2
<1>8. GrantsAreAskedFor'
  <2> SUFFICES ASSUME NEW p \in Pairs
               PROVE  \E A \in SUBSET asked'[p] : grants'[p] = UNION A
    BY DEF GrantsAreAskedFor
  <2>1. PICK A \in SUBSET asked[p] : grants[p] = UNION A
    BY DEF GrantsInv, GrantsAreAskedFor
  <2>2. asked[p] \subseteq asked'[p]
    BY <1>1, <1>3, <1>4
  <2>3. CASE grants'[p] = grants[p]
    BY <2>1, <2>2, <2>3
  <2>4. CASE grants'[p] # grants[p]
    <3>1. p = q /\ grants'[p] = grants[p] \cup P /\ P # {}
      BY <1>1, <1>3, <1>4, <2>4
    <3>2. A \cup {P} \in SUBSET asked'[p]
      BY <1>5, <2>2, <3>1
    <3>3. grants'[p] = UNION (A \cup {P})
      BY <2>1, <3>1
    <3> QED  BY <3>2, <3>3
  <2> QED  BY <2>3, <2>4
<1>9. OneRequestDecides'
  <2> SUFFICES ASSUME NEW p \in Pairs, NEW W \in SUBSET Permissions,
                      asked'[p] = {W}, Replacing(p)' = {}
               PROVE  grants'[p] = W
    BY DEF OneRequestDecides
  <2>1. CASE p # q
    BY <1>3, <1>4, <1>6, <2>1 DEF GrantsInv, OneRequestDecides
  <2>2. CASE p = q
    <3>1. PICK A \in SUBSET asked'[p] : grants'[p] = UNION A
      BY <1>8 DEF GrantsAreAskedFor
    <3>2. grants'[p] = {} \/ grants'[p] = W
      <4>1. A = {} \/ A = {W}
        BY <3>1
      <4> QED  BY <3>1, <4>1
    <3>3. CASE asked' = asked
      <4>1. P = {} => Replacing(p) = Replacing(p)'
        BY <1>6
      <4>2. P = {} => grants[p] = W
        BY <3>3, <4>1 DEF GrantsInv, OneRequestDecides
      <4>3. P # {} => P = W
        BY <1>5, <2>2, <3>3
      <4>4. \/ grants' = [grants EXCEPT ![q] = IF @ \cap P = {} THEN @ \cup P ELSE @]
            \/ grants' = grants /\ {} \in asked'[p]
        BY <1>1, <1>3, <1>4, <2>2
      <4>5. CASE grants' = grants /\ {} \in asked'[p]
        BY <3>2, <4>5
      <4>6. CASE grants' = [grants EXCEPT ![q] = IF @ \cap P = {} THEN @ \cup P ELSE @]
        <5>1. grants'[p] = IF grants[p] \cap P = {} THEN grants[p] \cup P ELSE grants[p]
          BY <1>1, <1>3, <2>2, <4>6
        <5> QED  BY <3>2, <4>2, <4>3, <5>1
      <4> QED  BY <4>4, <4>5, <4>6
    <3>4. CASE asked' # asked
      <4>1. {} \in asked'[p]
        BY <1>1, <1>3, <1>4, <2>2, <3>4
      <4> QED  BY <3>2, <4>1
    <3> QED  BY <3>3, <3>4
  <2> QED  BY <2>1, <2>2
<1> QED  BY <1>7, <1>8, <1>9 DEF GrantsInv

\* Requests on their way to a write change nothing but themselves.
LEMMA AskOrLookup ==
  ASSUME IType, NEW c \in Clients,
         \/ AskGrant(c) \/ AskScopes(c) \/ AskFiles(c)
         \/ CheckScope(c) \/ FindTarget(c) \/ FindAdmin(c) \/ CheckPermission(c) \/ Act(c)
  PROVE  /\ \A d \in Clients \ {c} : request'[d] = request[d]
         /\ {request[c].pc, request'[c].pc} \cap {"grant", "add"} = {}
         /\ UNCHANGED <<grants, scopes, asked, entrusted>>
<1> Requested
  BY DEF IType, TypeOK, Requested
<1>1. CASE AskGrant(c) \/ AskScopes(c) \/ AskFiles(c)
  <2>1. PICK u \in Users, r \in Requests :
            /\ Send(c, u, r) /\ Sent(r, u) \in Requests
            /\ Sent(r, u).pc \in {"scope", "admin", "check"}
    BY <1>1, AskType
  <2> QED  BY <2>1, PutKeeps DEF Send, Sent, At
<1>2. CASE \/ CheckScope(c) \/ FindTarget(c) \/ FindAdmin(c) \/ CheckPermission(c) \/ Act(c)
  <2>1. /\ request[c].pc \in {"scope", "target", "admin", "check"}
        /\ UNCHANGED <<grants, scopes, asked, entrusted>>
    BY <1>2 DEF CheckScope, FindTarget, FindAdmin, CheckPermission, Act, At
  <2>2. \/ Done(c) \/ Go(c, "target") \/ Go(c, "revoke") \/ Go(c, "clear")
        \/ At(c, "check") /\ request' = [request EXCEPT ![c].checks = Tail(@)]
    BY <1>2 DEF CheckScope, FindTarget, FindAdmin, CheckPermission, Act
  <2>3. CASE At(c, "check") /\ request' = [request EXCEPT ![c].checks = Tail(@)]
    BY <2>1, <2>3 DEF At, Requested, Requests
  <2>4. CASE Done(c)
    BY <2>1, <2>4, DoneKeeps
  <2>5. CASE Go(c, "target") \/ Go(c, "revoke") \/ Go(c, "clear")
    BY <2>1, <2>5, GoKeeps DEF Pcs
  <2> QED  BY <2>2, <2>3, <2>4, <2>5
<1> QED  BY <1>1, <1>2

LEMMA GrantsInductive == IType /\ GrantsInv /\ [Next]_vars => GrantsInv'
<1> SUFFICES ASSUME IType, GrantsInv, [Next]_vars PROVE GrantsInv'
  OBVIOUS
<1> Requested
  BY DEF IType, TypeOK, Requested
<1>1. CASE UNCHANGED vars
  BY <1>1, OthersKeepGrants DEF vars
<1>2. CASE \/ ChangeRole \/ GarageChanges
           \/ \E e \in Executions : ListBuckets(e) \/ GoOn(e) \/ SyncFails(e)
  <2>1. UNCHANGED <<request, grants, asked>>
    BY <1>2 DEF ChangeRole, GarageChanges, ListBuckets, GoOn, UpsertBucket, SyncFails
  <2> QED  BY <2>1, OthersKeepGrants
<1>3. ASSUME NEW c \in Clients,
             \/ AskGrant(c) \/ AskScopes(c) \/ AskFiles(c)
             \/ CheckScope(c) \/ FindTarget(c) \/ FindAdmin(c) \/ CheckPermission(c) \/ Act(c)
      PROVE  GrantsInv'
  BY <1>3, AskOrLookup, OthersKeepGrants
<1>4. ASSUME NEW c \in Clients, Revoke(c) PROVE GrantsInv'
  BY <1>4, RevokeKeepsGrants
<1>5. ASSUME NEW c \in Clients, Grant(c) PROVE GrantsInv'
  BY <1>5, GrantKeepsGrants DEF Grant
<1>6. ASSUME NEW c \in Clients, ClearScopes(c) \/ AddScopes(c) PROVE GrantsInv'
  <2>1. /\ \A d \in Clients \ {c} : request'[d] = request[d]
        /\ request[c].pc # "grant" /\ request'[c].pc # "grant"
    BY <1>6, GoKeeps, DoneKeeps DEF ClearScopes, AddScopes, At, Pcs
  <2>2. UNCHANGED <<grants, asked>>
    BY <1>6 DEF ClearScopes, AddScopes
  <2> QED  BY <2>1, <2>2, OthersKeepGrants
<1>7. ASSUME NEW c \in Clients, StatementFails(c) PROVE GrantsInv'
  <2>1. CASE At(c, "grant")
    BY <1>7, <2>1, GrantKeepsGrants
  <2>2. CASE ~At(c, "grant")
    <3>1. /\ \A d \in Clients \ {c} : request'[d] = request[d]
          /\ request[c].pc # "grant" /\ request'[c].pc # "grant"
      BY <1>7, <2>2, DoneKeeps DEF StatementFails, At
    <3>2. UNCHANGED <<grants, asked>>
      BY <1>7, <2>2 DEF StatementFails
    <3> QED  BY <3>1, <3>2, OthersKeepGrants
  <2> QED  BY <2>1, <2>2
<1> QED  BY <1>1, <1>2, <1>3, <1>4, <1>5, <1>6, <1>7 DEF Next, Serve

LEMMA GrantsInit == Init => GrantsInv
<1> SUFFICES ASSUME Init PROVE GrantsInv
  OBVIOUS
<1>1. WantIsAsked
  BY QuietType DEF Init, WantIsAsked, At
<1>2. ASSUME NEW p \in Pairs PROVE asked[p] = {grants[p]}
  BY DEF Init
<1>3. GrantsAreAskedFor
  <2>1. ASSUME NEW p \in Pairs PROVE \E A \in SUBSET asked[p] : grants[p] = UNION A
    <3>1. {grants[p]} \in SUBSET asked[p] /\ grants[p] = UNION {grants[p]}
      BY <1>2
    <3> QED  BY <3>1
  <2> QED  BY <2>1 DEF GrantsAreAskedFor
<1>4. OneRequestDecides
  BY <1>2 DEF OneRequestDecides
<1> QED  BY <1>1, <1>3, <1>4 DEF GrantsInv

\* What a user has on a bucket is made of whole sets that the latest replacements
\* asked for, the delete and the insert of setUserBucketPermissions being two
\* statements.
THEOREM GrantsAreRequested == Spec => []GrantsAreAskedFor
<1>1. GrantsInv => GrantsAreAskedFor
  BY DEF GrantsInv
<1> QED  BY <1>1, InitTypes, TypeInductive, GrantsInit, GrantsInductive, PTL DEF Spec

\* A replacement that no other overlaps and that does not fail decides alone.
THEOREM GrantsAreDecided == Spec => []OneRequestDecides
<1>1. GrantsInv => OneRequestDecides
  BY DEF GrantsInv
<1> QED  BY <1>1, InitTypes, TypeInductive, GrantsInit, GrantsInductive, PTL DEF Spec

-----------------------------------------------------------------------------
(* Scopes *)

WantIsEntrusted ==
    \A c \in Clients :
        At(c, "add") /\ request[c].want # {} => request[c].want \in entrusted[request[c].target]

ScopesAreAskedFor == \A u \in Users : \E A \in SUBSET entrusted[u] : scopes[u] = UNION A

ScopesInv == WantIsEntrusted /\ ScopesAreAskedFor /\ OneScopeDecides

LEMMA OthersKeepScopes ==
  ASSUME ScopesInv, UNCHANGED <<scopes, entrusted>>,
         \A d \in Clients : request[d].pc = "add" \/ request'[d].pc = "add"
                               => request'[d] = request[d]
  PROVE  ScopesInv'
<1>1. \A d \in Clients :
         (At(d, "add")' <=> At(d, "add")) /\ (At(d, "add") => request'[d] = request[d])
  BY DEF At
<1>2. \A u : Rescoping(u)' = Rescoping(u)
  BY <1>1 DEF Rescoping
<1> QED  BY <1>1, <1>2 DEF ScopesInv, WantIsEntrusted, ScopesAreAskedFor, OneScopeDecides

LEMMA ClearKeepsScopes ==
  ASSUME IType, ScopesInv, NEW c \in Clients, ClearScopes(c)
  PROVE  ScopesInv'
<1> DEFINE t == request[c].target
           B == request[c].want
<1> Requested
  BY DEF IType, TypeOK, Requested
<1>1. t \in Users /\ B \in SUBSET Buckets
  BY DEF IType, Formed, WellFormed, ClearScopes, At
<1>2. /\ request'[c].pc = "add" /\ request'[c].want = B /\ request'[c].target = t
      /\ \A d \in Clients \ {c} : request'[d] = request[d]
  BY GoKeeps DEF ClearScopes, Pcs
<1>3. /\ scopes' = [scopes EXCEPT ![t] = {}]
      /\ entrusted' = [entrusted EXCEPT ![t] = (IF Rescoping(t) = {} THEN {} ELSE @) \cup {B}]
  BY DEF ClearScopes, NowEntrusted
<1>4. scopes \in [Users -> SUBSET Buckets] /\ entrusted \in [Users -> SUBSET SUBSET Buckets]
  BY DEF IType, TypeOK, History
<1>5. \A d \in Clients \ {c} : At(d, "add")' <=> At(d, "add")
  BY <1>2 DEF At
<1>6. /\ \A u \in Users : u = t /\ B # {} => Rescoping(u)' # {}
      /\ \A u \in Users : u # t => Rescoping(u)' = Rescoping(u)
  BY <1>2 DEF ClearScopes, At, Rescoping
<1> HIDE DEF t, B
<1>7. WantIsEntrusted'
  <2> SUFFICES ASSUME NEW d \in Clients, At(d, "add")', request'[d].want # {}
               PROVE  request'[d].want \in entrusted'[request'[d].target]
    BY DEF WantIsEntrusted
  <2>1. CASE d = c
    BY <1>1, <1>2, <1>3, <1>4, <2>1
  <2>2. CASE d # c
    <3>1. /\ request[d].want \in entrusted[request[d].target]
          /\ d \in Rescoping(request[d].target)
      BY <1>2, <1>5, <2>2 DEF ScopesInv, WantIsEntrusted, Rescoping
    <3>2. request[d].target \in Users
      BY <1>2, <1>5, <2>2 DEF IType, Formed, WellFormed, At
    <3> QED  BY <1>1, <1>2, <1>3, <1>4, <2>2, <3>1, <3>2
  <2> QED  BY <2>1, <2>2
<1>8. ScopesAreAskedFor'
  <2> SUFFICES ASSUME NEW u \in Users
               PROVE  \E A \in SUBSET entrusted'[u] : scopes'[u] = UNION A
    BY DEF ScopesAreAskedFor
  <2>1. CASE u = t
    <3>1. {} \in SUBSET entrusted'[u] /\ scopes'[u] = UNION {}
      BY <1>3, <1>4, <2>1
    <3> QED  BY <3>1
  <2>2. CASE u # t
    BY <1>3, <1>4, <2>2 DEF ScopesInv, ScopesAreAskedFor
  <2> QED  BY <2>1, <2>2
<1>9. OneScopeDecides'
  <2> SUFFICES ASSUME NEW u \in Users, NEW W \in SUBSET Buckets,
                      entrusted'[u] = {W}, Rescoping(u)' = {}
               PROVE  scopes'[u] = W
    BY DEF OneScopeDecides
  <2>1. CASE u = t
    <3>1. B = {} /\ B \in entrusted'[u]
      BY <1>1, <1>3, <1>4, <1>6, <2>1
    <3> QED  BY <1>3, <1>4, <2>1, <3>1
  <2>2. CASE u # t
    BY <1>3, <1>4, <1>6, <2>2 DEF ScopesInv, OneScopeDecides
  <2> QED  BY <2>1, <2>2
<1> QED  BY <1>7, <1>8, <1>9 DEF ScopesInv

LEMMA AddKeepsScopes ==
  ASSUME IType, ScopesInv, NEW c \in Clients, At(c, "add"), AddScopes(c) \/ StatementFails(c)
  PROVE  ScopesInv'
<1> DEFINE t == request[c].target
           B == request[c].want
<1> Requested
  BY DEF IType, TypeOK, Requested
<1>1. t \in Users /\ B \in SUBSET Buckets
  BY DEF IType, Formed, WellFormed, At
<1>2. /\ ~At(c, "add")'
      /\ \A d \in Clients \ {c} : request'[d] = request[d] /\ (At(d, "add")' <=> At(d, "add"))
  BY DoneKeeps DEF AddScopes, StatementFails, At
<1>3. scopes \in [Users -> SUBSET Buckets] /\ entrusted \in [Users -> SUBSET SUBSET Buckets]
  BY DEF IType, TypeOK, History
<1>4. \/ entrusted' = entrusted /\ scopes' = [scopes EXCEPT ![t] = @ \cup B]
      \/ entrusted' = [entrusted EXCEPT ![t] = @ \cup {{}}] /\ scopes' = scopes
  BY DEF AddScopes, StatementFails, At
<1>5. B # {} => B \in entrusted[t]
  BY DEF ScopesInv, WantIsEntrusted
<1>6. \A u \in Users : u # t \/ B = {} => Rescoping(u)' = Rescoping(u)
  BY <1>2 DEF Rescoping
<1>7. WantIsEntrusted'
  <2> SUFFICES ASSUME NEW d \in Clients, At(d, "add")', request'[d].want # {}
               PROVE  request'[d].want \in entrusted'[request'[d].target]
    BY DEF WantIsEntrusted
  <2>1. /\ d # c /\ request[d].want \in entrusted[request[d].target]
        /\ request'[d] = request[d]
    BY <1>2 DEF ScopesInv, WantIsEntrusted
  <2>2. request[d].target \in Users
    BY <1>2, <2>1 DEF IType, Formed, WellFormed, At
  <2> HIDE DEF t, B
  <2> QED  BY <1>1, <1>3, <1>4, <2>1, <2>2
<1> HIDE DEF t, B
<1>8. ScopesAreAskedFor'
  <2> SUFFICES ASSUME NEW u \in Users
               PROVE  \E A \in SUBSET entrusted'[u] : scopes'[u] = UNION A
    BY DEF ScopesAreAskedFor
  <2>1. PICK A \in SUBSET entrusted[u] : scopes[u] = UNION A
    BY DEF ScopesInv, ScopesAreAskedFor
  <2>2. entrusted[u] \subseteq entrusted'[u]
    BY <1>1, <1>3, <1>4
  <2>3. CASE scopes'[u] = scopes[u]
    BY <2>1, <2>2, <2>3
  <2>4. CASE scopes'[u] # scopes[u]
    <3>1. u = t /\ scopes'[u] = scopes[u] \cup B /\ B # {}
      BY <1>1, <1>3, <1>4, <2>4
    <3>2. A \cup {B} \in SUBSET entrusted'[u]
      BY <1>5, <2>2, <3>1
    <3>3. scopes'[u] = UNION (A \cup {B})
      BY <2>1, <3>1
    <3> QED  BY <3>2, <3>3
  <2> QED  BY <2>3, <2>4
<1>9. OneScopeDecides'
  <2> SUFFICES ASSUME NEW u \in Users, NEW W \in SUBSET Buckets,
                      entrusted'[u] = {W}, Rescoping(u)' = {}
               PROVE  scopes'[u] = W
    BY DEF OneScopeDecides
  <2>1. CASE u # t
    BY <1>3, <1>4, <1>6, <2>1 DEF ScopesInv, OneScopeDecides
  <2>2. CASE u = t
    <3>1. PICK A \in SUBSET entrusted'[u] : scopes'[u] = UNION A
      BY <1>8 DEF ScopesAreAskedFor
    <3>2. scopes'[u] = {} \/ scopes'[u] = W
      <4>1. A = {} \/ A = {W}
        BY <3>1
      <4> QED  BY <3>1, <4>1
    <3>3. CASE entrusted' = entrusted /\ scopes' = [scopes EXCEPT ![t] = @ \cup B]
      <4>1. B = {} => scopes[u] = W
        BY <1>6, <3>3 DEF ScopesInv, OneScopeDecides
      <4>2. B # {} => B = W
        BY <1>5, <2>2, <3>3
      <4>3. scopes'[u] = scopes[u] \cup B
        BY <1>1, <1>3, <2>2, <3>3
      <4> QED  BY <3>2, <4>1, <4>2, <4>3
    <3>4. CASE entrusted' = [entrusted EXCEPT ![t] = @ \cup {{}}]
      <4>1. {} \in entrusted'[u]
        BY <1>1, <1>3, <2>2, <3>4
      <4> QED  BY <3>2, <4>1
    <3> QED  BY <1>4, <3>3, <3>4
  <2> QED  BY <2>1, <2>2
<1> QED  BY <1>7, <1>8, <1>9 DEF ScopesInv

LEMMA ScopesInductive == IType /\ ScopesInv /\ [Next]_vars => ScopesInv'
<1> SUFFICES ASSUME IType, ScopesInv, [Next]_vars PROVE ScopesInv'
  OBVIOUS
<1> Requested
  BY DEF IType, TypeOK, Requested
<1>1. CASE UNCHANGED vars
  BY <1>1, OthersKeepScopes DEF vars
<1>2. CASE \/ ChangeRole \/ GarageChanges
           \/ \E e \in Executions : ListBuckets(e) \/ GoOn(e) \/ SyncFails(e)
  <2>1. UNCHANGED <<request, scopes, entrusted>>
    BY <1>2 DEF ChangeRole, GarageChanges, ListBuckets, GoOn, UpsertBucket, SyncFails
  <2> QED  BY <2>1, OthersKeepScopes
<1>3. ASSUME NEW c \in Clients,
             \/ AskGrant(c) \/ AskScopes(c) \/ AskFiles(c)
             \/ CheckScope(c) \/ FindTarget(c) \/ FindAdmin(c) \/ CheckPermission(c) \/ Act(c)
      PROVE  ScopesInv'
  BY <1>3, AskOrLookup, OthersKeepScopes
<1>4. ASSUME NEW c \in Clients, ClearScopes(c) PROVE ScopesInv'
  BY <1>4, ClearKeepsScopes
<1>5. ASSUME NEW c \in Clients, AddScopes(c) PROVE ScopesInv'
  BY <1>5, AddKeepsScopes DEF AddScopes
<1>6. ASSUME NEW c \in Clients, Revoke(c) \/ Grant(c) PROVE ScopesInv'
  <2>1. /\ \A d \in Clients \ {c} : request'[d] = request[d]
        /\ request[c].pc # "add" /\ request'[c].pc # "add"
    BY <1>6, GoKeeps, DoneKeeps DEF Revoke, Grant, At, Pcs
  <2>2. UNCHANGED <<scopes, entrusted>>
    BY <1>6 DEF Revoke, Grant
  <2> QED  BY <2>1, <2>2, OthersKeepScopes
<1>7. ASSUME NEW c \in Clients, StatementFails(c) PROVE ScopesInv'
  <2>1. CASE At(c, "add")
    BY <1>7, <2>1, AddKeepsScopes
  <2>2. CASE ~At(c, "add")
    <3>1. /\ \A d \in Clients \ {c} : request'[d] = request[d]
          /\ request[c].pc # "add" /\ request'[c].pc # "add"
      BY <1>7, <2>2, DoneKeeps DEF StatementFails, At
    <3>2. UNCHANGED <<scopes, entrusted>>
      BY <1>7, <2>2 DEF StatementFails
    <3> QED  BY <3>1, <3>2, OthersKeepScopes
  <2> QED  BY <2>1, <2>2
<1> QED  BY <1>1, <1>2, <1>3, <1>4, <1>5, <1>6, <1>7 DEF Next, Serve

LEMMA ScopesInit == Init => ScopesInv
<1> SUFFICES ASSUME Init PROVE ScopesInv
  OBVIOUS
<1>1. WantIsEntrusted
  BY QuietType DEF Init, WantIsEntrusted, At
<1>2. ASSUME NEW u \in Users PROVE entrusted[u] = {scopes[u]}
  BY DEF Init
<1>3. ASSUME NEW u \in Users PROVE \E A \in SUBSET entrusted[u] : scopes[u] = UNION A
  <2>1. {scopes[u]} \in SUBSET entrusted[u] /\ scopes[u] = UNION {scopes[u]}
    BY <1>2
  <2> QED  BY <2>1
<1>4. OneScopeDecides
  BY <1>2 DEF OneScopeDecides
<1> QED  BY <1>1, <1>3, <1>4 DEF ScopesInv, ScopesAreAskedFor

\* The same of the scopes of an administrator, whose insert may also fail for a
\* bucket without a row.
THEOREM ScopesAreDecided == Spec => []OneScopeDecides
<1>1. ScopesInv => OneScopeDecides
  BY DEF ScopesInv
<1> QED  BY <1>1, InitTypes, TypeInductive, ScopesInit, ScopesInductive, PTL DEF Spec

-----------------------------------------------------------------------------
(* What a request is allowed *)

\* All that was asked for the user since the request was sent, is in given.
Covered(c) ==
    request[c].pc # "idle" =>
        /\ UNION entrusted[request[c].user] \subseteq given[c]
        /\ request[c].bucket # None =>
              UNION asked[<<request[c].user, request[c].bucket>>] \subseteq given[c]

\* What the request was checked for, so far.
Passed(c) ==
    /\ request[c].pc = "check" /\ request[c].role # "SUPER_ADMIN" =>
          request[c].want \subseteq given[c] \cup Range(request[c].checks)
    /\ request[c].pc \in {"target", "revoke", "grant"} /\ request[c].role = "ADMIN" =>
          request[c].bucket \in given[c]

GivenInv == \A c \in Clients : Covered(c) /\ Passed(c)

\* What is left to check when one is done.
LEMMA TailRange ==
  ASSUME NEW S, NEW s \in Seq(S), s # <<>>
  PROVE  Range(s) \subseteq {Head(s)} \cup Range(Tail(s))
<1> SUFFICES ASSUME NEW i \in DOMAIN s PROVE s[i] \in {Head(s)} \cup Range(Tail(s))
  BY Zenon DEF Range
<1>1. CASE i = 1
  BY <1>1
<1>2. CASE i # 1
  <2>1. i - 1 \in DOMAIN Tail(s) /\ Tail(s)[i - 1] = s[i]
    BY <1>2
  <2> QED  BY <2>1 DEF Range
<1> QED  BY <1>1, <1>2

LEMMA AskKeepsGiven ==
  ASSUME IType, GivenInv, NEW c \in Clients, AskGrant(c) \/ AskScopes(c) \/ AskFiles(c)
  PROVE  GivenInv'
<1>1. PICK u \in Users, r \in Requests :
          /\ Send(c, u, r) /\ Sent(r, u) \in Requests
          /\ Sent(r, u).pc \in {"scope", "admin", "check"}
          /\ Sent(r, u).pc = r.pc /\ Sent(r, u).user = u /\ Sent(r, u).bucket = r.bucket
          /\ Sent(r, u).want = r.want /\ Sent(r, u).checks = r.checks
          /\ r.pc = "check" => r.want = Range(r.checks)
  BY AskType
<1> DEFINE G == (UNION entrusted[u])
                   \cup (IF r.bucket = None THEN {} ELSE UNION asked[<<u, r.bucket>>])
<1>2. /\ request'[c] = Sent(r, u)
      /\ \A d \in Clients \ {c} : request'[d] = request[d]
  BY <1>1, PutKeeps DEF Send, Sent, IType, TypeOK, Requested
<1>3. /\ given'[c] = G /\ \A d \in Clients \ {c} : given'[d] = given[d]
      /\ UNCHANGED <<asked, entrusted>>
  BY <1>1 DEF Send, IType, History
<1>4. ASSUME NEW d \in Clients \ {c} PROVE Covered(d)' /\ Passed(d)'
  BY <1>2, <1>3 DEF GivenInv, Covered, Passed
<1>5. Covered(c)' /\ Passed(c)'
  BY <1>1, <1>2, <1>3 DEF Covered, Passed
<1> QED  BY <1>4, <1>5 DEF GivenInv

LEMMA LookupKeepsGiven ==
  ASSUME IType, GrantsInv, ScopesInv, GivenInv, NEW c \in Clients,
         CheckScope(c) \/ FindTarget(c) \/ FindAdmin(c) \/ CheckPermission(c) \/ Act(c)
  PROVE  GivenInv'
<1> Requested
  BY DEF IType, TypeOK, Requested
<1>1. /\ \A d \in Clients \ {c} : request'[d] = request[d]
      /\ UNCHANGED <<grants, scopes, asked, entrusted>>
  BY AskOrLookup
<1>2. ASSUME NEW d \in Clients \ {c} PROVE Covered(d)' /\ Passed(d)'
  <2>1. given'[d] = given[d]
    BY DEF CheckScope, FindTarget, FindAdmin, CheckPermission, Act, Done, IType, History
  <2> QED  BY <1>1, <2>1 DEF GivenInv, Covered, Passed
<1>3. CASE Done(c)
  <2>1. request'[c].pc = "idle"
    BY <1>3, DoneKeeps
  <2> QED  BY <1>2, <2>1 DEF GivenInv, Covered, Passed
<1>4. CASE At(c, "scope") /\ InScope(request[c]) /\ Go(c, "target") /\ UNCHANGED given
  <2>1. /\ request'[c].pc = "target" /\ request'[c].user = request[c].user
        /\ request'[c].role = request[c].role /\ request'[c].bucket = request[c].bucket
    BY <1>4, GoKeeps DEF Pcs
  <2>2. request[c].user \in Users /\ Covered(c)
    BY <1>4 DEF IType, Formed, WellFormed, At, GivenInv
  <2>3. scopes[request[c].user] \subseteq UNION entrusted[request[c].user]
    BY <2>2 DEF ScopesInv, ScopesAreAskedFor
  <2>4. request[c].role = "ADMIN" => request[c].bucket \in given[c]
    BY <1>4, <2>2, <2>3 DEF InScope, Covered, At
  <2>5. Covered(c)' /\ Passed(c)'
    BY <1>1, <1>4, <2>1, <2>2, <2>4 DEF Covered, Passed, At
  <2> QED  BY <1>2, <2>5 DEF GivenInv
<1>5. CASE UNCHANGED given /\ \/ At(c, "target") /\ Go(c, "revoke")
                              \/ At(c, "admin") /\ Go(c, "clear")
  <2>1. /\ request'[c].pc \in {"revoke", "clear"}
        /\ request'[c].pc = "revoke" => request[c].pc = "target"
        /\ request[c].pc # "idle" /\ request'[c].user = request[c].user
        /\ request'[c].role = request[c].role /\ request'[c].bucket = request[c].bucket
    BY <1>5, GoKeeps DEF Pcs, At
  <2>2. Covered(c)' /\ Passed(c)'
    BY <1>1, <1>5, <2>1 DEF GivenInv, Covered, Passed
  <2> QED  BY <1>2, <2>2 DEF GivenInv
<1>6. CASE /\ At(c, "check") /\ request[c].checks # <<>> /\ UNCHANGED given
           /\ MayUse(request[c], Head(request[c].checks))
           /\ request' = [request EXCEPT ![c].checks = Tail(@)]
  <2> DEFINE s == request[c].checks
  <2>1. /\ request'[c].pc = "check" /\ request'[c].user = request[c].user
        /\ request'[c].role = request[c].role /\ request'[c].bucket = request[c].bucket
        /\ request'[c].want = request[c].want /\ request'[c].checks = Tail(s)
    BY <1>6 DEF Requested, Requests, At
  <2>2. /\ request[c].user \in Users /\ request[c].bucket \in Buckets
        /\ Covered(c) /\ Passed(c) /\ s \in Seq(Permissions) /\ s # <<>>
    BY <1>6 DEF IType, Formed, WellFormed, At, GivenInv, Requested, Requests
  <2> DEFINE p == <<request[c].user, request[c].bucket>>
  <2>3. p \in Pairs /\ request[c].bucket # None
    BY <2>2, BucketsAssumption DEF Pairs
  <2>4. grants[p] \subseteq UNION asked[p]
    BY <2>3 DEF GrantsInv, GrantsAreAskedFor
  <2>5. request[c].role # "SUPER_ADMIN" => Head(s) \in given[c]
    BY <1>6, <2>2, <2>3, <2>4 DEF MayUse, Covered, At
  <2>6. Range(s) \subseteq {Head(s)} \cup Range(Tail(s))
    BY <2>2, TailRange
  <2>7. Covered(c)'
    BY <1>1, <1>6, <2>1, <2>2 DEF Covered, At
  <2>8. request[c].role # "SUPER_ADMIN" => request[c].want \subseteq given[c] \cup Range(Tail(s))
    BY <1>6, <2>2, <2>5, <2>6 DEF Passed, At
  <2>9. Passed(c)'
    BY <1>6, <2>1, <2>8 DEF Passed
  <2> QED  BY <1>2, <2>7, <2>9 DEF GivenInv
<1> QED  BY <1>3, <1>4, <1>5, <1>6
         DEF CheckScope, FindTarget, FindAdmin, CheckPermission, Act

\* A write changes what is asked for one user, and puts it in the given of every
\* request of that user.
LEMMA WriteKeepsGiven ==
  ASSUME IType, GivenInv, NEW c \in Clients,
         Revoke(c) \/ Grant(c) \/ ClearScopes(c) \/ AddScopes(c) \/ StatementFails(c)
  PROVE  GivenInv'
<1> Requested
  BY DEF IType, TypeOK, Requested
<1>1. CASE Revoke(c)
  <2> DEFINE q == Pair(c)
             P == request[c].want
  <2>1. /\ request'[c].pc = "grant" /\ request[c].pc = "revoke"
        /\ request'[c].user = request[c].user /\ request'[c].role = request[c].role
        /\ request'[c].bucket = request[c].bucket
        /\ \A d \in Clients \ {c} : request'[d] = request[d]
    BY <1>1, GoKeeps DEF Revoke, Pcs, At
  <2>2. q \in Pairs
    BY <1>1 DEF IType, Formed, WellFormed, Revoke, At, Pair, Pairs
  <2>3. /\ asked' = [asked EXCEPT ![q] = (IF Replacing(q) = {} THEN {} ELSE @) \cup {P}]
        /\ entrusted' = entrusted
        /\ given' = [d \in Clients |->
              IF ~At(d, "idle") /\ <<request[d].user, request[d].bucket>> = q
                 THEN given[d] \cup P ELSE given[d]]
    BY <1>1 DEF Revoke, NowAsked
  <2>4. asked \in [Pairs -> SUBSET SUBSET Permissions]
    BY DEF IType, History
  <2> HIDE DEF q, P
  <2>5. ASSUME NEW d \in Clients PROVE Covered(d)' /\ Passed(d)'
    <3>1. /\ request'[d].user = request[d].user /\ request'[d].bucket = request[d].bucket
          /\ request'[d].role = request[d].role
          /\ request'[d].pc = "idle" <=> request[d].pc = "idle"
          /\ \/ request'[d] = request[d]
             \/ request[d].pc = "revoke" /\ request'[d].pc = "grant"
      <4>1. CASE d = c
        BY <2>1, <4>1
      <4>2. CASE d # c
        BY <2>1, <4>2
      <4> QED  BY <4>1, <4>2
    <3>2. given[d] \subseteq given'[d] /\ Covered(d) /\ Passed(d)
      BY <2>3 DEF GivenInv
    <3>3. Passed(d)'
      BY <3>1, <3>2 DEF Passed
    <3>4. ASSUME request[d].pc # "idle", request[d].bucket # None
          PROVE  UNION asked'[<<request[d].user, request[d].bucket>>] \subseteq given'[d]
      <4>1. <<request[d].user, request[d].bucket>> \in Pairs
        BY <3>4 DEF IType, Formed, WellFormed, Requested, Requests, Pairs
      <4>2. CASE <<request[d].user, request[d].bucket>> = q
        <5>1. given'[d] = given[d] \cup P /\ UNION asked[q] \subseteq given[d]
          BY <2>3, <3>2, <3>4, <4>2 DEF Covered, At
        <5>2. UNION asked'[q] \subseteq (UNION asked[q]) \cup P
          BY <2>2, <2>3, <2>4
        <5> QED  BY <4>2, <5>1, <5>2
      <4>3. CASE <<request[d].user, request[d].bucket>> # q
        BY <2>3, <2>4, <3>2, <3>4, <4>1, <4>3 DEF Covered
      <4> QED  BY <4>2, <4>3
    <3>5. Covered(d)'
      BY <2>3, <3>1, <3>2, <3>4 DEF Covered
    <3> QED  BY <3>3, <3>5
  <2> QED  BY <2>5 DEF GivenInv
<1>2. CASE ClearScopes(c)
  <2> DEFINE t == request[c].target
             B == request[c].want
  <2>1. /\ request'[c].pc = "add" /\ request[c].pc = "clear"
        /\ request'[c].user = request[c].user /\ request'[c].bucket = request[c].bucket
        /\ \A d \in Clients \ {c} : request'[d] = request[d]
    BY <1>2, GoKeeps DEF ClearScopes, Pcs, At
  <2>2. t \in Users
    BY <1>2 DEF IType, Formed, WellFormed, ClearScopes, At
  <2>3. /\ entrusted' = [entrusted EXCEPT ![t] = (IF Rescoping(t) = {} THEN {} ELSE @) \cup {B}]
        /\ asked' = asked
        /\ given' = [d \in Clients |-> IF ~At(d, "idle") /\ request[d].user = t
                                          THEN given[d] \cup B ELSE given[d]]
    BY <1>2 DEF ClearScopes, NowEntrusted
  <2>4. entrusted \in [Users -> SUBSET SUBSET Buckets]
    BY DEF IType, History
  <2> HIDE DEF t, B
  <2>5. ASSUME NEW d \in Clients PROVE Covered(d)' /\ Passed(d)'
    <3>1. /\ request'[d].user = request[d].user /\ request'[d].bucket = request[d].bucket
          /\ request'[d].pc = "idle" <=> request[d].pc = "idle"
          /\ request'[d] = request[d] \/ request'[d].pc = "add"
      BY <2>1
    <3>2. given[d] \subseteq given'[d] /\ Covered(d) /\ Passed(d)
      BY <2>3 DEF GivenInv
    <3>3. Passed(d)'
      BY <3>1, <3>2 DEF Passed
    <3>4. ASSUME request[d].pc # "idle"
          PROVE  UNION entrusted'[request[d].user] \subseteq given'[d]
      <4>1. request[d].user \in Users
        BY <3>4 DEF IType, Formed, WellFormed
      <4>2. CASE request[d].user = t
        <5>1. given'[d] = given[d] \cup B /\ UNION entrusted[t] \subseteq given[d]
          BY <2>3, <3>2, <3>4, <4>2 DEF Covered, At
        <5>2. UNION entrusted'[t] \subseteq (UNION entrusted[t]) \cup B
          BY <2>2, <2>3, <2>4
        <5> QED  BY <4>2, <5>1, <5>2
      <4>3. CASE request[d].user # t
        BY <2>3, <2>4, <3>2, <3>4, <4>1, <4>3 DEF Covered
      <4> QED  BY <4>2, <4>3
    <3>5. Covered(d)'
      BY <2>3, <3>1, <3>2, <3>4 DEF Covered
    <3> QED  BY <3>3, <3>5
  <2> QED  BY <2>5 DEF GivenInv
<1>3. CASE Grant(c) \/ AddScopes(c) \/ StatementFails(c)
  <2>1. /\ request'[c].pc = "idle"
        /\ \A d \in Clients \ {c} : request'[d] = request[d] /\ given'[d] = given[d]
    BY <1>3, DoneKeeps DEF Grant, AddScopes, StatementFails, Done, IType, History
  <2>2. /\ asked' = asked \/ asked' = [asked EXCEPT ![Pair(c)] = @ \cup {{}}]
        /\ \/ entrusted' = entrusted
           \/ entrusted' = [entrusted EXCEPT ![request[c].target] = @ \cup {{}}]
    BY <1>3 DEF Grant, AddScopes, StatementFails
  <2>3. /\ \A p \in Pairs : UNION asked'[p] \subseteq UNION asked[p]
        /\ \A u \in Users : UNION entrusted'[u] \subseteq UNION entrusted[u]
    BY <2>2 DEF IType, History
  <2>4. ASSUME NEW d \in Clients \ {c} PROVE Covered(d)' /\ Passed(d)'
    <3>1. request[d].pc # "idle" => request[d].user \in Users
      BY DEF IType, Formed, WellFormed
    <3>2. request[d].pc # "idle" /\ request[d].bucket # None
             => <<request[d].user, request[d].bucket>> \in Pairs
      BY <3>1 DEF Requested, Requests, Pairs
    <3> QED  BY <2>1, <2>3, <3>1, <3>2 DEF GivenInv, Covered, Passed
  <2>5. Covered(c)' /\ Passed(c)'
    BY <2>1 DEF Covered, Passed
  <2> QED  BY <2>4, <2>5 DEF GivenInv
<1> QED  BY <1>1, <1>2, <1>3

AllInv == IType /\ GrantsInv /\ ScopesInv /\ GivenInv

LEMMA AllInit == Init => AllInv
<1>1. Init => GivenInv
  BY QuietType DEF Init, GivenInv, Covered, Passed
<1> QED  BY <1>1, InitTypes, GrantsInit, ScopesInit DEF AllInv

LEMMA AllInductive == AllInv /\ [Next]_vars => AllInv'
<1>1. ASSUME AllInv, NEW c \in Clients, Serve(c) PROVE GivenInv'
  BY <1>1, LookupKeepsGiven, WriteKeepsGiven DEF Serve, AllInv
<1>2. ASSUME AllInv, UNCHANGED <<request, asked, entrusted, given>> PROVE GivenInv'
  BY <1>2 DEF AllInv, GivenInv, Covered, Passed
<1>3. ASSUME AllInv,
             \/ ChangeRole \/ GarageChanges
             \/ \E e \in Executions : ListBuckets(e) \/ GoOn(e) \/ SyncFails(e)
      PROVE  GivenInv'
  BY <1>2, <1>3
     DEF ChangeRole, GarageChanges, ListBuckets, GoOn, UpsertBucket, SyncFails
<1>4. ASSUME AllInv, Next PROVE GivenInv'
  BY <1>1, <1>3, <1>4, AskKeepsGiven, WriteKeepsGiven DEF Next, AllInv
<1>5. ASSUME AllInv, UNCHANGED vars PROVE GivenInv'
  BY <1>2, <1>5 DEF vars
<1> QED  BY <1>4, <1>5, TypeInductive, GrantsInductive, ScopesInductive DEF AllInv

\* A files request acts only with permissions that were given to its user, by
\* requests of which none was replaced before it was sent, although the guard and
\* the service read the grants one after the other and before the call to S3.
THEOREM FilesAreGranted == Spec => []OperationsAreGranted
<1>1. AllInv => OperationsAreGranted
  <2> SUFFICES ASSUME AllInv, NEW c \in Clients, At(c, "check"), request[c].checks = <<>>,
                      request[c].role # "SUPER_ADMIN"
               PROVE  request[c].want \subseteq given[c]
    BY DEF OperationsAreGranted
  <2>1. Range(request[c].checks) = {}
    BY DEF Range
  <2> QED  BY <2>1 DEF AllInv, GivenInv, Passed, At
<1> QED  BY <1>1, AllInit, AllInductive, PTL DEF Spec

\* An administrator grants only on buckets of the scopes that were given to the
\* administrator, the check being a statement of its own.
THEOREM ScopesAreObserved == Spec => []ChangesAreInScope
<1>1. AllInv => ChangesAreInScope
  BY DEF AllInv, GivenInv, Passed, ChangesAreInScope
<1> QED  BY <1>1, AllInit, AllInductive, PTL DEF Spec
=============================================================================
